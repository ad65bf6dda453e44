---------------------------- MODULE MCPinSession ----------------------------
(***************************************************************************)
(* Instances of PinSession for TLC: cards whose certificate is valid today, *)
(* tomorrow or no longer, and tokens with up to two certificates.          *)
(***************************************************************************)
EXTENDS PinSession

Certificate(id, from, until, public, key, score) ==
  [id |-> id, from |-> from, until |-> until, public |-> public, key |-> key, score |-> score]

\* Expired, expiring today, valid, not yet valid.
Validities == {<<0, -1>>, <<0, 0>>, <<0, 1>>, <<1, 1>>}
OneOf(id, score, validities) ==
  {Certificate(id, v[1], v[2], public, key, score) :
     v \in validities, public \in BOOLEAN, key \in BOOLEAN}
MCSigningCerts == {Certificate("a", v[1], v[2], TRUE, TRUE, 1) : v \in Validities}

\* One of each object ID, the second expired or valid, or one alone, or none.
ManyTokens == {{}} \cup {{c} : c \in OneOf("a", 1, Validities)}
                  \cup {{c, d} : c \in OneOf("a", 1, Validities),
                                 d \in OneOf("b", 2, {<<0, -1>>, <<0, 1>>})}
OneToken == {{Certificate("a", 0, 1, TRUE, TRUE, 1)}}

VARIABLE alone   \* one PKCS#11 session, on a token of any kind; or all of them, on one token

MCInit ==
  /\ Init /\ alone \in BOOLEAN
  /\ IF alone
     THEN tries = MaxTries /\ ef.until = 1 /\ \A s \in Native : wanted[s] = NoId
     ELSE token \in OneToken /\ ef.from = 0 /\ \A s \in Sessions : wanted[s] \notin Ids

\* Alone, the native sessions do not start, nobody else uses the card, the user knows it and signs
\* nothing with the certificate that is chosen.
\* Together, either somebody uses the card or midnight passes, and only the native ones sign a
\* second file.
MCNext ==
  /\ Next /\ UNCHANGED alone
  /\ IF alone
     THEN /\ others' = 0
          /\ \A s \in Native : pc'[s] = "start"
          /\ \A s \in Sessions : pin'[s] \in {"none", "right"} /\ pc'[s] # "sign"
     ELSE /\ others' + day' <= 1
          /\ \A s \in Sessions \ Native : files'[s] < MaxFiles
MCSpec == MCInit /\ [][MCNext]_<<vars, alone>>
=============================================================================
