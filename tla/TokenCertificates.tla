------------------------- MODULE TokenCertificates -------------------------
(***************************************************************************)
(* Which certificate of a PKCS#11 token signs (pkcs11_utils.py): what can  *)
(* be checked before the login, and the choice after it.  A certificate is *)
(* a record [id, from, until, public, key, score]: its object ID, the days *)
(* it is valid, whether it is listed without a login, whether its private  *)
(* key is on the token, and how much it looks like the identity            *)
(* certificate of a cedula.                                                *)
(***************************************************************************)
EXTENDS Integers, FiniteSets

CONSTANTS Ids,     \* the object IDs --cert-id may ask for
          NoId     \* no --cert-id

ASSUME NoIdAssumption == NoId \notin Ids

Expired(c, day)     == day > c.until
NotYetValid(c, day) == day < c.from
InValidity(c, day)  == ~Expired(c, day) /\ ~NotYetValid(c, day)

\* What a session sees: private objects only once it is logged in.
Visible(certs, loggedIn) == {c \in certs : loggedIn \/ c.public}

Matching(certs, id) == {c \in certs : id = NoId \/ c.id = id}

ValidOf(certs, id, day) == {c \in Matching(certs, id) : InValidity(c, day)}

\* "ok", or the error usable_certificates raises.
UsableVerdict(certs, id, day) ==
  CASE Matching(certs, id) = {}     -> "not_found"
    [] ValidOf(certs, id, day) = {} -> "not_valid"
    [] OTHER                        -> "ok"

\* Mutant: a certificate that could not be read counts as one that is not there.
VerdictBeforeLoginAnyway(seen, lost, id, day) ==
  IF seen = {} THEN "ok" ELSE UsableVerdict(seen \ lost, id, day)

\* check_certificate_before_login.  read_certificates skips and counts an object it cannot
\* read, here one of lost: nothing visible, or anything lost, proves nothing.
VerdictBeforeLogin(seen, lost, id, day) ==
  IF seen = {} \/ lost # {} THEN "ok" ELSE UsableVerdict(seen, id, day)

WithKey(certs) == {c \in certs : c.key}
Best(certs)    == {c \in certs : \A d \in certs : d.score <= c.score}

\* select_certificate: the error it raises, or "ok".
SelectVerdict(read, id, day) ==
  IF UsableVerdict(read, id, day) # "ok" THEN UsableVerdict(read, id, day)
  ELSE IF WithKey(ValidOf(read, id, day)) = {} THEN "no_key" ELSE "ok"

\* Mutant: the best certificate, whether or not its key is here.
SelectableKeyless(read, id, day) == Best(ValidOf(read, id, day))

\* The certificates it may return: the sort keeps the token's order among equals.
Selectable(read, id, day) == Best(WithKey(ValidOf(read, id, day)))
=============================================================================
