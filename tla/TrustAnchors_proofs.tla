------------------------- MODULE TrustAnchors_proofs -------------------------
(***************************************************************************)
(* Theorems about TrustAnchors, for any number of calls and of versions,   *)
(* whatever the servers do and whenever calls are killed.                  *)
(***************************************************************************)
EXTENDS TrustAnchors, TLAPS

-----------------------------------------------------------------------------
(* Types.                                                                    *)

\* What one call does to its own place, its outcome and what it holds keeps them typed.
CallTyped ==
  /\ stage \in [Calls -> Stages] /\ outcome \in [Calls -> Outcomes]
  /\ got \in [Calls -> [Files -> Contents]]
FetchTyped ==
  /\ file \in [Fetchers -> Files] /\ local \in [Fetchers -> SUBSET Certs]
  /\ source \in [Fetchers -> {1, 2}] /\ attempt \in [Fetchers -> 0..(Retries - 1)]
DirectoryTyped ==
  /\ server \in [Urls -> Service] /\ version \in [Calls -> Versions]
  /\ cache \in [Files -> Contents] /\ temp \subseteq Fetchers \X Files
  /\ wrote \in [Fetchers -> SUBSET Files]

LEMMA TypeParts ==
  /\ TypeOK <=> CallTyped /\ FetchTyped /\ DirectoryTyped
  /\ TypeOK' <=> CallTyped' /\ FetchTyped' /\ DirectoryTyped'
BY DEF TypeOK, CallTyped, FetchTyped, DirectoryTyped

\* There is one source of the root and there are two of the intermediate.
LEMMA SourceCount == Len(Sources["root"]) = 1 /\ Len(Sources["inter"]) = 2
BY DEF Sources

\* The pinned pair is a pair of certificates.
LEMMA PairTyped ==
  ASSUME NEW v \in Versions
  PROVE Pair(v) \in [Files -> Contents] /\ \A f \in Files : Pair(v)[f] \in Certs
BY AnchorAssumption DEF Pair, Files, Contents

\* A call that ends, and with it what it held.
LEMMA LeaveTyped ==
  ASSUME CallTyped, FetchTyped, NEW p \in Fetchers, NEW how \in Outcomes, Leave(p, how)
  PROVE CallTyped' /\ FetchTyped'
<1>1. Nothing \in [Files -> Contents]
  BY DEF Nothing, Contents, NotCerts
<1>2. 0 \in 0..(Retries - 1)
  BY AnchorAssumption
<1>3. CallTyped'
  BY <1>1 DEF CallTyped, Leave, End, Stages
<1>4. FetchTyped'
  BY <1>2 DEF FetchTyped, Leave, Files
<1>5. QED
  BY <1>3, <1>4

\* Keeping a certificate.
LEMMA HaveTyped ==
  ASSUME got \in [Calls -> [Files -> Contents]], NEW c \in Calls, NEW f \in Files,
         NEW what \in Contents, Have(c, f, what)
  PROVE got' \in [Calls -> [Files -> Contents]]
BY DEF Have

\* Accepting one, with either file in hand.
LEMMA AcceptTyped ==
  ASSUME CallTyped, FetchTyped, NEW p \in Fetchers, NEW c \in Certs, Accept(p, c)
  PROVE CallTyped' /\ FetchTyped'
<1>0. p \in Calls /\ c \in Contents /\ 0 \in 0..(Retries - 1) /\ {"root", "inter"} = Files
  BY AnchorAssumption DEF Calls, Contents, Files
<1>1. CASE Leave(p, "refused")
  BY <1>1, LeaveTyped DEF Outcomes
<1>2. CASE /\ Have(p, "root", c)
           /\ file' = [file EXCEPT ![p] = "inter"]
           /\ source' = [source EXCEPT ![p] = 1] /\ attempt' = [attempt EXCEPT ![p] = 0]
           /\ UNCHANGED <<stage, outcome, local>>
  BY <1>0, <1>2, HaveTyped DEF CallTyped, FetchTyped
<1>3. CASE /\ Go(p, "write") /\ Have(p, "inter", c)
           /\ file' = [file EXCEPT ![p] = "root"]
           /\ UNCHANGED <<local, download>>
  BY <1>0, <1>3, HaveTyped DEF CallTyped, FetchTyped, Go, Stages, download
<1>4. QED
  BY <1>1, <1>2, <1>3 DEF Accept

\* Going to the next source, or to the end.
LEMMA NextSourceTyped ==
  ASSUME CallTyped, FetchTyped, NEW p \in Fetchers, NextSource(p)
  PROVE CallTyped' /\ FetchTyped'
<1>1. CASE Leave(p, "unavailable")
  BY <1>1, LeaveTyped DEF Outcomes
<1>2. CASE /\ source[p] < Len(Sources[file[p]])
           /\ source' = [source EXCEPT ![p] = @ + 1]
           /\ attempt' = [attempt EXCEPT ![p] = 0]
           /\ UNCHANGED <<stage, outcome, file, local, got>>
  <2>1. source[p] + 1 \in {1, 2}
    <3>1. source[p] \in {1, 2} /\ file[p] \in {"root", "inter"}
      BY DEF FetchTyped, Files
    <3>2. CASE file[p] = "root"
      <4>1. source[p] < 1
        BY <1>2, <3>2, SourceCount
      <4>2. QED
        BY <3>1, <4>1
    <3>3. CASE file[p] = "inter"
      <4>1. source[p] < 2
        BY <1>2, <3>3, SourceCount
      <4>2. QED
        BY <3>1, <4>1
    <3>4. QED
      BY <3>1, <3>2, <3>3
  <2>2. 0 \in 0..(Retries - 1)
    BY AnchorAssumption
  <2>3. QED
    BY <1>2, <2>1, <2>2 DEF CallTyped, FetchTyped
<1>3. QED
  BY <1>1, <1>2 DEF NextSource

\* Falling back on what was installed.
LEMMA FallBackTyped ==
  ASSUME CallTyped, NEW r \in Readers, version \in [Calls -> Versions], FallBack(r)
  PROVE CallTyped'
<1>1. r \in Calls
  BY DEF Calls
<1>2. Pair(version[r]) \in [Files -> Contents] /\ Nothing \in [Files -> Contents]
  BY <1>1, PairTyped DEF Nothing, Contents, NotCerts
<1>3. [Pair(version[r]) EXCEPT !["inter"] = "absent"] \in [Files -> Contents]
  BY <1>2 DEF Contents, NotCerts
<1>4. PICK pair \in [Files -> Contents], how \in Outcomes :
         End(r, how) /\ got' = [got EXCEPT ![r] = pair]
  BY <1>2, <1>3 DEF FallBack, Outcomes
<1>5. QED
  BY <1>1, <1>4 DEF CallTyped, End, Stages

\* Each step of a fetch keeps the types.
LEMMA FetchTypeStep ==
  ASSUME TypeOK, NEW p \in Fetchers, Fetch(p) \/ Kill(p)
  PROVE TypeOK'
<1> USE TypeParts DEF world, download
<1>0. p \in Calls /\ CallTyped /\ FetchTyped /\ DirectoryTyped
  BY DEF Calls
<1>1. CASE ReadSourceFiles(p)
  <2>1. DirectoryTyped'
    BY <1>0, <1>1 DEF ReadSourceFiles, DirectoryTyped
  <2>2. CallTyped' /\ FetchTyped'
    <3>1. CASE Leave(p, "refused")
      BY <1>0, <3>1, LeaveTyped DEF Outcomes
    <3>2. ASSUME NEW supplied \in Supplies, local' = [local EXCEPT ![p] = supplied],
                 Go(p, "get"), UNCHANGED <<file, download, got>>
          PROVE CallTyped' /\ FetchTyped'
      <4>1. supplied \in SUBSET Certs
        BY AnchorAssumption
      <4>2. QED
        BY <1>0, <3>2, <4>1 DEF Go, CallTyped, FetchTyped, Stages
    <3>3. QED
      BY <1>1, <3>1, <3>2 DEF ReadSourceFiles
  <2>3. QED
    BY <2>1, <2>2
<1>2. CASE UseSupplied(p)
  <2>1. DirectoryTyped'
    BY <1>0, <1>2 DEF UseSupplied, DirectoryTyped
  <2>2. Wanted(p) \in Certs
    BY <1>0, PairTyped DEF Wanted, FetchTyped, DirectoryTyped
  <2>3. QED
    BY <1>0, <1>2, <2>1, <2>2, AcceptTyped DEF UseSupplied
<1>3. CASE AttemptFails(p)
  <2>1. DirectoryTyped'
    BY <1>0, <1>3 DEF AttemptFails, DirectoryTyped
  <2>2. CallTyped' /\ FetchTyped'
    <3>1. CASE NextSource(p)
      BY <1>0, <3>1, NextSourceTyped
    <3>2. CASE attempt[p] < Retries - 1 /\ attempt' = [attempt EXCEPT ![p] = @ + 1]
               /\ UNCHANGED <<stage, outcome, file, local, got, source>>
      <4>1. attempt[p] + 1 \in 0..(Retries - 1)
        BY <1>0, <3>2, AnchorAssumption DEF FetchTyped
      <4>2. QED
        BY <1>0, <3>2, <4>1 DEF CallTyped, FetchTyped
    <3>3. QED
      BY <1>3, <3>1, <3>2 DEF AttemptFails
  <2>3. QED
    BY <2>1, <2>2
<1>4. CASE AttemptIsRefused(p)
  <2>1. DirectoryTyped'
    BY <1>0, <1>4 DEF AttemptIsRefused, DirectoryTyped
  <2>2. QED
    BY <1>0, <1>4, <2>1, NextSourceTyped DEF AttemptIsRefused
<1>5. CASE AttemptAnswered(p)
  <2>1. DirectoryTyped'
    BY <1>0, <1>5 DEF AttemptAnswered, DirectoryTyped
  <2>2. QED
    BY <1>0, <1>5, <2>1, AcceptTyped, LeaveTyped DEF AttemptAnswered, Outcomes
<1>6. CASE MakeTemporary(p)
  <2>1. temp' \subseteq Fetchers \X Files
    BY <1>0, <1>6 DEF MakeTemporary, DirectoryTyped, FetchTyped
  <2>2. DirectoryTyped'
    BY <1>0, <1>6, <2>1 DEF MakeTemporary, DirectoryTyped
  <2>3. CallTyped' /\ FetchTyped'
    <3>1. CASE Leave(p, "unwritten")
      BY <1>0, <3>1, LeaveTyped DEF Outcomes
    <3>2. CASE Go(p, "replace") /\ UNCHANGED <<file, local, download, got>>
      BY <1>0, <3>2 DEF Go, CallTyped, FetchTyped, Stages
    <3>3. QED
      BY <1>6, <3>1, <3>2 DEF MakeTemporary
  <2>4. QED
    BY <2>2, <2>3
<1>7. CASE Replace(p)
  <2>1. file[p] \in Files /\ got[p][file[p]] \in Contents
    BY <1>0 DEF CallTyped, FetchTyped
  <2>2. DirectoryTyped'
    BY <1>0, <1>7, <2>1 DEF Replace, DirectoryTyped
  <2>3. CallTyped' /\ FetchTyped'
    <3>1. CASE Leave(p, "cached")
      BY <1>0, <3>1, LeaveTyped DEF Outcomes
    <3>2. CASE Go(p, "write") /\ file' = [file EXCEPT ![p] = "inter"] /\ UNCHANGED <<local, download, got>>
      BY <1>0, <3>2 DEF Go, CallTyped, FetchTyped, Stages, Files
    <3>3. QED
      BY <1>7, <3>1, <3>2 DEF Replace
  <2>4. QED
    BY <2>2, <2>3
<1>8. CASE WriteFails(p)
  <2>1. DirectoryTyped'
    BY <1>0, <1>8 DEF WriteFails, DirectoryTyped
  <2>2. QED
    BY <1>0, <1>8, <2>1, LeaveTyped DEF WriteFails, Outcomes
<1>9. CASE Kill(p)
  <2>1. DirectoryTyped'
    BY <1>0, <1>9 DEF Kill, DirectoryTyped
  <2>2. QED
    BY <1>0, <1>9, <2>1, LeaveTyped DEF Kill, Outcomes
<1>10. QED
  BY <1>1, <1>2, <1>3, <1>4, <1>5, <1>6, <1>7, <1>8, <1>9 DEF Fetch

\* Each step of a verification does.
LEMMA LoadTypeStep ==
  ASSUME TypeOK, NEW r \in Readers, Load(r)
  PROVE TypeOK'
<1> USE TypeParts DEF world, download
<1>0. r \in Calls /\ CallTyped /\ FetchTyped /\ DirectoryTyped
  BY DEF Calls
<1>1. FetchTyped' /\ DirectoryTyped'
  BY <1>0 DEF Load, Resolve, SeeInter, ReadRoot, ReadInter, KeepFetches, FetchTyped, DirectoryTyped
<1>2. CASE FallBack(r)
  BY <1>0, <1>1, <1>2, FallBackTyped DEF DirectoryTyped
<1>3. CASE (\E to \in Stages : Go(r, to)) /\ UNCHANGED got
  BY <1>0, <1>1, <1>3 DEF Go, CallTyped
<1>4. CASE (\E how \in Outcomes : End(r, how)) /\ UNCHANGED got
  BY <1>0, <1>1, <1>4 DEF End, CallTyped, Stages
<1>5. CASE Go(r, "read inter") /\ Have(r, "root", cache["root"])
  <2>1. got' \in [Calls -> [Files -> Contents]]
    BY <1>0, <1>5, HaveTyped DEF CallTyped, DirectoryTyped, Files
  <2>2. QED
    BY <1>0, <1>1, <1>5, <2>1 DEF Go, CallTyped, Stages
<1>6. CASE End(r, "cached") /\ Have(r, "inter", cache["inter"])
  <2>1. got' \in [Calls -> [Files -> Contents]]
    BY <1>0, <1>6, HaveTyped DEF CallTyped, DirectoryTyped, Files
  <2>2. QED
    BY <1>0, <1>1, <1>6, <2>1 DEF End, CallTyped, Stages, Outcomes
<1>7. QED
  BY <1>2, <1>3, <1>4, <1>5, <1>6
  DEF Load, Resolve, SeeInter, ReadRoot, ReadInter, Stages, Outcomes

LEMMA TypeInit == Init => TypeOK
<1> SUFFICES ASSUME Init PROVE TypeOK
  OBVIOUS
<1>1. 0 \in 0..(Retries - 1) /\ Nothing \in [Files -> Contents] /\ "root" \in Files
  BY AnchorAssumption DEF Nothing, Contents, NotCerts, Files
<1>2. server \in [Urls -> Service]
  BY AnchorAssumption DEF Init
<1>3. QED
  BY <1>1, <1>2 DEF Init, TypeOK, Stages, Outcomes

\* Every reachable state is well typed: no fetch makes more attempts than _RETRIES, or asks a
\* source that is not there (_download, _download_first).
THEOREM TypeCorrect == Spec => []TypeOK
<1>1. TypeOK /\ [Next]_vars => TypeOK'
  <2> SUFFICES ASSUME TypeOK, [Next]_vars PROVE TypeOK'
    OBVIOUS
  <2>1. CASE UNCHANGED vars
    BY <2>1 DEF vars, world, download, TypeOK
  <2>2. QED
    BY <2>1, FetchTypeStep, LoadTypeStep DEF Next
<1>2. QED
  BY <1>1, TypeInit, PTL DEF Spec

-----------------------------------------------------------------------------
(* Safety.                                                                   *)

\* Where a fetch has written, and what it holds there.
FetchAt(p) ==
  /\ stage[p] \in {"begin", "get"} => wrote[p] = {}
  /\ stage[p] = "begin" => file[p] = "root"
  /\ stage[p] = "get" /\ file[p] = "inter" => got[p]["root"] = RootPin[version[p]]
  /\ stage[p] \in {"write", "replace"} =>
       /\ got[p] = Pair(version[p])
       /\ wrote[p] = IF file[p] = "root" THEN {} ELSE {"root"}
  /\ \A f \in Files : <<p, f>> \in temp =>
       /\ (stage[p] = "replace" /\ f = file[p]) \/ outcome[p] \in {"stranded", "killed"}
       /\ f \notin wrote[p]
  /\ outcome[p] = "cached" => wrote[p] = Files
  /\ outcome[p] \in {"refused", "unavailable"} => wrote[p] = {}
FetchInv == \A p \in Fetchers : FetchAt(p)

\* A call that has not ended has no outcome.
OutcomeInv == \A c \in Calls : stage[c] # "done" => outcome[c] = "none"

\* What fetches of one version have replaced is that version's.
OneVersion(p) == \A q \in Fetchers : wrote[q] # {} => version[q] = version[p]
WrittenInv ==
  \A p \in Fetchers : OneVersion(p) => \A f \in wrote[p] : cache[f] = Pair(version[p])[f]

SafetyInv == FetchInv /\ OutcomeInv /\ WrittenInv /\ OnlyPinned

\* A fetch leaves every other call, and its temporary files, alone.
LEMMA FetchElsewhere ==
  ASSUME TypeOK, NEW p \in Fetchers, Fetch(p) \/ Kill(p)
  PROVE /\ \A c \in Calls \ {p} :
             stage'[c] = stage[c] /\ outcome'[c] = outcome[c] /\ got'[c] = got[c]
        /\ \A q \in Fetchers \ {p} : /\ file'[q] = file[q] /\ wrote'[q] = wrote[q]
                                     /\ \A f \in Files : <<q, f>> \in temp' <=> <<q, f>> \in temp
        /\ version' = version
<1> DEFINE Stays == \A c \in Calls \ {p} :
                      stage'[c] = stage[c] /\ outcome'[c] = outcome[c] /\ got'[c] = got[c]
           FileStays == \A q \in Fetchers \ {p} : file'[q] = file[q]
<1> USE DEF TypeOK
<1>1. ASSUME NEW how, Leave(p, how) PROVE Stays /\ FileStays
  BY <1>1 DEF Leave, End
<1>2. ASSUME NEW c, Accept(p, c) PROVE Stays /\ FileStays
  BY <1>1, <1>2 DEF Accept, Have, Go, download
<1>3. ASSUME NextSource(p) PROVE Stays /\ FileStays
  BY <1>1, <1>3 DEF NextSource
<1>4. Stays /\ FileStays
  BY <1>1, <1>2, <1>3
  DEF Fetch, ReadSourceFiles, UseSupplied, AttemptFails, AttemptIsRefused, AttemptAnswered,
      MakeTemporary, Replace, WriteFails, Kill, Go
<1>5. \A q \in Fetchers \ {p} : /\ wrote'[q] = wrote[q]
                                /\ \A f \in Files : <<q, f>> \in temp' <=> <<q, f>> \in temp
  BY DEF Fetch, ReadSourceFiles, UseSupplied, AttemptFails, AttemptIsRefused, AttemptAnswered,
         MakeTemporary, Replace, WriteFails, Kill
<1>6. version' = version
  BY DEF Fetch, ReadSourceFiles, UseSupplied, AttemptFails, AttemptIsRefused, AttemptAnswered,
         MakeTemporary, Replace, WriteFails, Kill, world
<1>7. QED
  BY <1>4, <1>5, <1>6

\* A verification leaves every other call alone, and all that fetches work with.
LEMMA LoadElsewhere ==
  ASSUME TypeOK, NEW r \in Readers, Load(r)
  PROVE /\ \A c \in Calls \ {r} :
             stage'[c] = stage[c] /\ outcome'[c] = outcome[c] /\ got'[c] = got[c]
        /\ UNCHANGED <<version, cache, file, temp, wrote>>
BY DEF TypeOK, Load, Resolve, SeeInter, ReadRoot, ReadInter, FallBack, Go, End, Have,
       KeepFetches, world

\* What ends in some way satisfies what is asked of a fetch that did, if it may end so.
LEMMA LeaveKeeps ==
  ASSUME TypeOK, NEW p \in Fetchers, NEW how \in Outcomes, Leave(p, how),
         wrote'[p] = wrote[p],
         how \in {"refused", "unavailable"} => wrote[p] = {},
         how # "cached",
         \A f \in Files : <<p, f>> \in temp' => how \in {"stranded", "killed"} /\ f \notin wrote[p]
  PROVE FetchAt(p)'
<1>1. p \in Calls
  BY DEF Calls
<1>2. stage'[p] = "done" /\ outcome'[p] = how
  BY <1>1 DEF TypeOK, Leave, End
<1>3. QED
  BY <1>2 DEF FetchAt

\* Before it writes, a fetch has no temporary file.
LEMMA NoneYet ==
  ASSUME FetchInv, OutcomeInv, NEW p \in Fetchers, stage[p] \notin {"done", "replace"}
  PROVE \A f \in Files : <<p, f>> \notin temp
<1>1. outcome[p] = "none"
  BY DEF OutcomeInv, Calls
<1>2. QED
  BY <1>1 DEF FetchInv, FetchAt

\* Each step of a fetch keeps what is said of it.
LEMMA FetchStep ==
  ASSUME TypeOK, FetchInv, OutcomeInv, NEW p \in Fetchers, Fetch(p) \/ Kill(p)
  PROVE FetchAt(p)'
<1>0. /\ p \in Calls /\ FetchAt(p) /\ version[p] \in Versions /\ file[p] \in Files
      /\ got[p] \in [Files -> Contents]
  BY DEF Calls, FetchInv, TypeOK
<1>a. version' = version
  BY FetchElsewhere
<1>1. ASSUME stage[p] \in {"begin", "get"}, NEW how \in Outcomes, Leave(p, how), how # "cached",
             UNCHANGED <<temp, wrote>>
      PROVE FetchAt(p)'
  BY <1>0, <1>1, NoneYet, LeaveKeeps DEF FetchAt
<1>2. ASSUME stage[p] = "get", NEW c \in Certs, Accept(p, c), UNCHANGED <<temp, wrote>>
      PROVE FetchAt(p)'
  <2>1. CASE Leave(p, "refused")
    BY <1>1, <1>2, <2>1 DEF Outcomes
  <2>n. (\A f \in Files : <<p, f>> \notin temp') /\ wrote'[p] = {} /\ outcome[p] = "none"
    BY <1>0, <1>2, NoneYet DEF FetchAt, OutcomeInv
  <2>2. CASE /\ c = Wanted(p) /\ file[p] = "root" /\ Have(p, "root", c)
             /\ file' = [file EXCEPT ![p] = "inter"] /\ UNCHANGED <<stage, outcome>>
    <3>1. got'[p]["root"] = RootPin[version[p]]
      BY <1>0, <2>2 DEF Have, Wanted, Pair, TypeOK, Files
    <3>2. QED
      BY <1>2, <1>a, <2>2, <2>n, <3>1 DEF FetchAt
  <2>3. CASE /\ c = Wanted(p) /\ file[p] = "inter" /\ Go(p, "write") /\ Have(p, "inter", c)
             /\ file' = [file EXCEPT ![p] = "root"]
    <3>1. got[p]["root"] = RootPin[version[p]]
      BY <1>0, <1>2, <2>3 DEF FetchAt
    <3>2. got'[p] = [g \in Files |-> IF g = "inter" THEN c ELSE got[p][g]]
      BY <1>0, <2>3 DEF Have, TypeOK
    <3>3. Pair(version[p]) = [g \in Files |-> Pair(version[p])[g]]
      BY DEF Pair, Files
    <3>4. \A g \in Files : (IF g = "inter" THEN c ELSE got[p][g]) = Pair(version[p])[g]
      BY <2>3, <3>1 DEF Wanted, Pair, Files
    <3>5. got'[p] = Pair(version[p])
      BY <3>2, <3>3, <3>4
    <3>6. stage'[p] = "write" /\ outcome'[p] = "none" /\ file'[p] = "root"
      BY <1>0, <2>3, <2>n DEF Go, TypeOK
    <3>7. QED
      BY <1>a, <2>n, <3>5, <3>6 DEF FetchAt
  <2>4. QED
    BY <1>2, <2>1, <2>2, <2>3 DEF Accept
<1>3. ASSUME stage[p] = "get", UNCHANGED <<stage, outcome, file, got, temp, wrote>>
      PROVE FetchAt(p)'
  BY <1>0, <1>3, <1>a DEF FetchAt
<1>4. CASE ReadSourceFiles(p)
  <2>1. CASE Leave(p, "refused")
    BY <1>1, <1>4, <2>1 DEF ReadSourceFiles, Outcomes
  <2>2. CASE Go(p, "get") /\ UNCHANGED <<file, got>>
    <3>1. stage'[p] = "get" /\ outcome'[p] = "none" /\ file'[p] = file[p] /\ got' = got
      BY <1>0, <1>4, <2>2 DEF Go, TypeOK, ReadSourceFiles, OutcomeInv
    <3>2. (\A f \in Files : <<p, f>> \notin temp') /\ wrote'[p] = {}
      BY <1>0, <1>4, NoneYet DEF ReadSourceFiles, FetchAt
    <3>3. file[p] = "root"
      BY <1>0, <1>4 DEF ReadSourceFiles, FetchAt
    <3>4. QED
      BY <3>1, <3>2, <3>3 DEF FetchAt
  <2>3. QED
    BY <1>4, <2>1, <2>2 DEF ReadSourceFiles
<1>5. CASE UseSupplied(p)
  <2>1. Wanted(p) \in Certs
    BY <1>0, PairTyped DEF Wanted
  <2>2. QED
    BY <1>2, <1>5, <2>1 DEF UseSupplied
<1>6. ASSUME stage[p] = "get", NextSource(p), UNCHANGED <<temp, wrote>> PROVE FetchAt(p)'
  BY <1>1, <1>3, <1>6 DEF NextSource, Outcomes
<1>7. CASE AttemptFails(p) \/ AttemptIsRefused(p)
  BY <1>3, <1>6, <1>7 DEF AttemptFails, AttemptIsRefused, Asks
<1>8. CASE AttemptAnswered(p)
  BY <1>1, <1>2, <1>8 DEF AttemptAnswered, Asks, Outcomes
<1>9. CASE MakeTemporary(p)
  <2>1. outcome[p] = "none" /\ \A f \in Files : <<p, f>> \notin temp
    BY <1>0, <1>9, NoneYet DEF MakeTemporary, OutcomeInv
  <2>2. CASE Leave(p, "unwritten") /\ UNCHANGED temp
    BY <1>0, <1>9, <2>1, <2>2, LeaveKeeps DEF MakeTemporary, Outcomes
  <2>3. CASE Go(p, "replace") /\ temp' = temp \cup {<<p, file[p]>>}
             /\ UNCHANGED <<file, local, download, got>>
    <3>1. stage'[p] = "replace" /\ outcome'[p] = "none"
      BY <1>0, <2>1, <2>3 DEF Go, TypeOK
    <3>2. \A f \in Files : <<p, f>> \in temp' => f = file[p]
      BY <2>1, <2>3
    <3>3. /\ got'[p] = Pair(version[p]) /\ file[p] \notin wrote[p]
          /\ wrote[p] = IF file[p] = "root" THEN {} ELSE {"root"}
      BY <1>0, <1>9, <2>3 DEF MakeTemporary, FetchAt
    <3>4. QED
      BY <1>9, <1>a, <2>3, <3>1, <3>2, <3>3 DEF MakeTemporary, FetchAt
  <2>4. QED
    BY <1>9, <2>2, <2>3 DEF MakeTemporary
<1>10. CASE Replace(p)
  <2>1. outcome[p] = "none" /\ \A f \in Files : <<p, f>> \notin temp'
    BY <1>0, <1>10 DEF Replace, OutcomeInv, FetchAt
  <2>2. wrote'[p] = wrote[p] \cup {file[p]} /\ wrote[p] \subseteq Files
    BY <1>0, <1>10 DEF Replace, TypeOK
  <2>3. CASE file[p] = "root" /\ Go(p, "write") /\ file' = [file EXCEPT ![p] = "inter"]
             /\ UNCHANGED <<local, download, got>>
    <3>1. stage'[p] = "write" /\ outcome'[p] = "none"
      BY <1>0, <2>1, <2>3 DEF Go, TypeOK
    <3>2. got'[p] = Pair(version[p])
      BY <1>0, <1>10, <2>3 DEF Replace, FetchAt
    <3>3. wrote'[p] = {"root"} /\ file'[p] = "inter"
      BY <1>0, <1>10, <2>2, <2>3 DEF Replace, FetchAt, TypeOK
    <3>4. QED
      BY <1>a, <2>1, <2>3, <3>1, <3>2, <3>3 DEF FetchAt
  <2>4. CASE file[p] = "inter" /\ Leave(p, "cached")
    <3>1. stage'[p] = "done" /\ outcome'[p] = "cached"
      BY <1>0, <2>4 DEF Leave, End, TypeOK
    <3>2. wrote'[p] = Files
      BY <1>0, <1>10, <2>2, <2>4 DEF Replace, FetchAt, Files
    <3>3. QED
      BY <2>1, <3>1, <3>2 DEF FetchAt
  <2>5. QED
    BY <1>10, <2>3, <2>4 DEF Replace
<1>11. CASE WriteFails(p)
  <2>1. outcome[p] = "none" /\ wrote' = wrote
    BY <1>0, <1>11 DEF WriteFails, OutcomeInv
  <2>2. CASE Leave(p, "unwritten") /\ temp' = temp \ {<<p, file[p]>>}
    <3>1. \A f \in Files : <<p, f>> \notin temp'
      BY <1>0, <1>11, <2>1, <2>2 DEF WriteFails, FetchAt
    <3>2. QED
      BY <1>0, <2>1, <2>2, <3>1, LeaveKeeps DEF Outcomes
  <2>3. CASE Leave(p, "stranded") /\ UNCHANGED temp
    <3>1. \A f \in Files : <<p, f>> \in temp' => f \notin wrote[p]
      BY <1>0, <2>3 DEF FetchAt
    <3>2. QED
      BY <1>0, <2>1, <2>3, <3>1, LeaveKeeps DEF Outcomes
  <2>4. QED
    BY <1>11, <2>2, <2>3 DEF WriteFails
<1>12. CASE Kill(p)
  <2>1. \A f \in Files : <<p, f>> \in temp' => f \notin wrote[p]
    BY <1>0, <1>12 DEF FetchAt, Kill
  <2>2. QED
    BY <1>0, <1>12, <2>1, LeaveKeeps DEF Kill, Outcomes
<1>13. QED
  BY <1>4, <1>5, <1>7, <1>8, <1>9, <1>10, <1>11, <1>12 DEF Fetch

\* The invariant about fetches is kept.
LEMMA FetchInvStep ==
  ASSUME TypeOK, FetchInv, OutcomeInv, [Next]_vars
  PROVE FetchInv'
<1>1. CASE UNCHANGED vars
  BY <1>1 DEF vars, world, download, FetchInv, FetchAt
<1>2. ASSUME NEW p \in Fetchers, Fetch(p) \/ Kill(p) PROVE FetchInv'
  <2>1. ASSUME NEW q \in Fetchers, q # p PROVE FetchAt(q)'
    <3>1. /\ stage'[q] = stage[q] /\ outcome'[q] = outcome[q] /\ got'[q] = got[q]
          /\ file'[q] = file[q] /\ wrote'[q] = wrote[q] /\ version' = version
          /\ \A f \in Files : <<q, f>> \in temp' <=> <<q, f>> \in temp
      BY <1>2, <2>1, FetchElsewhere DEF Calls
    <3>2. QED
      BY <3>1 DEF FetchInv, FetchAt
  <2>2. QED
    BY <1>2, <2>1, FetchStep DEF FetchInv
<1>3. ASSUME NEW r \in Readers, Load(r) PROVE FetchInv'
  <2>1. ASSUME NEW q \in Fetchers PROVE FetchAt(q)'
    <3>1. q \in Calls \ {r}
      BY AnchorAssumption DEF Calls
    <3>2. /\ stage'[q] = stage[q] /\ outcome'[q] = outcome[q] /\ got'[q] = got[q]
          /\ UNCHANGED <<version, file, temp, wrote>>
      BY <1>3, <3>1, LoadElsewhere
    <3>3. QED
      BY <3>2 DEF FetchInv, FetchAt
  <2>2. QED
    BY <2>1 DEF FetchInv
<1>4. QED
  BY <1>1, <1>2, <1>3 DEF Next

\* Only an end gives a call its outcome.
LEMMA OutcomeStep ==
  ASSUME TypeOK, OutcomeInv, [Next]_vars
  PROVE OutcomeInv'
<1> USE DEF TypeOK, OutcomeInv
<1> DEFINE Ends(c) == stage' = [stage EXCEPT ![c] = "done"]
           Goes(c) == stage[c] # "done" /\ outcome' = outcome /\ \E to : stage' = [stage EXCEPT ![c] = to]
           Waits == UNCHANGED <<stage, outcome>>
<1>1. CASE Waits
  BY <1>1
<1>2. ASSUME NEW c \in Calls, Ends(c), \E how : outcome' = [outcome EXCEPT ![c] = how] PROVE OutcomeInv'
  BY <1>2
<1>3. ASSUME NEW c \in Calls, Goes(c) PROVE OutcomeInv'
  BY <1>3
<1>4. ASSUME NEW p \in Fetchers, Fetch(p) \/ Kill(p) PROVE OutcomeInv'
  <2>1. p \in Calls
    BY DEF Calls
  <2>2. ASSUME NEW how, Leave(p, how) PROVE OutcomeInv'
    BY <1>2, <2>1, <2>2 DEF Leave, End
  <2>3. ASSUME stage[p] # "done", NEW to, Go(p, to) PROVE OutcomeInv'
    BY <1>3, <2>1, <2>3 DEF Go
  <2>4. ASSUME stage[p] = "get", NEW c, Accept(p, c) PROVE OutcomeInv'
    BY <1>1, <2>2, <2>3, <2>4 DEF Accept
  <2>5. ASSUME NextSource(p) PROVE OutcomeInv'
    BY <1>1, <2>2, <2>5 DEF NextSource
  <2>6. QED
    BY <1>1, <1>4, <2>2, <2>3, <2>4, <2>5
    DEF Fetch, ReadSourceFiles, UseSupplied, AttemptFails, AttemptIsRefused, AttemptAnswered,
        MakeTemporary, Replace, WriteFails, Kill, Asks
<1>5. ASSUME NEW r \in Readers, Load(r) PROVE OutcomeInv'
  <2>1. r \in Calls
    BY DEF Calls
  <2>2. ASSUME NEW how, End(r, how) PROVE OutcomeInv'
    BY <1>2, <2>1, <2>2 DEF End
  <2>3. ASSUME stage[r] # "done", NEW to, Go(r, to) PROVE OutcomeInv'
    BY <1>3, <2>1, <2>3 DEF Go
  <2>4. QED
    BY <1>5, <2>2, <2>3 DEF Load, Resolve, SeeInter, ReadRoot, ReadInter, FallBack
<1>6. QED
  BY <1>1, <1>4, <1>5 DEF Next, vars

\* A replacement of one version's is that version's.
LEMMA WrittenStep ==
  ASSUME TypeOK, FetchInv, WrittenInv, [Next]_vars
  PROVE WrittenInv'
<1>1. CASE UNCHANGED <<cache, wrote, version>>
  BY <1>1 DEF WrittenInv, OneVersion
<1>2. ASSUME NEW q \in Fetchers, Replace(q) PROVE WrittenInv'
  <2> SUFFICES ASSUME NEW p \in Fetchers, OneVersion(p)', NEW f \in wrote'[p]
               PROVE cache'[f] = Pair(version[p])[f]
    BY <1>2 DEF WrittenInv, Replace, world
  <2>0. version' = version /\ wrote' = [wrote EXCEPT ![q] = @ \cup {file[q]}]
        /\ cache' = [cache EXCEPT ![file[q]] = got[q][file[q]]] /\ stage[q] = "replace"
    BY <1>2 DEF Replace, world
  <2>1. version[q] = version[p]
    BY <2>0 DEF OneVersion, TypeOK
  <2>2. got[q] = Pair(version[p])
    BY <2>0, <2>1 DEF FetchInv, FetchAt
  <2>3. f \in Files /\ file[q] \in Files
    BY <2>0 DEF TypeOK
  <2>4. CASE f = file[q]
    BY <2>0, <2>2, <2>3, <2>4 DEF TypeOK
  <2>5. CASE f # file[q]
    <3>1. f \in wrote[p]
      BY <2>0, <2>5 DEF TypeOK
    <3>2. OneVersion(p)
      BY <2>0 DEF OneVersion, TypeOK
    <3>3. QED
      BY <2>0, <2>3, <2>5, <3>1, <3>2 DEF WrittenInv, TypeOK
  <2>6. QED
    BY <2>4, <2>5
<1>3. ASSUME NEW p \in Fetchers, Fetch(p) \/ Kill(p), ~Replace(p) PROVE WrittenInv'
  BY <1>1, <1>3
  DEF Fetch, ReadSourceFiles, UseSupplied, AttemptFails, AttemptIsRefused, AttemptAnswered,
      MakeTemporary, WriteFails, Kill, world
<1>4. ASSUME NEW r \in Readers, Load(r) PROVE WrittenInv'
  BY <1>1, <1>4 DEF Load, Resolve, SeeInter, ReadRoot, ReadInter, KeepFetches, world
<1>5. QED
  BY <1>1, <1>2, <1>3, <1>4 DEF Next, vars, world

\* A verification takes a pair from the cache only if it is its own.
LEMMA PinnedStep ==
  ASSUME TypeOK, OutcomeInv, OnlyPinned, [Next]_vars
  PROVE OnlyPinned'
<1>1. CASE UNCHANGED vars
  BY <1>1 DEF vars, world, OnlyPinned
<1>2. ASSUME NEW p \in Fetchers, Fetch(p) \/ Kill(p) PROVE OnlyPinned'
  <2>1. \A r \in Readers : r \in Calls \ {p}
    BY AnchorAssumption DEF Calls
  <2>2. QED
    BY <1>2, <2>1, FetchElsewhere DEF OnlyPinned
<1>3. ASSUME NEW r \in Readers, Load(r) PROVE OnlyPinned'
  <2>1. r \in Calls /\ version' = version
    BY <1>3, LoadElsewhere DEF Calls
  <2>2. ASSUME NEW o \in Readers, o # r, outcome'[o] = "cached" PROVE got'[o] = Pair(version[o])
    <3>1. o \in Calls \ {r}
      BY <2>2 DEF Calls
    <3>2. QED
      BY <1>3, <2>2, <3>1, LoadElsewhere DEF OnlyPinned
  <2>3. ASSUME outcome'[r] = "cached" PROVE got'[r] = Pair(version[r])
    <3>1. stage[r] # "done" /\ outcome[r] = "none"
      BY <1>3, <2>1 DEF Load, Resolve, SeeInter, ReadRoot, ReadInter, OutcomeInv
    <3>2. ~FallBack(r) /\ outcome' # outcome
      BY <2>1, <2>3, <3>1 DEF FallBack, End, TypeOK
    <3>3. ReadInter(r)
      BY <1>3, <2>1, <2>3, <3>1, <3>2 DEF Load, Resolve, SeeInter, ReadRoot, Go, End, TypeOK
    <3>4. /\ [got[r] EXCEPT !["inter"] = cache["inter"]] = Pair(version[r])
          /\ Have(r, "inter", cache["inter"])
      BY <3>2, <3>3 DEF ReadInter
    <3>5. got'[r] = [g \in Files |-> IF g = "inter" THEN cache["inter"] ELSE got[r][g]]
      BY <2>1, <3>4 DEF Have, TypeOK
    <3>6. [got[r] EXCEPT !["inter"] = cache["inter"]]
            = [g \in Files |-> IF g = "inter" THEN cache["inter"] ELSE got[r][g]]
      BY <2>1 DEF TypeOK, Files
    <3>7. QED
      BY <3>4, <3>5, <3>6
  <2>4. QED
    BY <2>1, <2>2, <2>3 DEF OnlyPinned
<1>4. QED
  BY <1>1, <1>2, <1>3 DEF Next

\* The invariant, and what follows from it.
THEOREM Safe == Spec => []SafetyInv
<1>1. Init => SafetyInv
  BY DEF Init, SafetyInv, FetchInv, FetchAt, OutcomeInv, WrittenInv, OnlyPinned, Calls
<1>2. TypeOK /\ SafetyInv /\ [Next]_vars => SafetyInv'
  BY FetchInvStep, OutcomeStep, WrittenStep, PinnedStep DEF SafetyInv
<1>3. QED
  BY <1>1, <1>2, TypeCorrect, PTL DEF Spec

\* What a verification takes from the cache is the pair its own version pins, whoever writes
\* there between its two reads (load_cached_trust_anchors).
THEOREM PinnedOnly == Spec => []OnlyPinned
<1>1. SafetyInv => OnlyPinned
  BY DEF SafetyInv
<1>2. QED
  BY <1>1, Safe, PTL

\* A fetch that refuses, or finds nothing, has touched nothing, and only a killed one, or one that was
\* refused the removal and says so, leaves a temporary file (fetch_cas, _atomic_cache_write).
THEOREM RefusalsTouchNothing == Spec => []RefusedTouchesNothing
<1>1. TypeOK /\ SafetyInv => RefusedTouchesNothing
  <2> SUFFICES ASSUME TypeOK, SafetyInv, NEW p \in Fetchers
               PROVE /\ outcome[p] \in {"refused", "unavailable"} => wrote[p] = {}
                     /\ \A f \in Files : <<p, f>> \in temp =>
                          outcome[p] \in {"none", "stranded", "killed"} /\ f \notin wrote[p]
    BY DEF RefusedTouchesNothing
  <2>1. FetchAt(p) /\ (stage[p] # "done" => outcome[p] = "none")
    BY DEF SafetyInv, FetchInv, OutcomeInv, Calls
  <2>2. QED
    BY <2>1 DEF FetchAt
<1>2. QED
  BY <1>1, Safe, TypeCorrect, PTL

\* Once a fetch has returned, its pair is in the cache for as long as no version with other pins
\* writes there (fetch_cas).
THEOREM WhatWasFetchedIsThere == Spec => []FetchedIsFound
<1>1. TypeOK /\ SafetyInv => FetchedIsFound
  <2> SUFFICES ASSUME TypeOK, SafetyInv, NEW p \in Fetchers, outcome[p] = "cached", OneVersion(p)
               PROVE cache = Pair(version[p])
    BY DEF FetchedIsFound, OneVersion
  <2>1. wrote[p] = Files
    BY DEF SafetyInv, FetchInv, FetchAt
  <2>2. \A f \in Files : cache[f] = Pair(version[p])[f]
    BY <2>1 DEF SafetyInv, WrittenInv
  <2>3. cache \in [Files -> Contents] /\ Pair(version[p]) \in [Files -> Contents]
    BY PairTyped DEF TypeOK, Calls
  <2>4. QED
    BY <2>2, <2>3
<1>2. QED
  BY <1>1, Safe, TypeCorrect, PTL
=============================================================================
