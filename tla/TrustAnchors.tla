---------------------------- MODULE TrustAnchors ----------------------------
(***************************************************************************)
(* The national CA certificates a verification trusts (national_ca.py, and *)
(* _resolve_trust_anchors of _shared.py).  Every version of firmauy pins   *)
(* one root and one intermediate.  fetch_cas downloads what its source     *)
(* files do not supply, judges both certificates and puts them in a cache  *)
(* directory, one file after the other; a verification reads the two files *)
(* back, one after the other, and falls back to what it was installed      *)
(* with.  Calls are processes that share nothing but the directory, may be *)
(* of different versions, and may be killed while they fetch.              *)
(***************************************************************************)
EXTENDS Integers, Sequences

CONSTANTS
  Fetchers,     \* calls of fetch_cas
  Readers,      \* calls of _resolve_trust_anchors
  Versions,     \* versions of firmauy that share the cache directory
  Certs,        \* certificates there are
  RootPin,      \* version -> the root it pins (ACRN_SHA256)
  InterPin,     \* version -> the intermediate it pins (MICA_SHA256)
  Issued,       \* the pairs of a certificate and one it signed
  Supplies,     \* what source files may hold: sets of certificates
  Worlds,       \* what the servers may do: functions from Urls to Service
  Retries       \* _RETRIES

Calls == Fetchers \cup Readers
Files == {"root", "inter"}     \* acrn.pem and mica.pem
NotCerts == {"absent", "junk"}
Contents == Certs \cup NotCerts

\* ACRN_URL and MICA_URLS: where each certificate is downloaded, in order.
Sources == [root |-> <<"acrn">>, inter |-> <<"official", "mirror">>]
Urls == {"acrn", "official", "mirror"}

\* A server gives one body, a certificate or not, and is up, down, both in turn, or answers
\* that it will not serve it: a status that is not retried, or a body too large.
Service == [body : Certs \cup {"junk"}, mood : {"up", "down", "flaky", "gone"}]

ASSUME AnchorAssumption ==
  /\ Retries \in Nat \ {0}
  /\ Fetchers \cap Readers = {}
  /\ NotCerts \cap Certs = {}
  /\ RootPin \in [Versions -> Certs] /\ InterPin \in [Versions -> Certs]
  /\ Worlds \subseteq [Urls -> Service] /\ Supplies \subseteq SUBSET Certs

VARIABLES
  server,   \* url -> what it does in this run
  cache,    \* file -> what the cache directory holds
  version,  \* call -> the version it runs
  stage,    \* call -> where it is
  file,     \* fetch -> the certificate it is getting or writing
  local,    \* fetch -> the certificates of its source files (_certs_from_files)
  source,   \* fetch -> the source it downloads from
  attempt,  \* fetch -> attempts made there
  got,      \* call -> file -> the certificate it has
  temp,     \* the temporary files in the directory, as <<fetch, file>>
  wrote,    \* fetch -> the files it replaced (history)
  outcome   \* call -> how it ended

world == <<server, version>>
download == <<source, attempt>>
vars == <<world, cache, stage, file, local, download, got, temp, wrote, outcome>>

Stages == {"begin", "get", "write", "replace", "exists", "read root", "read inter", "done"}

\* Of a fetch, "refused": a source file or an answer is not a certificate, or not the pinned one;
\* "stranded": a write failed, and then the removal of its temporary file, which is what it raises.
Outcomes == {"none", "cached", "refused", "unavailable", "unwritten", "stranded", "killed",
             "bundled", "given", "untrusted", "failed"}

TypeOK ==
  /\ server \in [Urls -> Service]
  /\ cache \in [Files -> Contents]
  /\ version \in [Calls -> Versions]
  /\ stage \in [Calls -> Stages]
  /\ file \in [Fetchers -> Files]
  /\ local \in [Fetchers -> SUBSET Certs]
  /\ source \in [Fetchers -> {1, 2}]
  /\ attempt \in [Fetchers -> 0..(Retries - 1)]
  /\ got \in [Calls -> [Files -> Contents]]
  /\ temp \subseteq Fetchers \X Files
  /\ wrote \in [Fetchers -> SUBSET Files]
  /\ outcome \in [Calls -> Outcomes]

Nothing == [f \in Files |-> "absent"]

Init ==
  /\ server \in Worlds
  /\ cache \in [Files -> Contents]
  /\ version \in [Calls -> Versions]
  /\ stage = [c \in Calls |-> "begin"]
  /\ file = [p \in Fetchers |-> "root"]
  /\ local = [p \in Fetchers |-> {}]
  /\ source = [p \in Fetchers |-> 1]
  /\ attempt = [p \in Fetchers |-> 0]
  /\ got = [c \in Calls |-> Nothing]
  /\ temp = {}
  /\ wrote = [p \in Fetchers |-> {}]
  /\ outcome = [c \in Calls |-> "none"]

\* The pinned pair of a version, and the certificate a fetch is after.
Pair(v) == [root |-> RootPin[v], inter |-> InterPin[v]]
Wanted(p) == Pair(version[p])[file[p]]
Url(p) == Sources[file[p]][source[p]]

Go(c, to) == stage' = [stage EXCEPT ![c] = to] /\ UNCHANGED outcome
End(c, how) ==
  stage' = [stage EXCEPT ![c] = "done"] /\ outcome' = [outcome EXCEPT ![c] = how]
Have(c, f, what) ==
  got' = [got EXCEPT ![c] = [g \in Files |-> IF g = f THEN what ELSE got[c][g]]]

-----------------------------------------------------------------------------
(* fetch_cas: the two certificates.                                          *)

\* A fetch ends, and what it held in memory goes with it.
Leave(p, how) ==
  /\ End(p, how)
  /\ file' = [file EXCEPT ![p] = "root"] /\ local' = [local EXCEPT ![p] = {}]
  /\ source' = [source EXCEPT ![p] = 1] /\ attempt' = [attempt EXCEPT ![p] = 0]
  /\ got' = [got EXCEPT ![p] = Nothing]

\* _certs_from_files: a source file that is no certificate ends the call.
ReadSourceFiles(p) ==
  /\ stage[p] = "begin"
  /\ \/ Leave(p, "refused")
     \/ /\ Go(p, "get")
        /\ \E supplied \in Supplies : local' = [local EXCEPT ![p] = supplied]
        /\ UNCHANGED <<file, download, got>>
  /\ UNCHANGED <<world, cache, temp, wrote>>

\* A certificate is here: it must be the pinned one, and the intermediate signed by the root.
\* Nothing is written before both are judged.
Accept(p, c) ==
  \/ c # Wanted(p) /\ Leave(p, "refused")
  \/ /\ c = Wanted(p) /\ file[p] = "root"
     /\ Have(p, "root", c)
     /\ file' = [file EXCEPT ![p] = "inter"]
     /\ source' = [source EXCEPT ![p] = 1] /\ attempt' = [attempt EXCEPT ![p] = 0]
     /\ UNCHANGED <<stage, outcome, local>>
  \/ /\ c = Wanted(p) /\ file[p] = "inter"
     /\ IF <<got[p]["root"], c>> \in Issued
        THEN /\ Go(p, "write") /\ Have(p, "inter", c)
             /\ file' = [file EXCEPT ![p] = "root"]
             /\ UNCHANGED <<local, download>>
        ELSE Leave(p, "refused")

UseSupplied(p) ==
  /\ stage[p] = "get" /\ Wanted(p) \in local[p]
  /\ Accept(p, Wanted(p))
  /\ UNCHANGED <<world, cache, temp, wrote>>

\* A request is made of a server that may do this with it.
Asks(p, moods) ==
  stage[p] = "get" /\ Wanted(p) \notin local[p] /\ server[Url(p)].mood \in moods

\* _download_first: the source has failed, and the next one is tried if there is one.
NextSource(p) ==
  \/ /\ source[p] < Len(Sources[file[p]])
     /\ source' = [source EXCEPT ![p] = @ + 1]
     /\ attempt' = [attempt EXCEPT ![p] = 0]
     /\ UNCHANGED <<stage, outcome, file, local, got>>
  \/ source[p] = Len(Sources[file[p]]) /\ Leave(p, "unavailable")

\* Mutant: a server that stays down is taken for the end of the search.
AttemptFailsForGood(p) ==
  /\ Asks(p, {"down", "flaky"})
  /\ \/ /\ attempt[p] < Retries - 1
        /\ attempt' = [attempt EXCEPT ![p] = @ + 1]
        /\ UNCHANGED <<stage, outcome, file, local, got, source>>
     \/ attempt[p] = Retries - 1 /\ Leave(p, "unavailable")
  /\ UNCHANGED <<world, cache, temp, wrote>>

\* _download, one attempt that fails in passing: it is made again after a pause, up to
\* _RETRIES attempts in all.
AttemptFails(p) ==
  /\ Asks(p, {"down", "flaky"})
  /\ \/ /\ attempt[p] < Retries - 1
        /\ attempt' = [attempt EXCEPT ![p] = @ + 1]
        /\ UNCHANGED <<stage, outcome, file, local, got, source>>
     \/ attempt[p] = Retries - 1 /\ NextSource(p)
  /\ UNCHANGED <<world, cache, temp, wrote>>

\* Mutant: an answer that will not change is taken for the end of the search.
AttemptIsRefusedForGood(p) ==
  /\ Asks(p, {"gone"}) /\ Leave(p, "unavailable")
  /\ UNCHANGED <<world, cache, temp, wrote>>

\* An answer that will not change, and the next source is tried at once.
AttemptIsRefused(p) ==
  /\ Asks(p, {"gone"}) /\ NextSource(p)
  /\ UNCHANGED <<world, cache, temp, wrote>>

\* An answer ends the search, whatever is in it.
AttemptAnswered(p) ==
  /\ Asks(p, {"up", "flaky"})
  /\ LET body == server[Url(p)].body IN
       \/ body \in Certs /\ Accept(p, body)
       \/ body \notin Certs /\ Leave(p, "refused")
  /\ UNCHANGED <<world, cache, temp, wrote>>

-----------------------------------------------------------------------------
(* fetch_cas: the cache, the root first (_atomic_cache_write).               *)

\* Mutant: the file is opened in place.
OpenInPlace(p) ==
  /\ stage[p] = "write" /\ Go(p, "replace")
  /\ cache' = [cache EXCEPT ![file[p]] = "junk"]
  /\ UNCHANGED <<world, file, local, download, got, temp, wrote>>

\* A private temporary file beside the destination, or the directory cannot be written.
MakeTemporary(p) ==
  /\ stage[p] = "write"
  /\ \/ /\ Go(p, "replace") /\ temp' = temp \cup {<<p, file[p]>>}
        /\ UNCHANGED <<file, local, download, got>>
     \/ Leave(p, "unwritten") /\ UNCHANGED temp
  /\ UNCHANGED <<world, cache, wrote>>

\* os.replace of a whole file; then the next, or the call returns.
Replace(p) ==
  /\ stage[p] = "replace"
  /\ cache' = [cache EXCEPT ![file[p]] = got[p][file[p]]]
  /\ temp' = temp \ {<<p, file[p]>>}
  /\ wrote' = [wrote EXCEPT ![p] = @ \cup {file[p]}]
  /\ \/ /\ file[p] = "root"
        /\ Go(p, "write") /\ file' = [file EXCEPT ![p] = "inter"]
        /\ UNCHANGED <<local, download, got>>
     \/ file[p] = "inter" /\ Leave(p, "cached")
  /\ UNCHANGED world

\* Mutant: the temporary file stays.
WriteFailsAndLeaves(p) ==
  /\ stage[p] = "replace" /\ Leave(p, "unwritten")
  /\ UNCHANGED <<world, cache, temp, wrote>>

\* The write fails, or Windows refuses to replace a file somebody reads: the temporary file goes,
\* unless that is refused too, as while a scanner has it open.
WriteFails(p) ==
  /\ stage[p] = "replace"
  /\ \/ Leave(p, "unwritten") /\ temp' = temp \ {<<p, file[p]>>}
     \/ Leave(p, "stranded") /\ UNCHANGED temp
  /\ UNCHANGED <<world, cache, wrote>>

\* The process is killed, or interrupted where no handler is in place yet.
Kill(p) ==
  /\ stage[p] # "done" /\ Leave(p, "killed")
  /\ UNCHANGED <<world, cache, temp, wrote>>

Fetch(p) == \/ ReadSourceFiles(p) \/ UseSupplied(p)
            \/ AttemptFails(p) \/ AttemptIsRefused(p) \/ AttemptAnswered(p)
            \/ MakeTemporary(p) \/ Replace(p) \/ WriteFails(p)

-----------------------------------------------------------------------------
(* _resolve_trust_anchors.                                                   *)

\* load_bundled_trust_anchors: what was installed is judged too.  Without its root there is
\* nothing to trust.
FallBack(r) ==
  \/ End(r, "bundled") /\ got' = [got EXCEPT ![r] = Pair(version[r])]
  \/ End(r, "bundled") /\ got' = [got EXCEPT ![r] = [Pair(version[r]) EXCEPT !["inter"] = "absent"]]
  \/ End(r, "untrusted") /\ got' = [got EXCEPT ![r] = Nothing]

KeepFetches == UNCHANGED <<world, cache, file, local, download, temp, wrote>>

\* Trust may be skipped, or come from --ca-file, which must hold a root.
Resolve(r) ==
  /\ stage[r] = "begin"
  /\ \/ \E how \in {"untrusted", "given", "failed"} : End(r, how) /\ UNCHANGED got
     \/ cache["root"] = "absent" /\ FallBack(r)
     \/ cache["root"] # "absent" /\ Go(r, "exists") /\ UNCHANGED got
  /\ KeepFetches

\* load_cached_trust_anchors: both exist, then each is read, then both are judged.
SeeInter(r) ==
  /\ stage[r] = "exists"
  /\ \/ cache["inter"] = "absent" /\ FallBack(r)
     \/ cache["inter"] # "absent" /\ Go(r, "read root") /\ UNCHANGED got
  /\ KeepFetches

ReadRoot(r) ==
  /\ stage[r] = "read root"
  /\ \/ cache["root"] \notin Certs /\ FallBack(r)
     \/ cache["root"] \in Certs /\ Go(r, "read inter") /\ Have(r, "root", cache["root"])
  /\ KeepFetches

\* Mutant: the root's fingerprint stands for both.
ReadInterUnjudged(r) ==
  /\ stage[r] = "read inter"
  /\ \/ got[r]["root"] # RootPin[version[r]] /\ FallBack(r)
     \/ /\ got[r]["root"] = RootPin[version[r]] /\ cache["inter"] \in Certs
        /\ End(r, "cached") /\ Have(r, "inter", cache["inter"])
  /\ KeepFetches

ReadInter(r) ==
  /\ stage[r] = "read inter"
  /\ LET pair == [got[r] EXCEPT !["inter"] = cache["inter"]] IN
       \/ pair # Pair(version[r]) /\ FallBack(r)
       \/ pair = Pair(version[r]) /\ End(r, "cached") /\ Have(r, "inter", cache["inter"])
  /\ KeepFetches

Load(r) == Resolve(r) \/ SeeInter(r) \/ ReadRoot(r) \/ ReadInter(r)

Next == \/ \E p \in Fetchers : Fetch(p) \/ Kill(p)
        \/ \E r \in Readers : Load(r)
Spec == Init /\ [][Next]_vars

\* A call that is not killed runs on: every request has a timeout and every pause ends.
Fairness == (\A p \in Fetchers : WF_vars(Fetch(p))) /\ (\A r \in Readers : WF_vars(Load(r)))
FairSpec == Spec /\ Fairness

-----------------------------------------------------------------------------
(* What the cache promises.                                                  *)

\* What a verification takes from the cache is the pair its own version pins, both of it and
\* never one certificate of each of two pairs, whoever replaces the files between its reads
\* (load_cached_trust_anchors).
OnlyPinned ==
  \A r \in Readers : outcome[r] = "cached" => got[r] = Pair(version[r])

\* A fetch that refuses what it got, or finds it nowhere, has touched nothing, though it had
\* judged the root long before the intermediate; and only a killed one, or one that was refused
\* the removal of it and says so, leaves a temporary file, beside a file it has not replaced
\* (fetch_cas, _atomic_cache_write).
RefusedTouchesNothing ==
  \A p \in Fetchers :
    /\ outcome[p] \in {"refused", "unavailable"} => wrote[p] = {}
    /\ \A f \in Files : <<p, f>> \in temp =>
         outcome[p] \in {"none", "stranded", "killed"} /\ f \notin wrote[p]

\* Once a fetch has returned, a verification of its version finds its pair in the cache, and
\* goes on finding it while others of that version fetch again, fail or are killed: only a
\* version with other pins undoes it (fetch_cas, _atomic_cache_write).
FetchedIsFound ==
  \A p \in Fetchers :
    /\ outcome[p] = "cached"
    /\ \A q \in Fetchers : wrote[q] # {} => version[q] = version[p]
    => cache = Pair(version[p])

\* With the root at hand and the intermediate on the mirror, a fetch ends with both, however the
\* official server fails, unless that server answers with something else; then, as when any
\* source does, the mirror is not asked (_download, _download_first).
Served(p) ==
  /\ server["acrn"] = [body |-> RootPin[version[p]], mood |-> "up"]
  /\ server["official"].mood \in {"down", "gone"}
  /\ server["mirror"] = [body |-> InterPin[version[p]], mood |-> "up"]
  /\ <<RootPin[version[p]], InterPin[version[p]]>> \in Issued
ServedIsCached ==
  \A p \in Fetchers :
    (stage[p] = "get" /\ Served(p)) ~>
      outcome[p] \in {"cached", "unwritten", "stranded", "killed"}
=============================================================================
