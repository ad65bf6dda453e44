--------------------------- MODULE MCTrustAnchors ---------------------------
(* TrustAnchors with two versions that pin different pairs, and servers that   *)
(* have the one or the other, or fail. *)
EXTENDS TrustAnchors

CONSTANT Newest   \* the one call that may be of the new version

MCRootPin == [v \in Versions |-> IF v = "old" THEN "r1" ELSE "r2"]
MCInterPin == [v \in Versions |-> IF v = "old" THEN "m1" ELSE "m2"]
MCIssued == {<<"r1", "m1">>, <<"r2", "m2">>}

Serves(body, mood) == [body |-> body, mood |-> mood]
World(a, o, m) == [acrn |-> a, official |-> o, mirror |-> m]
MCWorlds ==
  { World(Serves("r1", "up"), o, Serves("m1", "up")) :
      o \in {Serves("junk", "up"), Serves("m2", "gone"), Serves("m1", "down")} }
  \cup { World(Serves("r2", "flaky"), Serves("m2", "up"), Serves("m2", "up")),
         World(Serves("r1", "up"), Serves("m1", "down"), Serves("m1", "down")) }
MCSupplies == {{}, {"r1"}, {"r2", "m2"}}

\* The cache starts with nothing, with the new pair, or spoilt.  A verification and one of the
\* fetches are of the old version.
MCInit ==
  /\ Init
  /\ cache \in {Nothing, Pair("new"), [root |-> "junk", inter |-> "m1"]}
  /\ \A c \in Calls : version[c] = "new" => c = Newest
MCSpec == MCInit /\ [][Next]_vars /\ Fairness
=============================================================================
