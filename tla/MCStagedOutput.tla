--------------------------- MODULE MCStagedOutput ---------------------------
(***************************************************************************)
(* Instances of StagedOutput for TLC: three modes, an ACL that names a      *)
(* third party, and the access control other programs give their files.    *)
(***************************************************************************)
EXTENDS StagedRefinement

MCModes == {"0600", "0640", "0644"}
MCOwners == {"me", "other"}
MCAcls == {"absent", "unsupported", "grant"}

\* A public file of another owner's, one shared through an ACL with a third party, and one that
\* differs from it in nothing but the ACL.
WithOwners == {[own |-> "other", mode |-> "0644", acl |-> "absent"],
               [own |-> "me", mode |-> "0640", acl |-> "absent"],
               [own |-> "me", mode |-> "0640", acl |-> "grant"]}

\* FAT: no ACLs.
WithoutAcls == {[own |-> "me", mode |-> "0644", acl |-> "unsupported"]}

\* While only overwriting writers run, other programs do anything.  Once another writer runs
\* with them, no entry is aside, no access control was changed, nothing at the path is
\* special and nobody is killed.
Scope ==
  \/ \A w \in Writers \ Overwriting : pc[w] = "create"
  \/ /\ aside = Nothing /\ rewrites = 0
     /\ \A w \in Writers : pc[w] # "killed"
     /\ \A e \in EnvFiles : data[<<"env", e>>] # "special"
=============================================================================
