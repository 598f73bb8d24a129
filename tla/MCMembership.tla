--------------------------- MODULE MCMembership ---------------------------
(* Instances of Membership for TLC. *)
EXTENDS Membership, TLC

\* Requests that must not overlap for the properties to hold. Each set breaks
\* one of them when it is taken out.
Conflicts ==
  {{"remove"}, {"remove", "leave"},
   {"leave", "add"}, {"leave", "create"},
   {"delete", "add"}, {"delete", "create"}, {"delete", "upload"},
   {"delete", "curate"}}

Symmetry ==
  Permutations(User) \cup Permutations(Workspace) \cup Permutations(Request)
=============================================================================
