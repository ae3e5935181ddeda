-------------------------- MODULE MCRepolistCache --------------------------
(* Instances of RepolistCache for TLC *)
EXTENDS RepolistCache, TLC

Symmetric ==
    Permutations(Request) \cup Permutations(Child) \cup Permutations(Repo)
        \cup Permutations(Inode)
============================================================================
