---------------------------- MODULE MCSessions ----------------------------
(* Instances of Sessions for TLC. *)
EXTENDS Sessions, TLC

\* Requests, accounts, usernames and tokens are interchangeable.
Symmetry ==
    Permutations(Procs) \cup Permutations(Users)
        \cup Permutations(Names) \cup Permutations(Tokens)
=============================================================================
