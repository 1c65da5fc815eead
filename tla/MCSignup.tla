----------------------------- MODULE MCSignup -----------------------------
(* Instances of Signup for TLC. *)
EXTENDS Signup, TLC

\* Requests and identities are interchangeable.
Symmetry ==
    Permutations(Procs) \cup Permutations(Usernames)
        \cup Permutations(Emails) \cup Permutations(Mobiles)
=============================================================================
