----------------------------- MODULE MCBrowser -----------------------------
(* An instance of Browser for TLC. *)
EXTENDS Browser, TLC

\* Tabs, users, names and tokens are interchangeable.
Symmetry ==
    Permutations(Tabs) \cup Permutations(Users) \cup Permutations(Names) \cup Permutations(Tokens)
=============================================================================
