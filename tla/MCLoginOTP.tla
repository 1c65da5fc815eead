---------------------------- MODULE MCLoginOTP ----------------------------
(* Instances of LoginOTP for TLC. *)
EXTENDS LoginOTP, TLC

\* Requests and mobiles are interchangeable.
Symmetry == Permutations(Procs) \cup Permutations(Mobiles)
=============================================================================
