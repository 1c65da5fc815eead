---------------------------- MODULE MCAccounts ----------------------------
\* Registration on a small instance: a signup can take the username or the e-mail that a
\* Google login is about to use; mobiles have four digits.
EXTENDS Registration, TLC
CONSTANTS a, b, s, u1, u2

MCEmailOf(g) == g
MCLocalPart(e) == "ann"
MCSuffixed(n, x) == IF n = "ann" THEN "ann_7" ELSE n

\* 9178 in four spellings, and a number that is none.
MCSpellings ==
    {<<"9", "1", "7", "8">>, <<"0", "9", "1", "7", "8">>, <<"9", "1", "9", "1", "7", "8">>,
     <<"+", "9", "1", " ", "9", "1", "7", "8">>, <<"5", "1", "7", "8">>}

\* Completions may also store 9 with a digit of three bytes.
Stored ==
    {NormalizeIndianMobile(x) : x \in MCSpellings \cup {<<"9", "w3">>}} \ {Invalid}
MCMobiles == Stored

ASSUME NumberIsSelectSeq ==
    \A x \in MCSpellings \cup MCMobiles : Number(x) = SelectSeq(x, IsDigit)

Symmetry == Permutations(Procs) \cup Permutations(Users)
=============================================================================
