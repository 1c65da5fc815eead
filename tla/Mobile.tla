------------------------------- MODULE Mobile -------------------------------
(***************************************************************************)
(* NormalizeIndianMobile of auth/mobile.go: the form in which a mobile is  *)
(* stored, looked up, limited and sent codes, whatever spelling a request  *)
(* gives.  A spelling is a sequence of characters.  The code asks          *)
(* unicode.IsDigit which of them are digits and counts the bytes of those, *)
(* so a digit outside ASCII counts two, three or four times: "w2", "w3"    *)
(* and "w4" stand for such digits, " " for every separator.                *)
(***************************************************************************)
EXTENDS Naturals, Sequences, FiniteSets

CONSTANT Length  \* digits of a mobile: 10

Digits == {"0", "1", "2", "3", "4", "5", "6", "7", "8", "9"}

WideDigits == {"w2", "w3", "w4"}

Numeric == Digits \cup WideDigits

IsDigit(c) == c \in Numeric

\* Only separators, digits, and plus signs that no digit precedes.
WellFormed(s) ==
    \A i \in DOMAIN s :
        /\ IsDigit(s[i]) \/ s[i] \in {" ", "+"}
        /\ s[i] = "+" => \A j \in 1..(i - 1) : ~IsDigit(s[j])

DigitsIn(s) == {i \in DOMAIN s : IsDigit(s[i])}

Nth(places, n) == CHOOSE i \in places : Cardinality(places \cap 1..i) = n

\* The digits in their order: what SelectSeq would pick.
Number(s) ==
    LET places == DigitsIn(s)
    IN  [n \in 1..Cardinality(places) |-> s[Nth(places, n)]]

Width(c) == CASE c = "w2" -> 2 [] c = "w3" -> 3 [] c = "w4" -> 4 [] OTHER -> 1

\* Places of digits that are more than k bytes long.
Wider(d, k) == {i \in DOMAIN d : Width(d[i]) > k}

Bytes(d) ==
    Len(d) + Cardinality(Wider(d, 1)) + Cardinality(Wider(d, 2)) + Cardinality(Wider(d, 3))

\* The number without the trunk zero or the country code.
National(d) ==
    IF Bytes(d) = Length + 1 /\ d[1] = "0" THEN Tail(d)
    ELSE IF Bytes(d) = Length + 2 /\ d[1] = "9" /\ d[2] = "1" THEN SubSeq(d, 3, Len(d))
    ELSE d

Invalid == <<>>

\* Mutant of NormalizeIndianMobile: the digits are kept as they were spelled.
NormalizeKeepsPrefix(s) ==
    LET n == National(Number(s))
    IN  IF WellFormed(s) /\ Bytes(n) = Length /\ n[1] \in {"6", "7", "8", "9"}
        THEN <<"+">> \o Number(s)
        ELSE Invalid

NormalizeIndianMobile(s) ==
    LET n == National(Number(s))
    IN  IF WellFormed(s) /\ Bytes(n) = Length /\ n[1] \in {"6", "7", "8", "9"}
        THEN <<"+", "9", "1">> \o n
        ELSE Invalid

\* The reference: a spelling dials the subscriber with its last digits.
Dialled(s) ==
    LET d == Number(s)
    IN  IF Len(d) <= Length THEN d ELSE SubSeq(d, Len(d) - Length + 1, Len(d))
=============================================================================
