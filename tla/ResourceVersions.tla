-------------------------- MODULE ResourceVersions --------------------------
(***************************************************************************)
(* Resource versions as Sawchain compares them.  The API server hands out  *)
(* the decimal text of a counter; checkResourceVersion (sawchain.go)       *)
(* compares two such texts with Go's `<`, which is the lexicographic order *)
(* of the bytes.  A version is kept here as the number it spells, 0 being  *)
(* the empty text of an object that was never read or written, and the     *)
(* order of the texts is computed by aligning the two numbers on their     *)
(* first digit.  Digits and TextLess are the texts and their order as Go   *)
(* has them, digit by digit: RvLess is what the other modules compute.     *)
(***************************************************************************)
EXTENDS Naturals, FiniteSets, Sequences

(* The smallest number of each width.  The list stops at TLC's integers,   *)
(* and with it the versions that can be compared: those of ten digits.     *)
PowersOfTen == {1, 10, 100, 1000, 10000, 100000, 1000000, 10000000,
                100000000, 1000000000}

Measured == {n \in Nat : n \div 1000000000 < 10}

(* The number of characters of the text of version n. *)
Width(n) == Cardinality({t \in PowersOfTen : t <= n})

(* Mutant: the versions are parsed and compared as numbers. *)
RvLess_Numeric(a, b) == a < b

(* a < b as texts: at equal width it is the numeric order; otherwise the   *)
(* longer one is cut to the width of the shorter one, and a text precedes  *)
(* every text it is a prefix of.                                           *)
RvLess(a, b) ==
    LET wa == Width(a)
        wb == Width(b)
    IN  \/ wa = wb /\ a < b
        \/ wa < wb /\ a <= b \div 10 ^ (wb - wa)
        \/ wa > wb /\ a \div 10 ^ (wa - wb) < b

(* The digits of n, most significant first; none for the empty text. *)
Digits[n \in Nat] ==
    IF n = 0 THEN <<>> ELSE Append(Digits[n \div 10], n % 10)

(* s is before t: where they first differ it has ended, or is smaller. *)
TextLess(s, t) ==
    \E i \in DOMAIN t :
        /\ \A j \in 1..(i - 1) : j \in DOMAIN s /\ s[j] = t[j]
        /\ i \in DOMAIN s => s[i] < t[i]

(* The versions from a to b are compared as the numbers they spell. *)
OrderAgrees(a, b) ==
    \A x, y \in a..b : RvLess(x, y) <=> x < y
=============================================================================
