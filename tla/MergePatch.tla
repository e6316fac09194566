----------------------------- MODULE MergePatch -----------------------------
(***************************************************************************)
(* How an update merges its template into the resource (MergePatch,        *)
(* internal/util/util.go): a JSON merge patch (RFC 7386, external: the     *)
(* jsonpatch library) between texts, whose result is read with float64     *)
(* numbers.  A JSON value is an integer, null or a map; lists are left     *)
(* out, a merge patch replaces them whole like integers.                   *)
(***************************************************************************)
EXTENDS Naturals, Sequences

CONSTANTS Exact,    \* integers up to here are float64 numbers: 2^53
          Numbers,  \* the integers that occur
          Names,    \* the names of fields
          Depth     \* how deep maps are nested

VARIABLES original, patch   \* the arguments of MergePatch

NoFields == [f \in {} |-> 0]
Num(n) == [tag |-> "int", int |-> n, map |-> NoFields]
Null == [tag |-> "null", int |-> 0, map |-> NoFields]
Map(m) == [tag |-> "map", int |-> 0, map |-> m]

(* The values with at most d maps inside one another; recursion below is   *)
(* by this depth.                                                          *)
MapsTo(S) == {Map(m) : m \in UNION {[D -> S] : D \in SUBSET Names}}
Scalars == {Num(n) : n \in Numbers} \cup {Null}
Json[d \in 0..Depth] ==
    IF d = 0 THEN Scalars ELSE Scalars \cup MapsTo(Json[d - 1])
Values == Json[Depth]

(* What a field of j holds, null if there is none. *)
Field(j, f) == IF f \in DOMAIN j.map THEN j.map[f] ELSE Null

(* The float64 next to n, the even one of two (n at most twice Exact).     *)
Float64(n) ==
    IF n <= Exact \/ n % 2 = 0 THEN n ELSE IF n % 4 = 3 THEN n + 1 ELSE n - 1

ASSUME MergeAssumption ==
    /\ Exact \in Nat /\ Depth \in Nat
    /\ Numbers \subseteq Nat
    /\ \A n \in Numbers : n <= 2 * Exact /\ Float64(n) \in Numbers

(* Reading the result, its fields as `inner` reads them. *)
ReadMaps(inner) ==
    [j \in Values |->
        [j EXCEPT !.int = Float64(@), !.map = [f \in DOMAIN @ |-> inner[@[f]]]]]
Unmarshals[d \in 0..Depth] ==
    IF d = 0 THEN [j \in Values |-> [j EXCEPT !.int = Float64(@)]]
    ELSE ReadMaps(Unmarshals[d - 1])
Unmarshal(j) == Unmarshals[Depth][j]

(* Mutant: null is kept where there is nothing to remove. *)
MergeMaps_KeepsNull(inner) ==
    [o \in Values |-> [p \in Values |->
        IF p.tag # "map" THEN p
        ELSE LET gone == {f \in DOMAIN o.map \cap DOMAIN p.map : p.map[f].tag = "null"}
             IN  Map([f \in (DOMAIN o.map \cup DOMAIN p.map) \ gone |->
                         IF f \in DOMAIN p.map THEN inner[Field(o, f)][p.map[f]]
                         ELSE o.map[f]])]]

(* Maps are merged field by field, null removes a field, and anything else *)
(* replaces what was there.                                                *)
MergeMaps(inner) ==
    [o \in Values |-> [p \in Values |->
        IF p.tag # "map" THEN p
        ELSE LET gone == {f \in DOMAIN p.map : p.map[f].tag = "null"}
             IN  Map([f \in (DOMAIN o.map \cup DOMAIN p.map) \ gone |->
                         IF f \in DOMAIN p.map THEN inner[Field(o, f)][p.map[f]]
                         ELSE o.map[f]])]]
Merges[d \in 0..Depth] ==
    IF d = 0 THEN [o \in Values |-> [p \in Values |-> p]]
    ELSE MergeMaps(Merges[d - 1])
Merge(o, p) == Merges[Depth][o][p]

(* Mutant: only the outer maps are merged. *)
MergePatch_Shallow(o, p) ==
    Unmarshal(Map([f \in DOMAIN o.map \cup DOMAIN p.map |->
                      IF f \in DOMAIN p.map THEN p.map[f] ELSE o.map[f]]))

MergePatch(o, p) == Unmarshal(Merge(o, p))

-----------------------------------------------------------------------------
Paths == UNION {[1..n -> Names] : n \in 0..Depth}

(* What stands in j after each step of path q, and whether the step is to  *)
(* a field that is there.                                                  *)
Along(j, q) ==
    LET at[i \in 0..Len(q)] == IF i = 0 THEN j ELSE Field(at[i - 1], q[i])
    IN  at
Has(at, q, i) == q[i] \in DOMAIN at[i - 1].map

(* An update keeps what its template does not mention, sets what it does   *)
(* and removes what it sets to null (update.go:53), at every depth, but    *)
(* for the last digits of integers above 2^53, also of fields it does not  *)
(* mention.                                                                *)
MergesByPath ==
    LET merged == MergePatch(original, patch)
    IN  \A q \in Paths :
          LET m == Along(merged, q)
              o == Along(original, q)
              p == Along(patch, q)
              n == Len(q)
              mentioned == \A i \in 1..n : Has(p, q, i)
              kept == \E i \in 1..n : p[i - 1].tag = "map" /\ ~Has(p, q, i)
          IN  /\ mentioned =>
                   IF p[n].tag = "map" THEN m[n].tag = "map"
                   ELSE m[n] = Unmarshal(p[n])
              /\ kept => m[n] = Unmarshal(o[n])
              /\ n # 0 => (Has(m, q, n) <=> \/ mentioned /\ p[n].tag # "null"
                                            \/ kept /\ Has(o, q, n))

(* A test that updates a resource with a template it already has asks for  *)
(* nothing new: the integers of its own last update, read as float64, are  *)
(* not moved any further (util.go:298-316).                                *)
MergesOnce ==
    LET merged == MergePatch(original, patch) IN MergePatch(merged, patch) = merged
=============================================================================
