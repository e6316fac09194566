---------------------------- MODULE MCFunctions -----------------------------
(***************************************************************************)
(* The pure functions in one run: VersionOrder on the versions, MergePatch *)
(* on maps of maps.                                                        *)
(***************************************************************************)
EXTENDS VersionOrder, MergePatch

CONSTANT Versions   \* the versions compared, 0 for the empty text

(* Every version around the first three changes of width. *)
BoundaryVersions == 0..25 \cup 88..112 \cup 985..1012

(* Integers around Exact with what they are read as, null, and maps of     *)
(* such values.                                                            *)
NumbersUsed == {1, 2, Exact, Exact + 1, Exact + 3, Exact + 4}
Small == {Num(1), Num(Exact + 1), Null}
Originals == MapsTo(Small \cup {Num(Exact + 3)} \cup MapsTo({Num(1), Num(Exact + 1)}))
Patches == MapsTo(Small \cup MapsTo({Num(2), Null}))

Init ==
    /\ minResourceVersion = 0 /\ patch = Map(NoFields)
    /\ \/ actualResourceVersion \in Versions /\ original = Map(NoFields)
       \/ actualResourceVersion = 0 /\ original \in Originals
Next ==
    /\ \/ /\ original = Map(NoFields)
          /\ minResourceVersion' \in Versions /\ UNCHANGED patch
       \/ /\ actualResourceVersion = 0
          /\ patch' \in Patches /\ UNCHANGED minResourceVersion
    /\ UNCHANGED <<actualResourceVersion, original>>
Spec ==
    Init /\ [][Next]_<<actualResourceVersion, minResourceVersion, original, patch>>
=============================================================================
