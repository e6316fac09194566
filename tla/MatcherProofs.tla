---------------------------- MODULE MatcherProofs ---------------------------
(***************************************************************************)
(* Proofs about Matcher, for any number of documents, field errors and     *)
(* calls of Match: types, the verdict of Match, and that the details of a  *)
(* failure are those of the actual the assertion failed on.                *)
(***************************************************************************)
EXTENDS Matcher, WellFoundedInduction, TLAPS

(* The least of a set of numbers. *)
LEMMA LeastElement ==
  ASSUME NEW S \in SUBSET Nat, S # {}
  PROVE  Min(S) \in S /\ \A y \in S : Min(S) <= y
<1>1. \E x \in S : \A y \in S : ~(<<y, x>> \in OpToRel(<, Nat))
  BY NatLessThanWellFounded, WFMin
<1>2. \A x, y \in Nat : <<y, x>> \in OpToRel(<, Nat) <=> y < x
  BY DEF OpToRel
<1>3. \E x \in S : \A y \in S : x <= y
  <2>1. PICK x \in S : \A y \in S : ~(<<y, x>> \in OpToRel(<, Nat))
    BY <1>1
  <2>2. \A y \in S : x \in Nat /\ y \in Nat /\ ~(y < x)
    BY <1>2, <2>1
  <2>3. \A y \in S : x <= y
    BY <2>2
  <2> QED
    BY <2>1, <2>3
<1> QED
  BY <1>3 DEF Min

(* The attempts of one call of Match, whatever it was given. *)
Attempts == [Documents -> Attempt]

LEMMA AttemptsAreSome ==
  ASSUME NEW f \in Attempts
  PROVE  f # None
  BY MatcherAssumption DEF Attempts, Documents, None

(* The document at which the loop stops is the first at which it could. *)
LEMMA FirstStop ==
  ASSUME NEW a, Stops(a) # {}
  PROVE  /\ Min(Stops(a)) \in Documents
         /\ a[Min(Stops(a))] \in {0, Invalid}
         /\ \A j \in 1..(Min(Stops(a)) - 1) : j \in Documents /\ a[j] \notin {0, Invalid}
<1>1. Stops(a) \in SUBSET Nat
  BY DEF Stops, Documents
<1>2. Min(Stops(a)) \in Stops(a) /\ \A y \in Stops(a) : Min(Stops(a)) <= y
  BY <1>1, LeastElement
<1>3. Min(Stops(a)) \in Documents /\ a[Min(Stops(a))] \in {0, Invalid}
  BY <1>2 DEF Stops
<1>4. ASSUME NEW j \in 1..(Min(Stops(a)) - 1)
      PROVE  j \in Documents /\ a[j] \notin {0, Invalid}
  <2>1. j \in Documents /\ ~(Min(Stops(a)) <= j)
    BY <1>3, MatcherAssumption DEF Documents
  <2>2. j \notin Stops(a)
    BY <1>2, <2>1
  <2> QED
    BY <2>1, <2>2 DEF Stops
<1> QED
  BY <1>3, <1>4

(* The closest attempts are among the attempts, and the chosen one is the  *)
(* first of them.                                                          *)
Closest(f) == {i \in DOMAIN f : \A j \in DOMAIN f : f[i].errs <= f[j].errs}

LEMMA BestIsFirstClosest ==
  ASSUME NEW f \in Attempts
  PROVE  BestMatch(f) \in Closest(f) /\ \A i \in Closest(f) : BestMatch(f) <= i
<1> DEFINE counts == {f[i].errs : i \in Documents}
<1>1. 1 \in Documents /\ DOMAIN f = Documents /\ \A i \in Documents : f[i].errs \in Nat
  BY MatcherAssumption DEF Documents, Attempts, Attempt
<1>2. counts \in SUBSET Nat /\ counts # {}
  BY <1>1
<1>3. PICK n \in counts : \A m \in counts : n <= m
  BY <1>2, LeastElement
<1>4. PICK i \in Documents : f[i].errs = n
  BY <1>3
<1>5. i \in Closest(f)
  BY <1>1, <1>3, <1>4 DEF Closest
<1>6. Closest(f) \in SUBSET Nat /\ Closest(f) # {}
  <2>1. Closest(f) \subseteq Documents
    BY <1>1 DEF Closest
  <2>2. Documents \subseteq Nat
    BY DEF Documents
  <2> QED
    BY <1>5, <2>1, <2>2
<1>7. BestMatch(f) = Min(Closest(f))
  BY DEF BestMatch, Closest
<1> QED
  BY <1>6, <1>7, LeastElement

-----------------------------------------------------------------------------
LEMMA TypeInit == Init => MatcherTypeOK
<1> SUFFICES ASSUME Init
             PROVE  MatcherTypeOK
  OBVIOUS
<1>1. assertion \in [mode : Modes, negated : BOOLEAN]
  BY DEF Init, Modes
<1>2. matches \in 0..MaxMatches /\ actual \in Actuals
  BY MatcherAssumption DEF Init, Actuals
<1>3. report.kind = "none" /\ report.best \in 0..NumDocs
  BY MatcherAssumption DEF Init, Quiet
<1> QED
  BY <1>1, <1>2, <1>3 DEF Init, MatcherTypeOK

(* What Match leaves in the matcher. *)
LEMMA MatchType ==
  ASSUME MatcherTypeOK, NEW a \in Actuals, Match(a), matches + 1 \in Nat
  PROVE  /\ rendered' \in BOOLEAN
         /\ matchErr' \in {None} \cup Attempts
         /\ ret' \in [ok : BOOLEAN, err : BOOLEAN]
<1>1. rendered' \in BOOLEAN
  BY DEF Match
<1>2. CASE a \in {Unusable, Unrendered}
  <2>1. ret' = [ok |-> FALSE, err |-> TRUE] /\ matchErr' = matchErr
    BY <1>2 DEF Match
  <2> QED
    BY <1>1, <2>1 DEF MatcherTypeOK, Attempts
<1>3. CASE a \notin {Unusable, Unrendered} /\ Stops(a) = {}
  <2>1. \A i \in Documents : a[i] \in Nat
    BY <1>3, MatcherAssumption DEF Actuals, Objects, Stops
  <2>2. /\ ret' = [ok |-> FALSE, err |-> FALSE]
        /\ matchErr' = [i \in Documents |-> [actual |-> matches + 1, doc |-> i, errs |-> a[i]]]
    BY <1>3 DEF Match
  <2>3. matchErr' \in Attempts
    BY <2>1, <2>2 DEF Attempts, Attempt
  <2> QED
    BY <1>1, <2>2, <2>3
<1>4. CASE a \notin {Unusable, Unrendered} /\ Stops(a) # {}
  <2>1. /\ ret' = [ok |-> a[Min(Stops(a))] = 0, err |-> a[Min(Stops(a))] = Invalid]
        /\ matchErr' = None
    BY <1>4 DEF Match
  <2> QED
    BY <1>1, <2>1
<1> QED
  BY <1>2, <1>3, <1>4

LEMMA TypeStep == MatcherTypeOK /\ [Next]_vars => MatcherTypeOK'
<1> SUFFICES ASSUME MatcherTypeOK, [Next]_vars
             PROVE  MatcherTypeOK'
  OBVIOUS
<1>0. 0 \in 0..NumDocs
  BY MatcherAssumption
<1>1. CASE Assert
  <2>1. report'.kind = "none" /\ report'.best = 0
    BY <1>1 DEF Assert, Quiet
  <2> QED
    BY <1>0, <1>1, <2>1 DEF Assert, MatcherTypeOK
<1>2. CASE CallMatch
  <2>1. matches' \in 0..MaxMatches /\ matches + 1 \in Nat
    BY <1>2, MatcherAssumption DEF CallMatch, MatcherTypeOK
  <2>2. PICK a \in Actuals : actual' = a /\ Match(a)
    BY <1>2 DEF CallMatch
  <2> QED
    BY <1>2, <2>1, <2>2, MatchType DEF CallMatch, MatcherTypeOK, Attempts
<1>3. CASE PollAgain \/ Pass
  BY <1>3 DEF PollAgain, Pass, MatcherTypeOK
<1>4. CASE Report
  <2>1. CASE ret.err
    <3>1. report'.kind = "error" /\ report'.best = 0
      BY <1>4, <2>1 DEF Report, Quiet
    <3> QED
      BY <1>0, <1>4, <3>1 DEF Report, MatcherTypeOK
  <2>2. CASE ~ret.err
    <3>1. matchErr # None => BestMatch(matchErr) \in Documents
      BY BestIsFirstClosest DEF MatcherTypeOK, Attempts, Closest
    <3>2. report'.kind \in {"matched", "mismatched"} /\ report'.best \in {0} \cup Documents
      BY <1>4, <2>2, <3>1 DEF Report, FailureMessage
    <3>3. report'.kind \in {"none", "error", "matched", "mismatched"} /\ report'.best \in 0..NumDocs
      BY <1>0, <3>2 DEF Documents
    <3> QED
      BY <1>4, <3>3 DEF Report, MatcherTypeOK
  <2> QED
    BY <2>1, <2>2
<1>5. CASE UNCHANGED vars
  BY <1>5 DEF vars, MatcherTypeOK
<1> QED
  BY <1>1, <1>2, <1>3, <1>4, <1>5 DEF Next

(* Type correctness; among the rest, the index in a message is that of a   *)
(* document or 0.                                                          *)
THEOREM MatcherTypeCorrect == Spec => []MatcherTypeOK
  BY TypeInit, TypeStep, PTL DEF Spec

-----------------------------------------------------------------------------
(* What Match has left when Gomega judges it: a verdict about the actual   *)
(* it was given last, and attempts about that actual exactly when it was a *)
(* mismatch.                                                               *)
AttemptsOf(a, n) == [i \in Documents |-> [actual |-> n, doc |-> i, errs |-> a[i]]]

Judged ==
    pc = "judge" =>
        /\ ret.ok => ~ret.err /\ matchErr = None
        /\ ~ret.ok /\ ~ret.err =>
              actual \in Objects /\ rendered /\ matchErr = AttemptsOf(actual, matches)

(* A message with details is only there between two assertions. *)
ReportOK ==
    report.details # None =>
        /\ pc = "idle" /\ report.kind = "mismatched" /\ rendered
        /\ actual \in Objects /\ report.details = AttemptsOf(actual, matches)
        /\ report.details \in Attempts /\ report.best = BestMatch(report.details)

MInv == MatcherTypeOK /\ MatchesAnyDocument /\ Judged /\ ReportOK

(* Match itself: what it returns of an object that can be used. *)
LEMMA MatchVerdict ==
  ASSUME MatcherTypeOK, NEW a \in Objects, Match(a)
  PROVE  /\ ret'.ok <=> \E i \in Documents :
                            /\ a[i] = 0
                            /\ \A j \in 1..(i - 1) : a[j] # Invalid
         /\ ~ret'.ok /\ ~ret'.err => \A i \in Documents : a[i] \notin {0, Invalid}
<1>1. a \notin {Unusable, Unrendered}
  BY MatcherAssumption DEF Objects, Documents
<1>2. CASE Stops(a) = {}
  <2>1. ret' = [ok |-> FALSE, err |-> FALSE]
    BY <1>1, <1>2 DEF Match
  <2>2. \A i \in Documents : a[i] \notin {0, Invalid}
    BY <1>2 DEF Stops
  <2> QED
    BY <2>1, <2>2
<1>3. CASE Stops(a) # {}
  <2> DEFINE m == Min(Stops(a))
  <2>1. ret' = [ok |-> a[m] = 0, err |-> a[m] = Invalid]
    BY <1>1, <1>3 DEF Match
  <2>2. /\ m \in Documents /\ a[m] \in {0, Invalid}
        /\ \A j \in 1..(m - 1) : a[j] \notin {0, Invalid}
    BY <1>3, FirstStop
  <2> HIDE DEF m
  <2>3. ret'.ok <=> a[m] = 0
    BY <2>1
  <2>4. a[m] # 0 => ret'.err
    BY <2>1, <2>2
  <2>5. a[m] = 0 => \A j \in 1..(m - 1) : a[j] # Invalid
    BY <2>2
  <2>6. ASSUME NEW i \in Documents, a[i] = 0, \A j \in 1..(i - 1) : a[j] # Invalid
        PROVE  a[m] = 0
    <3>1. m \in Nat /\ i \in Nat /\ 1 <= m /\ 1 <= i
      BY <2>2, MatcherAssumption DEF Documents
    <3>2. CASE m < i
      <4>1. m \in 1..(i - 1)
        BY <3>1, <3>2
      <4> QED
        BY <2>2, <2>6, <4>1
    <3>3. CASE i < m
      <4>1. i \in 1..(m - 1)
        BY <3>1, <3>3
      <4> QED
        BY <2>2, <2>6, <4>1
    <3>4. CASE i = m
      BY <2>6, <3>4
    <3> QED
      BY <3>1, <3>2, <3>3, <3>4
  <2> QED
    BY <2>2, <2>3, <2>4, <2>5, <2>6
<1> QED
  BY <1>2, <1>3

(* ... and what it leaves in the matcher. *)
LEMMA MatchLeaves ==
  ASSUME MatcherTypeOK, NEW a \in Actuals, Match(a)
  PROVE  /\ ret'.ok => ~ret'.err /\ matchErr' = None
         /\ ~ret'.ok /\ ~ret'.err =>
               a \in Objects /\ rendered' /\ matchErr' = AttemptsOf(a, matches + 1)
<1>1. CASE a \in {Unusable, Unrendered}
  <2>1. ret' = [ok |-> FALSE, err |-> TRUE]
    BY <1>1 DEF Match
  <2> QED
    BY <2>1
<1>2. CASE a \notin {Unusable, Unrendered} /\ Stops(a) = {}
  <2>1. ret' = [ok |-> FALSE, err |-> FALSE] /\ a \in Objects
    BY <1>2 DEF Match, Actuals
  <2>2. matchErr' = AttemptsOf(a, matches + 1)
    BY <1>2 DEF Match, AttemptsOf
  <2>3. rendered'
    BY <1>2 DEF Match
  <2> QED
    BY <2>1, <2>2, <2>3
<1>3. CASE a \notin {Unusable, Unrendered} /\ Stops(a) # {}
  <2> DEFINE m == Min(Stops(a))
  <2>1. ret' = [ok |-> a[m] = 0, err |-> a[m] = Invalid] /\ matchErr' = None
    BY <1>3 DEF Match
  <2>2. a[m] \in {0, Invalid}
    BY <1>3, FirstStop
  <2> HIDE DEF m
  <2>3. ret'.ok => ~ret'.err
    <3>1. 0 # Invalid
      BY MatcherAssumption
    <3> QED
      BY <2>1, <3>1
  <2>4. ret'.ok \/ ret'.err
    BY <2>1, <2>2
  <2> QED
    BY <2>1, <2>3, <2>4
<1> QED
  BY <1>1, <1>2, <1>3

LEMMA MInvInit == Init => MInv
<1> SUFFICES ASSUME Init
             PROVE  MInv
  OBVIOUS
<1>1. report.details = None /\ pc = "idle"
  BY DEF Init, Quiet
<1> QED
  BY <1>1, TypeInit DEF MInv, MatchesAnyDocument, Judged, ReportOK

LEMMA MInvStep == MInv /\ [Next]_vars => MInv'
<1> SUFFICES ASSUME MInv, [Next]_vars
             PROVE  MInv'
  OBVIOUS
<1>0. MatcherTypeOK'
  BY TypeStep DEF MInv
<1>1. CASE Assert
  <2>1. report'.details = None /\ pc' = "match"
    BY <1>1 DEF Assert, Quiet
  <2> QED
    BY <1>0, <2>1 DEF MInv, MatchesAnyDocument, Judged, ReportOK
<1>2. CASE CallMatch
  <2>1. PICK a \in Actuals : actual' = a /\ Match(a)
    BY <1>2 DEF CallMatch
  <2>2. pc = "match" /\ pc' = "judge" /\ matches' = matches + 1 /\ report' = report
    BY <1>2 DEF CallMatch
  <2>3. MatchesAnyDocument'
    BY <2>1, <2>2, MatchVerdict DEF MInv, MatchesAnyDocument
  <2>4. Judged'
    BY <2>1, <2>2, MatchLeaves DEF MInv, Judged, AttemptsOf
  <2>5. ReportOK'
    BY <2>2 DEF MInv, ReportOK
  <2> QED
    BY <1>0, <2>3, <2>4, <2>5 DEF MInv
<1>3. CASE PollAgain \/ Pass
  <2>1. pc = "judge" /\ pc' # "judge" /\ report' = report
    BY <1>3 DEF PollAgain, Pass
  <2>2. report.details = None
    BY <2>1 DEF MInv, ReportOK
  <2> QED
    BY <1>0, <2>1, <2>2 DEF MInv, MatchesAnyDocument, Judged, ReportOK
<1>4. CASE Report
  <2>1. /\ pc = "judge" /\ pc' = "idle"
        /\ UNCHANGED <<matches, actual, rendered>>
    BY <1>4 DEF Report
  <2>2. ReportOK'
    <3>1. CASE ret.err
      <4>1. report'.details = None
        BY <1>4, <3>1 DEF Report, Quiet
      <4> QED
        BY <4>1 DEF ReportOK
    <3>2. CASE ~ret.err /\ ret.ok
      <4>1. matchErr = None
        BY <2>1, <3>2 DEF MInv, Judged
      <4>2. report'.details = None
        BY <1>4, <3>2, <4>1 DEF Report, FailureMessage
      <4> QED
        BY <4>2 DEF ReportOK
    <3>3. CASE ~ret.err /\ ~ret.ok
      <4>1. actual \in Objects /\ rendered /\ matchErr = AttemptsOf(actual, matches)
        BY <2>1, <3>3 DEF MInv, Judged
      <4>2. ~assertion.negated
        BY <1>4, <3>3 DEF Report, Satisfied, MInv, MatcherTypeOK
      <4>3. matchErr # None /\ matchErr \in Attempts
        <5>1. matchErr # None
          BY <4>1, MatcherAssumption DEF AttemptsOf, None, Documents
        <5> QED
          BY <5>1 DEF MInv, MatcherTypeOK, Attempts
      <4>4. report' = [kind |-> "mismatched", details |-> matchErr, best |-> BestMatch(matchErr)]
        BY <1>4, <3>3, <4>2, <4>3 DEF Report, FailureMessage
      <4>5. report'.details = matchErr /\ report'.best = BestMatch(report'.details)
        BY <4>4
      <4>6. report'.details = AttemptsOf(actual', matches') /\ report'.details \in Attempts
        BY <2>1, <4>1, <4>3, <4>5
      <4> QED
        BY <2>1, <4>1, <4>4, <4>5, <4>6 DEF ReportOK, AttemptsOf
    <3> QED
      BY <3>1, <3>2, <3>3
  <2> QED
    BY <1>0, <2>1, <2>2 DEF MInv, MatchesAnyDocument, Judged
<1>5. CASE UNCHANGED vars
  BY <1>0, <1>5 DEF vars, MInv, MatchesAnyDocument, Judged, ReportOK
<1> QED
  BY <1>1, <1>2, <1>3, <1>4, <1>5 DEF Next

(* MInv holds in every state. *)
THEOREM MatcherInvariance == Spec => []MInv
  BY MInvInit, MInvStep, PTL DEF Spec

(* A match is found exactly when some document matches before one that     *)
(* cannot be evaluated, and an error is never mistaken for a mismatch      *)
(* (Match).                                                                *)
THEOREM VerdictsCorrect == Spec => []MatchesAnyDocument
<1>1. MInv => MatchesAnyDocument
  BY DEF MInv
<1> QED
  BY <1>1, MatcherInvariance, PTL

(* However a matcher is polled and reused, the details of a failure are    *)
(* those of the actual it failed on.                                       *)
THEOREM DetailsCurrent == Spec => []DetailsAreCurrent
<1>1. MInv => DetailsAreCurrent
  <2> SUFFICES ASSUME MInv, report.details # None
               PROVE  /\ report.kind = "mismatched" /\ rendered
                      /\ Len(report.details) = NumDocs
                      /\ \A i \in Documents : /\ report.details[i].doc = i
                                              /\ report.details[i].actual = matches
                                              /\ report.details[i].errs = actual[i]
    BY DEF DetailsAreCurrent
  <2>1. report.details = AttemptsOf(actual, matches) /\ report.kind = "mismatched" /\ rendered
    BY DEF MInv, ReportOK
  <2>2. Len(report.details) = NumDocs
    BY <2>1, MatcherAssumption DEF AttemptsOf, Documents
  <2> QED
    BY <2>1, <2>2 DEF AttemptsOf
<1> QED
  BY <1>1, MatcherInvariance, PTL

(* The attempt a message singles out is the first of the closest.          *)
THEOREM BestClosest == Spec => []BestIsClosest
<1>1. MInv => BestIsClosest
  <2> SUFFICES ASSUME MInv, report.details # None
               PROVE  /\ report.best \in Documents
                      /\ \A i \in Documents :
                            /\ report.details[i].errs >= report.details[report.best].errs
                            /\ i < report.best =>
                                  report.details[i].errs # report.details[report.best].errs
    BY DEF BestIsClosest
  <2> DEFINE f == report.details
             b == report.best
  <2>1. f \in Attempts /\ b = BestMatch(f)
    BY DEF MInv, ReportOK
  <2>2. DOMAIN f = Documents /\ \A i \in Documents : f[i].errs \in Nat
    BY <2>1 DEF Attempts, Attempt
  <2> HIDE DEF f, b
  <2>3. b \in Closest(f) /\ \A i \in Closest(f) : b <= i
    BY <2>1, BestIsFirstClosest
  <2>4. b \in Documents /\ \A i \in Documents : f[b].errs <= f[i].errs
    BY <2>2, <2>3 DEF Closest
  <2>5. ASSUME NEW i \in Documents, i < b, f[i].errs = f[b].errs
        PROVE  FALSE
    <3>1. i \in Closest(f)
      BY <2>2, <2>4, <2>5 DEF Closest
    <3>2. b <= i /\ b \in Nat /\ i \in Nat
      BY <2>3, <2>4, <3>1 DEF Documents
    <3> QED
      BY <2>5, <3>2
  <2>6. \A i \in Documents : f[i].errs >= f[b].errs
    BY <2>2, <2>4
  <2> QED
    BY <2>4, <2>5, <2>6 DEF f, b
<1> QED
  BY <1>1, MatcherInvariance, PTL
=============================================================================
