------------------------------ MODULE Matcher -------------------------------
(***************************************************************************)
(* The Gomega matcher behind MatchYAML and HaveStatusCondition             *)
(* (internal/matchers/matchers.go, with MatchError of                      *)
(* internal/chainsaw/errors.go).  One matcher serves many assertions, and  *)
(* an assertion may poll it: it keeps the attempts of its last mismatch    *)
(* from Match until Gomega asks for a failure message.                     *)
(*                                                                         *)
(* What comparing an object with a document finds is data here: the number *)
(* of field errors, 0 for a match, or Invalid when the document's          *)
(* expressions cannot be evaluated.                                        *)
(***************************************************************************)
EXTENDS Integers, Sequences, FiniteSetsExt

CONSTANTS
    NumDocs,    \* documents of the template
    MaxErrors,  \* bound on the field errors of one document
    Invalid,    \* a document that cannot be evaluated
    Unusable,   \* an actual that is no object, or cannot be converted
    Unrendered, \* an actual for which the template does not render
    MaxMatches  \* bound on the calls of Match

ASSUME MatcherAssumption ==
    /\ NumDocs \in Nat \ {0}
    /\ MaxErrors \in Nat
    /\ Invalid \notin Nat
    /\ MaxMatches \in Nat
    /\ {Unusable, Unrendered} \cap [1..NumDocs -> 0..MaxErrors \cup {Invalid}] = {}

VARIABLES
    assertion,  \* the running assertion: its mode, and To or NotTo
    pc,         \* "idle", "match" (before Match) or "judge" (after it)
    matches,    \* calls of Match so far, which number the actuals
    actual,     \* history: the actual the last Match was given
    rendered,   \* templateContent is no longer the placeholder
    matchErr,   \* the matcher's attempts, None for nil
    ret,        \* what Match returned
    report      \* what the failed assertion printed

vars == <<assertion, pc, matches, actual, rendered, matchErr, ret, report>>

Documents == 1..NumDocs
Objects == [Documents -> 0..MaxErrors \cup {Invalid}]
Actuals == Objects \cup {Unusable, Unrendered}

Modes == {"expect", "eventually", "consistently"}

(* One comparison that found field errors: the actual (by the number of    *)
(* the Match that was given it), the document and how many.                *)
Attempt == [actual : Nat, doc : Documents, errs : Nat]

None == <<>>
Quiet == [kind |-> "none", details |-> None, best |-> 0]

-----------------------------------------------------------------------------
(* The documents at which the loop of Match stops: the object matches, or  *)
(* the document cannot be evaluated.                                       *)
Stops(a) == {i \in Documents : a[i] \in {0, Invalid}}

(* Mutants: the attempts of an earlier Match are kept; a document that     *)
(* matches wins over an invalid one before it.                             *)
Match_NoReset(a) ==
    /\ rendered' = (rendered \/ a # Unusable)
    /\ IF a \in Objects /\ Stops(a) = {}
       THEN /\ ret' = [ok |-> FALSE, err |-> FALSE]
            /\ matchErr' = [i \in Documents |->
                               [actual |-> matches + 1, doc |-> i, errs |-> a[i]]]
       ELSE /\ ret' = IF a \in Objects
                      THEN [ok |-> a[Min(Stops(a))] = 0, err |-> a[Min(Stops(a))] = Invalid]
                      ELSE [ok |-> FALSE, err |-> TRUE]
            /\ UNCHANGED matchErr

Match_AnyOrder(a) ==
    /\ rendered' = (rendered \/ a # Unusable)
    /\ ret' = [ok |-> a \in Objects /\ \E i \in Documents : a[i] = 0,
               err |-> a \notin Objects]
    /\ matchErr' = None

(* Match: an unusable actual or template returns an error and leaves the   *)
(* attempts alone; else the first document that matches decides, and       *)
(* without one there is an attempt for each.                               *)
Match(a) ==
    /\ rendered' = (rendered \/ a # Unusable)
    /\ IF a \in {Unusable, Unrendered}
       THEN /\ ret' = [ok |-> FALSE, err |-> TRUE]
            /\ UNCHANGED matchErr
       ELSE IF Stops(a) = {}
       THEN /\ ret' = [ok |-> FALSE, err |-> FALSE]
            /\ matchErr' = [i \in Documents |->
                               [actual |-> matches + 1, doc |-> i, errs |-> a[i]]]
       ELSE /\ ret' = [ok |-> a[Min(Stops(a))] = 0, err |-> a[Min(Stops(a))] = Invalid]
            /\ matchErr' = None

(* Mutants: the index is made a position twice; the last of the closest    *)
(* attempts is taken.                                                      *)
BestMatch_Past(attempts) ==
    1 + Min({i \in DOMAIN attempts :
                \A j \in DOMAIN attempts : attempts[i].errs <= attempts[j].errs})

BestMatch_Last(attempts) ==
    Max({i \in DOMAIN attempts :
            \A j \in DOMAIN attempts : attempts[i].errs <= attempts[j].errs})

(* bestMatchIndex: the first attempt no other has fewer field errors than. *)
BestMatch(attempts) ==
    Min({i \in DOMAIN attempts :
            \A j \in DOMAIN attempts : attempts[i].errs <= attempts[j].errs})

(* failureMessage: the header tells the direction and whether there were   *)
(* several attempts; without attempts there are no details.                *)
FailureMessage(negated) ==
    [kind |-> IF negated THEN "matched" ELSE "mismatched",
     details |-> matchErr,
     best |-> IF matchErr = None THEN 0 ELSE BestMatch(matchErr)]

-----------------------------------------------------------------------------
(* Gomega, as the tests use it.  A test asserts with the matcher...        *)
Assert ==
    /\ pc = "idle"
    /\ assertion' \in [mode : Modes, negated : BOOLEAN]
    /\ pc' = "match"
    /\ report' = Quiet
    /\ UNCHANGED <<matches, actual, rendered, matchErr, ret>>

(* ... which is given one actual after another ...                         *)
CallMatch ==
    /\ pc = "match"
    /\ matches < MaxMatches
    /\ matches' = matches + 1
    /\ \E a \in Actuals : actual' = a /\ Match(a)
    /\ pc' = "judge"
    /\ UNCHANGED <<assertion, report>>

Satisfied == ~ret.err /\ ret.ok # assertion.negated

(* ... until Eventually succeeds or Consistently fails, or the time is up. *)
PollAgain ==
    /\ pc = "judge"
    /\ assertion.mode = IF Satisfied THEN "consistently" ELSE "eventually"
    /\ pc' = "match"
    /\ UNCHANGED <<assertion, matches, actual, rendered, matchErr, ret, report>>

Pass ==
    /\ pc = "judge"
    /\ Satisfied
    /\ pc' = "idle"
    /\ UNCHANGED <<assertion, matches, actual, rendered, matchErr, ret, report>>

(* A failure prints the error of the last Match, or asks for the message. *)
Report ==
    /\ pc = "judge"
    /\ ~Satisfied
    /\ report' = IF ret.err THEN [Quiet EXCEPT !.kind = "error"]
                 ELSE FailureMessage(assertion.negated)
    /\ pc' = "idle"
    /\ UNCHANGED <<assertion, matches, actual, rendered, matchErr, ret>>

Init ==
    /\ assertion = [mode |-> "expect", negated |-> FALSE]
    /\ pc = "idle"
    /\ matches = 0
    /\ actual = Unusable
    /\ rendered = FALSE
    /\ matchErr = None
    /\ ret = [ok |-> FALSE, err |-> FALSE]
    /\ report = Quiet

Next == Assert \/ CallMatch \/ PollAgain \/ Pass \/ Report

Spec == Init /\ [][Next]_vars
-----------------------------------------------------------------------------
MatcherTypeOK ==
    /\ assertion \in [mode : Modes, negated : BOOLEAN]
    /\ pc \in {"idle", "match", "judge"}
    /\ matches \in 0..MaxMatches
    /\ actual \in Actuals
    /\ rendered \in BOOLEAN
    /\ matchErr \in {None} \cup [Documents -> Attempt]
    /\ ret \in [ok : BOOLEAN, err : BOOLEAN]
    /\ report.kind \in {"none", "error", "matched", "mismatched"}
    /\ report.best \in 0..NumDocs

(* "Match any document" (doc of MatchYAML): a match is found exactly when  *)
(* some document matches, unless one before it cannot be evaluated; an     *)
(* error is never mistaken for a mismatch, which a NotTo would accept.     *)
MatchesAnyDocument ==
    pc = "judge" /\ actual \in Objects =>
        /\ ret.ok <=> \E i \in Documents :
                         /\ actual[i] = 0
                         /\ \A j \in 1..(i - 1) : actual[j] # Invalid
        /\ ~ret.ok /\ ~ret.err => \A i \in Documents : actual[i] \notin {0, Invalid}

(* The details an assertion prints are those of the actual it failed on,   *)
(* against every document in order, although the matcher is polled and     *)
(* reused and keeps the attempts between calls.                            *)
DetailsAreCurrent ==
    report.details # None =>
        /\ report.kind = "mismatched" /\ rendered
        /\ Len(report.details) = NumDocs
        /\ \A i \in Documents :
              /\ report.details[i].doc = i
              /\ report.details[i].actual = matches
              /\ report.details[i].errs = actual[i]

(* The attempt singled out in a message is a closest one, and the first of *)
(* them (doc of BestMatch).                                                *)
BestIsClosest ==
    report.details # None =>
        /\ report.best \in Documents
        /\ \A i \in Documents :
              /\ report.details[i].errs >= report.details[report.best].errs
              /\ i < report.best =>
                    report.details[i].errs # report.details[report.best].errs
=============================================================================
