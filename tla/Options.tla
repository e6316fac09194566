------------------------------ MODULE Options -------------------------------
(***************************************************************************)
(* How the arguments of New and of every operation become options          *)
(* (internal/options/options.go, and New in sawchain.go).  Arguments are   *)
(* told apart by their Go type alone, a zero field of the struct means     *)
(* "not given yet", and what a call does not give comes from the Sawchain, *)
(* which all its calls share.                                              *)
(***************************************************************************)
EXTENDS Integers, Sequences

CONSTANTS
    Args,           \* the arguments tests pass
    MaxArgs         \* bound on the arguments of New and all calls together

(* An argument by its type.  val is the value where the parser looks at    *)
(* it: 0 stands for zero and below, "nil" for a nil slice, "hasnil" for a  *)
(* nil object or a slice with one in it, "bad" for a template that is      *)
(* empty or no YAML.  text marks a duration spelled as a string.           *)
Arg == [kind : {"verbosity"}, val : Nat]
       \cup [kind : {"duration"}, val : Nat, text : BOOLEAN]
       \cup [kind : {"object"}, val : {"given", "hasnil"}]
       \cup [kind : {"objects"}, val : {"given", "nil", "hasnil"}]
       \cup [kind : {"template"}, val : {"given", "bad"}]
       \cup [kind : {"bindings"}, val : [{"x"} -> Nat] \cup [{"y"} -> Nat]]

ASSUME OptionsAssumption == Args \subseteq Arg /\ MaxArgs \in Nat

VARIABLES
    global,     \* the Sawchain's options
    newArgs,    \* history: the arguments of New
    op,         \* the last operation
    args,       \* history: its arguments
    opts,       \* the options it was given
    spent       \* arguments given so far

vars == <<global, newArgs, op, args, opts, spent>>

(* What an operation accepts: the flags it passes ParseAndApplyDefaults.   *)
(* create stands for Update, Delete, Get and GetFunc too, createAndWait    *)
(* for the other waiting calls, the rest for their Func variants.          *)
Include == [new |-> {"verbosity", "duration"},
            create |-> {"object", "objects", "template"},
            createAndWait |-> {"duration", "object", "objects", "template"},
            fetchSingle |-> {"object", "template"},
            fetchMultiple |-> {"objects", "template"},
            check |-> {"object", "objects", "template"},
            renderSingle |-> {"object", "template"},
            renderMultiple |-> {"objects", "template"}]

(* What it requires: one option of each of these sets. *)
Require == [new |-> {{"verbosity"}, {"timeout"}, {"interval"}},
            create |-> {{"template", "object", "objects"}},
            createAndWait |-> {{"timeout"}, {"interval"},
                               {"template", "object", "objects"}},
            fetchSingle |-> {{"template", "object"}},
            fetchMultiple |-> {{"template", "objects"}},
            check |-> {{"template"}},
            renderSingle |-> {{"template"}},
            renderMultiple |-> {{"template"}}]

Operations == DOMAIN Include \ {"new"}

Empty == [err |-> FALSE, verbosity |-> 0, timeout |-> 0, interval |-> 0,
          template |-> "nil", object |-> "nil", objects |-> "nil",
          bindings |-> <<>>]
Rejected == [Empty EXCEPT !.err = TRUE]

(* The settings New starts from: VerbosityNormal, 5s and 1s. *)
NewDefaults == [Empty EXCEPT !.verbosity = 1, !.timeout = 5, !.interval = 1]

-----------------------------------------------------------------------------
(* Mutant: the first map wins. *)
Merge_First(m, n) ==
    [k \in DOMAIN m \cup DOMAIN n |-> IF k \in DOMAIN m THEN m[k] ELSE n[k]]

(* MergeMaps of two maps, into a new one. *)
Merge(m, n) ==
    [k \in DOMAIN m \cup DOMAIN n |-> IF k \in DOMAIN n THEN n[k] ELSE m[k]]

(* Which check of the parser takes an argument.  A string that spells a    *)
(* duration is one where durations are accepted, and a template elsewhere. *)
Class(inc, a) ==
    CASE a.kind \in inc \cup {"bindings"} -> a.kind
      [] a.kind = "duration" /\ a.text /\ {"duration", "template"} \cap inc = {"template"}
            -> "template"
      [] OTHER -> "unexpected"

TakeVerbosity(o, a) ==
    IF a.val = 0 \/ o.verbosity # 0 THEN Rejected
    ELSE [o EXCEPT !.verbosity = a.val]

(* Mutant: any interval will do. *)
TakeDuration_NoBound(o, a) ==
    IF a.val = 0 \/ (o.timeout # 0 /\ o.interval # 0) THEN Rejected
    ELSE IF o.timeout = 0 THEN [o EXCEPT !.timeout = a.val]
    ELSE [o EXCEPT !.interval = a.val]

(* The first duration is the timeout, the second the interval. *)
TakeDuration(o, a) ==
    IF \/ a.val = 0
       \/ o.timeout # 0 /\ (o.interval # 0 \/ a.val > o.timeout)
    THEN Rejected
    ELSE IF o.timeout = 0 THEN [o EXCEPT !.timeout = a.val]
    ELSE [o EXCEPT !.interval = a.val]

(* Mutant: a slice of objects given before is not noticed. *)
TakeObject_AfterObjects(o, a) ==
    IF o.object # "nil" \/ a.val = "hasnil" THEN Rejected
    ELSE [o EXCEPT !.object = a.val]

TakeObject(o, a) ==
    IF o.object # "nil" \/ o.objects # "nil" \/ a.val = "hasnil" THEN Rejected
    ELSE [o EXCEPT !.object = a.val]

(* Mutant: the elements of the slice are not looked at. *)
TakeObjects_HasNil(o, a) ==
    IF o.objects # "nil" \/ o.object # "nil" THEN Rejected
    ELSE [o EXCEPT !.objects = a.val]

TakeObjects(o, a) ==
    IF o.objects # "nil" \/ o.object # "nil" \/ a.val = "hasnil" THEN Rejected
    ELSE [o EXCEPT !.objects = a.val]

(* The argument may be a string that spells a duration, sound as YAML. *)
TakeTemplate(o, a) ==
    IF o.template # "nil" \/ (a.kind = "template" /\ a.val = "bad") THEN Rejected
    ELSE [o EXCEPT !.template = "given"]

(* One round of the loop in parse, which stops at a rejected argument. *)
Take(inc, o, a) ==
    CASE o.err -> o
      [] ~o.err /\ Class(inc, a) = "verbosity" -> TakeVerbosity(o, a)
      [] ~o.err /\ Class(inc, a) = "duration" -> TakeDuration(o, a)
      [] ~o.err /\ Class(inc, a) = "object" -> TakeObject(o, a)
      [] ~o.err /\ Class(inc, a) = "objects" -> TakeObjects(o, a)
      [] ~o.err /\ Class(inc, a) = "template" -> TakeTemplate(o, a)
      [] ~o.err /\ Class(inc, a) = "bindings" ->
            [o EXCEPT !.bindings = Merge(@, a.val)]
      [] OTHER -> Rejected

(* The options after each round of the loop. *)
Parse(inc, s) ==
    LET after[n \in 0..Len(s)] ==
            IF n = 0 THEN Empty ELSE Take(inc, after[n - 1], s[n])
    IN  after[Len(s)]

(* Mutant: the durations are defaulted together or not at all. *)
ApplyDefaults_Together(d, o) ==
    [o EXCEPT !.verbosity = IF @ = 0 THEN d.verbosity ELSE @,
              !.timeout = IF @ = 0 THEN d.timeout ELSE @,
              !.interval = IF @ = 0 /\ o.timeout = 0 THEN d.interval ELSE @,
              !.bindings = Merge(d.bindings, @)]

(* What was not given comes from d; bindings are merged. *)
ApplyDefaults(d, o) ==
    [o EXCEPT !.verbosity = IF @ = 0 THEN d.verbosity ELSE @,
              !.timeout = IF @ = 0 THEN d.timeout ELSE @,
              !.interval = IF @ = 0 THEN d.interval ELSE @,
              !.bindings = Merge(d.bindings, @)]

Given(o) ==
    {f \in {"verbosity", "timeout", "interval"} : o[f] # 0}
    \cup {f \in {"template", "object", "objects"} : o[f] # "nil"}

(* ParseAndApplyDefaults, and the Require functions after it. *)
OptionsFor(d, which, s) ==
    LET parsed == Parse(Include[which], s)
        o == ApplyDefaults(d, parsed)
    IN  IF parsed.err \/ \E alternatives \in Require[which] : alternatives \cap Given(o) = {}
        THEN Rejected ELSE o

-----------------------------------------------------------------------------
ArgsUpTo(m) == UNION {[1..n -> Args] : n \in 0..m}

(* New, where it does not fail the test. *)
Init ==
    /\ newArgs \in {s \in ArgsUpTo(MaxArgs) : ~OptionsFor(NewDefaults, "new", s).err}
    /\ global = OptionsFor(NewDefaults, "new", newArgs)
    /\ op = "new"
    /\ args = <<>>
    /\ opts = Empty
    /\ spent = Len(newArgs)

(* Mutant: the call's bindings are merged into the Sawchain's own map. *)
Operate_Leak ==
    /\ ~opts.err
    /\ op' \in Operations
    /\ args' \in ArgsUpTo(MaxArgs - spent)
    /\ opts' = OptionsFor(global, op', args')
    /\ global' = IF opts'.err THEN global ELSE [global EXCEPT !.bindings = opts'.bindings]
    /\ spent' = spent + Len(args')
    /\ UNCHANGED newArgs

(* An operation is called; rejected arguments end the test. *)
Operate ==
    /\ ~opts.err
    /\ op' \in Operations
    /\ args' \in ArgsUpTo(MaxArgs - spent)
    /\ opts' = OptionsFor(global, op', args')
    /\ spent' = spent + Len(args')
    /\ UNCHANGED <<global, newArgs>>

Spec == Init /\ [][Operate]_vars
-----------------------------------------------------------------------------
(* Types: an operation that goes on works with no nil among its objects    *)
(* and with durations and a verbosity above zero.                          *)
OptionsTypeOK ==
    \/ opts \in {Empty, Rejected}
    \/ /\ {opts.verbosity, opts.timeout, opts.interval} \subseteq Nat \ {0}
       /\ {opts.template, opts.object, opts.objects} \subseteq {"nil", "given"}
       /\ DOMAIN opts.bindings \subseteq {"x", "y"}

(* A nil slice of objects is taken like any other and counts as nothing    *)
(* given, so what follows it decides: the documentation knows no such      *)
(* argument, and the next two properties leave it out.                     *)
Proper(a) == a.kind = "objects" => a.val # "nil"

AtMostOne(positions) == \A i, j \in positions : i = j

(* A call is accepted exactly when the documentation of its arguments says *)
(* so: nothing of another type and nothing invalid, one template, one      *)
(* object or one slice, one timeout and after it an interval not above it, *)
(* and what is required.  The Sawchain's own settings never get in the way.*)
AcceptedAsDocumented ==
    op # "new" /\ (\A i \in DOMAIN args : Proper(args[i])) =>
        LET at(class) == {i \in DOMAIN args : Class(Include[op], args[i]) = class}
            stored == at("object") \cup at("objects")
        IN  ~opts.err <=>
              /\ at("unexpected") = {}
              /\ \A i \in at("duration") : args[i].val > 0
              /\ \A i \in DOMAIN args :
                    args[i].kind \in {"object", "objects", "template"} =>
                        args[i].val \notin {"hasnil", "bad"}
              /\ AtMostOne(at("template")) /\ AtMostOne(stored)
              /\ \A i, j \in at("duration") : i < j =>
                    /\ args[j].val <= args[i].val
                    /\ ~\E k \in at("duration") : j < k
              /\ IF op \in {"check", "renderSingle", "renderMultiple"}
                 THEN at("template") # {} ELSE at("template") \cup stored # {}

(* "The following arguments may be provided in any order (unless noted     *)
(* otherwise)": two neighbours can change places, unless both are          *)
(* durations (the timeout first) or bindings (the later map wins).         *)
Swapped(s, i) == [s EXCEPT ![i] = s[i + 1], ![i + 1] = s[i]]
OrderIrrelevant ==
    op # "new" => \A i \in 1..(Len(args) - 1) :
        \/ args[i].kind = args[i + 1].kind /\ args[i].kind \in {"duration", "bindings"}
        \/ ~Proper(args[i]) \/ ~Proper(args[i + 1])
        \/ OptionsFor(global, op, Swapped(args, i)) = opts

(* A binding has the value of the last map that names it, the call's maps  *)
(* coming after those of New; nothing of an earlier call is left in it.    *)
BindingsAreOwn ==
    op # "new" /\ ~opts.err =>
        LET all == newArgs \o args
            naming(k) == {i \in DOMAIN all : all[i].kind = "bindings" /\ k \in DOMAIN all[i].val}
        IN  /\ DOMAIN opts.bindings = {k \in {"x", "y"} : naming(k) # {}}
            /\ \A k \in DOMAIN opts.bindings : \A i \in naming(k) :
                  (\A j \in naming(k) : j <= i) => opts.bindings[k] = all[i].val[k]
=============================================================================
