---------------------------- MODULE OptionsProofs ----------------------------
(***************************************************************************)
(* Proofs about Options, for any arguments and any number of them: what    *)
(* the loop of the parser computes, argument by argument, and from it what *)
(* a call accepts and what it works with.                                  *)
(***************************************************************************)
EXTENDS Options, WellFoundedInduction, TLAPS

(* Options as the parser and the defaults leave them. *)
Maps == UNION {[D -> Nat] : D \in SUBSET {"x", "y"}}
Opt == [err : BOOLEAN, verbosity : Nat, timeout : Nat, interval : Nat,
        template : {"nil", "given"}, object : {"nil", "given"},
        objects : {"nil", "given"}, bindings : Maps]

Kinds == {"verbosity", "duration", "object", "objects", "template"}

-----------------------------------------------------------------------------
(* Induction over the rounds of a loop, for a set of numbers. *)
LEMMA LeastNumber ==
  ASSUME NEW S \in SUBSET Nat, S # {}
  PROVE  \E x \in S : \A y \in S : x <= y
<1>1. \E x \in S : \A y \in S : ~(<<y, x>> \in OpToRel(<, Nat))
  BY NatLessThanWellFounded, WFMin
<1>2. \A x, y \in Nat : <<y, x>> \in OpToRel(<, Nat) <=> y < x
  BY DEF OpToRel
<1>3. PICK x \in S : \A y \in S : ~(<<y, x>> \in OpToRel(<, Nat))
  BY <1>1
<1>4. \A y \in S : x \in Nat /\ y \in Nat /\ ~(y < x)
  BY <1>2, <1>3
<1> QED
  BY <1>4

LEMMA UpTo ==
  ASSUME NEW S, NEW m \in Nat, 0 \in S, \A n \in 1..m : n - 1 \in S => n \in S
  PROVE  \A n \in 0..m : n \in S
<1> DEFINE Bad == {n \in 0..m : n \notin S}
<1>1. SUFFICES ASSUME Bad # {} PROVE FALSE
  OBVIOUS
<1>2. PICK x \in Bad : \A y \in Bad : x <= y
  <2>1. Bad \in SUBSET Nat
    OBVIOUS
  <2> HIDE DEF Bad
  <2> QED
    BY <1>1, <2>1, LeastNumber
<1>3. x \in 1..m /\ x - 1 \in 0..m /\ x - 1 \notin Bad
  BY <1>2
<1> QED
  BY <1>2, <1>3

(* The rounds of the parser's loop: f[n] are the options after n of them.  *)
Rounds(inc, s, m, f) ==
    f = [n \in 0..m |-> IF n = 0 THEN Empty ELSE Take(inc, f[n - 1], s[n])]

LEMMA RoundsExist ==
  ASSUME NEW inc, NEW s, NEW m \in Nat
  PROVE  \E f : Rounds(inc, s, m, f)
<1> DEFINE S == {i \in Nat : \E f : Rounds(inc, s, i, f)}
<1>1. 0 \in S
  <2> DEFINE f == [n \in 0..0 |-> Empty]
  <2>1. f = [n \in 0..0 |-> IF n = 0 THEN Empty ELSE Take(inc, f[n - 1], s[n])]
    OBVIOUS
  <2> QED
    BY <2>1 DEF Rounds
<1>2. ASSUME NEW x \in 1..m, x - 1 \in S
      PROVE  x \in S
  <2>1. PICK f : Rounds(inc, s, x - 1, f)
    BY <1>2
  <2> DEFINE g == [n \in 0..x |-> IF n = x THEN Take(inc, f[x - 1], s[x]) ELSE f[n]]
  <2>2. ASSUME NEW n \in 0..x
        PROVE  g[n] = IF n = 0 THEN Empty ELSE Take(inc, g[n - 1], s[n])
    <3>1. CASE n = x
      <4>1. x \in 0..x /\ x - 1 \in 0..x /\ x - 1 # x /\ x # 0
        OBVIOUS
      <4> QED
        BY <3>1, <4>1
    <3>2. CASE n # x
      <4>1. n \in 0..(x - 1) /\ (n # 0 => n - 1 \in 0..x /\ n - 1 # x)
        BY <3>2
      <4>2. f[n] = IF n = 0 THEN Empty ELSE Take(inc, f[n - 1], s[n])
        BY <2>1, <4>1 DEF Rounds
      <4> QED
        BY <3>2, <4>1, <4>2
    <3> QED
      BY <3>1, <3>2
  <2>3. g = [n \in 0..x |-> IF n = 0 THEN Empty ELSE Take(inc, g[n - 1], s[n])]
    BY <2>2
  <2> HIDE DEF g
  <2>4. Rounds(inc, s, x, g) /\ x \in Nat
    BY <2>3 DEF Rounds
  <2> QED
    BY <2>4
<1> HIDE DEF S
<1>3. m \in S
  BY <1>1, <1>2, UpTo
<1> QED
  BY <1>3 DEF S

LEMMA ParseRounds ==
  ASSUME NEW inc, NEW s \in Seq(Arg)
  PROVE  \E f : /\ Parse(inc, s) = f[Len(s)]
                /\ f[0] = Empty
                /\ \A n \in 1..Len(s) : f[n] = Take(inc, f[n - 1], s[n])
<1>1. Len(s) \in Nat
  OBVIOUS
<1>2. \E g : Rounds(inc, s, Len(s), g)
  BY <1>1, RoundsExist
<1> DEFINE f == CHOOSE f : f = [n \in 0..Len(s) |->
                                  IF n = 0 THEN Empty ELSE Take(inc, f[n - 1], s[n])]
<1>3. Rounds(inc, s, Len(s), f)
  BY <1>2 DEF Rounds
<1>4. Parse(inc, s) = f[Len(s)]
  BY DEF Parse
<1> HIDE DEF f
<1>5. \A n \in 0..Len(s) : f[n] = IF n = 0 THEN Empty ELSE Take(inc, f[n - 1], s[n])
  BY <1>3 DEF Rounds
<1>6. 0 \in 0..Len(s) /\ \A n \in 1..Len(s) : n \in 0..Len(s) /\ n # 0
  BY <1>1
<1> QED
  BY <1>4, <1>5, <1>6

-----------------------------------------------------------------------------
(* Arguments and the check of the parser that takes them. *)
LEMMA ArgValues ==
  ASSUME NEW a \in Arg
  PROVE  /\ a.kind \in Kinds \cup {"bindings"}
         /\ a.kind \in {"verbosity", "duration"} => a.val \in Nat
         /\ a.kind = "object" => a.val \in {"given", "hasnil"}
         /\ a.kind = "objects" => a.val \in {"given", "nil", "hasnil"}
         /\ a.kind = "template" => a.val \in {"given", "bad"}
         /\ a.kind = "bindings" => a.val \in Maps
<1>1. {"x"} \in SUBSET {"x", "y"} /\ {"y"} \in SUBSET {"x", "y"}
  OBVIOUS
<1> QED
  BY <1>1 DEF Arg, Kinds, Maps

LEMMA ClassOf ==
  ASSUME NEW inc \in SUBSET Kinds, NEW a \in Arg
  PROVE  \/ Class(inc, a) = a.kind /\ a.kind \in inc \cup {"bindings"}
         \/ /\ Class(inc, a) = "template" /\ a.kind = "duration"
            /\ "duration" \notin inc /\ "template" \in inc
         \/ Class(inc, a) = "unexpected" /\ a.kind \notin inc \cup {"bindings"}
<1>1. CASE a.kind \in inc \cup {"bindings"}
  <2>1. a.kind = "duration" => {"duration", "template"} \cap inc # {"template"}
    BY <1>1
  <2> QED
    BY <1>1, <2>1 DEF Class
<1>2. CASE a.kind \notin inc \cup {"bindings"}
  <2>1. CASE a.kind = "duration" /\ a.text /\ {"duration", "template"} \cap inc = {"template"}
    <3>1. "duration" \notin inc /\ "template" \in inc
      BY <2>1
    <3> QED
      BY <1>2, <2>1, <3>1 DEF Class
  <2>2. CASE ~(a.kind = "duration" /\ a.text /\ {"duration", "template"} \cap inc = {"template"})
    BY <1>2, <2>2 DEF Class
  <2> QED
    BY <2>1, <2>2
<1> QED
  BY <1>1, <1>2

(* One round, by the class of the argument. *)
LEMMA TakeBy ==
  ASSUME NEW inc \in SUBSET Kinds, NEW a \in Arg, NEW o \in Opt
  PROVE  /\ o.err => Take(inc, o, a) = o
         /\ ~o.err =>
              /\ Class(inc, a) = "verbosity" => Take(inc, o, a) = TakeVerbosity(o, a)
              /\ Class(inc, a) = "duration" => Take(inc, o, a) = TakeDuration(o, a)
              /\ Class(inc, a) = "object" => Take(inc, o, a) = TakeObject(o, a)
              /\ Class(inc, a) = "objects" => Take(inc, o, a) = TakeObjects(o, a)
              /\ Class(inc, a) = "template" => Take(inc, o, a) = TakeTemplate(o, a)
              /\ Class(inc, a) = "bindings" =>
                    Take(inc, o, a) = [o EXCEPT !.bindings = Merge(@, a.val)]
              /\ Class(inc, a) = "unexpected" => Take(inc, o, a) = Rejected
  BY DEF Take

-----------------------------------------------------------------------------
(* Types. *)
LEMMA EmptyTyped == Empty \in Opt /\ Rejected \in Opt /\ Rejected.err /\ NewDefaults \in Opt
<1>1. <<>> \in Maps
  <2>1. <<>> \in [{} -> Nat] /\ {} \in SUBSET {"x", "y"}
    OBVIOUS
  <2> QED
    BY <2>1 DEF Maps
<1> QED
  BY <1>1 DEF Empty, Rejected, NewDefaults, Opt

LEMMA MergeTyped ==
  ASSUME NEW m \in Maps, NEW n \in Maps
  PROVE  Merge(m, n) \in Maps
<1>1. PICK D \in SUBSET {"x", "y"} : m \in [D -> Nat]
  BY DEF Maps
<1>2. PICK E \in SUBSET {"x", "y"} : n \in [E -> Nat]
  BY DEF Maps
<1>3. Merge(m, n) \in [D \cup E -> Nat]
  BY <1>1, <1>2 DEF Merge
<1>4. D \cup E \in SUBSET {"x", "y"}
  OBVIOUS
<1> QED
  BY <1>3, <1>4 DEF Maps

LEMMA TakeTyped ==
  ASSUME NEW inc \in SUBSET Kinds, NEW a \in Arg, NEW o \in Opt
  PROVE  Take(inc, o, a) \in Opt
<1>1. Rejected \in Opt
  BY EmptyTyped
<1>2. CASE o.err
  BY <1>2, TakeBy
<1>3. CASE ~o.err
  <2>1. CASE Class(inc, a) = "verbosity"
    <3>1. a.val \in Nat
      BY <2>1, ClassOf, ArgValues
    <3> QED
      BY <1>1, <1>3, <2>1, <3>1, TakeBy DEF TakeVerbosity, Opt
  <2>2. CASE Class(inc, a) = "duration"
    <3>1. a.val \in Nat
      BY <2>2, ClassOf, ArgValues
    <3> QED
      BY <1>1, <1>3, <2>2, <3>1, TakeBy DEF TakeDuration, Opt
  <2>3. CASE Class(inc, a) = "object"
    <3>1. a.val \in {"given", "hasnil"}
      BY <2>3, ClassOf, ArgValues
    <3> QED
      BY <1>1, <1>3, <2>3, <3>1, TakeBy DEF TakeObject, Opt
  <2>4. CASE Class(inc, a) = "objects"
    <3>1. a.val \in {"given", "nil", "hasnil"}
      BY <2>4, ClassOf, ArgValues
    <3> QED
      BY <1>1, <1>3, <2>4, <3>1, TakeBy DEF TakeObjects, Opt
  <2>5. CASE Class(inc, a) = "template"
    BY <1>1, <1>3, <2>5, TakeBy DEF TakeTemplate, Opt
  <2>6. CASE Class(inc, a) = "bindings"
    <3>1. a.val \in Maps
      BY <2>6, ClassOf, ArgValues DEF Kinds
    <3>2. Merge(o.bindings, a.val) \in Maps
      BY <3>1, MergeTyped DEF Opt
    <3>3. Take(inc, o, a) = [o EXCEPT !.bindings = Merge(o.bindings, a.val)]
      BY <1>3, <2>6, TakeBy
    <3> QED
      BY <3>2, <3>3 DEF Opt
  <2>7. CASE Class(inc, a) = "unexpected"
    BY <1>1, <1>3, <2>7, TakeBy
  <2> QED
    BY <2>1, <2>2, <2>3, <2>4, <2>5, <2>6, <2>7, ClassOf DEF Kinds
<1> QED
  BY <1>2, <1>3

LEMMA RoundsTyped ==
  ASSUME NEW inc \in SUBSET Kinds, NEW s \in Seq(Arg), NEW f, f[0] = Empty,
         \A n \in 1..Len(s) : f[n] = Take(inc, f[n - 1], s[n])
  PROVE  \A n \in 0..Len(s) : f[n] \in Opt
<1> DEFINE S == {n \in 0..Len(s) : f[n] \in Opt}
<1>1. Len(s) \in Nat /\ 0 \in S
  BY EmptyTyped
<1>2. ASSUME NEW n \in 1..Len(s), n - 1 \in S
      PROVE  n \in S
  BY <1>2, TakeTyped
<1> HIDE DEF S
<1>3. \A n \in 0..Len(s) : n \in S
  BY <1>1, <1>2, UpTo
<1> QED
  BY <1>3 DEF S

LEMMA ParseTyped ==
  ASSUME NEW inc \in SUBSET Kinds, NEW s \in Seq(Arg)
  PROVE  Parse(inc, s) \in Opt
<1>1. PICK f : /\ Parse(inc, s) = f[Len(s)]
               /\ f[0] = Empty
               /\ \A n \in 1..Len(s) : f[n] = Take(inc, f[n - 1], s[n])
  BY ParseRounds
<1>2. \A n \in 0..Len(s) : f[n] \in Opt
  BY <1>1, RoundsTyped
<1>3. Len(s) \in 0..Len(s)
  OBVIOUS
<1> QED
  BY <1>1, <1>2, <1>3

(* Defaults fill what was not given. *)
LEMMA DefaultsFill ==
  ASSUME NEW d \in Opt, NEW o \in Opt
  PROVE  LET r == ApplyDefaults(d, o)
         IN  /\ r \in Opt
             /\ r.err = o.err /\ r.template = o.template
             /\ r.object = o.object /\ r.objects = o.objects
             /\ r.verbosity = IF o.verbosity = 0 THEN d.verbosity ELSE o.verbosity
             /\ r.timeout = IF o.timeout = 0 THEN d.timeout ELSE o.timeout
             /\ r.interval = IF o.interval = 0 THEN d.interval ELSE o.interval
             /\ r.bindings = Merge(d.bindings, o.bindings)
<1>1. Merge(d.bindings, o.bindings) \in Maps
  BY MergeTyped DEF Opt
<1> QED
  BY <1>1 DEF ApplyDefaults, Opt

LEMMA GivenOptions ==
  ASSUME NEW o \in Opt
  PROVE  /\ "verbosity" \in Given(o) <=> o.verbosity # 0
         /\ "timeout" \in Given(o) <=> o.timeout # 0
         /\ "interval" \in Given(o) <=> o.interval # 0
         /\ "template" \in Given(o) <=> o.template # "nil"
         /\ "object" \in Given(o) <=> o.object # "nil"
         /\ "objects" \in Given(o) <=> o.objects # "nil"
  BY DEF Given

-----------------------------------------------------------------------------
(* What the operations accept and require. *)
LEMMA OperationNames ==
  Operations = {"create", "createAndWait", "fetchSingle", "fetchMultiple", "check",
                "renderSingle", "renderMultiple"}
  BY DEF Operations, Include

LEMMA Included ==
  ASSUME NEW which \in Operations
  PROVE  /\ Include[which] \in SUBSET Kinds
         /\ "verbosity" \notin Include[which]
  BY OperationNames DEF Include, Kinds

(* A call has what it requires when the Sawchain has its own settings.     *)
LEMMA Required ==
  ASSUME NEW which \in Operations, NEW o \in Opt, o.timeout # 0, o.interval # 0,
         "object" \notin Include[which] => o.object = "nil",
         "objects" \notin Include[which] => o.objects = "nil"
  PROVE  (\A alternatives \in Require[which] : alternatives \cap Given(o) # {}) <=>
           IF which \in {"check", "renderSingle", "renderMultiple"}
           THEN o.template # "nil"
           ELSE o.template # "nil" \/ o.object # "nil" \/ o.objects # "nil"
<1> DEFINE G == Given(o)
<1>1. /\ "timeout" \in G /\ "interval" \in G
      /\ "template" \in G <=> o.template # "nil"
      /\ "object" \in G <=> o.object # "nil"
      /\ "objects" \in G <=> o.objects # "nil"
  BY GivenOptions
<1> HIDE DEF G
<1>2. CASE which \in {"check", "renderSingle", "renderMultiple"}
  <2>1. Require[which] = {{"template"}}
    BY <1>2 DEF Require
  <2> QED
    BY <1>1, <1>2, <2>1 DEF G
<1>3. CASE which = "create"
  <2>1. Require[which] = {{"template", "object", "objects"}}
    BY <1>3 DEF Require
  <2> QED
    BY <1>1, <1>3, <2>1 DEF G
<1>4. CASE which = "createAndWait"
  <2>1. Require[which] = {{"timeout"}, {"interval"}, {"template", "object", "objects"}}
    BY <1>4 DEF Require
  <2> QED
    BY <1>1, <1>4, <2>1 DEF G
<1>5. CASE which = "fetchSingle"
  <2>1. Require[which] = {{"template", "object"}} /\ "objects" \notin Include[which]
    BY <1>5 DEF Require, Include
  <2> QED
    BY <1>1, <1>5, <2>1 DEF G
<1>6. CASE which = "fetchMultiple"
  <2>1. Require[which] = {{"template", "objects"}} /\ "object" \notin Include[which]
    BY <1>6 DEF Require, Include
  <2> QED
    BY <1>1, <1>6, <2>1 DEF G
<1> QED
  BY <1>2, <1>3, <1>4, <1>5, <1>6, OperationNames

-----------------------------------------------------------------------------
(* The Sawchain's settings come from New, and stay as they are. *)
OInv ==
    /\ newArgs \in Seq(Arg) /\ global = OptionsFor(NewDefaults, "new", newArgs) /\ ~global.err
    /\ args \in Seq(Arg)
    /\ op = "new" => opts = Empty
    /\ op # "new" => op \in Operations /\ opts = OptionsFor(global, op, args)

LEMMA ArgsAreArgs ==
  ASSUME NEW m, NEW s \in ArgsUpTo(m)
  PROVE  s \in Seq(Arg)
<1>1. PICK n \in 0..m : s \in [1..n -> Args]
  BY DEF ArgsUpTo
<1>2. s \in [1..n -> Arg] /\ n \in Nat
  BY <1>1, OptionsAssumption
<1> QED
  BY <1>2

LEMMA OptionsInvariant == Spec => []OInv
<1>1. Init => OInv
  BY ArgsAreArgs DEF Init, OInv
<1>2. OInv /\ [Operate]_vars => OInv'
  <2> SUFFICES ASSUME OInv, [Operate]_vars PROVE OInv'
    OBVIOUS
  <2>1. CASE Operate
    <3>1. args' \in Seq(Arg) /\ op' \in Operations
      BY <2>1, ArgsAreArgs DEF Operate
    <3>2. op' # "new"
      BY <3>1 DEF Operations
    <3> QED
      BY <2>1, <3>1, <3>2 DEF OInv, Operate
  <2>2. CASE UNCHANGED vars
    BY <2>2 DEF OInv, vars
  <2> QED
    BY <2>1, <2>2
<1> QED
  BY <1>1, <1>2, PTL DEF Spec

(* What is not accepted is not given. *)
OnlyOf(inc, o) ==
    /\ "template" \notin inc => o.template = "nil"
    /\ "object" \notin inc => o.object = "nil"
    /\ "objects" \notin inc => o.objects = "nil"

LEMMA TakesOnly ==
  ASSUME NEW inc \in SUBSET Kinds, NEW a \in Arg, NEW o \in Opt, OnlyOf(inc, o)
  PROVE  OnlyOf(inc, Take(inc, o, a))
<1>1. OnlyOf(inc, Rejected)
  BY DEF OnlyOf, Rejected, Empty
<1>2. CASE o.err
  BY <1>2, TakeBy
<1>3. CASE ~o.err
  <2>1. CASE Class(inc, a) = "verbosity"
    BY <1>1, <1>3, <2>1, TakeBy DEF TakeVerbosity, Opt, OnlyOf
  <2>2. CASE Class(inc, a) = "duration"
    BY <1>1, <1>3, <2>2, TakeBy DEF TakeDuration, Opt, OnlyOf
  <2>3. CASE Class(inc, a) = "object"
    <3>1. Take(inc, o, a) = TakeObject(o, a)
      BY <1>3, <2>3, TakeBy
    <3>2. "object" \in inc
      BY <2>3, ClassOf
    <3> QED
      BY <1>1, <3>1, <3>2 DEF TakeObject, Opt, OnlyOf
  <2>4. CASE Class(inc, a) = "objects"
    <3>1. Take(inc, o, a) = TakeObjects(o, a)
      BY <1>3, <2>4, TakeBy
    <3>2. "objects" \in inc
      BY <2>4, ClassOf
    <3> QED
      BY <1>1, <3>1, <3>2 DEF TakeObjects, Opt, OnlyOf
  <2>5. CASE Class(inc, a) = "template"
    <3>1. Take(inc, o, a) = TakeTemplate(o, a)
      BY <1>3, <2>5, TakeBy
    <3>2. "template" \in inc
      BY <2>5, ClassOf
    <3> QED
      BY <1>1, <3>1, <3>2 DEF TakeTemplate, Opt, OnlyOf
  <2>6. CASE Class(inc, a) = "bindings"
    <3>1. Take(inc, o, a) = [o EXCEPT !.bindings = Merge(o.bindings, a.val)]
      BY <1>3, <2>6, TakeBy
    <3> QED
      BY <3>1 DEF Opt, OnlyOf
  <2>7. CASE Class(inc, a) = "unexpected"
    BY <1>1, <1>3, <2>7, TakeBy
  <2> QED
    BY <2>1, <2>2, <2>3, <2>4, <2>5, <2>6, <2>7, ClassOf DEF Kinds
<1> QED
  BY <1>2, <1>3

LEMMA ParsesOnly ==
  ASSUME NEW inc \in SUBSET Kinds, NEW s \in Seq(Arg)
  PROVE  OnlyOf(inc, Parse(inc, s))
<1>1. PICK f : /\ Parse(inc, s) = f[Len(s)]
               /\ f[0] = Empty
               /\ \A n \in 1..Len(s) : f[n] = Take(inc, f[n - 1], s[n])
  BY ParseRounds
<1>2. \A n \in 0..Len(s) : f[n] \in Opt
  BY <1>1, RoundsTyped
<1> DEFINE S == {n \in 0..Len(s) : OnlyOf(inc, f[n])}
<1>3. Len(s) \in Nat /\ Len(s) \in 0..Len(s) /\ 0 \in S
  BY <1>1 DEF OnlyOf, Empty
<1>4. ASSUME NEW n \in 1..Len(s), n - 1 \in S
      PROVE  n \in S
  <2>1. n \in 0..Len(s) /\ n - 1 \in 0..Len(s) /\ f[n - 1] \in Opt /\ s[n] \in Arg
    BY <1>2
  <2>2. OnlyOf(inc, f[n - 1])
    BY <1>4
  <2>3. OnlyOf(inc, Take(inc, f[n - 1], s[n]))
    BY <2>1, <2>2, TakesOnly
  <2> QED
    BY <1>1, <2>1, <2>3
<1> HIDE DEF S
<1>5. \A n \in 0..Len(s) : n \in S
  BY <1>3, <1>4, UpTo
<1> QED
  BY <1>1, <1>3, <1>5 DEF S

(* What New's settings are like. *)
LEMMA NewSettings ==
  ASSUME OInv
  PROVE  /\ global \in Opt
         /\ global.verbosity # 0 /\ global.timeout # 0 /\ global.interval # 0
         /\ global.template = "nil" /\ global.object = "nil" /\ global.objects = "nil"
         /\ ~Parse(Include["new"], newArgs).err
         /\ global.bindings = Merge(<<>>, Parse(Include["new"], newArgs).bindings)
<1> DEFINE inc == Include["new"]
<1>1. inc = {"verbosity", "duration"} /\ inc \in SUBSET Kinds
  BY DEF Include, Kinds
<1>2. newArgs \in Seq(Arg) /\ ~global.err /\ global = OptionsFor(NewDefaults, "new", newArgs)
  BY DEF OInv
<1> HIDE DEF inc
<1>3. PICK o : o = Parse(inc, newArgs)
  OBVIOUS
<1>4. o \in Opt /\ OnlyOf(inc, o)
  BY <1>1, <1>2, <1>3, ParseTyped, ParsesOnly
<1>5. o.template = "nil" /\ o.object = "nil" /\ o.objects = "nil"
  BY <1>1, <1>4 DEF OnlyOf
<1>6. PICK r : r = ApplyDefaults(NewDefaults, o)
  OBVIOUS
<1>7. /\ r \in Opt /\ r.template = "nil" /\ r.object = "nil" /\ r.objects = "nil"
      /\ r.bindings = Merge(NewDefaults.bindings, o.bindings)
  BY <1>4, <1>5, <1>6, DefaultsFill, EmptyTyped
<1>8. global = r /\ ~o.err
      /\ \A alternatives \in Require["new"] : alternatives \cap Given(r) # {}
  BY <1>2, <1>3, <1>6, EmptyTyped DEF OptionsFor, inc
<1>9. "verbosity" \in Given(r) /\ "timeout" \in Given(r) /\ "interval" \in Given(r)
  <2>1. Require["new"] = {{"verbosity"}, {"timeout"}, {"interval"}}
    BY DEF Require
  <2> QED
    BY <1>8, <2>1
<1>10. NewDefaults.bindings = <<>>
  BY DEF NewDefaults, Empty
<1> QED
  BY <1>3, <1>7, <1>8, <1>9, <1>10, GivenOptions DEF inc

(* The options of a call, from what its arguments are parsed to. *)
LEMMA CallOptions ==
  ASSUME OInv, op # "new", NEW s \in Seq(Arg), NEW o, o = Parse(Include[op], s),
         NEW r, r = OptionsFor(global, op, s)
  PROVE  /\ r \in Opt
         /\ r.err => r = Rejected
         /\ ~r.err <=> /\ ~o.err
                       /\ IF op \in {"check", "renderSingle", "renderMultiple"}
                          THEN o.template # "nil"
                          ELSE o.template # "nil" \/ o.object # "nil" \/ o.objects # "nil"
         /\ ~r.err => r = ApplyDefaults(global, o)
<1>1. op \in Operations /\ Include[op] \in SUBSET Kinds
  BY Included DEF OInv
<1>2. o \in Opt /\ OnlyOf(Include[op], o)
  BY <1>1, ParseTyped, ParsesOnly
<1>3. PICK d : d = ApplyDefaults(global, o)
  OBVIOUS
<1>4. /\ d \in Opt /\ d.err = o.err
      /\ d.template = o.template /\ d.object = o.object /\ d.objects = o.objects
      /\ d.timeout # 0 /\ d.interval # 0
  BY <1>2, <1>3, DefaultsFill, NewSettings
<1>5. (\A alternatives \in Require[op] : alternatives \cap Given(d) # {}) <=>
        IF op \in {"check", "renderSingle", "renderMultiple"}
        THEN o.template # "nil"
        ELSE o.template # "nil" \/ o.object # "nil" \/ o.objects # "nil"
  BY <1>1, <1>2, <1>4, Required DEF OnlyOf
<1>6. r = IF o.err \/ \E alternatives \in Require[op] : alternatives \cap Given(d) = {}
          THEN Rejected ELSE d
  BY <1>3 DEF OptionsFor
<1> QED
  BY <1>3, <1>4, <1>5, <1>6, EmptyTyped

-----------------------------------------------------------------------------
(* The positions, among the first n arguments, of those of a class. *)
At(inc, s, class, n) == {i \in 1..n : Class(inc, s[i]) = class}
Stored(inc, s, n) == At(inc, s, "object", n) \cup At(inc, s, "objects", n)

(* The documentation of the arguments, for the first n of them. *)
Fits(inc, s, n) ==
    /\ At(inc, s, "unexpected", n) = {}
    /\ \A i \in At(inc, s, "duration", n) : s[i].val > 0
    /\ \A i \in 1..n : s[i].kind \in {"object", "objects", "template"} =>
                          s[i].val \notin {"hasnil", "bad"}
    /\ AtMostOne(At(inc, s, "template", n)) /\ AtMostOne(Stored(inc, s, n))
    /\ \A i, j \in At(inc, s, "duration", n) : i < j =>
          /\ s[j].val <= s[i].val
          /\ ~\E k \in At(inc, s, "duration", n) : j < k

(* And what the next argument has to be. *)
FitsNext(inc, s, n) ==
    /\ Class(inc, s[n]) # "unexpected"
    /\ Class(inc, s[n]) = "duration" =>
          /\ s[n].val > 0
          /\ \A i \in At(inc, s, "duration", n - 1) : s[n].val <= s[i].val
          /\ AtMostOne(At(inc, s, "duration", n - 1))
    /\ s[n].kind \in {"object", "objects", "template"} => s[n].val \notin {"hasnil", "bad"}
    /\ Class(inc, s[n]) = "template" => At(inc, s, "template", n - 1) = {}
    /\ Class(inc, s[n]) \in {"object", "objects"} => Stored(inc, s, n - 1) = {}

(* What the options tell of the arguments they come from. *)
Tells(inc, s, n, o) ==
    /\ o.template = "nil" <=> At(inc, s, "template", n) = {}
    /\ o.object = "nil" <=> At(inc, s, "object", n) = {}
    /\ o.objects = "nil" <=> At(inc, s, "objects", n) = {}
    /\ o.timeout = 0 <=> At(inc, s, "duration", n) = {}
    /\ o.interval = 0 <=> AtMostOne(At(inc, s, "duration", n))
    /\ AtMostOne(At(inc, s, "duration", n)) =>
          \A i \in At(inc, s, "duration", n) : o.timeout = s[i].val

LEMMA OneMore ==
  ASSUME NEW inc, NEW s, NEW n \in Nat \ {0}
  PROVE  /\ 1..n = 1..(n - 1) \cup {n} /\ n \notin 1..(n - 1)
         /\ \A i \in 1..(n - 1) : i \in Nat /\ i < n
         /\ \A class : At(inc, s, class, n) =
               IF Class(inc, s[n]) = class THEN At(inc, s, class, n - 1) \cup {n}
               ELSE At(inc, s, class, n - 1)
         /\ \A class : At(inc, s, class, n - 1) \subseteq 1..(n - 1)
<1>1. 1..n = 1..(n - 1) \cup {n} /\ n \notin 1..(n - 1)
      /\ \A i \in 1..(n - 1) : i \in Nat /\ i < n
  OBVIOUS
<1> QED
  BY <1>1 DEF At

LEMMA FitsGrows ==
  ASSUME NEW inc, NEW s, NEW n \in Nat \ {0}
  PROVE  Fits(inc, s, n) <=> Fits(inc, s, n - 1) /\ FitsNext(inc, s, n)
<1> DEFINE D == At(inc, s, "duration", n - 1)
           T == At(inc, s, "template", n - 1)
           B == Stored(inc, s, n - 1)
           c == Class(inc, s[n])
<1>1. /\ D \subseteq 1..(n - 1) /\ T \subseteq 1..(n - 1) /\ B \subseteq 1..(n - 1)
      /\ n \notin 1..(n - 1) /\ \A i \in 1..(n - 1) : i \in Nat /\ i < n
      /\ 1..n = 1..(n - 1) \cup {n}
      /\ At(inc, s, "duration", n) = IF c = "duration" THEN D \cup {n} ELSE D
      /\ At(inc, s, "template", n) = IF c = "template" THEN T \cup {n} ELSE T
      /\ Stored(inc, s, n) = IF c \in {"object", "objects"} THEN B \cup {n} ELSE B
      /\ At(inc, s, "unexpected", n) = {} <=>
            At(inc, s, "unexpected", n - 1) = {} /\ c # "unexpected"
  <2>1. \A class : /\ At(inc, s, class, n) =
                         IF c = class THEN At(inc, s, class, n - 1) \cup {n}
                         ELSE At(inc, s, class, n - 1)
                 /\ At(inc, s, class, n - 1) \subseteq 1..(n - 1)
    BY OneMore
  <2>2. /\ At(inc, s, "object", n) = IF c = "object" THEN At(inc, s, "object", n - 1) \cup {n}
                                     ELSE At(inc, s, "object", n - 1)
        /\ At(inc, s, "objects", n) = IF c = "objects" THEN At(inc, s, "objects", n - 1) \cup {n}
                                      ELSE At(inc, s, "objects", n - 1)
        /\ B \subseteq 1..(n - 1)
    BY <2>1 DEF Stored
  <2>3. Stored(inc, s, n) = IF c \in {"object", "objects"} THEN B \cup {n} ELSE B
    BY <2>2 DEF Stored
  <2>4. At(inc, s, "unexpected", n) = {} <=>
            At(inc, s, "unexpected", n - 1) = {} /\ c # "unexpected"
    BY <2>1
  <2>5. /\ At(inc, s, "duration", n) = IF c = "duration" THEN D \cup {n} ELSE D
        /\ At(inc, s, "template", n) = IF c = "template" THEN T \cup {n} ELSE T
        /\ D \subseteq 1..(n - 1) /\ T \subseteq 1..(n - 1)
    BY <2>1
  <2> HIDE DEF D, T, B, c
  <2> QED
    BY <2>2, <2>3, <2>4, <2>5, OneMore
<1> HIDE DEF D, T, B, c
<1>2. AtMostOne(At(inc, s, "template", n)) <=> AtMostOne(T) /\ (c = "template" => T = {})
  BY <1>1 DEF AtMostOne
<1>3. AtMostOne(Stored(inc, s, n)) <=>
         AtMostOne(B) /\ (c \in {"object", "objects"} => B = {})
  BY <1>1 DEF AtMostOne
<1> DEFINE Ordered(E) == \A i, j \in E : i < j => s[j].val <= s[i].val /\ ~\E k \in E : j < k
<1>4. Ordered(D \cup {n}) <=>
         /\ Ordered(D)
         /\ \A i \in D : s[n].val <= s[i].val
         /\ AtMostOne(D)
  <2>1. ASSUME Ordered(D \cup {n})
        PROVE  /\ Ordered(D)
               /\ \A i \in D : s[n].val <= s[i].val
               /\ AtMostOne(D)
    <3>1. \A i, j \in D : ~(i < j)
      BY <1>1, <2>1
    <3>2. \A i, j \in D : i \in Nat /\ j \in Nat
      BY <1>1
    <3>3. AtMostOne(D)
      BY <3>1, <3>2 DEF AtMostOne
    <3> QED
      BY <1>1, <2>1, <3>3
  <2>2. ASSUME Ordered(D), \A i \in D : s[n].val <= s[i].val, AtMostOne(D)
        PROVE  Ordered(D \cup {n})
    <3> SUFFICES ASSUME NEW i \in D \cup {n}, NEW j \in D \cup {n}, i < j
                 PROVE  s[j].val <= s[i].val /\ ~\E k \in D \cup {n} : j < k
      OBVIOUS
    <3>1. \A k \in D \cup {n} : k \in Nat /\ k <= n
      BY <1>1
    <3>2. i \in D
      BY <3>1
    <3>3. j = n
      BY <2>2, <3>1, <3>2 DEF AtMostOne
    <3> QED
      BY <2>2, <3>1, <3>2, <3>3
  <2> QED
    BY <2>1, <2>2
<1>5. Ordered(At(inc, s, "duration", n)) <=>
         Ordered(D) /\ (c = "duration" => /\ \A i \in D : s[n].val <= s[i].val
                                          /\ AtMostOne(D))
  BY <1>1, <1>4
<1>6. (\A i \in At(inc, s, "duration", n) : s[i].val > 0) <=>
         (\A i \in D : s[i].val > 0) /\ (c = "duration" => s[n].val > 0)
  BY <1>1
<1>7. (\A i \in 1..n : s[i].kind \in {"object", "objects", "template"} =>
                          s[i].val \notin {"hasnil", "bad"}) <=>
         /\ \A i \in 1..(n - 1) : s[i].kind \in {"object", "objects", "template"} =>
                                     s[i].val \notin {"hasnil", "bad"}
         /\ s[n].kind \in {"object", "objects", "template"} => s[n].val \notin {"hasnil", "bad"}
  BY <1>1
<1>8. Fits(inc, s, n) <=>
        /\ At(inc, s, "unexpected", n) = {}
        /\ \A i \in At(inc, s, "duration", n) : s[i].val > 0
        /\ \A i \in 1..n : s[i].kind \in {"object", "objects", "template"} =>
                              s[i].val \notin {"hasnil", "bad"}
        /\ AtMostOne(At(inc, s, "template", n)) /\ AtMostOne(Stored(inc, s, n))
        /\ Ordered(At(inc, s, "duration", n))
  BY DEF Fits
<1>9. Fits(inc, s, n - 1) <=>
        /\ At(inc, s, "unexpected", n - 1) = {}
        /\ \A i \in D : s[i].val > 0
        /\ \A i \in 1..(n - 1) : s[i].kind \in {"object", "objects", "template"} =>
                              s[i].val \notin {"hasnil", "bad"}
        /\ AtMostOne(T) /\ AtMostOne(B)
        /\ Ordered(D)
  BY DEF Fits, D, T, B
<1>10. FitsNext(inc, s, n) <=>
         /\ c # "unexpected"
         /\ c = "duration" => /\ s[n].val > 0
                              /\ \A i \in D : s[n].val <= s[i].val
                              /\ AtMostOne(D)
         /\ s[n].kind \in {"object", "objects", "template"} =>
               s[n].val \notin {"hasnil", "bad"}
         /\ c = "template" => T = {}
         /\ c \in {"object", "objects"} => B = {}
  BY DEF FitsNext, D, T, B, c
<1> HIDE DEF Ordered
<1> QED
  BY <1>1, <1>2, <1>3, <1>5, <1>6, <1>7, <1>8, <1>9, <1>10

(* One round, and what is known of the argument: c is its class, and p the *)
(* options after it.                                                       *)
Taken(inc, a, o, c, p) ==
    \/ /\ c = "verbosity" /\ a.kind = c /\ c \in inc /\ a.val \in Nat
       /\ p = TakeVerbosity(o, a)
    \/ /\ c = "duration" /\ a.kind = c /\ a.val \in Nat
       /\ p = TakeDuration(o, a)
    \/ /\ c = "object" /\ a.kind = c /\ a.val \in {"given", "hasnil"}
       /\ p = TakeObject(o, a)
    \/ /\ c = "objects" /\ a.kind = c /\ a.val \in {"given", "nil", "hasnil"}
       /\ p = TakeObjects(o, a)
    \/ /\ c = "template" /\ a.kind \in {"duration", "template"}
       /\ a.kind = "template" => a.val \in {"given", "bad"}
       /\ p = TakeTemplate(o, a)
    \/ /\ c = "bindings" /\ a.kind = c /\ a.val \in Maps
       /\ p = [o EXCEPT !.bindings = Merge(o.bindings, a.val)]
    \/ c = "unexpected" /\ a.kind # "bindings" /\ p = Rejected

LEMMA TakeCases ==
  ASSUME NEW inc \in SUBSET Kinds, NEW a \in Arg, NEW o \in Opt, ~o.err,
         NEW c, c = Class(inc, a), NEW p, p = Take(inc, o, a)
  PROVE  Taken(inc, a, o, c, p)
<1>1. \/ c = a.kind /\ a.kind \in inc \cup {"bindings"}
      \/ c = "template" /\ a.kind = "duration"
      \/ c = "unexpected" /\ a.kind # "bindings"
  BY ClassOf
<1>2. /\ c = "verbosity" => p = TakeVerbosity(o, a)
      /\ c = "duration" => p = TakeDuration(o, a)
      /\ c = "object" => p = TakeObject(o, a)
      /\ c = "objects" => p = TakeObjects(o, a)
      /\ c = "template" => p = TakeTemplate(o, a)
      /\ c = "bindings" => p = [o EXCEPT !.bindings = Merge(o.bindings, a.val)]
      /\ c = "unexpected" => p = Rejected
  BY TakeBy
<1>3. /\ a.kind \in {"verbosity", "duration"} => a.val \in Nat
      /\ a.kind = "object" => a.val \in {"given", "hasnil"}
      /\ a.kind = "objects" => a.val \in {"given", "nil", "hasnil"}
      /\ a.kind = "template" => a.val \in {"given", "bad"}
      /\ a.kind = "bindings" => a.val \in Maps
  BY ArgValues
<1>4. inc \subseteq {"verbosity", "duration", "object", "objects", "template"}
  BY DEF Kinds
<1> QED
  BY <1>1, <1>2, <1>3, <1>4 DEF Taken

(* The parser takes an argument exactly when it fits those before it. *)
LEMMA TakeFits ==
  ASSUME NEW inc \in SUBSET Kinds, "verbosity" \notin inc,
         NEW s \in Seq(Arg), NEW n \in 1..Len(s), Proper(s[n]),
         NEW o \in Opt, ~o.err, Tells(inc, s, n - 1, o),
         NEW p, p = Take(inc, o, s[n])
  PROVE  /\ ~p.err <=> FitsNext(inc, s, n)
         /\ ~p.err => Tells(inc, s, n, p)
<1> DEFINE D == At(inc, s, "duration", n - 1)
           T == At(inc, s, "template", n - 1)
           O == At(inc, s, "object", n - 1)
           L == At(inc, s, "objects", n - 1)
           c == Class(inc, s[n])
<1>1. PICK a \in Arg : a = s[n]
  BY OneMore
<1>2. n \in Nat \ {0}
  OBVIOUS
<1>3. /\ D \subseteq 1..(n - 1) /\ n \notin D
      /\ At(inc, s, "duration", n) = IF c = "duration" THEN D \cup {n} ELSE D
      /\ At(inc, s, "template", n) = IF c = "template" THEN T \cup {n} ELSE T
      /\ At(inc, s, "object", n) = IF c = "object" THEN O \cup {n} ELSE O
      /\ At(inc, s, "objects", n) = IF c = "objects" THEN L \cup {n} ELSE L
  <2>1. /\ D \subseteq 1..(n - 1)
        /\ At(inc, s, "duration", n) = IF c = "duration" THEN D \cup {n} ELSE D
    BY <1>2, OneMore
  <2>2. At(inc, s, "template", n) = IF c = "template" THEN T \cup {n} ELSE T
    BY <1>2, OneMore
  <2>3. At(inc, s, "object", n) = IF c = "object" THEN O \cup {n} ELSE O
    BY <1>2, OneMore
  <2>4. At(inc, s, "objects", n) = IF c = "objects" THEN L \cup {n} ELSE L
    BY <1>2, OneMore
  <2> HIDE DEF D, T, O, L, c
  <2> QED
    BY <1>2, <2>1, <2>2, <2>3, <2>4, OneMore
<1>4. /\ o.template = "nil" <=> T = {}
      /\ o.object = "nil" <=> O = {}
      /\ o.objects = "nil" <=> L = {}
      /\ o.timeout = 0 <=> D = {}
      /\ o.interval = 0 <=> AtMostOne(D)
      /\ AtMostOne(D) => \A i \in D : o.timeout = s[i].val
  BY DEF Tells
<1>5. Tells(inc, s, n, p) <=>
        /\ p.template = "nil" <=> At(inc, s, "template", n) = {}
        /\ p.object = "nil" <=> At(inc, s, "object", n) = {}
        /\ p.objects = "nil" <=> At(inc, s, "objects", n) = {}
        /\ p.timeout = 0 <=> At(inc, s, "duration", n) = {}
        /\ p.interval = 0 <=> AtMostOne(At(inc, s, "duration", n))
        /\ AtMostOne(At(inc, s, "duration", n)) =>
              \A i \in At(inc, s, "duration", n) : p.timeout = s[i].val
  BY DEF Tells
<1>6. FitsNext(inc, s, n) <=>
        /\ c # "unexpected"
        /\ c = "duration" => /\ a.val > 0
                             /\ \A i \in D : a.val <= s[i].val
                             /\ AtMostOne(D)
        /\ a.kind \in {"object", "objects", "template"} => a.val \notin {"hasnil", "bad"}
        /\ c = "template" => T = {}
        /\ c \in {"object", "objects"} => O \cup L = {}
  BY <1>1 DEF FitsNext, Stored
<1>7. c = Class(inc, a) /\ p = Take(inc, o, a) /\ Proper(a)
  BY <1>1
<1> HIDE DEF D, T, O, L, c
<1>8. \/ c = "duration" /\ a.kind = c /\ a.val \in Nat /\ p = TakeDuration(o, a)
      \/ c = "object" /\ a.kind = c /\ a.val \in {"given", "hasnil"} /\ p = TakeObject(o, a)
      \/ c = "objects" /\ a.kind = c /\ a.val \in {"given", "hasnil"} /\ p = TakeObjects(o, a)
      \/ /\ c = "template" /\ a.kind \in {"duration", "template"}
         /\ a.kind = "template" => a.val \in {"given", "bad"}
         /\ p = TakeTemplate(o, a)
      \/ /\ c = "bindings" /\ a.kind = c
         /\ p = [o EXCEPT !.bindings = Merge(o.bindings, a.val)]
      \/ c = "unexpected" /\ p = Rejected
  <2>1. a.kind = "objects" => a.val # "nil"
    BY <1>7 DEF Proper
  <2>2. Taken(inc, a, o, c, p)
    BY <1>7, TakeCases
  <2> QED
    BY <2>1, <2>2 DEF Taken
<1>9. CASE c = "duration"
  <2>1. a.val \in Nat /\ a.kind = "duration" /\ p = TakeDuration(o, a)
    BY <1>8, <1>9
  <2>2. AtMostOne(D \cup {n}) <=> D = {}
    BY <1>3 DEF AtMostOne
  <2>3. AtMostOne(D) => \A i \in D : o.timeout = s[i].val
    BY <1>4
  <2>4. ~p.err <=> /\ a.val > 0
                   /\ \A i \in D : a.val <= s[i].val
                   /\ AtMostOne(D)
    <3>1. p.err <=> a.val = 0 \/ (o.timeout # 0 /\ (o.interval # 0 \/ a.val > o.timeout))
      BY <2>1, EmptyTyped DEF TakeDuration, Opt
    <3>2. o.timeout \in Nat /\ (o.timeout = 0 => AtMostOne(D))
      BY <1>4 DEF Opt, AtMostOne
    <3> QED
      BY <1>4, <2>1, <2>3, <3>1, <3>2
  <2>5. ~p.err => /\ o.timeout = 0 => p = [o EXCEPT !.timeout = a.val]
                  /\ o.timeout # 0 => p = [o EXCEPT !.interval = a.val]
    BY <2>1, EmptyTyped DEF TakeDuration
  <2>6. ~p.err =>
           /\ p.template = o.template /\ p.object = o.object /\ p.objects = o.objects
           /\ p.timeout = IF o.timeout = 0 THEN a.val ELSE o.timeout
           /\ p.interval = IF o.timeout = 0 THEN o.interval ELSE a.val
    BY <2>5 DEF Opt
  <2>7. ASSUME ~p.err
        PROVE  /\ p.timeout # 0
               /\ p.interval = 0 <=> D = {}
               /\ D = {} => p.timeout = a.val
    <3>1. D = {} => AtMostOne(D)
      BY DEF AtMostOne
    <3> QED
      BY <1>4, <2>1, <2>4, <2>6, <2>7, <3>1
  <2>8. ~p.err => Tells(inc, s, n, p)
    BY <1>1, <1>3, <1>4, <1>5, <1>9, <2>2, <2>6, <2>7
  <2> QED
    BY <1>6, <1>9, <2>1, <2>4, <2>8
<1>10. CASE c = "object"
  <2>1. a.val \in {"given", "hasnil"} /\ a.kind = "object" /\ p = TakeObject(o, a)
    BY <1>8, <1>10
  <2>2. /\ ~p.err <=> O \cup L = {} /\ a.val = "given"
        /\ ~p.err => p = [o EXCEPT !.object = "given"]
    BY <1>4, <2>1, EmptyTyped DEF TakeObject, Opt
  <2>3. ~p.err => /\ p.template = o.template /\ p.object = "given" /\ p.objects = o.objects
                  /\ p.timeout = o.timeout /\ p.interval = o.interval
    BY <2>2 DEF Opt
  <2> QED
    BY <1>3, <1>4, <1>5, <1>6, <1>10, <2>1, <2>2, <2>3
<1>11. CASE c = "objects"
  <2>1. a.val \in {"given", "hasnil"} /\ a.kind = "objects" /\ p = TakeObjects(o, a)
    BY <1>8, <1>11
  <2>2. /\ ~p.err <=> O \cup L = {} /\ a.val = "given"
        /\ ~p.err => p = [o EXCEPT !.objects = "given"]
    BY <1>4, <2>1, EmptyTyped DEF TakeObjects, Opt
  <2>3. ~p.err => /\ p.template = o.template /\ p.object = o.object /\ p.objects = "given"
                  /\ p.timeout = o.timeout /\ p.interval = o.interval
    BY <2>2 DEF Opt
  <2> QED
    BY <1>3, <1>4, <1>5, <1>6, <1>11, <2>1, <2>2, <2>3
<1>12. CASE c = "template"
  <2>1. /\ p = TakeTemplate(o, a) /\ a.kind \in {"duration", "template"}
        /\ a.kind = "template" => a.val \in {"given", "bad"}
    BY <1>8, <1>12
  <2>2. /\ ~p.err <=> T = {} /\ (a.kind = "template" => a.val # "bad")
        /\ ~p.err => p = [o EXCEPT !.template = "given"]
    BY <1>4, <2>1, EmptyTyped DEF TakeTemplate, Opt
  <2>3. ~p.err => /\ p.template = "given" /\ p.object = o.object /\ p.objects = o.objects
                  /\ p.timeout = o.timeout /\ p.interval = o.interval
    BY <2>2 DEF Opt
  <2> QED
    BY <1>3, <1>4, <1>5, <1>6, <1>12, <2>1, <2>2, <2>3
<1>13. CASE c = "bindings"
  <2>1. /\ a.kind = "bindings"
        /\ p = [o EXCEPT !.bindings = Merge(o.bindings, a.val)]
    BY <1>8, <1>13
  <2>2. /\ p.template = o.template /\ p.object = o.object /\ p.objects = o.objects
        /\ p.timeout = o.timeout /\ p.interval = o.interval /\ ~p.err
    BY <2>1 DEF Opt
  <2> QED
    BY <1>3, <1>4, <1>5, <1>6, <1>13, <2>1, <2>2
<1>14. CASE c = "unexpected"
  BY <1>6, <1>8, <1>14, EmptyTyped
<1> QED
  BY <1>8, <1>9, <1>10, <1>11, <1>12, <1>13, <1>14

(* Round by round: the parser goes on as long as the arguments fit.        *)
LEMMA ParseFits ==
  ASSUME NEW inc \in SUBSET Kinds, "verbosity" \notin inc,
         NEW s \in Seq(Arg), \A i \in 1..Len(s) : Proper(s[i]),
         NEW o, o = Parse(inc, s)
  PROVE  /\ ~o.err <=> Fits(inc, s, Len(s))
         /\ ~o.err => Tells(inc, s, Len(s), o)
<1>1. PICK f : /\ Parse(inc, s) = f[Len(s)]
               /\ f[0] = Empty
               /\ \A n \in 1..Len(s) : f[n] = Take(inc, f[n - 1], s[n])
  BY ParseRounds
<1>2. \A n \in 0..Len(s) : f[n] \in Opt
  BY <1>1, RoundsTyped
<1> DEFINE Good(n) == /\ ~f[n].err <=> Fits(inc, s, n)
                      /\ ~f[n].err => Tells(inc, s, n, f[n])
           S == {n \in 0..Len(s) : Good(n)}
<1>3. Len(s) \in Nat /\ Len(s) \in 0..Len(s) /\ 0 \in 0..Len(s)
  OBVIOUS
<1>4. Good(0)
  <2>1. ~f[0].err /\ 1..0 = {}
    BY <1>1 DEF Empty
  <2>2. \A class : At(inc, s, class, 0) = {}
    BY <2>1 DEF At
  <2>3. Stored(inc, s, 0) = {} /\ AtMostOne({})
    BY <2>2 DEF Stored, AtMostOne
  <2>4. Fits(inc, s, 0)
    BY <2>1, <2>2, <2>3 DEF Fits
  <2>5. Tells(inc, s, 0, f[0])
    <3>1. /\ f[0].template = "nil" /\ f[0].object = "nil" /\ f[0].objects = "nil"
          /\ f[0].timeout = 0 /\ f[0].interval = 0
      BY <1>1 DEF Empty
    <3> QED
      BY <2>2, <2>3, <3>1 DEF Tells
  <2> QED
    BY <2>1, <2>4, <2>5
<1>5. ASSUME NEW n \in 1..Len(s), n - 1 \in S
      PROVE  n \in S
  <2>1. /\ n \in 0..Len(s) /\ n - 1 \in 0..Len(s) /\ n \in Nat \ {0}
        /\ f[n - 1] \in Opt /\ s[n] \in Arg /\ Proper(s[n])
        /\ f[n] = Take(inc, f[n - 1], s[n])
    BY <1>1, <1>2
  <2>2. Good(n - 1)
    BY <1>5
  <2>3. Fits(inc, s, n) <=> Fits(inc, s, n - 1) /\ FitsNext(inc, s, n)
    BY <2>1, FitsGrows
  <2>4. CASE f[n - 1].err
    <3>1. f[n] = f[n - 1]
      BY <2>1, <2>4, TakeBy
    <3> QED
      BY <2>1, <2>2, <2>3, <2>4, <3>1
  <2>5. CASE ~f[n - 1].err
    <3>1. Tells(inc, s, n - 1, f[n - 1]) /\ Fits(inc, s, n - 1)
      BY <2>2, <2>5
    <3>2. /\ ~f[n].err <=> FitsNext(inc, s, n)
          /\ ~f[n].err => Tells(inc, s, n, f[n])
      BY <2>1, <2>5, <3>1, TakeFits
    <3> QED
      BY <2>1, <2>3, <3>1, <3>2
  <2> QED
    BY <2>4, <2>5
<1> HIDE DEF Good
<1>6. 0 \in S
  BY <1>3, <1>4
<1> HIDE DEF S
<1>7. \A n \in 0..Len(s) : n \in S
  BY <1>3, <1>5, <1>6, UpTo
<1>8. Good(Len(s))
  BY <1>3, <1>7 DEF S
<1> QED
  BY <1>1, <1>8 DEF Good

(* Types: a call that is accepted works with durations and a verbosity     *)
(* above zero and with no nil among its objects (options.go:88 to 242).    *)
THEOREM OptionsTypeCorrect == Spec => []OptionsTypeOK
<1>1. OInv => OptionsTypeOK
  <2> SUFFICES ASSUME OInv, opts # Empty, opts # Rejected PROVE OptionsTypeOK
    BY DEF OptionsTypeOK
  <2>1. op \in Operations /\ op # "new" /\ opts = OptionsFor(global, op, args) /\ args \in Seq(Arg)
    BY DEF OInv
  <2>2. PICK o : o = Parse(Include[op], args)
    OBVIOUS
  <2>3. /\ opts \in Opt /\ opts = ApplyDefaults(global, o)
        /\ o \in Opt /\ global \in Opt
        /\ global.verbosity # 0 /\ global.timeout # 0 /\ global.interval # 0
    BY <2>1, <2>2, CallOptions, NewSettings, ParseTyped, Included
  <2>4. opts.verbosity # 0 /\ opts.timeout # 0 /\ opts.interval # 0
    BY <2>3, DefaultsFill
  <2>5. opts.bindings \in Maps
    BY <2>3 DEF Opt
  <2>6. DOMAIN opts.bindings \subseteq {"x", "y"}
    BY <2>5 DEF Maps
  <2> QED
    BY <2>3, <2>4, <2>6 DEF OptionsTypeOK, Opt
<1> QED
  BY <1>1, OptionsInvariant, PTL

(* A call is accepted exactly when the documentation of its arguments says *)
(* so, however many they are and whatever New was given                    *)
(* (options.go:88 to 242, and the comments on New and the operations).     *)
THEOREM AcceptsAsDocumented == Spec => []AcceptedAsDocumented
<1>1. OInv => AcceptedAsDocumented
  <2> SUFFICES ASSUME OInv, op # "new", \A i \in DOMAIN args : Proper(args[i])
               PROVE  AcceptedAsDocumented
    BY DEF AcceptedAsDocumented
  <2> DEFINE inc == Include[op]
             n == Len(args)
  <2>1. /\ op \in Operations /\ opts = OptionsFor(global, op, args) /\ args \in Seq(Arg)
        /\ inc \in SUBSET Kinds /\ "verbosity" \notin inc /\ DOMAIN args = 1..n
    BY Included DEF OInv
  <2>2. PICK o : o = Parse(inc, args)
    OBVIOUS
  <2>3. /\ ~o.err <=> Fits(inc, args, n)
        /\ ~o.err => Tells(inc, args, n, o)
    BY <2>1, <2>2, ParseFits
  <2>4. ~opts.err <=> /\ ~o.err
                      /\ IF op \in {"check", "renderSingle", "renderMultiple"}
                         THEN o.template # "nil"
                         ELSE o.template # "nil" \/ o.object # "nil" \/ o.objects # "nil"
    BY <2>1, <2>2, CallOptions
  <2>5. ~opts.err <=>
          /\ Fits(inc, args, n)
          /\ IF op \in {"check", "renderSingle", "renderMultiple"}
             THEN At(inc, args, "template", n) # {}
             ELSE At(inc, args, "template", n) \cup Stored(inc, args, n) # {}
    BY <2>3, <2>4 DEF Tells, Stored
  <2> QED
    BY <2>1, <2>5 DEF AcceptedAsDocumented, Fits, Stored, At
<1> QED
  BY <1>1, OptionsInvariant, PTL

-----------------------------------------------------------------------------
(* A map has the bindings of the first n arguments, the last of them that  *)
(* names one deciding.                                                     *)
Naming(a, k) == a.kind = "bindings" /\ k \in DOMAIN a.val

Collected(s, n, m) ==
    /\ m \in Maps
    /\ \A k : k \in DOMAIN m <=> \E i \in 1..n : Naming(s[i], k)
    /\ \A k : \A i \in 1..n :
          Naming(s[i], k) /\ (\A j \in 1..n : Naming(s[j], k) => j <= i) => m[k] = s[i].val[k]

LEMMA MergedMap ==
  ASSUME NEW m \in Maps, NEW n \in Maps, NEW r, r = Merge(m, n)
  PROVE  /\ r \in Maps
         /\ \A k : k \in DOMAIN r <=> k \in DOMAIN m \/ k \in DOMAIN n
         /\ \A k \in DOMAIN n : r[k] = n[k]
         /\ \A k \in DOMAIN m : k \notin DOMAIN n => r[k] = m[k]
  BY MergeTyped DEF Merge

LEMMA TakeCollects ==
  ASSUME NEW inc \in SUBSET Kinds, NEW s \in Seq(Arg), NEW n \in 1..Len(s),
         NEW o \in Opt, ~o.err, NEW p, p = Take(inc, o, s[n]), ~p.err,
         Collected(s, n - 1, o.bindings)
  PROVE  Collected(s, n, p.bindings)
<1>1. PICK a \in Arg : a = s[n]
  OBVIOUS
<1>2. PICK c : c = Class(inc, a)
  OBVIOUS
<1>3. Taken(inc, a, o, c, p)
  BY <1>1, <1>2, TakeCases
<1>4. o.bindings \in Maps /\ Rejected.err
  BY EmptyTyped DEF Opt
<1>5. /\ 1..n = 1..(n - 1) \cup {n} /\ n \notin 1..(n - 1)
      /\ \A i \in 1..(n - 1) : i \in Nat /\ i < n
  OBVIOUS
<1>6. CASE a.kind = "bindings"
  <2>1. c = "bindings"
    BY <1>2, <1>6, ClassOf DEF Kinds
  <2>2. a.val \in Maps /\ p = [o EXCEPT !.bindings = Merge(o.bindings, a.val)]
    BY <1>3, <2>1 DEF Taken
  <2>3. PICK m : m = Merge(o.bindings, a.val)
    OBVIOUS
  <2>4. p.bindings = m
    BY <2>2, <2>3 DEF Opt
  <2>5. /\ m \in Maps
        /\ \A k : k \in DOMAIN m <=> k \in DOMAIN o.bindings \/ k \in DOMAIN a.val
        /\ \A k \in DOMAIN a.val : m[k] = a.val[k]
        /\ \A k \in DOMAIN o.bindings : k \notin DOMAIN a.val => m[k] = o.bindings[k]
    BY <1>4, <2>2, <2>3, MergedMap
  <2>6. \A k : k \in DOMAIN m <=> \E i \in 1..n : Naming(s[i], k)
    BY <1>1, <1>5, <1>6, <2>5 DEF Collected, Naming
  <2>7. ASSUME NEW k, NEW i \in 1..n, Naming(s[i], k),
               \A j \in 1..n : Naming(s[j], k) => j <= i
        PROVE  m[k] = s[i].val[k]
    <3>1. CASE i = n
      BY <1>1, <2>5, <2>7, <3>1 DEF Naming
    <3>2. CASE i # n
      <4>1. i \in 1..(n - 1) /\ ~Naming(a, k)
        BY <1>1, <1>5, <2>7, <3>2
      <4>2. k \in DOMAIN o.bindings /\ k \notin DOMAIN a.val /\ o.bindings[k] = s[i].val[k]
        BY <1>5, <1>6, <2>7, <4>1 DEF Collected, Naming
      <4> QED
        BY <2>5, <4>2
    <3> QED
      BY <3>1, <3>2
  <2> QED
    BY <2>4, <2>5, <2>6, <2>7 DEF Collected
<1>7. CASE a.kind # "bindings"
  <2>1. \A k : ~Naming(s[n], k)
    BY <1>1, <1>7 DEF Naming
  <2>2. p.bindings = o.bindings
    <3>1. \/ p = TakeVerbosity(o, a) \/ p = TakeDuration(o, a) \/ p = TakeObject(o, a)
          \/ p = TakeObjects(o, a) \/ p = TakeTemplate(o, a) \/ p = Rejected
      BY <1>3, <1>7 DEF Taken
    <3> QED
      BY <1>4, <3>1 DEF TakeVerbosity, TakeDuration, TakeObject, TakeObjects, TakeTemplate, Opt
  <2>3. \A k : \A i \in 1..n : Naming(s[i], k) => i \in 1..(n - 1)
    BY <1>5, <2>1
  <2> QED
    BY <1>5, <2>2, <2>3 DEF Collected
<1> QED
  BY <1>6, <1>7

LEMMA ParseCollects ==
  ASSUME NEW inc \in SUBSET Kinds, NEW s \in Seq(Arg),
         NEW o, o = Parse(inc, s), ~o.err
  PROVE  Collected(s, Len(s), o.bindings)
<1>1. PICK f : /\ Parse(inc, s) = f[Len(s)]
               /\ f[0] = Empty
               /\ \A n \in 1..Len(s) : f[n] = Take(inc, f[n - 1], s[n])
  BY ParseRounds
<1>2. \A n \in 0..Len(s) : f[n] \in Opt
  BY <1>1, RoundsTyped
<1> DEFINE Good(n) == ~f[n].err => Collected(s, n, f[n].bindings)
           S == {n \in 0..Len(s) : Good(n)}
<1>3. Len(s) \in Nat /\ Len(s) \in 0..Len(s) /\ 0 \in 0..Len(s)
  OBVIOUS
<1>4. Good(0)
  <2>1. f[0].bindings = <<>> /\ 1..0 = {} /\ \A k : k \notin DOMAIN <<>>
    BY <1>1 DEF Empty
  <2>2. <<>> \in Maps
    BY EmptyTyped DEF Empty, Opt
  <2> QED
    BY <2>1, <2>2 DEF Collected
<1>5. ASSUME NEW n \in 1..Len(s), n - 1 \in S
      PROVE  n \in S
  <2>1. /\ n \in 0..Len(s) /\ n - 1 \in 0..Len(s)
        /\ f[n - 1] \in Opt /\ f[n] = Take(inc, f[n - 1], s[n]) /\ s[n] \in Arg
    BY <1>1, <1>2
  <2>2. Good(n - 1)
    BY <1>5
  <2>3. CASE f[n - 1].err
    <3>1. f[n] = f[n - 1]
      BY <2>1, <2>3, TakeBy
    <3> QED
      BY <2>1, <2>3, <3>1
  <2>4. CASE ~f[n - 1].err
    BY <2>1, <2>2, <2>4, TakeCollects
  <2> QED
    BY <2>3, <2>4
<1> HIDE DEF Good
<1>6. 0 \in S
  BY <1>3, <1>4
<1> HIDE DEF S
<1>7. \A n \in 0..Len(s) : n \in S
  BY <1>3, <1>5, <1>6, UpTo
<1>8. Good(Len(s))
  BY <1>3, <1>7 DEF S
<1> QED
  BY <1>1, <1>8 DEF Good

(* The maps of a call come after those of New. *)
LEMMA CollectedAfter ==
  ASSUME NEW s \in Seq(Arg), NEW t \in Seq(Arg), NEW m, NEW n,
         Collected(s, Len(s), m), Collected(t, Len(t), n), NEW r, r = Merge(m, n)
  PROVE  Collected(s \o t, Len(s) + Len(t), r)
<1> DEFINE all == s \o t
           N == Len(s)
           K == Len(t)
<1>1. /\ N \in Nat /\ K \in Nat
      /\ \A i \in 1..N : i \in 1..(N + K) /\ all[i] = s[i]
      /\ \A j \in 1..K : N + j \in 1..(N + K) /\ all[N + j] = t[j]
      /\ \A i \in 1..(N + K) : i \in 1..N \/ (i - N \in 1..K /\ i = N + (i - N) /\ i > N)
  OBVIOUS
<1> HIDE DEF all, N, K
<1>2. /\ r \in Maps
      /\ \A k : k \in DOMAIN r <=> k \in DOMAIN m \/ k \in DOMAIN n
      /\ \A k \in DOMAIN n : r[k] = n[k]
      /\ \A k \in DOMAIN m : k \notin DOMAIN n => r[k] = m[k]
  BY MergedMap DEF Collected
<1>3. /\ \A k : k \in DOMAIN m <=> \E i \in 1..N : Naming(s[i], k)
      /\ \A k : k \in DOMAIN n <=> \E i \in 1..K : Naming(t[i], k)
  BY DEF Collected, N, K
<1>4. \A k : k \in DOMAIN r <=> \E i \in 1..(N + K) : Naming(all[i], k)
  <2>1. ASSUME NEW k, k \in DOMAIN r
        PROVE  \E i \in 1..(N + K) : Naming(all[i], k)
    BY <1>1, <1>2, <1>3, <2>1
  <2>2. ASSUME NEW k, NEW i \in 1..(N + K), Naming(all[i], k)
        PROVE  k \in DOMAIN r
    <3>1. CASE i \in 1..N
      BY <1>1, <1>2, <1>3, <2>2, <3>1
    <3>2. CASE i - N \in 1..K /\ i = N + (i - N)
      BY <1>1, <1>2, <1>3, <2>2, <3>2
    <3> QED
      BY <1>1, <3>1, <3>2
  <2> QED
    BY <2>1, <2>2
<1>5. ASSUME NEW k, NEW i \in 1..(N + K), Naming(all[i], k),
             \A j \in 1..(N + K) : Naming(all[j], k) => j <= i
      PROVE  r[k] = all[i].val[k]
  <2>1. CASE i \in 1..N
    <3>1. \A j \in 1..K : ~Naming(t[j], k)
      <4> SUFFICES ASSUME NEW j \in 1..K, Naming(t[j], k) PROVE FALSE
        OBVIOUS
      <4>1. N + j <= i
        BY <1>1, <1>5
      <4> QED
        BY <1>1, <2>1, <4>1
    <3>2. k \notin DOMAIN n /\ k \in DOMAIN m
      BY <1>1, <1>3, <1>5, <2>1, <3>1
    <3>3. Naming(s[i], k) /\ \A j \in 1..N : Naming(s[j], k) => j <= i
      BY <1>1, <1>5, <2>1
    <3>4. m[k] = s[i].val[k]
      BY <2>1, <3>3 DEF Collected, N
    <3> QED
      BY <1>1, <1>2, <2>1, <3>2, <3>4
  <2>2. CASE i - N \in 1..K /\ i = N + (i - N)
    <3>1. PICK h \in 1..K : i = N + h /\ all[i] = t[h]
      BY <1>1, <2>2
    <3>2. Naming(t[h], k) /\ k \in DOMAIN n
      BY <1>3, <1>5, <3>1
    <3>3. \A j \in 1..K : Naming(t[j], k) => j <= h
      <4> SUFFICES ASSUME NEW j \in 1..K, Naming(t[j], k) PROVE j <= h
        OBVIOUS
      <4>1. N + j <= i
        BY <1>1, <1>5
      <4> QED
        BY <1>1, <3>1, <4>1
    <3>4. n[k] = t[h].val[k]
      BY <3>2, <3>3 DEF Collected, K
    <3> QED
      BY <1>2, <3>1, <3>2, <3>4
  <2> QED
    BY <1>1, <2>1, <2>2
<1> QED
  BY <1>2, <1>4, <1>5 DEF Collected, all, N, K

(* A call's bindings are those of New and of the call, the last map that   *)
(* names one deciding, and nothing else: no call leaves a binding in the   *)
(* map it shares with the others (util.go:21, options.go:198).             *)
THEOREM BindingsOwn == Spec => []BindingsAreOwn
<1>1. OInv => BindingsAreOwn
  <2> SUFFICES ASSUME OInv, op # "new", ~opts.err PROVE BindingsAreOwn
    BY DEF BindingsAreOwn
  <2>1. /\ op \in Operations /\ opts = OptionsFor(global, op, args)
        /\ args \in Seq(Arg) /\ newArgs \in Seq(Arg)
        /\ Include[op] \in SUBSET Kinds
    BY Included DEF OInv
  <2>2. PICK o, g : o = Parse(Include[op], args) /\ g = Parse(Include["new"], newArgs)
    OBVIOUS
  <2>3. ~o.err /\ ~g.err /\ opts = ApplyDefaults(global, o)
        /\ global \in Opt /\ global.bindings = Merge(<<>>, g.bindings)
    BY <2>1, <2>2, CallOptions, NewSettings
  <2>4. Include["new"] \in SUBSET Kinds
    BY DEF Include, Kinds
  <2>5. Collected(newArgs, Len(newArgs), g.bindings) /\ Collected(args, Len(args), o.bindings)
    BY <2>1, <2>2, <2>3, <2>4, ParseCollects
  <2>6. global.bindings = g.bindings
    <3>1. g.bindings \in Maps /\ <<>> \in Maps /\ DOMAIN <<>> = {}
      BY <2>5, EmptyTyped DEF Collected, Empty, Opt
    <3> QED
      BY <2>3, <3>1 DEF Merge, Maps
  <2>7. o \in Opt
    BY <2>1, <2>2, ParseTyped
  <2>8. opts.bindings = Merge(g.bindings, o.bindings)
    BY <2>3, <2>6, <2>7, DefaultsFill
  <2> DEFINE all == newArgs \o args
  <2>9. Collected(all, Len(newArgs) + Len(args), opts.bindings)
    BY <2>1, <2>5, <2>8, CollectedAfter
  <2>10. DOMAIN all = 1..(Len(newArgs) + Len(args))
    BY <2>1
  <2>11. DOMAIN opts.bindings \subseteq {"x", "y"}
    BY <2>9 DEF Collected, Maps
  <2> QED
    BY <2>9, <2>10, <2>11 DEF BindingsAreOwn, Collected, Naming
<1> QED
  BY <1>1, OptionsInvariant, PTL

-----------------------------------------------------------------------------
(* When an argument of class c is rejected, and what it changes if not.    *)
Refuses(a, o, c) ==
    \/ c = "verbosity" /\ (a.val = 0 \/ o.verbosity # 0)
    \/ /\ c = "duration"
       /\ a.val = 0 \/ (o.timeout # 0 /\ (o.interval # 0 \/ a.val > o.timeout))
    \/ c \in {"object", "objects"} /\ (o.object # "nil" \/ o.objects # "nil" \/ a.val = "hasnil")
    \/ c = "template" /\ (o.template # "nil" \/ (a.kind = "template" /\ a.val = "bad"))
    \/ c = "unexpected"

Changes(a, o, c, p) ==
    /\ p.verbosity = IF c = "verbosity" THEN a.val ELSE o.verbosity
    /\ p.timeout = IF c = "duration" /\ o.timeout = 0 THEN a.val ELSE o.timeout
    /\ p.interval = IF c = "duration" /\ o.timeout # 0 THEN a.val ELSE o.interval
    /\ p.object = IF c = "object" THEN "given" ELSE o.object
    /\ p.objects = IF c = "objects" THEN "given" ELSE o.objects
    /\ p.template = IF c = "template" THEN "given" ELSE o.template
    /\ p.bindings = IF c = "bindings" THEN Merge(o.bindings, a.val) ELSE o.bindings

LEMMA TakeChanges ==
  ASSUME NEW inc \in SUBSET Kinds, NEW a \in Arg, Proper(a), NEW o \in Opt, ~o.err,
         NEW c, c = Class(inc, a), NEW p, p = Take(inc, o, a)
  PROVE  /\ Refuses(a, o, c) => p = Rejected
         /\ ~Refuses(a, o, c) => ~p.err /\ Changes(a, o, c, p)
<1>1. Taken(inc, a, o, c, p)
  BY TakeCases
<1>2. CASE c = "verbosity"
  <2>1. p = TakeVerbosity(o, a)
    BY <1>1, <1>2 DEF Taken
  <2> QED
    BY <1>2, <2>1 DEF TakeVerbosity, Refuses, Changes, Opt
<1>3. CASE c = "duration"
  <2>1. p = TakeDuration(o, a)
    BY <1>1, <1>3 DEF Taken
  <2> QED
    BY <1>3, <2>1 DEF TakeDuration, Refuses, Changes, Opt
<1>4. CASE c = "object"
  <2>1. p = TakeObject(o, a) /\ a.val \in {"given", "hasnil"}
    BY <1>1, <1>4 DEF Taken
  <2> QED
    BY <1>4, <2>1 DEF TakeObject, Refuses, Changes, Opt
<1>5. CASE c = "objects"
  <2>1. p = TakeObjects(o, a) /\ a.val \in {"given", "nil", "hasnil"} /\ a.kind = "objects"
    BY <1>1, <1>5 DEF Taken
  <2>2. a.val # "nil"
    BY <2>1 DEF Proper
  <2> QED
    BY <1>5, <2>1, <2>2 DEF TakeObjects, Refuses, Changes, Opt
<1>6. CASE c = "template"
  <2>1. p = TakeTemplate(o, a)
    BY <1>1, <1>6 DEF Taken
  <2> QED
    BY <1>6, <2>1 DEF TakeTemplate, Refuses, Changes, Opt
<1>7. CASE c = "bindings"
  <2>1. PICK m : m = Merge(o.bindings, a.val)
    OBVIOUS
  <2>2. p = [o EXCEPT !.bindings = m]
    BY <1>1, <1>7, <2>1 DEF Taken
  <2>3. Changes(a, o, c, p) /\ ~p.err
    BY <1>7, <2>1, <2>2 DEF Changes, Opt
  <2>4. ~Refuses(a, o, c)
    BY <1>7 DEF Refuses
  <2> QED
    BY <2>3, <2>4
<1>8. CASE c = "unexpected"
  BY <1>1, <1>8 DEF Taken, Refuses
<1> QED
  BY <1>1, <1>2, <1>3, <1>4, <1>5, <1>6, <1>7, <1>8 DEF Taken

LEMMA SameOptions ==
  ASSUME NEW p \in Opt, NEW q \in Opt, p.err = q.err, p.verbosity = q.verbosity,
         p.timeout = q.timeout, p.interval = q.interval, p.object = q.object,
         p.objects = q.objects, p.template = q.template, p.bindings = q.bindings
  PROVE  p = q
  BY DEF Opt

(* Two arguments can change places, unless both are durations or maps.     *)
LEMMA TakesCommute ==
  ASSUME NEW inc \in SUBSET Kinds, NEW a \in Arg, NEW b \in Arg, Proper(a), Proper(b),
         ~(a.kind = b.kind /\ a.kind \in {"duration", "bindings"}), NEW o \in Opt
  PROVE  Take(inc, Take(inc, o, a), b) = Take(inc, Take(inc, o, b), a)
<1>1. PICK c, d : c = Class(inc, a) /\ d = Class(inc, b)
  OBVIOUS
<1>2. PICK p, q : p = Take(inc, o, a) /\ q = Take(inc, o, b)
  OBVIOUS
<1>3. PICK x, y : x = Take(inc, p, b) /\ y = Take(inc, q, a)
  OBVIOUS
<1>4. p \in Opt /\ q \in Opt /\ x \in Opt /\ y \in Opt /\ Rejected.err
  BY <1>2, <1>3, TakeTyped, EmptyTyped
<1>5. CASE o.err
  BY <1>2, <1>5, TakeBy
<1>6. CASE ~o.err
  <2>1. /\ Refuses(a, o, c) => p = Rejected
        /\ ~Refuses(a, o, c) => ~p.err /\ Changes(a, o, c, p)
    BY <1>1, <1>2, <1>6, TakeChanges
  <2>2. /\ Refuses(b, o, d) => q = Rejected
        /\ ~Refuses(b, o, d) => ~q.err /\ Changes(b, o, d, q)
    BY <1>1, <1>2, <1>6, TakeChanges
  <2>3. /\ p.err => x = p
        /\ ~p.err /\ Refuses(b, p, d) => x = Rejected
        /\ ~p.err /\ ~Refuses(b, p, d) => ~x.err /\ Changes(b, p, d, x)
    <3>1. CASE p.err
      <4>1. x = p
        BY <1>3, <1>4, <3>1, TakeBy
      <4> QED
        BY <3>1, <4>1
    <3>2. CASE ~p.err
      <4>1. /\ Refuses(b, p, d) => x = Rejected
            /\ ~Refuses(b, p, d) => ~x.err /\ Changes(b, p, d, x)
        BY <1>1, <1>3, <1>4, <3>2, TakeChanges
      <4> QED
        BY <3>2, <4>1
    <3> QED
      BY <3>1, <3>2
  <2>4. /\ q.err => y = q
        /\ ~q.err /\ Refuses(a, q, c) => y = Rejected
        /\ ~q.err /\ ~Refuses(a, q, c) => ~y.err /\ Changes(a, q, c, y)
    <3>1. CASE q.err
      <4>1. y = q
        BY <1>3, <1>4, <3>1, TakeBy
      <4> QED
        BY <3>1, <4>1
    <3>2. CASE ~q.err
      <4>1. /\ Refuses(a, q, c) => y = Rejected
            /\ ~Refuses(a, q, c) => ~y.err /\ Changes(a, q, c, y)
        BY <1>1, <1>3, <1>4, <3>2, TakeChanges
      <4> QED
        BY <3>2, <4>1
    <3> QED
      BY <3>1, <3>2
  <2>5. /\ ~(c = "duration" /\ d = "duration") /\ ~(c = "bindings" /\ d = "bindings")
        /\ c \in Kinds \cup {"bindings", "unexpected"}
        /\ d \in Kinds \cup {"bindings", "unexpected"}
        /\ c = "verbosity" => a.val \in Nat
        /\ d = "verbosity" => b.val \in Nat
        /\ c = "duration" => a.val \in Nat
        /\ d = "duration" => b.val \in Nat
    <3>1. Taken(inc, a, o, c, p) /\ Taken(inc, b, o, d, q)
      BY <1>1, <1>2, <1>6, TakeCases
    <3> QED
      BY <3>1 DEF Taken, Kinds
  <2>6. (Refuses(a, o, c) \/ Refuses(b, p, d)) <=> (Refuses(b, o, d) \/ Refuses(a, q, c))
    <3>1. ASSUME ~Refuses(a, o, c), ~Refuses(b, o, d)
          PROVE  Refuses(b, p, d) <=> Refuses(a, q, c)
      <4>1. Changes(a, o, c, p) /\ Changes(b, o, d, q)
        BY <2>1, <2>2, <3>1
      <4> QED
        BY <2>5, <3>1, <4>1 DEF Refuses, Changes, Kinds
    <3>2. ASSUME Refuses(a, o, c), ~Refuses(b, o, d)
          PROVE  Refuses(a, q, c)
      <4>1. Changes(b, o, d, q)
        BY <2>2, <3>2
      <4> QED
        BY <2>5, <3>2, <4>1 DEF Refuses, Changes
    <3>3. ASSUME ~Refuses(a, o, c), Refuses(b, o, d)
          PROVE  Refuses(b, p, d)
      <4>1. Changes(a, o, c, p)
        BY <2>1, <3>3
      <4> QED
        BY <2>5, <3>3, <4>1 DEF Refuses, Changes
    <3> QED
      BY <3>1, <3>2, <3>3
  <2>7. CASE Refuses(a, o, c) \/ Refuses(b, p, d)
    BY <1>2, <1>3, <1>4, <2>1, <2>2, <2>3, <2>4, <2>6, <2>7
  <2>8. CASE ~(Refuses(a, o, c) \/ Refuses(b, p, d))
    <3>1. /\ Changes(a, o, c, p) /\ Changes(b, p, d, x) /\ ~x.err
          /\ Changes(b, o, d, q) /\ Changes(a, q, c, y) /\ ~y.err
      BY <2>1, <2>2, <2>3, <2>4, <2>6, <2>8
    <3>2. x.err = y.err
      BY <1>4, <3>1 DEF Opt
    <3>3. /\ ~(c = "verbosity" /\ d = "verbosity")
      BY <2>5, <2>8, <3>1 DEF Refuses, Changes
    <3>4. x.verbosity = y.verbosity
      BY <3>1, <3>3 DEF Changes
    <3>5. x.timeout = y.timeout /\ x.interval = y.interval
      BY <2>5, <3>1 DEF Changes
    <3>6. x.object = y.object /\ x.objects = y.objects /\ x.template = y.template
      BY <3>1 DEF Changes
    <3>7. x.bindings = y.bindings
      BY <2>5, <3>1 DEF Changes
    <3>8. x = y
      BY <1>4, <3>2, <3>4, <3>5, <3>6, <3>7, SameOptions
    <3> QED
      BY <1>2, <1>3, <3>8
  <2> QED
    BY <2>7, <2>8
<1> QED
  BY <1>5, <1>6

LEMMA ParseSwapped ==
  ASSUME NEW inc \in SUBSET Kinds, NEW s \in Seq(Arg), NEW i \in 1..(Len(s) - 1),
         Proper(s[i]), Proper(s[i + 1]),
         ~(s[i].kind = s[i + 1].kind /\ s[i].kind \in {"duration", "bindings"})
  PROVE  Swapped(s, i) \in Seq(Arg) /\ Parse(inc, Swapped(s, i)) = Parse(inc, s)
<1> DEFINE N == Len(s)
<1>1. PICK t : t = Swapped(s, i)
  OBVIOUS
<1>2. /\ i \in 1..N /\ i + 1 \in 1..N /\ i - 1 \in 0..N /\ N \in Nat
      /\ i \in Nat /\ i - 1 # i /\ i # i + 1
  OBVIOUS
<1>3. /\ t \in Seq(Arg) /\ Len(t) = N
      /\ t[i] = s[i + 1] /\ t[i + 1] = s[i]
      /\ \A n \in 1..N : n # i /\ n # i + 1 => t[n] = s[n]
  BY <1>1, <1>2 DEF Swapped
<1>4. PICK f : /\ Parse(inc, s) = f[N]
               /\ f[0] = Empty
               /\ \A n \in 1..N : f[n] = Take(inc, f[n - 1], s[n])
  BY ParseRounds
<1>5. PICK g : /\ Parse(inc, t) = g[N]
               /\ g[0] = Empty
               /\ \A n \in 1..N : g[n] = Take(inc, g[n - 1], t[n])
  BY <1>3, ParseRounds
<1>6. \A n \in 0..N : f[n] \in Opt
  BY <1>4, RoundsTyped
<1> HIDE DEF N
<1> DEFINE Before == {n \in 0..N : n < i => f[n] = g[n]}
<1>7. 0 \in Before
  BY <1>2, <1>4, <1>5
<1>8. ASSUME NEW n \in 1..N, n - 1 \in Before
      PROVE  n \in Before
  <2>1. n \in 0..N /\ n - 1 \in 0..N
    BY <1>2
  <2>2. n < i => n - 1 < i /\ n # i /\ n # i + 1
    BY <1>2
  <2> QED
    BY <1>3, <1>4, <1>5, <1>8, <2>1, <2>2
<1>9. \A n \in 0..N : n \in Before
  <2> HIDE DEF Before
  <2> QED
    BY <1>2, <1>7, <1>8, UpTo
<1>10. f[i - 1] = g[i - 1] /\ f[i - 1] \in Opt
  BY <1>2, <1>6, <1>9
<1>11. f[i + 1] = g[i + 1]
  <2>1. /\ f[i] = Take(inc, f[i - 1], s[i]) /\ f[i + 1] = Take(inc, f[i], s[i + 1])
        /\ g[i] = Take(inc, f[i - 1], s[i + 1]) /\ g[i + 1] = Take(inc, g[i], s[i])
    <3>1. (i + 1) - 1 = i
      BY <1>2
    <3> QED
      BY <1>2, <1>3, <1>4, <1>5, <1>10, <3>1
  <2>2. s[i] \in Arg /\ s[i + 1] \in Arg
    BY <1>2 DEF N
  <2> QED
    BY <1>10, <2>1, <2>2, TakesCommute
<1> DEFINE Same == {n \in 0..N : n # i => f[n] = g[n]}
<1>12. 0 \in Same
  BY <1>2, <1>4, <1>5
<1>13. ASSUME NEW n \in 1..N, n - 1 \in Same
       PROVE  n \in Same
  <2>1. n \in 0..N /\ n - 1 \in 0..N
    BY <1>2
  <2>2. CASE n = i \/ n = i + 1
    BY <1>11, <2>1, <2>2
  <2>3. CASE n # i /\ n # i + 1
    <3>1. n - 1 # i
      BY <1>2, <2>3
    <3> QED
      BY <1>3, <1>4, <1>5, <1>13, <2>1, <2>3, <3>1
  <2> QED
    BY <2>2, <2>3
<1>14. \A n \in 0..N : n \in Same
  <2> HIDE DEF Same
  <2> QED
    BY <1>2, <1>12, <1>13, UpTo
<1>15. N \in 0..N /\ N # i
  BY <1>2 DEF N
<1> QED
  BY <1>1, <1>3, <1>4, <1>5, <1>14, <1>15

(* "The following arguments may be provided in any order (unless noted     *)
(* otherwise)": the options of a call do not depend on the order of two    *)
(* neighbours that are not both durations or both maps of bindings         *)
(* (options.go:88 to 242).                                                 *)
THEOREM OrderDoesNotMatter == Spec => []OrderIrrelevant
<1>1. OInv => OrderIrrelevant
  <2> SUFFICES ASSUME OInv, op # "new", NEW i \in 1..(Len(args) - 1),
                      ~(args[i].kind = args[i + 1].kind
                        /\ args[i].kind \in {"duration", "bindings"}),
                      Proper(args[i]), Proper(args[i + 1])
               PROVE  OptionsFor(global, op, Swapped(args, i)) = opts
    BY DEF OrderIrrelevant
  <2>1. /\ op \in Operations /\ opts = OptionsFor(global, op, args)
        /\ args \in Seq(Arg) /\ Include[op] \in SUBSET Kinds
    BY Included DEF OInv
  <2>2. Parse(Include[op], Swapped(args, i)) = Parse(Include[op], args)
    BY <2>1, ParseSwapped
  <2> QED
    BY <2>1, <2>2 DEF OptionsFor
<1> QED
  BY <1>1, OptionsInvariant, PTL
=============================================================================
