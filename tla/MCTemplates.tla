---------------------------- MODULE MCTemplates -----------------------------
(***************************************************************************)
(* Instances of Templates for TLC.                                         *)
(***************************************************************************)
EXTENDS Templates

Pads == {<<>>, <<"space">>, <<"tab">>}

(* Every line, and every template of up to three of them. *)
Lines == [pad : Pads, text : {"#", "---", "field", "($x)"}]
         \cup {[pad |-> <<"space">>, text |-> ""], [pad |-> <<>>, text |-> ""]}
ShortBodies == UNION {[1..n -> Lines] : n \in 0..3}

L(text) == [pad |-> <<>>, text |-> text]
In(text) == [pad |-> <<"space">>, text |-> text]

(* Longer ones: two and three documents between comments and blank lines,  *)
(* children, a "---" that is a value, a document in front of the first     *)
(* separator.                                                              *)
LongBodies ==
    { <<L("---"), L("field"), L("---"), L("#"), L(""), L("---"), L("($x)"), L("---")>>,
      <<L(""), In("#"), L("field"), In("---"), L("field"), L("---"), L("($x)")>>,
      <<In("#"), L("field"), In("field"), In("($x)"), L("---"), L("#"), L("field"),
        L("---"), L("($x)")>>,
      <<In("field"), In("---"), In("($x)"), In("---"), In("field"), L("#")>> }

AllBodies == ShortBodies \cup LongBodies

AllIndents == {<<>>, <<"space", "space">>, <<"tab">>}

C(kind, binding, slots, badSlot) ==
    [kind |-> kind, binding |-> binding, slots |-> slots, badSlot |-> badSlot]

RenderCalls ==
    { C("single", "set", 1, 0), C("single", "unset", 0, 0), C("single", "set", 1, 1),
      C("multiple", "set", 2, 0), C("multiple", "unset", 2, 0), C("multiple", "set", 2, 2),
      C("multiple", "set", 0, 0), C("multiple", "bad", 1, 0), C("string", "set", 0, 0) }
=============================================================================
