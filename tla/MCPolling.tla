----------------------------- MODULE MCPolling ------------------------------
(***************************************************************************)
(* Instances of Polling for TLC: the closures a test polls.                *)
(***************************************************************************)
EXTENDS Polling

CONSTANTS k1, k2, v1, v2

Anything == Vals \cup {NoVal}
Named(k, wants) == [named |-> TRUE, scope |-> {k}, wants |-> wants, breaks |-> {}]
AnyOf(wants, breaks) ==
    [named |-> FALSE, scope |-> {k1, k2}, wants |-> wants, breaks |-> breaks]

Fn(kind, docs, template, save, badSlot, count) ==
    [kind |-> kind, docs |-> docs, template |-> template, save |-> save,
     badSlot |-> badSlot, count |-> count, badBinding |-> FALSE]

(* A document that cannot be rendered. *)
Unrendered == [AnyOf({v1}, {}) EXCEPT !.scope = {}]

(* Every function, with and without template and objects, over one and two *)
(* documents; documents that name their resource and documents that        *)
(* select; a value that cannot be evaluated; an object of the wrong type;  *)
(* a test that waits for an empty list; a document and bindings that       *)
(* cannot be used.                                                         *)
TestClosures ==
    { Fn("get", <<Named(k1, Anything), Named(k2, Anything)>>, TRUE, TRUE, 0, 0),
      Fn("get", <<Named(k1, Anything), Named(k2, Anything)>>, FALSE, TRUE, 0, 0),
      Fn("fetch", <<Named(k1, {v1}), Named(k2, {v1})>>, TRUE, TRUE, 0, 0),
      Fn("fetch", <<Named(k1, {v1})>>, FALSE, TRUE, 0, 0),
      Fn("check", <<Named(k1, {v1}), AnyOf({v2}, {})>>, TRUE, TRUE, 0, 0),
      Fn("check", <<AnyOf({v1}, {v2}), AnyOf({v1}, {})>>, TRUE, TRUE, 2, 0),
      Fn("check", <<AnyOf({v2}, {})>>, TRUE, FALSE, 0, 0),
      Fn("list", <<AnyOf({v1}, {})>>, TRUE, FALSE, 0, 2),
      Fn("list", <<AnyOf({v1}, {v2})>>, TRUE, FALSE, 0, 1),
      Fn("list", <<Named(k1, {v1})>>, TRUE, FALSE, 0, 0),
      Fn("check", <<AnyOf({v1}, {}), Unrendered>>, TRUE, TRUE, 0, 0),
      [Fn("check", <<AnyOf({v1}, {})>>, TRUE, TRUE, 0, 0) EXCEPT !.badBinding = TRUE] }
=============================================================================
