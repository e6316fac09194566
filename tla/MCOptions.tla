----------------------------- MODULE MCOptions ------------------------------
(***************************************************************************)
(* Arguments for TLC: of every kind one that is accepted, and those the    *)
(* parser has a check for.                                                 *)
(***************************************************************************)
EXTENDS Options, TLC

Arguments ==
    { [kind |-> "verbosity", val |-> 20],
      [kind |-> "duration", val |-> 0, text |-> FALSE],
      [kind |-> "duration", val |-> 2, text |-> TRUE],
      [kind |-> "duration", val |-> 3, text |-> FALSE],
      [kind |-> "object", val |-> "given"],
      [kind |-> "objects", val |-> "given"],
      [kind |-> "objects", val |-> "nil"],
      [kind |-> "objects", val |-> "hasnil"],
      [kind |-> "template", val |-> "given"],
      [kind |-> "template", val |-> "bad"],
      [kind |-> "bindings", val |-> "x" :> 1],
      [kind |-> "bindings", val |-> "x" :> 2],
      [kind |-> "bindings", val |-> "y" :> 1] }
=============================================================================
