----------------------------- MODULE MCSawchain -----------------------------
(***************************************************************************)
(* Instances of Sawchain for TLC: the calls each caller may make.          *)
(***************************************************************************)
EXTENDS SawchainInductive, SawchainOwned, TLC

CONSTANTS c1, c2, k1, k2, v1, v2

Req(verb, wait, template, save, docs, val) ==
    [verb |-> verb, wait |-> wait, template |-> template, save |-> save,
     docs |-> docs, val |-> val, badSlot |-> 0]

Both == <<k1, k2>>

(* Waiting calls, on two resources with a template, on one with objects,   *)
(* an update whose second object has the wrong type, and a read.           *)
WaitRequests == (c1 :>
    { Req("create", TRUE, TRUE, TRUE, Both, v1),
      Req("update", TRUE, TRUE, TRUE, Both, v2),
      [Req("update", TRUE, TRUE, TRUE, Both, v2) EXCEPT !.badSlot = 2],
      Req("delete", TRUE, TRUE, FALSE, Both, v1),
      Req("create", TRUE, FALSE, TRUE, <<k1>>, v1),
      Req("update", TRUE, FALSE, TRUE, <<k1>>, v2),
      Req("delete", TRUE, FALSE, TRUE, <<k1>>, v1),
      Req("get", FALSE, FALSE, TRUE, <<k1>>, v1) })

(* One caller makes every kind of call that does not wait, two with an     *)
(* object of the wrong type, another waits for changes of the resources    *)
(* they share.                                                             *)
SharedRequests == (c1 :>
    { Req("create", FALSE, TRUE, TRUE, Both, v1),
      [Req("create", FALSE, TRUE, TRUE, Both, v1) EXCEPT !.badSlot = 2],
      Req("update", FALSE, TRUE, TRUE, Both, v2),
      Req("update", FALSE, FALSE, TRUE, Both, v2),
      Req("delete", FALSE, TRUE, FALSE, Both, v1),
      Req("get", FALSE, TRUE, TRUE, Both, v1),
      Req("fetch", FALSE, FALSE, TRUE, Both, v1),
      [Req("get", FALSE, TRUE, TRUE, Both, v1) EXCEPT !.badSlot = 2] })
    @@ (c2 :>
    { Req("update", TRUE, TRUE, FALSE, <<k1>>, v1),
      Req("update", TRUE, FALSE, TRUE, <<k1>>, v1),
      Req("delete", TRUE, TRUE, FALSE, <<k1>>, v1) })

(* Two callers that own a resource each: waited writes, and reads. *)
Own(k) ==
    { Req("create", TRUE, TRUE, FALSE, <<k>>, v1),
      Req("update", TRUE, TRUE, TRUE, <<k>>, v2),
      Req("delete", TRUE, TRUE, FALSE, <<k>>, v1),
      Req("get", FALSE, TRUE, TRUE, <<k>>, NoVal) }
OwnRequests == (c1 :> Own(k1)) @@ (c2 :> Own(k2))

(* One call of each claim the documentation makes. *)
OneUpdate == (c1 :> { Req("update", TRUE, TRUE, FALSE, <<k1>>, v2) })
CreateSaved == (c1 :> { Req("create", FALSE, TRUE, TRUE, <<k1>>, v1) })
=============================================================================
