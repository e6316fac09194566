------------------------------ MODULE MCPodSet ------------------------------
(***************************************************************************)
(* Instances of PodSet for TLC: what users submit.                         *)
(***************************************************************************)
EXTENDS PodSet

CONSTANTS web, v1, v2

Sub(replicas, name, image) == [replicas |-> replicas, name |-> name, image |-> image]

(* A spec the webhook completes, one with more pods and a new image, one   *)
(* with no pods, one without a name; a negative count and a name that are  *)
(* refused.                                                                *)
Users ==
    { Sub(Unset, web, v1), Sub(2, web, v2), Sub(0, web, v1),
      Sub(1, NoName, v1), Sub(-1, web, v1), Sub(1, "Web", v1) }

(* One PodSet, updated once. *)
OneUpdate == { Sub(1, web, v1), Sub(1, web, v2) }
=============================================================================
