----------------------------- MODULE PromiseAll -----------------------------
(***************************************************************************)
(* What PromiseCombiner promises its user (the class comment of            *)
(* igasync/promise_combiner.h): "the use case of the JavaScript            *)
(* Promise.all".  Inputs are added until the combination is requested; the *)
(* combined callback runs once, after every added input has a value.       *)
(***************************************************************************)
EXTENDS Naturals

CONSTANT Inputs

VARIABLES
  added,      (* inputs handed to add                                      *)
  settled,    (* inputs that have a value                                  *)
  requested,  (* combine was called                                        *)
  delivered   (* how often the combined callback was invoked               *)

avars == <<added, settled, requested, delivered>>

Init ==
  /\ added = {}
  /\ settled = {}
  /\ requested = FALSE
  /\ delivered = 0

Add(k) ==
  /\ ~requested
  /\ added' = added \cup {k}
  /\ UNCHANGED <<settled, requested, delivered>>

Settle(k) ==
  /\ settled' = settled \cup {k}
  /\ UNCHANGED <<added, requested, delivered>>

Request ==
  /\ ~requested
  /\ requested' = TRUE
  /\ UNCHANGED <<added, settled, delivered>>

Deliver ==
  /\ requested
  /\ added \subseteq settled
  /\ delivered = 0
  /\ delivered' = 1
  /\ UNCHANGED <<added, settled, requested>>

Next == (\E k \in Inputs : Add(k) \/ Settle(k)) \/ Request \/ Deliver

Spec == Init /\ [][Next]_avars

=============================================================================
