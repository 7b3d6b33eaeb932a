------------------------------ MODULE Replica ------------------------------
(***************************************************************************)
(* What the snapshots of a game are for: a client shows states that the    *)
(* server really had, and never goes back to an older one.                 *)
(*                                                                         *)
(* A state is named by a pair, compared lexicographically: the server      *)
(* numbers the states of one period of service from 0, and starts over     *)
(* with the next period.  <<0, 0>> is shown before anything was received.  *)
(***************************************************************************)
EXTENDS Integers

VARIABLES
  server,  (* the latest state the server has published                    *)
  shown    (* the state the current client shows                           *)

vars == <<server, shown>>

Before(a, b) == a[1] < b[1] \/ (a[1] = b[1] /\ a[2] < b[2])

Nothing == <<0, 0>>

Init == server = Nothing /\ shown = Nothing

(* the server publishes another state *)
Publish ==
  /\ \/ server[1] > 0 /\ server' = <<server[1], server[2] + 1>>
     \/ server' = <<server[1] + 1, 0>>
  /\ UNCHANGED shown

(* the client catches up, not necessarily with the latest *)
Show ==
  /\ Before(shown, shown')
  /\ ~Before(server, shown')
  /\ UNCHANGED server

(* another client takes the place of this one *)
Replace == shown' = Nothing /\ UNCHANGED server

Next == Publish \/ Show \/ Replace

Spec == Init /\ [][Next]_vars
=============================================================================
