---------------------------- MODULE SnapshotDiff ----------------------------
(***************************************************************************)
(* What is in the snapshots GameSync moves around: full snapshots, diffs   *)
(* against one the client has acknowledged, and what the client makes of   *)
(* them.  There are two libraries with the same plan: "game"               *)
(* (sanctify-game/common, game_snapshot.cc), which the PvE server and its  *)
(* client use, and "logic" (sanctify/common/logic/netsync), its successor. *)
(*                                                                         *)
(* A snapshot is a set of living entities and, for each entity and kind of *)
(* component, a value or None: a slot.  Component types that are handled   *)
(* alike are one here: "location" stands for waypoints, speed and          *)
(* orientation, too, but for the waypoints of the successor.  The          *)
(* successor has no players, and a component that belongs to no entity,    *)
(* the time.                                                               *)
(***************************************************************************)
EXTENDS Integers

CONSTANTS
  Entities,  (* net sync ids                                               *)
  Values,    (* what a component may hold                                  *)
  None,      (* an empty Maybe                                             *)
  Context    (* stands for the entity of components that have none         *)

ASSUME SnapshotDiffAssumption == None \notin Values /\ Context \notin Entities

VARIABLES
  lib,    (* "game" or "logic"                                             *)
  world,  (* the slots of the server's registry                            *)
  taken,  (* the last snapshot the server has sent                         *)
  view,   (* what the client made of it                                    *)
  base,   (* the acknowledged snapshot: as the server and the client       *)
          (* have it; Unsent if there is none                              *)
  shown   (* the slots of the client's registry                            *)

vars == <<lib, world, taken, view, base, shown>>

Slots ==
  IF lib = "game"
  THEN Entities \X {"location", "player"}
  ELSE (Entities \X {"location", "waypoints"}) \cup {<<Context, "time">>}

Owners == Entities \cup {Context}

Held(at) == {s \in Slots : at[s] # None}

(* gen_snapshot, read_all_game_state: an entity that has no component is   *)
(* not in a snapshot                                                       *)
Snapshot(at) == [alive |-> {s[1] : s \in Held(at)} \cup {Context}, at |-> at]

(* the getters *)
At(snap, s) == IF s[1] \in snap.alive THEN snap.at[s] ELSE None

(* serialize and Deserialize of a full snapshot *)
Full(snap) == Snapshot([s \in Slots |-> At(snap, s)])

Blank == Snapshot([s \in Slots |-> None])

Unsent == [server |-> Blank, client |-> Blank, acked |-> FALSE]

-----------------------------------------------------------------------------
(* Diffs *)

(* mutant: the players are compared like the others                        *)
UnreadAny(from, to) == {s \in Slots : At(from, s) = None /\ At(to, s) # None}

(* The diff compares the value of the base with the new one even if the    *)
(* base has none, and so with what is in the memory of an empty Maybe: the *)
(* outcome is open.  (Reading a waypoint list there may also crash.)       *)
(* Players are compared by address, and always differ.                     *)
Unread(from, to) ==
  {s \in Slots : s[2] # "player" /\ At(from, s) = None /\ At(to, s) # None}

Changed(from, to) ==
  {s \in Slots : /\ At(to, s) # None
                 /\ s[2] = "player" \/ At(from, s) # At(to, s)}

Deleted(from, to) ==
  {s \in Slots : s[1] \in to.alive /\ At(from, s) # None /\ At(to, s) = None}

Gone(from, to) == from.alive \ to.alive

(* CreateDiff *)
Diffs(from, to) ==
  {[upserts |-> Changed(from, to) \ equal, value |-> to.at,
    deletes |-> Deleted(from, to), gone |-> Gone(from, to)] :
     equal \in SUBSET Unread(from, to)}

(* serialize and Deserialize of a diff: the deletion of a context          *)
(* component is not in the message                                         *)
Sent(d) == [d EXCEPT !.deletes = {s \in @ : s[1] # Context}]

(* delete_entity, delete_component *)
Erase(at, slots) == [s \in Slots |-> IF s \in slots THEN None ELSE at[s]]

SlotsOf(owners) == {s \in Slots : s[1] \in owners}

(* the overloads of add *)
Write(at, d) ==
  [s \in Slots |-> IF s \in d.upserts THEN d.value[s] ELSE at[s]]

OwnersOf(slots) == {s[1] : s \in slots}

(* mutant: no component is ever removed                                    *)
GameApplyAdds(from, d) ==
  [alive |-> (from.alive \ d.gone) \cup OwnersOf(d.upserts),
   at    |-> Write(from.at, d)]

(* GameSnapshot::ApplyDiff: entities go first, then, of each entity that   *)
(* changed, the deleted components, then the others are added              *)
GameApply(from, d) ==
  [alive |-> (from.alive \ d.gone) \cup OwnersOf(d.upserts),
   at    |-> Write(Erase(from.at, d.deletes \cup SlotsOf(d.gone)), d)]

(* CommonLogicSnapshot::ApplyDiff: the other way round; and the deletion   *)
(* of a location erases the waypoints                                      *)
Erased(deletes) ==
  {<<s[1], IF s[2] = "location" THEN "waypoints" ELSE s[2]>> : s \in deletes}

LogicApply(from, d) ==
  [alive |-> (from.alive \cup OwnersOf(d.upserts)) \ d.gone,
   at    |-> Erase(Write(from.at, d), Erased(d.deletes) \cup SlotsOf(d.gone))]

Apply(from, d) == IF lib = "game" THEN GameApply(from, d)
                                  ELSE LogicApply(from, d)

-----------------------------------------------------------------------------

Init ==
  /\ lib \in {"game", "logic"}
  /\ world = [s \in Slots |-> None]
  /\ taken = Blank
  /\ view = Blank
  /\ base = Unsent
  /\ shown = [s \in Slots |-> None]

(* The server's simulation sets or removes a component, or an entity; the  *)
(* time is never removed.                                                  *)
Change ==
  /\ \/ \E s \in Slots, v \in Values :
          /\ s[2] = "player" => v = CHOOSE w \in Values : TRUE
          /\ world' = [world EXCEPT ![s] = v]
     \/ \E s \in Slots : s[1] # Context /\ world' = [world EXCEPT ![s] = None]
     \/ \E e \in Entities :
          world' = [s \in Slots |-> IF s[1] = e THEN None ELSE world[s]]
  /\ UNCHANGED <<lib, taken, view, base, shown>>

(* send_full_snapshot, and cache_snapshot_full *)
SendFull ==
  /\ taken' = Snapshot(world)
  /\ view' = Full(taken')
  /\ UNCHANGED <<lib, world, base, shown>>

(* send_diff, and cache_snapshot_diff *)
SendDiff ==
  /\ base.acked
  /\ taken' = Snapshot(world)
  /\ \E d \in Diffs(base.server, taken') : view' = Apply(base.client, Sent(d))
  /\ UNCHANGED <<lib, world, base, shown>>

(* mutant: the server takes the state of now for the one acknowledged      *)
AckWorld ==
  /\ base' = [server |-> Snapshot(world), client |-> view, acked |-> TRUE]
  /\ UNCHANGED <<lib, world, taken, view, shown>>

(* The ack arrives: from now on diffs are based on this snapshot. *)
Ack ==
  /\ base' = [server |-> taken, client |-> view, acked |-> TRUE]
  /\ UNCHANGED <<lib, world, taken, view, shown>>

(* The client's own simulation changes what it has, by prediction. *)
Predict ==
  /\ lib = "game"
  /\ \E s \in Slots, v \in Values :
       /\ s[2] = "location"
       /\ shown[s] # None
       /\ shown' = [shown EXCEPT ![s] = v]
  /\ UNCHANGED <<lib, world, taken, view, base>>

(* mutant: what the server has is only added                               *)
ReconcileAdding ==
  /\ lib = "game"
  /\ \E d \in Diffs(Snapshot(shown), Full(view)) :
       shown' = GameApplyAdds(Snapshot(shown), d).at
  /\ UNCHANGED <<lib, world, taken, view, base>>

(* reconcile_client_state: the client's registry is brought to the         *)
(* snapshot by a diff, too.  (The callback that simulates the snapshot     *)
(* forward to the client's time is the caller's; here no time has passed.) *)
Reconcile ==
  /\ lib = "game"
  /\ \E d \in Diffs(Snapshot(shown), Full(view)) :
       shown' = GameApply(Snapshot(shown), d).at
  /\ UNCHANGED <<lib, world, taken, view, base>>

Next == Change \/ SendFull \/ SendDiff \/ Ack \/ Predict \/ Reconcile

Spec == Init /\ [][Next]_vars

-----------------------------------------------------------------------------

Snapshots ==
  [alive : SUBSET Owners, at : [Slots -> Values \cup {None}]]

(* The types of the variables.  A dead entity has no components: otherwise *)
(* they would be back when its id is used again.                           *)
TypeOK ==
  /\ lib \in {"game", "logic"}
  /\ world \in [Slots -> Values \cup {None}]
  /\ taken \in Snapshots
  /\ view \in Snapshots
  /\ base \in [server : Snapshots, client : Snapshots, acked : BOOLEAN]
  /\ shown \in [Slots -> Values \cup {None}]
  /\ \A s \in Held(view.at) : s[1] \in view.alive

(* The slots `snap' has are those of `of', with the same value. *)
Agrees(snap, of, slots) ==
  \A s \in slots : At(snap, s) \in {None, At(of, s)}

(* In the successor library a location that was deleted stays. *)
Sound == IF lib = "game" THEN Slots ELSE {s \in Slots : s[2] # "location"}

(* However many diffs are applied, each to what earlier ones have made,    *)
(* the client has no component the server did not have in that snapshot,   *)
(* and none with an older value: no ghosts and nothing stale.              *)
NoGhosts == Agrees(view, taken, Sound)

(* What is missing from the client's snapshot is missing for one of three  *)
(* reasons: the base did not have it (the uninitialised comparison), the   *)
(* client's copy of the base had lost it before, or the successor's        *)
(* deletion of a location took the waypoints.  A player is never missing.  *)
OmissionsExplained ==
  [][SendDiff =>
       \A s \in Slots :
         At(view', s) = None /\ At(taken', s) # None =>
           /\ s[2] # "player"
           /\ \/ At(base.server, s) = None
              \/ At(base.client, s) = None
              \/ /\ lib = "logic" /\ s[2] = "waypoints"
                 /\ At(base.server, <<s[1], "location">>) # None]_vars

(* Reconciling makes the client's registry the snapshot, whatever it held  *)
(* before, so that neither a prediction nor a dead entity survives, but    *)
(* for what was new: where the registry had nothing, what the snapshot has *)
(* is compared with an empty Maybe and may be left out again.  A player    *)
(* never is.                                                               *)
ReconcileFollows ==
  [][Reconcile =>
       \A s \in Slots :
         shown'[s] # At(view, s) =>
           shown[s] = None /\ shown'[s] = None /\ s[2] # "player"]_vars
=============================================================================
