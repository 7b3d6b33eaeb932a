------------------------- MODULE SnapshotDiffProofs -------------------------
(***************************************************************************)
(* Proofs about module SnapshotDiff, for any entities and values: what a   *)
(* client makes of a diff, if it shares the base with the server, is the   *)
(* server's snapshot, perhaps with something missing; and so it goes on    *)
(* through any number of diffs.                                            *)
(***************************************************************************)
EXTENDS SnapshotDiff, TLAPS

Time == <<Context, "time">>

(* Nothing is held by an entity that is not alive.                         *)
NoneOfTheDead(snap) == \A s \in Slots : snap.at[s] # None => s[1] \in snap.alive

(* The time, once the server has it, stays: its deletion could not be      *)
(* sent.                                                                   *)
TimeStays(from, to) ==
  lib = "logic" => (At(from, Time) # None => At(to, Time) # None)

TypeInv ==
  /\ lib \in {"game", "logic"}
  /\ world \in [Slots -> Values \cup {None}]
  /\ taken \in Snapshots /\ view \in Snapshots
  /\ base \in [server : Snapshots, client : Snapshots, acked : BOOLEAN]
  /\ shown \in [Slots -> Values \cup {None}]

(* The server's and the client's copy of a snapshot: the one of last time, *)
(* and the one acknowledged.                                               *)
Copies(server, client) ==
  /\ NoneOfTheDead(client)
  /\ Agrees(client, server, Sound)
  /\ TimeStays(server, Snapshot(world))

DiffInv ==
  /\ TypeInv
  /\ Copies(taken, view)
  /\ Copies(base.server, base.client)

-----------------------------------------------------------------------------
(* Slots and snapshots *)

LEMMA SlotIs ==
  ASSUME lib \in {"game", "logic"}, NEW s \in Slots
  PROVE  /\ s[1] \in Owners /\ s = <<s[1], s[2]>>
         /\ lib = "game" => s[1] \in Entities /\ s[2] \in {"location", "player"}
         /\ lib = "logic" => \/ s[1] \in Entities /\ s[2] \in {"location", "waypoints"}
                             \/ s = Time
BY DEF Slots, Owners, Time

LEMMA SnapshotIs ==
  ASSUME lib \in {"game", "logic"}, NEW f \in [Slots -> Values \cup {None}]
  PROVE  /\ Snapshot(f) \in Snapshots /\ NoneOfTheDead(Snapshot(f))
         /\ Context \in Snapshot(f).alive
         /\ \A s \in Slots : At(Snapshot(f), s) = f[s]
<1>1. \A s \in Slots : s[1] \in Owners
  BY SlotIs
<1>2. {s[1] : s \in Held(f)} \cup {Context} \in SUBSET Owners
  BY <1>1 DEF Held, Owners
<1>3. \A s \in Slots : f[s] # None => s[1] \in {t[1] : t \in Held(f)}
  BY DEF Held
<1>4. /\ Snapshot(f).alive = {s[1] : s \in Held(f)} \cup {Context}
      /\ Snapshot(f).at = f
  BY DEF Snapshot
<1>5. Snapshot(f) \in Snapshots
  BY <1>2 DEF Snapshot, Snapshots
<1>6. QED
  BY <1>3, <1>4, <1>5 DEF At, NoneOfTheDead

LEMMA FullIs ==
  ASSUME lib \in {"game", "logic"}, NEW snap \in Snapshots
  PROVE  /\ Full(snap) \in Snapshots /\ NoneOfTheDead(Full(snap))
         /\ Context \in Full(snap).alive
         /\ \A s \in Slots : At(Full(snap), s) = At(snap, s)
<1> DEFINE f == [s \in Slots |-> At(snap, s)]
<1>1. f \in [Slots -> Values \cup {None}]
  BY DEF At, Snapshots
<1>2. Full(snap) = Snapshot(f) /\ \A s \in Slots : f[s] = At(snap, s)
  BY DEF Full
<1> HIDE DEF f
<1>3. QED
  BY <1>1, <1>2, SnapshotIs

-----------------------------------------------------------------------------
(* Diffs *)

(* What a diff, in the memory of the server or on the way, is.             *)
DiffOf(d, from, to) ==
  /\ d.upserts \subseteq Changed(from, to) /\ d.value = to.at
  /\ Changed(from, to) \subseteq d.upserts \cup Unread(from, to)
  /\ d.gone = Gone(from, to)
  /\ d.deletes \subseteq Deleted(from, to)
  /\ \A s \in Deleted(from, to) : s[1] # Context => s \in d.deletes

LEMMA DiffsAre ==
  ASSUME NEW from, NEW to, NEW d \in Diffs(from, to)
  PROVE  DiffOf(d, from, to) /\ DiffOf(Sent(d), from, to)
<1>1. PICK equal \in SUBSET Unread(from, to) :
        d = [upserts |-> Changed(from, to) \ equal, value |-> to.at,
             deletes |-> Deleted(from, to), gone |-> Gone(from, to)]
  BY DEF Diffs
<1>2. Sent(d) = [upserts |-> Changed(from, to) \ equal, value |-> to.at,
                 deletes |-> {s \in Deleted(from, to) : s[1] # Context},
                 gone |-> Gone(from, to)]
  BY <1>1 DEF Sent
<1>3. d.upserts = Changed(from, to) \ equal /\ d.deletes = Deleted(from, to)
      /\ d.value = to.at /\ d.gone = Gone(from, to)
  BY <1>1
<1>4. /\ Sent(d).upserts = Changed(from, to) \ equal
      /\ Sent(d).deletes = {s \in Deleted(from, to) : s[1] # Context}
      /\ Sent(d).value = to.at /\ Sent(d).gone = Gone(from, to)
  BY <1>2
<1>5. DiffOf(d, from, to)
  BY <1>3 DEF DiffOf
<1>6. DiffOf(Sent(d), from, to)
  BY <1>4 DEF DiffOf
<1>7. QED
  BY <1>5, <1>6

(* Slot by slot: what a diff says of it, by what the two snapshots have.   *)
LEMMA SlotOfDiff ==
  ASSUME NEW from, NEW to, NEW d, DiffOf(d, from, to), NEW s \in Slots
  PROVE  /\ s \in d.upserts => /\ At(to, s) # None /\ s[1] \in to.alive
                               /\ d.value[s] = At(to, s)
         /\ s \in d.upserts => s[1] \notin d.gone
         /\ At(to, s) # None /\ s \notin d.upserts =>
              s[2] # "player" /\ At(from, s) \in {None, At(to, s)}
         /\ At(to, s) = None /\ At(from, s) # None /\ s[1] # Context =>
              s \in d.deletes \/ s[1] \in d.gone
         /\ s \in d.deletes => At(to, s) = None /\ At(from, s) # None
         /\ At(to, s) # None => s[1] \notin d.gone
BY DEF DiffOf, Changed, Unread, Deleted, Gone, At

(* GameSnapshot::ApplyDiff, slot by slot.                                  *)
LEMMA GameApplyIs ==
  ASSUME lib = "game", NEW client \in Snapshots, NoneOfTheDead(client),
         NEW from, NEW to \in Snapshots, NEW d, DiffOf(d, from, to)
  PROVE  LET v == GameApply(client, d) IN
         /\ v \in Snapshots /\ NoneOfTheDead(v)
         /\ \A s \in Slots : \/ s \in d.upserts /\ At(v, s) = At(to, s)
                             \/ /\ s \notin d.upserts
                                /\ s \in d.deletes \/ s[1] \in d.gone
                                /\ At(v, s) = None
                             \/ /\ s \notin d.upserts /\ s \notin d.deletes
                                /\ s[1] \notin d.gone
                                /\ At(v, s) = At(client, s)
<1> DEFINE v == GameApply(client, d)
<1>0. d.upserts \subseteq Slots
  BY DEF DiffOf, Changed
<1>1. v.alive = (client.alive \ d.gone) \cup {s[1] : s \in d.upserts}
  BY DEF GameApply, OwnersOf
<1>2. v.at = [s \in Slots |->
                IF s \in d.upserts THEN d.value[s]
                ELSE IF s \in d.deletes \cup SlotsOf(d.gone) THEN None
                     ELSE client.at[s]]
  BY DEF GameApply, Write, Erase
<1>3. \A s \in Slots : s \in SlotsOf(d.gone) <=> s[1] \in d.gone
  BY DEF SlotsOf
<1>4. /\ client.alive \in SUBSET Owners
      /\ client.at \in [Slots -> Values \cup {None}]
      /\ to.at \in [Slots -> Values \cup {None}]
  BY DEF Snapshots
<1>5. v \in Snapshots
  <2>1. v.alive \in SUBSET Owners
    BY <1>0, <1>1, <1>4, SlotIs
  <2>2. d.value = to.at
    BY DEF DiffOf
  <2>3. v.at \in [Slots -> Values \cup {None}]
    BY <1>2, <1>4, <2>2
  <2>4. v = [alive |-> v.alive, at |-> v.at]
    BY DEF GameApply
  <2> HIDE DEF v
  <2>5. QED
    BY <2>1, <2>3, <2>4 DEF Snapshots
<1>6. \A s \in Slots : s \in d.upserts => s[1] \in v.alive
  BY <1>1
<1>7. \A s \in Slots : client.at[s] # None => s[1] \in client.alive
  BY DEF NoneOfTheDead
<1> HIDE DEF v
<1>8. NoneOfTheDead(v)
  <2> SUFFICES ASSUME NEW s \in Slots, v.at[s] # None PROVE s[1] \in v.alive
    BY DEF NoneOfTheDead
  <2>1. QED
    BY <1>1, <1>2, <1>3, <1>6, <1>7
<1>9. \A s \in Slots : At(v, s) = v.at[s] /\ At(client, s) = client.at[s]
  BY <1>7, <1>8 DEF At, NoneOfTheDead
<1>10. \A s \in Slots : s \in d.upserts => d.value[s] = At(to, s)
  BY SlotOfDiff
<1>11. \A s \in Slots : \/ s \in d.upserts /\ At(v, s) = At(to, s)
                        \/ /\ s \notin d.upserts
                           /\ s \in d.deletes \/ s[1] \in d.gone
                           /\ At(v, s) = None
                        \/ /\ s \notin d.upserts /\ s \notin d.deletes
                           /\ s[1] \notin d.gone
                           /\ At(v, s) = At(client, s)
  BY <1>2, <1>3, <1>9, <1>10
<1>12. QED
  BY <1>5, <1>8, <1>11 DEF v

(* CommonLogicSnapshot::ApplyDiff, slot by slot.                           *)
LEMMA LogicApplyIs ==
  ASSUME lib = "logic", NEW client \in Snapshots, NoneOfTheDead(client),
         NEW from, NEW to \in Snapshots, NEW d, DiffOf(d, from, to)
  PROVE  LET v == LogicApply(client, d)
             erased == Erased(d.deletes) IN
         /\ v \in Snapshots /\ NoneOfTheDead(v)
         /\ \A s \in Slots : \/ s \in erased /\ At(v, s) = None
                             \/ s \in d.upserts /\ At(v, s) = At(to, s)
                             \/ /\ s \notin d.upserts
                                /\ s[1] \in d.gone
                                /\ At(v, s) = None
                             \/ /\ s \notin d.upserts /\ s \notin erased
                                /\ s[1] \notin d.gone
                                /\ At(v, s) = At(client, s)
<1> DEFINE v == LogicApply(client, d)
           erased == Erased(d.deletes)
<1>0. d.upserts \subseteq Slots
  BY DEF DiffOf, Changed
<1>1. v.alive = (client.alive \cup {s[1] : s \in d.upserts}) \ d.gone
  BY DEF LogicApply, OwnersOf
<1>2. v.at = [s \in Slots |->
                IF s \in erased \cup SlotsOf(d.gone) THEN None
                ELSE IF s \in d.upserts THEN d.value[s] ELSE client.at[s]]
  BY DEF LogicApply, Write, Erase
<1>3. \A s \in Slots : s \in SlotsOf(d.gone) <=> s[1] \in d.gone
  BY DEF SlotsOf
<1>4. /\ client.alive \in SUBSET Owners
      /\ client.at \in [Slots -> Values \cup {None}]
      /\ to.at \in [Slots -> Values \cup {None}]
  BY DEF Snapshots
<1>5. v \in Snapshots
  <2>1. v.alive \in SUBSET Owners
    BY <1>0, <1>1, <1>4, SlotIs
  <2>2. d.value = to.at
    BY DEF DiffOf
  <2>3. v.at \in [Slots -> Values \cup {None}]
    BY <1>2, <1>4, <2>2
  <2>4. v = [alive |-> v.alive, at |-> v.at]
    BY DEF LogicApply
  <2> HIDE DEF v
  <2>5. QED
    BY <2>1, <2>3, <2>4 DEF Snapshots
<1>6. \A s \in Slots : client.at[s] # None => s[1] \in client.alive
  BY DEF NoneOfTheDead
<1> HIDE DEF v, erased
<1>7. NoneOfTheDead(v)
  <2> SUFFICES ASSUME NEW s \in Slots, v.at[s] # None PROVE s[1] \in v.alive
    BY DEF NoneOfTheDead
  <2>1. QED
    BY <1>1, <1>2, <1>3, <1>6
<1>8. \A s \in Slots : At(v, s) = v.at[s] /\ At(client, s) = client.at[s]
  BY <1>6, <1>7 DEF At, NoneOfTheDead
<1>9. \A s \in Slots :
        s \in d.upserts => d.value[s] = At(to, s) /\ s[1] \notin d.gone
  BY SlotOfDiff
<1>10. \A s \in Slots : \/ s \in erased /\ At(v, s) = None
                        \/ s \in d.upserts /\ At(v, s) = At(to, s)
                        \/ /\ s \notin d.upserts
                           /\ s[1] \in d.gone
                           /\ At(v, s) = None
                        \/ /\ s \notin d.upserts /\ s \notin erased
                           /\ s[1] \notin d.gone
                           /\ At(v, s) = At(client, s)
  BY <1>2, <1>3, <1>8, <1>9
<1>11. QED
  BY <1>5, <1>7, <1>10 DEF v, erased

-----------------------------------------------------------------------------
(* A diff applied to the client's copy of the base gives a copy of the new *)
(* snapshot.                                                               *)
LEMMA GameCopies ==
  ASSUME lib = "game", NEW client \in Snapshots, NEW from,
         NoneOfTheDead(client), Agrees(client, from, Sound),
         NEW to \in Snapshots, NEW d, DiffOf(d, from, to)
  PROVE  LET v == GameApply(client, d) IN
         /\ v \in Snapshots /\ NoneOfTheDead(v) /\ Agrees(v, to, Sound)
<1> DEFINE v == GameApply(client, d)
<1>1. /\ v \in Snapshots /\ NoneOfTheDead(v)
      /\ \A s \in Slots : \/ s \in d.upserts /\ At(v, s) = At(to, s)
                          \/ At(v, s) = None
                          \/ /\ s \notin d.upserts /\ s \notin d.deletes
                             /\ s[1] \notin d.gone
                             /\ At(v, s) = At(client, s)
  BY GameApplyIs
<1> HIDE DEF v
<1>2. ASSUME NEW s \in Slots PROVE At(v, s) \in {None, At(to, s)}
  <2>1. CASE s \in d.upserts \/ At(v, s) = None
    BY <1>1, <2>1
  <2>2. CASE /\ s \notin d.upserts /\ s \notin d.deletes
             /\ s[1] \notin d.gone
             /\ At(v, s) = At(client, s)
    <3>1. At(client, s) \in {None, At(from, s)}
      BY DEF Agrees, Sound
    <3>2. s[1] # Context
      BY SlotIs, SnapshotDiffAssumption
    <3>3. At(from, s) # None => At(from, s) = At(to, s)
      BY <2>2, <3>2, SlotOfDiff
    <3>4. QED
      BY <2>2, <3>1, <3>3
  <2>3. QED
    BY <1>1, <2>1, <2>2
<1>3. Agrees(v, to, Sound)
  BY <1>2 DEF Agrees, Sound
<1>4. QED
  BY <1>1, <1>3 DEF v

LEMMA LogicCopies ==
  ASSUME lib = "logic", NEW client \in Snapshots, NEW from,
         NoneOfTheDead(client), Agrees(client, from, Sound),
         NEW to \in Snapshots, TimeStays(from, to), NEW d, DiffOf(d, from, to)
  PROVE  LET v == LogicApply(client, d) IN
         /\ v \in Snapshots /\ NoneOfTheDead(v) /\ Agrees(v, to, Sound)
<1> DEFINE v == LogicApply(client, d)
           erased == Erased(d.deletes)
<1>1. /\ v \in Snapshots /\ NoneOfTheDead(v)
      /\ \A s \in Slots : \/ s \in d.upserts /\ At(v, s) = At(to, s)
                          \/ At(v, s) = None
                          \/ /\ s \notin d.upserts /\ s \notin erased
                             /\ s[1] \notin d.gone
                             /\ At(v, s) = At(client, s)
  BY LogicApplyIs
<1>2. \A s \in Slots : s[2] # "location" /\ s \in d.deletes => s \in erased
  <2> SUFFICES ASSUME NEW s \in Slots, s[2] # "location", s \in d.deletes
               PROVE  s \in erased
    OBVIOUS
  <2>1. s = <<s[1], s[2]>>
    BY SlotIs
  <2>2. QED
    BY <2>1 DEF Erased
<1> HIDE DEF v, erased
<1>3. ASSUME NEW s \in Sound PROVE At(v, s) \in {None, At(to, s)}
  <2>0. s \in Slots /\ s[2] # "location"
    BY DEF Sound
  <2>1. CASE s \in d.upserts \/ At(v, s) = None
    BY <1>1, <2>0, <2>1
  <2>2. CASE /\ s \notin d.upserts /\ s \notin erased
             /\ s[1] \notin d.gone
             /\ At(v, s) = At(client, s)
    <3>1. At(client, s) \in {None, At(from, s)}
      BY DEF Agrees
    <3>2. CASE At(from, s) = None
      BY <2>2, <3>1, <3>2
    <3>3. CASE At(from, s) # None /\ At(to, s) # None
      <4>1. At(from, s) = At(to, s)
        BY <2>0, <2>2, <3>3, SlotOfDiff
      <4>2. QED
        BY <2>2, <3>1, <4>1
    <3>4. CASE At(from, s) # None /\ At(to, s) = None
      <4>1. s[1] # Context
        BY <2>0, <3>4, SlotIs, SnapshotDiffAssumption DEF TimeStays, Time
      <4>2. s \in d.deletes \/ s[1] \in d.gone
        BY <2>0, <3>4, <4>1, SlotOfDiff
      <4>3. QED
        BY <1>2, <2>0, <2>2, <4>2
    <3>5. QED
      BY <3>2, <3>3, <3>4
  <2>3. QED
    BY <1>1, <2>0, <2>1, <2>2
<1>4. Agrees(v, to, Sound)
  BY <1>3 DEF Agrees
<1>5. QED
  BY <1>1, <1>4 DEF v

LEMMA ApplyCopies ==
  ASSUME lib \in {"game", "logic"}, NEW client \in Snapshots, NEW from,
         NoneOfTheDead(client), Agrees(client, from, Sound),
         NEW to \in Snapshots, TimeStays(from, to), NEW d, DiffOf(d, from, to)
  PROVE  LET v == Apply(client, d) IN
         /\ v \in Snapshots /\ NoneOfTheDead(v) /\ Agrees(v, to, Sound)
BY GameCopies, LogicCopies DEF Apply

-----------------------------------------------------------------------------
(* The inductive invariant *)

LEMMA BlankIs ==
  ASSUME lib \in {"game", "logic"}
  PROVE  /\ Blank \in Snapshots /\ NoneOfTheDead(Blank)
         /\ \A s \in Slots : At(Blank, s) = None
<1> DEFINE f == [s \in Slots |-> None]
<1>1. f \in [Slots -> Values \cup {None}] /\ \A s \in Slots : f[s] = None
  OBVIOUS
<1>2. Blank = Snapshot(f)
  BY DEF Blank
<1> HIDE DEF f
<1>3. QED
  BY <1>1, <1>2, SnapshotIs

LEMMA DiffInvInit == Init => DiffInv
<1> SUFFICES ASSUME Init PROVE DiffInv
  OBVIOUS
<1>0. lib \in {"game", "logic"} /\ taken = Blank /\ view = Blank /\ base = Unsent
  BY DEF Init
<1>1. TypeInv
  <2>1. /\ world \in [Slots -> Values \cup {None}]
        /\ shown \in [Slots -> Values \cup {None}]
    BY DEF Init
  <2>2. base \in [server : Snapshots, client : Snapshots, acked : BOOLEAN]
    BY <1>0, BlankIs DEF Unsent
  <2>3. QED
    BY <1>0, <2>1, <2>2, BlankIs DEF TypeInv
<1>2. lib = "logic" => Time \in Slots
  BY DEF Slots, Time
<1>3. Copies(Blank, Blank)
  BY <1>0, <1>2, BlankIs DEF Copies, Agrees, TimeStays, Sound
<1>4. Copies(base.server, base.client)
  BY <1>0, <1>3 DEF Unsent
<1>5. QED
  BY <1>0, <1>1, <1>3, <1>4 DEF DiffInv

(* The next state in terms of this state's slots, which never change.      *)
CopiesNext(server, client) ==
  /\ NoneOfTheDead(client)
  /\ Agrees(client, server, Sound)
  /\ TimeStays(server, Snapshot(world'))

LEMMA DiffInvNext ==
  ASSUME lib \in {"game", "logic"}, lib' = lib,
         world' \in [Slots -> Values \cup {None}],
         taken' \in Snapshots, view' \in Snapshots,
         base' \in [server : Snapshots, client : Snapshots, acked : BOOLEAN],
         shown' \in [Slots -> Values \cup {None}],
         CopiesNext(taken', view'), CopiesNext(base'.server, base'.client)
  PROVE  DiffInv'
<1>1. Slots' = Slots /\ Sound' = Sound
  BY DEF Slots, Sound
<1>2. Snapshots' = Snapshots
  BY <1>1 DEF Snapshots
<1>3. TypeInv'
  BY <1>1, <1>2 DEF TypeInv
<1>4. Copies(taken, view)'
  BY <1>1 DEF Copies, CopiesNext, NoneOfTheDead, Agrees, TimeStays, Snapshot,
              Held, At
<1>5. Copies(base.server, base.client)'
  BY <1>1 DEF Copies, CopiesNext, NoneOfTheDead, Agrees, TimeStays, Snapshot,
              Held, At
<1>6. QED
  BY <1>3, <1>4, <1>5 DEF DiffInv

LEMMA ChangeCopies ==
  ASSUME lib \in {"game", "logic"}, world \in [Slots -> Values \cup {None}], Change
  PROVE  /\ world' \in [Slots -> Values \cup {None}]
         /\ \A server, client : Copies(server, client) => CopiesNext(server, client)
<1> DEFINE Stays ==
             /\ world' \in [Slots -> Values \cup {None}]
             /\ \A s \in Slots : s[1] = Context /\ world[s] # None
                                  => world'[s] # None
<1>1. Stays
  <2>1. ASSUME NEW s \in Slots, NEW v \in Values, world' = [world EXCEPT ![s] = v]
        PROVE  Stays
    BY <2>1, SnapshotDiffAssumption
  <2>2. ASSUME NEW s \in Slots, s[1] # Context, world' = [world EXCEPT ![s] = None]
        PROVE  Stays
    BY <2>2
  <2>3. ASSUME NEW e \in Entities,
               world' = [s \in Slots |-> IF s[1] = e THEN None ELSE world[s]]
        PROVE  Stays
    BY <2>3, SnapshotDiffAssumption
  <2>4. QED
    BY <2>1, <2>2, <2>3 DEF Change
<1>2. TimeStays(Snapshot(world), Snapshot(world'))
  <2>1. lib = "logic" => Time \in Slots /\ Time[1] = Context
    BY DEF Slots, Time
  <2>2. PICK f \in [Slots -> Values \cup {None}],
             g \in [Slots -> Values \cup {None}] : f = world /\ g = world'
    BY <1>1
  <2>3. /\ \A s \in Slots : At(Snapshot(f), s) = f[s]
        /\ \A s \in Slots : At(Snapshot(g), s) = g[s]
    BY SnapshotIs
  <2>4. TimeStays(Snapshot(f), Snapshot(g))
    BY <1>1, <2>1, <2>2, <2>3 DEF TimeStays
  <2>5. QED
    BY <2>2, <2>4
<1>3. QED
  BY <1>1, <1>2 DEF Copies, CopiesNext, TimeStays

LEMMA FullCopies ==
  ASSUME DiffInv, SendFull
  PROVE  /\ taken' \in Snapshots /\ view' \in Snapshots
         /\ CopiesNext(taken', view')
<1>1. PICK t \in Snapshots : t = Snapshot(world)
  BY SnapshotIs DEF DiffInv, TypeInv
<1>2. taken' = t /\ view' = Full(t) /\ world' = world
  BY <1>1 DEF SendFull
<1>3. /\ Full(t) \in Snapshots /\ NoneOfTheDead(Full(t))
      /\ \A s \in Slots : At(Full(t), s) = At(t, s)
  BY FullIs DEF DiffInv, TypeInv
<1>4. CopiesNext(t, Full(t))
  BY <1>1, <1>2, <1>3 DEF CopiesNext, Agrees, Sound, TimeStays
<1>5. QED
  BY <1>2, <1>3, <1>4

(* What the server takes and the client makes of it, as rigid values. *)
LEMMA SendDiffIs ==
  ASSUME DiffInv, SendDiff
  PROVE  \E t \in Snapshots, from \in Snapshots, client \in Snapshots : \E d :
           /\ t = Snapshot(world) /\ taken' = t
           /\ from = base.server /\ client = base.client
           /\ NoneOfTheDead(client) /\ Agrees(client, from, Sound)
           /\ TimeStays(from, t)
           /\ DiffOf(d, from, t) /\ view' = Apply(client, d)
<1>1. PICK t \in Snapshots : t = Snapshot(world)
  BY SnapshotIs DEF DiffInv, TypeInv
<1>2. PICK from \in Snapshots, client \in Snapshots :
        from = base.server /\ client = base.client
  BY DEF DiffInv, TypeInv
<1>3. PICK d \in Diffs(from, t) : view' = Apply(client, Sent(d))
  BY <1>1, <1>2 DEF SendDiff
<1>4. DiffOf(Sent(d), from, t)
  BY DiffsAre
<1>5. Copies(from, client)
  BY <1>2 DEF DiffInv
<1>6. QED
  BY <1>1, <1>2, <1>3, <1>4, <1>5 DEF SendDiff, Copies

LEMMA DiffCopies ==
  ASSUME DiffInv, SendDiff
  PROVE  /\ taken' \in Snapshots /\ view' \in Snapshots
         /\ CopiesNext(taken', view')
<1>0. PICK t \in Snapshots, from \in Snapshots, client \in Snapshots : \E d :
        /\ t = Snapshot(world) /\ taken' = t
        /\ NoneOfTheDead(client) /\ Agrees(client, from, Sound)
        /\ TimeStays(from, t)
        /\ DiffOf(d, from, t) /\ view' = Apply(client, d)
  BY SendDiffIs
<1>1. PICK d :
        /\ t = Snapshot(world) /\ taken' = t
        /\ NoneOfTheDead(client) /\ Agrees(client, from, Sound)
        /\ TimeStays(from, t)
        /\ DiffOf(d, from, t) /\ view' = Apply(client, d)
  BY <1>0
<1>2. /\ Apply(client, d) \in Snapshots /\ NoneOfTheDead(Apply(client, d))
      /\ Agrees(Apply(client, d), t, Sound)
  BY <1>1, ApplyCopies DEF DiffInv, TypeInv
<1>3. world' = world
  BY DEF SendDiff
<1>4. CopiesNext(t, Apply(client, d))
  BY <1>1, <1>2, <1>3 DEF CopiesNext, TimeStays
<1>5. QED
  BY <1>1, <1>2, <1>4

(* Reconciling gives a registry that is the snapshot, but for slots that   *)
(* were and remain empty.                                                  *)
LEMMA ReconcileIs ==
  ASSUME DiffInv, Reconcile
  PROVE  /\ shown' \in [Slots -> Values \cup {None}]
         /\ \A s \in Slots :
              shown'[s] # At(view, s) =>
                shown[s] = None /\ shown'[s] = None /\ s[2] # "player"
<1>0. lib = "game" /\ lib \in {"game", "logic"}
  BY DEF Reconcile
<1>1. PICK from \in Snapshots : /\ from = Snapshot(shown)
                                /\ NoneOfTheDead(from)
                                /\ \A s \in Slots : At(from, s) = shown[s]
  BY SnapshotIs DEF DiffInv, TypeInv
<1>2. PICK to \in Snapshots : /\ to = Full(view)
                              /\ \A s \in Slots : At(to, s) = At(view, s)
  BY FullIs DEF DiffInv, TypeInv
<1>3. PICK d \in Diffs(from, to) : shown' = GameApply(from, d).at
  BY <1>1, <1>2 DEF Reconcile
<1>4. DiffOf(d, from, to)
  BY DiffsAre
<1>5. PICK v \in Snapshots :
        /\ v = GameApply(from, d)
        /\ NoneOfTheDead(v)
        /\ \A s \in Slots : \/ s \in d.upserts /\ At(v, s) = At(to, s)
                            \/ /\ s \notin d.upserts
                               /\ s \in d.deletes \/ s[1] \in d.gone
                               /\ At(v, s) = None
                            \/ /\ s \notin d.upserts /\ s \notin d.deletes
                               /\ s[1] \notin d.gone
                               /\ At(v, s) = At(from, s)
  BY <1>0, <1>1, <1>4, GameApplyIs
<1>6. shown' = v.at /\ \A s \in Slots : v.at[s] = At(v, s)
  BY <1>3, <1>5 DEF NoneOfTheDead, At
<1>7. ASSUME NEW s \in Slots, At(v, s) # At(to, s)
      PROVE  At(from, s) = None /\ At(v, s) = None /\ s[2] # "player"
  <2>1. s[1] # Context
    BY <1>0, SlotIs, SnapshotDiffAssumption
  <2>2. /\ At(to, s) # None /\ s \notin d.upserts =>
             s[2] # "player" /\ At(from, s) \in {None, At(to, s)}
        /\ At(to, s) = None /\ At(from, s) # None =>
             s \in d.deletes \/ s[1] \in d.gone
        /\ s \in d.deletes => At(to, s) = None
        /\ At(to, s) # None => s[1] \notin d.gone
    BY <1>4, <2>1, SlotOfDiff
  <2>3. /\ s \notin d.upserts /\ s \notin d.deletes /\ s[1] \notin d.gone
        /\ At(v, s) = At(from, s)
    BY <1>5, <1>7, <2>2
  <2>4. QED
    BY <1>7, <2>2, <2>3
<1>8. QED
  BY <1>1, <1>2, <1>6, <1>7 DEF Snapshots

(* The inductive invariant: the client's snapshots, the acknowledged one   *)
(* included, are copies of the server's.                                   *)
THEOREM DiffInvariant == Spec => []DiffInv
<1>1. DiffInv /\ [Next]_vars => DiffInv'
  <2> SUFFICES ASSUME DiffInv, [Next]_vars PROVE DiffInv'
    OBVIOUS
  <2>0. /\ lib \in {"game", "logic"} /\ lib' = lib
        /\ world \in [Slots -> Values \cup {None}]
        /\ taken \in Snapshots /\ view \in Snapshots
        /\ base \in [server : Snapshots, client : Snapshots, acked : BOOLEAN]
        /\ shown \in [Slots -> Values \cup {None}]
        /\ Copies(taken, view) /\ Copies(base.server, base.client)
    BY DEF DiffInv, TypeInv, Next, Change, SendFull, SendDiff, Ack, Predict,
           Reconcile, vars
  <2>1. CASE Change
    <3>1. /\ CopiesNext(taken, view) /\ CopiesNext(base.server, base.client)
          /\ world' \in [Slots -> Values \cup {None}]
      BY <2>0, <2>1, ChangeCopies
    <3>2. UNCHANGED <<taken, view, base, shown>>
      BY <2>1 DEF Change
    <3>3. QED
      BY <2>0, <3>1, <3>2, DiffInvNext
  <2>2. world' = world => /\ CopiesNext(taken, view)
                          /\ CopiesNext(base.server, base.client)
    BY <2>0 DEF Copies, CopiesNext
  <2>3. CASE SendFull
    BY <2>0, <2>2, <2>3, FullCopies, DiffInvNext DEF SendFull
  <2>4. CASE SendDiff
    BY <2>0, <2>2, <2>4, DiffCopies, DiffInvNext DEF SendDiff
  <2>5. CASE Ack
    <3>1. base' = [server |-> taken, client |-> view, acked |-> TRUE]
      BY <2>5 DEF Ack
    <3>2. base' \in [server : Snapshots, client : Snapshots, acked : BOOLEAN]
      BY <2>0, <3>1
    <3>3. base'.server = taken /\ base'.client = view
      BY <3>1
    <3>4. UNCHANGED <<world, taken, view, shown>>
      BY <2>5 DEF Ack
    <3>5. CopiesNext(taken', view') /\ CopiesNext(base'.server, base'.client)
      BY <2>2, <3>3, <3>4
    <3>6. QED
      BY <2>0, <3>2, <3>4, <3>5, DiffInvNext
  <2>6. CASE Predict
    <3>1. shown' \in [Slots -> Values \cup {None}]
      BY <2>0, <2>6 DEF Predict
    <3>2. UNCHANGED <<world, taken, view, base>>
      BY <2>6 DEF Predict
    <3>3. QED
      BY <2>0, <2>2, <3>1, <3>2, DiffInvNext
  <2>7. CASE Reconcile
    <3>1. UNCHANGED <<world, taken, view, base>>
      BY <2>7 DEF Reconcile
    <3>2. QED
      BY <2>0, <2>2, <2>7, <3>1, ReconcileIs, DiffInvNext
  <2>8. CASE UNCHANGED vars
    BY <2>0, <2>2, <2>8, DiffInvNext DEF vars
  <2>9. QED
    BY <2>1, <2>3, <2>4, <2>5, <2>6, <2>7, <2>8 DEF Next
<1>2. QED
  BY <1>1, DiffInvInit, PTL DEF Spec

(* No ghosts and nothing stale, whatever was diffed and lost before        *)
(* (CreateDiff and ApplyDiff of both libraries).                           *)
THEOREM DiffsLeaveNoGhosts == Spec => []NoGhosts
<1>1. DiffInv => NoGhosts
  BY DEF DiffInv, Copies, NoGhosts
<1>2. QED
  BY <1>1, DiffInvariant, PTL

(* The types of the variables, and that the dead hold nothing.             *)
THEOREM DiffTyped == Spec => []TypeOK
<1>1. DiffInv => TypeOK
  BY DEF DiffInv, TypeInv, Copies, NoneOfTheDead, TypeOK, Held
<1>2. QED
  BY <1>1, DiffInvariant, PTL

(* A reconciled registry is the snapshot, whatever it held before, but     *)
(* that a component other than a player may be missing where the registry  *)
(* had none (reconcile_client_state).                                      *)
THEOREM DiffReconciles == Spec => ReconcileFollows
<1>1. DiffInv /\ [Next]_vars =>
        [Reconcile =>
           \A s \in Slots :
             shown'[s] # At(view, s) =>
               shown[s] = None /\ shown'[s] = None /\ s[2] # "player"]_vars
  BY ReconcileIs
<1>2. QED
  BY <1>1, DiffInvariant, PTL DEF Spec, ReconcileFollows

(* Every omission has one of the three reasons, and no player is ever      *)
(* omitted.                                                                *)
THEOREM DiffOmits == Spec => OmissionsExplained
<1> DEFINE Explained ==
      SendDiff =>
       \A s \in Slots :
         At(view', s) = None /\ At(taken', s) # None =>
           /\ s[2] # "player"
           /\ \/ At(base.server, s) = None
              \/ At(base.client, s) = None
              \/ /\ lib = "logic" /\ s[2] = "waypoints"
                 /\ At(base.server, <<s[1], "location">>) # None
<1>1. DiffInv /\ [Next]_vars => [Explained]_vars
  <2> SUFFICES ASSUME DiffInv, SendDiff, NEW s \in Slots,
                      At(view', s) = None, At(taken', s) # None
               PROVE  /\ s[2] # "player"
                      /\ \/ At(base.server, s) = None
                         \/ At(base.client, s) = None
                         \/ /\ lib = "logic" /\ s[2] = "waypoints"
                            /\ At(base.server, <<s[1], "location">>) # None
    OBVIOUS
  <2>0. PICK t \in Snapshots, from \in Snapshots, client \in Snapshots : \E d :
          /\ taken' = t /\ from = base.server /\ client = base.client
          /\ NoneOfTheDead(client)
          /\ DiffOf(d, from, t) /\ view' = Apply(client, d)
    BY SendDiffIs
  <2>1. PICK d :
          /\ taken' = t /\ from = base.server /\ client = base.client
          /\ NoneOfTheDead(client)
          /\ DiffOf(d, from, t) /\ view' = Apply(client, d)
    BY <2>0
  <2>2. PICK v : v = view'
    OBVIOUS
  <2>3. At(v, s) = None /\ At(t, s) # None
    BY <2>1, <2>2
  <2>4. /\ s \notin d.upserts =>
             s[2] # "player" /\ At(from, s) \in {None, At(t, s)}
        /\ s \notin d.deletes /\ s[1] \notin d.gone
    BY <2>1, <2>3, SlotOfDiff
  <2>5. CASE lib = "game"
    <3>1. v = GameApply(client, d)
      BY <2>1, <2>2, <2>5 DEF Apply
    <3>2. s \notin d.upserts /\ At(client, s) = None
      BY <2>1, <2>3, <2>4, <2>5, <3>1, GameApplyIs
    <3>3. s[2] # "player"
      BY <2>4, <3>2
    <3>4. QED
      BY <2>1, <3>2, <3>3
  <2>6. CASE lib = "logic"
    <3>1. v = LogicApply(client, d)
      BY <2>1, <2>2, <2>6 DEF Apply
    <3>2. s \in Erased(d.deletes) \/ At(client, s) = None
      BY <2>1, <2>3, <2>4, <2>6, <3>1, LogicApplyIs
    <3>3. s[2] # "player"
      BY <2>6, SlotIs DEF Time
    <3>4. CASE s \in Erased(d.deletes)
      <4>1. PICK r \in d.deletes :
              s = <<r[1], IF r[2] = "location" THEN "waypoints" ELSE r[2]>>
        BY <3>4 DEF Erased
      <4>2. r \in Slots
        BY <2>1 DEF DiffOf, Deleted
      <4>3. r = <<r[1], r[2]>> /\ At(from, r) # None
        BY <2>1, <4>2, SlotIs, SlotOfDiff DEF DiffInv, TypeInv
      <4>4. r[2] = "location"
        BY <2>4, <4>1, <4>3
      <4>5. s[2] = "waypoints" /\ r = <<s[1], "location">>
        BY <4>1, <4>3, <4>4
      <4>6. QED
        BY <2>1, <2>6, <4>3, <4>5
    <3>5. QED
      BY <2>1, <3>2, <3>3, <3>4
  <2>7. QED
    BY <2>5, <2>6 DEF DiffInv, TypeInv
<1>2. QED
  BY <1>1, DiffInvariant, PTL DEF Spec, OmissionsExplained

=============================================================================
