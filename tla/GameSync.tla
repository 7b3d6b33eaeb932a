------------------------------ MODULE GameSync ------------------------------
(***************************************************************************)
(* How the state of the PvE game reaches the player's client: the server's *)
(* game thread (pve_game_server.cc and its systems), the organizer through *)
(* which the network talks to it (net_event_organizer.cc), the task list   *)
(* all messages pass on the main thread, the client's snapshot cache       *)
(* (snapshot_cache.cc, pve_game_scene/ecs/utils.cc), and the connections   *)
(* of the player coming and going.                                         *)
(*                                                                         *)
(* There is one expected player (pve_game_server.cc:98-103).  A snapshot   *)
(* is named by its id and by the session it was taken in: the server       *)
(* starts a session, with id 0, whenever it begins to send, and ends it    *)
(* when the player is not connected or not ready.  The session is not in   *)
(* the messages; it is here to tell contents apart.  What a snapshot       *)
(* contains, and diffs of contents, are in SnapshotDiff.                   *)
(*                                                                         *)
(* The WebSocket keeps the order, and loses what is under way when it      *)
(* closes; but the client parses each message in a task of its own         *)
(* (ws_client_base.cc:71-81), and puts together what it sends in another,  *)
(* so that with several threads messages overtake each other.  A client    *)
(* never reconnects (pve_game_scene.cc:48): after a connection is lost     *)
(* there is another client, with an empty cache.  What the client sends is *)
(* in the task list at once; the way there only makes the client slower.   *)
(***************************************************************************)
EXTENDS Integers, SequencesExt

CONSTANTS
  FullEvery,   (* kTimeBetweenSnapshots, in frames                         *)
  DiffEvery,   (* kTimeBetweenDiffs, in frames                             *)
  CacheSize,   (* kMaxSnapshotCacheSize                                    *)
  Parsers,     (* threads of the client that parse messages: 1 on the web  *)
  MaxConns,    (* bound: connections of the player                         *)
  MaxSessions, (* bound: sessions                                          *)
  MaxSent,     (* bound: the number of a session and an id in it, added   *)
  MaxWire      (* bound: the game thread waits while so many messages are  *)
               (* in the task list or on the socket                        *)

ASSUME GameSyncAssumption ==
  /\ FullEvery \in Nat /\ DiffEvery \in Nat
  /\ CacheSize \in Nat \ {0} /\ Parsers \in Nat \ {0}
  /\ {MaxConns, MaxSessions, MaxSent, MaxWire} \subseteq Nat

VARIABLES
  stage,      (* server_stage_: "waiting" or "running"                     *)
  org,        (* the player's row in the organizer                         *)
  game,       (* where the game thread is in its frame                     *)
  net,        (* PlayerConnectionState and PlayerNetStateComponent         *)
  sent,       (* SentClientSnapshotsComponent, or NoSession                *)
  latest,     (* history: the last snapshot taken                          *)
  tasks,      (* async_task_list_                                          *)
  connected,  (* player_connections_ has an entry for the player           *)
  conns,      (* how many connections the game has accepted                *)
  wire,       (* messages on the socket of this entry                      *)
  client      (* the client at the other end                               *)

serverVars == <<stage, game, net, sent, latest>>
connVars   == <<connected, conns, wire>>
vars       == <<serverVars, org, tasks, connVars, client>>

NoSession == [next |-> 0, ids |-> {}]

Nothing == <<0, 0>>

(* A client that has just been accepted.  stored_snapshots_ maps an id to  *)
(* the session its content is from, Mixture if a diff was applied to a     *)
(* base of another session.  `born', `due', `heard', `missed' and          *)
(* `refused' are history: the last session begun before its connection and *)
(* the one the frame under way was about to begin, the sessions it has     *)
(* messages of, whether it has discarded one, and the diffs it had no base *)
(* for.                                                                    *)
Mixture == 0

(* in this frame a session begins *)
Beginning ==
  /\ game = "send" /\ net.healthy /\ net.ready /\ sent.next = 0
  /\ net.acked = 0 \/ net.full > FullEvery \/ net.diff > DiffEvery

NewClient == [stage |-> "preload", bases |-> {}, stored |-> <<>>,
              shown |-> Nothing, born |-> latest[1],
              due |-> IF Beginning THEN latest[1] + 1 ELSE 0,
              heard |-> {}, missed |-> FALSE, refused |-> {}]

Later(i, j) == IF i < j THEN j ELSE i
Least(S)    == CHOOSE i \in S : \A j \in S : i <= j

Init ==
  /\ stage = "waiting"
  /\ org = [row |-> FALSE, state |-> "Unknown", ready |-> FALSE, acked |-> 0,
            paused |-> FALSE]
  /\ game = "acks"
  /\ net = [healthy |-> FALSE, ready |-> FALSE, acked |-> 0,
            full |-> FullEvery + 1, diff |-> DiffEvery + 1]
  /\ sent = NoSession
  /\ latest = Nothing
  /\ tasks = <<>>
  /\ connected = FALSE
  /\ conns = 0
  /\ wire = <<>>
  /\ client = NewClient

-----------------------------------------------------------------------------
(* The game thread: update(), in the three steps between which other       *)
(* threads change what it reads.  net.full and net.diff are the frames     *)
(* since lastSnapshotSentTime and lastDiffSentTime.                        *)

OneMore(n, every) == IF n > every THEN n ELSE n + 1

(* the clock, and update_running's look at the acks: the highest the       *)
(* player has ever sent                                                    *)
FrameAcks ==
  /\ game = "acks"
  /\ net' = [net EXCEPT !.full = OneMore(@, FullEvery),
                        !.diff = OneMore(@, DiffEvery),
                        !.acked = IF stage = "running"
                                  THEN Later(@, org.acked) ELSE @]
  /\ game' = "state"
  /\ UNCHANGED <<stage, sent, latest, org, tasks, connVars, client>>

(* NetStateUpdateSystem.  The times of a player who is not connected are   *)
(* set to before the clock's start: the server is taken to be up for       *)
(* longer than both intervals.                                             *)
FrameState ==
  /\ game = "state"
  /\ net' = IF org.state = "Connected"
            THEN [net EXCEPT !.healthy = TRUE, !.ready = org.ready]
            ELSE [healthy |-> FALSE, ready |-> org.ready, acked |-> 0,
                  full |-> FullEvery + 1, diff |-> DiffEvery + 1]
  /\ game' = "send"
  /\ UNCHANGED <<stage, sent, latest, org, tasks, connVars, client>>

(* mutant: the component is emplaced anew when nothing is due              *)
SendNotYetAnew ==
  /\ net.acked # 0 /\ net.full <= FullEvery
  /\ net.diff <= DiffEvery
  /\ sent' = NoSession
  /\ UNCHANGED <<net, latest, tasks>>

(* mutant: nothing is dropped                                              *)
KeptAll == sent.ids

(* snapshots that are older than the last ack are dropped *)
Kept == {i \in sent.ids : i >= net.acked}

Taken == <<IF sent.next = 0 THEN latest[1] + 1 ELSE latest[1], sent.next>>

Under == Len(tasks) + Len(wire)

(* send_full_snapshot and send_diff *)
Take(msg, ids) ==
  /\ Under < MaxWire
  /\ Taken[1] <= MaxSessions /\ Taken[1] + Taken[2] <= MaxSent
  /\ sent' = [next |-> sent.next + 1, ids |-> ids \cup {sent.next}]
  /\ latest' = Taken
  /\ tasks' = Append(tasks, msg)

SendFull(ids) == Take([kind |-> "full", of |-> Taken], ids)

SendDiff(ids) ==
  Take([kind |-> "diff", of |-> Taken, base |-> Least(ids)], ids)

(* QueueClientMessagesSystem, and flush_messages *)
SendNothing ==
  /\ ~net.healthy \/ ~net.ready
  /\ sent' = NoSession
  /\ UNCHANGED <<net, latest, tasks>>

SendPeriodicFull ==
  /\ net.acked = 0 \/ net.full > FullEvery
  /\ SendFull(Kept)
  /\ net' = [net EXCEPT !.full = 0]

SendDiffOrFull ==
  /\ net.acked # 0 /\ net.full <= FullEvery
  /\ net.diff > DiffEvery
  /\ IF Kept = {}
     THEN SendFull({}) /\ net' = [net EXCEPT !.full = 0, !.diff = 0]
     ELSE SendDiff(Kept) /\ net' = [net EXCEPT !.diff = 0]

SendNotYet ==
  /\ net.acked # 0 /\ net.full <= FullEvery
  /\ net.diff <= DiffEvery
  /\ sent' = [sent EXCEPT !.ids = Kept]
  /\ UNCHANGED <<net, latest, tasks>>

(* ... and, while waiting for players, the start of the game when the one  *)
(* player is ready by now                                                  *)
FrameSend ==
  /\ game = "send"
  /\ \/ SendNothing
     \/ /\ net.healthy /\ net.ready
        /\ SendPeriodicFull \/ SendDiffOrFull \/ SendNotYet
  /\ stage' = IF org.ready THEN "running" ELSE stage
  /\ game' = "acks"
  /\ UNCHANGED <<org, connVars, client>>

-----------------------------------------------------------------------------
(* NetEventOrganizer: what is entered in the row of the player, if there   *)
(* is one.  org.paused is history: since the state was last set, a player  *)
(* that was ready has been entered as not ready.                           *)

AddPlayer == org' = [org EXCEPT !.row = TRUE]

SetNetServerState(state) ==
  org' = IF org.row
         THEN [org EXCEPT !.state = state, !.paused = FALSE,
                          !.ready = @ /\ state # "Disconnected"]
         ELSE org

SnapshotReceived(id) ==
  org' = IF org.row THEN [org EXCEPT !.acked = Later(@, id)] ELSE org

HandlePing(ready) ==
  org' = IF org.row
         THEN [org EXCEPT !.ready = ready, !.paused = @ \/ (org.ready /\ ~ready)]
         ELSE org

-----------------------------------------------------------------------------
(* The main thread: a connection presents the player's token, which the    *)
(* game accepts in any case once it has a row; the rest of the handshake   *)
(* is a task.  A message goes to the connection the player has when its    *)
(* task runs.                                                              *)

TryConnect ==
  /\ conns < MaxConns
  /\ conns' = conns + 1
  /\ AddPlayer
  /\ tasks' = Append(tasks, [kind |-> "confirm"])
  /\ UNCHANGED <<serverVars, connected, wire, client>>

TaskReady(kinds) ==
  /\ tasks # <<>>
  /\ Head(tasks).kind \in kinds
  /\ tasks' = Tail(tasks)

(* the connection replaces another one the player may still have *)
Confirm ==
  /\ TaskReady({"confirm"})
  /\ connected' = TRUE
  /\ wire' = <<>>
  /\ client' = NewClient
  /\ SetNetServerState("Connected")
  /\ UNCHANGED <<serverVars, conns>>

SendMessage ==
  /\ TaskReady({"full", "diff"})
  /\ wire' = IF connected THEN Append(wire, Head(tasks)) ELSE wire
  /\ UNCHANGED <<serverVars, org, connected, conns, client>>

(* recv_message, whichever connection it is from: an acknowledgement ...    *)
RecvAck ==
  /\ TaskReady({"ack"})
  /\ SnapshotReceived(Head(tasks).id)
  /\ UNCHANGED <<serverVars, connVars, client>>

(* ... or a ping *)
RecvPing ==
  /\ TaskReady({"ping"})
  /\ HandlePing(Head(tasks).ready)
  /\ UNCHANGED <<serverVars, connVars, client>>

(* The listener thread: the connection of the player is closed, and        *)
(* set_net_server_state told so.                                           *)
Disconnect ==
  /\ connected
  /\ connected' = FALSE
  /\ wire' = <<>>
  /\ client' = NewClient
  /\ SetNetServerState("Disconnected")
  /\ UNCHANGED <<serverVars, tasks, conns>>

-----------------------------------------------------------------------------
(* The client *)

ClientStage(from, to) ==
  /\ connected
  /\ client.stage = from
  /\ client' = [client EXCEPT !.stage = to]
  /\ UNCHANGED <<serverVars, org, tasks, connVars>>

(* on_preload_finish_, and the end of loading, when another thread may be  *)
(* late with the last ping before ("late"; at most one ping is)            *)
PreloadDone == ClientStage("preload", "loading")

LoadDone == ClientStage("loading", IF Parsers > 1 THEN "late" ELSE "running")

SendPing(ready) ==
  LET ping == [kind |-> "ping", ready |-> ready] IN
  /\ connected
  /\ ~Contains(tasks, ping)
  /\ tasks' = Append(tasks, ping)
  /\ UNCHANGED <<serverVars, org, connVars>>

(* update_server_ping: the client is ready when everything is loaded.  One *)
(* ping of a kind in the task list is enough.                              *)
Ping ==
  /\ SendPing(client.stage \in {"running", "late"})
  /\ UNCHANGED client

LatePing ==
  /\ client.stage = "late"
  /\ SendPing(FALSE)
  /\ client' = [client EXCEPT !.stage = "running"]

(* std::map::emplace keeps what it finds *)
Emplace(stored, id, s) ==
  [i \in DOMAIN stored \cup {id} |-> IF i \in DOMAIN stored THEN stored[i]
                                     ELSE s]

(* store_server_snapshot: what is older than the oldest full snapshot kept *)
(* goes, but for every second one, which the loop skips                    *)
Purged(stored, oldest) ==
  [i \in {i \in DOMAIN stored :
            \/ i >= oldest
            \/ Cardinality({j \in DOMAIN stored : j < i}) % 2 = 1}
     |-> stored[i]]

(* mutant: a full cache takes no more                                      *)
StoreFullUntil(c, s, id) ==
  IF Cardinality(c.bases) = CacheSize THEN c
  ELSE [c EXCEPT !.bases = @ \cup {id}, !.stored = Emplace(@, id, s)]

StoreFull(c, s, id) ==
  IF c.bases # {} /\ (id <= Least(c.bases) \/ id \in c.bases)
  THEN c
  ELSE LET full  == Cardinality(c.bases) = CacheSize
           bases == {id} \cup IF full THEN c.bases \ {Least(c.bases)}
                              ELSE c.bases
       IN [c EXCEPT !.bases = bases,
                    !.stored = Emplace(Purged(@, Least(bases)), id, s)]

(* assemble_diff_and_store_snapshot *)
StoreDiff(c, s, id, base) ==
  [c EXCEPT !.stored = Emplace(@, id, IF @[base] = s THEN s ELSE Mixture)]

Before(a, b) == a[1] < b[1] \/ (a[1] = b[1] /\ a[2] < b[2])

(* mutant: the snapshot that came last is shown                            *)
ShowLast(c, s, id) == [c EXCEPT !.shown = <<s, id>>]

(* register_server_snapshot: one that is older than another is discarded   *)
Show(c, s, id) ==
  [c EXCEPT !.shown = IF Before(@, <<s, id>>) THEN <<s, id>> ELSE @]

(* queue_client_message and flush_message_queue.  An ack may be lost: of a *)
(* queue longer than 26, Vector::trim_front keeps the front, not the rest. *)
Acknowledge(id) ==
  \/ tasks' = Append(tasks, [kind |-> "ack", id |-> id])
  \/ UNCHANGED tasks

(* the message at i: those before it are with other threads *)
Receive(i, kind) ==
  /\ i \in 1..Parsers /\ i <= Len(wire)
  /\ wire[i].kind = kind
  /\ wire' = RemoveAt(wire, i)
  /\ UNCHANGED <<serverVars, org, connected, conns>>

Heard(i) == [client EXCEPT !.heard = @ \cup {wire[i].of[1]}]

(* messages are discarded while preloading *)
ReceiveEarly(i) ==
  /\ client.stage = "preload"
  /\ Receive(i, "full") \/ Receive(i, "diff")
  /\ client' = [Heard(i) EXCEPT !.missed = TRUE]
  /\ UNCHANGED tasks

(* cache_snapshot_full: acknowledged and shown, stored or not *)
ReceiveFull(i) ==
  /\ client.stage # "preload"
  /\ Receive(i, "full")
  /\ LET s == wire[i].of[1]  id == wire[i].of[2] IN
     /\ client' = Show(StoreFull(Heard(i), s, id), s, id)
     /\ Acknowledge(id)

(* cache_snapshot_diff *)
ReceiveDiff(i) ==
  /\ client.stage # "preload"
  /\ Receive(i, "diff")
  /\ LET m == wire[i]  id == m.of[2]
         c == StoreDiff(Heard(i), m.of[1], id, m.base) IN
     /\ m.base \in DOMAIN client.stored
     /\ client' = Show(c, c.stored[id], id)
     /\ Acknowledge(id)

(* a diff of a base the cache does not have is ignored *)
RefuseDiff(i) ==
  /\ client.stage # "preload"
  /\ Receive(i, "diff")
  /\ wire[i].base \notin DOMAIN client.stored
  /\ client' = [Heard(i) EXCEPT !.refused = @ \cup {wire[i].of}]
  /\ UNCHANGED tasks

-----------------------------------------------------------------------------

Next ==
  \/ FrameAcks \/ FrameState \/ FrameSend
  \/ TryConnect \/ Confirm \/ SendMessage \/ RecvAck \/ RecvPing
  \/ Disconnect
  \/ PreloadDone \/ LoadDone \/ Ping \/ LatePing
  \/ \E i \in 1..Parsers :
       ReceiveEarly(i) \/ ReceiveFull(i) \/ ReceiveDiff(i) \/ RefuseDiff(i)

Spec == Init /\ [][Next]_vars

-----------------------------------------------------------------------------

Messages ==
  [kind : {"full"}, of : Nat \X Nat]
    \cup [kind : {"diff"}, of : Nat \X Nat, base : Nat]

(* The types of the variables. *)
TypeOK ==
  /\ stage \in {"waiting", "running"}
  /\ org \in [row : BOOLEAN, state : {"Unknown", "Connected", "Disconnected"},
              ready : BOOLEAN, acked : Nat, paused : BOOLEAN]
  /\ game \in {"acks", "state", "send"}
  /\ net \in [healthy : BOOLEAN, ready : BOOLEAN, acked : Nat,
              full : 0..FullEvery + 1, diff : 0..DiffEvery + 1]
  /\ sent.next \in Nat /\ sent.ids \in SUBSET Nat
  /\ latest \in Nat \X Nat
  /\ connected \in BOOLEAN
  /\ \A i \in DOMAIN wire : wire[i] \in Messages
  /\ client.bases \in SUBSET Nat
  /\ client.shown \in Nat \X Nat

(* Ids start over with a session and the cache keeps what it has, so the   *)
(* contents of two sessions mix in a client that hears of both.  On one    *)
(* connection the server keeps to one session: a client hears of another   *)
(* one only if that had begun before its connection, or in the frame in    *)
(* which it was entered (pve_game_server.cc:258-261 sends what is under    *)
(* way to whichever connection the player has), or if a ping took the      *)
(* ready flag back (net_event_organizer.cc:213), as a late one does.       *)
Confused == \E s, t \in client.heard : s # t

TwoSessionsExplained ==
  Confused => \/ \E s \in client.heard : s <= client.born \/ s = client.due
              \/ org.paused

(* The base of a diff, and whether a client has left an id behind.         *)
BaseOf(m) == <<m.of[1], m.base>>

Dropped(c, id) == c.bases # {} /\ \A b \in c.bases : id < b

(* A diff is ignored for one of these reasons: its session is older than   *)
(* the connection (the server did not notice that the client is another    *)
(* one), the client discarded a message while preloading, more full        *)
(* snapshots than the cache holds were under way with the ack of the base, *)
(* the diff has overtaken its base, or the base is itself a diff that was  *)
(* ignored (in the last two the server takes the base to be acknowledged,  *)
(* since the last ack outlives the session).  Without these a client is    *)
(* never stuck until the next full snapshot.                               *)
RefusalExplained ==
  [][\A i \in 1..Parsers : RefuseDiff(i) =>
       \/ wire[i].of[1] <= client.born
       \/ client.missed
       \/ Dropped(client, wire[i].base)
       \/ \E j \in 1..i - 1 : wire[j].of = BaseOf(wire[i])
       \/ BaseOf(wire[i]) \in client.refused]_vars

(* The base of a diff has exactly the id of the last ack the game thread   *)
(* has seen, neither an older one nor one that is still to be              *)
(* acknowledged, and it is a snapshot of the session under way that the    *)
(* server still holds.  The ack may be of an earlier session: whether the  *)
(* client has this base is what RefusalExplained is about.                 *)
BaseIsLastAck ==
  [][FrameSend /\ tasks' # tasks /\ Last(tasks').kind = "diff"
       => /\ Last(tasks').base = net.acked
          /\ net.acked \in sent.ids
          /\ latest'[1] = latest[1] /\ net.acked < latest'[2]]_vars

(* A client that has heard of one session only shows states the server had *)
(* in it, and none after a later one.                                      *)
Shown == INSTANCE Replica
           WITH server <- latest,
                shown <- IF Confused THEN Nothing ELSE client.shown

ShowsServerStates == Shown!Spec
=============================================================================
