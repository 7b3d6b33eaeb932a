------------------------------ MODULE WsServer ------------------------------
(***************************************************************************)
(* The game server's WsServer (server/net/ws_server.h, .cc): how a         *)
(* WebSocket connection becomes the connection of a player.                *)
(*                                                                         *)
(* Three threads meet here.  The listener thread runs on_open, on_message  *)
(* and on_close; the main thread runs the tasks of async_task_list_        *)
(* (main.cc:128-133); the EventScheduler's thread posts timeouts to that   *)
(* list.  Each of the three maps has a mutex of its own and no two are     *)
(* held together, so a locked section is one step.                         *)
(*                                                                         *)
(* A timer that has fired may run between any two other tasks: between the *)
(* pop and the push of a timeout the scheduler's thread can be delayed for *)
(* any time.  The token exchanger and the game's verification answer when  *)
(* they like, or never.  Messages of a confirmed connection are handed to  *)
(* the game and change nothing here.                                       *)
(***************************************************************************)
EXTENDS Integers, SequencesExt

CONSTANTS
  Hdls,         (* connections                                             *)
  Players,
  PlayerOf,     (* the player whose token a connection presents            *)
  MaxRequests,  (* bound: messages a connection sends before it is         *)
                (* confirmed; the clients send one                         *)
  None

ASSUME WsServerAssumption ==
  /\ PlayerOf \in [Hdls -> Players]
  /\ MaxRequests \in Nat \ {0}
  /\ None \notin Hdls

VARIABLES
  conn,       (* the WebSocket: "none", "open", "closing" (on_close has    *)
              (* not been called), "closed"                                *)
  sent,       (* messages received from each connection                    *)
  newConns,   (* keys of new_connections_                                  *)
  pending,    (* pending_confirmation_connections_: which of its timers    *)
              (* a connection's entry names, 0 for no entry                *)
  players,    (* player_connections_, from the player's side               *)
  netState,   (* what on_connection_state_change_cb_ was last told         *)
  timer,      (* the EventScheduler's timers, see TimerContract            *)
  stopped,
  tasks,      (* async_task_list_                                          *)
  asked,      (* questions the exchanger and the game have not answered    *)
  main,       (* the task the main thread is in the middle of, and where   *)
  listener,   (* the connection the listener thread is busy with, likewise *)
  confirmed,  (* history: connections that were entered in players         *)
  kicked,     (* history: players removed by kick_player                   *)
  crashed     (* an exception ended the main loop                          *)

(* Each connection has an open timeout, 0, and one timeout per request. *)
Timers == Hdls \X (0..MaxRequests)
INSTANCE TimerContract

timerVar == <<timer, stopped>>
maps     == <<newConns, pending, players>>
history  == <<confirmed, kicked>>
vars     == <<conn, sent, maps, netState, timerVar, tasks, asked, main,
              listener, history, crashed>>

Idle == [at |-> "idle"]

(* Where the threads are; all ends with the main loop. *)
ListenerAt(where) == ~crashed /\ listener.at = where
MainAt(where)     == ~crashed /\ main.at = where

-----------------------------------------------------------------------------

Init ==
  /\ conn = [h \in Hdls |-> "none"]
  /\ sent = [h \in Hdls |-> 0]
  /\ newConns = {}
  /\ pending = [h \in Hdls |-> 0]
  /\ players = [p \in Players |-> None]
  /\ netState = [p \in Players |-> "Unknown"]
  /\ TimersInit
  /\ tasks = <<>>
  /\ asked = {}
  /\ main = Idle
  /\ listener = Idle
  /\ confirmed = {}
  /\ kicked = {}
  /\ crashed = FALSE

(* EventScheduler::cancel_task: too late for a timer that has fired *)
CancelTimer(t) ==
  IF timer[t] = "armed" THEN Cancel(t) ELSE UNCHANGED timerVar

(* server_.close without an error_code: it throws when the connection is   *)
(* not open any more, and nothing catches that in the main loop            *)
CloseOrThrow(h) ==
  /\ conn' = IF conn[h] = "open" THEN [conn EXCEPT ![h] = "closing"] ELSE conn
  /\ crashed' = (conn[h] # "open")

-----------------------------------------------------------------------------
(* The listener thread *)

(* on_open *)
OnOpen(h) ==
  /\ ListenerAt("idle")
  /\ conn[h] = "none"
  /\ conn' = [conn EXCEPT ![h] = "open"]
  /\ newConns' = newConns \cup {h}
  /\ Arm(<<h, 0>>)
  /\ UNCHANGED <<sent, pending, players, netState, tasks, asked, main,
                 listener, history, crashed>>

(* on_message of a connection that is not in player_connections_ *)
OnMessage(h) ==
  /\ ListenerAt("idle")
  /\ conn[h] = "open"
  /\ h \notin {players[p] : p \in Players}
  /\ sent[h] < MaxRequests
  /\ sent' = [sent EXCEPT ![h] = @ + 1]
  /\ listener' = [at |-> "message", hdl |-> h]
  /\ UNCHANGED <<conn, maps, netState, timerVar, tasks, asked, main, history,
                 crashed>>

(* ... and the look into new_connections_: a request is left to the main   *)
(* thread, well-formed or not; anything else is dropped                    *)
OnMessageNew ==
  /\ ListenerAt("message")
  /\ LET h == listener.hdl IN
     IF h \in newConns
     THEN \E good \in BOOLEAN :
            tasks' = Append(tasks, [step |-> "request", hdl |-> h,
                                    n |-> sent[h], ok |-> good])
     ELSE UNCHANGED tasks
  /\ listener' = Idle
  /\ UNCHANGED <<conn, sent, maps, netState, timerVar, asked, main, history,
                 crashed>>

(* mutant: the open timeout is not cancelled                               *)
OnCloseNewOnly(h) ==
  /\ ListenerAt("idle")
  /\ conn[h] = "closing"
  /\ newConns' = newConns \ {h}
  /\ listener' = [at |-> "close pending", hdl |-> h]
  /\ UNCHANGED <<conn, sent, pending, players, netState, timerVar, tasks,
                 asked, main, history, crashed>>

(* on_close, one map after the other *)
OnCloseNew(h) ==
  /\ ListenerAt("idle")
  /\ conn[h] = "closing"
  /\ IF h \in newConns THEN CancelTimer(<<h, 0>>) ELSE UNCHANGED timerVar
  /\ newConns' = newConns \ {h}
  /\ listener' = [at |-> "close pending", hdl |-> h]
  /\ UNCHANGED <<conn, sent, pending, players, netState, tasks, asked, main,
                 history, crashed>>

OnClosePending ==
  /\ ListenerAt("close pending")
  /\ LET h == listener.hdl IN
     /\ IF pending[h] # 0 THEN CancelTimer(<<h, pending[h]>>)
        ELSE UNCHANGED timerVar
     /\ pending' = [pending EXCEPT ![h] = 0]
     /\ listener' = [at |-> "close player", hdl |-> h]
  /\ UNCHANGED <<conn, sent, newConns, players, netState, tasks, asked, main,
                 history, crashed>>

(* mutant: the player is looked up by token, not by connection             *)
OnClosePlayerByToken ==
  /\ ListenerAt("close player")
  /\ LET h == listener.hdl  p == PlayerOf[h] IN
     /\ players' = [players EXCEPT ![p] = IF @ = h THEN None ELSE @]
     /\ netState' = [netState EXCEPT ![p] = "Disconnected"]
     /\ conn' = [conn EXCEPT ![h] = "closed"]
  /\ listener' = Idle
  /\ UNCHANGED <<sent, newConns, pending, timerVar, tasks, asked, main,
                 history, crashed>>

(* the player is told to be disconnected only if this is its connection *)
OnClosePlayer ==
  /\ ListenerAt("close player")
  /\ LET h == listener.hdl
         Its(p) == players[p] = h
     IN
     /\ players' = [p \in Players |-> IF Its(p) THEN None ELSE players[p]]
     /\ netState' = [p \in Players |-> IF Its(p) THEN "Disconnected"
                                       ELSE netState[p]]
     /\ conn' = [conn EXCEPT ![h] = "closed"]
  /\ listener' = Idle
  /\ UNCHANGED <<sent, newConns, pending, timerVar, tasks, asked, main,
                 history, crashed>>

-----------------------------------------------------------------------------
(* The main thread *)

TaskReady(step) ==
  /\ MainAt("idle")
  /\ tasks # <<>>
  /\ Head(tasks).step = step
  /\ tasks' = Tail(tasks)

Turn(at, task) == main' = [at |-> at, task |-> task]

(* the task of a request: parse it and take the connection out of          *)
(* new_connections_; an unusable one changes nothing ...                   *)
Request ==
  /\ TaskReady("request")
  /\ LET r == Head(tasks)  h == r.hdl IN
     IF r.ok
     THEN /\ IF h \in newConns THEN CancelTimer(<<h, 0>>)
             ELSE UNCHANGED timerVar
          /\ newConns' = newConns \ {h}
          /\ Turn("pend", r)
     ELSE UNCHANGED <<timerVar, newConns, main>>
  /\ UNCHANGED <<conn, sent, pending, players, netState, asked, listener,
                 history, crashed>>

(* mutant: no timeout for a connection that waits for confirmation         *)
PendUntimed ==
  /\ MainAt("pend")
  /\ LET h == main.task.hdl  n == main.task.n IN
     /\ pending' = [pending EXCEPT ![h] = IF @ = 0 THEN n ELSE @]
     /\ asked' = asked \cup {[step |-> "exchanged", hdl |-> h, n |-> n]}
  /\ main' = Idle
  /\ UNCHANGED <<conn, sent, newConns, players, netState, timerVar, tasks,
                 listener, history, crashed>>

(* ... then enter it in pending_confirmation_connections_, with a timeout, *)
(* and ask the token exchanger.  emplace keeps an entry that is there.     *)
Pend ==
  /\ MainAt("pend")
  /\ LET h == main.task.hdl  n == main.task.n IN
     /\ Arm(<<h, n>>)
     /\ pending' = [pending EXCEPT ![h] = IF @ = 0 THEN n ELSE @]
     /\ asked' = asked \cup {[step |-> "exchanged", hdl |-> h, n |-> n]}
  /\ main' = Idle
  /\ UNCHANGED <<conn, sent, newConns, players, netState, tasks, listener,
                 history, crashed>>

(* The exchanger or the game answers, and the promise's callback becomes a *)
(* task.                                                                   *)
Answer(q) ==
  /\ ~crashed
  /\ q \in asked
  /\ asked' = asked \ {q}
  /\ \E yes \in BOOLEAN :
       tasks' = Append(tasks, [step |-> q.step, hdl |-> q.hdl, n |-> q.n,
                               ok |-> yes])
  /\ UNCHANGED <<conn, sent, maps, netState, timerVar, main, listener,
                 history, crashed>>

(* the exchanger's answer: a rejected token is left to the timeout *)
Exchanged ==
  /\ TaskReady("exchanged")
  /\ LET r == Head(tasks) IN
     asked' = IF r.ok
              THEN asked \cup {[step |-> "verified", hdl |-> r.hdl, n |-> r.n]}
              ELSE asked
  /\ UNCHANGED <<conn, sent, maps, netState, timerVar, main, listener,
                 history, crashed>>

(* mutant: the entry and its timeout stay                                  *)
VerifiedKept ==
  /\ TaskReady("verified")
  /\ Turn("confirm", Head(tasks))
  /\ UNCHANGED <<conn, sent, maps, netState, timerVar, asked, listener,
                 history, crashed>>

(* the game's answer: end the pending state ... *)
Verified ==
  /\ TaskReady("verified")
  /\ LET h == Head(tasks).hdl IN
     /\ IF pending[h] # 0 THEN CancelTimer(<<h, pending[h]>>)
        ELSE UNCHANGED timerVar
     /\ pending' = [pending EXCEPT ![h] = 0]
  /\ Turn("confirm", Head(tasks))
  /\ UNCHANGED <<conn, sent, newConns, players, netState, asked, listener,
                 history, crashed>>

(* Bimap::insert_or_update *)
InsertOrUpdate(p, h) ==
  players' = [q \in Players |-> IF q = p THEN h
                                ELSE IF players[q] = h THEN None
                                ELSE players[q]]

(* ... and close the connection, or enter it in player_connections_ and    *)
(* tell the game, whatever has become of the connection meanwhile          *)
Confirm ==
  /\ MainAt("confirm")
  /\ LET h == main.task.hdl  p == PlayerOf[h] IN
     \/ /\ ~main.task.ok
        /\ CloseOrThrow(h)
        /\ UNCHANGED <<players, netState, confirmed>>
     \/ /\ main.task.ok
        /\ InsertOrUpdate(p, h)
        /\ netState' = [netState EXCEPT ![p] = "Connected"]
        /\ confirmed' = confirmed \cup {h}
        /\ UNCHANGED <<conn, crashed>>
  /\ main' = Idle
  /\ UNCHANGED <<sent, newConns, pending, timerVar, tasks, asked, listener,
                 kicked>>

(* the task of the open timeout *)
OpenTimeout(h) ==
  /\ MainAt("idle")
  /\ Run(<<h, 0>>)
  /\ IF h \in newConns
     THEN CloseOrThrow(h) /\ newConns' = newConns \ {h}
     ELSE UNCHANGED <<conn, newConns, crashed>>
  /\ UNCHANGED <<sent, pending, players, netState, tasks, asked, main,
                 listener, history>>

(* mutant: the timeout does not look whether the connection still waits    *)
PendingTimeoutAlways(h, n) ==
  /\ MainAt("idle")
  /\ Run(<<h, n>>)
  /\ CloseOrThrow(h)
  /\ pending' = [pending EXCEPT ![h] = 0]
  /\ UNCHANGED <<sent, newConns, players, netState, tasks, asked, main,
                 listener, history>>

(* the task of a pending timeout *)
PendingTimeout(h, n) ==
  /\ MainAt("idle")
  /\ Run(<<h, n>>)
  /\ IF pending[h] # 0
     THEN CloseOrThrow(h) /\ pending' = [pending EXCEPT ![h] = 0]
     ELSE UNCHANGED <<conn, pending, crashed>>
  /\ UNCHANGED <<sent, newConns, players, netState, tasks, asked, main,
                 listener, history>>

-----------------------------------------------------------------------------
(* Others *)

(* kick_player: with an error_code, a failed close changes nothing *)
KickPlayer(p) ==
  /\ ~crashed
  /\ players[p] # None
  /\ IF conn[players[p]] = "open"
     THEN /\ conn' = [conn EXCEPT ![players[p]] = "closing"]
          /\ players' = [players EXCEPT ![p] = None]
          /\ kicked' = kicked \cup {p}
     ELSE UNCHANGED <<conn, players, kicked>>
  /\ UNCHANGED <<sent, newConns, pending, netState, timerVar, tasks, asked,
                 main, listener, confirmed, crashed>>

(* the client or the network ends a connection *)
PeerCloses(h) ==
  /\ ~crashed
  /\ conn[h] = "open"
  /\ conn' = [conn EXCEPT ![h] = "closing"]
  /\ UNCHANGED <<sent, maps, netState, timerVar, tasks, asked, main, listener,
                 history, crashed>>

(* the EventScheduler's thread *)
FireTimer(t) ==
  /\ ~crashed
  /\ Fire(t)
  /\ UNCHANGED <<conn, sent, maps, netState, tasks, asked, main, listener,
                 history, crashed>>

-----------------------------------------------------------------------------

ListenerStep ==
  \/ OnMessageNew \/ OnClosePending \/ OnClosePlayer
  \/ \E h \in Hdls : OnCloseNew(h)

MainStep ==
  \/ Request \/ Pend \/ Exchanged \/ Verified \/ Confirm
  \/ \E h \in Hdls : OpenTimeout(h)
  \/ \E h \in Hdls : \E n \in 1..MaxRequests : PendingTimeout(h, n)

Environment ==
  \/ \E h \in Hdls : OnOpen(h) \/ OnMessage(h) \/ PeerCloses(h)
  \/ \E q \in asked : Answer(q)
  \/ \E p \in Players : KickPlayer(p)

Finished ==
  /\ crashed \/ \A h \in Hdls : conn[h] = "closed"
  /\ UNCHANGED vars

Next ==
  \/ ListenerStep \/ MainStep \/ Environment
  \/ \E t \in Timers : FireTimer(t)
  \/ Finished

Spec == Init /\ [][Next]_vars

(* Both threads run, and the scheduler fires its timers (TimerContract).   *)
(* Nobody has to send, answer or close.                                    *)
Fairness ==
  /\ WF_vars(ListenerStep)
  /\ WF_vars(MainStep)
  /\ \A t \in Timers : WF_vars(FireTimer(t))

LiveSpec == Spec /\ Fairness

-----------------------------------------------------------------------------
(* Properties *)

States == {"none", "open", "closing", "closed"}

(* Types; a connection belongs to no player but that of its token, and an  *)
(* entry that waits has a timer that has not run.                          *)
TypeOK ==
  /\ conn \in [Hdls -> States]
  /\ sent \in [Hdls -> 0..MaxRequests]
  /\ newConns \subseteq {h \in Hdls : conn[h] # "none"}
  /\ pending \in [Hdls -> 0..MaxRequests]
  /\ players \in [Players -> Hdls \cup {None}]
  /\ \A p \in Players : players[p] # None => PlayerOf[players[p]] = p
  /\ netState \in [Players -> {"Unknown", "Connected", "Disconnected"}]
  /\ timer \in [Timers -> {"idle", "armed", "fired", "run", "cancelled"}]
  /\ \A h \in newConns : timer[<<h, 0>>] \in {"armed", "fired"}
  /\ \A h \in Hdls :
       pending[h] # 0 => timer[<<h, pending[h]>>] \in {"armed", "fired"}

(* What the game was last told about a player agrees with                  *)
(* player_connections_, through reconnects: the close of a connection that *)
(* was replaced does not disconnect the player.  Only kick_player, which   *)
(* tells the game nothing, breaks the tie.                                 *)
NetStateFollowsMap ==
  \A p \in Players :
    /\ players[p] # None => netState[p] = "Connected"
    /\ netState[p] = "Connected" => players[p] # None \/ p \in kicked

(* Timers never outlive their purpose: a timer that can still fire is the  *)
(* one its connection's entry names, or that of a further request.         *)
NoOrphanTimers ==
  \A h \in Hdls :
    /\ timer[<<h, 0>>] = "armed" => h \in newConns
    /\ sent[h] = 1 /\ timer[<<h, 1>>] = "armed" => pending[h] = 1

(* A timeout that races the confirmation closes no confirmed connection,   *)
(* if the connection sent one request ("happens once per connection",      *)
(* ws_server.cc:309).                                                      *)
ConfirmedStay ==
  [][\A h \in Hdls : \A n \in 0..MaxRequests :
       timer[<<h, n>>] = "fired" /\ timer'[<<h, n>>] = "run" /\ sent[h] = 1
       /\ h \in {players[p] : p \in Players} => conn'[h] = conn[h]]_vars

(* No connection is left in limbo: an open one is confirmed or closed in   *)
(* the end, even if it never sends anything, is rejected, or is never      *)
(* answered.                                                               *)
NoLimbo ==
  \A h \in Hdls :
    conn[h] = "open" ~> (conn[h] # "open" \/ h \in confirmed \/ crashed)

(* "Connected via WebSocket - messages can be sent/received", and          *)
(* "Disconnected: No connection is active" (net_server.h:29-41): a player  *)
(* the game was told to be connected, and who was not kicked, has a        *)
(* connection that is open, or whose on_close is still to come.            *)
ConnectedMeansOpen ==
  \A p \in Players :
    netState[p] = "Connected" /\ p \notin kicked =>
      \E h \in Hdls : PlayerOf[h] = p /\ conn[h] \in {"open", "closing"}

=============================================================================
