--------------------------- MODULE WsServerProofs ---------------------------
(***************************************************************************)
(* Proofs about module WsServer, for any number of connections, players    *)
(* and requests: its types, what the game is told about its players, and   *)
(* which timers may still fire.                                            *)
(***************************************************************************)
EXTENDS WsServer, SequenceTheorems, TLAPS

(* Questions and tasks carry connections of this server and the number of  *)
(* a request.                                                              *)
Requests == [step : {"request", "exchanged", "verified"}, hdl : Hdls,
             n : 1..MaxRequests, ok : BOOLEAN]

Questions == [step : {"exchanged", "verified"}, hdl : Hdls, n : 1..MaxRequests]

WorkInv ==
  /\ tasks \in Seq(Requests)
  /\ asked \subseteq Questions
  /\ main = Idle \/ main \in [at : {"pend", "confirm"}, task : Requests]
  /\ listener = Idle \/ listener \in
       [at : {"message", "close pending", "close player"}, hdl : Hdls]

(* That request has been sent. *)
Sent(r) == r.n <= sent[r.hdl]

SentInv ==
  /\ \A i \in DOMAIN tasks : Sent(tasks[i])
  /\ \A q \in asked : Sent(q)
  /\ main.at # "idle" => Sent(main.task)
  /\ listener.at = "message" => sent[listener.hdl] >= 1

(* The parts of TypeOK and NoOrphanTimers, by what they speak of. *)
PlayersInv ==
  /\ players \in [Players -> Hdls \cup {None}]
  /\ \A p \in Players : players[p] # None => PlayerOf[players[p]] = p
  /\ netState \in [Players -> {"Unknown", "Connected", "Disconnected"}]

ConnInv ==
  /\ conn \in [Hdls -> States]
  /\ sent \in [Hdls -> 0..MaxRequests]
  /\ newConns \subseteq {h \in Hdls : conn[h] # "none"}
  /\ pending \in [Hdls -> 0..MaxRequests]

TimerStates == {"idle", "armed", "fired", "run", "cancelled"}

(* An entry and its timer come and go together. *)
TimersOf(h) ==
  /\ h \in newConns => timer[<<h, 0>>] \in {"armed", "fired"}
  /\ timer[<<h, 0>>] = "armed" => h \in newConns
  /\ pending[h] # 0 => timer[<<h, pending[h]>>] \in {"armed", "fired"}
  /\ sent[h] = 1 /\ timer[<<h, 1>>] = "armed" => pending[h] = 1
  /\ \A n \in 1..MaxRequests : timer[<<h, n>>] # "idle" => n <= sent[h]

TimerInv ==
  /\ timer \in [Timers -> TimerStates]
  /\ \A h \in Hdls : TimersOf(h)

(* The inductive invariant behind TypeOK, NetStateFollowsMap and           *)
(* NoOrphanTimers.                                                         *)
ServerInv ==
  /\ PlayersInv /\ ConnInv /\ TimerInv
  /\ WorkInv /\ SentInv
  /\ NetStateFollowsMap

-----------------------------------------------------------------------------
(* The task list *)

(* Taking the first task leaves the others as they were. *)
LEMMA TaskTaken ==
  ASSUME WorkInv, NEW step, TaskReady(step)
  PROVE  /\ Head(tasks) \in Requests
         /\ 1 \in DOMAIN tasks /\ Head(tasks) = tasks[1]
         /\ tasks' \in Seq(Requests)
         /\ \A i \in DOMAIN tasks' :
              i + 1 \in DOMAIN tasks /\ tasks'[i] = tasks[i + 1]
  <1>1. tasks \in Seq(Requests) /\ tasks # <<>> /\ tasks' = Tail(tasks)
    BY DEF WorkInv, TaskReady
  <1>2. /\ Head(tasks) \in Requests
        /\ tasks' \in Seq(Requests)
        /\ Len(tasks') = Len(tasks) - 1
        /\ \A i \in 1..Len(tasks') : tasks'[i] = tasks[i + 1]
    BY <1>1, HeadTailProperties
  <1>3. Len(tasks) \in Nat \ {0} /\ DOMAIN tasks = 1..Len(tasks)
    BY <1>1, EmptySeq, LenProperties
  <1>4. Len(tasks') \in Nat /\ DOMAIN tasks' = 1..Len(tasks')
    BY <1>2, LenProperties
  <1>5. Head(tasks) = tasks[1]
    BY <1>1
  <1> QED
    BY <1>2, <1>3, <1>4, <1>5

(* Adding a task leaves the others as they were. *)
LEMMA TaskAdded ==
  ASSUME WorkInv, NEW r \in Requests, tasks' = Append(tasks, r)
  PROVE  /\ tasks' \in Seq(Requests)
         /\ \A i \in DOMAIN tasks' :
              tasks'[i] = r \/ (i \in DOMAIN tasks /\ tasks'[i] = tasks[i])
  <1>1. tasks \in Seq(Requests)
    BY DEF WorkInv
  <1>2. /\ tasks' \in Seq(Requests)
        /\ Len(tasks') = Len(tasks) + 1
        /\ \A i \in 1..Len(tasks) : tasks'[i] = tasks[i]
        /\ tasks'[Len(tasks) + 1] = r
    BY <1>1, AppendProperties
  <1>3. Len(tasks) \in Nat /\ DOMAIN tasks = 1..Len(tasks)
    BY <1>1, LenProperties
  <1>4. DOMAIN tasks' = 1..Len(tasks')
    BY <1>2, LenProperties
  <1> QED
    BY <1>2, <1>3, <1>4

(* What the main thread and the listener are in the middle of. *)
LEMMA Turns ==
  ASSUME WorkInv
  PROVE  /\ main.at # "idle" => main.task \in Requests
         /\ listener.at # "idle" => listener.hdl \in Hdls
  <1>1. main # Idle => main.task \in Requests
    BY DEF WorkInv
  <1>2. listener # Idle => listener.hdl \in Hdls
    BY DEF WorkInv
  <1>3. Idle.at = "idle"
    BY DEF Idle
  <1> QED
    BY <1>1, <1>2, <1>3

(* What is in a request, a question and an answer. *)
LEMMA Fields ==
  /\ \A r \in Requests :
       /\ r.hdl \in Hdls /\ r.n \in 1..MaxRequests /\ r.ok \in BOOLEAN
       /\ r.step \in {"request", "exchanged", "verified"}
  /\ \A q \in Questions :
       /\ q.hdl \in Hdls /\ q.n \in 1..MaxRequests
       /\ q.step \in {"exchanged", "verified"}
  /\ \A h \in Hdls : \A n \in 1..MaxRequests :
       \A s \in {"request", "exchanged", "verified"} : \A b \in BOOLEAN :
         [step |-> s, hdl |-> h, n |-> n, ok |-> b] \in Requests
  /\ \A h \in Hdls : \A n \in 1..MaxRequests :
       \A s \in {"exchanged", "verified"} :
         [step |-> s, hdl |-> h, n |-> n] \in Questions
  BY DEF Requests, Questions

-----------------------------------------------------------------------------
(* What the steps do to the timers *)

OthersKept(h, n) ==
  /\ timer' \in [Timers -> TimerStates]
  /\ \A g \in Hdls : \A m \in 0..MaxRequests :
       g # h \/ m # n => timer'[<<g, m>>] = timer[<<g, m>>]

Stopped(h, n) ==
  /\ OthersKept(h, n)
  /\ timer'[<<h, n>>] # "armed"
  /\ timer[<<h, n>>] = "armed" \/ timer'[<<h, n>>] = timer[<<h, n>>]

Becomes(h, n, from, to) ==
  /\ OthersKept(h, n)
  /\ timer[<<h, n>>] = from /\ timer'[<<h, n>>] = to

(* What each operation does to its timer. *)
LEMMA TimerChange ==
  ASSUME timer \in [Timers -> TimerStates],
         NEW h \in Hdls, NEW n \in 0..MaxRequests
  PROVE  /\ CancelTimer(<<h, n>>) => Stopped(h, n)
         /\ Arm(<<h, n>>) => Becomes(h, n, "idle", "armed")
         /\ Fire(<<h, n>>) => Becomes(h, n, "armed", "fired")
         /\ Run(<<h, n>>) => Becomes(h, n, "fired", "run")
  <1>1. <<h, n>> \in Timers
    BY DEF Timers
  <1>2. \A g \in Hdls : \A m \in 0..MaxRequests :
          <<g, m>> \in Timers /\ (g # h \/ m # n => <<g, m>> # <<h, n>>)
    BY DEF Timers
  <1>3. \A x \in TimerStates :
          timer' = [timer EXCEPT ![<<h, n>>] = x] =>
            OthersKept(h, n) /\ timer'[<<h, n>>] = x
    BY <1>1, <1>2 DEF OthersKept
  <1>4. UNCHANGED timer => OthersKept(h, n)
    BY DEF OthersKept
  <1> QED
    BY <1>3, <1>4 DEF CancelTimer, Cancel, Arm, Fire, Run, Stopped, Becomes,
       timerVar, TimerStates

(* Which timer each step operates on, and how. *)
LEMMA Effects ==
  ASSUME ConnInv, TimerInv, WorkInv
  PROVE  /\ OnClosePending =>
              /\ listener.hdl \in Hdls
              /\ pending[listener.hdl] = 0 => UNCHANGED timer
              /\ pending[listener.hdl] # 0 =>
                   Stopped(listener.hdl, pending[listener.hdl])
         /\ \A h \in Hdls : OnCloseNew(h) =>
              /\ h \notin newConns => UNCHANGED timer
              /\ h \in newConns => Stopped(h, 0)
         /\ Request =>
              /\ Head(tasks).hdl \in Hdls
              /\ Head(tasks).ok /\ Head(tasks).hdl \in newConns =>
                   Stopped(Head(tasks).hdl, 0)
              /\ ~(Head(tasks).ok /\ Head(tasks).hdl \in newConns) =>
                   UNCHANGED timer
         /\ Pend =>
              /\ main.task.hdl \in Hdls /\ main.task.n \in 1..MaxRequests
              /\ Becomes(main.task.hdl, main.task.n, "idle", "armed")
         /\ Verified =>
              /\ Head(tasks).hdl \in Hdls
              /\ pending[Head(tasks).hdl] = 0 => UNCHANGED timer
              /\ pending[Head(tasks).hdl] # 0 =>
                   Stopped(Head(tasks).hdl, pending[Head(tasks).hdl])
         /\ \A h \in Hdls : OpenTimeout(h) => Becomes(h, 0, "fired", "run")
         /\ \A h \in Hdls : \A n \in 1..MaxRequests :
              PendingTimeout(h, n) => Becomes(h, n, "fired", "run")
         /\ \A h \in Hdls : OnOpen(h) => Becomes(h, 0, "idle", "armed")
         /\ \A h \in Hdls : \A n \in 0..MaxRequests :
              FireTimer(<<h, n>>) => Becomes(h, n, "armed", "fired")
  <1> USE WsServerAssumption
  <1>1. timer \in [Timers -> TimerStates]
    BY DEF TimerInv
  <1>2. 0 \in 0..MaxRequests /\ 1..MaxRequests \subseteq 0..MaxRequests
        /\ \A h \in Hdls : pending[h] \in 0..MaxRequests
    BY DEF ConnInv
  <1>3. /\ ListenerAt("close pending") => listener.hdl \in Hdls
        /\ MainAt("pend") =>
             main.task.hdl \in Hdls /\ main.task.n \in 1..MaxRequests
    BY Turns, Fields DEF ListenerAt, MainAt
  <1>4. \A s : TaskReady(s) => Head(tasks).hdl \in Hdls
    BY TaskTaken, Fields
  <1>5. OnClosePending =>
          /\ listener.hdl \in Hdls
          /\ pending[listener.hdl] = 0 => UNCHANGED timer
          /\ pending[listener.hdl] # 0 =>
               Stopped(listener.hdl, pending[listener.hdl])
    BY <1>1, <1>2, <1>3, TimerChange DEF OnClosePending, timerVar
  <1>6. \A h \in Hdls : OnCloseNew(h) =>
          /\ h \notin newConns => UNCHANGED timer
          /\ h \in newConns => Stopped(h, 0)
    BY <1>1, <1>2, TimerChange DEF OnCloseNew, timerVar
  <1>7. Request =>
          /\ Head(tasks).hdl \in Hdls
          /\ Head(tasks).ok /\ Head(tasks).hdl \in newConns =>
               Stopped(Head(tasks).hdl, 0)
          /\ ~(Head(tasks).ok /\ Head(tasks).hdl \in newConns) => UNCHANGED timer
    BY <1>1, <1>2, <1>4, TimerChange DEF Request, timerVar
  <1>8. Pend =>
          /\ main.task.hdl \in Hdls /\ main.task.n \in 1..MaxRequests
          /\ Becomes(main.task.hdl, main.task.n, "idle", "armed")
    BY <1>1, <1>2, <1>3, TimerChange DEF Pend
  <1>9. Verified =>
          /\ Head(tasks).hdl \in Hdls
          /\ pending[Head(tasks).hdl] = 0 => UNCHANGED timer
          /\ pending[Head(tasks).hdl] # 0 =>
               Stopped(Head(tasks).hdl, pending[Head(tasks).hdl])
    BY <1>1, <1>2, <1>4, TimerChange DEF Verified, timerVar
  <1>10. \A h \in Hdls :
           /\ OpenTimeout(h) => Becomes(h, 0, "fired", "run")
           /\ OnOpen(h) => Becomes(h, 0, "idle", "armed")
    BY <1>1, <1>2, TimerChange DEF OpenTimeout, OnOpen
  <1>11. \A h \in Hdls : \A n \in 0..MaxRequests :
           FireTimer(<<h, n>>) => Becomes(h, n, "armed", "fired")
    BY <1>1, <1>2, TimerChange DEF FireTimer
  <1>12. \A h \in Hdls : \A n \in 1..MaxRequests :
           PendingTimeout(h, n) => Becomes(h, n, "fired", "run")
    BY <1>1, <1>2, TimerChange DEF PendingTimeout
  <1> QED
    BY ONLY <1>5, <1>6, <1>7, <1>8, <1>9, <1>10, <1>11, <1>12

-----------------------------------------------------------------------------
(* The players *)

LEMMA PlayersStep == PlayersInv /\ WorkInv /\ [Next]_vars => PlayersInv'
  <1> SUFFICES ASSUME PlayersInv, WorkInv, [Next]_vars
               PROVE  PlayersInv'
    OBVIOUS
  <1> USE WsServerAssumption DEF PlayersInv
  <1>1. ASSUME OnMessageNew PROVE PlayersInv'
    BY <1>1 DEF OnMessageNew, maps
  <1>2. ASSUME OnClosePending PROVE PlayersInv'
    BY <1>2 DEF OnClosePending
  <1>3. ASSUME OnClosePlayer PROVE PlayersInv'
    BY <1>3 DEF OnClosePlayer
  <1>4. ASSUME NEW h \in Hdls, OnCloseNew(h) PROVE PlayersInv'
    BY <1>4 DEF OnCloseNew
  <1>5. ASSUME Request PROVE PlayersInv'
    BY <1>5 DEF Request
  <1>6. ASSUME Pend PROVE PlayersInv'
    BY <1>6 DEF Pend
  <1>7. ASSUME Exchanged PROVE PlayersInv'
    BY <1>7 DEF Exchanged, maps
  <1>8. ASSUME Verified PROVE PlayersInv'
    BY <1>8 DEF Verified
  <1>9. ASSUME Confirm PROVE PlayersInv'
    BY <1>9, Turns, Fields DEF Confirm, MainAt, InsertOrUpdate
  <1>10. ASSUME NEW h \in Hdls, OpenTimeout(h) PROVE PlayersInv'
    BY <1>10 DEF OpenTimeout
  <1>11. ASSUME NEW h \in Hdls, NEW n \in 1..MaxRequests,
                PendingTimeout(h, n)
         PROVE  PlayersInv'
    BY <1>11 DEF PendingTimeout
  <1>12. ASSUME NEW h \in Hdls, OnOpen(h) PROVE PlayersInv'
    BY <1>12 DEF OnOpen
  <1>13. ASSUME NEW h \in Hdls, OnMessage(h) PROVE PlayersInv'
    BY <1>13 DEF OnMessage, maps
  <1>14. ASSUME NEW h \in Hdls, PeerCloses(h) PROVE PlayersInv'
    BY <1>14 DEF PeerCloses, maps
  <1>15. ASSUME NEW q, q \in asked, Answer(q) PROVE PlayersInv'
    BY <1>15 DEF Answer, maps
  <1>16. ASSUME NEW p \in Players, KickPlayer(p) PROVE PlayersInv'
    BY <1>16 DEF KickPlayer
  <1>17. ASSUME NEW t \in Timers, FireTimer(t) PROVE PlayersInv'
    BY <1>17 DEF FireTimer, maps
  <1>18. CASE UNCHANGED vars
    BY <1>18 DEF vars, maps
  <1> QED
    BY <1>1, <1>2, <1>3, <1>4, <1>5, <1>6, <1>7, <1>8, <1>9, <1>10, <1>11,
       <1>12, <1>13, <1>14, <1>15, <1>16, <1>17, <1>18
       DEF Next, ListenerStep, MainStep, Environment, Finished

(* Every write to player_connections_ but the kick comes with its callback. *)
LEMMA NetStep ==
  PlayersInv /\ WorkInv /\ NetStateFollowsMap /\ [Next]_vars => NetStateFollowsMap'
  <1> SUFFICES ASSUME PlayersInv, WorkInv, NetStateFollowsMap, [Next]_vars
               PROVE  NetStateFollowsMap'
    OBVIOUS
  <1> USE WsServerAssumption DEF NetStateFollowsMap
  <1>1. ASSUME OnMessageNew PROVE NetStateFollowsMap'
    BY <1>1 DEF OnMessageNew, maps, history
  <1>2. ASSUME OnClosePending PROVE NetStateFollowsMap'
    BY <1>2 DEF OnClosePending, history
  <1>3. ASSUME OnClosePlayer PROVE NetStateFollowsMap'
    BY <1>3 DEF OnClosePlayer, PlayersInv, history
  <1>4. ASSUME NEW h \in Hdls, OnCloseNew(h) PROVE NetStateFollowsMap'
    BY <1>4 DEF OnCloseNew, history
  <1>5. ASSUME Request PROVE NetStateFollowsMap'
    BY <1>5 DEF Request, history
  <1>6. ASSUME Pend PROVE NetStateFollowsMap'
    BY <1>6 DEF Pend, history
  <1>7. ASSUME Exchanged PROVE NetStateFollowsMap'
    BY <1>7 DEF Exchanged, maps, history
  <1>8. ASSUME Verified PROVE NetStateFollowsMap'
    BY <1>8 DEF Verified, history
  <1>9. ASSUME Confirm PROVE NetStateFollowsMap'
    BY <1>9, Turns, Fields DEF Confirm, MainAt, InsertOrUpdate, PlayersInv
  <1>10. ASSUME NEW h \in Hdls, OpenTimeout(h) PROVE NetStateFollowsMap'
    BY <1>10 DEF OpenTimeout, history
  <1>11. ASSUME NEW h \in Hdls, NEW n \in 1..MaxRequests,
                PendingTimeout(h, n)
         PROVE  NetStateFollowsMap'
    BY <1>11 DEF PendingTimeout, history
  <1>12. ASSUME NEW h \in Hdls, OnOpen(h) PROVE NetStateFollowsMap'
    BY <1>12 DEF OnOpen, history
  <1>13. ASSUME NEW h \in Hdls, OnMessage(h) PROVE NetStateFollowsMap'
    BY <1>13 DEF OnMessage, maps, history
  <1>14. ASSUME NEW h \in Hdls, PeerCloses(h) PROVE NetStateFollowsMap'
    BY <1>14 DEF PeerCloses, maps, history
  <1>15. ASSUME NEW q, q \in asked, Answer(q) PROVE NetStateFollowsMap'
    BY <1>15 DEF Answer, maps, history
  <1>16. ASSUME NEW p \in Players, KickPlayer(p) PROVE NetStateFollowsMap'
    BY <1>16 DEF KickPlayer, PlayersInv
  <1>17. ASSUME NEW t \in Timers, FireTimer(t) PROVE NetStateFollowsMap'
    BY <1>17 DEF FireTimer, maps, history
  <1>18. CASE UNCHANGED vars
    BY <1>18 DEF vars, maps, history
  <1> QED
    BY <1>1, <1>2, <1>3, <1>4, <1>5, <1>6, <1>7, <1>8, <1>9, <1>10, <1>11,
       <1>12, <1>13, <1>14, <1>15, <1>16, <1>17, <1>18
       DEF Next, ListenerStep, MainStep, Environment, Finished

-----------------------------------------------------------------------------
(* The connections *)

LEMMA ConnStep == ConnInv /\ WorkInv /\ [Next]_vars => ConnInv'
  <1> SUFFICES ASSUME ConnInv, WorkInv, [Next]_vars
               PROVE  ConnInv'
    OBVIOUS
  <1> USE WsServerAssumption DEF ConnInv, States
  <1>1. ASSUME OnMessageNew PROVE ConnInv'
    BY <1>1 DEF OnMessageNew, maps
  <1>2. ASSUME OnClosePending PROVE ConnInv'
    <2>1. /\ pending' = [pending EXCEPT ![listener.hdl] = 0]
          /\ UNCHANGED <<conn, sent, newConns>>
      BY <1>2 DEF OnClosePending
    <2>2. pending \in [Hdls -> 0..MaxRequests] /\ 0 \in 0..MaxRequests
          /\ 1..MaxRequests \subseteq 0..MaxRequests
      OBVIOUS
    <2>3. pending' \in [Hdls -> 0..MaxRequests]
      BY ONLY <2>1, <2>2
    <2> QED
      BY <2>1, <2>3
  <1>3. ASSUME OnClosePlayer PROVE ConnInv'
    BY <1>3 DEF OnClosePlayer
  <1>4. ASSUME NEW h \in Hdls, OnCloseNew(h) PROVE ConnInv'
    BY <1>4 DEF OnCloseNew
  <1>5. ASSUME Request PROVE ConnInv'
    BY <1>5 DEF Request
  <1>6. ASSUME Pend PROVE ConnInv'
    <2>1. /\ main.task.n \in 1..MaxRequests
          /\ pending' = [pending EXCEPT ![main.task.hdl] =
                           IF @ = 0 THEN main.task.n ELSE @]
          /\ UNCHANGED <<conn, sent, newConns>>
      BY <1>6, Turns, Fields DEF Pend, MainAt
    <2>2. pending \in [Hdls -> 0..MaxRequests] /\ 0 \in 0..MaxRequests
          /\ 1..MaxRequests \subseteq 0..MaxRequests
      OBVIOUS
    <2>3. pending' \in [Hdls -> 0..MaxRequests]
      BY ONLY <2>1, <2>2
    <2> QED
      BY <2>1, <2>3
  <1>7. ASSUME Exchanged PROVE ConnInv'
    BY <1>7 DEF Exchanged, maps
  <1>8. ASSUME Verified PROVE ConnInv'
    <2>1. /\ pending' = [pending EXCEPT ![Head(tasks).hdl] = 0]
          /\ UNCHANGED <<conn, sent, newConns>>
      BY <1>8 DEF Verified
    <2>2. pending \in [Hdls -> 0..MaxRequests] /\ 0 \in 0..MaxRequests
          /\ 1..MaxRequests \subseteq 0..MaxRequests
      OBVIOUS
    <2>3. pending' \in [Hdls -> 0..MaxRequests]
      BY ONLY <2>1, <2>2
    <2> QED
      BY <2>1, <2>3
  <1>9. ASSUME Confirm PROVE ConnInv'
    BY <1>9 DEF Confirm, CloseOrThrow
  <1>10. ASSUME NEW h \in Hdls, OpenTimeout(h) PROVE ConnInv'
    BY <1>10 DEF OpenTimeout, CloseOrThrow
  <1>11. ASSUME NEW h \in Hdls, NEW n \in 1..MaxRequests,
                PendingTimeout(h, n)
         PROVE  ConnInv'
    BY <1>11 DEF PendingTimeout, CloseOrThrow
  <1>12. ASSUME NEW h \in Hdls, OnOpen(h) PROVE ConnInv'
    BY <1>12 DEF OnOpen
  <1>13. ASSUME NEW h \in Hdls, OnMessage(h) PROVE ConnInv'
    BY <1>13 DEF OnMessage, maps
  <1>14. ASSUME NEW h \in Hdls, PeerCloses(h) PROVE ConnInv'
    BY <1>14 DEF PeerCloses, maps
  <1>15. ASSUME NEW q, q \in asked, Answer(q) PROVE ConnInv'
    BY <1>15 DEF Answer, maps
  <1>16. ASSUME NEW p \in Players, KickPlayer(p) PROVE ConnInv'
    BY <1>16 DEF KickPlayer
  <1>17. ASSUME NEW t \in Timers, FireTimer(t) PROVE ConnInv'
    BY <1>17 DEF FireTimer, maps
  <1>18. CASE UNCHANGED vars
    BY <1>18 DEF vars, maps
  <1> QED
    BY <1>1, <1>2, <1>3, <1>4, <1>5, <1>6, <1>7, <1>8, <1>9, <1>10, <1>11,
       <1>12, <1>13, <1>14, <1>15, <1>16, <1>17, <1>18
       DEF Next, ListenerStep, MainStep, Environment, Finished

-----------------------------------------------------------------------------
(* The work under way *)

LEMMA WorkStep == ConnInv /\ SentInv /\ WorkInv /\ [Next]_vars => WorkInv'
  <1> SUFFICES ASSUME ConnInv, SentInv, WorkInv, [Next]_vars
               PROVE  WorkInv'
    OBVIOUS
  <1> USE WsServerAssumption DEF Idle
  <1>1. ASSUME OnMessageNew PROVE WorkInv'
    <2>1. listener.hdl \in Hdls /\ sent[listener.hdl] \in 1..MaxRequests
      BY <1>1, Turns DEF OnMessageNew, ListenerAt, ConnInv, SentInv
    <2>2. CASE listener.hdl \in newConns
      <3>1. PICK b \in BOOLEAN :
              tasks' = Append(tasks, [step |-> "request", hdl |-> listener.hdl,
                                      n |-> sent[listener.hdl], ok |-> b])
        BY <1>1, <2>2 DEF OnMessageNew
      <3>2. tasks' \in Seq(Requests)
        BY <2>1, <3>1, Fields, TaskAdded
      <3> QED
        BY <1>1, <3>2 DEF OnMessageNew, WorkInv
    <2>3. CASE listener.hdl \notin newConns
      BY <1>1, <2>3 DEF OnMessageNew, WorkInv
    <2> QED
      BY <2>2, <2>3
  <1>2. ASSUME OnClosePending PROVE WorkInv'
    BY <1>2, Turns DEF OnClosePending, WorkInv, ListenerAt
  <1>3. ASSUME OnClosePlayer PROVE WorkInv'
    BY <1>3 DEF OnClosePlayer, WorkInv
  <1>4. ASSUME NEW h \in Hdls, OnCloseNew(h) PROVE WorkInv'
    BY <1>4 DEF OnCloseNew, WorkInv
  <1>5. ASSUME Request PROVE WorkInv'
    <2>1. Head(tasks) \in Requests /\ tasks' \in Seq(Requests)
      BY <1>5, TaskTaken DEF Request
    <2>2. main' = main \/ main' = [at |-> "pend", task |-> Head(tasks)]
      BY <1>5 DEF Request, Turn
    <2>3. main' = Idle \/ main' \in [at : {"pend", "confirm"}, task : Requests]
      <3>1. [at |-> "pend", task |-> Head(tasks)]
               \in [at : {"pend", "confirm"}, task : Requests]
        BY <2>1
      <3> QED
        BY <2>2, <3>1 DEF WorkInv
    <2>4. UNCHANGED <<asked, listener>>
      BY <1>5 DEF Request
    <2> QED
      BY <2>1, <2>3, <2>4 DEF WorkInv
  <1>6. ASSUME Pend PROVE WorkInv'
    <2>1. main.task.hdl \in Hdls /\ main.task.n \in 1..MaxRequests
      BY <1>6, Turns, Fields DEF Pend, MainAt
    <2>2. [step |-> "exchanged", hdl |-> main.task.hdl, n |-> main.task.n]
             \in Questions
      BY <2>1, Fields
    <2> QED
      BY <1>6, <2>2 DEF Pend, WorkInv
  <1>7. ASSUME Exchanged PROVE WorkInv'
    <2>1. Head(tasks) \in Requests /\ tasks' \in Seq(Requests)
      BY <1>7, TaskTaken DEF Exchanged
    <2>2. [step |-> "verified", hdl |-> Head(tasks).hdl, n |-> Head(tasks).n]
             \in Questions
      BY <2>1, Fields
    <2> QED
      BY <1>7, <2>1, <2>2 DEF Exchanged, WorkInv
  <1>8. ASSUME Verified PROVE WorkInv'
    <2>1. Head(tasks) \in Requests /\ tasks' \in Seq(Requests)
      BY <1>8, TaskTaken DEF Verified
    <2> QED
      BY <1>8, <2>1 DEF Verified, Turn, WorkInv
  <1>9. ASSUME Confirm PROVE WorkInv'
    BY <1>9 DEF Confirm, WorkInv
  <1>10. ASSUME NEW h \in Hdls, OpenTimeout(h) PROVE WorkInv'
    BY <1>10 DEF OpenTimeout, WorkInv
  <1>11. ASSUME NEW h \in Hdls, NEW n \in 1..MaxRequests,
                PendingTimeout(h, n)
         PROVE  WorkInv'
    BY <1>11 DEF PendingTimeout, WorkInv
  <1>12. ASSUME NEW h \in Hdls, OnOpen(h) PROVE WorkInv'
    BY <1>12 DEF OnOpen, WorkInv
  <1>13. ASSUME NEW h \in Hdls, OnMessage(h) PROVE WorkInv'
    BY <1>13 DEF OnMessage, WorkInv
  <1>14. ASSUME NEW h \in Hdls, PeerCloses(h) PROVE WorkInv'
    BY <1>14 DEF PeerCloses, WorkInv
  <1>15. ASSUME NEW q, q \in asked, Answer(q) PROVE WorkInv'
    <2>1. PICK b \in BOOLEAN :
            tasks' = Append(tasks, [step |-> q.step, hdl |-> q.hdl, n |-> q.n,
                                    ok |-> b])
      BY <1>15 DEF Answer
    <2>2. q \in Questions
      BY <1>15 DEF WorkInv
    <2>3. tasks' \in Seq(Requests)
      BY <2>1, <2>2, Fields, TaskAdded
    <2> QED
      BY <1>15, <2>3 DEF Answer, WorkInv
  <1>16. ASSUME NEW p \in Players, KickPlayer(p) PROVE WorkInv'
    BY <1>16 DEF KickPlayer, WorkInv
  <1>17. ASSUME NEW t \in Timers, FireTimer(t) PROVE WorkInv'
    BY <1>17 DEF FireTimer, WorkInv
  <1>18. CASE UNCHANGED vars
    BY <1>18 DEF vars, WorkInv
  <1> QED
    BY <1>1, <1>2, <1>3, <1>4, <1>5, <1>6, <1>7, <1>8, <1>9, <1>10, <1>11,
       <1>12, <1>13, <1>14, <1>15, <1>16, <1>17, <1>18
       DEF Next, ListenerStep, MainStep, Environment, Finished

LEMMA SentStep == ConnInv /\ WorkInv /\ SentInv /\ [Next]_vars => SentInv'
  <1> SUFFICES ASSUME ConnInv, WorkInv, SentInv, [Next]_vars
               PROVE  SentInv'
    OBVIOUS
  <1> USE WsServerAssumption DEF Idle
  <1>1. ASSUME OnMessageNew PROVE SentInv'
    <2>1. listener.hdl \in Hdls /\ sent[listener.hdl] \in 1..MaxRequests
      BY <1>1, Turns DEF OnMessageNew, ListenerAt, ConnInv, SentInv
    <2>2. \A i \in DOMAIN tasks' : Sent(tasks'[i])
      <3>1. CASE listener.hdl \in newConns
        <4> DEFINE r(b) == [step |-> "request", hdl |-> listener.hdl,
                            n |-> sent[listener.hdl], ok |-> b]
        <4>1. PICK b \in BOOLEAN : tasks' = Append(tasks, r(b))
          BY <1>1, <3>1 DEF OnMessageNew
        <4>2. r(b) \in Requests
          BY <2>1, Fields
        <4>3. Sent(r(b))
          BY <2>1 DEF Sent
        <4> HIDE DEF r
        <4> QED
          BY <4>1, <4>2, <4>3, TaskAdded DEF SentInv
      <3>2. CASE listener.hdl \notin newConns
        BY <1>1, <3>2 DEF OnMessageNew, SentInv
      <3> QED
        BY <3>1, <3>2
    <2> QED
      BY <1>1, <2>2 DEF OnMessageNew, SentInv, Sent
  <1>2. ASSUME OnClosePending PROVE SentInv'
    BY <1>2 DEF OnClosePending, SentInv, Sent
  <1>3. ASSUME OnClosePlayer PROVE SentInv'
    BY <1>3 DEF OnClosePlayer, SentInv, Sent
  <1>4. ASSUME NEW h \in Hdls, OnCloseNew(h) PROVE SentInv'
    BY <1>4 DEF OnCloseNew, SentInv, Sent
  <1>5. ASSUME Request PROVE SentInv'
    <2>1. /\ 1 \in DOMAIN tasks /\ Head(tasks) = tasks[1]
          /\ \A i \in DOMAIN tasks' :
               i + 1 \in DOMAIN tasks /\ tasks'[i] = tasks[i + 1]
      BY <1>5, TaskTaken DEF Request
    <2>2. Sent(Head(tasks)) /\ \A i \in DOMAIN tasks' : Sent(tasks'[i])
      BY <1>5, <2>1 DEF Request, SentInv, Sent
    <2> QED
      BY <1>5, <2>2 DEF Request, Turn, SentInv, Sent
  <1>6. ASSUME Pend PROVE SentInv'
    BY <1>6 DEF Pend, MainAt, SentInv, Sent
  <1>7. ASSUME Exchanged PROVE SentInv'
    <2>1. /\ 1 \in DOMAIN tasks /\ Head(tasks) = tasks[1]
          /\ \A i \in DOMAIN tasks' :
               i + 1 \in DOMAIN tasks /\ tasks'[i] = tasks[i + 1]
      BY <1>7, TaskTaken DEF Exchanged
    <2>2. Sent(Head(tasks)) /\ \A i \in DOMAIN tasks' : Sent(tasks'[i])
      BY <1>7, <2>1 DEF Exchanged, SentInv, Sent
    <2> QED
      BY <1>7, <2>2 DEF Exchanged, Turn, SentInv, Sent
  <1>8. ASSUME Verified PROVE SentInv'
    <2>1. /\ 1 \in DOMAIN tasks /\ Head(tasks) = tasks[1]
          /\ \A i \in DOMAIN tasks' :
               i + 1 \in DOMAIN tasks /\ tasks'[i] = tasks[i + 1]
      BY <1>8, TaskTaken DEF Verified
    <2>2. Sent(Head(tasks)) /\ \A i \in DOMAIN tasks' : Sent(tasks'[i])
      BY <1>8, <2>1 DEF Verified, SentInv, Sent
    <2> QED
      BY <1>8, <2>2 DEF Verified, Turn, SentInv, Sent
  <1>9. ASSUME Confirm PROVE SentInv'
    BY <1>9 DEF Confirm, SentInv, Sent
  <1>10. ASSUME NEW h \in Hdls, OpenTimeout(h) PROVE SentInv'
    BY <1>10 DEF OpenTimeout, SentInv, Sent
  <1>11. ASSUME NEW h \in Hdls, NEW n \in 1..MaxRequests,
                PendingTimeout(h, n)
         PROVE  SentInv'
    BY <1>11 DEF PendingTimeout, SentInv, Sent
  <1>12. ASSUME NEW h \in Hdls, OnOpen(h) PROVE SentInv'
    BY <1>12 DEF OnOpen, SentInv, Sent
  <1>13. ASSUME NEW h \in Hdls, OnMessage(h) PROVE SentInv'
    <2>1. /\ sent' = [sent EXCEPT ![h] = @ + 1]
          /\ UNCHANGED <<tasks, asked, main>>
          /\ listener' = [at |-> "message", hdl |-> h]
      BY <1>13 DEF OnMessage
    <2>2. \A g \in Hdls : sent[g] \in Nat /\ sent'[g] \in Nat /\ sent[g] <= sent'[g]
                           /\ (g = h => sent'[g] >= 1)
      BY <2>1 DEF ConnInv
    <2>3. /\ \A i \in DOMAIN tasks : tasks[i] \in Requests
          /\ main.at # "idle" => main.task \in Requests
      <3>1. tasks \in Seq(Requests)
        BY DEF WorkInv
      <3> QED
        BY <3>1, Turns, LenProperties, ElementOfSeq
    <2>4. /\ \A r \in Requests : Sent(r) => r.n <= sent'[r.hdl]
          /\ \A q \in Questions : Sent(q) => q.n <= sent'[q.hdl]
      BY <2>2, Fields DEF Sent
    <2> QED
      BY <2>1, <2>2, <2>3, <2>4 DEF SentInv, Sent, WorkInv
  <1>14. ASSUME NEW h \in Hdls, PeerCloses(h) PROVE SentInv'
    BY <1>14 DEF PeerCloses, SentInv, Sent
  <1>15. ASSUME NEW q, q \in asked, Answer(q) PROVE SentInv'
    <2> DEFINE r(b) == [step |-> q.step, hdl |-> q.hdl, n |-> q.n, ok |-> b]
    <2>1. PICK b \in BOOLEAN : tasks' = Append(tasks, r(b))
      BY <1>15 DEF Answer
    <2>2. q \in Questions /\ Sent(q)
      BY <1>15 DEF WorkInv, SentInv
    <2>3. r(b) \in Requests /\ Sent(r(b))
      BY <2>2, Fields DEF Sent
    <2>4. \A i \in DOMAIN tasks' : Sent(tasks'[i])
      <3> HIDE DEF r
      <3> QED
        BY <2>1, <2>3, TaskAdded DEF SentInv
    <2> QED
      BY <1>15, <2>4 DEF Answer, SentInv, Sent
  <1>16. ASSUME NEW p \in Players, KickPlayer(p) PROVE SentInv'
    BY <1>16 DEF KickPlayer, SentInv, Sent
  <1>17. ASSUME NEW t \in Timers, FireTimer(t) PROVE SentInv'
    BY <1>17 DEF FireTimer, SentInv, Sent
  <1>18. CASE UNCHANGED vars
    BY <1>18 DEF vars, SentInv, Sent
  <1> QED
    BY <1>1, <1>2, <1>3, <1>4, <1>5, <1>6, <1>7, <1>8, <1>9, <1>10, <1>11,
       <1>12, <1>13, <1>14, <1>15, <1>16, <1>17, <1>18
       DEF Next, ListenerStep, MainStep, Environment, Finished

-----------------------------------------------------------------------------
(* The timers *)

Same(g) ==
  /\ \A m \in 0..MaxRequests : timer'[<<g, m>>] = timer[<<g, m>>]
  /\ g \in newConns' <=> g \in newConns
  /\ pending'[g] = pending[g]
  /\ sent'[g] = sent[g]

(* A step about one connection leaves the timers of the others alone. *)
LEMMA OneConnection ==
  ASSUME ConnInv, TimerInv, timer' \in [Timers -> TimerStates],
         NEW h, \A g \in Hdls \ {h} : Same(g), h \in Hdls => TimersOf(h)'
  PROVE  TimerInv'
  <1> USE WsServerAssumption
  <1>1. ASSUME NEW g \in Hdls, g # h PROVE TimersOf(g)'
    <2>1. Same(g) /\ TimersOf(g)
      BY <1>1 DEF TimerInv
    <2>2. pending[g] \in 0..MaxRequests
      BY DEF ConnInv
    <2> QED
      BY <2>1, <2>2 DEF Same, TimersOf
  <1> QED
    BY <1>1 DEF TimerInv

LEMMA TimerStep ==
  ConnInv /\ WorkInv /\ SentInv /\ TimerInv /\ [Next]_vars => TimerInv'
  <1> SUFFICES ASSUME ConnInv, WorkInv, SentInv, TimerInv, [Next]_vars
               PROVE  TimerInv'
    OBVIOUS
  <1> USE WsServerAssumption DEF Idle
  <1>1. ASSUME OnMessageNew PROVE TimerInv'
    BY <1>1 DEF OnMessageNew, maps, timerVar, TimerInv, TimersOf
  <1>2. ASSUME OnClosePending PROVE TimerInv'
    <2>0. PICK h \in Hdls : h = listener.hdl
      BY <1>2, Effects
    <2>1. TimersOf(h) /\ pending[h] \in 0..MaxRequests
      BY Effects DEF TimerInv, ConnInv
    <2>2. IF pending[h] = 0 THEN UNCHANGED timer ELSE Stopped(h, pending[h])
      BY <1>2, <2>0, Effects
    <2>3. timer' \in [Timers -> TimerStates]
      BY <2>2 DEF TimerInv, Stopped, Becomes, OthersKept
    <2>4. \A g \in Hdls \ {h} : Same(g)
      BY <1>2, <2>0, <2>2
         DEF OnClosePending, ConnInv, Same, Stopped, Becomes, OthersKept
    <2>5. TimersOf(h)'
      <3>1. \A m \in 0..MaxRequests :
              m # pending[h] => timer'[<<h, m>>] = timer[<<h, m>>]
        BY <2>2 DEF Stopped, Becomes, OthersKept
      <3>2. pending[h] # 0 =>
              timer'[<<h, pending[h]>>] # "armed" /\ timer[<<h, pending[h]>>] # "idle"
        BY <2>1, <2>2 DEF TimersOf, Stopped, Becomes
      <3>3. pending'[h] = 0 /\ UNCHANGED <<newConns, sent>>
        BY <1>2, <2>0, <2>2 DEF OnClosePending, ConnInv
      <3> QED
        BY <2>1, <2>2, <3>1, <3>2, <3>3 DEF TimersOf, ConnInv
    <2> QED
      BY <2>3, <2>4, <2>5, OneConnection
  <1>3. ASSUME OnClosePlayer PROVE TimerInv'
    BY <1>3 DEF OnClosePlayer, timerVar, TimerInv, TimersOf
  <1>4. ASSUME NEW h \in Hdls, OnCloseNew(h) PROVE TimerInv'
    <2>1. TimersOf(h) /\ pending[h] \in 0..MaxRequests /\ 0 \in 0..MaxRequests
      BY Effects DEF TimerInv, ConnInv
    <2>2. IF h \in newConns THEN Stopped(h, 0) ELSE UNCHANGED timer
      BY <1>4, Effects
    <2>3. timer' \in [Timers -> TimerStates]
      BY <2>2 DEF TimerInv, Stopped, Becomes, OthersKept
    <2>4. \A g \in Hdls \ {h} : Same(g)
      BY <1>4, <2>2
         DEF OnCloseNew, ConnInv, Same, Stopped, Becomes, OthersKept
    <2>5. TimersOf(h)'
      <3>1. \A m \in 0..MaxRequests :
              m # 0 => timer'[<<h, m>>] = timer[<<h, m>>]
        BY <2>2 DEF Stopped, Becomes, OthersKept
      <3>2. timer'[<<h, 0>>] # "armed"
        BY <2>1, <2>2 DEF TimersOf, Stopped, Becomes
      <3>3. h \notin newConns' /\ UNCHANGED <<pending, sent>>
        BY <1>4, <2>2 DEF OnCloseNew, ConnInv
      <3> QED
        BY <2>1, <3>1, <3>2, <3>3 DEF TimersOf, ConnInv
    <2> QED
      BY <2>3, <2>4, <2>5, OneConnection
  <1>5. ASSUME Request PROVE TimerInv'
    <2>0. PICK h \in Hdls : h = Head(tasks).hdl
      BY <1>5, Effects
    <2>1. TimersOf(h) /\ pending[h] \in 0..MaxRequests /\ 0 \in 0..MaxRequests
      BY Effects DEF TimerInv, ConnInv
    <2>2. \/ h \in newConns /\ h \notin newConns' /\ Stopped(h, 0)
          \/ (h \in newConns' <=> h \in newConns) /\ UNCHANGED timer
      BY <1>5, <2>0, Effects DEF Request
    <2>3. timer' \in [Timers -> TimerStates]
      BY <2>2 DEF TimerInv, Stopped, Becomes, OthersKept
    <2>4. \A g \in Hdls \ {h} : Same(g)
      BY <1>5, <2>0, <2>2
         DEF Request, ConnInv, Same, Stopped, Becomes, OthersKept
    <2>5. TimersOf(h)'
      <3>1. \A m \in 0..MaxRequests :
              m # 0 => timer'[<<h, m>>] = timer[<<h, m>>]
        BY <2>2 DEF Stopped, Becomes, OthersKept
      <3>2. \/ timer'[<<h, 0>>] # "armed" /\ h \notin newConns'
            \/ timer'[<<h, 0>>] = timer[<<h, 0>>]
               /\ (h \in newConns' <=> h \in newConns)
        BY <2>1, <2>2 DEF TimersOf, Stopped, Becomes
      <3>3. UNCHANGED <<pending, sent>>
        BY <1>5, <2>0, <2>2 DEF Request, ConnInv
      <3> QED
        BY <2>1, <3>1, <3>2, <3>3 DEF TimersOf, ConnInv
    <2> QED
      BY <2>3, <2>4, <2>5, OneConnection
  <1>6. ASSUME Pend PROVE TimerInv'
    <2>0. PICK h \in Hdls : h = main.task.hdl
      BY <1>6, Effects
    <2>9. PICK n \in 1..MaxRequests : n = main.task.n
      BY <1>6, Effects
    <2>1. TimersOf(h) /\ pending[h] \in 0..MaxRequests /\ n \in 0..MaxRequests
      BY Effects DEF TimerInv, ConnInv
    <2>2. /\ n # 0 /\ n <= sent[h]
          /\ Becomes(h, n, "idle", "armed")
      BY <1>6, <2>0, <2>9, Effects DEF Pend, MainAt, SentInv, Sent
    <2>3. timer' \in [Timers -> TimerStates]
      BY <2>2 DEF TimerInv, Stopped, Becomes, OthersKept
    <2>4. \A g \in Hdls \ {h} : Same(g)
      BY <1>6, <2>0, <2>9, <2>2
         DEF Pend, ConnInv, Same, Stopped, Becomes, OthersKept
    <2>5. TimersOf(h)'
      <3>1. \A m \in 0..MaxRequests :
              m # n => timer'[<<h, m>>] = timer[<<h, m>>]
        BY <2>2 DEF Stopped, Becomes, OthersKept
      <3>2. timer[<<h, n>>] = "idle" /\ timer'[<<h, n>>] = "armed"
        BY <2>1, <2>2 DEF TimersOf, Stopped, Becomes
      <3>3. /\ pending'[h] = IF pending[h] = 0 THEN n ELSE pending[h]
            /\ UNCHANGED <<newConns, sent>>
        BY <1>6, <2>0, <2>9, <2>2 DEF Pend, ConnInv
      <3>4. pending[h] # 0 => pending[h] # n /\ pending[h] <= sent[h]
        BY <2>1, <3>2 DEF TimersOf
      <3> QED
        BY <2>1, <2>2, <3>1, <3>2, <3>3, <3>4 DEF TimersOf, ConnInv
    <2> QED
      BY <2>3, <2>4, <2>5, OneConnection
  <1>7. ASSUME Exchanged PROVE TimerInv'
    BY <1>7 DEF Exchanged, maps, timerVar, TimerInv, TimersOf
  <1>8. ASSUME Verified PROVE TimerInv'
    <2>0. PICK h \in Hdls : h = Head(tasks).hdl
      BY <1>8, Effects
    <2>1. TimersOf(h) /\ pending[h] \in 0..MaxRequests
      BY Effects DEF TimerInv, ConnInv
    <2>2. IF pending[h] = 0 THEN UNCHANGED timer ELSE Stopped(h, pending[h])
      BY <1>8, <2>0, Effects
    <2>3. timer' \in [Timers -> TimerStates]
      BY <2>2 DEF TimerInv, Stopped, Becomes, OthersKept
    <2>4. \A g \in Hdls \ {h} : Same(g)
      BY <1>8, <2>0, <2>2
         DEF Verified, ConnInv, Same, Stopped, Becomes, OthersKept
    <2>5. TimersOf(h)'
      <3>1. \A m \in 0..MaxRequests :
              m # pending[h] => timer'[<<h, m>>] = timer[<<h, m>>]
        BY <2>2 DEF Stopped, Becomes, OthersKept
      <3>2. pending[h] # 0 =>
              timer'[<<h, pending[h]>>] # "armed" /\ timer[<<h, pending[h]>>] # "idle"
        BY <2>1, <2>2 DEF TimersOf, Stopped, Becomes
      <3>3. pending'[h] = 0 /\ UNCHANGED <<newConns, sent>>
        BY <1>8, <2>0, <2>2 DEF Verified, ConnInv
      <3> QED
        BY <2>1, <2>2, <3>1, <3>2, <3>3 DEF TimersOf, ConnInv
    <2> QED
      BY <2>3, <2>4, <2>5, OneConnection
  <1>9. ASSUME Confirm PROVE TimerInv'
    BY <1>9 DEF Confirm, timerVar, TimerInv, TimersOf
  <1>10. ASSUME NEW h \in Hdls, OpenTimeout(h) PROVE TimerInv'
    <2>1. TimersOf(h) /\ pending[h] \in 0..MaxRequests /\ 0 \in 0..MaxRequests
      BY Effects DEF TimerInv, ConnInv
    <2>2. Becomes(h, 0, "fired", "run")
      BY <1>10, Effects
    <2>3. timer' \in [Timers -> TimerStates]
      BY <2>2 DEF TimerInv, Stopped, Becomes, OthersKept
    <2>4. \A g \in Hdls \ {h} : Same(g)
      BY <1>10, <2>2
         DEF OpenTimeout, ConnInv, Same, Stopped, Becomes, OthersKept
    <2>5. TimersOf(h)'
      <3>1. \A m \in 0..MaxRequests :
              m # 0 => timer'[<<h, m>>] = timer[<<h, m>>]
        BY <2>2 DEF Stopped, Becomes, OthersKept
      <3>2. timer'[<<h, 0>>] = "run"
        BY <2>1, <2>2 DEF TimersOf, Stopped, Becomes
      <3>3. h \notin newConns' /\ UNCHANGED <<pending, sent>>
        BY <1>10, <2>2 DEF OpenTimeout, ConnInv
      <3> QED
        BY <2>1, <3>1, <3>2, <3>3 DEF TimersOf, ConnInv
    <2> QED
      BY <2>3, <2>4, <2>5, OneConnection
  <1>11. ASSUME NEW h \in Hdls, NEW n \in 1..MaxRequests,
                PendingTimeout(h, n)
         PROVE  TimerInv'
    <2>1. TimersOf(h) /\ pending[h] \in 0..MaxRequests /\ n \in 0..MaxRequests
      BY Effects DEF TimerInv, ConnInv
    <2>2. Becomes(h, n, "fired", "run")
      BY <1>11, Effects
    <2>3. timer' \in [Timers -> TimerStates]
      BY <2>2 DEF TimerInv, Stopped, Becomes, OthersKept
    <2>4. \A g \in Hdls \ {h} : Same(g)
      BY <1>11, <2>2
         DEF PendingTimeout, ConnInv, Same, Stopped, Becomes, OthersKept
    <2>5. TimersOf(h)'
      <3>1. \A m \in 0..MaxRequests :
              m # n => timer'[<<h, m>>] = timer[<<h, m>>]
        BY <2>2 DEF Stopped, Becomes, OthersKept
      <3>2. timer[<<h, n>>] = "fired" /\ timer'[<<h, n>>] = "run"
        BY <2>1, <2>2 DEF TimersOf, Stopped, Becomes
      <3>3. pending'[h] = 0 /\ UNCHANGED <<newConns, sent>>
        BY <1>11, <2>2 DEF PendingTimeout, ConnInv
      <3> QED
        BY <2>1, <3>1, <3>2, <3>3 DEF TimersOf, ConnInv
    <2> QED
      BY <2>3, <2>4, <2>5, OneConnection
  <1>12. ASSUME NEW h \in Hdls, OnOpen(h) PROVE TimerInv'
    <2>1. TimersOf(h) /\ pending[h] \in 0..MaxRequests /\ 0 \in 0..MaxRequests
      BY Effects DEF TimerInv, ConnInv
    <2>2. Becomes(h, 0, "idle", "armed")
      BY <1>12, Effects
    <2>3. timer' \in [Timers -> TimerStates]
      BY <2>2 DEF TimerInv, Stopped, Becomes, OthersKept
    <2>4. \A g \in Hdls \ {h} : Same(g)
      BY <1>12, <2>2 DEF OnOpen, ConnInv, Same, Stopped, Becomes, OthersKept
    <2>5. TimersOf(h)'
      <3>1. \A m \in 0..MaxRequests :
              m # 0 => timer'[<<h, m>>] = timer[<<h, m>>]
        BY <2>2 DEF Stopped, Becomes, OthersKept
      <3>2. timer'[<<h, 0>>] = "armed"
        BY <2>1, <2>2 DEF TimersOf, Stopped, Becomes
      <3>3. h \in newConns' /\ UNCHANGED <<pending, sent>>
        BY <1>12, <2>2 DEF OnOpen, ConnInv
      <3> QED
        BY <2>1, <3>1, <3>2, <3>3 DEF TimersOf, ConnInv
    <2> QED
      BY <2>3, <2>4, <2>5, OneConnection
  <1>13. ASSUME NEW h \in Hdls, OnMessage(h) PROVE TimerInv'
    <2>1. TimersOf(h) /\ sent[h] \in Nat /\ sent'[h] = sent[h] + 1
          /\ UNCHANGED <<newConns, pending, timer>>
      BY <1>13 DEF OnMessage, maps, timerVar, TimerInv, ConnInv
    <2>2. timer' \in [Timers -> TimerStates] /\ \A g \in Hdls \ {h} : Same(g)
      BY <1>13, <2>1 DEF OnMessage, Same, TimerInv, ConnInv
    <2>3. TimersOf(h)'
      BY <2>1 DEF TimersOf
    <2> QED
      BY <2>2, <2>3, OneConnection
  <1>14. ASSUME NEW h \in Hdls, PeerCloses(h) PROVE TimerInv'
    BY <1>14 DEF PeerCloses, maps, timerVar, TimerInv, TimersOf
  <1>15. ASSUME NEW q, q \in asked, Answer(q) PROVE TimerInv'
    BY <1>15 DEF Answer, maps, timerVar, TimerInv, TimersOf
  <1>16. ASSUME NEW p \in Players, KickPlayer(p) PROVE TimerInv'
    BY <1>16 DEF KickPlayer, timerVar, TimerInv, TimersOf
  <1>17. ASSUME NEW t \in Timers, FireTimer(t) PROVE TimerInv'
    <2>1. PICK h \in Hdls, n \in 0..MaxRequests : t = <<h, n>>
      BY DEF Timers
    <2>2. Becomes(h, n, "armed", "fired") /\ TimersOf(h)
      BY <1>17, <2>1, Effects DEF TimerInv
    <2>3. UNCHANGED <<newConns, pending, sent>>
      BY <1>17 DEF FireTimer, maps
    <2>4. timer' \in [Timers -> TimerStates] /\ \A g \in Hdls \ {h} : Same(g)
      BY <2>2, <2>3 DEF Becomes, OthersKept, Same
    <2>5. TimersOf(h)'
      BY <2>2, <2>3 DEF ConnInv, TimersOf, Becomes, OthersKept
    <2> QED
      BY <2>4, <2>5, OneConnection
  <1>18. CASE UNCHANGED vars
    BY <1>18 DEF vars, maps, timerVar, TimerInv, TimersOf
  <1> QED
    BY <1>1, <1>2, <1>3, <1>4, <1>5, <1>6, <1>7, <1>8, <1>9, <1>10, <1>11,
       <1>12, <1>13, <1>14, <1>15, <1>16, <1>17, <1>18
       DEF Next, ListenerStep, MainStep, Environment, Finished

-----------------------------------------------------------------------------
(* A request is in one place at a time *)

InTasks(h)    == \E i \in DOMAIN tasks : tasks[i].hdl = h
InAsked(h)    == \E q \in asked : q.hdl = h
InMain(h)     == main.at # "idle" /\ main.task.hdl = h
InListener(h) == listener.at = "message" /\ listener.hdl = h

OneTask(h)     == \A i, j \in DOMAIN tasks :
                    tasks[i].hdl = h /\ tasks[j].hdl = h => i = j
OneQuestion(h) == \A q, r \in asked : q.hdl = h /\ r.hdl = h => q = r

(* From the listener by way of the task list, the main thread and the      *)
(* questions to confirmed.                                                 *)
OnePlace(h) ==
  /\ OneTask(h) /\ OneQuestion(h)
  /\ InTasks(h) => ~InAsked(h) /\ ~InMain(h)
  /\ InAsked(h) => ~InMain(h)
  /\ InTasks(h) \/ InAsked(h) \/ InMain(h) =>
       ~InListener(h) /\ h \notin confirmed
  /\ InListener(h) => h \notin confirmed

(* The task list holds more of it than the request itself. *)
TaskOnItsWay(h) ==
  \E i \in DOMAIN tasks : tasks[i].hdl = h /\ tasks[i].step # "request"

(* The connection has been taken out of new_connections_. *)
OnItsWay(h) == TaskOnItsWay(h) \/ InAsked(h) \/ InMain(h) \/ h \in confirmed

Stage(h) ==
  /\ sent[h] = 1 =>
       /\ OnePlace(h)
       /\ OnItsWay(h) => h \notin newConns
       /\ main.at = "confirm" /\ InMain(h) => pending[h] = 0
       /\ h \in confirmed => pending[h] = 0
  /\ sent[h] # 0 => conn[h] # "none"
  /\ h \in confirmed => sent[h] # 0

(* What keeps a confirmed connection out of a timeout's reach. *)
StageInv ==
  /\ \A h \in Hdls : Stage(h)
  /\ \A p \in Players : players[p] # None => players[p] \in confirmed

LEMMA Taken ==
  ASSUME WorkInv, NEW step, TaskReady(step), NEW g \in Hdls
  PROVE  /\ InTasks(Head(tasks).hdl)
         /\ step # "request" => TaskOnItsWay(Head(tasks).hdl)
         /\ InTasks(g)' => InTasks(g)
         /\ TaskOnItsWay(g)' => TaskOnItsWay(g)
         /\ OneTask(g) => OneTask(g)'
         /\ OneTask(g) /\ g = Head(tasks).hdl => ~InTasks(g)' /\ ~TaskOnItsWay(g)'
  <1>1. /\ 1 \in DOMAIN tasks /\ Head(tasks) = tasks[1]
        /\ \A i \in DOMAIN tasks' :
             i + 1 \in DOMAIN tasks /\ tasks'[i] = tasks[i + 1]
        /\ tasks' \in Seq(Requests)
    BY TaskTaken
  <1>2. \A i \in DOMAIN tasks' : i \in Nat /\ i # 0
    <2>1. DOMAIN tasks' = 1..Len(tasks') /\ Len(tasks') \in Nat
      BY <1>1, LenProperties
    <2> QED
      BY <2>1
  <1>3. Head(tasks).step = step
    BY DEF TaskReady
  <1>4. OneTask(g) => OneTask(g)'
    BY <1>1, <1>2 DEF OneTask
  <1>5. OneTask(g) /\ g = Head(tasks).hdl => ~InTasks(g)' /\ ~TaskOnItsWay(g)'
    BY <1>1, <1>2 DEF OneTask, InTasks, TaskOnItsWay
  <1> QED
    BY <1>1, <1>3, <1>4, <1>5 DEF InTasks, TaskOnItsWay

LEMMA Added ==
  ASSUME WorkInv, NEW r \in Requests, tasks' = Append(tasks, r), NEW g \in Hdls
  PROVE  /\ InTasks(g)' => InTasks(g) \/ r.hdl = g
         /\ TaskOnItsWay(g)' =>
              TaskOnItsWay(g) \/ (r.hdl = g /\ r.step # "request")
         /\ OneTask(g) /\ (r.hdl = g => ~InTasks(g)) => OneTask(g)'
  <1>1. tasks \in Seq(Requests)
    BY DEF WorkInv
  <1>2. /\ tasks' \in Seq(Requests)
        /\ Len(tasks') = Len(tasks) + 1
        /\ \A i \in 1..Len(tasks) : tasks'[i] = tasks[i]
        /\ tasks'[Len(tasks) + 1] = r
    BY <1>1, AppendProperties
  <1>3. Len(tasks) \in Nat /\ DOMAIN tasks = 1..Len(tasks)
    BY <1>1, LenProperties
  <1>4. DOMAIN tasks' = 1..(Len(tasks) + 1)
    BY <1>2, LenProperties
  <1>5. \A i \in DOMAIN tasks' :
          \/ i \in DOMAIN tasks /\ tasks'[i] = tasks[i]
          \/ i = Len(tasks) + 1 /\ tasks'[i] = r
    BY <1>2, <1>3, <1>4
  <1>6. OneTask(g) /\ (r.hdl = g => ~InTasks(g)) => OneTask(g)'
    BY <1>5 DEF OneTask, InTasks
  <1> QED
    BY <1>5, <1>6 DEF InTasks, TaskOnItsWay

(* A request in some place has been sent. *)
LEMMA PlacesSent ==
  ASSUME ConnInv, WorkInv, SentInv, NEW h \in Hdls,
         InTasks(h) \/ InAsked(h) \/ InMain(h) \/ InListener(h)
  PROVE  sent[h] # 0
  <1>1. sent[h] \in Nat
    BY WsServerAssumption DEF ConnInv
  <1>2. tasks \in Seq(Requests)
    BY DEF WorkInv
  <1>3. \A i \in DOMAIN tasks : tasks[i] \in Requests
    BY <1>2, LenProperties, ElementOfSeq
  <1>4. CASE InTasks(h)
    BY <1>1, <1>3, <1>4, Fields DEF InTasks, SentInv, Sent
  <1>5. CASE InAsked(h)
    <2>1. PICK q \in asked : q.hdl = h
      BY <1>5 DEF InAsked
    <2>2. q \in Questions /\ q.n <= sent[h]
      BY <2>1 DEF WorkInv, SentInv, Sent
    <2>3. q.n \in Nat /\ q.n >= 1
      BY <2>2, Fields, WsServerAssumption
    <2> QED
      BY <1>1, <2>2, <2>3
  <1>6. CASE InMain(h)
    BY <1>1, <1>6, Fields, Turns DEF InMain, SentInv, Sent
  <1>7. CASE InListener(h)
    BY <1>1, <1>7 DEF InListener, SentInv
  <1> QED
    BY <1>4, <1>5, <1>6, <1>7

(* Most steps end entries and move no request. *)
LEMMA NoMove ==
  ASSUME ConnInv, WorkInv, StageInv, UNCHANGED <<tasks, asked, main, confirmed, sent>>,
         UNCHANGED listener \/ listener'.at # "message",
         newConns' \subseteq newConns,
         \A h \in Hdls : /\ pending'[h] \in {0, pending[h]}
                         /\ conn[h] # "none" => conn'[h] # "none",
         \A p \in Players : players'[p] \in {None, players[p]}
  PROVE  StageInv'
  <1>1. ASSUME NEW h \in Hdls PROVE Stage(h)'
    <2>1. Stage(h)
      BY DEF StageInv
    <2>2. /\ InTasks(h)' <=> InTasks(h)
          /\ InAsked(h)' <=> InAsked(h)
          /\ InMain(h)' <=> InMain(h)
          /\ InListener(h)' => InListener(h)
          /\ OneTask(h)' <=> OneTask(h)
          /\ OneQuestion(h)' <=> OneQuestion(h)
          /\ TaskOnItsWay(h)' <=> TaskOnItsWay(h)
      BY DEF InTasks, InAsked, InMain, InListener, OneTask, OneQuestion,
             TaskOnItsWay
    <2>3. OnePlace(h) => OnePlace(h)'
      BY <2>2 DEF OnePlace
    <2>4. OnItsWay(h)' <=> OnItsWay(h)
      BY <2>2 DEF OnItsWay
    <2> QED
      BY <2>1, <2>2, <2>3, <2>4 DEF Stage
  <1> QED
    BY <1>1 DEF StageInv

(* What a step on one connection leaves of another, or of the same.        *)
LEMMA StageStep ==
  PlayersInv /\ ConnInv /\ WorkInv /\ SentInv /\ StageInv /\ [Next]_vars => StageInv'
  <1> SUFFICES ASSUME PlayersInv, ConnInv, WorkInv, SentInv, StageInv, [Next]_vars
               PROVE  StageInv'
    OBVIOUS
  <1> USE WsServerAssumption DEF Idle
  <1> DEFINE NoneButConfirmed ==
               \A p \in Players : players[p] # None => players[p] \in confirmed
  <1>a. \A h \in Hdls : Stage(h) /\ sent[h] \in Nat
    BY DEF StageInv, ConnInv
  <1>b. NoneButConfirmed
    BY DEF StageInv
  <1>1. ASSUME OnMessageNew PROVE StageInv'
    <2>1. PICK d \in Hdls : d = listener.hdl
      BY <1>1, Turns DEF OnMessageNew, ListenerAt
    <2>2. CASE d \in newConns
      <3>1. PICK r \in Requests :
              /\ r.hdl = d /\ r.step = "request" /\ tasks' = Append(tasks, r)
        <4>1. PICK b \in BOOLEAN :
                tasks' = Append(tasks, [step |-> "request", hdl |-> d,
                                        n |-> sent[d], ok |-> b])
          BY <1>1, <2>1, <2>2 DEF OnMessageNew
        <4>2. sent[d] \in 1..MaxRequests
          BY <1>1, <2>1 DEF OnMessageNew, ListenerAt, ConnInv, SentInv
        <4> QED
          BY <4>1, <4>2, Fields
      <3>2. ASSUME NEW h \in Hdls PROVE Stage(h)'
        <4>1. /\ InTasks(h)' => InTasks(h) \/ h = d
              /\ TaskOnItsWay(h)' => TaskOnItsWay(h)
              /\ OneTask(h) /\ (h = d => ~InTasks(h)) => OneTask(h)'
          BY <3>1, Added
        <4>2. /\ InListener(d) /\ ~InListener(h)'
              /\ UNCHANGED <<conn, sent, newConns, pending, asked, main, confirmed>>
          BY <1>1, <2>1
             DEF OnMessageNew, ListenerAt, InListener, maps, history
        <4>3. /\ InAsked(h)' <=> InAsked(h)
              /\ InMain(h)' <=> InMain(h)
              /\ OneQuestion(h)' <=> OneQuestion(h)
          BY <4>2 DEF InAsked, InMain, OneQuestion
        <4> QED
          BY <1>a, <4>1, <4>2, <4>3 DEF Stage, OnePlace, OnItsWay
      <3> QED
        BY <1>1, <1>b, <3>2 DEF OnMessageNew, maps, history, StageInv
    <2>3. CASE d \notin newConns
      <3>1. /\ UNCHANGED <<tasks, asked, main, confirmed, sent, newConns, pending,
                           conn, players>>
            /\ listener'.at # "message"
        BY <1>1, <2>1, <2>3 DEF OnMessageNew, maps, history
      <3> QED
        BY <3>1, NoMove
    <2> QED
      BY <2>2, <2>3
  <1>2. ASSUME OnClosePending PROVE StageInv'
    <2>1. /\ UNCHANGED <<tasks, asked, main, confirmed, sent, newConns, conn,
                         players>>
          /\ listener'.at # "message"
          /\ \A h \in Hdls : pending'[h] \in {0, pending[h]}
      BY <1>2 DEF OnClosePending, ConnInv, history
    <2> QED
      BY <2>1, NoMove
  <1>3. ASSUME OnClosePlayer PROVE StageInv'
    <2>1. /\ UNCHANGED <<tasks, asked, main, confirmed, sent, newConns, pending>>
          /\ listener'.at # "message"
          /\ \A h \in Hdls : conn[h] # "none" => conn'[h] # "none"
          /\ \A p \in Players : players'[p] \in {None, players[p]}
      BY <1>3 DEF OnClosePlayer, ConnInv, history
    <2> QED
      BY <2>1, NoMove
  <1>4. ASSUME NEW h \in Hdls, OnCloseNew(h) PROVE StageInv'
    <2>1. /\ UNCHANGED <<tasks, asked, main, confirmed, sent, pending, conn,
                         players>>
          /\ listener'.at # "message" /\ newConns' \subseteq newConns
      BY <1>4 DEF OnCloseNew, history
    <2> QED
      BY <2>1, NoMove
  <1>5. ASSUME Request PROVE StageInv'
    <2>1. TaskReady("request") /\ ~InMain(Head(tasks).hdl)
      BY <1>5 DEF Request, TaskReady, MainAt, InMain
    <2>2. PICK d \in Hdls : d = Head(tasks).hdl
      BY <2>1, TaskTaken, Fields
    <2>3. ASSUME NEW h \in Hdls PROVE Stage(h)'
      <3>1. /\ InTasks(d)
            /\ InTasks(h)' => InTasks(h)
            /\ TaskOnItsWay(h)' => TaskOnItsWay(h)
            /\ OneTask(h) => OneTask(h)'
            /\ OneTask(h) /\ h = d => ~InTasks(h)' /\ ~TaskOnItsWay(h)'
        BY <2>1, <2>2, Taken
      <3>2. UNCHANGED <<conn, sent, pending, asked, listener, confirmed>>
        BY <1>5 DEF Request, history
      <3>3. \/ UNCHANGED <<newConns, main>>
            \/ /\ newConns' = newConns \ {d}
               /\ main'.at = "pend" /\ main'.task.hdl = d
        BY <1>5, <2>2 DEF Request, Turn
      <3>4. /\ InAsked(h)' <=> InAsked(h)
            /\ InListener(h)' <=> InListener(h)
            /\ OneQuestion(h)' <=> OneQuestion(h)
            /\ ~InMain(h)
            /\ InMain(h)' => h = d /\ main'.at = "pend" /\ d \notin newConns'
            /\ newConns' \subseteq newConns
        BY <2>1, <3>2, <3>3
           DEF InAsked, InMain, InListener, OneQuestion, TaskReady, MainAt
      <3> QED
        BY <1>a, <3>1, <3>2, <3>4 DEF Stage, OnePlace, OnItsWay
    <2> QED
      BY <1>5, <1>b, <2>3 DEF Request, history, StageInv
  <1>6. ASSUME Pend PROVE StageInv'
    <2>1. PICK d \in Hdls : d = main.task.hdl
      BY <1>6, Turns, Fields DEF Pend, MainAt
    <2>2. ASSUME NEW h \in Hdls PROVE Stage(h)'
      <3>1. UNCHANGED <<conn, sent, newConns, tasks, listener, confirmed>>
        BY <1>6 DEF Pend, history
      <3>2. PICK q : q.hdl = d /\ asked' = asked \cup {q}
        BY <1>6, <2>1 DEF Pend
      <3>3. /\ h # d => pending'[h] = pending[h]
            /\ InMain(d) /\ ~InMain(h)' /\ main'.at = "idle"
        BY <1>6, <2>1 DEF Pend, MainAt, InMain, ConnInv
      <3>4. /\ InTasks(h)' <=> InTasks(h)
            /\ TaskOnItsWay(h)' <=> TaskOnItsWay(h)
            /\ OneTask(h)' <=> OneTask(h)
            /\ InListener(h)' <=> InListener(h)
        BY <3>1 DEF InTasks, TaskOnItsWay, OneTask, InListener
      <3>5. /\ InAsked(h)' => InAsked(h) \/ h = d
            /\ OneQuestion(h) /\ (h = d => ~InAsked(h)) => OneQuestion(h)'
        BY <3>2 DEF InAsked, OneQuestion
      <3> QED
        BY <1>a, <3>1, <3>3, <3>4, <3>5 DEF Stage, OnePlace, OnItsWay
    <2> QED
      BY <1>6, <1>b, <2>2 DEF Pend, history, StageInv
  <1>7. ASSUME Exchanged PROVE StageInv'
    <2>1. TaskReady("exchanged")
      BY <1>7 DEF Exchanged
    <2>2. PICK d \in Hdls : d = Head(tasks).hdl
      BY <2>1, TaskTaken, Fields
    <2>3. ASSUME NEW h \in Hdls PROVE Stage(h)'
      <3>1. /\ InTasks(d) /\ TaskOnItsWay(d)
            /\ InTasks(h)' => InTasks(h)
            /\ TaskOnItsWay(h)' => TaskOnItsWay(h)
            /\ OneTask(h) => OneTask(h)'
            /\ OneTask(h) /\ h = d => ~InTasks(h)' /\ ~TaskOnItsWay(h)'
        BY <2>1, <2>2, Taken
      <3>2. UNCHANGED <<conn, sent, newConns, pending, main, listener, confirmed>>
        BY <1>7 DEF Exchanged, maps, history
      <3>3. PICK q : q.hdl = d /\ asked' \in {asked, asked \cup {q}}
        BY <1>7, <2>2 DEF Exchanged
      <3>4. /\ InMain(h)' <=> InMain(h)
            /\ InListener(h)' <=> InListener(h)
        BY <3>2 DEF InMain, InListener
      <3>5. /\ InAsked(h)' => InAsked(h) \/ h = d
            /\ OneQuestion(h) /\ (h = d => ~InAsked(h)) => OneQuestion(h)'
        BY <3>3 DEF InAsked, OneQuestion
      <3> QED
        BY <1>a, <3>1, <3>2, <3>4, <3>5 DEF Stage, OnePlace, OnItsWay
    <2> QED
      BY <1>7, <1>b, <2>3 DEF Exchanged, maps, history, StageInv
  <1>8. ASSUME Verified PROVE StageInv'
    <2>1. TaskReady("verified")
      BY <1>8 DEF Verified
    <2>2. PICK d \in Hdls : d = Head(tasks).hdl
      BY <2>1, TaskTaken, Fields
    <2>3. ASSUME NEW h \in Hdls PROVE Stage(h)'
      <3>1. /\ InTasks(d) /\ TaskOnItsWay(d)
            /\ InTasks(h)' => InTasks(h)
            /\ TaskOnItsWay(h)' => TaskOnItsWay(h)
            /\ OneTask(h) => OneTask(h)'
            /\ OneTask(h) /\ h = d => ~InTasks(h)' /\ ~TaskOnItsWay(h)'
        BY <2>1, <2>2, Taken
      <3>2. UNCHANGED <<conn, sent, newConns, asked, listener, confirmed>>
        BY <1>8 DEF Verified, history
      <3>3. /\ InMain(h)' <=> h = d
            /\ ~InMain(h)
        BY <1>8, <2>1, <2>2 DEF Verified, Turn, InMain, TaskReady, MainAt
      <3>4. pending'[h] \in {0, pending[h]} /\ pending'[d] = 0
        BY <1>8, <2>2 DEF Verified, ConnInv
      <3>5. /\ InAsked(h)' <=> InAsked(h)
            /\ InListener(h)' <=> InListener(h)
            /\ OneQuestion(h)' <=> OneQuestion(h)
        BY <3>2 DEF InAsked, InListener, OneQuestion
      <3> QED
        BY <1>a, <3>1, <3>2, <3>3, <3>4, <3>5 DEF Stage, OnePlace, OnItsWay
    <2> QED
      BY <1>8, <1>b, <2>3 DEF Verified, history, StageInv
  <1>9. ASSUME Confirm PROVE StageInv'
    <2>1. PICK d \in Hdls : d = main.task.hdl
      BY <1>9, Turns, Fields DEF Confirm, MainAt
    <2>2. InMain(d) /\ main.at = "confirm" /\ main'.at = "idle"
      BY <1>9, <2>1 DEF Confirm, MainAt, InMain
    <2>3. sent[d] # 0
      BY <2>2, PlacesSent
    <2>4. ASSUME NEW h \in Hdls PROVE Stage(h)'
      <3>1. UNCHANGED <<sent, newConns, pending, tasks, asked, listener>>
        BY <1>9 DEF Confirm
      <3>2. /\ h \in confirmed' => h \in confirmed \/ h = d
            /\ conn[h] # "none" => conn'[h] # "none"
        BY <1>9, <2>1 DEF Confirm, CloseOrThrow, ConnInv
      <3>3. /\ InTasks(h)' <=> InTasks(h)
            /\ TaskOnItsWay(h)' <=> TaskOnItsWay(h)
            /\ OneTask(h)' <=> OneTask(h)
            /\ InAsked(h)' <=> InAsked(h)
            /\ InListener(h)' <=> InListener(h)
            /\ OneQuestion(h)' <=> OneQuestion(h)
            /\ ~InMain(h)'
        BY <2>2, <3>1 DEF InTasks, TaskOnItsWay, OneTask, InAsked, InListener,
           OneQuestion, InMain
      <3> QED
        BY <1>a, <2>2, <2>3, <3>1, <3>2, <3>3 DEF Stage, OnePlace, OnItsWay
    <2>5. NoneButConfirmed'
      BY <1>9, <1>b, <2>1 DEF Confirm, InsertOrUpdate
    <2> QED
      BY <2>4, <2>5 DEF StageInv
  <1>10. ASSUME NEW h \in Hdls, OpenTimeout(h) PROVE StageInv'
    <2>1. /\ UNCHANGED <<tasks, asked, main, confirmed, sent, pending, players,
                         listener>>
          /\ newConns' \subseteq newConns
          /\ \A g \in Hdls : conn[g] # "none" => conn'[g] # "none"
      BY <1>10 DEF OpenTimeout, CloseOrThrow, ConnInv, history
    <2> QED
      BY <2>1, NoMove
  <1>11. ASSUME NEW h \in Hdls, NEW n \in 1..MaxRequests,
                PendingTimeout(h, n)
         PROVE  StageInv'
    <2>1. /\ UNCHANGED <<tasks, asked, main, confirmed, sent, newConns, players,
                         listener>>
          /\ \A g \in Hdls : /\ pending'[g] \in {0, pending[g]}
                             /\ conn[g] # "none" => conn'[g] # "none"
      BY <1>11 DEF PendingTimeout, CloseOrThrow, ConnInv, history
    <2> QED
      BY <2>1, NoMove
  <1>12. ASSUME NEW d \in Hdls, OnOpen(d) PROVE StageInv'
    <2>1. ASSUME NEW h \in Hdls PROVE Stage(h)'
      <3>1. /\ UNCHANGED <<sent, pending, tasks, asked, main, listener, confirmed>>
            /\ conn[d] = "none"
            /\ conn[h] # "none" => conn'[h] # "none"
            /\ h # d => (h \in newConns' <=> h \in newConns)
        BY <1>12 DEF OnOpen, ConnInv, history
      <3>2. /\ InTasks(h)' <=> InTasks(h)
            /\ TaskOnItsWay(h)' <=> TaskOnItsWay(h)
            /\ OneTask(h)' <=> OneTask(h)
            /\ InAsked(h)' <=> InAsked(h)
            /\ InListener(h)' <=> InListener(h)
            /\ OneQuestion(h)' <=> OneQuestion(h)
            /\ InMain(h)' <=> InMain(h)
        BY <3>1 DEF InTasks, TaskOnItsWay, OneTask, InAsked, InListener,
           OneQuestion, InMain
      <3> QED
        BY <1>a, <3>1, <3>2 DEF Stage, OnePlace, OnItsWay
    <2> QED
      BY <1>12, <1>b, <2>1 DEF OnOpen, history, StageInv
  <1>13. ASSUME NEW d \in Hdls, OnMessage(d) PROVE StageInv'
    <2>1. ASSUME NEW h \in Hdls PROVE Stage(h)'
      <3>1. /\ UNCHANGED <<conn, newConns, pending, tasks, asked, main, confirmed>>
            /\ conn[d] = "open"
            /\ h # d => sent'[h] = sent[h]
            /\ sent'[d] = sent[d] + 1
            /\ InListener(h)' => h = d
            /\ ~InListener(h)
        BY <1>13 DEF OnMessage, ConnInv, maps, history, InListener, ListenerAt
      <3>2. /\ InTasks(h)' <=> InTasks(h)
            /\ TaskOnItsWay(h)' <=> TaskOnItsWay(h)
            /\ OneTask(h)' <=> OneTask(h)
            /\ InAsked(h)' <=> InAsked(h)
            /\ OneQuestion(h)' <=> OneQuestion(h)
            /\ InMain(h)' <=> InMain(h)
        BY <3>1 DEF InTasks, TaskOnItsWay, OneTask, InAsked, OneQuestion, InMain
      <3>3. CASE h # d
        BY <1>a, <3>1, <3>2, <3>3 DEF Stage, OnePlace, OnItsWay
      <3>4. CASE h = d /\ sent[h] = 0
        <4>1. ~InTasks(h) /\ ~InAsked(h) /\ ~InMain(h) /\ h \notin confirmed
          BY <1>a, <3>4, PlacesSent DEF Stage
        <4>2. OneTask(h) /\ OneQuestion(h) /\ ~TaskOnItsWay(h)
          BY <4>1
             DEF OneTask, OneQuestion, TaskOnItsWay, InTasks, InAsked
        <4> QED
          BY <3>1, <3>2, <3>4, <4>1, <4>2 DEF Stage, OnePlace, OnItsWay
      <3>5. CASE h = d /\ sent[h] # 0
        <4>1. sent'[h] # 1 /\ sent'[h] # 0
          BY <1>a, <3>1, <3>5
        <4> QED
          BY <3>1, <3>5, <4>1 DEF Stage
      <3> QED
        BY <3>3, <3>4, <3>5
    <2> QED
      BY <1>13, <1>b, <2>1 DEF OnMessage, maps, history, StageInv
  <1>14. ASSUME NEW h \in Hdls, PeerCloses(h) PROVE StageInv'
    <2>1. /\ UNCHANGED <<tasks, asked, main, confirmed, sent, newConns, pending,
                         players, listener>>
          /\ \A g \in Hdls : conn[g] # "none" => conn'[g] # "none"
      BY <1>14 DEF PeerCloses, ConnInv, maps, history
    <2> QED
      BY <2>1, NoMove
  <1>15. ASSUME NEW q, q \in asked, Answer(q) PROVE StageInv'
    <2>1. PICK d \in Hdls : d = q.hdl
      BY <1>15, Fields DEF WorkInv
    <2>2. PICK r \in Requests : r.hdl = d /\ tasks' = Append(tasks, r)
      <3>1. PICK b \in BOOLEAN :
              tasks' = Append(tasks, [step |-> q.step, hdl |-> q.hdl, n |-> q.n,
                                      ok |-> b])
        BY <1>15 DEF Answer
      <3>2. q \in Questions
        BY <1>15 DEF WorkInv
      <3> QED
        BY <2>1, <3>1, <3>2, Fields
    <2>3. ASSUME NEW h \in Hdls PROVE Stage(h)'
      <3>1. /\ InTasks(h)' => InTasks(h) \/ h = d
            /\ TaskOnItsWay(h)' => TaskOnItsWay(h) \/ h = d
            /\ OneTask(h) /\ (h = d => ~InTasks(h)) => OneTask(h)'
        BY <2>2, Added
      <3>2. /\ UNCHANGED <<conn, sent, newConns, pending, main, listener, confirmed>>
            /\ asked' = asked \ {q}
        BY <1>15 DEF Answer, maps, history
      <3>3. /\ InAsked(d)
            /\ InAsked(h)' => InAsked(h)
            /\ OneQuestion(h) => OneQuestion(h)'
            /\ OneQuestion(h) /\ h = d => ~InAsked(h)'
        BY <1>15, <2>1, <3>2 DEF InAsked, OneQuestion
      <3>4. /\ InMain(h)' <=> InMain(h)
            /\ InListener(h)' <=> InListener(h)
        BY <3>2 DEF InMain, InListener
      <3> QED
        BY <1>a, <3>1, <3>2, <3>3, <3>4 DEF Stage, OnePlace, OnItsWay
    <2> QED
      BY <1>15, <1>b, <2>3 DEF Answer, maps, history, StageInv
  <1>16. ASSUME NEW p \in Players, KickPlayer(p) PROVE StageInv'
    <2>1. /\ UNCHANGED <<tasks, asked, main, confirmed, sent, newConns, pending,
                         listener>>
          /\ \A g \in Hdls : conn[g] # "none" => conn'[g] # "none"
          /\ \A x \in Players : players'[x] \in {None, players[x]}
      <3>1. UNCHANGED players \/ players' = [players EXCEPT ![p] = None]
        BY <1>16 DEF KickPlayer
      <3>2. \A x \in Players : players'[x] \in {None, players[x]}
        BY <3>1 DEF PlayersInv
      <3> QED
        BY <1>16, <3>2 DEF KickPlayer, ConnInv
    <2> QED
      BY <2>1, NoMove
  <1>17. ASSUME NEW t \in Timers, FireTimer(t) PROVE StageInv'
    <2>1. UNCHANGED <<tasks, asked, main, confirmed, sent, newConns, pending,
                      players, listener, conn>>
      BY <1>17 DEF FireTimer, maps, history
    <2> QED
      BY <2>1, NoMove
  <1>18. CASE UNCHANGED vars
    <2>1. UNCHANGED <<tasks, asked, main, confirmed, sent, newConns, pending,
                      players, listener, conn>>
      BY <1>18 DEF vars, maps, history
    <2> QED
      BY <2>1, NoMove
  <1> QED
    BY <1>1, <1>2, <1>3, <1>4, <1>5, <1>6, <1>7, <1>8, <1>9, <1>10, <1>11,
       <1>12, <1>13, <1>14, <1>15, <1>16, <1>17, <1>18
       DEF Next, ListenerStep, MainStep, Environment, Finished

-----------------------------------------------------------------------------

LEMMA ServerInit == Init => ServerInv
  <1> SUFFICES ASSUME Init PROVE ServerInv
    OBVIOUS
  <1> USE WsServerAssumption
  <1>1. PlayersInv /\ ConnInv /\ NetStateFollowsMap
    BY DEF Init, PlayersInv, ConnInv, NetStateFollowsMap, States
  <1>2. TimerInv
    BY DEF Init, TimersInit, TimerInv, TimersOf, Timers, TimerStates
  <1>3. <<>> \in Seq(Requests) /\ DOMAIN <<>> = {}
    BY EmptySeq
  <1>4. WorkInv /\ SentInv
    BY <1>3 DEF Init, WorkInv, SentInv, Idle
  <1> QED
    BY <1>1, <1>2, <1>4 DEF ServerInv

(* The maps, the timers, the work under way and what the game was told     *)
(* agree, however the three threads interleave.                            *)
THEOREM ServerInvariant == Spec => []ServerInv
  <1>1. ServerInv /\ [Next]_vars => ServerInv'
    BY PlayersStep, NetStep, ConnStep, WorkStep, SentStep, TimerStep
       DEF ServerInv
  <1> QED
    BY <1>1, ServerInit, PTL DEF Spec

(* Every variable of the WebSocket server keeps its type, connections      *)
(* belong to the player of their token, and an entry that waits has a      *)
(* timer that has not run.                                                 *)
THEOREM ServerTyped == Spec => []TypeOK
  <1>1. ServerInv => TypeOK
    BY
       DEF ServerInv, PlayersInv, ConnInv, TimerInv, TimersOf, TimerStates,
           TypeOK
  <1> QED
    BY <1>1, ServerInvariant, PTL

(* The game's view of a player follows player_connections_ through         *)
(* reconnects, closes that come late and rejected confirmations.           *)
THEOREM ServerNetState == Spec => []NetStateFollowsMap
  <1>1. ServerInv => NetStateFollowsMap
    BY DEF ServerInv
  <1> QED
    BY <1>1, ServerInvariant, PTL

(* A timer that can still fire is named by an entry of its connection.     *)
THEOREM ServerTimers == Spec => []NoOrphanTimers
  <1>1. ServerInv => NoOrphanTimers
    BY DEF ServerInv, TimerInv, TimersOf, NoOrphanTimers
  <1> QED
    BY <1>1, ServerInvariant, PTL

(* A request is in one place at a time, and its connection has left        *)
(* new_connections_ by then; a confirmed one has no entry that waits.      *)
THEOREM ServerStaged == Spec => []StageInv
  <1>1. Init => StageInv
    <2> SUFFICES ASSUME Init PROVE StageInv
      OBVIOUS
    <2>1. \A p \in Players : players[p] = None
      BY DEF Init
    <2>2. ASSUME NEW h \in Hdls PROVE Stage(h)
      BY DEF Init, Stage
    <2> QED
      BY <2>1, <2>2 DEF StageInv
  <1>2. ServerInv /\ StageInv /\ [Next]_vars => StageInv'
    BY StageStep DEF ServerInv
  <1> QED
    BY <1>1, <1>2, ServerInvariant, PTL DEF Spec

(* A timeout that has fired by the time its connection is confirmed does   *)
(* not close it.                                                           *)
THEOREM ServerConfirmed == Spec => ConfirmedStay
  <1> DEFINE Stays(h, n) ==
               timer[<<h, n>>] = "fired" /\ timer'[<<h, n>>] = "run" /\ sent[h] = 1
               /\ h \in {players[p] : p \in Players} => conn'[h] = conn[h]
  <1>1. ServerInv /\ StageInv /\ [Next]_vars =>
          [\A h \in Hdls : \A n \in 0..MaxRequests : Stays(h, n)]_vars
    <2> SUFFICES ASSUME ServerInv, StageInv, [Next]_vars, ~UNCHANGED vars,
                        NEW h \in Hdls, NEW n \in 0..MaxRequests,
                        timer[<<h, n>>] = "fired", timer'[<<h, n>>] = "run",
                        sent[h] = 1, NEW p \in Players, players[p] = h
                 PROVE  conn'[h] = conn[h]
      BY DEF Stays
    <2> USE WsServerAssumption
    <2>1. ConnInv /\ TimerInv /\ WorkInv
      BY DEF ServerInv
    <2>2. h \in confirmed /\ h \notin newConns /\ pending[h] = 0
      BY DEF StageInv, Stage, OnItsWay
    <2>3. ASSUME NEW g \in Hdls, OpenTimeout(g)
          PROVE  conn'[h] = conn[h]
      BY <2>1, <2>2, <2>3 DEF OpenTimeout, CloseOrThrow, ConnInv
    <2>4. ASSUME NEW g \in Hdls, NEW m \in 1..MaxRequests, PendingTimeout(g, m)
          PROVE  conn'[h] = conn[h]
      BY <2>1, <2>2, <2>4 DEF PendingTimeout, CloseOrThrow, ConnInv
    <2>5. ~UNCHANGED timer
      OBVIOUS
    <2>6. CASE OnMessageNew \/ OnClosePending \/ Request \/ Pend \/ Exchanged
                 \/ Verified \/ (\E g \in Hdls : OnCloseNew(g) \/ OnMessage(g))
                 \/ (\E q \in asked : Answer(q)) \/ (\E t \in Timers : FireTimer(t))
      BY <2>6 DEF OnMessageNew, OnClosePending, Request, Pend, Exchanged,
         Verified, OnCloseNew, OnMessage, Answer, FireTimer
    <2>7. CASE OnClosePlayer \/ Confirm
                 \/ (\E g \in Hdls : PeerCloses(g))
                 \/ (\E r \in Players : KickPlayer(r)) \/ Finished
      BY <2>5, <2>7 DEF OnClosePlayer, Confirm, PeerCloses, KickPlayer, Finished,
         vars, timerVar
    <2>8. ASSUME NEW g \in Hdls, OnOpen(g)
          PROVE  FALSE
      <3>1. timer' = [timer EXCEPT ![<<g, 0>>] = "armed"]
        BY <2>8 DEF OnOpen, Arm
      <3>2. timer \in [Timers -> TimerStates] /\ <<h, n>> \in Timers
        BY <2>1 DEF TimerInv, Timers
      <3> QED
        BY <3>1, <3>2
    <2> QED
      BY <2>3, <2>4, <2>6, <2>7, <2>8
         DEF Next, ListenerStep, MainStep, Environment
  <1> QED
    BY <1>1, ServerInvariant, ServerStaged, PTL DEF Spec, ConfirmedStay

=============================================================================
