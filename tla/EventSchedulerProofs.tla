------------------------ MODULE EventSchedulerProofs ------------------------
(***************************************************************************)
(* Proofs about module EventScheduler, for any tasks and times: no task is *)
(* early, none is later than one sleep and two delays of the thread, and   *)
(* only a tie loses one.                                                   *)
(***************************************************************************)
EXTENDS EventScheduler, FiniteSetTheorems, TLAPS

(* Any set of times has a least one: the one with the fewest times before  *)
(* it.                                                                     *)
LEMMA LeastTime ==
  ASSUME NEW S \in SUBSET Nat, S # {}
  PROVE  \E x \in S : \A y \in S : x <= y
<1> DEFINE Past == {0..n : n \in S}
<1>1. \A n \in Nat : 0..n \in FiniteSubsetsOf(Nat)
  BY FS_Interval DEF FiniteSubsetsOf
<1>2. Past \subseteq FiniteSubsetsOf(Nat) /\ Past # {}
  BY <1>1
<1>3. PICK p \in Past : \A q \in Past : <<q, p>> \notin StrictSubsetOrdering(Nat)
  BY <1>2, FS_StrictSubsetOrderingWellFounded, WFMin
<1>4. PICK x \in S : p = 0..x
  OBVIOUS
<1>5. ASSUME NEW y \in S, y < x PROVE FALSE
  <2>1. <<0..y, 0..x>> \notin StrictSubsetOrdering(Nat)
    BY <1>3, <1>4
  <2>2. 0..y \in SUBSET Nat /\ 0..x \in SUBSET Nat /\ 0..y \subseteq 0..x
    BY <1>5
  <2>3. 0..y # 0..x
    BY <1>5
  <2>4. QED
    BY <2>1, <2>2, <2>3 DEF StrictSubsetOrdering
<1>6. QED
  BY <1>5

LEMMA MinIsLeast ==
  ASSUME NEW S \in SUBSET Nat, S # {}
  PROVE  Min(S) \in S /\ \A y \in S : Min(S) <= y
BY LeastTime DEF Min

LEMMA MaxOfTwo ==
  ASSUME NEW a \in Nat, NEW b \in Nat
  PROVE  Max({a, b}) = IF a >= b THEN a ELSE b
BY DEF Max

-----------------------------------------------------------------------------
(* The inductive invariant *)

(* A task that was not scheduled is nowhere, and the set holds one task    *)
(* for a time point.                                                       *)
SetInv ==
  /\ \A t \in Tasks :
       timePoint[t] = -1 => posted[t] = -1 /\ popped # t /\ t \notin cancelled
  /\ scheduled \cap cancelled = {}
  /\ \A s, t \in scheduled : timePoint[s] = timePoint[t] => s = t

(* The loop only takes what is due. *)
DueInv ==
  /\ popped # None => timePoint[popped] <= loopNow
  /\ \A t \in Tasks : posted[t] # -1 => timePoint[t] <= posted[t]

(* The thread keeps its deadlines, and is not gone while it is needed. *)
LoopInv ==
  /\ pc # "exited" => now <= Deadline
  /\ isRunning => pc # "exited"
  /\ pc \in {"block", "wait", "top"} => waitUntil <= loopNow + Poll

(* How late the loop may look at a task: after flushing, no task in the    *)
(* set is due, and it sleeps no longer than one Poll beyond it.            *)
LateInv ==
  owner = "alive" =>
    \A t \in scheduled \cup ({popped} \ {None}) :
      /\ pc \in {"flush", "post"} => loopNow <= timePoint[t] + Poll + Lag
      /\ pc \in {"decide", "block", "wait", "top"} => loopNow <= timePoint[t]
      /\ pc \in {"block", "wait", "top"} => waitUntil <= timePoint[t] + Poll

EventInv == TypeOK /\ SetInv /\ DueInv /\ LoopInv /\ LateInv

LEMMA FirstIsLeast ==
  ASSUME TypeOK, scheduled # {}
  PROVE  /\ First \in scheduled
         /\ \A s \in scheduled : timePoint[First] <= timePoint[s]
<1> DEFINE S == {timePoint[t] : t \in scheduled}
<1>1. S \in SUBSET Nat /\ S # {}
  BY TimeAssumption DEF TypeOK
<1> HIDE DEF S
<1>2. PICK x \in S : \A y \in S : x <= y
  BY <1>1, LeastTime
<1>3. PICK t \in scheduled : x = timePoint[t]
  BY DEF S
<1>4. \A s \in scheduled : timePoint[t] <= timePoint[s]
  BY <1>2, <1>3 DEF S
<1>5. QED
  BY <1>4 DEF First

(* The deadline, without Max.                                              *)
LEMMA DeadlineIs ==
  ASSUME TypeOK
  PROVE  /\ Deadline \in Nat
         /\ pc \notin {"wait", "top"} => Deadline = loopNow + Lag
         /\ pc \in {"wait", "top"} =>
              IF waitUntil >= loopNow + Lag
              THEN Deadline = waitUntil + Lag
              ELSE Deadline = loopNow + Lag + Lag
<1>1. waitUntil \in Nat /\ loopNow + Lag \in Nat /\ Lag \in Nat
  BY TimeAssumption DEF TypeOK, End
<1>2. QED
  BY <1>1, MaxOfTwo DEF Deadline

(* What Decide waits for. *)
LEMMA DecideWaits ==
  ASSUME TypeOK, Decide
  PROVE  /\ waitUntil' \in Nat /\ waitUntil' <= loopNow + Poll
         /\ \A t \in scheduled : waitUntil' <= timePoint[t]
<1> DEFINE S == {loopNow + Poll} \cup {timePoint[t] : t \in scheduled}
<1>1. S \in SUBSET Nat /\ S # {}
  BY TimeAssumption DEF TypeOK
<1>2. Min(S) \in S /\ \A y \in S : Min(S) <= y
  BY <1>1, MinIsLeast
<1>3. waitUntil' = Min(S)
  BY DEF Decide
<1>4. QED
  BY <1>1, <1>2, <1>3

(* The types are kept.                                                     *)
LEMMA TypesKept ==
  ASSUME EventInv, [Next]_vars
  PROVE  TypeOK'
<1> USE TimeAssumption DEF EventInv, TypeOK, SetInv, LoopInv, Taken, End, Due
<1>1. ASSUME NEW t \in Tasks, CancelTask(t) PROVE TypeOK'
  BY <1>1 DEF CancelTask, loopVars
<1>2. ASSUME NEW t \in Tasks, NEW p \in 1..Horizon, Schedule(t, p)
      PROVE  TypeOK'
  BY <1>2 DEF Schedule, loopVars
<1>3. CASE Top
  BY <1>3 DEF Top, taskVars, loopVars
<1>4. CASE Pop
  BY <1>4, FirstIsLeast DEF Pop, taskVars, loopVars
<1>5. CASE Post
  BY <1>5 DEF Post, taskVars, loopVars
<1>6. CASE FlushEnd
  BY <1>6 DEF FlushEnd, taskVars, loopVars
<1>7. CASE Decide
  BY <1>7, DecideWaits DEF Decide, taskVars, loopVars
<1>8. CASE Sleep
  BY <1>8 DEF Sleep, taskVars, loopVars
<1>9. CASE WakeUp
  BY <1>9 DEF WakeUp, taskVars, loopVars
<1>10. CASE Destroy
  BY <1>10 DEF Destroy, taskVars, loopVars
<1>11. CASE NotifyOne
  BY <1>11 DEF NotifyOne, taskVars, loopVars
<1>12. CASE Join
  BY <1>12 DEF Join, taskVars, loopVars
<1>13. CASE Tick
  BY <1>13 DEF Tick, taskVars, loopVars
<1>14. CASE UNCHANGED vars
  BY <1>14 DEF vars, taskVars, loopVars
<1>15. QED
  BY <1>1, <1>2, <1>3, <1>4, <1>5, <1>6, <1>7, <1>8,
     <1>9, <1>10, <1>11, <1>12, <1>13, <1>14
     DEF Next, LoopStep, OwnerStep, TimedOut, SpuriousWake, Finished

LEMMA DeadlineIsNext ==
  ASSUME EventInv, [Next]_vars
  PROVE  /\ Deadline' \in Nat
         /\ pc' \notin {"wait", "top"} => Deadline' = loopNow' + Lag
         /\ pc' \in {"wait", "top"} =>
              IF waitUntil' >= loopNow' + Lag
              THEN Deadline' = waitUntil' + Lag
              ELSE Deadline' = loopNow' + Lag + Lag
<1>1. /\ waitUntil' \in Nat /\ loopNow' \in Nat /\ loopNow' + Lag \in Nat
      /\ Lag \in Nat
  BY TypesKept, TimeAssumption DEF TypeOK, End
<1>2. PICK w \in Nat, l \in Nat : w = waitUntil' /\ l = loopNow' + Lag
  BY <1>1
<1>3. Max({w, l}) = IF w >= l THEN w ELSE l
  BY <1>2, MaxOfTwo
<1>4. Deadline' = IF pc' \in {"wait", "top"} THEN Max({w, l}) + Lag ELSE l
  BY <1>2 DEF Deadline
<1>5. w = waitUntil' /\ l = loopNow' + Lag
  BY <1>2
<1>6. CASE pc' \in {"wait", "top"}
  <2>1. Deadline' = (IF w >= l THEN w ELSE l) + Lag
    BY <1>3, <1>4, <1>6
  <2>2. Deadline' \in Nat
    BY <1>1, <2>1
  <2>3. w >= l => Deadline' = w + Lag
    BY <2>1
  <2>4. ~(w >= l) => Deadline' = l + Lag
    BY <2>1
  <2>5. QED
    BY <1>5, <1>6, <2>2, <2>3, <2>4
<1>7. CASE pc' \notin {"wait", "top"}
  BY <1>1, <1>4, <1>5, <1>7
<1>8. QED
  BY <1>6, <1>7

(* The set keeps one task for a time point.                                *)
LEMMA SetKept ==
  ASSUME EventInv, [Next]_vars
  PROVE  SetInv'
<1> USE TimeAssumption DEF EventInv, TypeOK, SetInv, Taken, Due
<1>1. ASSUME NEW t \in Tasks, CancelTask(t) PROVE SetInv'
  BY <1>1 DEF CancelTask, loopVars
<1>2. ASSUME NEW t \in Tasks, NEW p \in 1..Horizon, Schedule(t, p)
      PROVE  SetInv'
  BY <1>2 DEF Schedule, loopVars
<1>3. CASE Top
  BY <1>3 DEF Top, taskVars, loopVars
<1>4. CASE Pop
  BY <1>4, FirstIsLeast DEF Pop, taskVars, loopVars
<1>5. CASE Post
  BY <1>5 DEF Post, taskVars, loopVars
<1>6. CASE FlushEnd
  BY <1>6 DEF FlushEnd, taskVars, loopVars
<1>7. CASE Decide
  BY <1>7 DEF Decide, taskVars, loopVars
<1>8. CASE Sleep
  BY <1>8 DEF Sleep, taskVars, loopVars
<1>9. CASE WakeUp
  BY <1>9 DEF WakeUp, taskVars, loopVars
<1>10. CASE Destroy
  BY <1>10 DEF Destroy, taskVars, loopVars
<1>11. CASE NotifyOne
  BY <1>11 DEF NotifyOne, taskVars, loopVars
<1>12. CASE Join
  BY <1>12 DEF Join, taskVars, loopVars
<1>13. CASE Tick
  BY <1>13 DEF Tick, taskVars, loopVars
<1>14. CASE UNCHANGED vars
  BY <1>14 DEF vars, taskVars, loopVars
<1>15. QED
  BY <1>1, <1>2, <1>3, <1>4, <1>5, <1>6, <1>7, <1>8,
     <1>9, <1>10, <1>11, <1>12, <1>13, <1>14
     DEF Next, LoopStep, OwnerStep, TimedOut, SpuriousWake, Finished

(* Nothing is taken before it is due.                                      *)
LEMMA DueKept ==
  ASSUME EventInv, [Next]_vars
  PROVE  DueInv'
<1> USE TimeAssumption DEF EventInv, TypeOK, SetInv, DueInv, Due
<1>1. ASSUME NEW t \in Tasks, CancelTask(t) PROVE DueInv'
  BY <1>1 DEF CancelTask, loopVars
<1>2. ASSUME NEW t \in Tasks, NEW p \in 1..Horizon, Schedule(t, p)
      PROVE  DueInv'
  BY <1>2 DEF Schedule, loopVars
<1>3. CASE Top
  BY <1>3 DEF Top, taskVars, loopVars
<1>4. CASE Pop
  BY <1>4, FirstIsLeast DEF Pop, taskVars, loopVars
<1>5. CASE Post
  BY <1>5 DEF Post, taskVars, loopVars
<1>6. CASE FlushEnd
  BY <1>6 DEF FlushEnd, taskVars, loopVars
<1>7. CASE Decide
  BY <1>7 DEF Decide, taskVars, loopVars
<1>8. CASE Sleep
  BY <1>8 DEF Sleep, taskVars, loopVars
<1>9. CASE WakeUp
  BY <1>9 DEF WakeUp, taskVars, loopVars
<1>10. CASE Destroy
  BY <1>10 DEF Destroy, taskVars, loopVars
<1>11. CASE NotifyOne
  BY <1>11 DEF NotifyOne, taskVars, loopVars
<1>12. CASE Join
  BY <1>12 DEF Join, taskVars, loopVars
<1>13. CASE Tick
  BY <1>13 DEF Tick, taskVars, loopVars
<1>14. CASE UNCHANGED vars
  BY <1>14 DEF vars, taskVars, loopVars
<1>15. QED
  BY <1>1, <1>2, <1>3, <1>4, <1>5, <1>6, <1>7, <1>8,
     <1>9, <1>10, <1>11, <1>12, <1>13, <1>14
     DEF Next, LoopStep, OwnerStep, TimedOut, SpuriousWake, Finished

(* The loop keeps its deadlines.                                           *)
LEMMA LoopKept ==
  ASSUME EventInv, [Next]_vars
  PROVE  LoopInv'
<1> USE TimeAssumption DEF EventInv, TypeOK, LoopInv
<1>1. ASSUME NEW t \in Tasks, CancelTask(t) PROVE LoopInv'
  BY <1>1, DeadlineIs, DeadlineIsNext DEF CancelTask, loopVars
<1>2. ASSUME NEW t \in Tasks, NEW p \in 1..Horizon, Schedule(t, p)
      PROVE  LoopInv'
  BY <1>2, DeadlineIs, DeadlineIsNext DEF Schedule, loopVars
<1>3. CASE Top
  BY <1>3, DeadlineIs, DeadlineIsNext DEF Top, taskVars, loopVars
<1>4. CASE Pop
  BY <1>4, DeadlineIs, DeadlineIsNext DEF Pop, taskVars, loopVars
<1>5. CASE Post
  BY <1>5, DeadlineIs, DeadlineIsNext DEF Post, taskVars, loopVars
<1>6. CASE FlushEnd
  BY <1>6, DeadlineIs, DeadlineIsNext DEF FlushEnd, taskVars, loopVars
<1>7. CASE Decide
  BY <1>7, DeadlineIs, DeadlineIsNext, DecideWaits DEF Decide, taskVars, loopVars
<1>8. CASE Sleep
  BY <1>8, DeadlineIs, DeadlineIsNext DEF Sleep, taskVars, loopVars
<1>9. CASE WakeUp
  BY <1>9, DeadlineIs, DeadlineIsNext DEF WakeUp, taskVars, loopVars
<1>10. CASE Destroy
  BY <1>10, DeadlineIs, DeadlineIsNext DEF Destroy, taskVars, loopVars
<1>11. CASE NotifyOne
  BY <1>11, DeadlineIs, DeadlineIsNext DEF NotifyOne, taskVars, loopVars
<1>12. CASE Join
  BY <1>12, DeadlineIs, DeadlineIsNext DEF Join, taskVars, loopVars
<1>13. CASE Tick
  BY <1>13, DeadlineIs, DeadlineIsNext DEF Tick, taskVars, loopVars
<1>14. CASE UNCHANGED vars
  BY <1>14, DeadlineIs, DeadlineIsNext DEF vars, taskVars, loopVars
<1>15. QED
  BY <1>1, <1>2, <1>3, <1>4, <1>5, <1>6, <1>7, <1>8,
     <1>9, <1>10, <1>11, <1>12, <1>13, <1>14
     DEF Next, LoopStep, OwnerStep, TimedOut, SpuriousWake, Finished

(* The loop never falls too far behind a task.                             *)
LEMMA LateKept ==
  ASSUME EventInv, [Next]_vars
  PROVE  LateInv'
<1> USE TimeAssumption DEF EventInv, TypeOK, SetInv, LoopInv, LateInv, Due
<1>1. ASSUME NEW t \in Tasks, CancelTask(t) PROVE LateInv'
  BY <1>1 DEF CancelTask, loopVars
<1>2. ASSUME NEW t \in Tasks, NEW p \in 1..Horizon, Schedule(t, p)
      PROVE  LateInv'
  BY <1>2 DEF Schedule, loopVars
<1>3. CASE Top
  BY <1>3, DeadlineIs DEF Top, taskVars, loopVars
<1>4. CASE Pop
  BY <1>4, FirstIsLeast DEF Pop, taskVars, loopVars
<1>5. CASE Post
  BY <1>5 DEF Post, taskVars, loopVars
<1>6. CASE FlushEnd
  BY <1>6, FirstIsLeast DEF FlushEnd, taskVars, loopVars
<1>7. CASE Decide
  BY <1>7, DecideWaits DEF Decide, taskVars, loopVars
<1>8. CASE Sleep
  BY <1>8 DEF Sleep, taskVars, loopVars
<1>9. CASE WakeUp
  BY <1>9 DEF WakeUp, taskVars, loopVars
<1>10. CASE Destroy
  BY <1>10 DEF Destroy, taskVars, loopVars
<1>11. CASE NotifyOne
  BY <1>11 DEF NotifyOne, taskVars, loopVars
<1>12. CASE Join
  BY <1>12 DEF Join, taskVars, loopVars
<1>13. CASE Tick
  BY <1>13 DEF Tick, taskVars, loopVars
<1>14. CASE UNCHANGED vars
  BY <1>14 DEF vars, taskVars, loopVars
<1>15. QED
  BY <1>1, <1>2, <1>3, <1>4, <1>5, <1>6, <1>7, <1>8,
     <1>9, <1>10, <1>11, <1>12, <1>13, <1>14
     DEF Next, LoopStep, OwnerStep, TimedOut, SpuriousWake, Finished

LEMMA EventInvInit == Init => EventInv
<1> SUFFICES ASSUME Init PROVE EventInv
  OBVIOUS
<1>1. TypeOK
  <2>1. 0 \in 0..End /\ 0 \in 0..(End + Poll)
    BY TimeAssumption DEF End
  <2>2. [t \in Tasks |-> -1] \in [Tasks -> -1..Horizon]
        /\ [t \in Tasks |-> -1] \in [Tasks -> -1..End]
    BY <2>1, TimeAssumption DEF End
  <2>3. timePoint \in [Tasks -> -1..Horizon] /\ posted \in [Tasks -> -1..End]
    BY ONLY <2>2, Init DEF Init
  <2>4. isRunning = (owner = "alive")
    BY ONLY Init DEF Init
  <2>5. QED
    BY <2>1, <2>3, <2>4, TimeAssumption DEF Init, TypeOK
<1>2. QED
  BY <1>1, DeadlineIs, TimeAssumption
     DEF Init, EventInv, SetInv, DueInv, LoopInv, LateInv

(* The inductive invariant.                                                *)
THEOREM EventInvariant == Spec => []EventInv
<1>1. EventInv /\ [Next]_vars => EventInv'
  BY TypesKept, SetKept, DueKept, LoopKept, LateKept DEF EventInv
<1>2. QED
  BY EventInvInit, <1>1, PTL DEF Spec

-----------------------------------------------------------------------------
(* What follows from it *)

(* Every variable has its type, and a task is in one place at a time.      *)
THEOREM EventTyped == Spec => []TypeOK
<1>1. EventInv => TypeOK
  BY DEF EventInv
<1>2. QED
  BY <1>1, EventInvariant, PTL

(* No task is early, and while the scheduler lives none waits longer than  *)
(* one sleep and two delays of the thread beyond its time.                 *)
THEOREM EventsOnTime == Spec => []OnTime
<1>1. EventInv => OnTime
  <2> SUFFICES ASSUME EventInv, NEW t \in Tasks
               PROVE  /\ posted[t] # -1 => posted[t] >= timePoint[t]
                      /\ t \in scheduled \cup {popped} /\ owner = "alive" =>
                           now <= timePoint[t] + Poll + 2 * Lag
    BY DEF OnTime
  <2> USE TimeAssumption
  <2>1. posted[t] # -1 => posted[t] >= timePoint[t]
    BY DEF EventInv, TypeOK, DueInv
  <2>2. ASSUME t \in scheduled \cup {popped}, owner = "alive"
        PROVE  now <= timePoint[t] + Poll + 2 * Lag
    <3>1. pc # "exited" /\ now <= Deadline
      BY <2>2 DEF EventInv, TypeOK, LoopInv
    <3>2. t \in scheduled \cup ({popped} \ {None})
      BY <2>2
    <3>3. pc \in {"decide", "block", "wait", "top"} => popped # t
      BY DEF EventInv, TypeOK
    <3>4. CASE pc \in {"wait", "top"}
      BY <2>2, <3>1, <3>2, <3>3, <3>4, DeadlineIs
         DEF EventInv, TypeOK, LateInv
    <3>5. CASE pc \in {"flush", "post"}
      BY <2>2, <3>1, <3>2, <3>5, DeadlineIs DEF EventInv, TypeOK, LateInv
    <3>6. CASE pc \in {"decide", "block"}
      BY <2>2, <3>1, <3>2, <3>3, <3>6, DeadlineIs
         DEF EventInv, TypeOK, LateInv
    <3>7. QED
      BY <3>1, <3>4, <3>5, <3>6 DEF EventInv, TypeOK
  <2>3. QED
    BY <2>1, <2>2
<1>2. QED
  BY <1>1, EventInvariant, PTL

(* Only a tie loses a task: one that was scheduled and not cancelled is in *)
(* the set or taken, or another has the same time point.                   *)
THEOREM EventsKept == Spec => []KeptUnlessTied
<1>1. Init => KeptUnlessTied
  BY DEF Init, KeptUnlessTied
<1>2. EventInv /\ KeptUnlessTied /\ [Next]_vars => KeptUnlessTied'
  <2> SUFFICES ASSUME EventInv, KeptUnlessTied, [Next]_vars
               PROVE  KeptUnlessTied'
    OBVIOUS
  <2> USE TimeAssumption DEF KeptUnlessTied, Taken
  <2>1. ASSUME NEW t \in Tasks, CancelTask(t) PROVE KeptUnlessTied'
    BY <2>1 DEF CancelTask, loopVars
  <2>2. ASSUME NEW t \in Tasks, NEW p \in 1..Horizon, Schedule(t, p)
        PROVE  KeptUnlessTied'
    <3>1. \A s \in Tasks \ {t} : timePoint'[s] = timePoint[s]
      BY <2>2 DEF Schedule, EventInv, TypeOK
    <3>2. timePoint'[t] = p /\ timePoint[t] = -1
      BY <2>2 DEF Schedule, EventInv, TypeOK
    <3>3. t \in scheduled' \/ \E s \in Tasks \ {t} : timePoint'[s] = p
      BY <2>2, <3>1, <3>2 DEF Schedule, EventInv, TypeOK
    <3>4. ASSUME NEW s \in Tasks \ {t}, timePoint'[s] # -1
          PROVE  \/ s \in scheduled' \cup cancelled' \/ Taken(s)'
                 \/ \E r \in Tasks \ {s} : timePoint'[r] = timePoint'[s]
      BY <2>2, <3>1, <3>2, <3>4 DEF Schedule, loopVars
    <3>5. QED
      BY <3>2, <3>3, <3>4
  <2>3. CASE Pop
    BY <2>3, FirstIsLeast DEF Pop, Due, taskVars, EventInv, TypeOK
  <2>4. CASE Post
    BY <2>4 DEF Post, EventInv, TypeOK, End
  <2>5. CASE Top \/ FlushEnd \/ Decide \/ Sleep \/ WakeUp
    BY <2>5 DEF Top, FlushEnd, Decide, Sleep, WakeUp, taskVars
  <2>6. CASE Destroy \/ NotifyOne \/ Join \/ Tick \/ UNCHANGED vars
    BY <2>6 DEF Destroy, NotifyOne, Join, Tick, vars, taskVars, loopVars
  <2>7. QED
    BY <2>1, <2>2, <2>3, <2>4, <2>5, <2>6
       DEF Next, LoopStep, OwnerStep, TimedOut, SpuriousWake, Finished
<1>3. QED
  BY <1>1, <1>2, EventInvariant, PTL DEF Spec

-----------------------------------------------------------------------------
(* Refinement *)

(* Only the timer of t changes, from one state to another. *)
LEMMA TimerMoves ==
  ASSUME NEW t \in Tasks, NEW x, TimerState(t)' = x,
         \A s \in Tasks \ {t} : TimerState(s)' = TimerState(s)
  PROVE  [s \in Tasks |-> TimerState(s)]' =
           [[s \in Tasks |-> TimerState(s)] EXCEPT ![t] = x]
OBVIOUS

(* No timer changes. *)
LEMMA TimersStay ==
  ASSUME \A s \in Tasks : TimerState(s)' = TimerState(s)
  PROVE  [s \in Tasks |-> TimerState(s)]' = [s \in Tasks |-> TimerState(s)]
OBVIOUS

(* Every step of the scheduler is a step of the contract, or none.         *)
LEMMA TimerStep ==
  ASSUME EventInv, [Next]_vars
  PROVE  [Contract!TimersNext]_(Contract!timerVars)
<1> USE TimeAssumption DEF Contract!TimersNext, Contract!timerVars, Taken
<1>1. ASSUME NEW t \in Tasks, CancelTask(t)
      PROVE  Contract!Cancel(t) \/ UNCHANGED Contract!timerVars
  <2>1. \A s \in Tasks \ {t} : TimerState(s)' = TimerState(s)
    BY <1>1 DEF CancelTask, TimerState, loopVars
  <2>2. CASE TimerState(t) \in {"fired", "cancelled"}
    <3>1. TimerState(t)' = TimerState(t)
      BY <1>1, <2>2 DEF CancelTask, TimerState, loopVars
    <3>2. QED
      BY <1>1, <2>1, <3>1, TimersStay DEF CancelTask
  <2>3. CASE TimerState(t) \in {"idle", "armed"}
    <3>1. TimerState(t)' = "cancelled"
      BY <1>1, <2>3 DEF CancelTask, TimerState, loopVars
    <3>2. QED
      BY <1>1, <2>1, <2>3, <3>1, TimerMoves DEF CancelTask, Contract!Cancel
  <2>4. QED
    BY <2>2, <2>3 DEF TimerState
<1>2. ASSUME NEW t \in Tasks, NEW p \in 1..Horizon, Schedule(t, p)
      PROVE  Contract!Arm(t) \/ UNCHANGED Contract!timerVars
  <2>1. \A s \in Tasks \ {t} : TimerState(s)' = TimerState(s)
    BY <1>2 DEF Schedule, TimerState, loopVars
  <2>2. TimerState(t) = "idle"
    BY <1>2 DEF Schedule, TimerState, EventInv, SetInv, TypeOK
  <2>3. CASE t \in scheduled'
    <3>1. TimerState(t)' = "armed"
      BY <1>2, <2>2, <2>3 DEF Schedule, TimerState, loopVars
    <3>2. QED
      BY <1>2, <2>1, <2>2, <3>1, TimerMoves DEF Schedule, Contract!Arm
  <2>4. CASE t \notin scheduled'
    <3>1. TimerState(t)' = TimerState(t)
      BY <1>2, <2>2, <2>4 DEF Schedule, TimerState, loopVars
    <3>2. QED
      BY <1>2, <2>1, <3>1, TimersStay DEF Schedule
  <2>5. QED
    BY <2>3, <2>4
<1>3. CASE Pop
  <2>1. First \in scheduled /\ First \in Tasks
    BY <1>3, FirstIsLeast DEF Pop, Due, EventInv, TypeOK
  <2>2. PICK t \in Tasks : t = First
    BY <2>1
  <2>3. popped = None
    BY <1>3 DEF Pop, EventInv, TypeOK
  <2>4. TimerState(t) = "armed" /\ TimerState(t)' = "fired"
    BY <1>3, <2>1, <2>2, <2>3
       DEF Pop, TimerState, EventInv, SetInv, TypeOK, taskVars
  <2>5. \A s \in Tasks \ {t} : TimerState(s)' = TimerState(s)
    BY <1>3, <2>2, <2>3 DEF Pop, TimerState, taskVars
  <2>6. Contract!Fire(t)
    BY <1>3, <2>4, <2>5, TimerMoves DEF Pop, Contract!Fire
  <2>7. QED
    BY <2>6
<1>4. CASE Post
  <2>1. \A s \in Tasks : TimerState(s)' = TimerState(s)
    BY <1>4 DEF Post, TimerState, EventInv, TypeOK, End
  <2>2. QED
    BY <1>4, <2>1, TimersStay DEF Post
<1>5. CASE Top \/ FlushEnd \/ Decide \/ Sleep \/ WakeUp
  <2>1. \A s \in Tasks : TimerState(s)' = TimerState(s)
    BY <1>5 DEF Top, FlushEnd, Decide, Sleep, WakeUp, TimerState, taskVars
  <2>2. QED
    BY <1>5, <2>1, TimersStay DEF Top, FlushEnd, Decide, Sleep, WakeUp
<1>6. CASE Destroy \/ NotifyOne \/ Join \/ Tick \/ UNCHANGED vars
  <2>1. \A s \in Tasks : TimerState(s)' = TimerState(s)
    BY <1>6 DEF Destroy, NotifyOne, Join, Tick, vars, TimerState, taskVars,
       loopVars
  <2>2. QED
    BY <1>6, <2>1, TimersStay
       DEF Destroy, NotifyOne, Join, Tick, vars, Contract!Stop
<1>7. QED
  BY <1>1, <1>2, <1>3, <1>4, <1>5, <1>6
     DEF Next, LoopStep, OwnerStep, TimedOut, SpuriousWake, Finished

(* The safety part of ImplementsTimers: a task is taken at most once, and  *)
(* never after a cancel that found it.                                     *)
THEOREM TimersSafe ==
  Spec => Contract!TimersInit /\ [][Contract!TimersNext]_(Contract!timerVars)
<1>1. Init => Contract!TimersInit
  <2> SUFFICES ASSUME Init PROVE Contract!TimersInit
    OBVIOUS
  <2>1. \A t \in Tasks : TimerState(t) = "idle"
    BY TimeAssumption DEF Init, TimerState, Taken
  <2>2. (~isRunning) = FALSE
    BY DEF Init
  <2>3. QED
    BY <2>1, <2>2 DEF Contract!TimersInit
<1>2. QED
  BY <1>1, TimerStep, EventInvariant, PTL DEF Spec

=============================================================================
