--------------------------- MODULE EventScheduler ---------------------------
(***************************************************************************)
(* The game server's EventScheduler (server/util/event_scheduler.h, .cc):  *)
(* a thread that hands tasks to a task list at a set time.  Any thread     *)
(* schedules and cancels; the owner destroys the scheduler.                *)
(*                                                                         *)
(* scheduled_tasks_lock_ guards each access to the set, so each locked     *)
(* section is one step.  A task that was popped is posted after the lock   *)
(* is released.  The condition variable is notified by the destructor      *)
(* only, and without its mutex.                                            *)
(*                                                                         *)
(* Time is counted in ticks.  Lag bounds how long a thread that can run    *)
(* is kept from running: one round of the loop takes at most Lag, and so   *)
(* does waking up.  A delay is no longer than a sleep.                     *)
(***************************************************************************)
EXTENDS Integers, FiniteSetsExt

CONSTANTS
  Tasks,    (* schedule_task calls, each with an id of its own             *)
  Horizon,  (* bound: the latest time point asked for                      *)
  Poll,     (* how long the loop sleeps at most (25 ms)                    *)
  Lag,      (* see above                                                   *)
  None

ASSUME TimeAssumption ==
  /\ Horizon \in Nat /\ Poll \in Nat \ {0} /\ Lag \in 0..Poll
  /\ None \notin Tasks

VARIABLES
  now,        (* the clock                                                 *)
  timePoint,  (* what each task was scheduled for, -1 before               *)
  scheduled,  (* the tasks in scheduled_tasks_                             *)
  posted,     (* when each task was handed to its task list, -1 before     *)
  cancelled,  (* history: tasks cancelled before the loop took them        *)
  isRunning,  (* is_running_                                               *)
  owner,      (* "alive", in the destructor ("notify", "join"), "gone"     *)
  pc,         (* where the event loop is                                   *)
  loopNow,    (* its local now                                             *)
  popped,     (* its local next_task                                       *)
  waitUntil   (* its local wait_until_point                                *)

taskVars == <<timePoint, posted, cancelled>>
loopVars == <<pc, loopNow, popped, waitUntil>>
vars     == <<now, taskVars, scheduled, isRunning, owner, loopVars>>

(* bound: by then every task has been posted *)
End == Horizon + Poll + 2 * Lag

First == CHOOSE t \in scheduled :
           \A s \in scheduled : timePoint[t] <= timePoint[s]

-----------------------------------------------------------------------------

Init ==
  /\ now = 0
  /\ timePoint = [t \in Tasks |-> -1]
  /\ scheduled = {}
  /\ posted = [t \in Tasks |-> -1]
  /\ cancelled = {}
  /\ isRunning = TRUE
  /\ owner = "alive"
  /\ pc = "top"
  /\ loopNow = 0
  /\ popped = None
  /\ waitUntil = 0

(* schedule_task.  The std::set compares time points only: a task whose    *)
(* time point is taken gets an id, but is not inserted.                    *)
Schedule(t, p) ==
  /\ owner = "alive"
  /\ timePoint[t] = -1
  /\ p > now
  /\ timePoint' = [timePoint EXCEPT ![t] = p]
  /\ scheduled' = IF \E s \in scheduled : timePoint[s] = p
                  THEN scheduled ELSE scheduled \cup {t}
  /\ UNCHANGED <<now, posted, cancelled, isRunning, owner, loopVars>>

(* The loop has popped the task. *)
Taken(t) == popped = t \/ posted[t] # -1

(* mutant: the first entry is erased, not the one found                    *)
CancelFirst(t) ==
  /\ owner = "alive"
  /\ timePoint[t] # -1
  /\ cancelled' = IF Taken(t) THEN cancelled ELSE cancelled \cup {t}
  /\ scheduled' = IF t \in scheduled THEN scheduled \ {First} ELSE scheduled
  /\ UNCHANGED <<now, timePoint, posted, isRunning, owner, loopVars>>

(* cancel_task: a task that was popped already is not found *)
CancelTask(t) ==
  /\ owner = "alive"
  /\ timePoint[t] # -1
  /\ scheduled' = scheduled \ {t}
  /\ cancelled' = IF Taken(t) THEN cancelled ELSE cancelled \cup {t}
  /\ UNCHANGED <<now, timePoint, posted, isRunning, owner, loopVars>>

-----------------------------------------------------------------------------
(* The event loop *)

(* while (is_running_), and the time of this round *)
Top ==
  /\ pc = "top"
  /\ pc' = IF isRunning THEN "flush" ELSE "exited"
  /\ loopNow' = IF isRunning THEN now ELSE loopNow
  /\ UNCHANGED <<now, taskVars, scheduled, isRunning, owner, popped,
                 waitUntil>>

Due == scheduled # {} /\ timePoint[First] <= loopNow

(* mutant: whatever is due within a sleep is taken                         *)
PopSoon ==
  /\ pc = "flush"
  /\ scheduled # {} /\ timePoint[First] <= loopNow + Poll
  /\ popped' = First
  /\ scheduled' = scheduled \ {First}
  /\ pc' = "post"
  /\ UNCHANGED <<now, taskVars, isRunning, owner, loopNow, waitUntil>>

(* take the first expired task out of the set ... *)
Pop ==
  /\ pc = "flush"
  /\ Due
  /\ popped' = First
  /\ scheduled' = scheduled \ {First}
  /\ pc' = "post"
  /\ UNCHANGED <<now, taskVars, isRunning, owner, loopNow, waitUntil>>

(* ... and hand it to its task list, without the lock *)
Post ==
  /\ pc = "post"
  /\ posted' = [posted EXCEPT ![popped] = now]
  /\ popped' = None
  /\ pc' = "flush"
  /\ UNCHANGED <<now, timePoint, cancelled, scheduled, isRunning, owner,
                 loopNow, waitUntil>>

FlushEnd ==
  /\ pc = "flush"
  /\ ~Due
  /\ pc' = "decide"
  /\ UNCHANGED <<now, taskVars, scheduled, isRunning, owner, loopNow, popped,
                 waitUntil>>

(* mutant: the sleep is not cut short for a task                           *)
DecideLong ==
  /\ pc = "decide"
  /\ waitUntil' = loopNow + 2 * Poll
  /\ pc' = "block"
  /\ UNCHANGED <<now, taskVars, scheduled, isRunning, owner, loopNow, popped>>

(* mutant: with nothing scheduled the sleep has no end                     *)
DecideForever ==
  /\ pc = "decide"
  /\ waitUntil' = IF scheduled = {} THEN End + 1 ELSE timePoint[First]
  /\ pc' = "block"
  /\ UNCHANGED <<now, taskVars, scheduled, isRunning, owner, loopNow, popped>>

(* decide how long to wait *)
Decide ==
  /\ pc = "decide"
  /\ waitUntil' = Min({loopNow + Poll} \cup {timePoint[t] : t \in scheduled})
  /\ pc' = "block"
  /\ UNCHANGED <<now, taskVars, scheduled, isRunning, owner, loopNow, popped>>

(* condvar_.wait_until: a notification before the thread blocks is lost *)
Sleep ==
  /\ pc = "block"
  /\ pc' = "wait"
  /\ UNCHANGED <<now, taskVars, scheduled, isRunning, owner, loopNow, popped,
                 waitUntil>>

WakeUp ==
  /\ pc = "wait"
  /\ pc' = "top"
  /\ UNCHANGED <<now, taskVars, scheduled, isRunning, owner, loopNow, popped,
                 waitUntil>>

TimedOut == now >= waitUntil /\ WakeUp

SpuriousWake == now < waitUntil /\ WakeUp

LoopStep ==
  Top \/ Pop \/ Post \/ FlushEnd \/ Decide \/ Sleep \/ TimedOut

-----------------------------------------------------------------------------
(* The destructor *)

Destroy ==
  /\ owner = "alive"
  /\ now <= Horizon    (* bound: the loop still gets to its next round *)
  /\ owner' = "notify"
  /\ isRunning' = FALSE
  /\ UNCHANGED <<now, taskVars, scheduled, loopVars>>

NotifyOne ==
  /\ owner = "notify"
  /\ owner' = "join"
  /\ pc' = IF pc = "wait" THEN "top" ELSE pc
  /\ UNCHANGED <<now, taskVars, scheduled, isRunning, loopNow, popped,
                 waitUntil>>

Join ==
  /\ owner = "join"
  /\ pc = "exited"
  /\ owner' = "gone"
  /\ UNCHANGED <<now, taskVars, scheduled, isRunning, loopVars>>

OwnerStep == NotifyOne \/ Join

-----------------------------------------------------------------------------

(* How long the loop can be kept from its next step. *)
Deadline ==
  IF pc \in {"wait", "top"} THEN Max({waitUntil, loopNow + Lag}) + Lag
  ELSE loopNow + Lag

Tick ==
  /\ now < End
  /\ pc # "exited" => now < Deadline
  /\ now' = now + 1
  /\ UNCHANGED <<taskVars, scheduled, isRunning, owner, loopVars>>

Finished == (owner = "gone" \/ now = End) /\ UNCHANGED vars

Next ==
  \/ \E t \in Tasks : CancelTask(t) \/ \E p \in 1..Horizon : Schedule(t, p)
  \/ LoopStep \/ SpuriousWake
  \/ Destroy \/ OwnerStep
  \/ Tick
  \/ Finished

Spec == Init /\ [][Next]_vars

(* Time passes, the loop's thread is scheduled, and the destructor runs to *)
(* its end.                                                                *)
LiveSpec == Spec /\ WF_vars(LoopStep) /\ WF_vars(OwnerStep) /\ WF_vars(Tick)

-----------------------------------------------------------------------------
(* Properties *)

(* Types; a task in the set, in the hands of the loop or posted is in one  *)
(* of these places only.                                                   *)
TypeOK ==
  /\ now \in 0..End
  /\ timePoint \in [Tasks -> -1..Horizon]
  /\ scheduled \subseteq {t \in Tasks : timePoint[t] # -1}
  /\ posted \in [Tasks -> -1..End]
  /\ cancelled \subseteq Tasks
  /\ isRunning = (owner = "alive")
  /\ owner \in {"alive", "notify", "join", "gone"}
  /\ pc \in {"top", "flush", "post", "decide", "block", "wait", "exited"}
  /\ loopNow \in 0..now
  /\ popped \in Tasks \cup {None}
  /\ popped # None <=> pc = "post"
  /\ waitUntil \in 0..(End + Poll)
  /\ \A t \in scheduled : popped # t /\ posted[t] = -1

(* No task reaches its task list before its time, and none that is not     *)
(* cancelled stays behind for longer than one sleep and two delays of the  *)
(* thread after it, although schedule_task does not wake the loop.         *)
OnTime ==
  \A t \in Tasks :
    /\ posted[t] # -1 => posted[t] >= timePoint[t]
    /\ t \in scheduled \cup {popped} /\ owner = "alive" =>
         now <= timePoint[t] + Poll + 2 * Lag

(* The destructor returns: a notification that falls between the loop's    *)
(* test of is_running_ and its sleep costs one sleep, never the join.      *)
DestructorReturns == (owner = "notify") ~> (owner = "gone")

(* The scheduler keeps the contract: a task is popped when it is due, once,*)
(* unless a cancel found it before, and no armed task is forgotten.  (A    *)
(* task that was not inserted was never armed.)                            *)
TimerState(t) ==
  IF Taken(t) THEN "fired"
  ELSE IF t \in cancelled THEN "cancelled"
  ELSE IF t \in scheduled THEN "armed" ELSE "idle"

Contract == INSTANCE TimerContract WITH
  Timers  <- Tasks,
  timer   <- [t \in Tasks |-> TimerState(t)],
  stopped <- ~isRunning

ImplementsTimers == Contract!TimersSpec

(* A task that was scheduled, not cancelled and not taken waits for its    *)
(* time, unless another was scheduled for the same time point: that tie is *)
(* the only way to lose a task, and cancelling one loses no other.         *)
KeptUnlessTied ==
  \A t \in Tasks :
    timePoint[t] # -1 =>
      \/ t \in scheduled \cup cancelled \/ Taken(t)
      \/ \E s \in Tasks \ {t} : timePoint[s] = timePoint[t]

=============================================================================
