---------------------------- MODULE TimerContract ----------------------------
(***************************************************************************)
(* What the server's EventScheduler promises to those who schedule a task: *)
(* an armed timer fires once, unless it is cancelled before, and a         *)
(* cancelled one never fires.  A timer that has fired is on its way to a   *)
(* task list: cancelling it is too late.                                   *)
(***************************************************************************)
CONSTANT Timers

VARIABLES
  timer,    (* "idle", "armed", "fired", "run" or "cancelled"              *)
  stopped   (* the scheduler is being destroyed                            *)

timerVars == <<timer, stopped>>

TimersInit ==
  /\ timer = [t \in Timers |-> "idle"]
  /\ stopped = FALSE

Arm(t) ==
  /\ timer[t] = "idle"
  /\ timer' = [timer EXCEPT ![t] = "armed"]
  /\ UNCHANGED stopped

Cancel(t) ==
  /\ timer[t] \in {"idle", "armed"}
  /\ timer' = [timer EXCEPT ![t] = "cancelled"]
  /\ UNCHANGED stopped

Fire(t) ==
  /\ timer[t] = "armed"
  /\ timer' = [timer EXCEPT ![t] = "fired"]
  /\ UNCHANGED stopped

(* the task list gets to the task of a timer, once *)
Run(t) ==
  /\ timer[t] = "fired"
  /\ timer' = [timer EXCEPT ![t] = "run"]
  /\ UNCHANGED stopped

Stop ==
  /\ stopped' = TRUE
  /\ UNCHANGED timer

TimersNext ==
  \/ \E t \in Timers : Arm(t) \/ Cancel(t) \/ Fire(t) \/ Run(t)
  \/ Stop

(* as long as the scheduler lives, an armed timer does not stay armed *)
TimersSpec ==
  /\ TimersInit /\ [][TimersNext]_timerVars
  /\ \A t \in Timers : WF_timerVars(~stopped /\ Fire(t))

=============================================================================
