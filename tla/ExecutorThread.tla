--------------------------- MODULE ExecutorThread ---------------------------
(***************************************************************************)
(* igasync's ExecutorThread (include/igasync/executor_thread.h,            *)
(* src/executor_thread.cc): threads that serve the attached task lists in  *)
(* turn and sleep on a condition variable when they find them empty.       *)
(*                                                                         *)
(* Any thread adds tasks.  One owner thread attaches and detaches lists    *)
(* and destroys executors.  Only the number of queued tasks matters here.  *)
(*                                                                         *)
(* An executor holds task_list_m_ (shared) from the start of a scan to the *)
(* end of the task it runs, so an exclusive section is one step that needs *)
(* the executor outside these states.  TaskList::add_task notifies while   *)
(* it holds the list's mutex, which a scan needs to see the new task, so   *)
(* push and notification are one step.  has_task_mutex_ is taken by the    *)
(* executor's own thread only: a notification can fall between the scan of *)
(* the wait predicate and the sleep.                                       *)
(***************************************************************************)
EXTENDS Integers, SequencesExt

CONSTANTS
  Executors,
  Lists,
  MaxQueue,   (* bound: a queue of MaxQueue stands for that many or more   *)
  None        (* no list / no executor                                     *)

ASSUME ExecutorAssumption ==
  /\ MaxQueue \in Nat \ {0}
  /\ None \notin Lists \cup Executors

VARIABLES
  queue,      (* number of tasks in each TaskList, up to MaxQueue          *)
  listeners,  (* the executors each TaskList notifies                      *)
  taskLists,  (* task_lists_ of each executor                              *)
  nextIdx,    (* next_task_list_idx_                                       *)
  cancelled,  (* is_cancelled_                                             *)
  pc,         (* where the thread is                                       *)
  waiting,    (* inside has_task_cv_.wait                                  *)
  scanned,    (* lists found empty in the scan under way                   *)
  running,    (* the list whose task is being executed                     *)
  notifying,  (* executor the owner is about to notify_all, or None        *)
  overtaken   (* history: tasks of other lists run since a list filled     *)

threadVars == <<nextIdx, pc, waiting, scanned, running>>
vars == <<queue, listeners, taskLists, cancelled, threadVars, notifying,
          overtaken>>

Attached(e) == ToSet(taskLists[e])

(* the slot visited next: (i + next_task_list_idx_) % size, from 0 *)
Slot(e) == (scanned[e] + nextIdx[e]) % Len(taskLists[e])

(* task_list_m_ can be locked exclusively *)
Unshared(e) == pc[e] \notin {"scan", "run"}

(* notify: wakes the thread only if it sleeps *)
Woken(es) ==
  [e \in Executors |-> IF e \in es /\ pc[e] = "asleep" THEN "pred" ELSE pc[e]]

-----------------------------------------------------------------------------

Init ==
  /\ queue = [l \in Lists |-> 0]
  /\ listeners = [l \in Lists |-> {}]
  /\ taskLists = [e \in Executors |-> <<>>]
  /\ nextIdx = [e \in Executors |-> 0]
  /\ cancelled = [e \in Executors |-> FALSE]
  /\ pc = [e \in Executors |-> "top"]
  /\ waiting = [e \in Executors |-> FALSE]
  /\ scanned = [e \in Executors |-> 0]
  /\ running = [e \in Executors |-> None]
  /\ notifying = None
  /\ overtaken = [e \in Executors |-> [l \in Lists |-> 0]]

(* mutant: listeners are told only when the list was empty                 *)
AddTaskToEmpty(l) ==
  /\ queue' = [queue EXCEPT ![l] = IF @ < MaxQueue THEN @ + 1 ELSE @]
  /\ pc' = IF queue[l] = 0 THEN Woken(listeners[l]) ELSE pc
  /\ UNCHANGED <<listeners, taskLists, cancelled, nextIdx, waiting, scanned,
                 running, notifying, overtaken>>

(* TaskList::add_task *)
AddTask(l) ==
  /\ queue' = [queue EXCEPT ![l] = IF @ < MaxQueue THEN @ + 1 ELSE @]
  /\ pc' = Woken(listeners[l])
  /\ UNCHANGED <<listeners, taskLists, cancelled, nextIdx, waiting, scanned,
                 running, notifying, overtaken>>

-----------------------------------------------------------------------------
(* The owner *)

OwnerCalls(e) ==
  /\ notifying = None
  /\ ~cancelled[e]
  /\ Unshared(e)
  /\ notifying' = e

(* add_task_list; the applications attach a list to an executor once *)
AddTaskList(e, l) ==
  /\ OwnerCalls(e)
  /\ l \notin Attached(e)
  /\ taskLists' = [taskLists EXCEPT ![e] = Append(@, l)]
  /\ listeners' = [listeners EXCEPT ![l] = @ \cup {e}]
  /\ overtaken' = [overtaken EXCEPT ![e] = [m \in Lists |-> 0]]
  /\ UNCHANGED <<queue, cancelled, threadVars>>

(* Vector::delete_at without preserve_order: the last element moves into   *)
(* the freed slot                                                          *)
EraseUnordered(s, l) ==
  LET i == CHOOSE j \in DOMAIN s : s[j] = l
  IN  Front([s EXCEPT ![i] = Last(s)])

(* mutant: the list keeps its listener                                     *)
RemoveListOnly(e, l) ==
  /\ OwnerCalls(e)
  /\ l \in Attached(e)
  /\ taskLists' = [taskLists EXCEPT ![e] = EraseUnordered(@, l)]
  /\ overtaken' = [overtaken EXCEPT ![e] = [m \in Lists |-> 0]]
  /\ UNCHANGED <<queue, listeners, cancelled, threadVars>>

(* mutant: task_list_m_ is not locked                                      *)
RemoveUnlocked(e, l) ==
  /\ notifying = None
  /\ ~cancelled[e]
  /\ notifying' = e
  /\ l \in Attached(e)
  /\ taskLists' = [taskLists EXCEPT ![e] = EraseUnordered(@, l)]
  /\ listeners' = [listeners EXCEPT ![l] = @ \ {e}]
  /\ overtaken' = [overtaken EXCEPT ![e] = [m \in Lists |-> 0]]
  /\ UNCHANGED <<queue, cancelled, threadVars>>

(* remove_task_list *)
RemoveTaskList(e, l) ==
  /\ OwnerCalls(e)
  /\ l \in Attached(e)
  /\ taskLists' = [taskLists EXCEPT ![e] = EraseUnordered(@, l)]
  /\ listeners' = [listeners EXCEPT ![l] = @ \ {e}]
  /\ overtaken' = [overtaken EXCEPT ![e] = [m \in Lists |-> 0]]
  /\ UNCHANGED <<queue, cancelled, threadVars>>

(* clear_all_task_lists *)
ClearAllTaskLists(e) ==
  /\ OwnerCalls(e)
  /\ taskLists' = [taskLists EXCEPT ![e] = <<>>]
  /\ listeners' = [l \in Lists |-> listeners[l] \ {e}]
  /\ overtaken' = [overtaken EXCEPT ![e] = [m \in Lists |-> 0]]
  /\ UNCHANGED <<queue, cancelled, threadVars>>

(* ~ExecutorThread, up to the second notify_all.  Listeners own their      *)
(* executor, so it has no list left; the first notify_all is covered by    *)
(* SpuriousWake.                                                           *)
Destroy(e) ==
  /\ OwnerCalls(e)
  /\ taskLists[e] = <<>>
  /\ cancelled' = [cancelled EXCEPT ![e] = TRUE]
  /\ UNCHANGED <<queue, listeners, taskLists, threadVars, overtaken>>

(* has_task_cv_.notify_all() at the end of each of these *)
NotifyAll ==
  /\ notifying # None
  /\ pc' = Woken({notifying})
  /\ notifying' = None
  /\ UNCHANGED <<queue, listeners, taskLists, cancelled, nextIdx, waiting,
                 scanned, running, overtaken>>

-----------------------------------------------------------------------------
(* The thread *)

ownerVars == <<listeners, taskLists, cancelled, notifying>>

(* the outer loop condition *)
TopCheck(e) ==
  /\ pc[e] = "top"
  /\ pc' = [pc EXCEPT ![e] = IF cancelled[e] THEN "exited" ELSE "inner"]
  /\ UNCHANGED <<queue, ownerVars, nextIdx, waiting, scanned, running,
                 overtaken>>

(* the inner loop condition; cancelled or not, the wait predicate is next  *)
(* when the loop is left                                                   *)
InnerCheck(e) ==
  /\ pc[e] = "inner"
  /\ pc' = [pc EXCEPT ![e] = IF cancelled[e] THEN "pred" ELSE "scan"]
  /\ waiting' = [waiting EXCEPT ![e] = cancelled[e]]
  /\ UNCHANGED <<queue, ownerVars, nextIdx, scanned, running, overtaken>>

(* the wait predicate takes task_list_m_ and scans again *)
EvaluatePredicate(e) ==
  /\ pc[e] = "pred"
  /\ pc' = [pc EXCEPT ![e] = "scan"]
  /\ UNCHANGED <<queue, ownerVars, nextIdx, waiting, scanned, running,
                 overtaken>>

(* What a task taken by e from list l does to the count of overtakings. *)
Overtakes(e, l) ==
  [d \in Executors |-> [m \in Lists |->
     IF queue'[m] = 0 \/ (d = e /\ m = l) THEN 0
     ELSE IF d = e /\ m \in Attached(e) THEN overtaken[d][m] + 1
     ELSE overtaken[d][m]]]

(* execute_next on the next list of the scan: the pop *)
Pop(e, l) ==
  /\ pc[e] = "scan"
  /\ scanned[e] < Len(taskLists[e])
  /\ l = taskLists[e][Slot(e) + 1]
  /\ queue[l] > 0
  /\ \/ queue' = [queue EXCEPT ![l] = @ - 1]
     \/ queue[l] = MaxQueue /\ UNCHANGED queue
  /\ running' = [running EXCEPT ![e] = l]
  /\ overtaken' = Overtakes(e, l)
  /\ pc' = [pc EXCEPT ![e] = "run"]
  /\ UNCHANGED <<ownerVars, nextIdx, waiting, scanned>>

(* execute_next returned false *)
Miss(e) ==
  /\ pc[e] = "scan"
  /\ scanned[e] < Len(taskLists[e])
  /\ queue[taskLists[e][Slot(e) + 1]] = 0
  /\ scanned' = [scanned EXCEPT ![e] = @ + 1]
  /\ UNCHANGED <<queue, ownerVars, nextIdx, pc, waiting, running, overtaken>>

(* mutant: next_task_list_idx_ stays at the list just served               *)
FinishTaskHere(e) ==
  /\ pc[e] = "run"
  /\ nextIdx' = [nextIdx EXCEPT ![e] = Slot(e)]
  /\ running' = [running EXCEPT ![e] = None]
  /\ pc' = [pc EXCEPT ![e] = IF waiting[e] THEN "top" ELSE "inner"]
  /\ waiting' = [waiting EXCEPT ![e] = FALSE]
  /\ scanned' = [scanned EXCEPT ![e] = 0]
  /\ UNCHANGED <<queue, ownerVars, overtaken>>

(* the task is done: move on to the list behind it; the predicate is met   *)
(* if this was a scan of the predicate                                     *)
FinishTask(e) ==
  /\ pc[e] = "run"
  /\ nextIdx' = [nextIdx EXCEPT ![e] = (Slot(e) + 1) % Len(taskLists[e])]
  /\ running' = [running EXCEPT ![e] = None]
  /\ pc' = [pc EXCEPT ![e] = IF waiting[e] THEN "top" ELSE "inner"]
  /\ waiting' = [waiting EXCEPT ![e] = FALSE]
  /\ scanned' = [scanned EXCEPT ![e] = 0]
  /\ UNCHANGED <<queue, ownerVars, overtaken>>

(* no list had a task: enter the wait, or answer the predicate with        *)
(* is_cancelled_                                                           *)
ScanEnd(e) ==
  /\ pc[e] = "scan"
  /\ scanned[e] = Len(taskLists[e])
  /\ pc' = [pc EXCEPT ![e] = IF ~waiting[e] THEN "pred"
                             ELSE IF cancelled[e] THEN "top" ELSE "block"]
  /\ waiting' = [waiting EXCEPT ![e] = ~waiting[e] \/ ~cancelled[e]]
  /\ scanned' = [scanned EXCEPT ![e] = 0]
  /\ UNCHANGED <<queue, ownerVars, nextIdx, running, overtaken>>

Sleep(e) ==
  /\ pc[e] = "block"
  /\ pc' = [pc EXCEPT ![e] = "asleep"]
  /\ UNCHANGED <<queue, ownerVars, nextIdx, waiting, scanned, running,
                 overtaken>>

(* a condition variable may wake up for no reason, but need not *)
SpuriousWake(e) ==
  /\ pc[e] = "asleep"
  /\ pc' = Woken({e})
  /\ UNCHANGED <<queue, ownerVars, nextIdx, waiting, scanned, running,
                 overtaken>>

-----------------------------------------------------------------------------

OwnerStep ==
  \/ \E e \in Executors :
       \/ \E l \in Lists : AddTaskList(e, l) \/ RemoveTaskList(e, l)
       \/ ClearAllTaskLists(e) \/ Destroy(e)
  \/ NotifyAll

ThreadStep(e) ==
  \/ TopCheck(e) \/ InnerCheck(e) \/ EvaluatePredicate(e)
  \/ \E l \in Lists : Pop(e, l)
  \/ Miss(e) \/ FinishTask(e) \/ ScanEnd(e) \/ Sleep(e)

Finished ==
  /\ \A e \in Executors : pc[e] = "exited"
  /\ UNCHANGED vars

Next ==
  \/ \E l \in Lists : AddTask(l)
  \/ OwnerStep
  \/ \E e \in Executors : ThreadStep(e) \/ SpuriousWake(e)
  \/ Finished

Spec == Init /\ [][Next]_vars

(* The operating system schedules every thread; tasks terminate, and an    *)
(* owner inside a call returns.  Nobody has to add tasks or call.          *)
Fairness ==
  /\ \A e \in Executors : WF_vars(ThreadStep(e))
  /\ WF_vars(NotifyAll)

LiveSpec == Spec /\ Fairness

(* In the clients, every frame schedules work: tasks keep being added to   *)
(* some list of each executor.                                             *)
Recurring ==
  \A e \in Executors :
    WF_vars(\E l \in Lists : e \in listeners[l] /\ AddTask(l))

RecurringSpec == LiveSpec /\ Recurring

-----------------------------------------------------------------------------
(* Properties *)

(* Types; a list notifies exactly the executors it is attached to, and an  *)
(* executor names a list exactly while it runs one of its tasks.           *)
TypeOK ==
  /\ queue \in [Lists -> 0..MaxQueue]
  /\ taskLists \in [Executors -> Seq(Lists)]
  /\ \A e \in Executors : IsInjective(taskLists[e])
  /\ listeners = [l \in Lists |-> {e \in Executors : l \in Attached(e)}]
  /\ nextIdx \in [Executors -> Nat]
  /\ cancelled \in [Executors -> BOOLEAN]
  /\ pc \in [Executors -> {"top", "inner", "pred", "scan", "run", "block",
                           "asleep", "exited"}]
  /\ waiting \in [Executors -> BOOLEAN]
  /\ scanned \in [Executors -> Nat]
  /\ running \in [Executors -> Lists \cup {None}]
  /\ \A e \in Executors : pc[e] = "run" <=> running[e] # None
  /\ notifying \in Executors \cup {None}
  /\ overtaken \in [Executors -> [Lists -> Nat]]

(* Once remove_task_list or clear_all_task_lists has returned, no task of  *)
(* the list is running on the executor any more: a caller may tear down    *)
(* what the tasks use.                                                     *)
DetachedIsQuiet ==
  \A e \in Executors : running[e] # None => running[e] \in Attached(e)

(* "in a round-robin fashion" (executor_thread.h:19-20): while an attached *)
(* list has tasks, its executor runs fewer tasks of all the other lists    *)
(* together than it has lists before it comes back to it, whatever is      *)
(* added during its scans.  The count starts again when a list is attached *)
(* or detached.                                                            *)
BoundedOvertaking ==
  \A e \in Executors : \A l \in Attached(e) :
    overtaken[e][l] < Len(taskLists[e])

(* Round robin starves no attached list, whatever is attached and detached *)
(* around it; and as long as work keeps arriving somewhere (RecurringSpec) *)
(* a lost wakeup is made good by the next task.                            *)
QueuedTasksRun ==
  \A e \in Executors : \A l \in Lists :
    <>[](l \in Attached(e)) =>
      \/ []<>(queue[l] = 0)
      \/ []<><<\E d \in Executors : Pop(d, l)>>_vars

(* The thread "may be slept if the underlying task lists are all empty,    *)
(* and awoken via the ITaskScheduledListener interface"                    *)
(* (executor_thread.h:21-23).  A list is attached for good and empty, the  *)
(* notification of its attachment is over, and its thread is not about to  *)
(* sleep on an earlier scan: from then on every task comes to it through   *)
(* that interface, and none may stay in it for ever.                       *)
AddedTasksRun ==
  \A e \in Executors : \A l \in Lists :
    <>( /\ queue[l] = 0 /\ notifying = None /\ pc[e] # "block"
        /\ [](l \in Attached(e)) ) =>
      \/ []<>(queue[l] = 0)
      \/ []<><<\E d \in Executors : Pop(d, l)>>_vars

=============================================================================
