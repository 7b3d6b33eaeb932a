------------------------------ MODULE Promise ------------------------------
(***************************************************************************)
(* igasync's Promise<ValT> (include/igasync/promise.h) together with the   *)
(* task lists its callbacks are scheduled on (src/task_list.cc).           *)
(*                                                                         *)
(* One promise is shared by any number of calling threads.  Every call of  *)
(* on_success, resolve or consume is a process of its own, so every        *)
(* assignment of calls to threads is covered; every worker is a thread     *)
(* that pumps some task lists (an ExecutorThread, or a main loop calling   *)
(* execute_next).  The three mutexes of the promise are explicit, because  *)
(* on_success nests them as then_queue -> result -> rsl_consumption while  *)
(* resolve_inner nests them as rsl_consumption -> then_queue.              *)
(*                                                                         *)
(* A call is named by a constant: thens are on_success calls, consumers    *)
(* are consume calls and resolvers are resolve calls.  The value a         *)
(* resolver stores is the resolver itself.                                 *)
(***************************************************************************)
EXTENDS Integers, SequencesExt

CONSTANTS
  Thens,       (* on_success calls, each with a callback of its own         *)
  Consumers,   (* consume calls                                             *)
  Resolvers,   (* resolve calls, each with a value of its own               *)
  Lists,       (* task lists                                                *)
  ListOf,      (* the task list each callback is registered with            *)
  Workers,     (* threads that execute tasks                                *)
  Serves,      (* the task lists each worker pumps                          *)
  NoValue,     (* result_ holds no value / no callback / nobody             *)
  Moved        (* result_ is engaged but its value was moved out            *)

Callbacks == Thens \cup Consumers
Calls     == Callbacks \cup Resolvers
Threads   == Calls \cup Workers

ASSUME CallsAssumption ==
  /\ Thens \cap Consumers = {}
  /\ Thens \cap Resolvers = {}
  /\ Consumers \cap Resolvers = {}
  /\ Calls \cap Workers = {}
  /\ NoValue \notin Threads
  /\ Moved \notin Threads
  /\ NoValue # Moved
  /\ IsFiniteSet(Thens)

ASSUME ListsAssumption ==
  /\ ListOf \in [Callbacks -> Lists]
  /\ Serves \in [Workers -> SUBSET Lists]

VARIABLES
  result,         (* result_: NoValue, a resolver's value, or Moved         *)
  acceptsThens,   (* accepts_thens_                                         *)
  remainingThens, (* remaining_thens_                                       *)
  thenQueue,      (* then_queue_                                            *)
  consumingOp,    (* consuming_then_op_                                     *)
  thenQueueMutex, (* holder of then_queue_mutex_                            *)
  resultReaders,  (* holders of the shared lock on result_mutex_            *)
  consumeMutex,   (* holder of rsl_consumption_mutex_                       *)
  taskLists,      (* the queued tasks of each TaskList, oldest first        *)
  pc,             (* where each call is                                     *)
  wpc,            (* where each worker is                                   *)
  task,           (* the task each worker has taken off a list              *)
  loaded,         (* remaining_thens_ as loaded by a decrement under way    *)
  observed        (* history: what result_ held each time a callback ran    *)

promiseVars == <<result, acceptsThens, remainingThens, thenQueue, consumingOp>>
mutexVars   == <<thenQueueMutex, resultReaders, consumeMutex>>
workerVars  == <<wpc, task, loaded, observed>>
vars        == <<promiseVars, mutexVars, taskLists, pc, workerVars>>

-----------------------------------------------------------------------------

Init ==
  /\ result = NoValue
  /\ acceptsThens = TRUE
  /\ remainingThens = 0
  /\ thenQueue = <<>>
  /\ consumingOp = NoValue
  /\ thenQueueMutex = NoValue
  /\ resultReaders = {}
  /\ consumeMutex = NoValue
  /\ taskLists = [l \in Lists |-> <<>>]
  /\ pc = [c \in Calls |-> "called"]
  /\ wpc = [w \in Workers |-> "idle"]
  /\ task = [w \in Workers |-> NoValue]
  /\ loaded = [w \in Workers |-> 0]
  /\ observed = [k \in Callbacks |-> <<>>]

(* TaskList::add_task: the list's own mutex is held only for the push, so  *)
(* the push is one step.                                                   *)
AddTask(k) ==
  taskLists' = [taskLists EXCEPT ![ListOf[k]] = Append(@, k)]

Goto(c, from, to) ==
  /\ pc[c] = from
  /\ pc' = [pc EXCEPT ![c] = to]

-----------------------------------------------------------------------------
(* on_success *)

(* lock then_queue_mutex_; give up when a finalizing callback is declared  *)
OnSuccessLock(k) ==
  /\ thenQueueMutex = NoValue
  /\ \/ /\ acceptsThens
        /\ Goto(k, "called", "check")
        /\ thenQueueMutex' = k
     \/ /\ ~acceptsThens
        /\ Goto(k, "called", "refused")
        /\ UNCHANGED thenQueueMutex
  /\ UNCHANGED <<promiseVars, resultReaders, consumeMutex, taskLists,
                 workerVars>>

(* mutant: a callback registered after the value is counted like an early  *)
(* one                                                                     *)
OnSuccessCheckCounted(k) ==
  /\ thenQueueMutex = k
  /\ Goto(k, "check", "push")
  /\ resultReaders' = resultReaders \cup {k}
  /\ UNCHANGED <<promiseVars, thenQueueMutex, consumeMutex, taskLists,
                 workerVars>>

(* shared lock on result_mutex_; with a value the callback is scheduled at *)
(* once and is not counted, otherwise both locks stay held for the push    *)
OnSuccessCheck(k) ==
  /\ thenQueueMutex = k
  /\ \/ /\ result # NoValue
        /\ Goto(k, "check", "accepted")
        /\ AddTask(k)
        /\ thenQueueMutex' = NoValue
        /\ UNCHANGED resultReaders
     \/ /\ result = NoValue
        /\ Goto(k, "check", "push")
        /\ resultReaders' = resultReaders \cup {k}
        /\ UNCHANGED <<taskLists, thenQueueMutex>>
  /\ UNCHANGED <<promiseVars, consumeMutex, workerVars>>

(* mutant: the queued callback is not counted                              *)
OnSuccessPushUncounted(k) ==
  /\ Goto(k, "push", "accepted")
  /\ consumeMutex = NoValue
  /\ thenQueue' = Append(thenQueue, k)
  /\ resultReaders' = resultReaders \ {k}
  /\ thenQueueMutex' = NoValue
  /\ UNCHANGED <<result, acceptsThens, remainingThens, consumingOp,
                 consumeMutex, taskLists, workerVars>>

(* count the callback under rsl_consumption_mutex_, queue it, and release  *)
(* every lock on return                                                    *)
OnSuccessPush(k) ==
  /\ Goto(k, "push", "accepted")
  /\ consumeMutex = NoValue
  /\ remainingThens' = remainingThens + 1
  /\ thenQueue' = Append(thenQueue, k)
  /\ resultReaders' = resultReaders \ {k}
  /\ thenQueueMutex' = NoValue
  /\ UNCHANGED <<result, acceptsThens, consumingOp, consumeMutex, taskLists,
                 workerVars>>

-----------------------------------------------------------------------------
(* consume *)

ConsumeLock(k) ==
  /\ thenQueueMutex = NoValue
  /\ \/ /\ acceptsThens
        /\ acceptsThens' = FALSE
        /\ Goto(k, "called", "check")
        /\ thenQueueMutex' = k
     \/ /\ ~acceptsThens
        /\ Goto(k, "called", "refused")
        /\ UNCHANGED <<acceptsThens, thenQueueMutex>>
  /\ UNCHANGED <<result, remainingThens, thenQueue, consumingOp,
                 resultReaders, consumeMutex, taskLists, workerVars>>

(* mutant: the consuming callback is always left to maybe_consume_rsl      *)
ConsumeCheckDeferred(k) ==
  /\ thenQueueMutex = k
  /\ Goto(k, "check", "accepted")
  /\ consumingOp' = k
  /\ thenQueueMutex' = NoValue
  /\ UNCHANGED <<result, acceptsThens, remainingThens, thenQueue,
                 resultReaders, consumeMutex, taskLists, workerVars>>

(* with a value the consuming callback is scheduled at once; otherwise it  *)
(* is kept for maybe_consume_rsl                                           *)
ConsumeCheck(k) ==
  /\ thenQueueMutex = k
  /\ Goto(k, "check", "accepted")
  /\ \/ /\ result # NoValue
        /\ AddTask(k)
        /\ UNCHANGED consumingOp
     \/ /\ result = NoValue
        /\ consumingOp' = k
        /\ UNCHANGED taskLists
  /\ thenQueueMutex' = NoValue
  /\ UNCHANGED <<result, acceptsThens, remainingThens, thenQueue,
                 resultReaders, consumeMutex, workerVars>>

-----------------------------------------------------------------------------
(* resolve *)

(* the exclusive section on result_mutex_ takes no other lock: one step    *)
ResolveStore(r) ==
  /\ resultReaders = {}
  /\ \/ /\ result = NoValue
        /\ result' = r
        /\ Goto(r, "called", "stored")
     \/ /\ result # NoValue
        /\ Goto(r, "called", "refused")
        /\ UNCHANGED result
  /\ UNCHANGED <<acceptsThens, remainingThens, thenQueue, consumingOp,
                 mutexVars, taskLists, workerVars>>

ResolveLock(r) ==
  /\ Goto(r, "stored", "flush")
  /\ thenQueueMutex = NoValue
  /\ thenQueueMutex' = r
  /\ UNCHANGED <<promiseVars, resultReaders, consumeMutex, taskLists,
                 workerVars>>

(* workers may pick up the first callbacks while the rest is still queued  *)
ResolveFlush(r) ==
  /\ pc[r] = "flush"
  /\ \/ /\ thenQueue # <<>>
        /\ AddTask(Head(thenQueue))
        /\ thenQueue' = Tail(thenQueue)
        /\ UNCHANGED <<pc, thenQueueMutex>>
     \/ /\ thenQueue = <<>>
        /\ pc' = [pc EXCEPT ![r] = "settle"]
        /\ thenQueueMutex' = NoValue
        /\ UNCHANGED <<thenQueue, taskLists>>
  /\ UNCHANGED <<result, acceptsThens, remainingThens, consumingOp,
                 resultReaders, consumeMutex, workerVars>>

(* mutant: remaining_thens_ keeps its value after the consumer is sent off *)
MaybeConsumeRslTwice ==
  IF remainingThens = 0 /\ consumingOp # NoValue
  THEN AddTask(consumingOp) /\ UNCHANGED remainingThens
  ELSE UNCHANGED <<remainingThens, taskLists>>

(* maybe_consume_rsl, run while holding then_queue_mutex_.  It reads and   *)
(* resets remaining_thens_ without rsl_consumption_mutex_; a decrement is  *)
(* a load and a store, so that the race is part of the model.              *)
MaybeConsumeRsl ==
  \/ /\ remainingThens = 0
     /\ consumingOp # NoValue
     /\ AddTask(consumingOp)
     /\ remainingThens' = -1
  \/ /\ ~(remainingThens = 0 /\ consumingOp # NoValue)
     /\ UNCHANGED <<remainingThens, taskLists>>

ResolveSettle(r) ==
  /\ Goto(r, "settle", "accepted")
  /\ thenQueueMutex = NoValue
  /\ MaybeConsumeRsl
  /\ UNCHANGED <<result, acceptsThens, thenQueue, consumingOp, mutexVars,
                 workerVars>>

-----------------------------------------------------------------------------
(* Workers: TaskList::execute_next, resolve_inner and the consuming task *)

(* pop the oldest task of a list the worker pumps *)
TakeTask(w) ==
  /\ wpc[w] = "idle"
  /\ \E l \in Serves[w] :
       /\ taskLists[l] # <<>>
       /\ task' = [task EXCEPT ![w] = Head(taskLists[l])]
       /\ taskLists' = [taskLists EXCEPT ![l] = Tail(@)]
  /\ wpc' = [wpc EXCEPT ![w] = "run"]
  /\ UNCHANGED <<promiseVars, mutexVars, pc, loaded, observed>>

Observe(w) ==
  observed' = [observed EXCEPT ![task[w]] = Append(@, result)]

(* resolve_inner: fn( *result_ ) with no lock held *)
RunThen(w) ==
  /\ wpc[w] = "run"
  /\ task[w] \in Thens
  /\ Observe(w)
  /\ wpc' = [wpc EXCEPT ![w] = "ran"]
  /\ UNCHANGED <<promiseVars, mutexVars, taskLists, pc, task, loaded>>

(* the consuming task moves the value out and calls the callback with it *)
RunConsumer(w) ==
  /\ wpc[w] = "run"
  /\ task[w] \in Consumers
  /\ Observe(w)
  /\ result' = Moved
  /\ wpc' = [wpc EXCEPT ![w] = "idle"]
  /\ task' = [task EXCEPT ![w] = NoValue]
  /\ UNCHANGED <<acceptsThens, remainingThens, thenQueue, consumingOp,
                 mutexVars, taskLists, pc, loaded>>

(* resolve_inner: lock rsl_consumption_mutex_ and load the counter *)
LoadCount(w) ==
  /\ wpc[w] = "ran"
  /\ consumeMutex = NoValue
  /\ consumeMutex' = w
  /\ loaded' = [loaded EXCEPT ![w] = remainingThens]
  /\ wpc' = [wpc EXCEPT ![w] = "loaded"]
  /\ UNCHANGED <<promiseVars, thenQueueMutex, resultReaders, taskLists, pc,
                 task, observed>>

StoreCount(w) ==
  /\ wpc[w] = "loaded"
  /\ remainingThens' = loaded[w] - 1
  /\ wpc' = [wpc EXCEPT ![w] = "counted"]
  /\ UNCHANGED <<result, acceptsThens, thenQueue, consumingOp, mutexVars,
                 taskLists, pc, task, loaded, observed>>

(* resolve_inner: maybe_consume_rsl takes then_queue_mutex_ while          *)
(* rsl_consumption_mutex_ is held                                          *)
WorkerSettle(w) ==
  /\ wpc[w] = "counted"
  /\ thenQueueMutex = NoValue
  /\ MaybeConsumeRsl
  /\ consumeMutex' = NoValue
  /\ wpc' = [wpc EXCEPT ![w] = "idle"]
  /\ task' = [task EXCEPT ![w] = NoValue]
  /\ UNCHANGED <<result, acceptsThens, thenQueue, consumingOp,
                 thenQueueMutex, resultReaders, pc, loaded, observed>>

-----------------------------------------------------------------------------

ThenStep(k)     == OnSuccessLock(k) \/ OnSuccessCheck(k) \/ OnSuccessPush(k)
ConsumerStep(k) == ConsumeLock(k) \/ ConsumeCheck(k)
ResolverStep(r) ==
  ResolveStore(r) \/ ResolveLock(r) \/ ResolveFlush(r) \/ ResolveSettle(r)
WorkerStep(w)   ==
  \/ TakeTask(w) \/ RunThen(w) \/ RunConsumer(w)
  \/ LoadCount(w) \/ StoreCount(w) \/ WorkerSettle(w)

(* Every call has returned and no task is left. *)
Quiescent ==
  /\ \A c \in Calls : pc[c] \in {"accepted", "refused"}
  /\ \A w \in Workers : wpc[w] = "idle"
  /\ \A l \in Lists : taskLists[l] = <<>>

Finished == Quiescent /\ UNCHANGED vars

Next ==
  \/ \E k \in Thens : ThenStep(k)
  \/ \E k \in Consumers : ConsumerStep(k)
  \/ \E r \in Resolvers : ResolverStep(r)
  \/ \E w \in Workers : WorkerStep(w)
  \/ Finished

(* A thread inside a call is scheduled until it returns, and the loops     *)
(* that pump task lists run forever.  Calls need not be made: the first    *)
(* step of a call is not fair, except that of a resolver in LiveSpec,      *)
(* where the API user does resolve the promise.                            *)
Spec == Init /\ [][Next]_vars

Fairness ==
  /\ \A k \in Thens : WF_vars(OnSuccessCheck(k) \/ OnSuccessPush(k))
  /\ \A k \in Consumers : WF_vars(ConsumeCheck(k))
  /\ \A r \in Resolvers : WF_vars(ResolverStep(r))
  /\ \A w \in Workers : WF_vars(WorkerStep(w))

LiveSpec == Spec /\ Fairness

-----------------------------------------------------------------------------
(* Properties *)

(* Every variable has the type its declaration in promise.h gives it, and  *)
(* a worker holds a task exactly while it executes one.                    *)
TypeOK ==
  /\ result \in Resolvers \cup {NoValue, Moved}
  /\ acceptsThens \in BOOLEAN
  /\ remainingThens \in Int
  /\ thenQueue \in Seq(Thens)
  /\ consumingOp \in Consumers \cup {NoValue}
  /\ thenQueueMutex \in Calls \cup {NoValue}
  /\ resultReaders \in SUBSET Thens
  /\ consumeMutex \in Workers \cup {NoValue}
  /\ taskLists \in [Lists -> Seq(Callbacks)]
  /\ pc \in [Calls -> {"called", "check", "push", "stored", "flush",
                       "settle", "accepted", "refused"}]
  /\ wpc \in [Workers -> {"idle", "run", "ran", "loaded", "counted"}]
  /\ task \in [Workers -> Callbacks \cup {NoValue}]
  /\ loaded \in [Workers -> Int]
  /\ observed \in [Callbacks -> Seq(Resolvers \cup {NoValue, Moved})]
  /\ \A w \in Workers : (wpc[w] = "idle") <=> (task[w] = NoValue)

(* on_success nests rsl_consumption_mutex_ inside then_queue_mutex_ and    *)
(* resolve_inner nests them the other way round.  The embrace is avoided   *)
(* only because a call that waits for rsl_consumption_mutex_ has seen the  *)
(* promise pending, when no task that could hold it exists.                *)
LockOrderSafe ==
  \A k \in Thens : pc[k] = "push" => consumeMutex = NoValue

(* The detailed promise implements the contract of PromiseContract: a call *)
(* takes effect when it returns, a callback when it is invoked.            *)
AcceptedConsumer ==
  IF \E c \in Consumers : pc[c] = "accepted"
  THEN CHOOSE c \in Consumers : pc[c] = "accepted"
  ELSE NoValue

Contract == INSTANCE PromiseContract WITH
  value      <- result,
  registered <- {k \in Thens : pc[k] = "accepted"},
  consumer   <- AcceptedConsumer,
  deferred   <- (consumingOp # NoValue),
  seen       <- observed

(* Every behaviour of the mutexes, the counter and the task lists is one   *)
(* of the contract: the value is set once, callbacks run once with it, and *)
(* a deferred consumer runs after all of them (promise.h rules 1-3).       *)
ImplementsContract == Contract!Spec

(* A callback accepted on a promise that has a value eventually runs, the  *)
(* consuming one included: no interleaving of registration, flush and      *)
(* counting loses it.                                                      *)
AcceptedCallbacksRun ==
  \A k \in Callbacks :
    (pc[k] = "accepted" /\ result # NoValue) ~> (observed[k] # <<>>)

(* The comment in resolve_inner (promise.h:350-352): the result is not     *)
(* changed until it is consumed, "and the consumption only happens after   *)
(* all tasks have been executed", so no callback meets a moved-out value.  *)
ConsumptionAfterAllTasks ==
  \A k \in Thens : \A i \in DOMAIN observed[k] : observed[k][i] # Moved

-----------------------------------------------------------------------------
(* The inductive invariant behind ImplementsContract *)

Queued(k) == k \in ToSet(thenQueue)
Listed(k) == \E l \in Lists : k \in ToSet(taskLists[l])
Taken(k)  == \E w \in Workers : task[w] = k

(* The callbacks whose decrement of remaining_thens_ is still to come. *)
Outstanding ==
  {k \in Thens : \/ Queued(k)
                 \/ Listed(k)
                 \/ \E w \in Workers : task[w] = k /\ wpc[w] # "counted"}

(* Who may hold which mutex. *)
MutexInv ==
  /\ \A k \in Thens : pc[k] \in {"called", "check", "push", "accepted",
                                "refused"}
  /\ \A c \in Consumers : pc[c] \in {"called", "check", "accepted", "refused"}
  /\ \A r \in Resolvers : pc[r] \in {"called", "stored", "flush", "settle",
                                    "accepted", "refused"}
  /\ \A c \in Calls : pc[c] \in {"check", "push", "flush"}
                        => thenQueueMutex = c
  /\ resultReaders = {k \in Thens : pc[k] = "push"}
  /\ \A w \in Workers : wpc[w] \in {"loaded", "counted"} <=> consumeMutex = w
  /\ \A w \in Workers : wpc[w] = "loaded" => loaded[w] = remainingThens

(* While the promise is pending nothing has been scheduled. *)
PendingInv ==
  /\ \A r \in Resolvers : pc[r] # "called" => result # NoValue
  /\ \A k \in Thens : pc[k] = "push" => result = NoValue
  /\ result = NoValue =>
       /\ \A l \in Lists : taskLists[l] = <<>>
       /\ \A w \in Workers : task[w] = NoValue

(* A callback is in one place at a time. *)
PlacesInv ==
  /\ IsInjective(thenQueue)
  /\ \A l \in Lists : IsInjective(taskLists[l])
  /\ \A k \in Thens : Queued(k) => ~Listed(k) /\ ~Taken(k)
  /\ \A l \in Lists : \A k \in ToSet(taskLists[l]) : ListOf[k] = l /\ ~Taken(k)
  /\ \A v, w \in Workers : task[v] = task[w] /\ task[v] # NoValue => v = w

(* How far the callback in each place has come. *)
ProgressInv ==
  /\ \A k \in Callbacks :
       /\ Queued(k) \/ Listed(k) \/ Taken(k) => pc[k] = "accepted"
       /\ Queued(k) \/ Listed(k) \/ pc[k] # "accepted" => observed[k] = <<>>
  /\ \A w \in Workers :
       /\ wpc[w] = "run" => observed[task[w]] = <<>>
       /\ wpc[w] \in {"ran", "loaded", "counted"} =>
            task[w] \in Thens /\ observed[task[w]] # <<>>
  /\ \A k \in Thens : pc[k] = "accepted" =>
       Queued(k) \/ Listed(k) \/ Taken(k) \/ observed[k] # <<>>

(* One consumer is accepted, it shuts out later callbacks, and a deferred  *)
(* one is scheduled exactly when remaining_thens_ is set to -1.            *)
ConsumerInv ==
  /\ \A k \in Thens : pc[k] \in {"check", "push"} => acceptsThens
  /\ \A c \in Consumers : pc[c] \in {"check", "accepted"} =>
       /\ ~acceptsThens
       /\ \A d \in Consumers : pc[d] \in {"check", "accepted"} => d = c
  /\ consumingOp # NoValue =>
       /\ pc[consumingOp] = "accepted"
       /\ remainingThens # -1 =>
            ~Listed(consumingOp) /\ ~Taken(consumingOp)
              /\ observed[consumingOp] = <<>>

(* remaining_thens_ counts the outstanding callbacks for as long as a      *)
(* deferred consumer may depend on it.                                     *)
CountInv ==
  result = NoValue \/ consumingOp # NoValue =>
    \/ remainingThens = Cardinality(Outstanding)
    \/ /\ remainingThens = -1
       /\ Outstanding = {}
       /\ consumingOp # NoValue /\ result # NoValue

(* At every point of every call, counting, queueing and locking agree with *)
(* where each callback is: this is why resolve and resolve_inner lose no   *)
(* callback, run none twice, and send off a deferred consumer in time.     *)
IInv ==
  /\ TypeOK
  /\ MutexInv
  /\ PendingInv
  /\ PlacesInv
  /\ ProgressInv
  /\ ConsumerInv
  /\ CountInv

=============================================================================
