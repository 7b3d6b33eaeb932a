--------------------------- MODULE PromiseProofs ---------------------------
(***************************************************************************)
(* Promise implements PromiseContract, for every set of calls, workers and *)
(* task lists; and, below, proofs about the combiner of promises, for any  *)
(* set of inputs: what its result owns and holds, who is still inside      *)
(* resolve_promise when it is destroyed, and that it is a Promise.all.     *)
(***************************************************************************)
EXTENDS Promise, PromiseCombiner, TLAPS, FiniteSetTheorems, SequenceTheorems

-----------------------------------------------------------------------------
(* Sequences of distinct elements *)

(* Pushing a new element on a queue or task list adds it to the contents   *)
(* and keeps the elements distinct.                                        *)
LEMMA AppendSet ==
  ASSUME NEW S, NEW s \in Seq(S), NEW e \in S
  PROVE  /\ Append(s, e) \in Seq(S)
         /\ ToSet(Append(s, e)) = ToSet(s) \cup {e}
         /\ IsInjective(s) /\ e \notin ToSet(s) => IsInjective(Append(s, e))
<1>1. /\ Append(s, e) \in Seq(S)
      /\ Len(Append(s, e)) = Len(s) + 1
      /\ DOMAIN Append(s, e) = 1 .. Len(s) + 1
      /\ \A i \in 1 .. Len(s) : Append(s, e)[i] = s[i]
      /\ Append(s, e)[Len(s) + 1] = e
  BY AppendProperties
<1>2. Len(s) \in Nat /\ DOMAIN s = 1 .. Len(s)
  BY LenProperties
<1>3. ToSet(Append(s, e)) = ToSet(s) \cup {e}
  BY <1>1, <1>2 DEF ToSet
<1>4. ASSUME IsInjective(s), e \notin ToSet(s)
      PROVE  IsInjective(Append(s, e))
  BY <1>1, <1>2, <1>4 DEF IsInjective, ToSet
<1>5. QED
  BY <1>1, <1>3, <1>4

(* Popping the head removes exactly that element from the contents.        *)
LEMMA TailSet ==
  ASSUME NEW S, NEW s \in Seq(S), s # <<>>
  PROVE  /\ Head(s) \in S
         /\ Head(s) \in ToSet(s)
         /\ Tail(s) \in Seq(S)
         /\ IsInjective(s) => /\ ToSet(Tail(s)) = ToSet(s) \ {Head(s)}
                              /\ IsInjective(Tail(s))
<1>1. /\ Head(s) \in S
      /\ Head(s) = s[1]
      /\ Tail(s) \in Seq(S)
      /\ Len(Tail(s)) = Len(s) - 1
      /\ \A i \in 1 .. Len(Tail(s)) : Tail(s)[i] = s[i + 1]
  BY HeadTailProperties
<1>2. /\ Len(s) \in Nat \ {0}
      /\ DOMAIN s = 1 .. Len(s)
      /\ DOMAIN Tail(s) = 1 .. Len(s) - 1
  BY <1>1, EmptySeq, LenProperties
<1>3. Head(s) \in ToSet(s)
  BY <1>1, <1>2 DEF ToSet
<1>4. ASSUME IsInjective(s)
      PROVE  /\ ToSet(Tail(s)) = ToSet(s) \ {Head(s)}
             /\ IsInjective(Tail(s))
  <2>1. ToSet(Tail(s)) \subseteq ToSet(s) \ {Head(s)}
    BY <1>1, <1>2, <1>4 DEF ToSet, IsInjective
  <2>2. ASSUME NEW x \in ToSet(s) \ {Head(s)}
        PROVE  x \in ToSet(Tail(s))
    <3>1. PICK i \in 1 .. Len(s) : s[i] = x
      BY <1>2 DEF ToSet
    <3>2. i - 1 \in 1 .. Len(s) - 1 /\ Tail(s)[i - 1] = x
      BY <1>1, <1>2, <3>1
    <3>3. QED
      BY <1>2, <3>2 DEF ToSet
  <2>3. IsInjective(Tail(s))
    BY <1>1, <1>2, <1>4 DEF IsInjective
  <2>4. QED
    BY <2>1, <2>2, <2>3
<1>5. QED
  BY <1>1, <1>3, <1>4

(* An empty queue has no contents. *)
LEMMA EmptyToSet == ToSet(<<>>) = {} /\ IsInjective(<<>>)
BY DEF ToSet, IsInjective

-----------------------------------------------------------------------------
(* Type correctness *)

(* Scheduling a callback keeps the task lists well typed.                  *)
LEMMA AddTaskType ==
  ASSUME taskLists \in [Lists -> Seq(Callbacks)], NEW k \in Callbacks, AddTask(k)
  PROVE  taskLists' \in [Lists -> Seq(Callbacks)]
<1>1. ListOf[k] \in Lists
  BY ListsAssumption
<1>2. Append(taskLists[ListOf[k]], k) \in Seq(Callbacks)
  BY <1>1, AppendProperties
<1>3. QED
  BY <1>1, <1>2 DEF AddTask

(* Every step keeps the variables of the promise, its mutexes, its task    *)
(* lists and its workers within their types.                               *)
LEMMA TypeStep == TypeOK /\ [Next]_vars => TypeOK'
<1> SUFFICES ASSUME TypeOK, [Next]_vars
             PROVE  TypeOK'
  OBVIOUS
<1> USE CallsAssumption, ListsAssumption DEF TypeOK, Calls, Callbacks, Threads,
        Goto, promiseVars, mutexVars, workerVars
<1>1. ASSUME NEW k \in Thens, OnSuccessLock(k)
      PROVE  TypeOK'
  BY <1>1 DEF OnSuccessLock
<1>2. ASSUME NEW k \in Thens, OnSuccessCheck(k)
      PROVE  TypeOK'
  <2>1. CASE result = NoValue
    BY <1>2, <2>1 DEF OnSuccessCheck
  <2>2. CASE result # NoValue
    <3>1. taskLists' \in [Lists -> Seq(Callbacks)]
      BY <1>2, <2>2, AddTaskType DEF OnSuccessCheck
    <3>2. QED
      BY <1>2, <2>2, <3>1 DEF OnSuccessCheck
  <2>3. QED
    BY <2>1, <2>2
<1>3. ASSUME NEW k \in Thens, OnSuccessPush(k)
      PROVE  TypeOK'
  <2>1. thenQueue' \in Seq(Thens)
    BY <1>3, AppendProperties DEF OnSuccessPush
  <2>2. QED
    BY <1>3, <2>1 DEF OnSuccessPush
<1>4. ASSUME NEW k \in Consumers, ConsumeLock(k)
      PROVE  TypeOK'
  BY <1>4 DEF ConsumeLock
<1>5. ASSUME NEW k \in Consumers, ConsumeCheck(k)
      PROVE  TypeOK'
  <2>1. CASE result = NoValue
    BY <1>5, <2>1 DEF ConsumeCheck
  <2>2. CASE result # NoValue
    <3>1. taskLists' \in [Lists -> Seq(Callbacks)]
      BY <1>5, <2>2, AddTaskType DEF ConsumeCheck
    <3>2. QED
      BY <1>5, <2>2, <3>1 DEF ConsumeCheck
  <2>3. QED
    BY <2>1, <2>2
<1>6. ASSUME NEW r \in Resolvers, ResolveStore(r)
      PROVE  TypeOK'
  BY <1>6 DEF ResolveStore
<1>7. ASSUME NEW r \in Resolvers, ResolveLock(r)
      PROVE  TypeOK'
  BY <1>7 DEF ResolveLock
<1>8. ASSUME NEW r \in Resolvers, ResolveFlush(r)
      PROVE  TypeOK'
  <2>1. CASE thenQueue # <<>>
    <3>1. Head(thenQueue) \in Thens /\ Tail(thenQueue) \in Seq(Thens)
      BY <2>1, HeadTailProperties
    <3>2. taskLists' \in [Lists -> Seq(Callbacks)]
      BY <1>8, <2>1, <3>1, AddTaskType DEF ResolveFlush
    <3>3. QED
      BY <1>8, <2>1, <3>1, <3>2 DEF ResolveFlush
  <2>2. CASE thenQueue = <<>>
    BY <1>8, <2>2 DEF ResolveFlush
  <2>3. QED
    BY <2>1, <2>2
<1>9. MaybeConsumeRsl => /\ remainingThens' \in Int
                         /\ taskLists' \in [Lists -> Seq(Callbacks)]
  BY AddTaskType DEF MaybeConsumeRsl
<1>10. ASSUME NEW r \in Resolvers, ResolveSettle(r)
       PROVE  TypeOK'
  BY <1>9, <1>10 DEF ResolveSettle
<1>11. ASSUME NEW w \in Workers, TakeTask(w)
       PROVE  TypeOK'
  <2>1. PICK l \in Serves[w] :
          /\ taskLists[l] # <<>>
          /\ task' = [task EXCEPT ![w] = Head(taskLists[l])]
          /\ taskLists' = [taskLists EXCEPT ![l] = Tail(@)]
    BY <1>11 DEF TakeTask
  <2>2. l \in Lists /\ taskLists[l] \in Seq(Callbacks)
    BY <2>1
  <2>3. Head(taskLists[l]) \in Callbacks /\ Tail(taskLists[l]) \in Seq(Callbacks)
    BY <2>1, <2>2, HeadTailProperties
  <2>4. QED
    BY <1>11, <2>1, <2>2, <2>3 DEF TakeTask
<1>12. ASSUME NEW w \in Workers, wpc[w] = "run", Observe(w)
       PROVE  observed' \in [Callbacks -> Seq(Resolvers \cup {NoValue, Moved})]
  <2>1. task[w] \in Callbacks
    BY <1>12
  <2>2. Append(observed[task[w]], result) \in Seq(Resolvers \cup {NoValue, Moved})
    BY <2>1, AppendProperties
  <2>3. QED
    BY <1>12, <2>1, <2>2 DEF Observe
<1>13. ASSUME NEW w \in Workers, RunThen(w)
       PROVE  TypeOK'
  BY <1>12, <1>13 DEF RunThen
<1>14. ASSUME NEW w \in Workers, RunConsumer(w)
       PROVE  TypeOK'
  BY <1>12, <1>14 DEF RunConsumer
<1>15. ASSUME NEW w \in Workers, LoadCount(w)
       PROVE  TypeOK'
  BY <1>15 DEF LoadCount
<1>16. ASSUME NEW w \in Workers, StoreCount(w)
       PROVE  TypeOK'
  BY <1>16 DEF StoreCount
<1>17. ASSUME NEW w \in Workers, WorkerSettle(w)
       PROVE  TypeOK'
  BY <1>9, <1>17 DEF WorkerSettle
<1>18. CASE UNCHANGED vars
  BY <1>18 DEF vars
<1>19. QED
  BY <1>1, <1>2, <1>3, <1>4, <1>5, <1>6, <1>7, <1>8, <1>10, <1>11, <1>13,
     <1>14, <1>15, <1>16, <1>17, <1>18
     DEF Next, Finished, ThenStep, ConsumerStep, ResolverStep, WorkerStep

(* The promise starts pending, unlocked and well typed.                    *)
LEMMA TypeInit == Init => TypeOK
<1>1. <<>> \in Seq(Thens) /\ <<>> \in Seq(Callbacks)
      /\ <<>> \in Seq(Resolvers \cup {NoValue, Moved})
  BY EmptySeq
<1>2. QED
  BY <1>1, CallsAssumption DEF Init, TypeOK, Calls, Callbacks

(* The variables of promise.h keep their types in every reachable state.   *)
THEOREM PromiseTyped == Spec => []TypeOK
BY TypeInit, TypeStep, PTL DEF Spec

-----------------------------------------------------------------------------
(* How the steps move callbacks between the queue, the lists and the       *)
(* workers                                                                 *)

(* The contents of a queue of callbacks are callbacks.                     *)
LEMMA ToSetType ==
  ASSUME NEW S, NEW s \in Seq(S)
  PROVE  ToSet(s) \subseteq S
BY LenProperties, ElementOfSeq DEF ToSet

(* add_task puts the callback on its list and nowhere else.                *)
LEMMA AddTaskMoves ==
  ASSUME TypeOK, NEW k \in Callbacks, AddTask(k)
  PROVE  /\ \A l \in Lists : ToSet(taskLists'[l]) =
              IF l = ListOf[k] THEN ToSet(taskLists[l]) \cup {k}
                               ELSE ToSet(taskLists[l])
         /\ (\A l \in Lists : IsInjective(taskLists[l])) /\ ~Listed(k)
              => \A l \in Lists : IsInjective(taskLists'[l])
<1>1. ListOf[k] \in Lists /\ taskLists \in [Lists -> Seq(Callbacks)]
  BY ListsAssumption DEF TypeOK
<1>2. \A l \in Lists : taskLists'[l] =
         IF l = ListOf[k] THEN Append(taskLists[l], k) ELSE taskLists[l]
  BY <1>1 DEF AddTask
<1>3. /\ ToSet(Append(taskLists[ListOf[k]], k)) = ToSet(taskLists[ListOf[k]]) \cup {k}
      /\ IsInjective(taskLists[ListOf[k]]) /\ k \notin ToSet(taskLists[ListOf[k]])
           => IsInjective(Append(taskLists[ListOf[k]], k))
  BY <1>1, AppendSet
<1>4. QED
  BY <1>1, <1>2, <1>3 DEF Listed

(* The flush loop of resolve moves the oldest callback of the queue.       *)
LEMMA FlushMoves ==
  ASSUME TypeOK, PlacesInv, NEW r \in Resolvers, ResolveFlush(r), thenQueue # <<>>
  PROVE  /\ Head(thenQueue) \in Thens
         /\ Queued(Head(thenQueue))
         /\ AddTask(Head(thenQueue))
         /\ ToSet(thenQueue') = ToSet(thenQueue) \ {Head(thenQueue)}
         /\ IsInjective(thenQueue')
<1>1. thenQueue \in Seq(Thens) /\ IsInjective(thenQueue)
  BY DEF TypeOK, PlacesInv
<1>2. QED
  BY <1>1, TailSet DEF ResolveFlush, Queued

(* A worker takes the oldest task off one of its lists.                    *)
LEMMA TakeMoves ==
  ASSUME TypeOK, PlacesInv, NEW w \in Workers, TakeTask(w)
  PROVE  \E l \in Lists, k \in Callbacks :
           /\ k \in ToSet(taskLists[l])
           /\ task' = [task EXCEPT ![w] = k]
           /\ \A m \in Lists : ToSet(taskLists'[m]) =
                IF m = l THEN ToSet(taskLists[m]) \ {k} ELSE ToSet(taskLists[m])
           /\ \A m \in Lists : IsInjective(taskLists'[m])
<1>1. PICK l \in Serves[w] :
        /\ taskLists[l] # <<>>
        /\ task' = [task EXCEPT ![w] = Head(taskLists[l])]
        /\ taskLists' = [taskLists EXCEPT ![l] = Tail(@)]
  BY DEF TakeTask
<1>2. l \in Lists /\ taskLists \in [Lists -> Seq(Callbacks)]
  BY ListsAssumption DEF TypeOK
<1>3. /\ Head(taskLists[l]) \in Callbacks
      /\ Head(taskLists[l]) \in ToSet(taskLists[l])
      /\ ToSet(Tail(taskLists[l])) = ToSet(taskLists[l]) \ {Head(taskLists[l])}
      /\ IsInjective(Tail(taskLists[l]))
  BY <1>1, <1>2, TailSet DEF PlacesInv
<1>4. \A m \in Lists : taskLists'[m] =
        IF m = l THEN Tail(taskLists[m]) ELSE taskLists[m]
  BY <1>1, <1>2
<1>5. QED
  BY <1>1, <1>2, <1>3, <1>4 DEF PlacesInv

-----------------------------------------------------------------------------
(* The inductive invariant is preserved, part by part *)

(* Mutexes are held exactly where the code holds them. *)
LEMMA MutexStep == IInv /\ [Next]_vars => MutexInv'
<1> SUFFICES ASSUME IInv, [Next]_vars
             PROVE  MutexInv'
  OBVIOUS
<1> USE CallsAssumption, ListsAssumption DEF IInv, TypeOK, Calls, Callbacks, Threads, Goto,
        promiseVars, mutexVars, workerVars
<1>1. ASSUME NEW k \in Thens, OnSuccessLock(k)
      PROVE  MutexInv'
  <2>1. {j \in Thens : pc[j] = "push"}' = resultReaders'
    BY <1>1 DEF OnSuccessLock, MutexInv
  <2>2. \A c \in Calls : pc'[c] \in {"check", "push", "flush"}
                        => thenQueueMutex' = c
    BY <1>1 DEF OnSuccessLock, MutexInv
  <2>3. /\ \A k2 \in Thens : pc'[k2] \in {"called", "check", "push", "accepted",
                                        "refused"}
        /\ \A c \in Consumers : pc'[c] \in {"called", "check", "accepted",
                                            "refused"}
        /\ \A r2 \in Resolvers : pc'[r2] \in {"called", "stored", "flush",
                                             "settle", "accepted", "refused"}
    <3>1. PICK s \in {"check", "refused"} : pc' = [pc EXCEPT ![k] = s]
      BY <1>1 DEF OnSuccessLock
    <3>2. QED
      BY <3>1 DEF MutexInv
  <2>4. UNCHANGED <<wpc, consumeMutex, loaded, remainingThens>>
    BY <1>1 DEF OnSuccessLock
  <2>5. QED
    BY <2>1, <2>2, <2>3, <2>4 DEF MutexInv
<1>2. ASSUME NEW k \in Thens, OnSuccessCheck(k)
      PROVE  MutexInv'
  <2>1. {j \in Thens : pc[j] = "push"}' = resultReaders'
    BY <1>2 DEF OnSuccessCheck, MutexInv
  <2>2. \A c \in Calls : pc'[c] \in {"check", "push", "flush"}
                        => thenQueueMutex' = c
    BY <1>2 DEF OnSuccessCheck, MutexInv
  <2>3. /\ \A k2 \in Thens : pc'[k2] \in {"called", "check", "push", "accepted",
                                        "refused"}
        /\ \A c \in Consumers : pc'[c] \in {"called", "check", "accepted",
                                            "refused"}
        /\ \A r2 \in Resolvers : pc'[r2] \in {"called", "stored", "flush",
                                             "settle", "accepted", "refused"}
    <3>1. PICK s \in {"accepted", "push"} : pc' = [pc EXCEPT ![k] = s]
      BY <1>2 DEF OnSuccessCheck
    <3>2. QED
      BY <3>1 DEF MutexInv
  <2>4. UNCHANGED <<wpc, consumeMutex, loaded, remainingThens>>
    BY <1>2 DEF OnSuccessCheck
  <2>5. QED
    BY <2>1, <2>2, <2>3, <2>4 DEF MutexInv
<1>3. ASSUME NEW k \in Thens, OnSuccessPush(k)
      PROVE  MutexInv'
  BY <1>3 DEF OnSuccessPush, MutexInv
<1>4. ASSUME NEW k \in Consumers, ConsumeLock(k)
      PROVE  MutexInv'
  <2>1. {j \in Thens : pc[j] = "push"}' = resultReaders'
    BY <1>4 DEF ConsumeLock, MutexInv
  <2>2. \A c \in Calls : pc'[c] \in {"check", "push", "flush"}
                        => thenQueueMutex' = c
    BY <1>4 DEF ConsumeLock, MutexInv
  <2>3. /\ \A k2 \in Thens : pc'[k2] \in {"called", "check", "push", "accepted",
                                        "refused"}
        /\ \A c \in Consumers : pc'[c] \in {"called", "check", "accepted",
                                            "refused"}
        /\ \A r2 \in Resolvers : pc'[r2] \in {"called", "stored", "flush",
                                             "settle", "accepted", "refused"}
    <3>1. PICK s \in {"check", "refused"} : pc' = [pc EXCEPT ![k] = s]
      BY <1>4 DEF ConsumeLock
    <3>2. QED
      BY <3>1 DEF MutexInv
  <2>4. UNCHANGED <<wpc, consumeMutex, loaded, remainingThens>>
    BY <1>4 DEF ConsumeLock
  <2>5. QED
    BY <2>1, <2>2, <2>3, <2>4 DEF MutexInv
<1>5. ASSUME NEW k \in Consumers, ConsumeCheck(k)
      PROVE  MutexInv'
  BY <1>5 DEF ConsumeCheck, MutexInv
<1>6. ASSUME NEW r \in Resolvers, ResolveStore(r)
      PROVE  MutexInv'
  <2>1. {j \in Thens : pc[j] = "push"}' = resultReaders'
    BY <1>6 DEF ResolveStore, MutexInv
  <2>2. \A c \in Calls : pc'[c] \in {"check", "push", "flush"}
                        => thenQueueMutex' = c
    BY <1>6 DEF ResolveStore, MutexInv
  <2>3. /\ \A k2 \in Thens : pc'[k2] \in {"called", "check", "push", "accepted",
                                        "refused"}
        /\ \A c \in Consumers : pc'[c] \in {"called", "check", "accepted",
                                            "refused"}
        /\ \A r2 \in Resolvers : pc'[r2] \in {"called", "stored", "flush",
                                             "settle", "accepted", "refused"}
    <3>1. PICK s \in {"stored", "refused"} : pc' = [pc EXCEPT ![r] = s]
      BY <1>6 DEF ResolveStore
    <3>2. QED
      BY <3>1 DEF MutexInv
  <2>4. UNCHANGED <<wpc, consumeMutex, loaded, remainingThens>>
    BY <1>6 DEF ResolveStore
  <2>5. QED
    BY <2>1, <2>2, <2>3, <2>4 DEF MutexInv
<1>7. ASSUME NEW r \in Resolvers, ResolveLock(r)
      PROVE  MutexInv'
  BY <1>7 DEF ResolveLock, MutexInv
<1>8. ASSUME NEW r \in Resolvers, ResolveFlush(r)
      PROVE  MutexInv'
  <2>1. {j \in Thens : pc[j] = "push"}' = resultReaders'
    BY <1>8 DEF ResolveFlush, MutexInv
  <2>2. \A c \in Calls : pc'[c] \in {"check", "push", "flush"}
                        => thenQueueMutex' = c
    BY <1>8 DEF ResolveFlush, MutexInv
  <2>3. /\ \A k2 \in Thens : pc'[k2] \in {"called", "check", "push", "accepted",
                                        "refused"}
        /\ \A c \in Consumers : pc'[c] \in {"called", "check", "accepted",
                                            "refused"}
        /\ \A r2 \in Resolvers : pc'[r2] \in {"called", "stored", "flush",
                                             "settle", "accepted", "refused"}
    BY <1>8 DEF ResolveFlush, MutexInv
  <2>4. UNCHANGED <<wpc, consumeMutex, loaded, remainingThens>>
    BY <1>8 DEF ResolveFlush
  <2>5. QED
    BY <2>1, <2>2, <2>3, <2>4 DEF MutexInv
<1>9. ASSUME NEW r \in Resolvers, ResolveSettle(r)
      PROVE  MutexInv'
  <2>1. CASE remainingThens = 0 /\ consumingOp # NoValue
    <3>1. Cardinality(Outstanding) = 0 \/ Outstanding = {}
      BY <2>1 DEF CountInv
    <3>2. IsFiniteSet(Outstanding)
      BY FS_Subset DEF Outstanding
    <3>3. Outstanding = {}
      BY <3>1, <3>2, FS_EmptySet
    <3>4. \A w \in Workers : wpc[w] # "loaded"
      BY <3>3 DEF Outstanding, ProgressInv
    <3>5. QED
      BY <1>9, <3>4 DEF ResolveSettle, MutexInv, MaybeConsumeRsl
  <2>2. CASE ~(remainingThens = 0 /\ consumingOp # NoValue)
    BY <1>9, <2>2 DEF ResolveSettle, MutexInv, MaybeConsumeRsl
  <2>3. QED
    BY <2>1, <2>2
<1>10. ASSUME NEW w \in Workers, TakeTask(w)
      PROVE  MutexInv'
  BY <1>10 DEF TakeTask, MutexInv
<1>11. ASSUME NEW w \in Workers, RunThen(w)
      PROVE  MutexInv'
  BY <1>11 DEF RunThen, MutexInv
<1>12. ASSUME NEW w \in Workers, RunConsumer(w)
      PROVE  MutexInv'
  BY <1>12 DEF RunConsumer, MutexInv
<1>13. ASSUME NEW w \in Workers, LoadCount(w)
      PROVE  MutexInv'
  BY <1>13 DEF LoadCount, MutexInv
<1>14. ASSUME NEW w \in Workers, StoreCount(w)
      PROVE  MutexInv'
  BY <1>14 DEF StoreCount, MutexInv
<1>15. ASSUME NEW w \in Workers, WorkerSettle(w)
      PROVE  MutexInv'
  BY <1>15 DEF WorkerSettle, MutexInv, MaybeConsumeRsl
<1>16. CASE UNCHANGED vars
  BY <1>16 DEF vars, MutexInv
<1>17. QED
  BY <1>1, <1>2, <1>3, <1>4, <1>5, <1>6, <1>7, <1>8, <1>9, <1>10, <1>11, <1>12, <1>13, <1>14, <1>15, <1>16
     DEF Next, Finished, ThenStep, ConsumerStep, ResolverStep, WorkerStep

(* Nothing is scheduled before the value is stored. *)
LEMMA PendingStep == IInv /\ [Next]_vars => PendingInv'
<1> SUFFICES ASSUME IInv, [Next]_vars
             PROVE  PendingInv'
  OBVIOUS
<1> USE CallsAssumption, ListsAssumption DEF IInv, TypeOK, Calls, Callbacks, Threads, Goto,
        promiseVars, mutexVars, workerVars
<1>1. ASSUME NEW k \in Thens, OnSuccessLock(k)
      PROVE  PendingInv'
  BY <1>1 DEF OnSuccessLock, PendingInv
<1>2. ASSUME NEW k \in Thens, OnSuccessCheck(k)
      PROVE  PendingInv'
  BY <1>2 DEF OnSuccessCheck, PendingInv
<1>3. ASSUME NEW k \in Thens, OnSuccessPush(k)
      PROVE  PendingInv'
  BY <1>3 DEF OnSuccessPush, PendingInv
<1>4. ASSUME NEW k \in Consumers, ConsumeLock(k)
      PROVE  PendingInv'
  BY <1>4 DEF ConsumeLock, PendingInv
<1>5. ASSUME NEW k \in Consumers, ConsumeCheck(k)
      PROVE  PendingInv'
  BY <1>5 DEF ConsumeCheck, PendingInv
<1>6. ASSUME NEW r \in Resolvers, ResolveStore(r)
      PROVE  PendingInv'
  <2>1. PICK s \in {"stored", "refused"} : pc' = [pc EXCEPT ![r] = s]
    BY <1>6 DEF ResolveStore
  <2>2. result' # NoValue /\ UNCHANGED <<taskLists, task>>
    BY <1>6 DEF ResolveStore
  <2>3. \A k \in Thens : pc[k] # "push"
    BY <1>6 DEF ResolveStore, MutexInv
  <2>4. QED
    BY <2>1, <2>2, <2>3 DEF PendingInv
<1>7. ASSUME NEW r \in Resolvers, ResolveLock(r)
      PROVE  PendingInv'
  BY <1>7 DEF ResolveLock, PendingInv
<1>8. ASSUME NEW r \in Resolvers, ResolveFlush(r)
      PROVE  PendingInv'
  BY <1>8 DEF ResolveFlush, PendingInv
<1>9. ASSUME NEW r \in Resolvers, ResolveSettle(r)
      PROVE  PendingInv'
  BY <1>9 DEF ResolveSettle, PendingInv
<1>10. ASSUME NEW w \in Workers, TakeTask(w)
      PROVE  PendingInv'
  <2>1. result # NoValue
    BY <1>10 DEF TakeTask, PendingInv
  <2>2. QED
    BY <1>10, <2>1 DEF TakeTask, PendingInv
<1>11. ASSUME NEW w \in Workers, RunThen(w)
      PROVE  PendingInv'
  BY <1>11 DEF RunThen, PendingInv
<1>12. ASSUME NEW w \in Workers, RunConsumer(w)
      PROVE  PendingInv'
  BY <1>12 DEF RunConsumer, PendingInv
<1>13. ASSUME NEW w \in Workers, LoadCount(w)
      PROVE  PendingInv'
  BY <1>13 DEF LoadCount, PendingInv
<1>14. ASSUME NEW w \in Workers, StoreCount(w)
      PROVE  PendingInv'
  BY <1>14 DEF StoreCount, PendingInv
<1>15. ASSUME NEW w \in Workers, WorkerSettle(w)
      PROVE  PendingInv'
  BY <1>15 DEF WorkerSettle, PendingInv
<1>16. CASE UNCHANGED vars
  BY <1>16 DEF vars, PendingInv
<1>17. QED
  BY <1>1, <1>2, <1>3, <1>4, <1>5, <1>6, <1>7, <1>8, <1>9, <1>10, <1>11, <1>12, <1>13, <1>14, <1>15, <1>16
     DEF Next, Finished, ThenStep, ConsumerStep, ResolverStep, WorkerStep

(* Scheduling a callback that is nowhere else keeps the places distinct.   *)
LEMMA AddKeepsPlaces ==
  ASSUME TypeOK, PlacesInv, NEW k \in Callbacks, AddTask(k),
         ~Listed(k), ~Taken(k), k \notin ToSet(thenQueue'),
         ToSet(thenQueue') \subseteq ToSet(thenQueue), IsInjective(thenQueue'),
         \A w \in Workers : task'[w] \in {task[w], NoValue}
  PROVE  PlacesInv'
<1> USE CallsAssumption DEF Calls, Callbacks, Threads
<1>1. ListOf[k] \in Lists
  BY ListsAssumption
<1>2. /\ \A l \in Lists : ToSet(taskLists'[l]) =
            IF l = ListOf[k] THEN ToSet(taskLists[l]) \cup {k}
                             ELSE ToSet(taskLists[l])
      /\ \A l \in Lists : IsInjective(taskLists'[l])
  BY AddTaskMoves DEF PlacesInv
<1>3. /\ ToSet(thenQueue) \subseteq Thens
      /\ \A l \in Lists : ToSet(taskLists[l]) \subseteq Callbacks
  BY ToSetType DEF TypeOK
<1>4. \A j \in Callbacks : Taken(j)' => Taken(j)
  BY DEF Taken
<1>5. ASSUME NEW j \in Thens, Queued(j)'
      PROVE  ~Listed(j)' /\ ~Taken(j)'
  <2>1. Queued(j) /\ j # k
    BY <1>5 DEF Queued
  <2>2. ~Listed(j) /\ ~Taken(j)
    BY <2>1 DEF PlacesInv
  <2>3. QED
    BY <1>2, <1>4, <2>1, <2>2 DEF Listed
<1>6. ASSUME NEW l \in Lists, NEW j \in ToSet(taskLists'[l])
      PROVE  ListOf[j] = l /\ ~Taken(j)'
  <2>1. \/ j = k /\ l = ListOf[k]
        \/ j \in ToSet(taskLists[l])
    BY <1>2
  <2>2. j \in Callbacks /\ ListOf[j] = l /\ ~Taken(j)
    BY <1>3, <2>1 DEF PlacesInv
  <2>3. QED
    BY <1>4, <2>2
<1>7. \A v, w \in Workers : task'[v] = task'[w] /\ task'[v] # NoValue => v = w
  BY DEF PlacesInv
<1>8. QED
  BY <1>2, <1>5, <1>6, <1>7 DEF PlacesInv

(* A worker that puts its task down, or no worker doing so, keeps the      *)
(* places distinct.                                                        *)
LEMMA FreeKeepsPlaces ==
  ASSUME TypeOK, PlacesInv, UNCHANGED <<thenQueue, taskLists>>,
         \A w \in Workers : task'[w] \in {task[w], NoValue}
  PROVE  PlacesInv'
<1> USE CallsAssumption DEF Calls, Callbacks, Threads
<1>1. /\ ToSet(thenQueue) \subseteq Thens
      /\ \A l \in Lists : ToSet(taskLists[l]) \subseteq Callbacks
  BY ToSetType DEF TypeOK
<1>2. \A j \in Callbacks : Taken(j)' => Taken(j)
  BY DEF Taken
<1>3. \A v, w \in Workers : task'[v] = task'[w] /\ task'[v] # NoValue => v = w
  BY DEF PlacesInv
<1>4. QED
  BY <1>1, <1>2, <1>3 DEF PlacesInv, Queued, Listed

(* maybe_consume_rsl schedules a deferred consumer that is nowhere else.   *)
LEMMA SettleKeepsPlaces ==
  ASSUME IInv, MaybeConsumeRsl, UNCHANGED thenQueue,
         \A w \in Workers : task'[w] \in {task[w], NoValue}
  PROVE  PlacesInv'
<1> USE DEF IInv
<1>1. CASE remainingThens = 0 /\ consumingOp # NoValue
  <2>1. AddTask(consumingOp)
    BY <1>1 DEF MaybeConsumeRsl
  <2>2. consumingOp \in Consumers
    BY <1>1 DEF TypeOK
  <2>3. ~Listed(consumingOp) /\ ~Taken(consumingOp)
    BY <1>1 DEF ConsumerInv
  <2>4. consumingOp \notin ToSet(thenQueue)
    BY <2>2, ToSetType, CallsAssumption DEF TypeOK
  <2>5. QED
    BY <2>1, <2>2, <2>3, <2>4, AddKeepsPlaces DEF PlacesInv, Callbacks
<1>2. CASE ~(remainingThens = 0 /\ consumingOp # NoValue)
  <2>1. UNCHANGED taskLists
    BY <1>2 DEF MaybeConsumeRsl
  <2>2. QED
    BY <2>1, FreeKeepsPlaces
<1>3. QED
  BY <1>1, <1>2

(* No step puts a callback in two places.                                   *)
LEMMA PlacesStep == IInv /\ [Next]_vars => PlacesInv'
<1> SUFFICES ASSUME IInv, [Next]_vars
             PROVE  PlacesInv'
  OBVIOUS
<1> USE CallsAssumption, ListsAssumption DEF IInv, TypeOK, Calls, Callbacks, Threads, Goto,
        promiseVars, mutexVars, workerVars
<1>1. ASSUME NEW k \in Thens, OnSuccessLock(k)
      PROVE  PlacesInv'
  <2>1. UNCHANGED <<thenQueue, taskLists, task>>
    BY <1>1 DEF OnSuccessLock
  <2>2. QED
    BY <2>1 DEF PlacesInv, Queued, Listed, Taken
<1>2. ASSUME NEW k \in Thens, OnSuccessCheck(k)
      PROVE  PlacesInv'
  <2>1. CASE result = NoValue
    <3>1. UNCHANGED <<thenQueue, taskLists, task>>
      BY <1>2, <2>1 DEF OnSuccessCheck
    <3>2. QED
      BY <3>1 DEF PlacesInv, Queued, Listed, Taken
  <2>2. CASE result # NoValue
    <3>1. ~Queued(k) /\ ~Listed(k) /\ ~Taken(k)
      BY <1>2, <2>2 DEF OnSuccessCheck, ProgressInv
    <3>2. AddTask(k) /\ UNCHANGED <<thenQueue, task>>
      BY <1>2, <2>2 DEF OnSuccessCheck
    <3>3. QED
      BY <3>1, <3>2, AddKeepsPlaces DEF PlacesInv, Queued
  <2>3. QED
    BY <2>1, <2>2
<1>3. ASSUME NEW k \in Thens, OnSuccessPush(k)
      PROVE  PlacesInv'
  <2>1. ~Queued(k) /\ ~Listed(k) /\ ~Taken(k)
    BY <1>3 DEF OnSuccessPush, ProgressInv
  <2>2. /\ thenQueue' = Append(thenQueue, k)
        /\ UNCHANGED <<taskLists, task>>
    BY <1>3 DEF OnSuccessPush
  <2>3. /\ ToSet(thenQueue') = ToSet(thenQueue) \cup {k}
        /\ IsInjective(thenQueue')
    BY <2>1, <2>2, AppendSet DEF PlacesInv, Queued
  <2>4. QED
    BY <2>1, <2>2, <2>3 DEF PlacesInv, Queued, Listed, Taken
<1>4. ASSUME NEW k \in Consumers, ConsumeLock(k)
      PROVE  PlacesInv'
  <2>1. UNCHANGED <<thenQueue, taskLists, task>>
    BY <1>4 DEF ConsumeLock
  <2>2. QED
    BY <2>1 DEF PlacesInv, Queued, Listed, Taken
<1>5. ASSUME NEW k \in Consumers, ConsumeCheck(k)
      PROVE  PlacesInv'
  <2>1. CASE result = NoValue
    <3>1. UNCHANGED <<thenQueue, taskLists, task>>
      BY <1>5, <2>1 DEF ConsumeCheck
    <3>2. QED
      BY <3>1 DEF PlacesInv, Queued, Listed, Taken
  <2>2. CASE result # NoValue
    <3>1. ~Queued(k) /\ ~Listed(k) /\ ~Taken(k)
      BY <1>5, <2>2 DEF ConsumeCheck, ProgressInv
    <3>2. AddTask(k) /\ UNCHANGED <<thenQueue, task>>
      BY <1>5, <2>2 DEF ConsumeCheck
    <3>3. QED
      BY <3>1, <3>2, AddKeepsPlaces DEF PlacesInv, Queued
  <2>3. QED
    BY <2>1, <2>2
<1>6. ASSUME NEW r \in Resolvers, ResolveStore(r)
      PROVE  PlacesInv'
  <2>1. UNCHANGED <<thenQueue, taskLists, task>>
    BY <1>6 DEF ResolveStore
  <2>2. QED
    BY <2>1 DEF PlacesInv, Queued, Listed, Taken
<1>7. ASSUME NEW r \in Resolvers, ResolveLock(r)
      PROVE  PlacesInv'
  <2>1. UNCHANGED <<thenQueue, taskLists, task>>
    BY <1>7 DEF ResolveLock
  <2>2. QED
    BY <2>1 DEF PlacesInv, Queued, Listed, Taken
<1>8. ASSUME NEW r \in Resolvers, ResolveFlush(r)
      PROVE  PlacesInv'
  <2>1. CASE thenQueue = <<>>
    <3>1. UNCHANGED <<thenQueue, taskLists, task>>
      BY <1>8, <2>1 DEF ResolveFlush
    <3>2. QED
      BY <3>1 DEF PlacesInv, Queued, Listed, Taken
  <2>2. CASE thenQueue # <<>>
    <3>1. /\ Head(thenQueue) \in Thens
          /\ Queued(Head(thenQueue))
          /\ AddTask(Head(thenQueue))
          /\ ToSet(thenQueue') = ToSet(thenQueue) \ {Head(thenQueue)}
          /\ IsInjective(thenQueue')
      BY <1>8, <2>2, FlushMoves
    <3>2. ~Listed(Head(thenQueue)) /\ ~Taken(Head(thenQueue))
      BY <3>1 DEF PlacesInv
    <3>3. UNCHANGED task
      BY <1>8 DEF ResolveFlush
    <3>4. QED
      BY <3>1, <3>2, <3>3, AddKeepsPlaces
  <2>3. QED
    BY <2>1, <2>2
<1>9. ASSUME NEW r \in Resolvers, ResolveSettle(r)
      PROVE  PlacesInv'
  <2>1. UNCHANGED <<thenQueue, task>> /\ MaybeConsumeRsl
    BY <1>9 DEF ResolveSettle
  <2>2. QED
    BY <2>1, SettleKeepsPlaces
<1>10. ASSUME NEW w \in Workers, TakeTask(w)
      PROVE  PlacesInv'
  <2>1. PICK l \in Lists, k \in Callbacks :
          /\ k \in ToSet(taskLists[l])
          /\ task' = [task EXCEPT ![w] = k]
          /\ \A m \in Lists : ToSet(taskLists'[m]) =
               IF m = l THEN ToSet(taskLists[m]) \ {k} ELSE ToSet(taskLists[m])
          /\ \A m \in Lists : IsInjective(taskLists'[m])
    BY <1>10, TakeMoves
  <2>2. UNCHANGED thenQueue
    BY <1>10 DEF TakeTask
  <2>3. \A j : Taken(j)' => Taken(j) \/ j = k
    BY <2>1 DEF Taken
  <2>4. ASSUME NEW j \in Thens, Queued(j)'
        PROVE  ~Listed(j)' /\ ~Taken(j)'
    <3>1. ~Listed(j) /\ ~Taken(j)
      BY <2>2, <2>4 DEF PlacesInv, Queued
    <3>2. j # k
      BY <2>1, <3>1 DEF Listed
    <3>3. QED
      BY <2>1, <2>3, <3>1, <3>2 DEF Listed
  <2>5. ASSUME NEW m \in Lists, NEW j \in ToSet(taskLists'[m])
        PROVE  ListOf[j] = m /\ ~Taken(j)'
    <3>1. j \in ToSet(taskLists[m]) /\ (m = l => j # k)
      BY <2>1
    <3>2. ListOf[j] = m /\ ~Taken(j)
      BY <3>1 DEF PlacesInv
    <3>3. j # k
      BY <2>1, <3>1, <3>2 DEF PlacesInv
    <3>4. QED
      BY <2>3, <3>2, <3>3
  <2>6. \A u, v \in Workers : task'[u] = task'[v] /\ task'[u] # NoValue => u = v
    BY <2>1 DEF PlacesInv, Taken
  <2>7. QED
    BY <2>1, <2>2, <2>4, <2>5, <2>6 DEF PlacesInv
<1>11. ASSUME NEW w \in Workers, RunThen(w)
      PROVE  PlacesInv'
  <2>1. UNCHANGED <<thenQueue, taskLists, task>>
    BY <1>11 DEF RunThen
  <2>2. QED
    BY <2>1 DEF PlacesInv, Queued, Listed, Taken
<1>12. ASSUME NEW w \in Workers, RunConsumer(w)
      PROVE  PlacesInv'
  <2>1. /\ UNCHANGED <<thenQueue, taskLists>>
        /\ task' = [task EXCEPT ![w] = NoValue]
    BY <1>12 DEF RunConsumer
  <2>2. QED
    BY <2>1, FreeKeepsPlaces
<1>13. ASSUME NEW w \in Workers, LoadCount(w)
      PROVE  PlacesInv'
  <2>1. UNCHANGED <<thenQueue, taskLists, task>>
    BY <1>13 DEF LoadCount
  <2>2. QED
    BY <2>1 DEF PlacesInv, Queued, Listed, Taken
<1>14. ASSUME NEW w \in Workers, StoreCount(w)
      PROVE  PlacesInv'
  <2>1. UNCHANGED <<thenQueue, taskLists, task>>
    BY <1>14 DEF StoreCount
  <2>2. QED
    BY <2>1 DEF PlacesInv, Queued, Listed, Taken
<1>15. ASSUME NEW w \in Workers, WorkerSettle(w)
      PROVE  PlacesInv'
  <2>1. /\ UNCHANGED thenQueue
        /\ task' = [task EXCEPT ![w] = NoValue]
        /\ MaybeConsumeRsl
    BY <1>15 DEF WorkerSettle
  <2>2. QED
    BY <2>1, SettleKeepsPlaces
<1>16. CASE UNCHANGED vars
  BY <1>16 DEF vars, PlacesInv, Queued, Listed, Taken
<1>17. QED
  BY <1>1, <1>2, <1>3, <1>4, <1>5, <1>6, <1>7, <1>8, <1>9, <1>10, <1>11, <1>12, <1>13, <1>14, <1>15, <1>16
     DEF Next, Finished, ThenStep, ConsumerStep, ResolverStep, WorkerStep

(* A scheduled callback is listed, and nothing else becomes so.            *)
LEMMA AddListed ==
  ASSUME TypeOK, NEW k \in Callbacks, AddTask(k)
  PROVE  \A j : Listed(j)' <=> Listed(j) \/ j = k
<1>1. ListOf[k] \in Lists
  BY ListsAssumption
<1>2. \A l \in Lists : ToSet(taskLists'[l]) =
         IF l = ListOf[k] THEN ToSet(taskLists[l]) \cup {k}
                          ELSE ToSet(taskLists[l])
  BY AddTaskMoves
<1>3. QED
  BY <1>1, <1>2 DEF Listed

(* A taken callback is no longer listed, and nothing else is taken.        *)
LEMMA TakeListed ==
  ASSUME TypeOK, PlacesInv, NEW w \in Workers, TakeTask(w)
  PROVE  \E k \in Callbacks :
           /\ Listed(k)
           /\ task' = [task EXCEPT ![w] = k]
           /\ \A j : Listed(j)' <=> Listed(j) /\ j # k
<1>1. PICK l \in Lists, k \in Callbacks :
        /\ k \in ToSet(taskLists[l])
        /\ task' = [task EXCEPT ![w] = k]
        /\ \A m \in Lists : ToSet(taskLists'[m]) =
             IF m = l THEN ToSet(taskLists[m]) \ {k} ELSE ToSet(taskLists[m])
  BY TakeMoves
<1>2. \A m \in Lists : k \in ToSet(taskLists[m]) => m = l
  BY <1>1 DEF PlacesInv
<1>3. \A j : Listed(j)' <=> Listed(j) /\ j # k
  BY <1>1, <1>2 DEF Listed
<1>4. QED
  BY <1>1, <1>3 DEF Listed

(* maybe_consume_rsl schedules the deferred consumer or nothing.           *)
LEMMA SettleListed ==
  ASSUME TypeOK, MaybeConsumeRsl
  PROVE  \/ /\ remainingThens = 0 /\ consumingOp # NoValue
            /\ remainingThens' = -1
            /\ \A j : Listed(j)' <=> Listed(j) \/ j = consumingOp
         \/ /\ ~(remainingThens = 0 /\ consumingOp # NoValue)
            /\ UNCHANGED remainingThens
            /\ \A j : Listed(j)' <=> Listed(j)
<1>1. CASE remainingThens = 0 /\ consumingOp # NoValue
  <2>1. consumingOp \in Callbacks
    BY <1>1 DEF TypeOK, Callbacks
  <2>2. QED
    BY <1>1, <2>1, AddListed DEF MaybeConsumeRsl
<1>2. CASE ~(remainingThens = 0 /\ consumingOp # NoValue)
  BY <1>2 DEF MaybeConsumeRsl, Listed
<1>3. QED
  BY <1>1, <1>2

(* Each callback advances through queue, list and worker, running once.    *)
LEMMA ProgressStep == IInv /\ [Next]_vars => ProgressInv'
<1> SUFFICES ASSUME IInv, [Next]_vars
             PROVE  ProgressInv'
  OBVIOUS
<1> USE CallsAssumption, ListsAssumption DEF IInv, TypeOK, Calls, Callbacks, Threads, Goto,
        promiseVars, mutexVars, workerVars
<1>1. ASSUME NEW k \in Thens, OnSuccessLock(k)
      PROVE  ProgressInv'
  <2>1. UNCHANGED <<thenQueue, taskLists, task>>
    BY <1>1 DEF OnSuccessLock
  <2>2. \A j : /\ Queued(j)' <=> Queued(j)
               /\ Listed(j)' <=> Listed(j)
               /\ Taken(j)' <=> Taken(j)
    BY <2>1 DEF Queued, Listed, Taken
  <2>3. QED
    BY <1>1, <2>1, <2>2 DEF OnSuccessLock, ProgressInv
<1>2. ASSUME NEW k \in Thens, OnSuccessCheck(k)
      PROVE  ProgressInv'
  <2>1. CASE result = NoValue
    <3>1. UNCHANGED <<thenQueue, taskLists, task>>
      BY <1>2, <2>1 DEF OnSuccessCheck
    <3>2. \A j : /\ Queued(j)' <=> Queued(j)
                 /\ Listed(j)' <=> Listed(j)
                 /\ Taken(j)' <=> Taken(j)
      BY <3>1 DEF Queued, Listed, Taken
    <3>3. QED
      BY <1>2, <2>1, <3>1, <3>2 DEF OnSuccessCheck, ProgressInv
  <2>2. CASE result # NoValue
    <3>1. AddTask(k) /\ UNCHANGED <<thenQueue, task>>
      BY <1>2, <2>2 DEF OnSuccessCheck
    <3>2. \A j : /\ Queued(j)' <=> Queued(j)
                 /\ Listed(j)' <=> Listed(j) \/ j = k
                 /\ Taken(j)' <=> Taken(j)
      BY <3>1, AddListed DEF Queued, Taken
    <3>3. QED
      BY <1>2, <2>2, <3>1, <3>2 DEF OnSuccessCheck, ProgressInv
  <2>3. QED
    BY <2>1, <2>2
<1>3. ASSUME NEW k \in Thens, OnSuccessPush(k)
      PROVE  ProgressInv'
  <2>1. /\ thenQueue' = Append(thenQueue, k)
        /\ UNCHANGED <<taskLists, task>>
    BY <1>3 DEF OnSuccessPush
  <2>2. ToSet(thenQueue') = ToSet(thenQueue) \cup {k}
    BY <2>1, AppendSet
  <2>3. \A j : /\ Queued(j)' <=> Queued(j) \/ j = k
               /\ Listed(j)' <=> Listed(j)
               /\ Taken(j)' <=> Taken(j)
    BY <2>1, <2>2 DEF Queued, Listed, Taken
  <2>4. QED
    BY <1>3, <2>1, <2>3 DEF OnSuccessPush, ProgressInv
<1>4. ASSUME NEW k \in Consumers, ConsumeLock(k)
      PROVE  ProgressInv'
  <2>1. UNCHANGED <<thenQueue, taskLists, task>>
    BY <1>4 DEF ConsumeLock
  <2>2. \A j : /\ Queued(j)' <=> Queued(j)
               /\ Listed(j)' <=> Listed(j)
               /\ Taken(j)' <=> Taken(j)
    BY <2>1 DEF Queued, Listed, Taken
  <2>3. QED
    BY <1>4, <2>1, <2>2 DEF ConsumeLock, ProgressInv
<1>5. ASSUME NEW k \in Consumers, ConsumeCheck(k)
      PROVE  ProgressInv'
  <2>1. CASE result = NoValue
    <3>1. UNCHANGED <<thenQueue, taskLists, task>>
      BY <1>5, <2>1 DEF ConsumeCheck
    <3>2. \A j : /\ Queued(j)' <=> Queued(j)
                 /\ Listed(j)' <=> Listed(j)
                 /\ Taken(j)' <=> Taken(j)
      BY <3>1 DEF Queued, Listed, Taken
    <3>3. QED
      BY <1>5, <2>1, <3>1, <3>2 DEF ConsumeCheck, ProgressInv
  <2>2. CASE result # NoValue
    <3>1. AddTask(k) /\ UNCHANGED <<thenQueue, task>>
      BY <1>5, <2>2 DEF ConsumeCheck
    <3>2. \A j : /\ Queued(j)' <=> Queued(j)
                 /\ Listed(j)' <=> Listed(j) \/ j = k
                 /\ Taken(j)' <=> Taken(j)
      BY <3>1, AddListed DEF Queued, Taken
    <3>3. QED
      BY <1>5, <2>2, <3>1, <3>2 DEF ConsumeCheck, ProgressInv
  <2>3. QED
    BY <2>1, <2>2
<1>6. ASSUME NEW r \in Resolvers, ResolveStore(r)
      PROVE  ProgressInv'
  <2>1. UNCHANGED <<thenQueue, taskLists, task>>
    BY <1>6 DEF ResolveStore
  <2>2. \A j : /\ Queued(j)' <=> Queued(j)
               /\ Listed(j)' <=> Listed(j)
               /\ Taken(j)' <=> Taken(j)
    BY <2>1 DEF Queued, Listed, Taken
  <2>3. QED
    BY <1>6, <2>1, <2>2 DEF ResolveStore, ProgressInv
<1>7. ASSUME NEW r \in Resolvers, ResolveLock(r)
      PROVE  ProgressInv'
  <2>1. UNCHANGED <<thenQueue, taskLists, task>>
    BY <1>7 DEF ResolveLock
  <2>2. \A j : /\ Queued(j)' <=> Queued(j)
               /\ Listed(j)' <=> Listed(j)
               /\ Taken(j)' <=> Taken(j)
    BY <2>1 DEF Queued, Listed, Taken
  <2>3. QED
    BY <1>7, <2>1, <2>2 DEF ResolveLock, ProgressInv
<1>8. ASSUME NEW r \in Resolvers, ResolveFlush(r)
      PROVE  ProgressInv'
  <2>1. UNCHANGED <<task, wpc, observed>>
    BY <1>8 DEF ResolveFlush
  <2>2. CASE thenQueue = <<>>
    <3>1. UNCHANGED <<thenQueue, taskLists>>
      BY <1>8, <2>2 DEF ResolveFlush
    <3>2. \A j : /\ Queued(j)' <=> Queued(j)
                 /\ Listed(j)' <=> Listed(j)
                 /\ Taken(j)' <=> Taken(j)
      BY <2>1, <3>1 DEF Queued, Listed, Taken
    <3>3. pc' = [pc EXCEPT ![r] = "settle"]
      BY <1>8, <2>2 DEF ResolveFlush
    <3>4. QED
      BY <2>1, <3>2, <3>3 DEF ProgressInv
  <2>3. CASE thenQueue # <<>>
    <3>1. /\ Head(thenQueue) \in Thens
          /\ Queued(Head(thenQueue))
          /\ AddTask(Head(thenQueue))
          /\ ToSet(thenQueue') = ToSet(thenQueue) \ {Head(thenQueue)}
      BY <1>8, <2>3, FlushMoves
    <3>2. \A j : /\ Queued(j)' <=> Queued(j) /\ j # Head(thenQueue)
                 /\ Listed(j)' <=> Listed(j) \/ j = Head(thenQueue)
                 /\ Taken(j)' <=> Taken(j)
      BY <2>1, <3>1, AddListed DEF Queued, Taken
    <3>3. UNCHANGED pc
      BY <1>8, <2>3 DEF ResolveFlush
    <3>4. QED
      BY <2>1, <3>1, <3>2, <3>3 DEF ProgressInv
  <2>4. QED
    BY <2>2, <2>3
<1>9. ASSUME NEW r \in Resolvers, ResolveSettle(r)
      PROVE  ProgressInv'
  <2>1. /\ UNCHANGED <<thenQueue, task, wpc, observed>>
        /\ MaybeConsumeRsl
        /\ pc' = [pc EXCEPT ![r] = "accepted"]
    BY <1>9 DEF ResolveSettle
  <2>2. \A j : /\ Queued(j)' <=> Queued(j)
               /\ Taken(j)' <=> Taken(j)
    BY <2>1 DEF Queued, Taken
  <2>3. QED
    BY <2>1, <2>2, SettleListed DEF ProgressInv, ConsumerInv
<1>10. ASSUME NEW w \in Workers, TakeTask(w)
      PROVE  ProgressInv'
  <2>1. PICK k \in Callbacks :
          /\ Listed(k)
          /\ task' = [task EXCEPT ![w] = k]
          /\ \A j : Listed(j)' <=> Listed(j) /\ j # k
    BY <1>10, TakeListed
  <2>2. /\ wpc[w] = "idle" /\ task[w] = NoValue
        /\ wpc' = [wpc EXCEPT ![w] = "run"]
        /\ UNCHANGED <<thenQueue, pc, observed>>
    BY <1>10 DEF TakeTask
  <2>3. \A j : Queued(j)' <=> Queued(j)
    BY <2>2 DEF Queued
  <2>4. \A j \in Callbacks : Taken(j)' <=> Taken(j) \/ j = k
    BY <2>1, <2>2 DEF Taken
  <2>5. QED
    BY <2>1, <2>2, <2>3, <2>4 DEF ProgressInv
<1>11. ASSUME NEW w \in Workers, RunThen(w)
      PROVE  ProgressInv'
  <2>1. /\ UNCHANGED <<thenQueue, taskLists, task, pc>>
        /\ wpc[w] = "run" /\ task[w] \in Thens
        /\ wpc' = [wpc EXCEPT ![w] = "ran"]
        /\ observed' = [observed EXCEPT ![task[w]] = Append(@, result)]
    BY <1>11 DEF RunThen, Observe
  <2>2. \A j : /\ Queued(j)' <=> Queued(j)
               /\ Listed(j)' <=> Listed(j)
               /\ Taken(j)' <=> Taken(j)
    BY <2>1 DEF Queued, Listed, Taken
  <2>3. Append(observed[task[w]], result) # <<>>
    <3>1. /\ observed[task[w]] \in Seq(Resolvers \cup {NoValue, Moved})
          /\ result \in Resolvers \cup {NoValue, Moved}
      BY <2>1
    <3>2. QED
      BY ONLY <3>1, AppendProperties
  <2>4. \A v \in Workers : task[v] = task[w] => v = w
    BY <2>1 DEF PlacesInv
  <2>5. Taken(task[w]) /\ ~Queued(task[w]) /\ ~Listed(task[w])
    <3>1. Taken(task[w])
      BY DEF Taken
    <3>2. ~Queued(task[w])
      BY <2>1, <3>1 DEF PlacesInv
    <3>3. ~Listed(task[w])
      BY <3>1 DEF PlacesInv, Listed
    <3>4. QED
      BY <3>1, <3>2, <3>3
  <2>6. \A j \in Callbacks : j # task[w] => observed'[j] = observed[j]
    BY <2>1
  <2>7. observed'[task[w]] # <<>>
    BY <2>1, <2>3
  <2>8. \A v \in Workers : v # w => observed'[task[v]] = observed[task[v]] \/ wpc[v] = "idle"
    BY <2>1, <2>4, <2>6
  <2>9. \A j \in Callbacks :
          /\ Queued(j)' \/ Listed(j)' \/ Taken(j)' => pc'[j] = "accepted"
          /\ Queued(j)' \/ Listed(j)' \/ pc'[j] # "accepted" => observed'[j] = <<>>
    BY <2>1, <2>2, <2>5, <2>6 DEF ProgressInv
  <2>10. ASSUME NEW v \in Workers
         PROVE  /\ wpc'[v] = "run" => observed'[task'[v]] = <<>>
                /\ wpc'[v] \in {"ran", "loaded", "counted"} =>
                     task'[v] \in Thens /\ observed'[task'[v]] # <<>>
    <3>1. CASE v = w
      BY <2>1, <2>7, <3>1
    <3>2. CASE v # w
      BY <2>1, <2>8, <3>2 DEF ProgressInv
    <3>3. QED
      BY <3>1, <3>2
  <2>11. \A j \in Thens : pc'[j] = "accepted" =>
           Queued(j)' \/ Listed(j)' \/ Taken(j)' \/ observed'[j] # <<>>
    BY <2>1, <2>2, <2>6, <2>7 DEF ProgressInv
  <2>12. QED
    BY <2>9, <2>10, <2>11 DEF ProgressInv
<1>12. ASSUME NEW w \in Workers, RunConsumer(w)
      PROVE  ProgressInv'
  <2>1. /\ UNCHANGED <<thenQueue, taskLists, pc>>
        /\ wpc[w] = "run" /\ task[w] \in Consumers
        /\ wpc' = [wpc EXCEPT ![w] = "idle"]
        /\ task' = [task EXCEPT ![w] = NoValue]
        /\ observed' = [observed EXCEPT ![task[w]] = Append(@, result)]
    BY <1>12 DEF RunConsumer, Observe
  <2>2. \A j : /\ Queued(j)' <=> Queued(j)
               /\ Listed(j)' <=> Listed(j)
    BY <2>1 DEF Queued, Listed
  <2>3. \A j \in Callbacks : /\ Taken(j)' => Taken(j)
                             /\ j # task[w] => (Taken(j)' <=> Taken(j))
    BY <2>1 DEF Taken
  <2>4. Append(observed[task[w]], result) # <<>>
    <3>1. /\ observed[task[w]] \in Seq(Resolvers \cup {NoValue, Moved})
          /\ result \in Resolvers \cup {NoValue, Moved}
      BY <2>1
    <3>2. QED
      BY ONLY <3>1, AppendProperties
  <2>5. \A v \in Workers : task[v] = task[w] => v = w
    BY <2>1 DEF PlacesInv
  <2>6. Taken(task[w]) /\ ~Queued(task[w]) /\ ~Listed(task[w])
    <3>1. ~Queued(task[w])
      BY <2>1, ToSetType DEF Queued
    <3>2. QED
      BY <2>1, <3>1 DEF PlacesInv, Taken, Listed
  <2>7. QED
    BY <2>1, <2>2, <2>3, <2>4, <2>5, <2>6 DEF ProgressInv
<1>13. ASSUME NEW w \in Workers, LoadCount(w)
      PROVE  ProgressInv'
  <2>1. UNCHANGED <<thenQueue, taskLists, task>>
    BY <1>13 DEF LoadCount
  <2>2. \A j : /\ Queued(j)' <=> Queued(j)
               /\ Listed(j)' <=> Listed(j)
               /\ Taken(j)' <=> Taken(j)
    BY <2>1 DEF Queued, Listed, Taken
  <2>3. QED
    BY <1>13, <2>1, <2>2 DEF LoadCount, ProgressInv
<1>14. ASSUME NEW w \in Workers, StoreCount(w)
      PROVE  ProgressInv'
  <2>1. UNCHANGED <<thenQueue, taskLists, task>>
    BY <1>14 DEF StoreCount
  <2>2. \A j : /\ Queued(j)' <=> Queued(j)
               /\ Listed(j)' <=> Listed(j)
               /\ Taken(j)' <=> Taken(j)
    BY <2>1 DEF Queued, Listed, Taken
  <2>3. QED
    BY <1>14, <2>1, <2>2 DEF StoreCount, ProgressInv
<1>15. ASSUME NEW w \in Workers, WorkerSettle(w)
      PROVE  ProgressInv'
  <2>1. /\ UNCHANGED <<thenQueue, pc, observed>>
        /\ MaybeConsumeRsl
        /\ wpc[w] = "counted"
        /\ wpc' = [wpc EXCEPT ![w] = "idle"]
        /\ task' = [task EXCEPT ![w] = NoValue]
    BY <1>15 DEF WorkerSettle
  <2>2. \A j \in Callbacks : /\ Queued(j)' <=> Queued(j)
                             /\ Taken(j)' => Taken(j)
                             /\ j # task[w] => (Taken(j)' <=> Taken(j))
    BY <2>1 DEF Queued, Taken
  <2>3. observed[task[w]] # <<>>
    BY <2>1 DEF ProgressInv
  <2>4. QED
    BY <2>1, <2>2, <2>3, SettleListed DEF ProgressInv, ConsumerInv
<1>16. CASE UNCHANGED vars
  BY <1>16 DEF vars, ProgressInv, Queued, Listed, Taken
<1>17. QED
  BY <1>1, <1>2, <1>3, <1>4, <1>5, <1>6, <1>7, <1>8, <1>9, <1>10, <1>11, <1>12, <1>13, <1>14, <1>15, <1>16
     DEF Next, Finished, ThenStep, ConsumerStep, ResolverStep, WorkerStep

(* One consumer is accepted, and scheduled once.                           *)
LEMMA ConsumerInvStep == IInv /\ [Next]_vars => ConsumerInv'
<1> SUFFICES ASSUME IInv, [Next]_vars
             PROVE  ConsumerInv'
  OBVIOUS
<1> USE CallsAssumption, ListsAssumption DEF IInv, TypeOK, Calls, Callbacks, Threads, Goto,
        promiseVars, mutexVars, workerVars
<1>1. ASSUME NEW k \in Thens, OnSuccessLock(k)
      PROVE  ConsumerInv'
  <2>1. UNCHANGED <<taskLists, task, consumingOp, remainingThens, observed>>
    BY <1>1 DEF OnSuccessLock
  <2>2. \A j : /\ Listed(j)' <=> Listed(j)
               /\ Taken(j)' <=> Taken(j)
    BY <2>1 DEF Listed, Taken
  <2>3. QED
    BY <1>1, <2>1, <2>2 DEF OnSuccessLock, ConsumerInv, MutexInv
<1>2. ASSUME NEW k \in Thens, OnSuccessCheck(k)
      PROVE  ConsumerInv'
  <2>1. CASE result = NoValue
    <3>1. /\ UNCHANGED <<taskLists, task, consumingOp, remainingThens, observed,
                         acceptsThens>>
          /\ pc[k] = "check" /\ pc' = [pc EXCEPT ![k] = "push"]
      BY <1>2, <2>1 DEF OnSuccessCheck
    <3>2. \A j : /\ Listed(j)' <=> Listed(j)
                 /\ Taken(j)' <=> Taken(j)
      BY <3>1 DEF Listed, Taken
    <3>3. QED
      BY <3>1, <3>2 DEF ConsumerInv
  <2>2. CASE result # NoValue
    <3>1. /\ UNCHANGED <<task, consumingOp, remainingThens, observed, acceptsThens>>
          /\ AddTask(k)
          /\ pc[k] = "check" /\ pc' = [pc EXCEPT ![k] = "accepted"]
      BY <1>2, <2>2 DEF OnSuccessCheck
    <3>2. \A j : /\ Listed(j)' <=> Listed(j) \/ j = k
                 /\ Taken(j)' <=> Taken(j)
      BY <3>1, AddListed DEF Taken
    <3>3. QED
      BY <3>1, <3>2 DEF ConsumerInv
  <2>3. QED
    BY <2>1, <2>2
<1>3. ASSUME NEW k \in Thens, OnSuccessPush(k)
      PROVE  ConsumerInv'
  <2>1. /\ UNCHANGED <<taskLists, task, consumingOp, observed, acceptsThens>>
        /\ pc[k] = "push" /\ pc' = [pc EXCEPT ![k] = "accepted"]
    BY <1>3 DEF OnSuccessPush
  <2>2. acceptsThens /\ consumingOp = NoValue
    BY <2>1 DEF ConsumerInv
  <2>3. QED
    BY <2>1, <2>2 DEF ConsumerInv
<1>4. ASSUME NEW k \in Consumers, ConsumeLock(k)
      PROVE  ConsumerInv'
  <2>1. UNCHANGED <<taskLists, task, consumingOp, remainingThens, observed>>
    BY <1>4 DEF ConsumeLock
  <2>2. \A j : /\ Listed(j)' <=> Listed(j)
               /\ Taken(j)' <=> Taken(j)
    BY <2>1 DEF Listed, Taken
  <2>3. CASE acceptsThens
    <3>1. /\ acceptsThens' = FALSE
          /\ pc[k] = "called" /\ pc' = [pc EXCEPT ![k] = "check"]
      BY <1>4, <2>3 DEF ConsumeLock
    <3>2. \A j \in Thens : pc[j] \notin {"check", "push"}
      BY <1>4 DEF ConsumeLock, MutexInv
    <3>3. \A c \in Consumers : pc[c] \notin {"check", "accepted"}
      BY <2>3 DEF ConsumerInv
    <3>4. QED
      BY <2>1, <2>2, <3>1, <3>2, <3>3 DEF ConsumerInv
  <2>4. CASE ~acceptsThens
    <3>1. /\ UNCHANGED acceptsThens
          /\ pc[k] = "called" /\ pc' = [pc EXCEPT ![k] = "refused"]
      BY <1>4, <2>4 DEF ConsumeLock
    <3>2. QED
      BY <2>1, <2>2, <3>1 DEF ConsumerInv
  <2>5. QED
    BY <2>3, <2>4
<1>5. ASSUME NEW k \in Consumers, ConsumeCheck(k)
      PROVE  ConsumerInv'
  <2>1. /\ pc[k] = "check" /\ pc' = [pc EXCEPT ![k] = "accepted"]
        /\ UNCHANGED <<task, observed, acceptsThens, remainingThens>>
    BY <1>5 DEF ConsumeCheck
  <2>2. consumingOp = NoValue
    BY <2>1 DEF ConsumerInv
  <2>3. ~Listed(k) /\ ~Taken(k) /\ observed[k] = <<>>
    BY <2>1 DEF ProgressInv
  <2>4. CASE result = NoValue
    <3>1. UNCHANGED taskLists /\ consumingOp' = k
      BY <1>5, <2>4 DEF ConsumeCheck
    <3>2. ~Listed(k)' /\ ~Taken(k)' /\ observed'[k] = <<>>
      BY <2>1, <2>3, <3>1 DEF Listed, Taken
    <3>3. QED
      BY <2>1, <3>1, <3>2 DEF ConsumerInv
  <2>5. CASE result # NoValue
    <3>1. UNCHANGED consumingOp
      BY <1>5, <2>5 DEF ConsumeCheck
    <3>2. QED
      BY <2>1, <2>2, <3>1 DEF ConsumerInv
  <2>6. QED
    BY <2>4, <2>5
<1>6. ASSUME NEW r \in Resolvers, ResolveStore(r)
      PROVE  ConsumerInv'
  <2>1. UNCHANGED <<taskLists, task, consumingOp, remainingThens, observed, acceptsThens>>
    BY <1>6 DEF ResolveStore
  <2>2. \A j : /\ Listed(j)' <=> Listed(j)
               /\ Taken(j)' <=> Taken(j)
    BY <2>1 DEF Listed, Taken
  <2>3. \A j \in Callbacks : pc'[j] = pc[j]
    BY <1>6 DEF ResolveStore
  <2>4. QED
    BY <2>1, <2>2, <2>3 DEF ConsumerInv
<1>7. ASSUME NEW r \in Resolvers, ResolveLock(r)
      PROVE  ConsumerInv'
  <2>1. UNCHANGED <<taskLists, task, consumingOp, remainingThens, observed>>
    BY <1>7 DEF ResolveLock
  <2>2. \A j : /\ Listed(j)' <=> Listed(j)
               /\ Taken(j)' <=> Taken(j)
    BY <2>1 DEF Listed, Taken
  <2>3. QED
    BY <1>7, <2>1, <2>2 DEF ResolveLock, ConsumerInv, MutexInv
<1>8. ASSUME NEW r \in Resolvers, ResolveFlush(r)
      PROVE  ConsumerInv'
  <2>1. UNCHANGED <<task, consumingOp, remainingThens, observed, acceptsThens>>
    BY <1>8 DEF ResolveFlush
  <2>2. \A j \in Thens \cup Consumers : pc'[j] = pc[j]
    BY <1>8 DEF ResolveFlush
  <2>3. \A j \in Consumers : Listed(j)' <=> Listed(j)
    <3>1. CASE thenQueue = <<>>
      BY <1>8, <3>1 DEF ResolveFlush, Listed
    <3>2. CASE thenQueue # <<>>
      <4>1. Head(thenQueue) \in Thens /\ AddTask(Head(thenQueue))
        BY <1>8, <3>2, FlushMoves
      <4>2. QED
        BY <4>1, AddListed
    <3>3. QED
      BY <3>1, <3>2
  <2>4. \A j : Taken(j)' <=> Taken(j)
    BY <2>1 DEF Taken
  <2>5. QED
    BY <2>1, <2>2, <2>3, <2>4 DEF ConsumerInv
<1>9. ASSUME NEW r \in Resolvers, ResolveSettle(r)
      PROVE  ConsumerInv'
  <2>1. /\ UNCHANGED <<task, consumingOp, observed, acceptsThens>>
        /\ MaybeConsumeRsl
        /\ pc' = [pc EXCEPT ![r] = "accepted"]
    BY <1>9 DEF ResolveSettle
  <2>2. \A j : Taken(j)' <=> Taken(j)
    BY <2>1 DEF Taken
  <2>3. QED
    BY <2>1, <2>2, SettleListed DEF ConsumerInv
<1>10. ASSUME NEW w \in Workers, TakeTask(w)
      PROVE  ConsumerInv'
  <2>1. PICK k \in Callbacks :
          /\ Listed(k)
          /\ task' = [task EXCEPT ![w] = k]
          /\ \A j : Listed(j)' <=> Listed(j) /\ j # k
    BY <1>10, TakeListed
  <2>2. UNCHANGED <<consumingOp, remainingThens, observed, acceptsThens, pc>>
    BY <1>10 DEF TakeTask
  <2>3. \A j \in Callbacks : Taken(j)' => Taken(j) \/ j = k
    BY <2>1 DEF Taken
  <2>4. QED
    BY <2>1, <2>2, <2>3 DEF ConsumerInv
<1>11. ASSUME NEW w \in Workers, RunThen(w)
      PROVE  ConsumerInv'
  <2>1. /\ UNCHANGED <<taskLists, task, pc, acceptsThens, consumingOp, remainingThens>>
        /\ task[w] \in Thens
        /\ observed' = [observed EXCEPT ![task[w]] = Append(@, result)]
    BY <1>11 DEF RunThen, Observe
  <2>2. \A j : /\ Listed(j)' <=> Listed(j)
               /\ Taken(j)' <=> Taken(j)
    BY <2>1 DEF Listed, Taken
  <2>3. \A c \in Consumers : observed'[c] = observed[c]
    BY <2>1
  <2>4. QED
    BY <2>1, <2>2, <2>3 DEF ConsumerInv
<1>12. ASSUME NEW w \in Workers, RunConsumer(w)
      PROVE  ConsumerInv'
  <2>1. /\ UNCHANGED <<taskLists, pc, acceptsThens, consumingOp, remainingThens>>
        /\ task[w] \in Consumers
        /\ task' = [task EXCEPT ![w] = NoValue]
        /\ observed' = [observed EXCEPT ![task[w]] = Append(@, result)]
    BY <1>12 DEF RunConsumer, Observe
  <2>2. /\ Taken(task[w])
        /\ \A j : Listed(j)' <=> Listed(j)
        /\ \A j \in Callbacks : Taken(j)' => Taken(j)
    BY <2>1 DEF Listed, Taken
  <2>3. \A c \in Consumers : c # task[w] => observed'[c] = observed[c]
    BY <2>1
  <2>4. QED
    BY <2>1, <2>2, <2>3 DEF ConsumerInv
<1>13. ASSUME NEW w \in Workers, LoadCount(w)
      PROVE  ConsumerInv'
  <2>1. UNCHANGED <<taskLists, task, consumingOp, remainingThens, observed>>
    BY <1>13 DEF LoadCount
  <2>2. \A j : /\ Listed(j)' <=> Listed(j)
               /\ Taken(j)' <=> Taken(j)
    BY <2>1 DEF Listed, Taken
  <2>3. QED
    BY <1>13, <2>1, <2>2 DEF LoadCount, ConsumerInv, MutexInv
<1>14. ASSUME NEW w \in Workers, StoreCount(w)
      PROVE  ConsumerInv'
  <2>1. /\ UNCHANGED <<taskLists, task, pc, acceptsThens, consumingOp, observed>>
        /\ wpc[w] = "loaded"
    BY <1>14 DEF StoreCount
  <2>2. \A j : /\ Listed(j)' <=> Listed(j)
               /\ Taken(j)' <=> Taken(j)
    BY <2>1 DEF Listed, Taken
  <2>3. task[w] \in Outstanding
    BY <2>1 DEF ProgressInv, Outstanding
  <2>4. consumingOp # NoValue => remainingThens # -1
    <3>1. HAVE consumingOp # NoValue
    <3>2. remainingThens = Cardinality(Outstanding)
      BY <2>3, <3>1 DEF CountInv
    <3>3. Cardinality(Outstanding) \in Nat
      BY FS_Subset, FS_CardinalityType DEF Outstanding
    <3>4. QED
      BY <3>2, <3>3
  <2>5. QED
    BY <2>1, <2>2, <2>4 DEF ConsumerInv
<1>15. ASSUME NEW w \in Workers, WorkerSettle(w)
      PROVE  ConsumerInv'
  <2>1. /\ UNCHANGED <<consumingOp, observed, acceptsThens, pc>>
        /\ MaybeConsumeRsl
        /\ task' = [task EXCEPT ![w] = NoValue]
    BY <1>15 DEF WorkerSettle
  <2>2. \A j \in Callbacks : Taken(j)' => Taken(j)
    BY <2>1 DEF Taken
  <2>3. QED
    BY <2>1, <2>2, SettleListed DEF ConsumerInv
<1>16. CASE UNCHANGED vars
  BY <1>16 DEF vars, ConsumerInv, Listed, Taken
<1>17. QED
  BY <1>1, <1>2, <1>3, <1>4, <1>5, <1>6, <1>7, <1>8, <1>9, <1>10, <1>11, <1>12, <1>13, <1>14, <1>15, <1>16
     DEF Next, Finished, ThenStep, ConsumerStep, ResolverStep, WorkerStep

(* The outstanding callbacks are finitely many.                            *)
LEMMA OutstandingFinite ==
  IsFiniteSet(Outstanding) /\ Cardinality(Outstanding) \in Nat
<1>1. Outstanding \subseteq Thens
  BY DEF Outstanding
<1>2. QED
  BY <1>1, FS_Subset, FS_CardinalityType, CallsAssumption

(* A step that moves no outstanding callback and leaves the counter alone  *)
(* keeps the count exact.                                                  *)
LEMMA CountKept ==
  ASSUME CountInv, UNCHANGED remainingThens,
         \A j \in Thens : (j \in Outstanding)' <=> j \in Outstanding,
         (result = NoValue \/ consumingOp # NoValue)'
           => result = NoValue \/ consumingOp # NoValue,
         result # NoValue => result' # NoValue,
         consumingOp # NoValue => consumingOp' # NoValue
  PROVE  CountInv'
<1>1. Outstanding' = Outstanding
  <2>1. Outstanding \subseteq Thens /\ Outstanding' \subseteq Thens
    BY DEF Outstanding
  <2>2. QED
    BY <2>1
<1>2. QED
  BY <1>1 DEF CountInv

(* The counter follows the outstanding callbacks.                          *)
LEMMA CountStep == IInv /\ [Next]_vars => CountInv'
<1> SUFFICES ASSUME IInv, [Next]_vars
             PROVE  CountInv'
  OBVIOUS
<1> USE CallsAssumption, ListsAssumption DEF IInv, TypeOK, Calls, Callbacks, Threads, Goto,
        promiseVars, mutexVars, workerVars
<1>1. ASSUME NEW k \in Thens, OnSuccessLock(k)
      PROVE  CountInv'
  <2>1. /\ UNCHANGED <<thenQueue, taskLists, task, consumingOp, remainingThens, result>>
        /\ \A v \in Workers : wpc'[v] = "counted" <=> wpc[v] = "counted"
    BY <1>1 DEF OnSuccessLock
  <2>2. \A j \in Thens : (j \in Outstanding)' <=> j \in Outstanding
    BY <2>1 DEF Outstanding, Queued, Listed
  <2>3. QED
    BY <2>1, <2>2, CountKept
<1>2. ASSUME NEW k \in Thens, OnSuccessCheck(k)
      PROVE  CountInv'
  <2>1. CASE result = NoValue
    <3>1. UNCHANGED <<thenQueue, taskLists, task, wpc, consumingOp, remainingThens, result>>
      BY <1>2, <2>1 DEF OnSuccessCheck
    <3>2. \A j \in Thens : (j \in Outstanding)' <=> j \in Outstanding
      BY <3>1 DEF Outstanding, Queued, Listed
    <3>3. QED
      BY <3>1, <3>2, CountKept
  <2>2. CASE result # NoValue
    <3>1. pc[k] = "check" /\ UNCHANGED <<result, consumingOp>>
      BY <1>2 DEF OnSuccessCheck
    <3>2. consumingOp = NoValue
      BY <3>1 DEF ConsumerInv
    <3>3. QED
      BY <2>2, <3>1, <3>2 DEF CountInv
  <2>3. QED
    BY <2>1, <2>2
<1>3. ASSUME NEW k \in Thens, OnSuccessPush(k)
      PROVE  CountInv'
  <2>1. /\ thenQueue' = Append(thenQueue, k)
        /\ pc[k] = "push"
        /\ remainingThens' = remainingThens + 1
        /\ UNCHANGED <<taskLists, task, wpc, result, consumingOp>>
    BY <1>3 DEF OnSuccessPush
  <2>2. result = NoValue
    BY <2>1 DEF PendingInv
  <2>3. ToSet(thenQueue') = ToSet(thenQueue) \cup {k}
    BY <2>1, AppendSet
  <2>4. Outstanding' = Outstanding \cup {k}
    BY <2>1, <2>3 DEF Outstanding, Queued, Listed
  <2>5. k \notin Outstanding
    BY <2>1 DEF ProgressInv, Outstanding, Taken
  <2>6. remainingThens = Cardinality(Outstanding)
    BY <2>2 DEF CountInv
  <2>7. Cardinality(Outstanding') = Cardinality(Outstanding) + 1
    BY <2>4, <2>5, OutstandingFinite, FS_AddElement
  <2>8. QED
    BY <2>1, <2>6, <2>7 DEF CountInv
<1>4. ASSUME NEW k \in Consumers, ConsumeLock(k)
      PROVE  CountInv'
  <2>1. /\ UNCHANGED <<thenQueue, taskLists, task, consumingOp, remainingThens, result>>
        /\ \A v \in Workers : wpc'[v] = "counted" <=> wpc[v] = "counted"
    BY <1>4 DEF ConsumeLock
  <2>2. \A j \in Thens : (j \in Outstanding)' <=> j \in Outstanding
    BY <2>1 DEF Outstanding, Queued, Listed
  <2>3. QED
    BY <2>1, <2>2, CountKept
<1>5. ASSUME NEW k \in Consumers, ConsumeCheck(k)
      PROVE  CountInv'
  <2>1. pc[k] = "check" /\ UNCHANGED <<result, remainingThens, thenQueue, task, wpc>>
    BY <1>5 DEF ConsumeCheck
  <2>2. CASE result = NoValue
    <3>1. UNCHANGED taskLists /\ consumingOp' = k /\ k # NoValue
      BY <1>5, <2>2 DEF ConsumeCheck
    <3>2. \A j \in Thens : (j \in Outstanding)' <=> j \in Outstanding
      BY <2>1, <3>1 DEF Outstanding, Queued, Listed
    <3>3. QED
      BY <2>1, <2>2, <3>1, <3>2, CountKept
  <2>3. CASE result # NoValue
    <3>1. UNCHANGED consumingOp
      BY <1>5, <2>3 DEF ConsumeCheck
    <3>2. consumingOp = NoValue
      BY <2>1 DEF ConsumerInv
    <3>3. QED
      BY <2>1, <2>3, <3>1, <3>2 DEF CountInv
  <2>4. QED
    BY <2>2, <2>3
<1>6. ASSUME NEW r \in Resolvers, ResolveStore(r)
      PROVE  CountInv'
  <2>1. UNCHANGED <<thenQueue, taskLists, task, wpc, consumingOp, remainingThens>>
    BY <1>6 DEF ResolveStore
  <2>2. result' # NoValue
    BY <1>6 DEF ResolveStore
  <2>3. \A j \in Thens : (j \in Outstanding)' <=> j \in Outstanding
    BY <2>1 DEF Outstanding, Queued, Listed
  <2>4. QED
    BY <2>1, <2>2, <2>3, CountKept
<1>7. ASSUME NEW r \in Resolvers, ResolveLock(r)
      PROVE  CountInv'
  <2>1. /\ UNCHANGED <<thenQueue, taskLists, task, consumingOp, remainingThens, result>>
        /\ \A v \in Workers : wpc'[v] = "counted" <=> wpc[v] = "counted"
    BY <1>7 DEF ResolveLock
  <2>2. \A j \in Thens : (j \in Outstanding)' <=> j \in Outstanding
    BY <2>1 DEF Outstanding, Queued, Listed
  <2>3. QED
    BY <2>1, <2>2, CountKept
<1>8. ASSUME NEW r \in Resolvers, ResolveFlush(r)
      PROVE  CountInv'
  <2>1. UNCHANGED <<task, wpc, consumingOp, remainingThens, result>>
    BY <1>8 DEF ResolveFlush
  <2>2. \A j \in Thens : (Queued(j) \/ Listed(j))' <=> Queued(j) \/ Listed(j)
    <3>1. CASE thenQueue = <<>>
      BY <1>8, <3>1 DEF ResolveFlush, Queued, Listed
    <3>2. CASE thenQueue # <<>>
      <4>1. /\ Head(thenQueue) \in Thens
            /\ Queued(Head(thenQueue))
            /\ AddTask(Head(thenQueue))
            /\ ToSet(thenQueue') = ToSet(thenQueue) \ {Head(thenQueue)}
        BY <1>8, <3>2, FlushMoves
      <4>2. \A j : Listed(j)' <=> Listed(j) \/ j = Head(thenQueue)
        BY <4>1, AddListed
      <4>3. QED
        BY <4>1, <4>2 DEF Queued
    <3>3. QED
      BY <3>1, <3>2
  <2>3. \A j \in Thens : (j \in Outstanding)' <=> j \in Outstanding
    BY <2>1, <2>2 DEF Outstanding
  <2>4. QED
    BY <2>1, <2>3, CountKept
<1>9. ASSUME NEW r \in Resolvers, ResolveSettle(r)
      PROVE  CountInv'
  <2>1. /\ UNCHANGED <<thenQueue, consumingOp, result>>
        /\ MaybeConsumeRsl
        /\ result # NoValue
    BY <1>9 DEF ResolveSettle, PendingInv
  <2>2. \A j \in Thens : /\ Queued(j)' <=> Queued(j)
                         /\ Listed(j)' <=> Listed(j)
    BY <2>1, SettleListed DEF Queued
  <2>3. \A j \in Thens : (j \in Outstanding)' <=> j \in Outstanding
    BY <1>9, <2>2 DEF ResolveSettle, Outstanding
  <2>4. Outstanding' = Outstanding
    BY <2>3 DEF Outstanding
  <2>5. CASE remainingThens = 0 /\ consumingOp # NoValue
    <3>1. Outstanding = {}
      BY <2>5, OutstandingFinite, FS_EmptySet DEF CountInv
    <3>2. remainingThens' = -1
      BY <2>1, <2>5 DEF MaybeConsumeRsl
    <3>3. QED
      BY <2>1, <2>4, <2>5, <3>1, <3>2 DEF CountInv
  <2>6. CASE ~(remainingThens = 0 /\ consumingOp # NoValue)
    <3>1. UNCHANGED remainingThens
      BY <2>1, <2>6 DEF MaybeConsumeRsl
    <3>2. QED
      BY <2>1, <2>4, <3>1 DEF CountInv
  <2>7. QED
    BY <2>5, <2>6
<1>10. ASSUME NEW w \in Workers, TakeTask(w)
      PROVE  CountInv'
  <2>1. PICK k \in Callbacks :
          /\ Listed(k)
          /\ task' = [task EXCEPT ![w] = k]
          /\ \A j : Listed(j)' <=> Listed(j) /\ j # k
    BY <1>10, TakeListed
  <2>2. /\ wpc[w] = "idle" /\ task[w] = NoValue
        /\ wpc' = [wpc EXCEPT ![w] = "run"]
        /\ UNCHANGED <<thenQueue, consumingOp, remainingThens, result>>
    BY <1>10 DEF TakeTask
  <2>3. \A j \in Thens : (j \in Outstanding)' <=> j \in Outstanding
    <3> SUFFICES ASSUME NEW j \in Thens
                 PROVE  (j \in Outstanding)' <=> j \in Outstanding
      OBVIOUS
    <3>1. (\E v \in Workers : task[v] = j /\ wpc[v] # "counted")'
            <=> j = k \/ \E v \in Workers : task[v] = j /\ wpc[v] # "counted"
      BY <2>1, <2>2
    <3>2. QED
      BY <2>1, <2>2, <3>1 DEF Outstanding, Queued
  <2>4. QED
    BY <2>2, <2>3, CountKept
<1>11. ASSUME NEW w \in Workers, RunThen(w)
      PROVE  CountInv'
  <2>1. /\ UNCHANGED <<thenQueue, taskLists, task, consumingOp, remainingThens, result>>
        /\ \A v \in Workers : wpc'[v] = "counted" <=> wpc[v] = "counted"
    BY <1>11 DEF RunThen
  <2>2. \A j \in Thens : (j \in Outstanding)' <=> j \in Outstanding
    BY <2>1 DEF Outstanding, Queued, Listed
  <2>3. QED
    BY <2>1, <2>2, CountKept
<1>12. ASSUME NEW w \in Workers, RunConsumer(w)
      PROVE  CountInv'
  <2>1. /\ UNCHANGED <<thenQueue, taskLists, consumingOp, remainingThens>>
        /\ result' # NoValue /\ result # NoValue
        /\ task[w] \in Consumers
        /\ task' = [task EXCEPT ![w] = NoValue]
        /\ wpc' = [wpc EXCEPT ![w] = "idle"]
    BY <1>12 DEF RunConsumer, PendingInv
  <2>2. \A j \in Thens : (j \in Outstanding)' <=> j \in Outstanding
    BY <2>1 DEF Outstanding, Queued, Listed
  <2>3. QED
    BY <2>1, <2>2, CountKept
<1>13. ASSUME NEW w \in Workers, LoadCount(w)
      PROVE  CountInv'
  <2>1. /\ UNCHANGED <<thenQueue, taskLists, task, consumingOp, remainingThens, result>>
        /\ \A v \in Workers : wpc'[v] = "counted" <=> wpc[v] = "counted"
    BY <1>13 DEF LoadCount
  <2>2. \A j \in Thens : (j \in Outstanding)' <=> j \in Outstanding
    BY <2>1 DEF Outstanding, Queued, Listed
  <2>3. QED
    BY <2>1, <2>2, CountKept
<1>14. ASSUME NEW w \in Workers, StoreCount(w)
      PROVE  CountInv'
  <2>1. /\ UNCHANGED <<thenQueue, taskLists, task, result, consumingOp>>
        /\ wpc[w] = "loaded"
        /\ wpc' = [wpc EXCEPT ![w] = "counted"]
        /\ remainingThens' = remainingThens - 1
    BY <1>14 DEF StoreCount, MutexInv
  <2>2. task[w] \in Thens /\ task[w] \in Outstanding
    BY <2>1 DEF ProgressInv, Outstanding
  <2>3. ~Queued(task[w]) /\ ~Listed(task[w])
    BY <2>2 DEF PlacesInv, Taken, Listed
  <2>4. \A v \in Workers : task[v] = task[w] => v = w
    BY <2>2 DEF PlacesInv
  <2>5. \A j \in Thens : (j \in Outstanding)' <=> j \in Outstanding /\ j # task[w]
    BY <2>1, <2>2, <2>3, <2>4 DEF Outstanding, Queued, Listed
  <2>6. Outstanding' = Outstanding \ {task[w]}
    BY <2>5 DEF Outstanding
  <2>7. Cardinality(Outstanding') = Cardinality(Outstanding) - 1
    <3>1. Cardinality(Outstanding \ {task[w]}) = Cardinality(Outstanding) - 1
      BY ONLY <2>2, OutstandingFinite, FS_RemoveElement
    <3>2. QED
      BY <2>6, <3>1
  <2>8. QED
    BY <2>1, <2>2, <2>7 DEF CountInv
<1>15. ASSUME NEW w \in Workers, WorkerSettle(w)
      PROVE  CountInv'
  <2>1. /\ UNCHANGED <<thenQueue, consumingOp, result>>
        /\ MaybeConsumeRsl
        /\ result # NoValue
    BY <1>15 DEF WorkerSettle, PendingInv
  <2>2. \A j \in Thens : /\ Queued(j)' <=> Queued(j)
                         /\ Listed(j)' <=> Listed(j)
    BY <2>1, SettleListed DEF Queued
  <2>3. \A j \in Thens : (j \in Outstanding)' <=> j \in Outstanding
    BY <1>15, <2>2 DEF WorkerSettle, Outstanding
  <2>4. Outstanding' = Outstanding
    BY <2>3 DEF Outstanding
  <2>5. CASE remainingThens = 0 /\ consumingOp # NoValue
    <3>1. Outstanding = {}
      BY <2>5, OutstandingFinite, FS_EmptySet DEF CountInv
    <3>2. remainingThens' = -1
      BY <2>1, <2>5 DEF MaybeConsumeRsl
    <3>3. QED
      BY <2>1, <2>4, <2>5, <3>1, <3>2 DEF CountInv
  <2>6. CASE ~(remainingThens = 0 /\ consumingOp # NoValue)
    <3>1. UNCHANGED remainingThens
      BY <2>1, <2>6 DEF MaybeConsumeRsl
    <3>2. QED
      BY <2>1, <2>4, <3>1 DEF CountInv
  <2>7. QED
    BY <2>5, <2>6
<1>16. CASE UNCHANGED vars
  BY <1>16 DEF vars, CountInv, Outstanding, Queued, Listed
<1>17. QED
  BY <1>1, <1>2, <1>3, <1>4, <1>5, <1>6, <1>7, <1>8, <1>9, <1>10, <1>11, <1>12, <1>13, <1>14, <1>15, <1>16
     DEF Next, Finished, ThenStep, ConsumerStep, ResolverStep, WorkerStep

(* The inductive invariant holds before any call.                          *)
LEMMA InvInit == Init => IInv
<1> SUFFICES ASSUME Init PROVE IInv
  OBVIOUS
<1> USE DEF Init
<1>1. TypeOK
  BY TypeInit
<1>2. \A k : ~Queued(k) /\ ~Listed(k)
  BY EmptyToSet DEF Queued, Listed
<1>3. \A k \in Callbacks : ~Taken(k)
  BY CallsAssumption DEF Taken, Callbacks, Calls, Threads
<1>4. MutexInv /\ PendingInv
  BY CallsAssumption DEF MutexInv, PendingInv, Calls, Callbacks, Threads
<1>5. PlacesInv
  BY <1>2, EmptyToSet DEF PlacesInv
<1>6. ProgressInv /\ ConsumerInv
  BY <1>2, <1>3 DEF ProgressInv, ConsumerInv, Calls, Callbacks
<1>7. Outstanding = {}
  BY <1>2, <1>3 DEF Outstanding, Taken, Callbacks
<1>8. CountInv
  BY <1>7, FS_EmptySet DEF CountInv
<1>9. QED
  BY <1>1, <1>4, <1>5, <1>6, <1>8 DEF IInv

(* The inductive invariant holds in every reachable state: mutexes, the    *)
(* counter remaining_thens_ and the places of the callbacks agree.         *)
THEOREM PromiseInvariant == Spec => []IInv
<1>1. IInv /\ [Next]_vars => IInv'
  <2>1. IInv => TypeOK
    BY DEF IInv
  <2>2. QED
    BY <2>1, TypeStep, MutexStep, PendingStep, PlacesStep, ProgressStep,
       ConsumerInvStep, CountStep DEF IInv
<1>2. QED
  BY <1>1, InvInit, PTL DEF Spec

(* The two nesting orders of then_queue_mutex_ and rsl_consumption_mutex_  *)
(* never embrace, whatever the calls and threads.                          *)
THEOREM PromiseLockOrder == Spec => []LockOrderSafe
<1>1. IInv => LockOrderSafe
  <2> SUFFICES ASSUME IInv, NEW k \in Thens, pc[k] = "push"
               PROVE  consumeMutex = NoValue
    BY DEF LockOrderSafe
  <2>1. \A w \in Workers : task[w] = NoValue
    BY DEF IInv, PendingInv
  <2>2. \A w \in Workers : wpc[w] = "idle"
    BY <2>1 DEF IInv, TypeOK
  <2>3. QED
    BY <2>2 DEF IInv, TypeOK, MutexInv
<1>2. QED
  BY <1>1, PromiseInvariant, PTL

-----------------------------------------------------------------------------
(* Refinement *)

Registered == {k \in Thens : pc[k] = "accepted"}

(* The consumer of the contract is the accepted consume call, if any.      *)
LEMMA AcceptedConsumerIs ==
  ASSUME IInv
  PROVE  /\ \A c \in Consumers : pc[c] = "accepted" => AcceptedConsumer = c
         /\ (\A c \in Consumers : pc[c] # "accepted") => AcceptedConsumer = NoValue
<1>1. ASSUME NEW c \in Consumers, pc[c] = "accepted"
      PROVE  AcceptedConsumer = c
  <2>1. \A d \in Consumers : pc[d] = "accepted" => d = c
    BY <1>1 DEF IInv, ConsumerInv
  <2>2. QED
    BY <1>1, <2>1 DEF AcceptedConsumer
<1>2. ASSUME \A c \in Consumers : pc[c] # "accepted"
      PROVE  AcceptedConsumer = NoValue
  BY <1>2 DEF AcceptedConsumer
<1>3. QED
  BY <1>1, <1>2

(* The accepted consumer changes only when a call is accepted.             *)
LEMMA AcceptedConsumerKept ==
  ASSUME \A k \in Callbacks : pc'[k] = "accepted" <=> pc[k] = "accepted"
  PROVE  AcceptedConsumer' = AcceptedConsumer
BY Zenon DEF AcceptedConsumer, Callbacks

(* Nothing the contract speaks of changes.                                 *)
LEMMA ContractStutter ==
  ASSUME UNCHANGED <<result, consumingOp, observed>>,
         \A k \in Callbacks : pc'[k] = "accepted" <=> pc[k] = "accepted"
  PROVE  UNCHANGED Contract!cvars
<1>1. Registered' = Registered
  BY DEF Registered, Callbacks
<1>2. AcceptedConsumer' = AcceptedConsumer
  BY AcceptedConsumerKept
<1>3. QED
  BY <1>1, <1>2 DEF Contract!cvars, Registered

(* An on_success call that returns accepted registers its callback.        *)
LEMMA RegisterStep ==
  ASSUME IInv, NEW k \in Thens, UNCHANGED <<result, consumingOp, observed>>,
         pc[k] \in {"check", "push"}, pc' = [pc EXCEPT ![k] = "accepted"]
  PROVE  Contract!Next
<1> USE CallsAssumption DEF IInv, TypeOK, Calls, Callbacks, Threads
<1>1. \A c \in Consumers : pc[c] # "accepted"
  BY DEF ConsumerInv
<1>2. \A c \in Consumers : pc'[c] # "accepted"
  BY <1>1
<1>3. AcceptedConsumer = NoValue /\ AcceptedConsumer' = NoValue
  BY <1>1, <1>2 DEF AcceptedConsumer
<1>4. Registered' = Registered \cup {k}
  BY DEF Registered
<1>5. Contract!Register(k)
  BY <1>3, <1>4 DEF Contract!Register, Registered
<1>6. QED
  BY <1>5 DEF Contract!Next

(* Every step of the detailed promise is a step of the contract, or none.  *)
LEMMA ContractStep == IInv /\ [Next]_vars => [Contract!Next]_Contract!cvars
<1> SUFFICES ASSUME IInv, [Next]_vars
             PROVE  [Contract!Next]_Contract!cvars
  OBVIOUS
<1> USE CallsAssumption, ListsAssumption DEF IInv, TypeOK, Calls, Callbacks, Threads, Goto,
        promiseVars, mutexVars, workerVars
<1>1. ASSUME NEW k \in Thens, OnSuccessLock(k)
      PROVE  [Contract!Next]_Contract!cvars
  <2>1. /\ UNCHANGED <<result, consumingOp, observed>>
        /\ \A j \in Callbacks : pc'[j] = "accepted" <=> pc[j] = "accepted"
    BY <1>1 DEF OnSuccessLock
  <2>2. QED
    BY <2>1, ContractStutter
<1>2. ASSUME NEW k \in Thens, OnSuccessCheck(k)
      PROVE  [Contract!Next]_Contract!cvars
  <2>1. CASE result = NoValue
    <3>1. /\ UNCHANGED <<result, consumingOp, observed>>
          /\ \A j \in Callbacks : pc'[j] = "accepted" <=> pc[j] = "accepted"
      BY <1>2, <2>1 DEF OnSuccessCheck
    <3>2. QED
      BY <3>1, ContractStutter
  <2>2. CASE result # NoValue
    <3>1. /\ UNCHANGED <<result, consumingOp, observed>>
          /\ pc[k] = "check" /\ pc' = [pc EXCEPT ![k] = "accepted"]
      BY <1>2, <2>2 DEF OnSuccessCheck
    <3>2. QED
      BY <3>1, RegisterStep
  <2>3. QED
    BY <2>1, <2>2
<1>3. ASSUME NEW k \in Thens, OnSuccessPush(k)
      PROVE  [Contract!Next]_Contract!cvars
  <2>1. /\ UNCHANGED <<result, consumingOp, observed>>
        /\ pc[k] = "push" /\ pc' = [pc EXCEPT ![k] = "accepted"]
    BY <1>3 DEF OnSuccessPush
  <2>2. QED
    BY <2>1, RegisterStep
<1>4. ASSUME NEW k \in Consumers, ConsumeLock(k)
      PROVE  [Contract!Next]_Contract!cvars
  <2>1. /\ UNCHANGED <<result, consumingOp, observed>>
        /\ \A j \in Callbacks : pc'[j] = "accepted" <=> pc[j] = "accepted"
    BY <1>4 DEF ConsumeLock
  <2>2. QED
    BY <2>1, ContractStutter
<1>5. ASSUME NEW k \in Consumers, ConsumeCheck(k)
      PROVE  [Contract!Next]_Contract!cvars
  <2>1. /\ UNCHANGED <<result, observed>>
        /\ pc[k] = "check" /\ pc' = [pc EXCEPT ![k] = "accepted"]
        /\ k # NoValue
        /\ result = NoValue => consumingOp' = k
        /\ result # NoValue => consumingOp' = consumingOp
    BY <1>5 DEF ConsumeCheck
  <2>2. \A c \in Consumers : pc[c] # "accepted"
    BY <2>1 DEF ConsumerInv
  <2>3. AcceptedConsumer = NoValue /\ consumingOp = NoValue
    BY <2>2, AcceptedConsumerIs DEF ConsumerInv
  <2>4. AcceptedConsumer' = k
    <3>1. pc'[k] = "accepted" /\ \A c \in Consumers : pc'[c] = "accepted" => c = k
      BY <2>1, <2>2
    <3>2. QED
      BY <3>1 DEF AcceptedConsumer
  <2>5. (consumingOp' # NoValue) = (result = NoValue)
    BY <2>1, <2>3
  <2>6. Registered' = Registered
    BY <2>1 DEF Registered
  <2>7. Contract!Finalize(k)
    BY <2>1, <2>3, <2>4, <2>5, <2>6 DEF Contract!Finalize, Registered
  <2>8. QED
    BY <2>7 DEF Contract!Next
<1>6. ASSUME NEW r \in Resolvers, ResolveStore(r)
      PROVE  [Contract!Next]_Contract!cvars
  <2>1. /\ UNCHANGED <<consumingOp, observed>>
        /\ \A j \in Callbacks : pc'[j] = pc[j]
    BY <1>6 DEF ResolveStore
  <2>2. CASE result # NoValue
    <3>1. UNCHANGED result
      BY <1>6, <2>2 DEF ResolveStore
    <3>2. QED
      BY <2>1, <3>1, ContractStutter
  <2>3. CASE result = NoValue
    <3>1. result' = r
      BY <1>6, <2>3 DEF ResolveStore
    <3>2. Registered' = Registered
      BY <2>1 DEF Registered
    <3>3. AcceptedConsumer' = AcceptedConsumer
      BY <2>1, AcceptedConsumerKept
    <3>4. Contract!Fulfil(r)
      BY <2>1, <2>3, <3>1, <3>2, <3>3 DEF Contract!Fulfil, Registered
    <3>5. QED
      BY <3>4 DEF Contract!Next
  <2>4. QED
    BY <2>2, <2>3
<1>7. ASSUME NEW r \in Resolvers, ResolveLock(r)
      PROVE  [Contract!Next]_Contract!cvars
  <2>1. /\ UNCHANGED <<result, consumingOp, observed>>
        /\ \A j \in Callbacks : pc'[j] = "accepted" <=> pc[j] = "accepted"
    BY <1>7 DEF ResolveLock
  <2>2. QED
    BY <2>1, ContractStutter
<1>8. ASSUME NEW r \in Resolvers, ResolveFlush(r)
      PROVE  [Contract!Next]_Contract!cvars
  <2>1. /\ UNCHANGED <<result, consumingOp, observed>>
        /\ \A j \in Callbacks : pc'[j] = "accepted" <=> pc[j] = "accepted"
    BY <1>8 DEF ResolveFlush
  <2>2. QED
    BY <2>1, ContractStutter
<1>9. ASSUME NEW r \in Resolvers, ResolveSettle(r)
      PROVE  [Contract!Next]_Contract!cvars
  <2>1. /\ UNCHANGED <<result, consumingOp, observed>>
        /\ \A j \in Callbacks : pc'[j] = "accepted" <=> pc[j] = "accepted"
    BY <1>9 DEF ResolveSettle
  <2>2. QED
    BY <2>1, ContractStutter
<1>10. ASSUME NEW w \in Workers, TakeTask(w)
      PROVE  [Contract!Next]_Contract!cvars
  <2>1. /\ UNCHANGED <<result, consumingOp, observed>>
        /\ \A j \in Callbacks : pc'[j] = "accepted" <=> pc[j] = "accepted"
    BY <1>10 DEF TakeTask
  <2>2. QED
    BY <2>1, ContractStutter
<1>11. ASSUME NEW w \in Workers, RunThen(w)
      PROVE  [Contract!Next]_Contract!cvars
  <2>1. /\ UNCHANGED <<result, consumingOp, pc>>
        /\ wpc[w] = "run" /\ task[w] \in Thens /\ task[w] # NoValue
        /\ observed' = [observed EXCEPT ![task[w]] = Append(@, result)]
    BY <1>11 DEF RunThen, Observe
  <2>2. /\ observed[task[w]] = <<>>
        /\ pc[task[w]] = "accepted"
        /\ result # NoValue
    BY <2>1 DEF ProgressInv, PendingInv, Taken
  <2>3. observed' = [observed EXCEPT ![task[w]] = <<result>>]
    BY <2>1, <2>2
  <2>4. Registered' = Registered /\ AcceptedConsumer' = AcceptedConsumer
    BY <2>1 DEF Registered, AcceptedConsumer
  <2>5. Contract!Run(task[w])
    BY <2>1, <2>2, <2>3, <2>4 DEF Contract!Run, Registered
  <2>6. QED
    BY <2>1, <2>5 DEF Contract!Next
<1>12. ASSUME NEW w \in Workers, RunConsumer(w)
      PROVE  [Contract!Next]_Contract!cvars
  <2>1. /\ UNCHANGED <<consumingOp, pc>>
        /\ result' = Moved
        /\ wpc[w] = "run" /\ task[w] \in Consumers /\ task[w] # NoValue
        /\ observed' = [observed EXCEPT ![task[w]] = Append(@, result)]
    BY <1>12 DEF RunConsumer, Observe
  <2>2. /\ observed[task[w]] = <<>>
        /\ pc[task[w]] = "accepted"
        /\ result # NoValue
        /\ Taken(task[w])
    BY <2>1 DEF ProgressInv, PendingInv, Taken
  <2>3. observed' = [observed EXCEPT ![task[w]] = <<result>>]
    BY <2>1, <2>2
  <2>4. Registered' = Registered /\ AcceptedConsumer' = AcceptedConsumer
    BY <2>1 DEF Registered, AcceptedConsumer
  <2>5. AcceptedConsumer = task[w]
    BY <2>1, <2>2, AcceptedConsumerIs
  <2>6. ASSUME consumingOp # NoValue, NEW k \in Registered
        PROVE  observed[k] # <<>>
    <3>1. pc[consumingOp] = "accepted" /\ consumingOp \in Consumers
      BY <2>6 DEF ConsumerInv
    <3>2. consumingOp = task[w]
      BY <2>1, <2>2, <3>1 DEF ConsumerInv
    <3>3. remainingThens = -1
      BY <2>2, <2>6, <3>2 DEF ConsumerInv
    <3>4. Outstanding = {}
      BY <2>6, <3>3, OutstandingFinite DEF CountInv
    <3>5. /\ k \in Thens /\ pc[k] = "accepted"
          /\ ~Queued(k) /\ ~Listed(k)
          /\ \A v \in Workers : task[v] = k => wpc[v] = "counted"
      BY <2>6, <3>4 DEF Registered, Outstanding
    <3>6. CASE Taken(k)
      BY <3>5, <3>6 DEF Taken, ProgressInv
    <3>7. CASE ~Taken(k)
      BY <3>5, <3>7 DEF ProgressInv
    <3>8. QED
      BY <3>6, <3>7
  <2>7. Contract!Consume(task[w])
    BY <2>1, <2>2, <2>3, <2>4, <2>5, <2>6 DEF Contract!Consume, Registered
  <2>8. QED
    BY <2>1, <2>7 DEF Contract!Next
<1>13. ASSUME NEW w \in Workers, LoadCount(w)
      PROVE  [Contract!Next]_Contract!cvars
  <2>1. /\ UNCHANGED <<result, consumingOp, observed>>
        /\ \A j \in Callbacks : pc'[j] = "accepted" <=> pc[j] = "accepted"
    BY <1>13 DEF LoadCount
  <2>2. QED
    BY <2>1, ContractStutter
<1>14. ASSUME NEW w \in Workers, StoreCount(w)
      PROVE  [Contract!Next]_Contract!cvars
  <2>1. /\ UNCHANGED <<result, consumingOp, observed>>
        /\ \A j \in Callbacks : pc'[j] = "accepted" <=> pc[j] = "accepted"
    BY <1>14 DEF StoreCount
  <2>2. QED
    BY <2>1, ContractStutter
<1>15. ASSUME NEW w \in Workers, WorkerSettle(w)
      PROVE  [Contract!Next]_Contract!cvars
  <2>1. /\ UNCHANGED <<result, consumingOp, observed>>
        /\ \A j \in Callbacks : pc'[j] = "accepted" <=> pc[j] = "accepted"
    BY <1>15 DEF WorkerSettle
  <2>2. QED
    BY <2>1, ContractStutter
<1>16. CASE UNCHANGED vars
  <2>1. /\ UNCHANGED <<result, consumingOp, observed>>
        /\ UNCHANGED pc
    BY <1>16 DEF vars
  <2>2. QED
    BY <2>1, ContractStutter
<1>17. QED
  BY <1>1, <1>2, <1>3, <1>4, <1>5, <1>6, <1>7, <1>8, <1>9, <1>10, <1>11, <1>12, <1>13, <1>14, <1>15, <1>16
     DEF Next, Finished, ThenStep, ConsumerStep, ResolverStep, WorkerStep

(* promise.h rules 1-3, for any calls, threads and task lists: the         *)
(* detailed promise with its mutexes and counter implements the contract.  *)
THEOREM PromiseRefinement == Spec => ImplementsContract
<1>1. Init => Contract!Init
  <2> SUFFICES ASSUME Init PROVE Contract!Init
    OBVIOUS
  <2>1. /\ Registered = {}
        /\ AcceptedConsumer = NoValue
    BY DEF Init, Registered, AcceptedConsumer, Calls, Callbacks
  <2>2. QED
    BY <2>1 DEF Init, Contract!Init, Registered, Callbacks
<1>2. QED
  BY <1>1, ContractStep, PromiseInvariant, PTL
     DEF Spec, ImplementsContract, Contract!Spec

-----------------------------------------------------------------------------
(* The combiner *)

Before == {"registered", "call"}

Inside == {"scan", "resolve", "unlock"}

(* An input is marked once its callback is in the loop of resolve_promise, *)
(* and its entry stays until the result is destroyed.                      *)
MarkInv ==
  /\ \A k \in Inputs : k \in added <=> resolvePc[k] # "none"
  /\ \A k \in Inputs : resolvePc[k] \in Inside \cup {"done"} => k \in marked
  /\ \A k \in Inputs : resolvePc[k] \in Before => k \notin marked
  /\ \A k \in Inputs : resolvePc[k] = "call" => k \in settled
  /\ \A k \in Inputs : resolvePc[k] \notin {"consume", "returned", "lost"}
  /\ consumer # "done" => entries = added

(* The steps of combine, in their order. *)
CombineInv ==
  /\ resolvePc[Zero] \in {"none", "call", "consume", "returned"} \cup Inside
  /\ requested <=> resolvePc[Zero] # "none"
  /\ resolvePc[Zero] # "returned" => held /\ consumer = "none"

(* final_result_ is moved from at the first resolve, and nobody resolves   *)
(* before every added input is marked.                                     *)
ResultInv ==
  /\ requested /\ finalValue = "none" => finalResult = "owner"
  /\ finalValue # "none" =>
       requested /\ \A k \in Inputs :
                      resolvePc[k] \in {"none", "unlock", "done"}
  /\ \A k \in Keys :
       resolvePc[k] = "resolve" => requested /\ added \subseteq marked
  /\ consumer \in {"scheduled", "running", "done"} => finalValue # "none"
  /\ consumer \in {"none", "scheduled"} => finalValue \in {"none", "owner"}
  /\ consumer = "registered" => finalValue = "none"

CombinerInv == CombinerTypeOK /\ MarkInv /\ CombineInv /\ ResultInv

-----------------------------------------------------------------------------

LEMMA CombinerInvInit == CombinerInit => CombinerInv
BY KeysAssumption
   DEF CombinerInit, CombinerInv, CombinerTypeOK, MarkInv, CombineInv, ResultInv,
       Keys, Before, Inside

(* The types, and the mutual exclusion of rsl_mut_, are kept. *)
LEMMA TypesKept ==
  ASSUME CombinerInv, [CombinerNext]_combinerVars
  PROVE  CombinerTypeOK'
<1> USE KeysAssumption
    DEF Keys, finalVars, Free, Alive, CombinerTypeOK, CombinerInv,
        MarkInv, CombineInv, ResultInv, Before, Inside
<1>1. ASSUME NEW k \in Inputs, Add(k) PROVE CombinerTypeOK'
  BY <1>1 DEF Add
<1>2. ASSUME NEW k \in Inputs, Settle(k) PROVE CombinerTypeOK'
  BY <1>2 DEF Settle
<1>3. ASSUME NEW k \in Inputs, CallbackStart(k) PROVE CombinerTypeOK'
  BY <1>3 DEF CallbackStart
<1>4. ASSUME NEW k \in Keys, ResolveMark(k) PROVE CombinerTypeOK'
  BY <1>4 DEF ResolveMark
<1>5. ASSUME NEW k \in Keys, ResolveScan(k) PROVE CombinerTypeOK'
  BY <1>5 DEF ResolveScan
<1>6. ASSUME NEW k \in Keys, ResolveFinal(k) PROVE CombinerTypeOK'
  BY <1>6 DEF ResolveFinal
<1>7. ASSUME NEW k \in Keys, ResolveUnlock(k) PROVE CombinerTypeOK'
  BY <1>7 DEF ResolveUnlock
<1>8. CASE Combine
  BY <1>8 DEF Combine
<1>9. CASE CombineConsume
  BY <1>9 DEF CombineConsume
<1>10. CASE Release
  BY <1>10 DEF Release
<1>11. CASE ConsumerStart
  BY <1>11 DEF ConsumerStart
<1>12. CASE ConsumerEnd
  BY <1>12 DEF ConsumerEnd
<1>13. CASE UNCHANGED combinerVars
  BY <1>13 DEF combinerVars
<1>14. QED
  BY <1>1, <1>2, <1>3, <1>4, <1>5, <1>6, <1>7, <1>8, <1>9, <1>10,
     <1>11, <1>12, <1>13
     DEF CombinerNext, InputStep, ResolvePromise, CallerStep, CombinedStep,
         CombinerFinished

(* Entries and marks stay in step with the callbacks. *)
LEMMA MarkKept ==
  ASSUME CombinerInv, [CombinerNext]_combinerVars
  PROVE  MarkInv'
<1> USE KeysAssumption
    DEF Keys, finalVars, Free, Alive, CombinerTypeOK, CombinerInv,
        MarkInv, CombineInv, ResultInv, Before, Inside
<1>1. ASSUME NEW k \in Inputs, Add(k) PROVE MarkInv'
  BY <1>1 DEF Add
<1>2. ASSUME NEW k \in Inputs, Settle(k) PROVE MarkInv'
  BY <1>2 DEF Settle
<1>3. ASSUME NEW k \in Inputs, CallbackStart(k) PROVE MarkInv'
  BY <1>3 DEF CallbackStart
<1>4. ASSUME NEW k \in Keys, ResolveMark(k) PROVE MarkInv'
  BY <1>4 DEF ResolveMark
<1>5. ASSUME NEW k \in Keys, ResolveScan(k) PROVE MarkInv'
  BY <1>5 DEF ResolveScan
<1>6. ASSUME NEW k \in Keys, ResolveFinal(k) PROVE MarkInv'
  BY <1>6 DEF ResolveFinal
<1>7. ASSUME NEW k \in Keys, ResolveUnlock(k) PROVE MarkInv'
  BY <1>7 DEF ResolveUnlock
<1>8. CASE Combine
  BY <1>8 DEF Combine
<1>9. CASE CombineConsume
  BY <1>9 DEF CombineConsume
<1>10. CASE Release
  BY <1>10 DEF Release
<1>11. CASE ConsumerStart
  BY <1>11 DEF ConsumerStart
<1>12. CASE ConsumerEnd
  BY <1>12 DEF ConsumerEnd
<1>13. CASE UNCHANGED combinerVars
  BY <1>13 DEF combinerVars
<1>14. QED
  BY <1>1, <1>2, <1>3, <1>4, <1>5, <1>6, <1>7, <1>8, <1>9, <1>10,
     <1>11, <1>12, <1>13
     DEF CombinerNext, InputStep, ResolvePromise, CallerStep, CombinedStep,
         CombinerFinished

(* combine runs through its steps, and the caller stays until it returns. *)
LEMMA CombineKept ==
  ASSUME CombinerInv, [CombinerNext]_combinerVars
  PROVE  CombineInv'
<1> USE KeysAssumption
    DEF Keys, finalVars, Free, Alive, CombinerTypeOK, CombinerInv,
        MarkInv, CombineInv, ResultInv, Before, Inside
<1>1. ASSUME NEW k \in Inputs, Add(k) PROVE CombineInv'
  BY <1>1 DEF Add
<1>2. ASSUME NEW k \in Inputs, Settle(k) PROVE CombineInv'
  BY <1>2 DEF Settle
<1>3. ASSUME NEW k \in Inputs, CallbackStart(k) PROVE CombineInv'
  BY <1>3 DEF CallbackStart
<1>4. ASSUME NEW k \in Keys, ResolveMark(k) PROVE CombineInv'
  BY <1>4 DEF ResolveMark
<1>5. ASSUME NEW k \in Keys, ResolveScan(k) PROVE CombineInv'
  BY <1>5 DEF ResolveScan
<1>6. ASSUME NEW k \in Keys, ResolveFinal(k) PROVE CombineInv'
  BY <1>6 DEF ResolveFinal
<1>7. ASSUME NEW k \in Keys, ResolveUnlock(k) PROVE CombineInv'
  BY <1>7 DEF ResolveUnlock
<1>8. CASE Combine
  BY <1>8 DEF Combine
<1>9. CASE CombineConsume
  BY <1>9 DEF CombineConsume
<1>10. CASE Release
  BY <1>10 DEF Release
<1>11. CASE ConsumerStart
  BY <1>11 DEF ConsumerStart
<1>12. CASE ConsumerEnd
  BY <1>12 DEF ConsumerEnd
<1>13. CASE UNCHANGED combinerVars
  BY <1>13 DEF combinerVars
<1>14. QED
  BY <1>1, <1>2, <1>3, <1>4, <1>5, <1>6, <1>7, <1>8, <1>9, <1>10,
     <1>11, <1>12, <1>13
     DEF CombinerNext, InputStep, ResolvePromise, CallerStep, CombinedStep,
         CombinerFinished

(* The result is resolved once everything is marked. *)
LEMMA ResultKept ==
  ASSUME CombinerInv, [CombinerNext]_combinerVars
  PROVE  ResultInv'
<1> USE KeysAssumption
    DEF Keys, finalVars, Free, Alive, CombinerTypeOK, CombinerInv,
        MarkInv, CombineInv, ResultInv, Before, Inside
<1>1. ASSUME NEW k \in Inputs, Add(k) PROVE ResultInv'
  BY <1>1 DEF Add
<1>2. ASSUME NEW k \in Inputs, Settle(k) PROVE ResultInv'
  BY <1>2 DEF Settle
<1>3. ASSUME NEW k \in Inputs, CallbackStart(k) PROVE ResultInv'
  BY <1>3 DEF CallbackStart
<1>4. ASSUME NEW k \in Keys, ResolveMark(k) PROVE ResultInv'
  BY <1>4 DEF ResolveMark
<1>5. ASSUME NEW k \in Keys, ResolveScan(k) PROVE ResultInv'
  BY <1>5 DEF ResolveScan
<1>6. ASSUME NEW k \in Keys, ResolveFinal(k) PROVE ResultInv'
  BY <1>6 DEF ResolveFinal
<1>7. ASSUME NEW k \in Keys, ResolveUnlock(k) PROVE ResultInv'
  BY <1>7 DEF ResolveUnlock
<1>8. CASE Combine
  BY <1>8 DEF Combine
<1>9. CASE CombineConsume
  BY <1>9 DEF CombineConsume
<1>10. CASE Release
  BY <1>10 DEF Release
<1>11. CASE ConsumerStart
  BY <1>11 DEF ConsumerStart
<1>12. CASE ConsumerEnd
  BY <1>12 DEF ConsumerEnd
<1>13. CASE UNCHANGED combinerVars
  BY <1>13 DEF combinerVars
<1>14. QED
  BY <1>1, <1>2, <1>3, <1>4, <1>5, <1>6, <1>7, <1>8, <1>9, <1>10,
     <1>11, <1>12, <1>13
     DEF CombinerNext, InputStep, ResolvePromise, CallerStep, CombinedStep,
         CombinerFinished

(* The inductive invariant: marks, the call of combine and the result.     *)
THEOREM CombinerInvariant == CombinerSpec => []CombinerInv
<1>1. CombinerInv /\ [CombinerNext]_combinerVars => CombinerInv'
  BY TypesKept, MarkKept, CombineKept, ResultKept DEF CombinerInv
<1>2. QED
  BY CombinerInvInit, <1>1, PTL DEF CombinerSpec

-----------------------------------------------------------------------------
(* What follows from it *)

(* Every variable has its type, rsl_mut_ has at most one holder, and only  *)
(* inputs that have a value are marked.                                    *)
THEOREM CombinerTyped == CombinerSpec => []CombinerTypeOK
<1>1. CombinerInv => CombinerTypeOK
  BY DEF CombinerInv
<1>2. QED
  BY <1>1, CombinerInvariant, PTL

(* The destructor of the result needs no lock: when the combined callback  *)
(* runs, nobody is, or will be, in the loops of resolve_promise.           *)
THEOREM CombinerClearsAlone == CombinerSpec => []ClearRacesNobody
<1>1. CombinerInv => ClearRacesNobody
  BY KeysAssumption DEF CombinerInv, CombineInv, ResultInv,
     ClearRacesNobody,
     Keys, Inside
<1>2. QED
  BY <1>1, CombinerInvariant, PTL

(* The combined callback finds every input: the result it is given owns    *)
(* the combiner, and the combiner still holds every added promise.         *)
THEOREM CombinerReadable == CombinerSpec => []ResultReadable
<1>1. CombinerInv => ResultReadable
  BY DEF CombinerInv, MarkInv, ResultInv, ResultReadable
<1>2. QED
  BY <1>1, CombinerInvariant, PTL

(* The callback of an input always finds the combiner alive, although it   *)
(* only holds a weak pointer to it.                                        *)
THEOREM CombinerOutlivesCallbacks == CombinerSpec => []CallbackFindsCombiner
<1>1. CombinerInv => CallbackFindsCombiner
  BY DEF CombinerInv, MarkInv, CallbackFindsCombiner
<1>2. QED
  BY <1>1, CombinerInvariant, PTL

-----------------------------------------------------------------------------
(* Refinement *)

(* When the combined callback is due, every added input has a value.       *)
LEMMA DueMeansSettled ==
  ASSUME CombinerInv, consumer = "scheduled"
  PROVE  requested /\ added \subseteq settled
BY DEF CombinerInv, CombinerTypeOK, MarkInv, ResultInv, Inside

(* Every step of the combiner is a step of Promise.all, or none.           *)
LEMMA AllStep ==
  ASSUME CombinerInv, [CombinerNext]_combinerVars
  PROVE  [All!Next]_All!avars
<1> USE DEF All!Next, All!avars
<1>1. ASSUME NEW k \in Inputs, Add(k) PROVE All!Add(k)
  BY <1>1 DEF Add, All!Add, finalVars
<1>2. ASSUME NEW k \in Inputs, Settle(k) PROVE All!Settle(k)
  BY <1>2 DEF Settle, All!Settle, finalVars
<1>3. ASSUME NEW k \in Inputs, CallbackStart(k) PROVE UNCHANGED All!avars
  BY <1>3 DEF CallbackStart, finalVars
<1>4. ASSUME NEW k \in Keys, ResolvePromise(k) PROVE UNCHANGED All!avars
  BY <1>4 DEF ResolvePromise, ResolveMark, ResolveScan, ResolveFinal,
     ResolveUnlock, finalVars
<1>5. CASE Combine
  BY <1>5 DEF Combine, All!Request
<1>6. CASE CombineConsume
  BY <1>6 DEF CombineConsume, CombinerInv, CombineInv
<1>7. CASE Release
  BY <1>7 DEF Release, finalVars
<1>8. CASE ConsumerStart
  BY <1>8, DueMeansSettled DEF ConsumerStart, All!Deliver
<1>9. CASE ConsumerEnd
  BY <1>9 DEF ConsumerEnd
<1>10. CASE UNCHANGED combinerVars
  BY <1>10 DEF combinerVars, finalVars
<1>11. QED
  BY <1>1, <1>2, <1>3, <1>4, <1>5, <1>6, <1>7, <1>8, <1>9, <1>10
     DEF CombinerNext, InputStep, CallerStep, CombinedStep, CombinerFinished,
         Keys

(* The combiner implements Promise.all: the combined callback is invoked   *)
(* at most once, after combine, when every added input has a value.        *)
THEOREM CombinerRefinement == CombinerSpec => ImplementsAll
<1>1. CombinerInit => All!Init
  BY DEF CombinerInit, All!Init
<1>2. QED
  BY <1>1, AllStep, CombinerInvariant, PTL
     DEF CombinerSpec, ImplementsAll, All!Spec

=============================================================================
