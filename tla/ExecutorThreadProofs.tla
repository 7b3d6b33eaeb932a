------------------------ MODULE ExecutorThreadProofs ------------------------
(***************************************************************************)
(* Proofs about module ExecutorThread, for any number of executors and     *)
(* lists and queues of any length: a detached list is quiet, and round     *)
(* robin bounds how often a list is overtaken.                             *)
(***************************************************************************)
EXTENDS ExecutorThread, SequenceTheorems, TLAPS

Scanning(e) == pc[e] \in {"scan", "run"}

(* the list at the offset o of a scan *)
ListAt(e, o) == taskLists[e][((o + nextIdx[e]) % Len(taskLists[e])) + 1]

Offsets(e) == 0..(Len(taskLists[e]) - 1)

(* A scan stays within the attached lists, and runs a task of the one it   *)
(* has come to.                                                            *)
ScanInv ==
  /\ \A e \in Executors : ~Scanning(e) => scanned[e] = 0
  /\ \A e \in Executors : pc[e] = "scan" => scanned[e] <= Len(taskLists[e])
  /\ \A e \in Executors :
       pc[e] = "run" => /\ scanned[e] \in Offsets(e)
                        /\ running[e] = ListAt(e, scanned[e])

(* What remains of a round is as long as the list may still be overtaken.  *)
(* While a task runs the round is the one that begins behind its list.     *)
Due(e) ==
  /\ \A l \in Lists : queue[l] = 0 => overtaken[e][l] = 0
  /\ \A o \in Offsets(e) :
       pc[e] # "run" =>
         /\ overtaken[e][ListAt(e, o)] + o < Len(taskLists[e])
         /\ o < scanned[e] => overtaken[e][ListAt(e, o)] = 0
  /\ \A o \in Offsets(e) :
       pc[e] = "run" =>
         IF o > scanned[e]
         THEN overtaken[e][ListAt(e, o)] + o - scanned[e] <= Len(taskLists[e])
         ELSE overtaken[e][ListAt(e, o)] + o <= scanned[e]

OvertakenInv == \A e \in Executors : Due(e)

ExecutorInv == TypeOK /\ ScanInv /\ OvertakenInv

-----------------------------------------------------------------------------
(* Slots *)

LEMMA ModRange ==
  ASSUME NEW n \in Nat \ {0}, NEW x \in Nat
  PROVE  x % n \in 0..n - 1 /\ (x < n => x % n = x)
OBVIOUS

LEMMA ModIsRest ==
  ASSUME NEW n \in Nat \ {0}, NEW x \in Nat, NEW q \in Nat, NEW r \in 0..n - 1,
         x = (n * q) + r
  PROVE  x % n = r
OBVIOUS

LEMMA ModParts ==
  ASSUME NEW n \in Nat \ {0}, NEW x \in Nat
  PROVE  \E q \in Nat : x = (n * q) + (x % n)
<1>1. x \div n \in Nat
  OBVIOUS
<1>2. x = (n * (x \div n)) + (x % n)
  OBVIOUS
<1>3. QED
  BY <1>1, <1>2

LEMMA ModSum ==
  ASSUME NEW n \in Nat \ {0}, NEW x \in Nat, NEW y \in Nat,
         NEW a \in 0..n - 1, x % n = a
  PROVE  (y + a) % n = (y + x) % n
<1>1. PICK q \in Nat : x = (n * q) + a
  BY ModParts
<1>2. y + a \in Nat
  OBVIOUS
<1>3. PICK r \in 0..n - 1 : r = (y + a) % n
  BY <1>2, ModRange
<1>4. PICK p \in Nat : y + a = (n * p) + r
  BY <1>2, <1>3, ModParts
<1>5. y + x = (n * (p + q)) + r /\ p + q \in Nat /\ y + x \in Nat
  BY <1>1, <1>4
<1>6. (y + x) % n = r
  BY <1>5, ModIsRest
<1>7. QED
  BY <1>3, <1>6

LEMMA ModRound ==
  ASSUME NEW n \in Nat \ {0}, NEW x \in Nat
  PROVE  (x + n) % n = x % n
<1>1. PICK a \in 0..n - 1 : x % n = a
  BY ModRange
<1>2. PICK q \in Nat : x = (n * q) + a
  BY <1>1, ModParts
<1>3. x + n = (n * (q + 1)) + a /\ q + 1 \in Nat /\ x + n \in Nat
  BY <1>2
<1>4. (x + n) % n = a
  BY <1>3, ModIsRest
<1>5. QED
  BY <1>1, <1>4

(* Every slot has an offset. *)
LEMMA OffsetOf ==
  ASSUME NEW n \in Nat \ {0}, NEW x \in Nat, NEW p \in 0..n - 1
  PROVE  \E o \in 0..n - 1 : (o + x) % n = p
<1>1. PICK a \in 0..n - 1 : a = x % n
  BY ModRange
<1>2. \A o \in Nat : (o + a) % n = (o + x) % n
  BY <1>1, ModSum
<1>3. CASE p >= a
  <2>1. p - a \in 0..n - 1 /\ p - a \in Nat /\ (p - a) + a = p /\ p % n = p
    BY <1>3, ModRange
  <2>2. ((p - a) + a) % n = ((p - a) + x) % n
    BY <1>2, <2>1
  <2>3. QED
    BY <2>1, <2>2
<1>4. CASE p < a
  <2>1. p + n - a \in 0..n - 1 /\ p + n - a \in Nat /\ (p + n - a) + a = p + n
    BY <1>4
  <2>0. p \in Nat /\ p < n
    OBVIOUS
  <2>2. (p + n) % n = p % n /\ p % n = p
    BY <2>0, ModRange, ModRound
  <2>3. ((p + n - a) + a) % n = ((p + n - a) + x) % n
    BY <1>2, <2>1
  <2>4. QED
    BY <2>1, <2>2, <2>3
<1>5. QED
  BY <1>3, <1>4

-----------------------------------------------------------------------------
(* The attached lists *)

LEMMA AppendList ==
  ASSUME NEW S, NEW s \in Seq(S), IsInjective(s), NEW l \in S, l \notin ToSet(s)
  PROVE  /\ Append(s, l) \in Seq(S) /\ IsInjective(Append(s, l))
         /\ ToSet(Append(s, l)) = ToSet(s) \cup {l}
<1>1. /\ Append(s, l) \in Seq(S) /\ Len(Append(s, l)) = Len(s) + 1
      /\ Append(s, l)[Len(s) + 1] = l
      /\ \A j \in 1..Len(s) : Append(s, l)[j] = s[j] /\ s[j] # l
  BY DEF ToSet
<1>2. QED
  BY <1>1 DEF IsInjective, ToSet

LEMMA EraseList ==
  ASSUME NEW S, NEW s \in Seq(S), IsInjective(s), NEW l \in ToSet(s)
  PROVE  /\ EraseUnordered(s, l) \in Seq(S) /\ IsInjective(EraseUnordered(s, l))
         /\ ToSet(EraseUnordered(s, l)) = ToSet(s) \ {l}
<1> DEFINE n == Len(s)
<1>1. PICK i \in 1..n : i = CHOOSE j \in DOMAIN s : s[j] = l
  BY DEF ToSet
<1>2. s[i] = l /\ n \in Nat \ {0}
  BY <1>1 DEF ToSet
<1> DEFINE r == [s EXCEPT ![i] = s[n]]
<1>3. r \in Seq(S)
  BY <1>2
<1>4. Len(r) = n /\ \A j \in 1..n : r[j] = IF j = i THEN s[n] ELSE s[j]
  BY <1>3
<1> HIDE DEF r
<1> DEFINE f == SubSeq(r, 1, n - 1)
<1>5. 1 \in 1..n /\ n - 1 \in 0..Len(r)
  BY <1>2, <1>4
<1>6. f \in Seq(S) /\ Len(f) = n - 1 /\ \A j \in 1..(n - 1) : f[j] = r[j]
  BY <1>2, <1>3, <1>4, <1>5, SubSeqProperties
<1>7. EraseUnordered(s, l) = f
  <2>1. EraseUnordered(s, l) = Front(r)
    BY <1>1 DEF EraseUnordered, Last, r
  <2>2. QED
    BY <1>4, <2>1 DEF Front
<1> HIDE DEF f
<1>8. IsInjective(f)
  <2> SUFFICES ASSUME NEW a \in 1..(n - 1), NEW b \in 1..(n - 1), f[a] = f[b]
               PROVE  a = b
    BY <1>6 DEF IsInjective
  <2>1. \A c, d \in 1..n : s[c] = s[d] => c = d
    BY DEF IsInjective
  <2>2. /\ f[a] = IF a = i THEN s[n] ELSE s[a]
        /\ f[b] = IF b = i THEN s[n] ELSE s[b]
        /\ a \in 1..n /\ b \in 1..n /\ n \in 1..n /\ a # n /\ b # n
    BY <1>2, <1>4, <1>6
  <2>3. QED
    BY <2>1, <2>2
<1>9. ToSet(f) = ToSet(s) \ {l}
  <2>1. \A c, d \in 1..n : s[c] = s[d] => c = d
    BY DEF IsInjective
  <2>2. ASSUME NEW j \in 1..(n - 1) PROVE f[j] \in ToSet(s) /\ f[j] # l
    <3>1. j \in 1..n /\ n \in 1..n /\ j # n /\ f[j] = IF j = i THEN s[n] ELSE s[j]
      BY <1>2, <1>4, <1>6
    <3>2. s[j] \in ToSet(s) /\ s[n] \in ToSet(s)
      BY <3>1 DEF ToSet
    <3>3. QED
      BY <1>1, <1>2, <2>1, <3>1, <3>2
  <2>3. ASSUME NEW j \in 1..n, s[j] # l PROVE \E k \in 1..(n - 1) : f[k] = s[j]
    <3>1. CASE j # n
      <4>1. j \in 1..(n - 1) /\ j # i /\ f[j] = s[j]
        BY <1>2, <1>4, <1>6, <2>3, <3>1
      <4>2. QED
        BY <4>1
    <3>2. CASE j = n
      <4>1. i \in 1..(n - 1) /\ f[i] = s[n]
        BY <1>2, <1>4, <1>6, <2>3, <3>2
      <4>2. QED
        BY <3>2, <4>1
    <3>3. QED
      BY <3>1, <3>2
  <2>4. DOMAIN f = 1..(n - 1) /\ DOMAIN s = 1..n
    BY <1>6
  <2>5. ASSUME NEW x \in ToSet(f) PROVE x \in ToSet(s) \ {l}
    BY <2>2, <2>4, <2>5 DEF ToSet
  <2>6. ASSUME NEW x \in ToSet(s) \ {l} PROVE x \in ToSet(f)
    BY <2>3, <2>4, <2>6 DEF ToSet
  <2>7. QED
    BY <2>5, <2>6
<1>10. QED
  BY <1>6, <1>7, <1>8, <1>9

-----------------------------------------------------------------------------
(* Types *)

ListenersInv == listeners = [l \in Lists |-> {e \in Executors : l \in Attached(e)}]

(* What a call of the owner does to the lists of one executor: the types,  *)
(* and who listens.                                                        *)
LEMMA OwnerTypes ==
  ASSUME TypeOK, NEW e \in Executors, NEW s \in Seq(Lists), IsInjective(s),
         taskLists' = [taskLists EXCEPT ![e] = s],
         \A l \in Lists : listeners'[l] = IF l \in ToSet(s)
                                          THEN listeners[l] \cup {e}
                                          ELSE listeners[l] \ {e},
         listeners' \in [Lists -> SUBSET Executors]
  PROVE  /\ taskLists' \in [Executors -> Seq(Lists)]
         /\ \A d \in Executors : IsInjective(taskLists'[d])
         /\ ListenersInv'
<1>1. /\ taskLists' \in [Executors -> Seq(Lists)]
      /\ taskLists'[e] = s
      /\ \A d \in Executors : d # e => taskLists'[d] = taskLists[d]
  BY DEF TypeOK
<1>2. \A d \in Executors : IsInjective(taskLists'[d])
  BY <1>1 DEF TypeOK
<1>3. ASSUME NEW l \in Lists
      PROVE  listeners'[l] = {d \in Executors : l \in ToSet(taskLists'[d])}
  <2>1. listeners[l] = {d \in Executors : l \in ToSet(taskLists[d])}
    BY DEF TypeOK, Attached
  <2>2. QED
    BY <1>1, <2>1
<1>4. ListenersInv'
  BY <1>3 DEF ListenersInv, Attached
<1>5. QED
  BY <1>1, <1>2, <1>4

LEMMA AddTypes ==
  ASSUME TypeOK, NEW e \in Executors, NEW l \in Lists, AddTaskList(e, l)
  PROVE  /\ taskLists' \in [Executors -> Seq(Lists)]
         /\ \A d \in Executors : IsInjective(taskLists'[d])
         /\ ListenersInv'
<1>1. taskLists[e] \in Seq(Lists) /\ IsInjective(taskLists[e])
  BY DEF TypeOK
<1>2. PICK s \in Seq(Lists) : /\ s = Append(taskLists[e], l) /\ IsInjective(s)
                              /\ ToSet(s) = ToSet(taskLists[e]) \cup {l}
  BY <1>1, AppendList DEF AddTaskList, Attached
<1>3. taskLists' = [taskLists EXCEPT ![e] = s]
  BY <1>2 DEF AddTaskList
<1>4. /\ listeners \in [Lists -> SUBSET Executors]
      /\ \A m \in Lists : e \in listeners[m] <=> m \in ToSet(taskLists[e])
  BY DEF TypeOK, Attached
<1>5. listeners' = [listeners EXCEPT ![l] = @ \cup {e}]
  BY DEF AddTaskList
<1>6. listeners' \in [Lists -> SUBSET Executors]
  BY <1>4, <1>5
<1>7. \A m \in Lists : listeners'[m] = IF m \in ToSet(s) THEN listeners[m] \cup {e}
                                       ELSE listeners[m] \ {e}
  BY <1>2, <1>4, <1>5
<1>8. QED
  BY <1>2, <1>3, <1>6, <1>7, OwnerTypes

LEMMA RemoveTypes ==
  ASSUME TypeOK, NEW e \in Executors, NEW l \in Lists, RemoveTaskList(e, l)
  PROVE  /\ taskLists' \in [Executors -> Seq(Lists)]
         /\ \A d \in Executors : IsInjective(taskLists'[d])
         /\ ListenersInv'
<1>1. /\ taskLists[e] \in Seq(Lists) /\ IsInjective(taskLists[e])
      /\ l \in ToSet(taskLists[e])
  BY DEF TypeOK, RemoveTaskList, Attached
<1>2. PICK s \in Seq(Lists) :
        /\ s = EraseUnordered(taskLists[e], l) /\ IsInjective(s)
        /\ ToSet(s) = ToSet(taskLists[e]) \ {l}
  BY <1>1, EraseList
<1>3. taskLists' = [taskLists EXCEPT ![e] = s]
  BY <1>2 DEF RemoveTaskList
<1>4. /\ listeners \in [Lists -> SUBSET Executors]
      /\ \A m \in Lists : e \in listeners[m] <=> m \in ToSet(taskLists[e])
  BY DEF TypeOK, Attached
<1>5. listeners' = [listeners EXCEPT ![l] = @ \ {e}]
  BY DEF RemoveTaskList
<1>6. listeners' \in [Lists -> SUBSET Executors]
  BY <1>4, <1>5
<1>7. \A m \in Lists : listeners'[m] = IF m \in ToSet(s) THEN listeners[m] \cup {e}
                                       ELSE listeners[m] \ {e}
  BY <1>2, <1>4, <1>5
<1>8. QED
  BY <1>2, <1>3, <1>6, <1>7, OwnerTypes

LEMMA ClearTypes ==
  ASSUME TypeOK, NEW e \in Executors, ClearAllTaskLists(e)
  PROVE  /\ taskLists' \in [Executors -> Seq(Lists)]
         /\ \A d \in Executors : IsInjective(taskLists'[d])
         /\ ListenersInv'
<1>1. PICK s \in Seq(Lists) : s = <<>> /\ IsInjective(s) /\ ToSet(s) = {}
  <2>1. <<>> \in Seq(Lists) /\ DOMAIN <<>> = {}
    OBVIOUS
  <2>2. QED
    BY <2>1 DEF IsInjective, ToSet
<1>2. taskLists' = [taskLists EXCEPT ![e] = s]
  BY <1>1 DEF ClearAllTaskLists
<1>3. /\ listeners \in [Lists -> SUBSET Executors]
      /\ listeners' = [m \in Lists |-> listeners[m] \ {e}]
  BY DEF TypeOK, ClearAllTaskLists
<1>4. listeners' \in [Lists -> SUBSET Executors]
  BY <1>3
<1>5. \A m \in Lists : listeners'[m] = IF m \in ToSet(s) THEN listeners[m] \cup {e}
                                       ELSE listeners[m] \ {e}
  BY <1>1, <1>3
<1>6. QED
  BY <1>1, <1>2, <1>4, <1>5, OwnerTypes

(* Ranges that do not depend on the action. *)
Steps == {"top", "inner", "pred", "scan", "run", "block", "asleep", "exited"}

LEMMA WokenIs ==
  ASSUME TypeOK, NEW es, pc' = Woken(es)
  PROVE  /\ pc' \in [Executors -> Steps]
         /\ \A e \in Executors : /\ pc'[e] \in {"scan", "run"} <=> Scanning(e)
                                 /\ pc'[e] = "run" <=> pc[e] = "run"
                                 /\ pc'[e] = "scan" <=> pc[e] = "scan"
BY DEF TypeOK, Woken, Scanning, Steps

(* A call of the owner. *)
OwnerCall(e) ==
  \/ \E l \in Lists : AddTaskList(e, l) \/ RemoveTaskList(e, l)
  \/ ClearAllTaskLists(e) \/ Destroy(e)

LEMMA OwnerCallIs ==
  ASSUME TypeOK, NEW e \in Executors, OwnerCall(e)
  PROVE  /\ taskLists' \in [Executors -> Seq(Lists)]
         /\ \A d \in Executors : IsInjective(taskLists'[d])
         /\ ListenersInv'
         /\ \A d \in Executors : taskLists'[d] # taskLists[d] => d = e
         /\ ~Scanning(e)
         /\ overtaken' \in [Executors -> [Lists -> Nat]]
         /\ \A d \in Executors, m \in Lists :
              overtaken'[d][m] = overtaken[d][m] \/ (d = e /\ overtaken'[d][m] = 0)
         /\ taskLists' # taskLists => \A m \in Lists : overtaken'[e][m] = 0
         /\ cancelled' \in [Executors -> BOOLEAN]
         /\ notifying' \in Executors \cup {None}
         /\ UNCHANGED <<queue, threadVars>>
<1>1. /\ taskLists' \in [Executors -> Seq(Lists)]
      /\ \A d \in Executors : IsInjective(taskLists'[d])
      /\ ListenersInv'
  <2>1. CASE Destroy(e)
    BY <2>1 DEF Destroy, TypeOK, ListenersInv, Attached
  <2>2. QED
    BY <2>1, AddTypes, RemoveTypes, ClearTypes DEF OwnerCall
<1>2. OwnerCalls(e) /\ UNCHANGED <<queue, threadVars>>
  BY DEF OwnerCall, AddTaskList, RemoveTaskList, ClearAllTaskLists, Destroy
<1>3. \A d \in Executors : taskLists'[d] # taskLists[d] => d = e
  BY DEF OwnerCall, AddTaskList, RemoveTaskList, ClearAllTaskLists, Destroy, TypeOK
<1>4. \/ overtaken' = [overtaken EXCEPT ![e] = [m \in Lists |-> 0]]
      \/ overtaken' = overtaken /\ taskLists' = taskLists
  BY DEF OwnerCall, AddTaskList, RemoveTaskList, ClearAllTaskLists, Destroy
<1>5. cancelled' \in [Executors -> BOOLEAN]
  BY DEF OwnerCall, AddTaskList, RemoveTaskList, ClearAllTaskLists, Destroy, TypeOK
<1>6. ~Scanning(e) /\ notifying' \in Executors \cup {None}
  BY <1>2 DEF OwnerCalls, Unshared, Scanning
<1>7. /\ overtaken' \in [Executors -> [Lists -> Nat]]
      /\ \A d \in Executors, m \in Lists :
           overtaken'[d][m] = overtaken[d][m] \/ (d = e /\ overtaken'[d][m] = 0)
      /\ taskLists' # taskLists => \A m \in Lists : overtaken'[e][m] = 0
  <2>1. CASE overtaken' = [overtaken EXCEPT ![e] = [m \in Lists |-> 0]]
    BY <2>1 DEF TypeOK
  <2>2. CASE overtaken' = overtaken /\ taskLists' = taskLists
    BY <2>2 DEF TypeOK
  <2>3. QED
    BY <1>4, <2>1, <2>2
<1>8. QED
  BY <1>1, <1>2, <1>3, <1>5, <1>6, <1>7

(* A step of the thread of e: of the others nothing changes but the count  *)
(* of lists that are empty now.                                            *)
LEMMA ThreadTypes ==
  ASSUME TypeOK, ScanInv, NEW e \in Executors, ThreadStep(e) \/ SpuriousWake(e)
  PROVE  /\ pc' \in [Executors -> Steps] /\ waiting' \in [Executors -> BOOLEAN]
         /\ nextIdx' \in [Executors -> Nat] /\ scanned' \in [Executors -> Nat]
         /\ UNCHANGED <<taskLists, listeners, cancelled, notifying>>
<1>1. CASE TopCheck(e) \/ EvaluatePredicate(e) \/ Sleep(e) \/ SpuriousWake(e)
  BY <1>1 DEF TopCheck, EvaluatePredicate, Sleep, SpuriousWake, Woken, Steps,
              ownerVars, TypeOK
<1>2. CASE InnerCheck(e)
  <2>1. cancelled[e] \in BOOLEAN
    BY DEF TypeOK
  <2>2. QED
    BY <1>2, <2>1 DEF InnerCheck, Steps, ownerVars, TypeOK
<1>3. CASE \E l \in Lists : Pop(e, l)
  BY <1>3 DEF Pop, Steps, ownerVars, TypeOK
<1>4. CASE Miss(e)
  <2>1. scanned[e] + 1 \in Nat
    BY DEF TypeOK
  <2>2. QED
    BY <1>4, <2>1 DEF Miss, Steps, ownerVars, TypeOK
<1>5. CASE ScanEnd(e)
  <2>1. (~waiting[e] \/ ~cancelled[e]) \in BOOLEAN
    OBVIOUS
  <2>2. QED
    BY <1>5, <2>1 DEF ScanEnd, Steps, ownerVars, TypeOK
<1>6. CASE FinishTask(e)
  <2>1. Len(taskLists[e]) \in Nat \ {0}
    <3>1. scanned[e] \in 0..(Len(taskLists[e]) - 1) /\ Len(taskLists[e]) \in Nat
      BY <1>6 DEF FinishTask, ScanInv, Offsets, TypeOK
    <3>2. QED
      BY <3>1
  <2>2. PICK n \in Nat \ {0}, x \in Nat :
          n = Len(taskLists[e]) /\ x = scanned[e] + nextIdx[e]
    BY <2>1 DEF TypeOK
  <2>3. x % n \in Nat
    BY ModRange
  <2>4. ((x % n) + 1) % n \in Nat
    BY <2>3, ModRange
  <2>5. (Slot(e) + 1) % Len(taskLists[e]) \in Nat
    BY <2>2, <2>4 DEF Slot
  <2>6. QED
    BY <1>6, <2>5 DEF FinishTask, Steps, ownerVars, TypeOK
<1>7. QED
  BY <1>1, <1>2, <1>3, <1>4, <1>5, <1>6 DEF ThreadStep

LEMMA TypesKept ==
  ASSUME TypeOK, ScanInv, [Next]_vars
  PROVE  TypeOK'
<1> USE DEF ListenersInv, Steps
<1>1. CASE \E l \in Lists : AddTask(l)
  <2>1. queue' \in [Lists -> 0..MaxQueue]
    BY <1>1, ExecutorAssumption DEF AddTask, TypeOK
  <2>2. /\ pc' \in [Executors -> Steps]
        /\ \A e \in Executors : pc'[e] = "run" <=> pc[e] = "run"
    BY <1>1, WokenIs DEF AddTask
  <2>3. UNCHANGED <<listeners, taskLists, cancelled, nextIdx, waiting, scanned,
                    running, notifying, overtaken>>
    BY <1>1 DEF AddTask
  <2>4. QED
    BY <2>1, <2>2, <2>3 DEF TypeOK, Attached
<1>2. CASE \E e \in Executors : OwnerCall(e)
  BY <1>2, OwnerCallIs DEF TypeOK, threadVars
<1>3. CASE NotifyAll
  <2>1. /\ pc' \in [Executors -> Steps]
        /\ \A e \in Executors : pc'[e] = "run" <=> pc[e] = "run"
    BY <1>3, WokenIs DEF NotifyAll
  <2>2. UNCHANGED <<queue, listeners, taskLists, cancelled, nextIdx, waiting,
                    scanned, running, overtaken>>
        /\ notifying' = None
    BY <1>3 DEF NotifyAll
  <2>3. QED
    BY <2>1, <2>2 DEF TypeOK, Attached
<1>4. CASE \E e \in Executors : ThreadStep(e) \/ SpuriousWake(e)
  <2>1. PICK e \in Executors : ThreadStep(e) \/ SpuriousWake(e)
    BY <1>4
  <2>2. /\ pc' \in [Executors -> Steps] /\ waiting' \in [Executors -> BOOLEAN]
        /\ nextIdx' \in [Executors -> Nat] /\ scanned' \in [Executors -> Nat]
        /\ UNCHANGED <<taskLists, listeners, cancelled, notifying>>
    BY <2>1, ThreadTypes
  <2>3. /\ queue' \in [Lists -> 0..MaxQueue]
        /\ running' \in [Executors -> Lists \cup {None}]
        /\ \A d \in Executors : pc'[d] = "run" <=> running'[d] # None
        /\ overtaken' \in [Executors -> [Lists -> Nat]]
    <3>1. CASE \E l \in Lists : Pop(e, l)
      <4>1. PICK l \in Lists : Pop(e, l)
        BY <3>1
      <4>2. queue' \in [Lists -> 0..MaxQueue]
        <5>1. queue[l] \in 0..MaxQueue /\ queue[l] > 0
          BY <4>1 DEF Pop, TypeOK
        <5>2. queue[l] - 1 \in 0..MaxQueue
          BY <5>1, ExecutorAssumption
        <5>3. queue' = [queue EXCEPT ![l] = queue[l] - 1] \/ queue' = queue
          BY <4>1 DEF Pop
        <5>4. QED
          BY <5>2, <5>3 DEF TypeOK
      <4>3. overtaken' \in [Executors -> [Lists -> Nat]]
        <5>1. \A d \in Executors, m \in Lists : overtaken[d][m] \in Nat
          BY DEF TypeOK
        <5>2. overtaken' = Overtakes(e, l)
          BY <4>1 DEF Pop
        <5>3. QED
          BY <5>1, <5>2 DEF Overtakes
      <4>4. /\ running' \in [Executors -> Lists \cup {None}]
            /\ \A d \in Executors : pc'[d] = "run" <=> running'[d] # None
        BY <4>1, ExecutorAssumption DEF Pop, TypeOK
      <4>5. QED
        BY <4>2, <4>3, <4>4
    <3>2. CASE FinishTask(e)
      BY <3>2 DEF FinishTask, TypeOK
    <3>3. CASE Miss(e)
      BY <3>3 DEF Miss, TypeOK
    <3>4. CASE TopCheck(e) \/ InnerCheck(e) \/ EvaluatePredicate(e)
                 \/ ScanEnd(e) \/ Sleep(e) \/ SpuriousWake(e)
      BY <3>4 DEF TopCheck, InnerCheck, EvaluatePredicate, ScanEnd, Sleep,
                  SpuriousWake, Woken, TypeOK
    <3>5. QED
      BY <2>1, <3>1, <3>2, <3>3, <3>4 DEF ThreadStep
  <2>4. QED
    BY <2>2, <2>3 DEF TypeOK, Attached
<1>5. CASE UNCHANGED vars
  BY <1>5 DEF vars, threadVars, TypeOK, Attached
<1>6. QED
  BY <1>1, <1>2, <1>3, <1>4, <1>5 DEF Next, OwnerStep, OwnerCall, Finished

-----------------------------------------------------------------------------
(* Scans *)

(* A call of the owner, a notification and a new task leave a scan alone.  *)
LEMMA OthersLeaveScans ==
  ASSUME TypeOK,
         \/ \E l \in Lists : AddTask(l)
         \/ \E e \in Executors : OwnerCall(e)
         \/ NotifyAll
         \/ UNCHANGED vars
  PROVE  /\ UNCHANGED <<nextIdx, scanned, running>>
         /\ \A d \in Executors :
              /\ pc'[d] \in {"scan", "run"} <=> Scanning(d)
              /\ pc'[d] = "run" <=> pc[d] = "run"
              /\ pc'[d] = "scan" <=> pc[d] = "scan"
              /\ Scanning(d) => taskLists'[d] = taskLists[d]
<1>1. CASE \E l \in Lists : AddTask(l)
  BY <1>1, WokenIs DEF AddTask
<1>2. CASE \E e \in Executors : OwnerCall(e)
  <2>1. PICK e \in Executors : OwnerCall(e)
    BY <1>2
  <2>2. /\ \A d \in Executors : taskLists'[d] # taskLists[d] => d = e
        /\ ~Scanning(e) /\ UNCHANGED <<queue, threadVars>>
    BY <2>1, OwnerCallIs
  <2>3. QED
    BY <2>2 DEF threadVars, Scanning
<1>3. CASE NotifyAll
  BY <1>3, WokenIs DEF NotifyAll
<1>4. CASE UNCHANGED vars
  BY <1>4 DEF vars, threadVars, Scanning
<1>5. QED
  BY <1>1, <1>2, <1>3, <1>4

LEMMA ScanKept ==
  ASSUME TypeOK, ScanInv, [Next]_vars
  PROVE  ScanInv'
<1>1. CASE \/ \E l \in Lists : AddTask(l)
           \/ \E e \in Executors : OwnerCall(e)
           \/ NotifyAll
           \/ UNCHANGED vars
  BY <1>1, OthersLeaveScans DEF ScanInv, Scanning, Offsets, ListAt
<1>2. CASE \E e \in Executors : ThreadStep(e) \/ SpuriousWake(e)
  <2>1. PICK e \in Executors : ThreadStep(e) \/ SpuriousWake(e)
    BY <1>2
  <2>2. taskLists' = taskLists
    BY <2>1, ThreadTypes
  <2>3. CASE \E l \in Lists : Pop(e, l)
    <3>1. PICK l \in Lists : Pop(e, l)
      BY <2>3
    <3>2. scanned[e] \in Offsets(e) /\ l = ListAt(e, scanned[e])
      BY <3>1 DEF Pop, Offsets, ListAt, Slot, TypeOK
    <3>3. UNCHANGED <<taskLists, scanned, nextIdx>>
      BY <3>1 DEF Pop, ownerVars
    <3>4. /\ pc' = [pc EXCEPT ![e] = "run"]
          /\ running' = [running EXCEPT ![e] = l]
      BY <3>1 DEF Pop
    <3>5. QED
      BY <3>1, <3>2, <3>3, <3>4 DEF Pop, ScanInv, Scanning, Offsets, ListAt, TypeOK
  <2>4. CASE FinishTask(e)
    BY <2>2, <2>4 DEF FinishTask, ScanInv, Scanning, Offsets, ListAt, TypeOK
  <2>5. CASE Miss(e)
    <3>1. /\ pc[e] = "scan" /\ pc' = pc /\ UNCHANGED <<nextIdx, running>>
          /\ scanned[e] < Len(taskLists[e])
          /\ scanned' = [scanned EXCEPT ![e] = scanned[e] + 1]
      BY <2>5 DEF Miss
    <3>2. scanned[e] \in Nat /\ Len(taskLists[e]) \in Nat
      BY DEF TypeOK
    <3>3. scanned'[e] <= Len(taskLists[e])
      BY <3>1, <3>2 DEF TypeOK
    <3>4. \A d \in Executors : d # e => scanned'[d] = scanned[d]
      BY <3>1 DEF TypeOK
    <3>5. QED
      BY <2>2, <3>1, <3>3, <3>4 DEF ScanInv, Scanning, Offsets, ListAt
  <2>6. CASE ScanEnd(e)
    BY <2>2, <2>6 DEF ScanEnd, ScanInv, Scanning, Offsets, ListAt, TypeOK, ownerVars
  <2>7. CASE TopCheck(e) \/ InnerCheck(e) \/ EvaluatePredicate(e)
               \/ Sleep(e) \/ SpuriousWake(e)
    <3>1. /\ UNCHANGED <<scanned, running, nextIdx>> /\ ~Scanning(e)
          /\ pc'[e] # "run" /\ \A d \in Executors : d # e => pc'[d] = pc[d]
      BY <2>7 DEF TopCheck, InnerCheck, EvaluatePredicate, Sleep, SpuriousWake,
                  Woken, Scanning, TypeOK
    <3>2. scanned'[e] = 0 /\ 0 <= Len(taskLists'[e])
      BY <2>2, <3>1 DEF ScanInv, TypeOK
    <3>3. QED
      BY <2>2, <3>1, <3>2 DEF ScanInv, Scanning, Offsets, ListAt
  <2>8. QED
    BY <2>1, <2>3, <2>4, <2>5, <2>6, <2>7 DEF ThreadStep
<1>3. QED
  BY <1>1, <1>2 DEF Next, OwnerStep, OwnerCall, Finished

-----------------------------------------------------------------------------
(* Overtaking *)

LEMMA ListAtIs ==
  ASSUME NEW s \in Seq(Lists), s # <<>>, NEW x \in Nat
  PROVE  s[(x % Len(s)) + 1] \in Lists
<1>1. PICK n \in Nat \ {0} : n = Len(s)
  OBVIOUS
<1>2. x % n \in 0..n - 1
  BY ModRange
<1>3. QED
  BY <1>1, <1>2

LEMMA OffsetsAre ==
  ASSUME TypeOK, NEW e \in Executors, NEW o \in Offsets(e)
  PROVE  /\ ListAt(e, o) \in Lists /\ overtaken[e][ListAt(e, o)] \in Nat
         /\ Len(taskLists[e]) \in Nat \ {0} /\ o \in Nat
         /\ nextIdx[e] \in Nat /\ scanned[e] \in Nat
<1>1. /\ taskLists[e] \in Seq(Lists) /\ nextIdx[e] \in Nat /\ scanned[e] \in Nat
      /\ Len(taskLists[e]) \in Nat /\ o \in 0..(Len(taskLists[e]) - 1)
  BY DEF TypeOK, Offsets
<1>2. taskLists[e] # <<>> /\ o + nextIdx[e] \in Nat
  BY <1>1
<1>3. ListAt(e, o) \in Lists
  BY <1>1, <1>2, ListAtIs DEF ListAt
<1>4. QED
  BY <1>1, <1>2, <1>3 DEF TypeOK

(* Where the thread does not move on and no list is overtaken. *)
LEMMA DueStays ==
  ASSUME TypeOK, NEW d \in Executors, Due(d),
         taskLists'[d] = taskLists[d], nextIdx'[d] = nextIdx[d],
         scanned'[d] = scanned[d], pc'[d] = "run" <=> pc[d] = "run",
         \A m \in Lists : overtaken'[d][m] \in {overtaken[d][m], 0},
         \A m \in Lists : queue'[m] = 0 => overtaken'[d][m] = 0
  PROVE  Due(d)'
<1>1. Offsets(d)' = Offsets(d)
  BY DEF Offsets
<1>2. \A o \in Offsets(d) :
        /\ ListAt(d, o)' = ListAt(d, o)
        /\ overtaken'[d][ListAt(d, o)] \in {overtaken[d][ListAt(d, o)], 0}
        /\ overtaken[d][ListAt(d, o)] \in Nat
        /\ Len(taskLists[d]) \in Nat /\ o \in Nat /\ scanned[d] \in Nat
        /\ o < Len(taskLists[d])
  BY OffsetsAre DEF ListAt, Offsets
<1>3. ASSUME NEW o \in Offsets(d), pc'[d] # "run"
      PROVE  /\ overtaken'[d][ListAt(d, o)] + o < Len(taskLists[d])
             /\ o < scanned[d] => overtaken'[d][ListAt(d, o)] = 0
  BY <1>2, <1>3 DEF Due
<1>4. ASSUME NEW o \in Offsets(d), pc'[d] = "run"
      PROVE  IF o > scanned[d]
             THEN overtaken'[d][ListAt(d, o)] + o - scanned[d] <= Len(taskLists[d])
             ELSE overtaken'[d][ListAt(d, o)] + o <= scanned[d]
  BY <1>2, <1>4 DEF Due
<1>5. QED
  BY <1>1, <1>2, <1>3, <1>4 DEF Due

(* A list of the executor is attached or detached: a new round.            *)
LEMMA DueAnew ==
  ASSUME TypeOK', ScanInv', NEW e \in Executors, ~Scanning(e)',
         \A m \in Lists : overtaken'[e][m] = 0
  PROVE  Due(e)'
<1>1. scanned'[e] = 0 /\ pc'[e] # "run"
  BY DEF ScanInv, Scanning
<1>2. ASSUME NEW o, (o \in Offsets(e))'
      PROVE  /\ ListAt(e, o)' \in Lists /\ o \in Nat
             /\ o < Len(taskLists'[e])
  <2>1. /\ taskLists'[e] \in Seq(Lists) /\ nextIdx'[e] \in Nat
        /\ Len(taskLists'[e]) \in Nat /\ o \in 0..(Len(taskLists'[e]) - 1)
    BY <1>2 DEF TypeOK, Offsets
  <2>2. taskLists'[e] # <<>> /\ o + nextIdx'[e] \in Nat
    BY <2>1
  <2>3. ListAt(e, o)' \in Lists
    BY <2>1, <2>2, ListAtIs DEF ListAt
  <2>4. QED
    BY <2>1, <2>3
<1>3. QED
  BY <1>1, <1>2 DEF Due

LEMMA DuePop ==
  ASSUME TypeOK, ScanInv, NEW e \in Executors, Due(e), NEW l \in Lists, Pop(e, l)
  PROVE  Due(e)'
<1>1. /\ UNCHANGED <<taskLists, nextIdx, scanned>>
      /\ pc[e] = "scan" /\ pc'[e] = "run"
      /\ overtaken' = Overtakes(e, l)
  BY DEF Pop, ownerVars, TypeOK
<1>2. scanned[e] \in Offsets(e) /\ l = ListAt(e, scanned[e])
  BY DEF Pop, Offsets, ListAt, Slot, TypeOK
<1>3. Offsets(e)' = Offsets(e) /\ \A o \in Offsets(e) : ListAt(e, o)' = ListAt(e, o)
  BY <1>1 DEF Offsets, ListAt
<1>4. /\ \A m \in Lists : /\ queue'[m] = 0 => overtaken'[e][m] = 0
                          /\ overtaken'[e][m] \in {0, overtaken[e][m],
                                                   overtaken[e][m] + 1}
      /\ overtaken'[e][l] = 0
  BY <1>1 DEF Overtakes
<1>5. ASSUME NEW o \in Offsets(e)
      PROVE  IF o > scanned[e]
             THEN overtaken'[e][ListAt(e, o)] + o - scanned[e] <= Len(taskLists[e])
             ELSE overtaken'[e][ListAt(e, o)] + o <= scanned[e]
  <2>1. /\ ListAt(e, o) \in Lists /\ overtaken[e][ListAt(e, o)] \in Nat
        /\ Len(taskLists[e]) \in Nat /\ o \in Nat /\ scanned[e] \in Nat
        /\ o < Len(taskLists[e])
    BY OffsetsAre DEF Offsets
  <2>2. /\ overtaken[e][ListAt(e, o)] + o < Len(taskLists[e])
        /\ o < scanned[e] => overtaken[e][ListAt(e, o)] = 0
    BY <1>1 DEF Due
  <2>3. \/ overtaken'[e][ListAt(e, o)] = 0
        \/ overtaken'[e][ListAt(e, o)] = overtaken[e][ListAt(e, o)]
        \/ overtaken'[e][ListAt(e, o)] = overtaken[e][ListAt(e, o)] + 1
    <3>1. PICK m \in Lists : m = ListAt(e, o)
      BY <2>1
    <3>2. QED
      BY <1>4, <3>1
  <2>4. CASE o > scanned[e]
    BY <2>1, <2>2, <2>3, <2>4, SMTT(30)
  <2>5. CASE o < scanned[e]
    BY <2>1, <2>2, <2>3, <2>5
  <2>6. CASE o = scanned[e]
    BY <1>2, <1>4, <2>1, <2>6
  <2>7. QED
    BY <2>1, <2>4, <2>5, <2>6
<1>6. QED
  BY <1>1, <1>3, <1>4, <1>5 DEF Due

LEMMA DueMiss ==
  ASSUME TypeOK, ScanInv, NEW e \in Executors, Due(e), Miss(e)
  PROVE  Due(e)'
<1>1. /\ UNCHANGED <<taskLists, nextIdx, pc, overtaken, queue>>
      /\ pc[e] = "scan" /\ scanned'[e] = scanned[e] + 1
  BY DEF Miss, ownerVars, TypeOK
<1>2. Offsets(e)' = Offsets(e) /\ \A o \in Offsets(e) : ListAt(e, o)' = ListAt(e, o)
  BY <1>1 DEF Offsets, ListAt
<1>3. scanned[e] \in Offsets(e) /\ queue[ListAt(e, scanned[e])] = 0
  BY DEF Miss, Offsets, ListAt, Slot, TypeOK
<1>4. overtaken[e][ListAt(e, scanned[e])] = 0
  BY <1>3, OffsetsAre DEF Due
<1>5. ASSUME NEW o \in Offsets(e), o < scanned[e] + 1
      PROVE  overtaken[e][ListAt(e, o)] = 0
  <2>1. o = scanned[e] \/ o < scanned[e]
    BY <1>5, OffsetsAre
  <2>2. QED
    BY <1>1, <1>4, <2>1 DEF Due
<1>6. QED
  BY <1>1, <1>2, <1>5 DEF Due

(* The round that begins behind the list whose task is done. *)
LEMMA DueFinish ==
  ASSUME TypeOK, ScanInv, NEW e \in Executors, Due(e), FinishTask(e)
  PROVE  Due(e)'
<1>1. /\ UNCHANGED <<taskLists, overtaken, queue>>
      /\ pc[e] = "run" /\ pc'[e] # "run" /\ scanned'[e] = 0
      /\ nextIdx'[e] = (Slot(e) + 1) % Len(taskLists[e])
  BY DEF FinishTask, ownerVars, TypeOK
<1>2. scanned[e] \in Offsets(e)
  BY <1>1 DEF ScanInv
<1>3. PICK n \in Nat \ {0}, s \in Nat, i \in Nat :
        n = Len(taskLists[e]) /\ s = scanned[e] /\ i = nextIdx[e] /\ s < n
  <2>1. /\ Len(taskLists[e]) \in Nat \ {0} /\ nextIdx[e] \in Nat
        /\ scanned[e] \in 0..(Len(taskLists[e]) - 1)
    <3>1. Len(taskLists[e]) \in Nat \ {0} /\ nextIdx[e] \in Nat
      BY <1>2, OffsetsAre
    <3>2. QED
      BY <1>2, <3>1 DEF Offsets
  <2>2. QED
    BY <2>1
<1>4. PICK b \in 0..n - 1 : b = (s + i) % n
  <2>1. s + i \in Nat
    OBVIOUS
  <2>2. QED
    BY <2>1, ModRange
<1>5. PICK c \in 0..n - 1 : c = (b + 1) % n /\ nextIdx'[e] = c
  <2>1. b + 1 \in Nat
    OBVIOUS
  <2>2. (b + 1) % n \in 0..n - 1
    BY <2>1, ModRange
  <2>3. nextIdx'[e] = (b + 1) % n
    BY <1>1, <1>3, <1>4 DEF Slot
  <2>4. QED
    BY <2>2, <2>3
<1>6. ASSUME NEW o \in 0..n - 1
      PROVE  \E q \in 0..n - 1 : /\ (o + c) % n = (q + i) % n
                                 /\ IF o + s + 1 < n THEN q = o + s + 1
                                    ELSE q = o + s + 1 - n
  <2>1. (o + c) % n = (o + (b + 1)) % n
    <3>1. b + 1 \in Nat /\ o \in Nat
      OBVIOUS
    <3>2. QED
      BY <1>5, <3>1, ModSum
  <2>2. ((o + 1) + b) % n = ((o + 1) + (s + i)) % n
    <3>1. s + i \in Nat /\ o + 1 \in Nat
      OBVIOUS
    <3>2. QED
      BY <1>4, <3>1, ModSum
  <2>3. o + (b + 1) = (o + 1) + b /\ (o + 1) + (s + i) = (o + s + 1) + i
    OBVIOUS
  <2>4. (o + c) % n = ((o + s + 1) + i) % n
    BY <2>1, <2>2, <2>3
  <2>5. CASE o + s + 1 < n
    BY <2>4, <2>5
  <2>6. CASE ~(o + s + 1 < n)
    <3>1. PICK q \in 0..n - 1 : q = o + s + 1 - n
      BY <1>3, <2>6, SMTT(30)
    <3>2. q + i \in Nat /\ (o + s + 1) + i = (q + i) + n
      BY <3>1
    <3>3. ((q + i) + n) % n = (q + i) % n
      BY <3>2, ModRound
    <3>4. QED
      BY <2>4, <2>6, <3>1, <3>2, <3>3
  <2>7. QED
    BY <2>5, <2>6
<1>7. ASSUME NEW o \in 0..n - 1
      PROVE  overtaken[e][ListAt(e, o)'] + o < n
  <2>1. PICK q \in 0..n - 1 : /\ (o + c) % n = (q + i) % n
                              /\ IF o + s + 1 < n THEN q = o + s + 1
                                 ELSE q = o + s + 1 - n
    BY <1>6
  <2>2. ListAt(e, o)' = ListAt(e, q)
    BY <1>1, <1>3, <1>5, <2>1 DEF ListAt
  <2>3. q \in Offsets(e)
    BY <1>3 DEF Offsets
  <2>4. PICK v \in Nat : v = overtaken[e][ListAt(e, q)]
    BY <2>3, OffsetsAre
  <2>5. IF q > s THEN v + q - s <= n ELSE v + q <= s
    BY <1>1, <1>3, <2>3, <2>4 DEF Due
  <2>6. v + o < n
    BY <2>1, <2>5
  <2>7. QED
    BY <2>2, <2>4, <2>6
<1>8. Offsets(e)' = 0..n - 1 /\ Len(taskLists'[e]) = n
  BY <1>1, <1>3 DEF Offsets
<1>9. \A o \in 0..n - 1 : ~(o < 0)
  OBVIOUS
<1>10. QED
  BY <1>1, <1>7, <1>8, <1>9 DEF Due

LEMMA DueScanEnd ==
  ASSUME TypeOK, ScanInv, NEW e \in Executors, Due(e), ScanEnd(e)
  PROVE  Due(e)'
<1>1. /\ UNCHANGED <<taskLists, nextIdx, overtaken, queue>>
      /\ pc[e] = "scan" /\ pc'[e] # "run" /\ scanned'[e] = 0
  BY DEF ScanEnd, ownerVars, TypeOK
<1>2. Offsets(e)' = Offsets(e) /\ \A o \in Offsets(e) : ListAt(e, o)' = ListAt(e, o)
  BY <1>1 DEF Offsets, ListAt
<1>3. \A o \in Offsets(e) : ~(o < 0)
  BY OffsetsAre
<1>4. QED
  BY <1>1, <1>2, <1>3 DEF Due

(* The step of a thread: the others' lists only run empty.                 *)
LEMMA DueThread ==
  ASSUME TypeOK, ScanInv, OvertakenInv, NEW e \in Executors,
         ThreadStep(e) \/ SpuriousWake(e)
  PROVE  OvertakenInv'
<1>1. CASE \E l \in Lists : Pop(e, l)
  <2>1. PICK l \in Lists : Pop(e, l)
    BY <1>1
  <2>2. Due(e)'
    BY <2>1, DuePop DEF OvertakenInv
  <2>3. ASSUME NEW d \in Executors, d # e PROVE Due(d)'
    <3>1. /\ UNCHANGED <<taskLists, nextIdx, scanned>>
          /\ pc' = [pc EXCEPT ![e] = "run"] /\ overtaken' = Overtakes(e, l)
      BY <2>1 DEF Pop, ownerVars
    <3>2. pc'[d] = pc[d]
      BY <2>3, <3>1 DEF TypeOK
    <3>3. \A m \in Lists : /\ overtaken'[d][m] \in {overtaken[d][m], 0}
                           /\ queue'[m] = 0 => overtaken'[d][m] = 0
      BY <2>3, <3>1 DEF Overtakes
    <3>4. QED
      BY <3>1, <3>2, <3>3, DueStays DEF OvertakenInv
  <2>4. QED
    BY <2>2, <2>3 DEF OvertakenInv
<1>2. CASE Miss(e) \/ FinishTask(e) \/ ScanEnd(e)
  <2>1. Due(e)'
    BY <1>2, DueMiss, DueFinish, DueScanEnd DEF OvertakenInv
  <2>2. ASSUME NEW d \in Executors, d # e PROVE Due(d)'
    <3>1. /\ UNCHANGED <<taskLists, overtaken, queue>> /\ pc'[d] = pc[d]
          /\ nextIdx'[d] = nextIdx[d] /\ scanned'[d] = scanned[d]
      BY <1>2, <2>2 DEF Miss, FinishTask, ScanEnd, ownerVars, TypeOK
    <3>2. \A m \in Lists : /\ overtaken'[d][m] \in {overtaken[d][m], 0}
                           /\ queue'[m] = 0 => overtaken'[d][m] = 0
      BY <3>1 DEF OvertakenInv, Due
    <3>3. QED
      BY <3>1, <3>2, DueStays DEF OvertakenInv
  <2>3. QED
    BY <2>1, <2>2 DEF OvertakenInv
<1>3. CASE TopCheck(e) \/ InnerCheck(e) \/ EvaluatePredicate(e)
             \/ Sleep(e) \/ SpuriousWake(e)
  <2> SUFFICES ASSUME NEW d \in Executors PROVE Due(d)'
    BY DEF OvertakenInv
  <2>1. /\ UNCHANGED <<taskLists, overtaken, queue, nextIdx, scanned>>
        /\ pc'[d] = "run" <=> pc[d] = "run"
    BY <1>3 DEF TopCheck, InnerCheck, EvaluatePredicate, Sleep, SpuriousWake,
                Woken, ownerVars, TypeOK
  <2>2. \A m \in Lists : /\ overtaken'[d][m] \in {overtaken[d][m], 0}
                         /\ queue'[m] = 0 => overtaken'[d][m] = 0
    BY <2>1 DEF OvertakenInv, Due
  <2>3. QED
    BY <2>1, <2>2, DueStays DEF OvertakenInv
<1>4. QED
  BY <1>1, <1>2, <1>3 DEF ThreadStep

LEMMA OvertakenKept ==
  ASSUME TypeOK, ScanInv, OvertakenInv, [Next]_vars, TypeOK', ScanInv'
  PROVE  OvertakenInv'
<1>1. CASE (\E l \in Lists : AddTask(l)) \/ NotifyAll \/ UNCHANGED vars
  <2> SUFFICES ASSUME NEW d \in Executors PROVE Due(d)'
    BY DEF OvertakenInv
  <2>1. UNCHANGED <<taskLists, overtaken, nextIdx, scanned>>
    BY <1>1 DEF AddTask, NotifyAll, vars, threadVars
  <2>2. pc'[d] = "run" <=> pc[d] = "run"
    BY <1>1, OthersLeaveScans
  <2>3. \A m \in Lists : queue'[m] = 0 => queue[m] = 0
    <3>1. CASE \E l \in Lists : AddTask(l)
      <4>1. PICK l \in Lists :
              queue' = [queue EXCEPT ![l] = IF @ < MaxQueue THEN @ + 1 ELSE @]
        BY <3>1 DEF AddTask
      <4>2. queue[l] \in 0..MaxQueue /\ MaxQueue > 0 /\ MaxQueue \in Nat
        BY ExecutorAssumption DEF TypeOK
      <4>3. queue'[l] # 0
        BY <4>1, <4>2 DEF TypeOK
      <4>4. QED
        BY <4>1, <4>3 DEF TypeOK
    <3>2. QED
      BY <1>1, <3>1 DEF NotifyAll, vars
  <2>4. \A m \in Lists : /\ overtaken'[d][m] \in {overtaken[d][m], 0}
                         /\ queue'[m] = 0 => overtaken'[d][m] = 0
    BY <2>1, <2>3 DEF OvertakenInv, Due
  <2>5. QED
    BY <2>1, <2>2, <2>4, DueStays DEF OvertakenInv
<1>2. CASE \E e \in Executors : OwnerCall(e)
  <2>1. PICK e \in Executors : OwnerCall(e)
    BY <1>2
  <2>2. /\ \A d \in Executors : taskLists'[d] # taskLists[d] => d = e
        /\ ~Scanning(e) /\ UNCHANGED <<queue, threadVars>>
        /\ taskLists' # taskLists => \A m \in Lists : overtaken'[e][m] = 0
        /\ \A d \in Executors, m \in Lists :
             overtaken'[d][m] \in {overtaken[d][m], 0}
    BY <2>1, OwnerCallIs
  <2>3. UNCHANGED <<queue, pc, nextIdx, scanned>>
    BY <2>2 DEF threadVars
  <2> SUFFICES ASSUME NEW d \in Executors PROVE Due(d)'
    BY DEF OvertakenInv
  <2>4. CASE taskLists'[d] # taskLists[d]
    <3>1. d = e /\ \A m \in Lists : overtaken'[e][m] = 0
      BY <2>2, <2>4
    <3>2. ~Scanning(e)'
      BY <2>2, <2>3 DEF Scanning
    <3>3. QED
      BY <3>1, <3>2, DueAnew
  <2>5. CASE taskLists'[d] = taskLists[d]
    <3>1. \A m \in Lists : queue'[m] = 0 => overtaken'[d][m] = 0
      BY <2>2, <2>3 DEF OvertakenInv, Due
    <3>2. QED
      BY <2>2, <2>3, <2>5, <3>1, DueStays DEF OvertakenInv
  <2>6. QED
    BY <2>4, <2>5
<1>3. CASE \E e \in Executors : ThreadStep(e) \/ SpuriousWake(e)
  BY <1>3, DueThread
<1>4. QED
  BY <1>1, <1>2, <1>3 DEF Next, OwnerStep, OwnerCall, Finished

-----------------------------------------------------------------------------
(* Theorems *)

LEMMA ExecutorInit == Init => ExecutorInv
<1> SUFFICES ASSUME Init PROVE ExecutorInv
  OBVIOUS
<1>1. \A e \in Executors : taskLists[e] = <<>> /\ Len(taskLists[e]) = 0
  BY DEF Init
<1>2. \A e \in Executors : Attached(e) = {} /\ IsInjective(taskLists[e])
  <2>1. DOMAIN <<>> = {}
    OBVIOUS
  <2>2. QED
    BY <1>1, <2>1 DEF Attached, ToSet, IsInjective
<1>3. TypeOK
  <2>1. taskLists \in [Executors -> Seq(Lists)]
    BY DEF Init
  <2>2. listeners = [l \in Lists |-> {e \in Executors : l \in Attached(e)}]
    BY <1>2 DEF Init
  <2>3. QED
    BY <1>2, <2>1, <2>2, ExecutorAssumption DEF Init, TypeOK
<1>4. ScanInv
  BY <1>1 DEF Init, ScanInv, Scanning
<1>5. OvertakenInv
  <2>1. \A e \in Executors : Offsets(e) = {}
    BY <1>1 DEF Offsets
  <2>2. QED
    BY <2>1 DEF Init, OvertakenInv, Due
<1>6. QED
  BY <1>3, <1>4, <1>5 DEF ExecutorInv

(* The inductive invariant: the types, where a scan is, and how much of    *)
(* the round is left for a list that was overtaken so often.               *)
THEOREM ExecutorInvariant == Spec => []ExecutorInv
<1>1. Init => ExecutorInv
  BY ExecutorInit
<1>2. ExecutorInv /\ [Next]_vars => ExecutorInv'
  BY TypesKept, ScanKept, OvertakenKept DEF ExecutorInv
<1>3. QED
  BY <1>1, <1>2, PTL DEF Spec

(* A list notifies exactly the executors it is attached to (add_task_list, *)
(* remove_task_list and clear_all_task_lists keep both sides).             *)
THEOREM ExecutorTyped == Spec => []TypeOK
<1>1. ExecutorInv => TypeOK
  BY DEF ExecutorInv
<1>2. QED
  BY <1>1, ExecutorInvariant, PTL

(* No task of a list runs on an executor after remove_task_list or         *)
(* clear_all_task_lists took the list away from it.                        *)
THEOREM DetachedQuiet == Spec => []DetachedIsQuiet
<1>1. ExecutorInv => DetachedIsQuiet
  <2> SUFFICES ASSUME ExecutorInv, NEW e \in Executors, running[e] # None
               PROVE  running[e] \in Attached(e)
    BY DEF DetachedIsQuiet
  <2>1. scanned[e] \in Offsets(e) /\ running[e] = ListAt(e, scanned[e])
    BY DEF ExecutorInv, TypeOK, ScanInv
  <2>2. PICK n \in Nat \ {0}, x \in Nat :
          n = Len(taskLists[e]) /\ x = scanned[e] + nextIdx[e]
    BY <2>1, OffsetsAre DEF ExecutorInv
  <2>3. (x % n) + 1 \in 1..n
    <3>1. x % n \in 0..n - 1
      BY ModRange
    <3>2. QED
      BY <3>1
  <2>4. taskLists[e] \in Seq(Lists)
    BY DEF ExecutorInv, TypeOK
  <2>5. QED
    BY <2>1, <2>2, <2>3, <2>4 DEF ListAt, Attached, ToSet
<1>2. QED
  BY <1>1, ExecutorInvariant, PTL

(* Round robin: between two tasks of an attached list with work, an        *)
(* executor runs fewer tasks of the others than it has lists.              *)
THEOREM OvertakingBounded == Spec => []BoundedOvertaking
<1>1. ExecutorInv => BoundedOvertaking
  <2> SUFFICES ASSUME ExecutorInv, NEW e \in Executors, NEW l \in Attached(e)
               PROVE  overtaken[e][l] < Len(taskLists[e])
    BY DEF BoundedOvertaking
  <2>1. taskLists[e] \in Seq(Lists) /\ nextIdx[e] \in Nat
    BY DEF ExecutorInv, TypeOK
  <2>2. PICK j \in 1..Len(taskLists[e]) : taskLists[e][j] = l
    BY <2>1 DEF Attached, ToSet
  <2>3. PICK n \in Nat \ {0}, p \in Nat, i \in Nat :
          n = Len(taskLists[e]) /\ p = j - 1 /\ i = nextIdx[e] /\ p < n
    <3>1. /\ Len(taskLists[e]) \in Nat \ {0} /\ j - 1 \in Nat
          /\ j - 1 < Len(taskLists[e])
      BY <2>1, <2>2
    <3>2. QED
      BY <2>1, <3>1
  <2>4. PICK o \in 0..n - 1 : (o + i) % n = p
    <3>1. p \in 0..n - 1
      BY <2>3
    <3>2. QED
      BY <3>1, OffsetOf
  <2>5. o \in Offsets(e) /\ p + 1 = j
    BY <2>3 DEF Offsets
  <2>6. ListAt(e, o) = l
    BY <2>2, <2>3, <2>4, <2>5 DEF ListAt
  <2>7. overtaken[e][l] \in Nat /\ o \in Nat /\ scanned[e] \in Nat
    BY <2>5, <2>6, OffsetsAre DEF ExecutorInv
  <2>8. Due(e)
    BY DEF ExecutorInv, OvertakenInv
  <2>9. CASE pc[e] # "run"
    BY <2>3, <2>5, <2>6, <2>7, <2>8, <2>9 DEF Due
  <2>10. CASE pc[e] = "run"
    <3>1. scanned[e] \in 0..n - 1
      BY <2>3, <2>10 DEF ExecutorInv, ScanInv, Offsets
    <3>2. IF o > scanned[e]
          THEN overtaken[e][l] + o - scanned[e] <= n
          ELSE overtaken[e][l] + o <= scanned[e]
      BY <2>3, <2>5, <2>6, <2>8, <2>10 DEF Due
    <3>3. QED
      BY <2>3, <2>7, <3>1, <3>2
  <2>11. QED
    BY <2>9, <2>10
<1>2. QED
  BY <1>1, ExecutorInvariant, PTL

=============================================================================
