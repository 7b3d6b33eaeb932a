----------------------- MODULE ClientConnectionProofs -----------------------
(***************************************************************************)
(* Proofs about module ClientConnection, for any set of messages: its      *)
(* safety invariants and what a step may do.                               *)
(*                                                                         *)
(* The proofs never look into a list of accesses: the lists there are have *)
(* names, and ListFacts says how they continue.                            *)
(***************************************************************************)
EXTENDS ClientConnection, TLAPS

(* The lists of accesses there are, by how they begin and how far they go. *)
TestOn     == <<"test", "resolve", "clear", "state">>
ResolveOn  == <<"resolve", "clear", "state">>
ClearOn    == <<"clear", "state">>
StateOn    == <<"state", "resolve", "clear">>
TellOn     == <<"tell", "resolve", "clear">>
ResolveEnd == <<"resolve", "clear">>
ClearEnd   == <<"clear">>
StateEnd   == <<"state">>
TellEnd    == <<"tell">>
StoreOn    == <<"store", "resolve", "clear">>
StoreEnd   == <<"store">>
Nothing    == <<>>

Lists == {TestOn, ResolveOn, ClearOn, StateOn, TellOn, StoreOn, ResolveEnd,
          ClearEnd, StateEnd, TellEnd, StoreEnd, Nothing}

Jobs == [todo : Lists, to : States \ {"New"}, value : {"connected", "failed"}]

(* build_net_client has stored the promise of connect.                     *)
Stored == connector \in {"stored", "registered", "returned"}

(* The handler of the connection's end is past the promise, ...            *)
WsCleared ==
  socket = "closed" /\ job["ws"].todo \in {StateEnd, TellEnd, StoreEnd,
                                           Nothing}

(* ... has set state_, ...                                                 *)
WsSet == socket = "closed" /\ job["ws"].todo \in {TellEnd, StoreEnd, Nothing}

(* ... and is done.                                                        *)
WsDone == socket = "closed" /\ job["ws"].todo = Nothing

(* The task of the answer has yet to resolve the promise.                  *)
Resolves == job[Answer].todo \in {StateOn, TellOn, StoreOn, ResolveEnd}

(* Which thread may be in which list, and why.                             *)
JobInv ==
  /\ job \in [Threads -> Jobs]
  /\ job["ws"].todo \in {TestOn, ResolveOn, ClearOn, StateEnd, TellEnd,
                         StoreEnd, Nothing}
  /\ job["failure"].todo \in {StateEnd, TellEnd, StoreEnd, Nothing}
  /\ \A g \in Games : job[g].todo \in {StateEnd, TellEnd, StoreEnd, Nothing}
  /\ IF answer = "foreign"
     THEN job[Answer].todo \in {StateEnd, TellEnd, StoreEnd, Nothing}
     ELSE job[Answer].todo \in {StateOn, TellOn, StoreOn, ResolveEnd,
                                ClearEnd, Nothing}
  /\ \A t \in Threads :
       /\ job[t].to = "Healthy" => t = Answer /\ answer = "accepted"
       /\ job[t].value = "connected" <=> job[t].to = "Healthy"
       /\ job[t].to = "None" => t = "ws" \/ job[t].todo = Nothing
  /\ \A g \in Games : job[g].todo # Nothing => answer = "foreign"
  /\ \A m \in Messages : at[m] # "parsed" => job[m] = Idle
  /\ job["failure"].todo # Nothing => Stored
  /\ result = "connected" =>
       job[Answer].to = "Healthy" /\ job[Answer].todo \in {ClearEnd, Nothing}

(* What has happened before the socket is open, or closed.                 *)
SocketInv ==
  /\ socket = "none" <=> connector \in {"request", "noserver", "failed"}
  /\ socket \in {"none", "opening"} =>
       /\ state = "None" /\ net = "Disconnected"
       /\ \A m \in Messages : at[m] = "server"
  /\ socket # "closed" => job["ws"] = Idle
  /\ at[Answer] = "server" <=> answer = "none"
  /\ job["ws"].to = "Misconfigured" => answer = "none"

(* Who has forgotten the promise, and who gave it its value.               *)
PromiseInv ==
  /\ hook => Stored
  /\ job["ws"].todo \in {ResolveOn, ClearOn} => Stored
  /\ Stored /\ ~hook =>
       \/ WsCleared
       \/ job[Answer].to # "None" /\ job[Answer].todo = Nothing
            /\ answer # "foreign"
  /\ WsCleared /\ ~missed => Stored /\ ~hook
  /\ result # "pending" => Stored
  /\ result = "failed" =>
       \/ job[Answer].to = "Misconfigured"
       \/ socket = "closed"
            /\ job["ws"].todo \in {ClearOn, StateEnd, TellEnd, StoreEnd,
                                   Nothing}
  /\ job["failure"].todo # Nothing => result = "failed"

(* What WsClient and the game believe.  Once the handler of the end has    *)
(* set state_, only the task of an answer can make it healthy again, and   *)
(* that one then crashes, for there is no promise to resolve.              *)
BeliefInv ==
  /\ state = "Healthy" =>
       job[Answer].to = "Healthy" /\ job[Answer].todo # StateOn
  /\ net = "Basic" =>
       /\ job[Answer].to = "Healthy"
       /\ job[Answer].todo \in {ResolveEnd, ClearEnd, Nothing}
  /\ socket = "open" => state # "None"
  /\ socket = "closed" /\ job["ws"].to = "None" /\ ~WsSet => state # "None"
  /\ job[Answer].to = "Healthy" /\ job[Answer].todo # StateOn /\ ~WsSet
       /\ result # "failed" =>
       state = "Healthy"
          /\ (job[Answer].todo \notin {TellOn, StoreOn} => net = "Basic")
  /\ WsSet => state # "New"
  /\ WsSet /\ ~missed => Resolves \/ state # "Healthy"
  /\ WsDone /\ ~missed => Resolves \/ net # "Basic"

(* The scene follows the promise.                                          *)
SceneMeansConnected == scene # "startup" => result = "connected"

ConnectionInv ==
  /\ TypeOK /\ SceneMeansConnected /\ JobInv /\ SocketInv
  /\ ~crashed => PromiseInv /\ BeliefInv

-----------------------------------------------------------------------------
(* Lists and jobs *)

(* What each list does next and what it leaves; a state that changes is    *)
(* told before the list goes on.                                           *)
LEMMA ListFacts ==
  /\ Head(TestOn) = "test" /\ Tail(TestOn) = ResolveOn
  /\ Head(ResolveOn) = "resolve" /\ Tail(ResolveOn) = ClearOn
  /\ Head(ClearOn) = "clear" /\ Tail(ClearOn) = StateEnd
  /\ Head(StateOn) = "state" /\ Tail(StateOn) = ResolveEnd
  /\ Head(TellOn) = "tell" /\ Tail(TellOn) = ResolveEnd
  /\ Head(ResolveEnd) = "resolve" /\ Tail(ResolveEnd) = ClearEnd
  /\ Head(ClearEnd) = "clear" /\ Tail(ClearEnd) = Nothing
  /\ Head(StateEnd) = "state" /\ Tail(StateEnd) = Nothing
  /\ Head(TellEnd) = "tell" /\ Tail(TellEnd) = Nothing
  /\ [StateOn EXCEPT ![1] = "tell"] = TellOn
  /\ [StateEnd EXCEPT ![1] = "tell"] = TellEnd
  /\ Head(StoreOn) = "store" /\ Tail(StoreOn) = ResolveEnd
  /\ Head(StoreEnd) = "store" /\ Tail(StoreEnd) = Nothing
  /\ [TellOn EXCEPT ![1] = "store"] = StoreOn
  /\ [TellEnd EXCEPT ![1] = "store"] = StoreEnd
<1> USE DEF TestOn, ResolveOn, ClearOn, StateOn, TellOn, StoreOn, ResolveEnd,
            ClearEnd, StateEnd, TellEnd, StoreEnd, Nothing
<1>1. /\ Head(TestOn) = "test" /\ Tail(TestOn) = ResolveOn
      /\ Head(ResolveOn) = "resolve" /\ Tail(ResolveOn) = ClearOn
      /\ Head(ClearOn) = "clear" /\ Tail(ClearOn) = StateEnd
  OBVIOUS
<1>2. /\ Head(StateOn) = "state" /\ Tail(StateOn) = ResolveEnd
      /\ Head(TellOn) = "tell" /\ Tail(TellOn) = ResolveEnd
      /\ Head(ResolveEnd) = "resolve" /\ Tail(ResolveEnd) = ClearEnd
  OBVIOUS
<1>3. /\ Head(ClearEnd) = "clear" /\ Tail(ClearEnd) = Nothing
      /\ Head(StateEnd) = "state" /\ Tail(StateEnd) = Nothing
      /\ Head(TellEnd) = "tell" /\ Tail(TellEnd) = Nothing
  OBVIOUS
<1>4. [StateOn EXCEPT ![1] = "tell"] = TellOn
  OBVIOUS
<1>5. [StateEnd EXCEPT ![1] = "tell"] = TellEnd
  OBVIOUS
<1>6. /\ Head(StoreOn) = "store" /\ Tail(StoreOn) = ResolveEnd
      /\ Head(StoreEnd) = "store" /\ Tail(StoreEnd) = Nothing
  OBVIOUS
<1>7. [TellOn EXCEPT ![1] = "store"] = StoreOn
  OBVIOUS
<1>8. [TellEnd EXCEPT ![1] = "store"] = StoreEnd
  OBVIOUS
<1>9. QED
  BY <1>1, <1>2, <1>3, <1>4, <1>5, <1>6, <1>7, <1>8

LEMMA ListsShort == \A L \in Lists : Len(L) =< 4
<1>1. /\ Len(TestOn) = 4 /\ Len(ResolveOn) = 3 /\ Len(ClearOn) = 2
      /\ Len(StateOn) = 3 /\ Len(TellOn) = 3 /\ Len(ResolveEnd) = 2
      /\ Len(ClearEnd) = 1 /\ Len(StateEnd) = 1 /\ Len(TellEnd) = 1
      /\ Len(StoreOn) = 3 /\ Len(StoreEnd) = 1 /\ Len(Nothing) = 0
  BY DEF TestOn, ResolveOn, ClearOn, StateOn, TellOn, StoreOn, ResolveEnd,
         ClearEnd, StateEnd, TellEnd, StoreEnd, Nothing
<1>2. \A L \in Lists : Len(L) \in {0, 1, 2, 3, 4}
  BY ONLY <1>1 DEF Lists
<1>3. \A n \in {0, 1, 2, 3, 4} : n =< 4
  OBVIOUS
<1>4. QED
  BY ONLY <1>2, <1>3

(* No two of them are the same. *)
LEMMA ListsDiffer ==
  /\ {StoreOn, StoreEnd} \cap {TestOn, ResolveOn, ResolveEnd, ClearOn,
                               ClearEnd, StateOn, StateEnd, TellOn,
                               TellEnd} = {}
  /\ StoreOn # StoreEnd
  /\ Nothing \notin {TestOn, ResolveOn, ClearOn, StateOn, TellOn, StoreOn,
                     ResolveEnd, ClearEnd, StateEnd, TellEnd, StoreEnd}
  /\ {ResolveOn, ResolveEnd}
       \cap {TestOn, ClearOn, ClearEnd, StateOn, StateEnd, TellOn, StoreOn,
             TellEnd, StoreEnd}
       = {}
  /\ {ClearOn, ClearEnd} \cap {TestOn, StateOn, StateEnd, TellOn, StoreOn,
                              TellEnd, StoreEnd} = {}
  /\ {StateOn, StateEnd} \cap {TestOn, TellOn, StoreOn, TellEnd, StoreEnd} = {}
  /\ TestOn \notin {TellOn, StoreOn, TellEnd, StoreEnd}
  /\ ResolveOn # ResolveEnd /\ ClearOn # ClearEnd
  /\ StateOn # StateEnd /\ TellOn # TellEnd
<1>1. Nothing \notin {TestOn, ResolveOn, ClearOn, StateOn, TellOn, StoreOn,
                      ResolveEnd, ClearEnd, StateEnd, TellEnd, StoreEnd}
  BY DEF TestOn, ResolveOn, ClearOn, StateOn, TellOn, StoreOn, ResolveEnd,
         ClearEnd, StateEnd, TellEnd, StoreEnd, Nothing
<1>2. /\ ClearOn # ClearEnd /\ StateOn # StateEnd /\ TellOn # TellEnd
      /\ StoreOn # StoreEnd
  <2>1. /\ Tail(ClearOn) = StateEnd /\ Tail(ClearEnd) = Nothing
        /\ Tail(StateOn) = ResolveEnd /\ Tail(StateEnd) = Nothing
        /\ Tail(TellOn) = ResolveEnd /\ Tail(TellEnd) = Nothing
        /\ Tail(StoreOn) = ResolveEnd /\ Tail(StoreEnd) = Nothing
    BY ListFacts
  <2>2. QED
    BY ONLY <1>1, <2>1
<1>3. ResolveOn # ResolveEnd
  <2>1. Tail(ResolveOn) = ClearOn /\ Tail(ResolveEnd) = ClearEnd
    BY ListFacts
  <2>2. QED
    BY ONLY <1>2, <2>1
<1>4. /\ {ResolveOn, ResolveEnd} \cap {TestOn, ClearOn, ClearEnd, StateOn,
                                      StateEnd, TellOn, StoreOn, TellEnd,
                                      StoreEnd} = {}
      /\ {ClearOn, ClearEnd}
           \cap {TestOn, StateOn, StateEnd, TellOn, StoreOn, TellEnd,
                 StoreEnd} = {}
      /\ {StateOn, StateEnd}
           \cap {TestOn, TellOn, StoreOn, TellEnd, StoreEnd} = {}
      /\ TestOn \notin {TellOn, StoreOn, TellEnd, StoreEnd}
  BY ONLY ListFacts
<1>5. {StoreOn, StoreEnd} \cap {TestOn, ResolveOn, ResolveEnd, ClearOn,
                               ClearEnd, StateOn, StateEnd, TellOn, TellEnd}
        = {}
  BY ONLY ListFacts
<1>6. QED
  BY ONLY <1>1, <1>2, <1>3, <1>4, <1>5

(* A step of job t that leaves it the list L.                              *)
Moves(t, L) ==
  /\ job' \in [Threads -> Jobs]
  /\ job'[t].todo = L
  /\ job'[t].to = job[t].to /\ job'[t].value = job[t].value
  /\ \A u \in Threads \ {t} : job'[u] = job[u]

(* Thread t is given a job.                                                *)
Starts(t, L, to, value) ==
  /\ job' \in [Threads -> Jobs]
  /\ job'[t] = Job(L, to, value)
  /\ \A u \in Threads \ {t} : job'[u] = job[u]

LEMMA ThreadFacts ==
  /\ Answer \in Threads /\ "ws" \in Threads /\ "failure" \in Threads
  /\ Games \subseteq Threads /\ Answer \in Messages /\ Games \subseteq Messages
  /\ Messages \subseteq Threads
  /\ Answer # "ws" /\ Answer # "failure" /\ "ws" # "failure"
  /\ "ws" \notin Messages /\ "failure" \notin Messages /\ Answer \notin Games
  /\ \A t \in Threads : t \in Games \/ t = Answer \/ t = "ws" \/ t = "failure"
BY ConnectionAssumption DEF Threads, Messages

LEMMA IdleFacts == Idle \in Jobs /\ Idle.todo = Nothing /\ Idle.to = "None"
                     /\ Idle.value = "failed"
BY DEF Idle, Jobs, Lists, Nothing, States

LEMMA RestMoves ==
  ASSUME JobInv, NEW t \in Threads, NEW L \in Lists,
         job' = [job EXCEPT ![t].todo = L]
  PROVE  Moves(t, L)
BY DEF JobInv, Moves, Jobs

LEMMA JobStarts ==
  ASSUME JobInv, NEW t \in Threads, NEW L \in Lists,
         NEW to \in States \ {"New"}, NEW value \in {"connected", "failed"},
         job' = [job EXCEPT ![t] = Job(L, to, value)]
  PROVE  Starts(t, L, to, value)
BY DEF JobInv, Starts, Jobs, Job

(* Which lists each step of a job finds, and what it leaves.               *)
LEMMA JobLists ==
  ASSUME JobInv, NEW t \in Threads
  PROVE  /\ job[t].todo \in Lists
         /\ job[t].todo \in {TestOn, ResolveOn, ClearOn} => t = "ws"
         /\ job[t].todo \in {StateOn, TellOn, StoreOn, ResolveEnd, ClearEnd} =>
              t = Answer /\ answer # "foreign"
<1>1. job[t].todo \in Lists
  BY DEF JobInv, Jobs
<1>2. CASE t \in Games \cup {"failure"}
  <2>1. job[t].todo \in {StateEnd, TellEnd, StoreEnd, Nothing}
    BY <1>2 DEF JobInv
  <2>2. QED
    BY <1>1, <2>1, ListsDiffer
<1>3. CASE t = "ws"
  <2>1. job[t].todo \in {TestOn, ResolveOn, ClearOn, StateEnd, TellEnd,
                         StoreEnd, Nothing}
    BY <1>3 DEF JobInv
  <2>2. QED
    BY <1>1, <1>3, <2>1, ListsDiffer
<1>4. CASE t = Answer
  <2>1. IF answer = "foreign"
        THEN job[t].todo \in {StateEnd, TellEnd, StoreEnd, Nothing}
        ELSE job[t].todo \in {StateOn, TellOn, StoreOn, ResolveEnd, ClearEnd,
                              Nothing}
    BY <1>4 DEF JobInv
  <2>2. QED
    BY <1>1, <1>4, <2>1, ListsDiffer
<1>5. QED
  BY <1>2, <1>3, <1>4, ThreadFacts

LEMMA TestMoves ==
  ASSUME JobInv, NEW t \in Threads, Test(t)
  PROVE  /\ t = "ws" /\ job["ws"].todo = TestOn
         /\ hook => Moves("ws", ResolveOn)
         /\ ~hook => Moves("ws", StateEnd)
<1>1. job[t].todo \in Lists /\ job[t].todo # Nothing
        /\ Head(job[t].todo) = "test"
  BY JobLists DEF Test, Does, Busy, Nothing
<1>2. job[t].todo = TestOn
  BY <1>1, ListFacts DEF Lists
<1>3. t = "ws"
  BY <1>2, JobLists
<1>4. job' = [job EXCEPT ![t].todo = IF hook THEN ResolveOn ELSE StateEnd]
  BY <1>2, ListFacts DEF Test, Rest, StateEnd
<1>5. ASSUME hook PROVE Moves("ws", ResolveOn)
  <2>1. job' = [job EXCEPT ![t].todo = ResolveOn]
    BY <1>4, <1>5
  <2>2. ResolveOn \in Lists
    BY DEF Lists
  <2>3. Moves(t, ResolveOn)
    BY <2>1, <2>2, RestMoves
  <2>4. QED
    BY <1>3, <2>3
<1>6. ASSUME ~hook PROVE Moves("ws", StateEnd)
  <2>1. job' = [job EXCEPT ![t].todo = StateEnd]
    BY <1>4, <1>6
  <2>2. StateEnd \in Lists
    BY DEF Lists
  <2>3. Moves(t, StateEnd)
    BY <2>1, <2>2, RestMoves
  <2>4. QED
    BY <1>3, <2>3
<1>7. QED
  BY <1>2, <1>3, <1>5, <1>6

LEMMA ResolveMoves ==
  ASSUME JobInv, NEW t \in Threads, Resolve(t)
  PROVE  \/ t = "ws" /\ job[t].todo = ResolveOn /\ Moves(t, ClearOn)
         \/ /\ t = Answer /\ job[t].todo = ResolveEnd /\ Moves(t, ClearEnd)
            /\ answer # "foreign"
<1>1. job[t].todo \in Lists /\ job[t].todo # Nothing
        /\ Head(job[t].todo) = "resolve"
  BY JobLists DEF Resolve, Does, Busy, Nothing
<1>2. job[t].todo \in {ResolveOn, ResolveEnd}
  BY <1>1, ListFacts DEF Lists
<1>3. job' = [job EXCEPT ![t].todo = Tail(job[t].todo)]
  BY DEF Resolve, Done, Rest
<1>4. Tail(job[t].todo) \in Lists
  BY <1>2, ListFacts DEF Lists
<1>5. Moves(t, Tail(job[t].todo))
  BY <1>3, <1>4, RestMoves
<1>6. QED
  BY <1>2, <1>5, ListFacts, JobLists

LEMMA ClearMoves ==
  ASSUME JobInv, NEW t \in Threads, Clear(t)
  PROVE  \/ t = "ws" /\ job[t].todo = ClearOn /\ Moves(t, StateEnd)
         \/ /\ t = Answer /\ job[t].todo = ClearEnd /\ Moves(t, Nothing)
            /\ answer # "foreign"
<1>1. job[t].todo \in Lists /\ job[t].todo # Nothing
        /\ Head(job[t].todo) = "clear"
  BY JobLists DEF Clear, Does, Busy, Nothing
<1>2. job[t].todo \in {ClearOn, ClearEnd}
  BY <1>1, ListFacts DEF Lists
<1>3. job' = [job EXCEPT ![t].todo = Tail(job[t].todo)]
  BY DEF Clear, Done, Rest
<1>4. Tail(job[t].todo) \in Lists
  BY <1>2, ListFacts DEF Lists
<1>5. Moves(t, Tail(job[t].todo))
  BY <1>3, <1>4, RestMoves
<1>6. QED
  BY <1>2, <1>5, ListFacts, JobLists

(* What NetClient makes of the states.                                     *)
LEMMA ToldFacts ==
  /\ Told("Healthy") = "Basic" /\ Told("Misconfigured") = "Malformed"
  /\ Told("None") = "Disconnected" /\ Told("New") = "Disconnected"
  /\ \A s \in States :
       /\ Told(s) \in {"Disconnected", "Basic", "Malformed"}
       /\ Told(s) = "Basic" <=> s = "Healthy"
BY DEF Told, States

(* A state that is not new is not told. *)
LEMMA SetStateMoves ==
  ASSUME JobInv, NEW t \in Threads, SetState(t)
  PROVE  \/ /\ job[t].todo = StateEnd
            /\ \/ state = job[t].to /\ Moves(t, Nothing)
               \/ state # job[t].to /\ Moves(t, TellEnd)
         \/ /\ t = Answer /\ job[t].todo = StateOn /\ answer # "foreign"
            /\ \/ state = job[t].to /\ Moves(t, ResolveEnd)
               \/ state # job[t].to /\ Moves(t, TellOn)
<1>1. job[t].todo \in Lists /\ job[t].todo # Nothing
        /\ Head(job[t].todo) = "state"
  BY JobLists DEF SetState, Does, Busy, Nothing
<1>2. job[t].todo \in {StateEnd, StateOn}
  BY <1>1, ListFacts DEF Lists
<1> DEFINE L == IF state = job[t].to THEN Tail(job[t].todo)
                ELSE [job[t].todo EXCEPT ![1] = "tell"]
<1>3. job' = [job EXCEPT ![t].todo = L]
  BY DEF SetState, Rest
<1>4. /\ job[t].todo = StateEnd =>
           L = IF state = job[t].to THEN Nothing ELSE TellEnd
      /\ job[t].todo = StateOn =>
           L = IF state = job[t].to THEN ResolveEnd ELSE TellOn
  BY ListFacts
<1>5. L \in Lists
  BY <1>2, <1>4 DEF Lists
<1> HIDE DEF L
<1>6. Moves(t, L)
  BY <1>3, <1>5, RestMoves
<1>7. job[t].todo = StateOn => t = Answer /\ answer # "foreign"
  BY JobLists
<1>8. QED
  BY <1>2, <1>4, <1>6, <1>7

(* ... nor stored. *)
LEMMA TellMoves ==
  ASSUME JobInv, NEW t \in Threads, Tell(t)
  PROVE  \/ /\ job[t].todo = TellEnd
            /\ \/ net = Told(job[t].to) /\ Moves(t, Nothing)
               \/ net # Told(job[t].to) /\ Moves(t, StoreEnd)
         \/ /\ t = Answer /\ job[t].todo = TellOn /\ answer # "foreign"
            /\ \/ net = Told(job[t].to) /\ Moves(t, ResolveEnd)
               \/ net # Told(job[t].to) /\ Moves(t, StoreOn)
<1>1. job[t].todo \in Lists /\ job[t].todo # Nothing
        /\ Head(job[t].todo) = "tell"
  BY JobLists DEF Tell, Does, Busy, Nothing
<1>2. job[t].todo \in {TellEnd, TellOn}
  BY <1>1, ListFacts DEF Lists
<1> DEFINE L == IF net = Told(job[t].to) THEN Tail(job[t].todo)
                ELSE [job[t].todo EXCEPT ![1] = "store"]
<1>3. job' = [job EXCEPT ![t].todo = L]
  BY DEF Tell, Rest
<1>4. /\ job[t].todo = TellEnd =>
           L = IF net = Told(job[t].to) THEN Nothing ELSE StoreEnd
      /\ job[t].todo = TellOn =>
           L = IF net = Told(job[t].to) THEN ResolveEnd ELSE StoreOn
  <2>1. /\ Tail(TellEnd) = Nothing /\ Tail(TellOn) = ResolveEnd
        /\ [TellEnd EXCEPT ![1] = "store"] = StoreEnd
        /\ [TellOn EXCEPT ![1] = "store"] = StoreOn
    BY ListFacts
  <2>2. L = IF net = Told(job[t].to) THEN Tail(job[t].todo)
            ELSE [job[t].todo EXCEPT ![1] = "store"]
    OBVIOUS
  <2> HIDE DEF L
  <2>3. ASSUME job[t].todo = TellEnd
        PROVE  L = IF net = Told(job[t].to) THEN Nothing ELSE StoreEnd
    BY ONLY <2>1, <2>2, <2>3, Zenon
  <2>4. ASSUME job[t].todo = TellOn
        PROVE  L = IF net = Told(job[t].to) THEN ResolveEnd ELSE StoreOn
    BY ONLY <2>1, <2>2, <2>4, Zenon
  <2>5. QED
    BY <2>3, <2>4
<1>5. L \in Lists
  BY <1>2, <1>4 DEF Lists
<1> HIDE DEF L
<1>6. Moves(t, L)
  BY <1>3, <1>5, RestMoves
<1>7. job[t].todo = TellOn => t = Answer /\ answer # "foreign"
  BY JobLists
<1>8. QED
  BY <1>2, <1>4, <1>6, <1>7

LEMMA StoreMoves ==
  ASSUME JobInv, NEW t \in Threads, Store(t)
  PROVE  \/ job[t].todo = StoreEnd /\ Moves(t, Nothing)
         \/ /\ t = Answer /\ job[t].todo = StoreOn /\ Moves(t, ResolveEnd)
            /\ answer # "foreign"
<1>1. job[t].todo \in Lists /\ job[t].todo # Nothing
        /\ Head(job[t].todo) = "store"
  BY JobLists DEF Store, Does, Busy, Nothing
<1>2. job[t].todo \in {StoreEnd, StoreEnd, StoreOn, StoreOn}
  BY <1>1, ListFacts DEF Lists
<1>3. job' = [job EXCEPT ![t].todo = Tail(job[t].todo)]
  BY DEF Store, Done, Rest
<1>4. Tail(job[t].todo) \in Lists
  BY <1>2, ListFacts DEF Lists
<1>5. Moves(t, Tail(job[t].todo))
  BY <1>3, <1>4, RestMoves
<1>6. CASE job[t].todo = StoreEnd
  BY <1>5, <1>6, ListFacts
<1>7. CASE job[t].todo = StoreOn
  BY <1>5, <1>7, ListFacts, JobLists
<1>8. QED
  BY <1>2, <1>6, <1>7

LEMMA FailStarts ==
  ASSUME JobInv, NEW to \in {"Misconfigured", "None"}, Fails(to)
  PROVE  Starts("ws", TestOn, to, "failed")
<1>1. job' = [job EXCEPT !["ws"] = Job(TestOn, to, "failed")]
  BY DEF Fails, TestOn
<1>2. TestOn \in Lists /\ to \in States \ {"New"}
  BY DEF Lists, States
<1>3. QED
  BY <1>1, <1>2, JobStarts, ThreadFacts

LEMMA ForeignStarts ==
  ASSUME JobInv, NEW m \in Messages, ParseForeign(m)
  PROVE  Starts(m, StateEnd, "Misconfigured", "failed")
<1>1. job' = [job EXCEPT ![m] = Job(StateEnd, "Misconfigured", "failed")]
  BY DEF ParseForeign, StateEnd
<1>2. StateEnd \in Lists /\ "Misconfigured" \in States \ {"New"}
  BY DEF Lists, States
<1>3. QED
  BY <1>1, <1>2, JobStarts, ThreadFacts

LEMMA CallbackStarts ==
  ASSUME JobInv, FailureCallback
  PROVE  Starts("failure", StateEnd, "Misconfigured", "failed")
<1>1. job' = [job EXCEPT !["failure"] =
                Job(StateEnd, "Misconfigured", "failed")]
  BY DEF FailureCallback, StateEnd
<1>2. StateEnd \in Lists /\ "Misconfigured" \in States \ {"New"}
  BY DEF Lists, States
<1>3. QED
  BY <1>1, <1>2, JobStarts, ThreadFacts

LEMMA AnswerStarts ==
  ASSUME JobInv, ParseAnswer
  PROVE  IF answer = "accepted"
         THEN Starts(Answer, StateOn, "Healthy", "connected")
         ELSE Starts(Answer, StateOn, "Misconfigured", "failed")
<1>1. /\ StateOn \in Lists
      /\ {"Healthy", "Misconfigured"} \subseteq States \ {"New"}
  BY DEF Lists, States
<1>2. CASE answer = "accepted"
  <2>1. job' = [job EXCEPT ![Answer] = Job(StateOn, "Healthy", "connected")]
    BY <1>2 DEF ParseAnswer, StateOn
  <2>2. QED
    BY <1>1, <1>2, <2>1, JobStarts, ThreadFacts
<1>3. CASE answer # "accepted"
  <2>1. job' = [job EXCEPT ![Answer] = Job(StateOn, "Misconfigured", "failed")]
    BY <1>3 DEF ParseAnswer, StateOn
  <2>2. QED
    BY <1>1, <1>3, <2>1, JobStarts, ThreadFacts
<1>4. QED
  BY <1>2, <1>3

-----------------------------------------------------------------------------
(* The invariant *)

LEMMA ConnectionInvInit == Init => ConnectionInv
<1> SUFFICES ASSUME Init PROVE ConnectionInv
  OBVIOUS
<1> USE ThreadFacts, IdleFacts, ListsDiffer
<1>1. job \in [Threads -> Jobs] /\ \A t \in Threads : job[t] = Idle
  BY DEF Init
<1>2. JobInv
  BY <1>1 DEF Init, JobInv, Stored
<1>3. SocketInv
  BY <1>1 DEF Init, SocketInv
<1>4. PromiseInv
  BY <1>1 DEF Init, PromiseInv, Stored, WsCleared
<1>5. BeliefInv
  BY <1>1 DEF Init, BeliefInv, WsSet, WsDone
<1>6. TypeOK
  <2>1. Quiet /\ \A t \in Threads : TypedJob(t)
    BY <1>1, ListFacts DEF Quiet, Busy, TypedJob, Nothing, States
  <2>2. QED
    BY <2>1 DEF Init, TypeOK, States, Messages
<1>7. QED
  BY <1>2, <1>3, <1>4, <1>5, <1>6
     DEF Init, ConnectionInv, SceneMeansConnected

(* A step of a job to a list its thread may be in keeps what is known of   *)
(* the jobs.                                                               *)
LEMMA MovesKeepJobs ==
  ASSUME JobInv, NEW t \in Threads, NEW L, Moves(t, L),
         job[t].todo # Nothing,
         \/ t = "ws" /\ L \in {ResolveOn, ClearOn, StateEnd}
         \/ /\ t = Answer /\ answer # "foreign"
            /\ L \in {TellOn, StoreOn, ResolveEnd, ClearEnd, Nothing}
         \/ job[t].todo \in {StateEnd, TellEnd, StoreEnd}
            /\ L \in {TellEnd, StoreEnd, Nothing},
         UNCHANGED <<answer, at, connector>>,
         result' = "connected" =>
           /\ job'[Answer].to = "Healthy"
           /\ job'[Answer].todo \in {ClearEnd, Nothing}
  PROVE  JobInv'
<1> USE ThreadFacts, IdleFacts, ListsDiffer DEF JobInv, Moves, Stored
<1>1. job' \in [Threads -> Jobs]
  OBVIOUS
<1>2. job'["ws"].todo \in {TestOn, ResolveOn, ClearOn, StateEnd, TellEnd,
                           StoreEnd, Nothing}
  OBVIOUS
<1>3. job'["failure"].todo \in {StateEnd, TellEnd, StoreEnd, Nothing}
  OBVIOUS
<1>4. \A g \in Games : job'[g].todo \in {StateEnd, TellEnd, StoreEnd, Nothing}
  OBVIOUS
<1>5. IF answer = "foreign"
      THEN job'[Answer].todo \in {StateEnd, TellEnd, StoreEnd, Nothing}
      ELSE job'[Answer].todo \in {StateOn, TellOn, StoreOn, ResolveEnd,
                                  ClearEnd, Nothing}
  <2>1. CASE t # Answer
    BY <2>1
  <2>2. CASE t = Answer /\ answer # "foreign"
    BY <2>2
  <2>3. CASE t = Answer /\ job[t].todo \in {StateEnd, TellEnd, StoreEnd}
    BY <2>3
  <2>4. QED
    BY <2>1, <2>2, <2>3
<1>6. \A u \in Threads :
        /\ job'[u].to = "Healthy" => u = Answer /\ answer = "accepted"
        /\ job'[u].value = "connected" <=> job'[u].to = "Healthy"
        /\ job'[u].to = "None" => u = "ws" \/ job'[u].todo = Nothing
  OBVIOUS
<1>7. \A g \in Games : job'[g].todo # Nothing => answer = "foreign"
  OBVIOUS
<1>8. \A m \in Messages : at[m] # "parsed" => job'[m] = Idle
  OBVIOUS
<1>9. job'["failure"].todo # Nothing => Stored
  OBVIOUS
<1>10. QED
  BY <1>1, <1>2, <1>3, <1>4, <1>5, <1>6, <1>7, <1>8, <1>9

(* Jobs stay in their lists.                                               *)
LEMMA JobKept ==
  ASSUME ConnectionInv, ~crashed, [Next]_vars
  PROVE  JobInv'
<1> USE ThreadFacts, IdleFacts, ListsDiffer
    DEF netVars, stateVars, sceneVars, ends
<1> JobInv /\ SocketInv /\ TypeOK
  BY DEF ConnectionInv
<1>1. CASE Connect
  BY <1>1 DEF Connect, FetchFails, BadAddress, InnerConnect, StoreHook,
         Register, Return, UseHook, Connects, JobInv, SocketInv,
         TypeOK, Stored, Starts, Moves, Job
<1>2. CASE OnOpen
  BY <1>2 DEF OnOpen, Handles, JobInv, SocketInv,
         TypeOK, Stored, Starts, Moves, Job
<1>3. CASE OnFail
  <2>1. Starts("ws", TestOn, "Misconfigured", "failed")
    BY <1>3, FailStarts DEF OnFail
  <2>2. QED
    BY <1>3, <2>1 DEF OnFail, Handles, Fails, JobInv, SocketInv,
         TypeOK, Stored, Starts, Moves, Job
<1>4. CASE OnClose
  <2>1. Starts("ws", TestOn, "None", "failed")
    BY <1>4, FailStarts DEF OnClose
  <2>2. QED
    BY <1>4, <2>1 DEF OnClose, Handles, Fails, JobInv, SocketInv,
         TypeOK, Stored, Starts, Moves, Job
<1>5. ASSUME NEW m \in Messages, OnMessage(m) PROVE JobInv'
  BY <1>5 DEF OnMessage, Handles, JobInv, SocketInv,
         TypeOK, Stored, Starts, Moves, Job
<1>6. ASSUME NEW m \in Messages, ParseForeign(m) PROVE JobInv'
  <2>1. Starts(m, StateEnd, "Misconfigured", "failed")
    BY <1>6, ForeignStarts
  <2>2. QED
    BY <1>6, <2>1 DEF ParseForeign, Takes, JobInv, SocketInv,
         TypeOK, Stored, Starts, Moves, Job
<1>7. CASE ParseAnswer
  <2>1. IF answer = "accepted"
        THEN Starts(Answer, StateOn, "Healthy", "connected")
        ELSE Starts(Answer, StateOn, "Misconfigured", "failed")
    BY <1>7, AnswerStarts
  <2>2. QED
    BY <1>7, <2>1 DEF ParseAnswer, Takes, JobInv, SocketInv,
         TypeOK, Stored, Starts, Moves, Job
<1>8. ASSUME NEW m \in Messages, ParseGame(m) PROVE JobInv'
  BY <1>8 DEF ParseGame, Takes, JobInv, SocketInv,
         TypeOK, Stored, Starts, Moves, Job
<1>9. ASSUME NEW m \in Messages, Skip(m) PROVE JobInv'
  BY <1>9 DEF Skip, Takes, JobInv, SocketInv,
         TypeOK, Stored, Starts, Moves, Job
<1>10. CASE SendRequest
  BY <1>10 DEF SendRequest, JobInv, SocketInv,
         TypeOK, Stored, Starts, Moves, Job
<1>11. CASE FailureCallback
  <2>1. Starts("failure", StateEnd, "Misconfigured", "failed")
    BY <1>11, CallbackStarts
  <2>2. QED
    BY <1>11, <2>1 DEF FailureCallback, JobInv, SocketInv,
         TypeOK, Stored, Starts, Moves, Job
<1>12. CASE CreateScene \/ SetScene
  BY <1>12 DEF CreateScene, SetScene, JobInv, SocketInv,
         TypeOK, Stored, Starts, Moves, Job
<1>13. ASSUME NEW t \in Threads, Test(t) PROVE JobInv'
  <2>1. /\ t = "ws" /\ job["ws"].todo = TestOn
        /\ hook => Moves("ws", ResolveOn)
        /\ ~hook => Moves("ws", StateEnd)
    BY <1>13, TestMoves
  <2>2. UNCHANGED <<answer, at, connector>>
    BY <1>13 DEF Test, Rest
  <2>3. result' = "connected" =>
          /\ job'[Answer].to = "Healthy"
          /\ job'[Answer].todo \in {ClearEnd, Nothing}
    BY <1>13, <2>1 DEF Test, JobInv, Moves, Jobs
  <2>4. QED
    BY <2>1, <2>2, <2>3, MovesKeepJobs
<1>14. ASSUME NEW t \in Threads, Resolve(t) PROVE JobInv'
  <2>1. \/ t = "ws" /\ job[t].todo = ResolveOn /\ Moves(t, ClearOn)
        \/ /\ t = Answer /\ job[t].todo = ResolveEnd /\ Moves(t, ClearEnd)
           /\ answer # "foreign"
    BY <1>14, ResolveMoves
  <2>2. UNCHANGED <<answer, at, connector>>
    BY <1>14 DEF Resolve, Done, Rest
  <2>3. result' = "connected" =>
          /\ job'[Answer].to = "Healthy"
          /\ job'[Answer].todo \in {ClearEnd, Nothing}
    BY <1>14, <2>1 DEF Resolve, JobInv, Moves, Jobs
  <2>4. QED
    BY <2>1, <2>2, <2>3, MovesKeepJobs
<1>15. ASSUME NEW t \in Threads, Clear(t) PROVE JobInv'
  <2>1. \/ t = "ws" /\ job[t].todo = ClearOn /\ Moves(t, StateEnd)
        \/ /\ t = Answer /\ job[t].todo = ClearEnd /\ Moves(t, Nothing)
           /\ answer # "foreign"
    BY <1>15, ClearMoves
  <2>2. UNCHANGED <<answer, at, connector>>
    BY <1>15 DEF Clear, Done, Rest
  <2>3. result' = "connected" =>
          /\ job'[Answer].to = "Healthy"
          /\ job'[Answer].todo \in {ClearEnd, Nothing}
    BY <1>15, <2>1 DEF Clear, JobInv, Moves, Jobs
  <2>4. QED
    BY <2>1, <2>2, <2>3, MovesKeepJobs
<1>16. ASSUME NEW t \in Threads, SetState(t) PROVE JobInv'
  <2>1. \/ /\ job[t].todo = StateEnd
           /\ \/ state = job[t].to /\ Moves(t, Nothing)
              \/ state # job[t].to /\ Moves(t, TellEnd)
        \/ /\ t = Answer /\ job[t].todo = StateOn /\ answer # "foreign"
           /\ \/ state = job[t].to /\ Moves(t, ResolveEnd)
              \/ state # job[t].to /\ Moves(t, TellOn)
    BY <1>16, SetStateMoves
  <2>2. UNCHANGED <<answer, at, connector>>
    BY <1>16 DEF SetState, Rest
  <2>3. result' = "connected" =>
          /\ job'[Answer].to = "Healthy"
          /\ job'[Answer].todo \in {ClearEnd, Nothing}
    BY <1>16, <2>1 DEF SetState, JobInv, Moves, Jobs
  <2>4. QED
    BY <2>1, <2>2, <2>3, MovesKeepJobs
<1>17. ASSUME NEW t \in Threads, Tell(t) PROVE JobInv'
  <2>1. \/ /\ job[t].todo = TellEnd
           /\ \/ net = Told(job[t].to) /\ Moves(t, Nothing)
              \/ net # Told(job[t].to) /\ Moves(t, StoreEnd)
        \/ /\ t = Answer /\ job[t].todo = TellOn /\ answer # "foreign"
           /\ \/ net = Told(job[t].to) /\ Moves(t, ResolveEnd)
              \/ net # Told(job[t].to) /\ Moves(t, StoreOn)
    BY <1>17, TellMoves
  <2>2. UNCHANGED <<answer, at, connector>>
    BY <1>17 DEF Tell, Rest
  <2>3. result' = "connected" =>
          /\ job'[Answer].to = "Healthy"
          /\ job'[Answer].todo \in {ClearEnd, Nothing}
    BY <1>17, <2>1 DEF Tell, JobInv, Moves, Jobs
  <2>4. QED
    BY <2>1, <2>2, <2>3, MovesKeepJobs
<1>18. ASSUME NEW t \in Threads, Store(t) PROVE JobInv'
  <2>1. \/ job[t].todo = StoreEnd /\ Moves(t, Nothing)
        \/ /\ t = Answer /\ job[t].todo = StoreOn /\ Moves(t, ResolveEnd)
           /\ answer # "foreign"
    BY <1>18, StoreMoves
  <2>2. UNCHANGED <<answer, at, connector>>
    BY <1>18 DEF Store, Done, Rest
  <2>3. result' = "connected" =>
          /\ job'[Answer].to = "Healthy"
          /\ job'[Answer].todo \in {ClearEnd, Nothing}
    BY <1>18, <2>1 DEF Store, JobInv, Moves, Jobs
  <2>4. QED
    BY <2>1, <2>2, <2>3, MovesKeepJobs
<1>19. CASE UNCHANGED vars
  BY <1>19 DEF vars, netVars, stateVars, sceneVars, ends, JobInv, SocketInv,
         TypeOK, Stored, Starts, Moves, Job
<1>20. QED
  BY <1>1, <1>2, <1>3, <1>4, <1>5, <1>6, <1>7, <1>8, <1>9, <1>10, <1>11,
     <1>12, <1>13, <1>14, <1>15, <1>16, <1>17, <1>18,
     <1>19
     DEF Next, Parse, Step, Finished

(* A job is only under way once the socket was open. *)
LEMMA BusyMeansOpened ==
  ASSUME ConnectionInv, ~crashed, NEW t \in Threads, job[t].todo # Nothing
  PROVE  socket \in {"open", "closed"}
<1> JobInv /\ SocketInv /\ TypeOK /\ PromiseInv
  BY DEF ConnectionInv
<1> SUFFICES ASSUME socket \in {"none", "opening"} PROVE FALSE
  BY DEF TypeOK
<1>1. /\ \A m \in Messages : job[m] = Idle
      /\ job["ws"] = Idle
  BY DEF JobInv, SocketInv
<1>2. t = "failure"
  BY <1>1, ThreadFacts, IdleFacts
<1>3. result = "failed"
  BY <1>2 DEF PromiseInv
<1>4. QED
  BY <1>1, <1>3, ThreadFacts, IdleFacts DEF PromiseInv

(* What happens before the socket is open, and who is idle until it        *)
(* closes.                                                                 *)
LEMMA SocketKept ==
  ASSUME ConnectionInv, ~crashed, [Next]_vars
  PROVE  SocketInv'
<1> USE ThreadFacts, IdleFacts, ListsDiffer
    DEF netVars, stateVars, sceneVars, ends
<1> JobInv /\ SocketInv /\ TypeOK /\ PromiseInv
  BY DEF ConnectionInv
<1>1. CASE Connect
  BY <1>1 DEF Connect, FetchFails, BadAddress, InnerConnect, StoreHook,
         Register, Return, UseHook, Connects, JobInv, SocketInv,
         TypeOK, Stored, Starts, Moves, Job
<1>2. CASE OnOpen
  BY <1>2 DEF OnOpen, Handles, JobInv, SocketInv,
         TypeOK, Stored, Starts, Moves, Job
<1>3. CASE OnFail
  <2>1. Starts("ws", TestOn, "Misconfigured", "failed")
    BY <1>3, FailStarts DEF OnFail
  <2>2. QED
    BY <1>3, <2>1 DEF OnFail, Handles, Fails, JobInv, SocketInv,
         TypeOK, Stored, Starts, Moves, Job
<1>4. CASE OnClose
  <2>1. Starts("ws", TestOn, "None", "failed")
    BY <1>4, FailStarts DEF OnClose
  <2>2. QED
    BY <1>4, <2>1 DEF OnClose, Handles, Fails, JobInv, SocketInv,
         TypeOK, Stored, Starts, Moves, Job
<1>5. ASSUME NEW m \in Messages, OnMessage(m) PROVE SocketInv'
  BY <1>5 DEF OnMessage, Handles, JobInv, SocketInv,
         TypeOK, Stored, Starts, Moves, Job
<1>6. ASSUME NEW m \in Messages, ParseForeign(m) PROVE SocketInv'
  <2>1. Starts(m, StateEnd, "Misconfigured", "failed")
    BY <1>6, ForeignStarts
  <2>2. QED
    BY <1>6, <2>1 DEF ParseForeign, Takes, JobInv, SocketInv,
         TypeOK, Stored, Starts, Moves, Job
<1>7. CASE ParseAnswer
  <2>1. IF answer = "accepted"
        THEN Starts(Answer, StateOn, "Healthy", "connected")
        ELSE Starts(Answer, StateOn, "Misconfigured", "failed")
    BY <1>7, AnswerStarts
  <2>2. QED
    BY <1>7, <2>1 DEF ParseAnswer, Takes, JobInv, SocketInv,
         TypeOK, Stored, Starts, Moves, Job
<1>8. ASSUME NEW m \in Messages, ParseGame(m) PROVE SocketInv'
  BY <1>8 DEF ParseGame, Takes, JobInv, SocketInv,
         TypeOK, Stored, Starts, Moves, Job
<1>9. ASSUME NEW m \in Messages, Skip(m) PROVE SocketInv'
  BY <1>9 DEF Skip, Takes, JobInv, SocketInv,
         TypeOK, Stored, Starts, Moves, Job
<1>10. CASE SendRequest
  BY <1>10 DEF SendRequest, JobInv, SocketInv,
         TypeOK, Stored, Starts, Moves, Job
<1>11. CASE FailureCallback
  <2>1. Starts("failure", StateEnd, "Misconfigured", "failed")
    BY <1>11, CallbackStarts
  <2>2. QED
    BY <1>11, <2>1 DEF FailureCallback, JobInv, SocketInv,
         TypeOK, Stored, Starts, Moves, Job
<1>12. CASE CreateScene \/ SetScene
  BY <1>12 DEF CreateScene, SetScene, JobInv, SocketInv,
         TypeOK, Stored, Starts, Moves, Job
<1>13. ASSUME NEW t \in Threads, Test(t) PROVE SocketInv'
  <2>1. /\ t = "ws" /\ job["ws"].todo = TestOn
        /\ hook => Moves("ws", ResolveOn)
        /\ ~hook => Moves("ws", StateEnd)
    BY <1>13, TestMoves
  <2>2. job[t].todo # Nothing /\ job'["ws"].to = job["ws"].to
    BY <2>1 DEF Moves
  <2>3. socket \in {"open", "closed"}
    BY <2>2, BusyMeansOpened
  <2>4. socket # "closed" => job'["ws"] = Idle
    BY <2>1 DEF Moves, SocketInv
  <2>5. UNCHANGED <<answer, at, connector, socket>>
    BY <1>13 DEF Test, Rest
  <2>6. QED
    BY <2>2, <2>3, <2>4, <2>5 DEF SocketInv
<1>14. ASSUME NEW t \in Threads, Resolve(t) PROVE SocketInv'
  <2>1. \/ t = "ws" /\ job[t].todo = ResolveOn /\ Moves(t, ClearOn)
        \/ /\ t = Answer /\ job[t].todo = ResolveEnd /\ Moves(t, ClearEnd)
           /\ answer # "foreign"
    BY <1>14, ResolveMoves
  <2>2. job[t].todo # Nothing /\ job'["ws"].to = job["ws"].to
    BY <2>1 DEF Moves
  <2>3. socket \in {"open", "closed"}
    BY <2>2, BusyMeansOpened
  <2>4. socket # "closed" => job'["ws"] = Idle
    BY <2>1 DEF Moves, SocketInv
  <2>5. UNCHANGED <<answer, at, connector, socket>>
    BY <1>14 DEF Resolve, Done, Rest
  <2>6. QED
    BY <2>2, <2>3, <2>4, <2>5 DEF SocketInv
<1>15. ASSUME NEW t \in Threads, Clear(t) PROVE SocketInv'
  <2>1. \/ t = "ws" /\ job[t].todo = ClearOn /\ Moves(t, StateEnd)
        \/ /\ t = Answer /\ job[t].todo = ClearEnd /\ Moves(t, Nothing)
           /\ answer # "foreign"
    BY <1>15, ClearMoves
  <2>2. job[t].todo # Nothing /\ job'["ws"].to = job["ws"].to
    BY <2>1 DEF Moves
  <2>3. socket \in {"open", "closed"}
    BY <2>2, BusyMeansOpened
  <2>4. socket # "closed" => job'["ws"] = Idle
    BY <2>1 DEF Moves, SocketInv
  <2>5. UNCHANGED <<answer, at, connector, socket>>
    BY <1>15 DEF Clear, Done, Rest
  <2>6. QED
    BY <2>2, <2>3, <2>4, <2>5 DEF SocketInv
<1>16. ASSUME NEW t \in Threads, SetState(t) PROVE SocketInv'
  <2>1. \/ /\ job[t].todo = StateEnd
           /\ \/ state = job[t].to /\ Moves(t, Nothing)
              \/ state # job[t].to /\ Moves(t, TellEnd)
        \/ /\ t = Answer /\ job[t].todo = StateOn /\ answer # "foreign"
           /\ \/ state = job[t].to /\ Moves(t, ResolveEnd)
              \/ state # job[t].to /\ Moves(t, TellOn)
    BY <1>16, SetStateMoves
  <2>2. job[t].todo # Nothing /\ job'["ws"].to = job["ws"].to
    BY <2>1 DEF Moves
  <2>3. socket \in {"open", "closed"}
    BY <2>2, BusyMeansOpened
  <2>4. socket # "closed" => job'["ws"] = Idle
    BY <2>1 DEF Moves, SocketInv
  <2>5. UNCHANGED <<answer, at, connector, socket>>
    BY <1>16 DEF SetState, Rest
  <2>6. QED
    BY <2>2, <2>3, <2>4, <2>5 DEF SocketInv
<1>17. ASSUME NEW t \in Threads, Tell(t) PROVE SocketInv'
  <2>1. \/ /\ job[t].todo = TellEnd
           /\ \/ net = Told(job[t].to) /\ Moves(t, Nothing)
              \/ net # Told(job[t].to) /\ Moves(t, StoreEnd)
        \/ /\ t = Answer /\ job[t].todo = TellOn /\ answer # "foreign"
           /\ \/ net = Told(job[t].to) /\ Moves(t, ResolveEnd)
              \/ net # Told(job[t].to) /\ Moves(t, StoreOn)
    BY <1>17, TellMoves
  <2>2. job[t].todo # Nothing /\ job'["ws"].to = job["ws"].to
    BY <2>1 DEF Moves
  <2>3. socket \in {"open", "closed"}
    BY <2>2, BusyMeansOpened
  <2>4. socket # "closed" => job'["ws"] = Idle
    BY <2>1 DEF Moves, SocketInv
  <2>5. UNCHANGED <<answer, at, connector, socket>>
    BY <1>17 DEF Tell, Rest
  <2>6. QED
    BY <2>2, <2>3, <2>4, <2>5 DEF SocketInv
<1>18. ASSUME NEW t \in Threads, Store(t) PROVE SocketInv'
  <2>1. \/ job[t].todo = StoreEnd /\ Moves(t, Nothing)
        \/ /\ t = Answer /\ job[t].todo = StoreOn /\ Moves(t, ResolveEnd)
           /\ answer # "foreign"
    BY <1>18, StoreMoves
  <2>2. job[t].todo # Nothing /\ job'["ws"].to = job["ws"].to
    BY <2>1 DEF Moves
  <2>3. socket \in {"open", "closed"}
    BY <2>2, BusyMeansOpened
  <2>4. socket # "closed" => job'["ws"] = Idle
    BY <2>1 DEF Moves, SocketInv
  <2>5. UNCHANGED <<answer, at, connector, socket>>
    BY <1>18 DEF Store, Done, Rest
  <2>6. QED
    BY <2>2, <2>3, <2>4, <2>5 DEF SocketInv
<1>19. CASE UNCHANGED vars
  BY <1>19 DEF vars, netVars, stateVars, sceneVars, ends, JobInv, SocketInv,
         TypeOK, Stored, Starts, Moves, Job
<1>20. QED
  BY <1>1, <1>2, <1>3, <1>4, <1>5, <1>6, <1>7, <1>8, <1>9, <1>10, <1>11,
     <1>12, <1>13, <1>14, <1>15, <1>16, <1>17, <1>18,
     <1>19
     DEF Next, Parse, Step, Finished

(* Who forgets the promise, and who gives it its value.                    *)
LEMMA PromiseKept ==
  ASSUME ConnectionInv, ~crashed, [Next]_vars, ~crashed'
  PROVE  PromiseInv'
<1> USE ThreadFacts, IdleFacts, ListsDiffer
    DEF netVars, stateVars, sceneVars, ends
<1> JobInv /\ SocketInv /\ TypeOK /\ PromiseInv
  BY DEF ConnectionInv
<1>1. CASE Connect
  BY <1>1 DEF Connect, FetchFails, BadAddress, InnerConnect, StoreHook,
         Register, Return, UseHook, Connects, JobInv, SocketInv,
         TypeOK, PromiseInv, WsCleared, Stored, Starts, Moves, Job
<1>2. CASE OnOpen
  BY <1>2 DEF OnOpen, Handles, JobInv, SocketInv,
         TypeOK, PromiseInv, WsCleared, Stored, Starts, Moves, Job
<1>3. CASE OnFail
  <2>1. Starts("ws", TestOn, "Misconfigured", "failed")
    BY <1>3, FailStarts DEF OnFail
  <2>2. QED
    BY <1>3, <2>1 DEF OnFail, Handles, Fails, Starts, Job,
       PromiseInv, WsCleared, Stored
<1>4. CASE OnClose
  <2>1. Starts("ws", TestOn, "None", "failed")
    BY <1>4, FailStarts DEF OnClose
  <2>2. QED
    BY <1>4, <2>1 DEF OnClose, Handles, Fails, Starts, Job,
       PromiseInv, WsCleared, Stored
<1>5. ASSUME NEW m \in Messages, OnMessage(m) PROVE PromiseInv'
  BY <1>5 DEF OnMessage, Handles, JobInv, SocketInv,
         TypeOK, PromiseInv, WsCleared, Stored, Starts, Moves, Job
<1>6. ASSUME NEW m \in Messages, ParseForeign(m) PROVE PromiseInv'
  <2>1. Starts(m, StateEnd, "Misconfigured", "failed")
    BY <1>6, ForeignStarts
  <2>2. QED
    BY <1>6, <2>1 DEF ParseForeign, Takes, JobInv, SocketInv,
         TypeOK, PromiseInv, WsCleared, Stored, Starts, Moves, Job
<1>7. CASE ParseAnswer
  <2>1. IF answer = "accepted"
        THEN Starts(Answer, StateOn, "Healthy", "connected")
        ELSE Starts(Answer, StateOn, "Misconfigured", "failed")
    BY <1>7, AnswerStarts
  <2>2. QED
    BY <1>7, <2>1 DEF ParseAnswer, Takes, JobInv, SocketInv,
         TypeOK, PromiseInv, WsCleared, Stored, Starts, Moves, Job
<1>8. ASSUME NEW m \in Messages, ParseGame(m) PROVE PromiseInv'
  BY <1>8 DEF ParseGame, Takes, JobInv, SocketInv,
         TypeOK, PromiseInv, WsCleared, Stored, Starts, Moves, Job
<1>9. ASSUME NEW m \in Messages, Skip(m) PROVE PromiseInv'
  BY <1>9 DEF Skip, Takes, JobInv, SocketInv,
         TypeOK, PromiseInv, WsCleared, Stored, Starts, Moves, Job
<1>10. CASE SendRequest
  BY <1>10 DEF SendRequest, JobInv, SocketInv,
         TypeOK, PromiseInv, WsCleared, Stored, Starts, Moves, Job
<1>11. CASE FailureCallback
  <2>1. Starts("failure", StateEnd, "Misconfigured", "failed")
    BY <1>11, CallbackStarts
  <2>2. QED
    BY <1>11, <2>1 DEF FailureCallback, JobInv, SocketInv,
         TypeOK, PromiseInv, WsCleared, Stored, Starts, Moves, Job
<1>12. CASE CreateScene \/ SetScene
  BY <1>12 DEF CreateScene, SetScene, JobInv, SocketInv,
         TypeOK, PromiseInv, WsCleared, Stored, Starts, Moves, Job
<1>13. ASSUME NEW t \in Threads, Test(t) PROVE PromiseInv'
  <2>1. /\ t = "ws" /\ job["ws"].todo = TestOn
        /\ hook => Moves("ws", ResolveOn)
        /\ ~hook => Moves("ws", StateEnd)
    BY <1>13, TestMoves
  <2>2. CASE /\ hook /\ t = "ws"
            /\ job["ws"].todo = TestOn /\ Moves("ws", ResolveOn)
    <3>1. /\ job'["ws"].todo = ResolveOn
          /\ UNCHANGED <<job[Answer], job["failure"]>>
      BY <2>2 DEF Moves
    <3>2. QED
      BY <1>13, <2>2, <3>1 DEF Test, Rest, JobInv, Jobs,
         States, SocketInv, PromiseInv, WsCleared, Stored
  <2>3. CASE /\ ~hook /\ t = "ws"
            /\ job["ws"].todo = TestOn /\ Moves("ws", StateEnd)
    <3>1. /\ job'["ws"].todo = StateEnd
          /\ UNCHANGED <<job[Answer], job["failure"]>>
      BY <2>3 DEF Moves
    <3>2. QED
      BY <1>13, <2>3, <3>1 DEF Test, Rest, JobInv, Jobs,
         States, SocketInv, PromiseInv, WsCleared, Stored
  <2>4. QED
    BY <2>1, <2>2, <2>3
<1>14. ASSUME NEW t \in Threads, Resolve(t) PROVE PromiseInv'
  <2>1. \/ t = "ws" /\ job[t].todo = ResolveOn /\ Moves(t, ClearOn)
        \/ /\ t = Answer /\ job[t].todo = ResolveEnd /\ Moves(t, ClearEnd)
           /\ answer # "foreign"
    BY <1>14, ResolveMoves
  <2>2. CASE t = "ws" /\ job["ws"].todo = ResolveOn /\ Moves("ws", ClearOn)
    <3>1. /\ job'["ws"].todo = ClearOn
          /\ UNCHANGED <<job[Answer], job["failure"]>>
      BY <2>2 DEF Moves
    <3>2. QED
      BY <1>14, <2>2, <3>1 DEF Resolve, Done, Rest, JobInv, Jobs,
         States, SocketInv, PromiseInv, WsCleared, Stored
  <2>3. CASE /\ t = Answer /\ job[Answer].todo = ResolveEnd
            /\ answer # "foreign" /\ Moves(Answer, ClearEnd)
    <3>1. /\ job'[Answer].todo = ClearEnd
          /\ job'[Answer].to = job[Answer].to
          /\ UNCHANGED <<job["ws"], job["failure"]>>
      BY <2>3 DEF Moves
    <3>2. QED
      BY <1>14, <2>3, <3>1 DEF Resolve, Done, Rest, JobInv, Jobs,
         States, SocketInv, PromiseInv, WsCleared, Stored
  <2>4. QED
    BY <2>1, <2>2, <2>3
<1>15. ASSUME NEW t \in Threads, Clear(t) PROVE PromiseInv'
  <2>1. \/ t = "ws" /\ job[t].todo = ClearOn /\ Moves(t, StateEnd)
        \/ /\ t = Answer /\ job[t].todo = ClearEnd /\ Moves(t, Nothing)
           /\ answer # "foreign"
    BY <1>15, ClearMoves
  <2>2. CASE t = "ws" /\ job["ws"].todo = ClearOn /\ Moves("ws", StateEnd)
    <3>1. /\ job'["ws"].todo = StateEnd
          /\ UNCHANGED <<job[Answer], job["failure"]>>
      BY <2>2 DEF Moves
    <3>2. QED
      BY <1>15, <2>2, <3>1 DEF Clear, Done, Rest, JobInv, Jobs,
         States, SocketInv, PromiseInv, WsCleared, Stored
  <2>3. CASE /\ t = Answer /\ job[Answer].todo = ClearEnd
            /\ answer # "foreign" /\ Moves(Answer, Nothing)
    <3>1. /\ job'[Answer].todo = Nothing
          /\ job'[Answer].to = job[Answer].to
          /\ UNCHANGED <<job["ws"], job["failure"]>>
      BY <2>3 DEF Moves
    <3>2. QED
      BY <1>15, <2>3, <3>1 DEF Clear, Done, Rest, JobInv, Jobs,
         States, SocketInv, PromiseInv, WsCleared, Stored
  <2>4. QED
    BY <2>1, <2>2, <2>3
<1>16. ASSUME NEW t \in Threads, SetState(t) PROVE PromiseInv'
  <2>1. \/ /\ job[t].todo = StateEnd
           /\ \/ state = job[t].to /\ Moves(t, Nothing)
              \/ state # job[t].to /\ Moves(t, TellEnd)
        \/ /\ t = Answer /\ job[t].todo = StateOn /\ answer # "foreign"
           /\ \/ state = job[t].to /\ Moves(t, ResolveEnd)
              \/ state # job[t].to /\ Moves(t, TellOn)
    BY <1>16, SetStateMoves
  <2>2. /\ job[t].todo # Nothing
        /\ job'[t].to = job[t].to
        /\ \A u \in Threads \ {t} : job'[u] = job[u]
    BY <2>1 DEF Moves
  <2>3. /\ job'[Answer].to = job[Answer].to
        /\ job[Answer].todo = Nothing => job'[Answer] = job[Answer]
        /\ job["failure"].todo = Nothing => job'["failure"] = job["failure"]
    BY <2>2
  <2>4. \/ job'["ws"] = job["ws"]
        \/ /\ job["ws"].todo \in {StateEnd, TellEnd, StoreEnd}
           /\ job'["ws"].todo \in {TellEnd, StoreEnd, Nothing}
    BY <2>1 DEF Moves
  <2>5. UNCHANGED <<connector, socket, answer, hook, result, missed>>
    BY <1>16 DEF SetState, Rest
  <2>6. QED
    BY <2>3, <2>4, <2>5 DEF PromiseInv, WsCleared, Stored
<1>17. ASSUME NEW t \in Threads, Tell(t) PROVE PromiseInv'
  <2>1. \/ /\ job[t].todo = TellEnd
           /\ \/ net = Told(job[t].to) /\ Moves(t, Nothing)
              \/ net # Told(job[t].to) /\ Moves(t, StoreEnd)
        \/ /\ t = Answer /\ job[t].todo = TellOn /\ answer # "foreign"
           /\ \/ net = Told(job[t].to) /\ Moves(t, ResolveEnd)
              \/ net # Told(job[t].to) /\ Moves(t, StoreOn)
    BY <1>17, TellMoves
  <2>2. /\ job[t].todo # Nothing
        /\ job'[t].to = job[t].to
        /\ \A u \in Threads \ {t} : job'[u] = job[u]
    BY <2>1 DEF Moves
  <2>3. /\ job'[Answer].to = job[Answer].to
        /\ job[Answer].todo = Nothing => job'[Answer] = job[Answer]
        /\ job["failure"].todo = Nothing => job'["failure"] = job["failure"]
    BY <2>2
  <2>4. \/ job'["ws"] = job["ws"]
        \/ /\ job["ws"].todo \in {StateEnd, TellEnd, StoreEnd}
           /\ job'["ws"].todo \in {TellEnd, StoreEnd, Nothing}
    BY <2>1 DEF Moves
  <2>5. UNCHANGED <<connector, socket, answer, hook, result, missed>>
    BY <1>17 DEF Tell, Rest
  <2>6. QED
    BY <2>3, <2>4, <2>5 DEF PromiseInv, WsCleared, Stored
<1>18. ASSUME NEW t \in Threads, Store(t) PROVE PromiseInv'
  <2>1. \/ job[t].todo = StoreEnd /\ Moves(t, Nothing)
        \/ /\ t = Answer /\ job[t].todo = StoreOn /\ Moves(t, ResolveEnd)
           /\ answer # "foreign"
    BY <1>18, StoreMoves
  <2>2. /\ job[t].todo # Nothing
        /\ job'[t].to = job[t].to
        /\ \A u \in Threads \ {t} : job'[u] = job[u]
    BY <2>1 DEF Moves
  <2>3. /\ job'[Answer].to = job[Answer].to
        /\ job[Answer].todo = Nothing => job'[Answer] = job[Answer]
        /\ job["failure"].todo = Nothing => job'["failure"] = job["failure"]
    BY <2>2
  <2>4. \/ job'["ws"] = job["ws"]
        \/ /\ job["ws"].todo \in {StateEnd, TellEnd, StoreEnd}
           /\ job'["ws"].todo \in {TellEnd, StoreEnd, Nothing}
    BY <2>1 DEF Moves
  <2>5. UNCHANGED <<connector, socket, answer, hook, result, missed>>
    BY <1>18 DEF Store, Done, Rest
  <2>6. QED
    BY <2>3, <2>4, <2>5 DEF PromiseInv, WsCleared, Stored
<1>19. CASE UNCHANGED vars
  BY <1>19 DEF vars, netVars, stateVars, sceneVars, ends, JobInv, SocketInv,
         TypeOK, PromiseInv, WsCleared, Stored, Starts, Moves, Job
<1>20. QED
  BY <1>1, <1>2, <1>3, <1>4, <1>5, <1>6, <1>7, <1>8, <1>9, <1>10, <1>11,
     <1>12, <1>13, <1>14, <1>15, <1>16, <1>17, <1>18,
     <1>19
     DEF Next, Parse, Step, Finished

(* What WsClient and the game believe.                                     *)
LEMMA BeliefKept ==
  ASSUME ConnectionInv, ~crashed, [Next]_vars, ~crashed'
  PROVE  BeliefInv'
<1> USE ThreadFacts, IdleFacts, ListsDiffer
    DEF netVars, stateVars, sceneVars, ends
<1> JobInv /\ SocketInv /\ TypeOK /\ PromiseInv /\ BeliefInv
  BY DEF ConnectionInv
<1>1. CASE Connect
  BY <1>1 DEF Connect, FetchFails, BadAddress, InnerConnect, StoreHook,
         Register, Return, UseHook, Connects, JobInv, SocketInv,
         TypeOK, BeliefInv, WsSet, WsDone, Resolves, Starts, Job
<1>2. CASE OnOpen
  BY <1>2 DEF OnOpen, Handles, JobInv, SocketInv,
         TypeOK, BeliefInv, WsSet, WsDone, Resolves, Starts, Job
<1>3. CASE OnFail
  <2>1. Starts("ws", TestOn, "Misconfigured", "failed")
    BY <1>3, FailStarts DEF OnFail
  <2>2. QED
    BY <1>3, <2>1 DEF OnFail, Handles, Fails, JobInv, SocketInv,
         TypeOK, BeliefInv, WsSet, WsDone, Resolves, Starts, Job
<1>4. CASE OnClose
  <2>1. Starts("ws", TestOn, "None", "failed")
    BY <1>4, FailStarts DEF OnClose
  <2>2. QED
    BY <1>4, <2>1 DEF OnClose, Handles, Fails, JobInv, SocketInv,
         TypeOK, BeliefInv, WsSet, WsDone, Resolves, Starts, Job
<1>5. ASSUME NEW m \in Messages, OnMessage(m) PROVE BeliefInv'
  BY <1>5 DEF OnMessage, Handles, JobInv, SocketInv,
         TypeOK, BeliefInv, WsSet, WsDone, Resolves, Starts, Job
<1>6. ASSUME NEW m \in Messages, ParseForeign(m) PROVE BeliefInv'
  <2>1. Starts(m, StateEnd, "Misconfigured", "failed")
    BY <1>6, ForeignStarts
  <2>2. QED
    BY <1>6, <2>1 DEF ParseForeign, Takes, JobInv, SocketInv,
         TypeOK, BeliefInv, WsSet, WsDone, Resolves, Starts, Job
<1>7. CASE ParseAnswer
  <2>1. IF answer = "accepted"
        THEN Starts(Answer, StateOn, "Healthy", "connected")
        ELSE Starts(Answer, StateOn, "Misconfigured", "failed")
    BY <1>7, AnswerStarts
  <2>2. QED
    BY <1>7, <2>1 DEF ParseAnswer, Takes, JobInv, SocketInv,
         TypeOK, BeliefInv, WsSet, WsDone, Resolves, Starts, Job
<1>8. ASSUME NEW m \in Messages, ParseGame(m) PROVE BeliefInv'
  BY <1>8 DEF ParseGame, Takes, JobInv, SocketInv,
         TypeOK, BeliefInv, WsSet, WsDone, Resolves, Starts, Job
<1>9. ASSUME NEW m \in Messages, Skip(m) PROVE BeliefInv'
  BY <1>9 DEF Skip, Takes, JobInv, SocketInv,
         TypeOK, BeliefInv, WsSet, WsDone, Resolves, Starts, Job
<1>10. CASE SendRequest
  BY <1>10 DEF SendRequest, JobInv, SocketInv,
         TypeOK, BeliefInv, WsSet, WsDone, Resolves, Starts, Job
<1>11. CASE FailureCallback
  <2>1. Starts("failure", StateEnd, "Misconfigured", "failed")
    BY <1>11, CallbackStarts
  <2>2. QED
    BY <1>11, <2>1 DEF FailureCallback, JobInv, SocketInv,
         TypeOK, BeliefInv, WsSet, WsDone, Resolves, Starts, Job
<1>12. CASE CreateScene \/ SetScene
  BY <1>12 DEF CreateScene, SetScene, JobInv, SocketInv,
         TypeOK, BeliefInv, WsSet, WsDone, Resolves, Starts, Job
<1>13. ASSUME NEW t \in Threads, Test(t) PROVE BeliefInv'
  <2>1. /\ t = "ws" /\ job["ws"].todo = TestOn
        /\ hook => Moves("ws", ResolveOn)
        /\ ~hook => Moves("ws", StateEnd)
    BY <1>13, TestMoves
  <2>2. CASE /\ hook /\ t = "ws"
            /\ job["ws"].todo = TestOn /\ Moves("ws", ResolveOn)
    <3>1. /\ job'["ws"].todo = ResolveOn /\ job'["ws"].to = job["ws"].to
          /\ UNCHANGED job[Answer]
      BY <2>2 DEF Moves
    <3>2. QED
      BY <1>13, <2>2, <3>1 DEF Test, Rest, JobInv, Jobs,
         States, SocketInv, PromiseInv, WsCleared,
         BeliefInv, WsSet, WsDone, Resolves
  <2>3. CASE /\ ~hook /\ t = "ws"
            /\ job["ws"].todo = TestOn /\ Moves("ws", StateEnd)
    <3>1. /\ job'["ws"].todo = StateEnd /\ job'["ws"].to = job["ws"].to
          /\ UNCHANGED job[Answer]
      BY <2>3 DEF Moves
    <3>2. QED
      BY <1>13, <2>3, <3>1 DEF Test, Rest, JobInv, Jobs,
         States, SocketInv, PromiseInv, WsCleared,
         BeliefInv, WsSet, WsDone, Resolves
  <2>4. QED
    BY <2>1, <2>2, <2>3
<1>14. ASSUME NEW t \in Threads, Resolve(t) PROVE BeliefInv'
  <2>1. \/ t = "ws" /\ job[t].todo = ResolveOn /\ Moves(t, ClearOn)
        \/ /\ t = Answer /\ job[t].todo = ResolveEnd /\ Moves(t, ClearEnd)
           /\ answer # "foreign"
    BY <1>14, ResolveMoves
  <2>2. CASE t = "ws" /\ job["ws"].todo = ResolveOn /\ Moves("ws", ClearOn)
    <3>1. /\ job'["ws"].todo = ClearOn /\ job'["ws"].to = job["ws"].to
          /\ UNCHANGED job[Answer]
      BY <2>2 DEF Moves
    <3>2. QED
      BY <1>14, <2>2, <3>1 DEF Resolve, Done, Rest, JobInv, Jobs,
         States, SocketInv, PromiseInv, WsCleared,
         BeliefInv, WsSet, WsDone, Resolves
  <2>3. CASE /\ t = Answer /\ job[Answer].todo = ResolveEnd
            /\ answer # "foreign" /\ Moves(Answer, ClearEnd)
    <3>1. /\ job'[Answer].todo = ClearEnd
          /\ job'[Answer].to = job[Answer].to
          /\ UNCHANGED job["ws"]
      BY <2>3 DEF Moves
    <3>2. QED
      BY <1>14, <2>3, <3>1 DEF Resolve, Done, Rest, JobInv, Jobs,
         States, SocketInv, PromiseInv, WsCleared,
         BeliefInv, WsSet, WsDone, Resolves
  <2>4. QED
    BY <2>1, <2>2, <2>3
<1>15. ASSUME NEW t \in Threads, Clear(t) PROVE BeliefInv'
  <2>1. \/ t = "ws" /\ job[t].todo = ClearOn /\ Moves(t, StateEnd)
        \/ /\ t = Answer /\ job[t].todo = ClearEnd /\ Moves(t, Nothing)
           /\ answer # "foreign"
    BY <1>15, ClearMoves
  <2>2. CASE t = "ws" /\ job["ws"].todo = ClearOn /\ Moves("ws", StateEnd)
    <3>1. /\ job'["ws"].todo = StateEnd /\ job'["ws"].to = job["ws"].to
          /\ UNCHANGED job[Answer]
      BY <2>2 DEF Moves
    <3>2. QED
      BY <1>15, <2>2, <3>1 DEF Clear, Done, Rest, JobInv, Jobs,
         States, SocketInv, PromiseInv, WsCleared,
         BeliefInv, WsSet, WsDone, Resolves
  <2>3. CASE /\ t = Answer /\ job[Answer].todo = ClearEnd
            /\ answer # "foreign" /\ Moves(Answer, Nothing)
    <3>1. /\ job'[Answer].todo = Nothing
          /\ job'[Answer].to = job[Answer].to
          /\ UNCHANGED job["ws"]
      BY <2>3 DEF Moves
    <3>2. QED
      BY <1>15, <2>3, <3>1 DEF Clear, Done, Rest, JobInv, Jobs,
         States, SocketInv, PromiseInv, WsCleared,
         BeliefInv, WsSet, WsDone, Resolves
  <2>4. QED
    BY <2>1, <2>2, <2>3
<1>16. ASSUME NEW t \in Threads, SetState(t) PROVE BeliefInv'
  <2>1. \/ /\ job[t].todo = StateEnd
           /\ \/ state = job[t].to /\ Moves(t, Nothing)
              \/ state # job[t].to /\ Moves(t, TellEnd)
        \/ /\ t = Answer /\ job[t].todo = StateOn /\ answer # "foreign"
           /\ \/ state = job[t].to /\ Moves(t, ResolveEnd)
              \/ state # job[t].to /\ Moves(t, TellOn)
    BY <1>16, SetStateMoves
  <2>2. CASE /\ state = job[t].to /\ t = "ws"
            /\ job["ws"].todo = StateEnd /\ Moves("ws", Nothing)
    <3>1. /\ job'["ws"].todo = Nothing /\ job'["ws"].to = job["ws"].to
          /\ UNCHANGED job[Answer]
      BY <2>2 DEF Moves
    <3>2. /\ UNCHANGED <<state, net, answer, socket, result, missed>>
          /\ state = job["ws"].to
      BY <1>16, <2>2 DEF SetState, Rest
    <3>3. socket = "closed"
      BY <2>2 DEF SocketInv
    <3>4. job["ws"].to # "None"
      BY <2>2, <3>2, <3>3 DEF BeliefInv, WsSet
    <3>5. job["ws"].to = "Misconfigured"
      BY <3>4 DEF JobInv, Jobs, States
    <3>6. answer = "none" /\ job[Answer].to # "Healthy"
      BY <3>5 DEF SocketInv, JobInv
    <3>7. QED
      BY <3>1, <3>2, <3>3, <3>5, <3>6 DEF BeliefInv, WsSet, WsDone, Resolves
  <2>3. CASE /\ state # job[t].to /\ t = "ws"
            /\ job["ws"].todo = StateEnd /\ Moves("ws", TellEnd)
    <3>1. /\ job'["ws"].todo = TellEnd /\ job'["ws"].to = job["ws"].to
          /\ UNCHANGED job[Answer]
      BY <2>3 DEF Moves
    <3>2. QED
      BY <1>16, <2>3, <3>1 DEF SetState, Rest, JobInv, Jobs,
         States, SocketInv, PromiseInv, WsCleared,
         BeliefInv, WsSet, WsDone, Resolves
  <2>4. CASE /\ state = job[t].to
            /\ t = Answer /\ job[Answer].todo = StateOn
            /\ answer # "foreign" /\ Moves(Answer, ResolveEnd)
    <3>1. /\ job'[Answer].todo = ResolveEnd
          /\ job'[Answer].to = job[Answer].to
          /\ UNCHANGED job["ws"]
      BY <2>4 DEF Moves
    <3>2. QED
      BY <1>16, <2>4, <3>1 DEF SetState, Rest, JobInv, Jobs,
         States, SocketInv, PromiseInv, WsCleared,
         BeliefInv, WsSet, WsDone, Resolves
  <2>5. CASE /\ state # job[t].to
            /\ t = Answer /\ job[Answer].todo = StateOn
            /\ answer # "foreign" /\ Moves(Answer, TellOn)
    <3>1. /\ job'[Answer].todo = TellOn
          /\ job'[Answer].to = job[Answer].to
          /\ UNCHANGED job["ws"]
      BY <2>5 DEF Moves
    <3>2. QED
      BY <1>16, <2>5, <3>1 DEF SetState, Rest, JobInv, Jobs,
         States, SocketInv, PromiseInv, WsCleared,
         BeliefInv, WsSet, WsDone, Resolves
  <2>6. CASE /\ t = Answer /\ job[Answer].todo = StateEnd
            /\ Moves(Answer, Nothing)
    <3>1. /\ job'[Answer].todo = Nothing
          /\ job'[Answer].to = job[Answer].to
          /\ UNCHANGED job["ws"]
      BY <2>6 DEF Moves
    <3>2. QED
      BY <1>16, <2>6, <3>1 DEF SetState, Rest, JobInv, Jobs,
         States, SocketInv, PromiseInv, WsCleared,
         BeliefInv, WsSet, WsDone, Resolves
  <2>7. CASE /\ t = Answer /\ job[Answer].todo = StateEnd
            /\ Moves(Answer, TellEnd)
    <3>1. /\ job'[Answer].todo = TellEnd
          /\ job'[Answer].to = job[Answer].to
          /\ UNCHANGED job["ws"]
      BY <2>7 DEF Moves
    <3>2. QED
      BY <1>16, <2>7, <3>1 DEF SetState, Rest, JobInv, Jobs,
         States, SocketInv, PromiseInv, WsCleared,
         BeliefInv, WsSet, WsDone, Resolves
  <2>8. CASE /\ t \notin {"ws", Answer} /\ job[t].todo = StateEnd
            /\ \E L \in Lists : Moves(t, L)
    <3>1. UNCHANGED <<job[Answer], job["ws"]>>
      BY <2>8 DEF Moves
    <3>2. QED
      BY <1>16, <2>8, <3>1 DEF SetState, Rest, JobInv, Jobs,
         States, SocketInv, PromiseInv, WsCleared,
         BeliefInv, WsSet, WsDone, Resolves
  <2>9. Nothing \in Lists /\ TellEnd \in Lists
    BY DEF Lists
  <2>10. QED
    BY <2>1, <2>2, <2>3, <2>4, <2>5, <2>6, <2>7, <2>8, <2>9
<1>17. ASSUME NEW t \in Threads, Tell(t) PROVE BeliefInv'
  <2>1. \/ /\ job[t].todo = TellEnd
           /\ \/ net = Told(job[t].to) /\ Moves(t, Nothing)
              \/ net # Told(job[t].to) /\ Moves(t, StoreEnd)
        \/ /\ t = Answer /\ job[t].todo = TellOn /\ answer # "foreign"
           /\ \/ net = Told(job[t].to) /\ Moves(t, ResolveEnd)
              \/ net # Told(job[t].to) /\ Moves(t, StoreOn)
    BY <1>17, TellMoves
  <2>2. UNCHANGED <<state, net, answer, socket, result, missed>>
    BY <1>17 DEF Tell, Rest
  <2>3. /\ job'["ws"].to = job["ws"].to /\ job'[Answer].to = job[Answer].to
        /\ t # "ws" => job'["ws"] = job["ws"]
        /\ t # Answer => job'[Answer] = job[Answer]
    BY <2>1 DEF Moves
  <2>4. CASE t = "ws"
    <3>1. /\ job["ws"].todo = TellEnd
          /\ \/ net = Told(job["ws"].to) /\ job'["ws"].todo = Nothing
             \/ job'["ws"].todo = StoreEnd
      BY <2>1, <2>4 DEF Moves
    <3>2. job["ws"].to \in States /\ job["ws"].to # "Healthy"
      BY DEF JobInv, Jobs
    <3>3. job'["ws"].todo = Nothing => net # "Basic"
      BY <3>1, <3>2, ToldFacts
    <3>4. (WsSet' <=> WsSet) /\ (Resolves' <=> Resolves)
      BY <2>2, <2>3, <2>4, <3>1 DEF WsSet, Resolves
    <3>5. WsDone' => net # "Basic"
      BY <2>2, <3>3 DEF WsDone
    <3>6. QED
      BY <2>2, <2>3, <2>4, <3>4, <3>5 DEF BeliefInv
  <2>5. CASE t = Answer
    <3>1. \/ /\ job[Answer].todo = TellEnd
             /\ job'[Answer].todo \in {StoreEnd, Nothing}
          \/ /\ job[Answer].todo = TellOn
             /\ \/ job'[Answer].todo = StoreOn
                \/ /\ job'[Answer].todo = ResolveEnd
                   /\ net = Told(job[Answer].to)
      BY <2>1, <2>5 DEF Moves
    <3>2. /\ (WsSet' <=> WsSet) /\ (WsDone' <=> WsDone)
          /\ (Resolves' <=> Resolves)
      BY <2>2, <2>3, <2>5, <3>1 DEF WsSet, WsDone, Resolves
    <3>3. job[Answer].to = "Healthy" => answer = "accepted"
      BY DEF JobInv
    <3>4. job[Answer].to = "Healthy" => job[Answer].todo = TellOn
      BY <3>1, <3>3 DEF JobInv
    <3>5. job'[Answer].todo # StateOn
      BY <3>1
    <3>6. net = "Basic" =>
            /\ job[Answer].to = "Healthy"
            /\ job'[Answer].todo \in {ResolveEnd, ClearEnd, Nothing}
      BY <3>4 DEF BeliefInv
    <3>7. job[Answer].to = "Healthy"
            /\ job'[Answer].todo \notin {TellOn, StoreOn} => net = "Basic"
      BY <3>1, <3>4, ToldFacts
    <3>8. job[Answer].todo # StateOn
      BY <3>1
    <3>9. QED
      BY <2>2, <2>3, <2>5, <3>2, <3>5, <3>6, <3>7, <3>8 DEF BeliefInv
  <2>6. CASE t \notin {"ws", Answer}
    BY <2>2, <2>3, <2>6 DEF BeliefInv, WsSet, WsDone, Resolves
  <2>7. QED
    BY <2>4, <2>5, <2>6
<1>18. ASSUME NEW t \in Threads, Store(t) PROVE BeliefInv'
  <2>1. \/ job[t].todo = StoreEnd /\ Moves(t, Nothing)
        \/ /\ t = Answer /\ job[t].todo = StoreOn /\ Moves(t, ResolveEnd)
           /\ answer # "foreign"
    BY <1>18, StoreMoves
  <2>2. CASE t = "ws" /\ job["ws"].todo = StoreEnd /\ Moves("ws", Nothing)
    <3>1. /\ job'["ws"].todo = Nothing /\ job'["ws"].to = job["ws"].to
          /\ UNCHANGED job[Answer]
      BY <2>2 DEF Moves
    <3>2. QED
      BY <1>18, <2>2, <3>1 DEF Store, Done, Rest, Told, JobInv, Jobs,
         States, SocketInv, PromiseInv, WsCleared,
         BeliefInv, WsSet, WsDone, Resolves
  <2>3. CASE /\ t = Answer /\ job[Answer].todo = StoreOn
            /\ answer # "foreign" /\ Moves(Answer, ResolveEnd)
    <3>1. /\ job'[Answer].todo = ResolveEnd
          /\ job'[Answer].to = job[Answer].to
          /\ UNCHANGED job["ws"]
      BY <2>3 DEF Moves
    <3>2. QED
      BY <1>18, <2>3, <3>1 DEF Store, Done, Rest, Told, JobInv, Jobs,
         States, SocketInv, PromiseInv, WsCleared,
         BeliefInv, WsSet, WsDone, Resolves
  <2>4. CASE /\ t = Answer /\ job[Answer].todo = StoreEnd
            /\ Moves(Answer, Nothing)
    <3>1. /\ job'[Answer].todo = Nothing
          /\ job'[Answer].to = job[Answer].to
          /\ UNCHANGED job["ws"]
      BY <2>4 DEF Moves
    <3>2. QED
      BY <1>18, <2>4, <3>1 DEF Store, Done, Rest, Told, JobInv, Jobs,
         States, SocketInv, PromiseInv, WsCleared,
         BeliefInv, WsSet, WsDone, Resolves
  <2>5. CASE /\ t \notin {"ws", Answer} /\ job[t].todo = StoreEnd
            /\ \E L \in Lists : Moves(t, L)
    <3>1. UNCHANGED <<job[Answer], job["ws"]>>
      BY <2>5 DEF Moves
    <3>2. QED
      BY <1>18, <2>5, <3>1 DEF Store, Done, Rest, Told, JobInv, Jobs,
         States, SocketInv, PromiseInv, WsCleared,
         BeliefInv, WsSet, WsDone, Resolves
  <2>6. Nothing \in Lists
    BY DEF Lists
  <2>7. QED
    BY <2>1, <2>2, <2>3, <2>4, <2>5, <2>6
<1>19. CASE UNCHANGED vars
  BY <1>19 DEF vars, netVars, stateVars, sceneVars, ends, JobInv, SocketInv,
         TypeOK, BeliefInv, WsSet, WsDone, Resolves, Starts, Job
<1>20. QED
  BY <1>1, <1>2, <1>3, <1>4, <1>5, <1>6, <1>7, <1>8, <1>9, <1>10, <1>11,
     <1>12, <1>13, <1>14, <1>15, <1>16, <1>17, <1>18,
     <1>19
     DEF Next, Parse, Step, Finished

(* The promise keeps its value, and the scene waits for it.                *)
LEMMA SceneKept ==
  ASSUME ConnectionInv, ~crashed, [Next]_vars
  PROVE  SceneMeansConnected'
<1> USE ThreadFacts, IdleFacts, ListsDiffer
    DEF netVars, stateVars, sceneVars, ends
<1> JobInv /\ TypeOK /\ SceneMeansConnected /\ PromiseInv
  BY DEF ConnectionInv
<1>1. CASE Connect
  BY <1>1 DEF Connect, FetchFails, BadAddress, InnerConnect, StoreHook,
         Register, Return, UseHook, Connects, PromiseInv, Stored,
         SceneMeansConnected
<1>2. CASE OnOpen
  BY <1>2 DEF OnOpen, Handles,
         SceneMeansConnected
<1>3. CASE OnFail
  BY <1>3 DEF OnFail, Handles, Fails,
         SceneMeansConnected
<1>4. CASE OnClose
  BY <1>4 DEF OnClose, Handles, Fails,
         SceneMeansConnected
<1>5. ASSUME NEW m \in Messages, OnMessage(m) PROVE SceneMeansConnected'
  BY <1>5 DEF OnMessage, Handles,
         SceneMeansConnected
<1>6. ASSUME NEW m \in Messages, ParseForeign(m) PROVE SceneMeansConnected'
  BY <1>6 DEF ParseForeign, Takes,
         SceneMeansConnected
<1>7. CASE ParseAnswer
  BY <1>7 DEF ParseAnswer, Takes,
         SceneMeansConnected
<1>8. ASSUME NEW m \in Messages, ParseGame(m) PROVE SceneMeansConnected'
  BY <1>8 DEF ParseGame, Takes,
         SceneMeansConnected
<1>9. ASSUME NEW m \in Messages, Skip(m) PROVE SceneMeansConnected'
  BY <1>9 DEF Skip, Takes,
         SceneMeansConnected
<1>10. CASE SendRequest
  BY <1>10 DEF SendRequest,
         SceneMeansConnected
<1>11. CASE FailureCallback
  BY <1>11 DEF FailureCallback,
         SceneMeansConnected
<1>12. CASE CreateScene \/ SetScene
  BY <1>12 DEF CreateScene, SetScene,
         SceneMeansConnected
<1>13. ASSUME NEW t \in Threads, Test(t) PROVE SceneMeansConnected'
  BY <1>13 DEF Test, Rest,
         SceneMeansConnected
<1>14. ASSUME NEW t \in Threads, Resolve(t) PROVE SceneMeansConnected'
  BY <1>14 DEF Resolve, Done, Rest,
         SceneMeansConnected
<1>15. ASSUME NEW t \in Threads, Clear(t) PROVE SceneMeansConnected'
  BY <1>15 DEF Clear, Done, Rest,
         SceneMeansConnected
<1>16. ASSUME NEW t \in Threads, SetState(t) PROVE SceneMeansConnected'
  BY <1>16 DEF SetState, Rest,
         SceneMeansConnected
<1>17. ASSUME NEW t \in Threads, Tell(t) PROVE SceneMeansConnected'
  BY <1>17 DEF Tell, Rest,
         SceneMeansConnected
<1>18. ASSUME NEW t \in Threads, Store(t) PROVE SceneMeansConnected'
  BY <1>18 DEF Store, Done, Rest,
         SceneMeansConnected
<1>19. CASE UNCHANGED vars
  BY <1>19 DEF vars, netVars, stateVars, sceneVars, ends,
         SceneMeansConnected
<1>20. QED
  BY <1>1, <1>2, <1>3, <1>4, <1>5, <1>6, <1>7, <1>8, <1>9, <1>10, <1>11,
     <1>12, <1>13, <1>14, <1>15, <1>16, <1>17, <1>18,
     <1>19
     DEF Next, Parse, Step, Finished

(* The types of all variables but job. *)
Typed ==
  /\ connector \in {"request", "noserver", "failed", "started", "stored",
                    "registered", "returned"}
  /\ result \in {"pending", "connected", "failed"}
  /\ hook \in BOOLEAN /\ crashed \in BOOLEAN /\ missed \in BOOLEAN
  /\ socket \in {"none", "opening", "open", "closed"}
  /\ request \in {"none", "queued", "sent", "lost"}
  /\ answer \in {"none", "accepted", "rejected", "foreign"}
  /\ at \in [Messages -> {"server", "queued", "parsed"}]
  /\ state \in States
  /\ {net, seen} \subseteq {"Disconnected", "Basic", "Malformed"}
  /\ scene \in {"startup", "created", "shown"}
  /\ delivered \subseteq Games

(* Every variable keeps its type.                                          *)
LEMMA TypesKept ==
  ASSUME ConnectionInv, ~crashed, [Next]_vars
  PROVE  Typed'
<1> USE ThreadFacts DEF netVars, stateVars, sceneVars, ends, Typed
<1> JobInv /\ Typed
  BY DEF ConnectionInv, TypeOK
<1>1. CASE Connect
  <2>1. CASE FetchFails \/ InnerConnect
    BY <2>1 DEF FetchFails, InnerConnect, Connects
  <2>2. CASE BadAddress
    BY <2>2 DEF BadAddress, Connects
  <2>3. CASE Register \/ Return
    <3>1. crashed' \in BOOLEAN
      BY <2>3 DEF Register, Return, UseHook
    <3>2. QED
      BY <2>3, <3>1 DEF Register, Return, UseHook, Connects
  <2>4. CASE StoreHook
    <3>1. hook' \in BOOLEAN
      BY <2>4 DEF StoreHook
    <3>2. /\ UNCHANGED <<result, netVars, stateVars, sceneVars, ends>>
          /\ connector' = "stored"
      BY <2>4 DEF StoreHook, Connects
    <3>3. QED
      BY <3>1, <3>2
  <2>5. QED
    BY <1>1, <2>1, <2>2, <2>3, <2>4 DEF Connect
<1>2. CASE OnOpen
  BY <1>2 DEF OnOpen, Handles, States
<1>3. CASE OnFail
  BY <1>3 DEF OnFail, Handles, Fails
<1>4. CASE OnClose
  BY <1>4 DEF OnClose, Handles, Fails
<1>5. ASSUME NEW m \in Messages, OnMessage(m) PROVE Typed'
  BY <1>5 DEF OnMessage, Handles
<1>6. ASSUME NEW m \in Messages, ParseForeign(m) PROVE Typed'
  BY <1>6 DEF ParseForeign, Takes
<1>7. CASE ParseAnswer
  BY <1>7 DEF ParseAnswer, Takes
<1>8. ASSUME NEW m \in Messages, ParseGame(m) PROVE Typed'
  BY <1>8 DEF ParseGame, Takes
<1>9. ASSUME NEW m \in Messages, Skip(m) PROVE Typed'
  BY <1>9 DEF Skip, Takes
<1>10. CASE SendRequest
  BY <1>10 DEF SendRequest
<1>11. CASE FailureCallback
  BY <1>11 DEF FailureCallback
<1>12. CASE CreateScene \/ SetScene
  BY <1>12 DEF CreateScene, SetScene
<1>13. ASSUME NEW t \in Threads, Test(t) PROVE Typed'
  BY <1>13 DEF Test, Rest
<1>14. ASSUME NEW t \in Threads, Resolve(t) PROVE Typed'
  <2>1. crashed' \in BOOLEAN
    BY <1>14 DEF Resolve
  <2>2. result' \in {"pending", "connected", "failed"}
    BY <1>14 DEF Resolve, JobInv, Jobs
  <2>3. UNCHANGED <<connector, hook, missed, netVars, stateVars, sceneVars>>
    BY <1>14 DEF Resolve, Done, Rest
  <2>4. QED
    BY <2>1, <2>2, <2>3
<1>15. ASSUME NEW t \in Threads, Clear(t) PROVE Typed'
  <2>1. hook' \in BOOLEAN
    BY <1>15 DEF Clear
  <2>2. UNCHANGED <<connector, result, netVars, stateVars, sceneVars, ends>>
    BY <1>15 DEF Clear, Done, Rest
  <2>3. QED
    BY <2>1, <2>2
<1>16. ASSUME NEW t \in Threads, SetState(t) PROVE Typed'
  BY <1>16 DEF SetState, Rest, JobInv, Jobs, States
<1>17. ASSUME NEW t \in Threads, Tell(t) PROVE Typed'
  <2>1. Told(job[t].to) \in {"Disconnected", "Basic", "Malformed"}
    BY ToldFacts DEF JobInv, Jobs
  <2>2. QED
    BY <1>17, <2>1 DEF Tell, Rest
<1>18. ASSUME NEW t \in Threads, Store(t) PROVE Typed'
  <2>1. Told(job[t].to) \in {"Disconnected", "Basic", "Malformed"}
    BY ToldFacts DEF JobInv, Jobs
  <2>2. QED
    BY <1>18, <2>1 DEF Store, Done, Rest
<1>19. CASE UNCHANGED vars
  BY <1>19 DEF vars, netVars, stateVars, sceneVars, ends
<1>20. QED
  BY <1>1, <1>2, <1>3, <1>4, <1>5, <1>6, <1>7, <1>8, <1>9, <1>10, <1>11,
     <1>12, <1>13, <1>14, <1>15, <1>16, <1>17, <1>18,
     <1>19
     DEF Next, Parse, Step, Finished

LEMMA ConnectionInvStep ==
  ASSUME ConnectionInv, [Next]_vars
  PROVE  ConnectionInv'
<1>1. CASE UNCHANGED vars
  <2> USE <1>1 DEF vars, netVars, stateVars, sceneVars, ends
  <2>1. TypeOK' <=> TypeOK
    BY DEF TypeOK, Quiet, Busy, TypedJob
  <2>2. SceneMeansConnected' <=> SceneMeansConnected
    BY DEF SceneMeansConnected
  <2>3. JobInv' <=> JobInv
    BY DEF JobInv, Stored
  <2>4. SocketInv' <=> SocketInv
    BY DEF SocketInv
  <2>5. PromiseInv' <=> PromiseInv
    BY DEF PromiseInv, Stored, WsCleared
  <2>6. BeliefInv' <=> BeliefInv
    BY DEF BeliefInv, WsSet, WsDone, Resolves
  <2>7. QED
    BY <2>1, <2>2, <2>3, <2>4, <2>5, <2>6 DEF ConnectionInv
<1>2. CASE ~crashed
  <2>1. JobInv' /\ SocketInv'
    BY <1>2, JobKept, SocketKept
  <2>2. ~crashed' => PromiseInv' /\ BeliefInv'
    BY <1>2, PromiseKept, BeliefKept
  <2>3. \A t \in Threads : TypedJob(t)'
    <3> SUFFICES ASSUME NEW t \in Threads PROVE TypedJob(t)'
      OBVIOUS
    <3>1. job'[t] \in Jobs
      BY <2>1 DEF JobInv
    <3>2. \A L \in Lists : Len(L) =< 4
      BY ONLY ListsShort
    <3>3. QED
      BY <3>1, <3>2 DEF TypedJob, Jobs, States
  <2>4. Typed' /\ SceneMeansConnected'
    BY <1>2, TypesKept, SceneKept
  <2>5. socket' = "none" => Quiet'
    <3> SUFFICES ASSUME socket' = "none" PROVE Quiet'
      OBVIOUS
    <3>1. /\ \A m \in Messages : job'[m] = Idle
          /\ job'["ws"] = Idle
          /\ job'["failure"].todo = Nothing
      BY <2>1, ThreadFacts DEF JobInv, SocketInv, Stored
    <3>2. \A t \in Threads : job'[t].todo = Nothing
      BY <3>1, ThreadFacts, IdleFacts
    <3>3. QED
      BY <3>2 DEF Quiet, Busy, Nothing
  <2>6. TypeOK'
    BY <2>3, <2>4, <2>5 DEF Typed, TypeOK
  <2>7. QED
    BY <2>1, <2>2, <2>4, <2>6 DEF ConnectionInv
<1>3. QED
  BY <1>1, <1>2 DEF Next, Finished, ConnectionInv, TypeOK

(* The inductive invariant: which thread may be in which list of accesses, *)
(* what comes before what in the life of the socket, who holds the         *)
(* promise, and what WsClient and the game believe.                        *)
THEOREM ConnectionInvariant == Spec => []ConnectionInv
<1>1. ConnectionInv /\ [Next]_vars => ConnectionInv'
  BY ConnectionInvStep
<1>2. QED
  BY ConnectionInvInit, <1>1, PTL DEF Spec

-----------------------------------------------------------------------------
(* What follows from it *)

(* Every variable has its type, every list of accesses is one of at most   *)
(* four, and nobody has a job before there is a socket.                    *)
THEOREM ConnectionTyped == Spec => []TypeOK
<1>1. ConnectionInv => TypeOK
  BY DEF ConnectionInv
<1>2. QED
  BY <1>1, ConnectionInvariant, PTL

(* The game's scene is made only for a connection the server accepted: the *)
(* promise has the value "connected" only from the task of an answer that  *)
(* accepts.                                                                *)
THEOREM SceneAccepted == Spec => []SceneMeansAccepted
<1>1. ConnectionInv => SceneMeansAccepted
  BY ThreadFacts
     DEF ConnectionInv, SceneMeansConnected, JobInv, SceneMeansAccepted
<1>2. QED
  BY <1>1, ConnectionInvariant, PTL

(* Thread t has set state_ and has yet to tell it, or to store what it     *)
(* told.                                                                   *)
Telling(t) == job[t].todo \in {TellOn, TellEnd, StoreOn, StoreEnd}

(* While the connection is not closed, whoever is telling tells the state  *)
(* WsClient is in, and if nobody is, NetClient's is the one that belongs.  *)
ToldInv ==
  ~crashed /\ socket # "closed" =>
    /\ \A t \in Threads : Telling(t) => job[t].to = state
    /\ (\A t \in Threads : ~Telling(t)) => net = Told(state)

(* While the connection is not closed, those that have jobs agree on the   *)
(* state it is to be in.                                                   *)
LEMMA OneState ==
  ASSUME ConnectionInv, ~crashed, socket # "closed",
         NEW t \in Threads, job[t].todo # Nothing,
         NEW u \in Threads, job[u].todo # Nothing
  PROVE  job[t].to = job[u].to
<1> JobInv /\ SocketInv /\ PromiseInv /\ TypeOK
  BY DEF ConnectionInv
<1> USE ThreadFacts, IdleFacts
<1>1. job["ws"].todo = Nothing
  BY DEF SocketInv
<1>2. \A v \in Threads : job[v].todo # Nothing =>
        job[v].to \in {"Healthy", "Misconfigured"}
  BY <1>1 DEF JobInv, Jobs, States
<1>3. \A v \in Threads : job[v].to = "Healthy" =>
        v = Answer /\ answer = "accepted"
  BY DEF JobInv
<1>4. job[Answer].to = "Healthy" =>
        \A v \in Threads : job[v].todo # Nothing => v = Answer
  <2> SUFFICES ASSUME job[Answer].to = "Healthy",
                      NEW v \in Threads, job[v].todo # Nothing, v # Answer
               PROVE  FALSE
    OBVIOUS
  <2>1. answer = "accepted"
    BY <1>3
  <2>2. v \notin Games
    BY <2>1 DEF JobInv
  <2>3. v = "failure"
    BY <1>1, <2>2
  <2>4. QED
    BY <2>3 DEF PromiseInv
<1>5. QED
  BY <1>2, <1>3, <1>4

(* A step that leaves both states alone and starts or stops no telling.    *)
LEMMA ToldFrame ==
  ASSUME ToldInv, ~crashed, socket' # "closed" => socket # "closed",
         UNCHANGED <<state, net>>,
         \A t \in Threads :
           /\ Telling(t)' <=> Telling(t)
           /\ Telling(t) => job'[t].to = job[t].to
  PROVE  ToldInv'
BY DEF ToldInv

(* A thread that does nothing is not telling. *)
LEMMA TellingFacts ==
  \A t \in Threads : Telling(t) => job[t].todo # Nothing
BY ListsDiffer DEF Telling

LEMMA ToldStep ==
  ASSUME ConnectionInv, ToldInv, ~crashed, [Next]_vars, ~crashed'
  PROVE  ToldInv'
<1> USE ThreadFacts, IdleFacts
    DEF netVars, stateVars, sceneVars, ends
<1> JobInv /\ SocketInv /\ TypeOK /\ PromiseInv
  BY DEF ConnectionInv
<1> SUFFICES ASSUME socket' # "closed" PROVE ToldInv'
  BY DEF ToldInv
<1>1. CASE UNCHANGED <<state, net, job>> /\ socket # "closed"
  BY <1>1, ToldFrame DEF Telling
<1>2. CASE OnOpen
  <2>1. \A t \in Threads : job[t].todo = Nothing
    <3>1. socket = "opening"
      BY <1>2 DEF OnOpen, Handles
    <3>2. QED
      BY <3>1, BusyMeansOpened
  <2>2. \A t \in Threads : ~Telling(t)'
    BY <1>2, <2>1, ListsDiffer DEF OnOpen, Telling
  <2>3. state = "None"
    BY <1>2 DEF OnOpen, Handles, SocketInv
  <2>4. net' = Told(state')
    BY <1>2, <2>3, ToldFacts DEF OnOpen
  <2>5. QED
    BY <2>2, <2>4 DEF ToldInv
<1>3. ASSUME NEW t \in Threads, NEW to, NEW value,
             NEW L \in {StateOn, StateEnd},
             Starts(t, L, to, value), job[t] = Idle,
             UNCHANGED <<state, net, socket>>
      PROVE  ToldInv'
  <2>1. job[t].todo = Nothing /\ job'[t].todo = L
    BY <1>3 DEF Starts, Job
  <2>2. ~Telling(t) /\ ~Telling(t)'
    BY <2>1, <1>3, ListsDiffer DEF Telling
  <2>3. \A u \in Threads \ {t} : job'[u] = job[u]
    BY <1>3 DEF Starts
  <2>4. QED
    BY <1>3, <2>2, <2>3, ToldFrame DEF Telling
<1>4. ASSUME NEW m \in Messages, Parse(m) PROVE ToldInv'
  <2>1. job[m] = Idle
    BY <1>4 DEF Parse, ParseForeign, ParseAnswer, ParseGame, Skip, Takes,
       JobInv
  <2>2. CASE ParseForeign(m)
    <3>1. Starts(m, StateEnd, "Misconfigured", "failed")
      BY <2>2, ForeignStarts
    <3>2. QED
      BY <1>3, <2>1, <2>2, <3>1 DEF ParseForeign, Takes
  <2>3. CASE m = Answer /\ ParseAnswer
    <3>1. \E to, value : Starts(Answer, StateOn, to, value)
      BY <2>3, AnswerStarts
    <3>2. QED
      BY <1>3, <2>1, <2>3, <3>1 DEF ParseAnswer, Takes
  <2>4. CASE ParseGame(m) \/ Skip(m)
    BY <1>1, <2>4 DEF ParseGame, Skip, Takes
  <2>5. QED
    BY <1>4, <2>2, <2>3, <2>4 DEF Parse
<1>5. CASE FailureCallback
  <2>1. Starts("failure", StateEnd, "Misconfigured", "failed")
    BY <1>5, CallbackStarts
  <2>2. QED
    BY <1>3, <1>5, <2>1 DEF FailureCallback
<1>6. ASSUME NEW t \in Threads, NEW L, Moves(t, L), ~Telling(t),
             L \notin {TellOn, TellEnd, StoreOn, StoreEnd},
             UNCHANGED <<state, net, socket>>
      PROVE  ToldInv'
  <2>1. \A u \in Threads \ {t} : job'[u] = job[u]
    BY <1>6 DEF Moves
  <2>2. ~Telling(t)'
    BY <1>6 DEF Moves, Telling
  <2>3. QED
    BY <1>6, <2>1, <2>2, ToldFrame DEF Telling
<1>7. ASSUME NEW t \in Threads, Test(t) \/ Resolve(t) \/ Clear(t)
      PROVE  ToldInv'
  <2>1. \E L \in {ResolveOn, StateEnd, ClearOn, ClearEnd, Nothing} :
          Moves(t, L)
    BY <1>7, TestMoves, ResolveMoves, ClearMoves
  <2>2. job[t].todo \in {TestOn, ResolveOn, ResolveEnd, ClearOn, ClearEnd}
    BY <1>7, TestMoves, ResolveMoves, ClearMoves
  <2>3. ~Telling(t)
    BY <2>2, ListsDiffer DEF Telling
  <2>4. UNCHANGED <<state, net, socket>>
    BY <1>7 DEF Test, Resolve, Clear, Done, Rest
  <2>5. \A L \in {ResolveOn, StateEnd, ClearOn, ClearEnd, Nothing} :
          L \notin {TellOn, TellEnd, StoreOn, StoreEnd}
    BY ListsDiffer
  <2>6. QED
    BY <1>6, <2>1, <2>3, <2>4, <2>5
<1>8. ASSUME NEW t \in Threads, SetState(t) PROVE ToldInv'
  <2>1. \/ state = job[t].to /\ \E L \in {Nothing, ResolveEnd} : Moves(t, L)
        \/ state # job[t].to /\ \E L \in {TellEnd, TellOn} : Moves(t, L)
    BY <1>8, SetStateMoves
  <2>2. job[t].todo \in {StateOn, StateEnd}
    BY <1>8, SetStateMoves
  <2>3. job[t].todo # Nothing /\ ~Telling(t)
    BY <2>2, ListsDiffer DEF Telling
  <2>4. state' = job[t].to /\ UNCHANGED <<net, socket>>
    BY <1>8 DEF SetState, Rest
  <2>5. CASE state = job[t].to
    <3>1. \A L \in {Nothing, ResolveEnd} :
            L \notin {TellOn, TellEnd, StoreOn, StoreEnd}
      BY ListsDiffer
    <3>2. \E L \in {Nothing, ResolveEnd} : Moves(t, L)
      BY <2>1, <2>5
    <3>3. UNCHANGED state
      BY <2>4, <2>5
    <3>4. QED
      BY <1>6, <2>3, <2>4, <3>1, <3>2, <3>3
  <2>6. CASE state # job[t].to
    <3>1. /\ job'[t].todo \in {TellEnd, TellOn}
          /\ job'[t].to = job[t].to
          /\ \A u \in Threads \ {t} : job'[u] = job[u]
      BY <2>1, <2>6 DEF Moves
    <3>2. \A u \in Threads : job[u].todo # Nothing => job[u].to = job[t].to
      BY <2>3, <2>4, OneState
    <3>3. \A u \in Threads : Telling(u)' => job'[u].to = state'
      BY <2>4, <3>1, <3>2, TellingFacts DEF Telling
    <3>4. Telling(t)'
      BY <3>1 DEF Telling
    <3>5. QED
      BY <3>3, <3>4 DEF ToldInv
  <2>7. QED
    BY <2>5, <2>6
<1>9. ASSUME NEW t \in Threads, Tell(t) \/ Store(t) PROVE ToldInv'
  <2>1. Telling(t)
    BY <1>9, TellMoves, StoreMoves DEF Telling
  <2>2. UNCHANGED <<state, socket>>
    BY <1>9 DEF Tell, Store, Done, Rest
  <2>3. job[t].to = state
    BY <2>1, <2>2 DEF ToldInv
  <2>4. \/ net' = Told(job[t].to)
        \/ Tell(t) /\ \E L \in {StoreEnd, StoreOn} : Moves(t, L)
    BY <1>9, TellMoves DEF Tell, Store
  <2>5. /\ job'[t].to = job[t].to
        /\ \A u \in Threads \ {t} : job'[u] = job[u]
    BY <1>9, TellMoves, StoreMoves DEF Moves
  <2>6. \A u \in Threads : Telling(u)' => job'[u].to = state'
    BY <2>2, <2>3, <2>5 DEF ToldInv, Telling
  <2>7. net' = Told(state') \/ Telling(t)'
    BY <2>2, <2>3, <2>4 DEF Moves, Telling
  <2>8. QED
    BY <2>6, <2>7 DEF ToldInv
<1>10. CASE Connect
  <2>1. CASE InnerConnect
    BY <1>1, <2>1 DEF InnerConnect, Connects, SocketInv
  <2>2. CASE FetchFails \/ BadAddress \/ StoreHook \/ Register \/ Return
    BY <1>1, <2>2 DEF FetchFails, BadAddress, StoreHook, Register, Return,
       UseHook
  <2>3. QED
    BY <1>10, <2>1, <2>2 DEF Connect
<1>11. ASSUME NEW m \in Messages, OnMessage(m) PROVE ToldInv'
  BY <1>1, <1>11 DEF OnMessage, Handles
<1>12. CASE OnFail \/ OnClose
  BY <1>12 DEF OnFail, OnClose, Handles
<1>13. CASE SendRequest \/ CreateScene \/ SetScene
  BY <1>1, <1>13 DEF SendRequest, CreateScene, SetScene
<1>14. CASE UNCHANGED vars
  BY <1>1, <1>14 DEF vars
<1>15. QED
  BY <1>2, <1>4, <1>5, <1>7, <1>8, <1>9, <1>10, <1>11, <1>12, <1>13, <1>14
     DEF Next, Step, Finished

(* What the scene has heard.                                               *)
SeenInv == seen = "Disconnected"

(* Whoever tells anything once the scene is there tells the end of the     *)
(* connection: the answer's task is past its telling, and the others have  *)
(* something to tell of a connection that was not accepted only.           *)
LEMMA TellsTheEnd ==
  ASSUME ConnectionInv, ~crashed, scene # "startup",
         NEW t \in Threads, Tell(t)
  PROVE  Told(job[t].to) = "Disconnected"
<1> JobInv /\ SocketInv /\ TypeOK /\ PromiseInv /\ SceneMeansConnected
  BY DEF ConnectionInv
<1> USE ThreadFacts, ListsDiffer
<1>1. job[t].todo \in {TellOn, TellEnd}
  BY TellMoves
<1>2. /\ result = "connected" /\ job[Answer].to = "Healthy"
      /\ job[Answer].todo \in {ClearEnd, Nothing}
  BY DEF SceneMeansConnected, JobInv
<1>3. answer = "accepted"
  BY <1>2 DEF JobInv
<1>4. t # Answer
  BY <1>1, <1>2
<1>5. t \notin Games
  BY <1>1, <1>3 DEF JobInv
<1>6. t # "failure"
  BY <1>1, <1>2 DEF PromiseInv
<1>7. t = "ws"
  BY <1>4, <1>5, <1>6
<1>8. job["ws"].to = "None"
  BY <1>3, <1>4, <1>7 DEF SocketInv, JobInv, Jobs, States
<1>9. QED
  BY <1>7, <1>8, ToldFacts

LEMMA SeenStep ==
  ASSUME ConnectionInv, SeenInv, ~crashed, [Next]_vars
  PROVE  SeenInv'
<1> USE DEF netVars, stateVars, sceneVars, ends, SeenInv
<1>1. CASE Connect
  BY <1>1 DEF Connect, FetchFails, BadAddress, InnerConnect, StoreHook,
     Register, Return, UseHook
<1>2. CASE OnOpen \/ OnFail \/ OnClose
  BY <1>2 DEF OnOpen, OnFail, OnClose, Fails
<1>3. ASSUME NEW m \in Messages, OnMessage(m) \/ Parse(m) PROVE SeenInv'
  BY <1>3 DEF OnMessage, Parse, ParseForeign, ParseAnswer, ParseGame, Skip,
     Takes
<1>4. CASE SendRequest \/ FailureCallback \/ CreateScene \/ SetScene
  BY <1>4 DEF SendRequest, FailureCallback, CreateScene, SetScene
<1>5. ASSUME NEW t \in Threads, Tell(t) PROVE SeenInv'
  <2>1. scene # "startup" => Told(job[t].to) = "Disconnected"
    BY <1>5, TellsTheEnd
  <2>2. QED
    BY <1>5, <2>1 DEF Tell
<1>6. ASSUME NEW t \in Threads,
             Test(t) \/ Resolve(t) \/ Clear(t) \/ SetState(t) \/ Store(t)
      PROVE  SeenInv'
  BY <1>6 DEF Test, Resolve, Clear, SetState, Store
<1>7. CASE UNCHANGED vars
  BY <1>7 DEF vars
<1>8. QED
  BY <1>1, <1>2, <1>3, <1>4, <1>5, <1>6, <1>7 DEF Next, Step, Finished

BeliefsInv == ConnectionInv /\ ToldInv /\ SeenInv

(* The inductive invariant of what is believed: who is telling what while  *)
(* the connection is not closed, and what the scene may hear.              *)
LEMMA Beliefs == Spec => []BeliefsInv
<1>1. Init => BeliefsInv
  <2> SUFFICES ASSUME Init PROVE BeliefsInv
    OBVIOUS
  <2>1. net = Told(state)
    BY ToldFacts DEF Init
  <2>2. \A t \in Threads : ~Telling(t)
    BY IdleFacts, ListsDiffer DEF Init, Telling
  <2>3. QED
    BY <2>1, <2>2, ConnectionInvInit DEF Init, BeliefsInv, ToldInv, SeenInv
<1>2. BeliefsInv /\ [Next]_vars => BeliefsInv'
  <2> SUFFICES ASSUME BeliefsInv, [Next]_vars PROVE BeliefsInv'
    OBVIOUS
  <2>1. ConnectionInv /\ ToldInv /\ SeenInv
    BY DEF BeliefsInv
  <2>2. ConnectionInv'
    BY <2>1, ConnectionInvStep
  <2>3. CASE ~crashed
    <3>1. ~crashed' => ToldInv'
      BY <2>1, <2>3, ToldStep
    <3>2. SeenInv'
      BY <2>1, <2>3, SeenStep
    <3>3. QED
      BY <2>2, <3>1, <3>2 DEF BeliefsInv, ToldInv
  <2>4. CASE crashed
    <3>1. UNCHANGED vars
      BY <2>4 DEF Next, Finished
    <3>2. crashed' /\ SeenInv'
      BY <2>1, <2>4, <3>1 DEF vars, ends, stateVars, SeenInv
    <3>3. QED
      BY <2>2, <3>2 DEF BeliefsInv, ToldInv
  <2>5. QED
    BY <2>3, <2>4
<1>3. QED
  BY <1>1, <1>2, PTL DEF Spec

(* While the socket is open nothing is under way, the answer accepted and  *)
(* the promise not failed mean that both states say so; once it is closed  *)
(* and the handler is done, neither can, for the task that would say so    *)
(* has no promise left to resolve.                                         *)
LEMMA QuietAgrees ==
  ASSUME ConnectionInv, Quiet, ~crashed, ~missed
  PROVE  /\ (net = "Basic") <=> (state = "Healthy")
         /\ socket = "closed" => state # "Healthy"
<1> JobInv /\ SocketInv /\ TypeOK /\ PromiseInv /\ BeliefInv
  BY DEF ConnectionInv
<1> USE ThreadFacts, ListsDiffer
<1>1. \A t \in Threads : job[t].todo = Nothing
  BY DEF Quiet, Busy, Nothing
<1>2. ~Resolves
  BY <1>1 DEF Resolves
<1>3. CASE socket = "closed"
  <2>1. WsSet /\ WsDone
    BY <1>1, <1>3 DEF WsSet, WsDone
  <2>2. QED
    BY <1>2, <2>1 DEF BeliefInv
<1>4. CASE socket # "closed"
  <2>1. ~WsSet
    BY <1>4 DEF WsSet
  <2>2. CASE job[Answer].to = "Healthy"
    <3>1. result # "failed"
      BY <1>4, <2>2 DEF PromiseInv
    <3>2. job[Answer].todo \notin {StateOn, TellOn, StoreOn}
      BY <1>1
    <3>3. QED
      BY <1>4, <2>1, <2>2, <3>1, <3>2 DEF BeliefInv
  <2>3. CASE job[Answer].to # "Healthy"
    BY <1>4, <2>3 DEF BeliefInv
  <2>4. QED
    BY <2>2, <2>3
<1>5. QED
  BY <1>3, <1>4

(* Whenever no job is under way, and the end of the connection was not     *)
(* handled before connect stored the promise, NetClient's state and        *)
(* WsClient's agree on whether the connection is healthy and, while it is  *)
(* not closed, in everything; a closed connection is not believed to be    *)
(* healthy: in whatever order handlers and tasks have set the two states.  *)
(* The scene hears of no state but the end of the connection.              *)
THEOREM ConnectionAgrees == Spec => []Connectedness
<1>1. BeliefsInv => Connectedness
  <2> SUFFICES ASSUME BeliefsInv PROVE Connectedness
    OBVIOUS
  <2>1. ConnectionInv /\ ToldInv /\ seen = "Disconnected"
    BY DEF BeliefsInv, SeenInv
  <2>2. ASSUME Quiet, ~crashed, ~missed
        PROVE  /\ (net = "Basic") <=> (state = "Healthy")
               /\ socket = "closed" => state # "Healthy"
    BY <2>1, <2>2, QuietAgrees
  <2>3. ASSUME Quiet, ~crashed, socket # "closed" PROVE net = Told(state)
    <3>1. \A t \in Threads : ~Telling(t)
      BY <2>3, ListsDiffer DEF Quiet, Busy, Telling, Nothing
    <3>2. QED
      BY <2>1, <2>3, <3>1 DEF ToldInv
  <2>4. QED
    BY <2>1, <2>2, <2>3 DEF Connectedness
<1>2. QED
  BY <1>1, Beliefs, PTL

(* The task of an answer that finds no promise: connect has not stored it, *)
(* or the handler of the end of the connection has cleared it.             *)
LEMMA CrashStep ==
  ASSUME ConnectionInv, [Next]_vars
  PROVE  [ crashed' => connector' # "returned" \/ connector # "returned"
                         \/ socket = "closed" ]_vars
<1> SUFFICES ASSUME ~(UNCHANGED vars), crashed', connector = "returned",
                    connector' = "returned", socket # "closed"
             PROVE  FALSE
  OBVIOUS
<1> USE DEF ends
<1>1. ~crashed /\ Next /\ ~Finished
  BY DEF Next, Finished
<1> JobInv /\ PromiseInv /\ TypeOK
  BY <1>1 DEF ConnectionInv
<1>2. PICK t \in Threads : Resolve(t)
  <2>1. CASE Connect
    BY <2>1 DEF Connect, FetchFails, BadAddress, InnerConnect, StoreHook,
       Register, Return, UseHook, Connects
  <2>2. CASE OnOpen \/ OnFail \/ OnClose
    BY <1>1, <2>2 DEF OnOpen, OnFail, OnClose, Fails
  <2>3. CASE \E m \in Messages : OnMessage(m) \/ Parse(m)
    BY <1>1, <2>3 DEF OnMessage, Parse, ParseForeign, ParseAnswer, ParseGame,
       Skip, Takes
  <2>4. CASE SendRequest \/ FailureCallback \/ CreateScene \/ SetScene
    BY <1>1, <2>4 DEF SendRequest, FailureCallback, CreateScene, SetScene
  <2>5. CASE \E t \in Threads : Step(t)
    BY <1>1, <2>5 DEF Step, Test, Clear, SetState, Tell, Store
  <2>6. QED
    BY <1>1, <2>1, <2>2, <2>3, <2>4, <2>5 DEF Next
<1>3. ~hook
  BY <1>2 DEF Resolve
<1>4. t = Answer /\ job[Answer].todo = ResolveEnd
  <2>1. t = "ws" => job["ws"].todo = ResolveOn
    BY <1>2, ResolveMoves, ThreadFacts
  <2>2. SocketInv
    BY DEF ConnectionInv
  <2>3. t # "ws"
    BY <2>1, <2>2, IdleFacts, ListsDiffer DEF SocketInv
  <2>4. QED
    BY <1>2, <2>3, ResolveMoves
<1>5. QED
  BY <1>3, <1>4, ListsDiffer DEF PromiseInv, Stored, WsCleared

(* A null pointer is dereferenced only before connect has returned or once *)
(* the connection is closed.                                               *)
THEOREM CrashesExplained == Spec => CrashExplained
<1>1. ConnectionInv /\ [Next]_vars =>
        [ crashed' => connector' # "returned" \/ connector # "returned"
                        \/ socket = "closed" ]_vars
  BY CrashStep
<1>2. QED
  BY <1>1, ConnectionInvariant, PTL DEF Spec, CrashExplained

(* While the scene is there and the connection is open, WsClient is        *)
(* healthy, so that a message is given to the scene's listener.            *)
LEMMA SceneMeansHealthy ==
  ASSUME ConnectionInv, ~crashed, scene # "startup", socket # "closed"
  PROVE  state = "Healthy"
<1> JobInv /\ BeliefInv /\ SceneMeansConnected
  BY DEF ConnectionInv
<1>1. result = "connected" /\ ~WsSet
  BY DEF SceneMeansConnected, WsSet
<1>2. job[Answer].to = "Healthy" /\ job[Answer].todo \in {ClearEnd, Nothing}
  BY <1>1 DEF JobInv
<1>3. QED
  BY <1>1, <1>2, ListsDiffer DEF BeliefInv

LEMMA LossStep ==
  ASSUME ConnectionInv, [Next]_vars
  PROVE  [ \A m \in Games :
             at[m] = "queued" /\ at'[m] = "parsed" /\ answer = "accepted"
               /\ m \notin delivered'
             => state = "New" \/ scene = "startup" \/ socket = "closed" ]_vars
<1> SUFFICES ASSUME ~(UNCHANGED vars), NEW g \in Games,
                    at[g] = "queued", at'[g] = "parsed",
                    answer = "accepted", g \notin delivered',
                    state # "New", scene # "startup", socket # "closed"
             PROVE  FALSE
  OBVIOUS
<1>1. ~crashed /\ Next /\ ~Finished
  BY DEF Next, Finished
<1> TypeOK
  BY DEF ConnectionInv
<1>2. state = "Healthy"
  BY <1>1, SceneMeansHealthy
<1>3. PICK m \in Messages : Takes(m) /\ Parse(m)
  <2> USE DEF netVars
  <2>1. CASE Connect
    BY <2>1 DEF Connect, FetchFails, BadAddress, InnerConnect, StoreHook,
       Register, Return, UseHook
  <2>2. CASE OnOpen \/ OnFail \/ OnClose
    BY <2>2 DEF OnOpen, OnFail, OnClose, Fails
  <2>3. CASE \E m \in Messages : OnMessage(m)
    BY <2>3 DEF OnMessage, TypeOK
  <2>4. CASE \E m \in Messages : Parse(m)
    BY <2>4 DEF Parse, ParseForeign, ParseAnswer, ParseGame, Skip
  <2>5. CASE SendRequest \/ FailureCallback \/ CreateScene \/ SetScene
    BY <2>5 DEF SendRequest, FailureCallback, CreateScene, SetScene
  <2>6. CASE \E t \in Threads : Step(t)
    BY <2>6 DEF Step, Test, Resolve, Clear, SetState, Tell, Store, Done, Rest
  <2>7. QED
    BY <1>1, <2>1, <2>2, <2>3, <2>4, <2>5, <2>6 DEF Next
<1>4. m = g
  BY <1>3 DEF Takes, TypeOK, Messages
<1>5. ParseGame(g)
  BY <1>2, <1>3, <1>4, ThreadFacts
     DEF Parse, ParseForeign, ParseAnswer, Skip
<1>6. QED
  BY <1>5 DEF ParseGame

(* A message of the game is lost only while the client has not read the    *)
(* server's answer, before the scene is made, or around the end of the     *)
(* connection.                                                             *)
THEOREM LossesExplained == Spec => LossExplained
<1>1. ConnectionInv /\ [Next]_vars =>
        [ \A m \in Games :
            at[m] = "queued" /\ at'[m] = "parsed" /\ answer = "accepted"
              /\ m \notin delivered'
            => state = "New" \/ scene = "startup" \/ socket = "closed" ]_vars
  BY LossStep
<1>2. QED
  BY <1>1, ConnectionInvariant, PTL DEF Spec, LossExplained

=============================================================================
