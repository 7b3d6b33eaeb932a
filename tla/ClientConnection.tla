-------------------------- MODULE ClientConnection --------------------------
(***************************************************************************)
(* How the native client gets its connection to the game server, from the  *)
(* request to the API to the first scene of the game: build.cc,            *)
(* net_client.cc, ws_client_base.cc, ws_client_native.cc and               *)
(* app_startup_scene.cc.                                                   *)
(*                                                                         *)
(* Three kinds of threads meet in WsClient without a lock: the one that    *)
(* connects, the thread of the WebSocket library ("ws"), whose handlers    *)
(* run one after the other, and those that run the tasks in which messages *)
(* are parsed and the callbacks of the connection promise are called.  A   *)
(* handler or a task is a job: a list of accesses to the shared fields.    *)
(* There are as many threads for tasks as there are tasks.                 *)
(*                                                                         *)
(* The server is WsServer's: it answers or closes (NoLimbo there), and the *)
(* game's messages come after the answer.  A server of another version     *)
(* sends messages with another magic number, "foreign" ones.               *)
(***************************************************************************)
EXTENDS Naturals, Sequences

CONSTANTS
  Answer,  (* the server's InitialConnectionResponse, a message            *)
  Games    (* messages of the game                                         *)

ASSUME ConnectionAssumption ==
  /\ Answer \notin Games
  /\ {"ws", "failure"} \cap (Games \cup {Answer}) = {}

Messages == Games \cup {Answer}

Threads == Messages \cup {"ws", "failure"}

VARIABLES
  connector,  (* where build_net_client and connect are                    *)
  result,     (* the connection promise: "pending", "connected", "failed"   *)
  hook,       (* on_connect_promise_ is not null                           *)
  socket,     (* "none", "opening", "open", "closed"                       *)
  request,    (* InitialConnectionRequest: "none", "queued", "sent"        *)
  answer,     (* "none", "accepted", "rejected", "foreign"                 *)
  at,         (* where each message is: "server", "queued", "parsed"       *)
  job,        (* what each thread has left to do                           *)
  state,      (* state_ of WsClient                                        *)
  net,        (* state_ of NetClient                                       *)
  seen,       (* connection_state_ of PveGameScene, which nothing reads    *)
  scene,      (* "startup"; "created" and "shown": the PvE scene           *)
  delivered,  (* messages the scene's listener was given                   *)
  crashed,    (* a null pointer was dereferenced                           *)
  missed      (* history: a failure was handled before connect stored hook *)

netVars   == <<socket, request, answer, at>>
stateVars == <<state, net, seen>>
sceneVars == <<scene, delivered>>
ends      == <<crashed, missed>>
vars      == <<connector, result, hook, netVars, job, stateVars, sceneVars,
               ends>>

Idle == [todo |-> <<>>, to |-> "None", value |-> "failed"]

Job(todo, to, value) == [todo |-> todo, to |-> to, value |-> value]

Busy(t) == job[t].todo # <<>>

Quiet == \A t \in Threads : ~Busy(t)

Init ==
  /\ connector = "request"
  /\ result = "pending"
  /\ hook = FALSE
  /\ socket = "none"
  /\ request = "none"
  /\ answer = "none"
  /\ at = [m \in Messages |-> "server"]
  /\ job = [t \in Threads |-> Idle]
  /\ state = "None"
  /\ net = "Disconnected"
  /\ seen = "Disconnected"
  /\ scene = "startup"
  /\ delivered = {}
  /\ crashed = FALSE
  /\ missed = FALSE

-----------------------------------------------------------------------------
(* The thread that connects: a callback of the API request calls           *)
(* build_net_client, and that NetClient::connect and WsClient::connect.    *)

Connects(from, to) == connector = from /\ connector' = to

(* no server, or an answer that cannot be read *)
FetchFails ==
  /\ Connects("request", "noserver")
  /\ UNCHANGED <<result, hook, netVars, job, stateVars, sceneVars, ends>>

(* inner_connect goes on with the null pointer it gets for a bad address *)
BadAddress ==
  /\ Connects("request", "failed")
  /\ result' = "failed"
  /\ crashed' = TRUE
  /\ UNCHANGED missed
  /\ UNCHANGED <<hook, netVars, job, stateVars, sceneVars>>

(* mutant: the promise has its value once the attempt is under way         *)
InnerConnectWeb ==
  /\ Connects("request", "started")
  /\ socket' = "opening"
  /\ result' = "connected"
  /\ UNCHANGED <<hook, request, answer, at, job, stateVars, sceneVars, ends>>

(* inner_connect: the thread of the library is running from now on *)
InnerConnect ==
  /\ Connects("request", "started")
  /\ socket' = "opening"
  /\ UNCHANGED <<result, hook, request, answer, at, job, stateVars, sceneVars,
                 ends>>

(* on_connect_promise_ = inner_connect(ws_url) *)
StoreHook ==
  /\ Connects("started", "stored")
  /\ hook' = TRUE
  /\ UNCHANGED <<result, netVars, job, stateVars, sceneVars, ends>>

(* on_connect_promise_->on_success, and then with what connect returns:    *)
(* both read the field again                                               *)
UseHook(from, to) ==
  /\ Connects(from, to)
  /\ crashed' = ~hook
  /\ UNCHANGED missed
  /\ UNCHANGED <<result, hook, netVars, job, stateVars, sceneVars>>

Register == UseHook("stored", "registered")

Return == UseHook("registered", "returned")

Connect == FetchFails \/ BadAddress \/ InnerConnect \/ StoreHook \/ Register
             \/ Return

-----------------------------------------------------------------------------
(* The thread of the WebSocket library *)

Handles(from, to) ==
  /\ ~Busy("ws")
  /\ socket = from
  /\ socket' = to

(* on_connect *)
OnOpen ==
  /\ Handles("opening", "open")
  /\ IF state = "None"
     THEN /\ state' = "New" /\ net' = "Disconnected" /\ request' = "queued"
          /\ UNCHANGED seen
     ELSE UNCHANGED <<stateVars, request>>
  /\ UNCHANGED <<connector, result, hook, answer, at, job, sceneVars, ends>>

(* mutant: the promise is forgotten without a value                        *)
FailsSilently(to) ==
  /\ job' = [job EXCEPT !["ws"] =
               Job(<<"test", "clear", "state">>, to, "failed")]
  /\ UNCHANGED <<connector, result, hook, request, answer, at, stateVars,
                 sceneVars, ends>>

(* on_error and on_disconnect *)
Fails(to) ==
  /\ job' = [job EXCEPT !["ws"] =
               Job(<<"test", "resolve", "clear", "state">>, to, "failed")]
  /\ UNCHANGED <<connector, result, hook, request, answer, at, stateVars,
                 sceneVars, ends>>

OnFail == Handles("opening", "closed") /\ Fails("Misconfigured")

(* mutant: on_close forgets the connection before its handler              *)
OnCloseForgets == Handles("open", "none") /\ Fails("None")

OnClose == Handles("open", "closed") /\ Fails("None")

(* on_message: a task for each message.  The server answers the request.   *)
OnMessage(m) ==
  /\ Handles("open", "open")
  /\ at[m] = "server"
  /\ IF m = Answer
     THEN request = "sent" /\ answer' \in {"accepted", "rejected", "foreign"}
     ELSE answer \in {"accepted", "foreign"} /\ UNCHANGED answer
  /\ at' = [at EXCEPT ![m] = "queued"]
  /\ UNCHANGED <<connector, result, hook, request, job, stateVars, sceneVars,
                 ends>>

-----------------------------------------------------------------------------
(* Tasks *)

(* send_raw_msg *)
SendRequest ==
  /\ request = "queued"
  /\ request' = IF socket = "open" THEN "sent" ELSE "lost"
  /\ UNCHANGED <<connector, result, hook, socket, answer, at, job, stateVars,
                 sceneVars, ends>>

Takes(m) ==
  /\ at[m] = "queued"
  /\ at' = [at EXCEPT ![m] = "parsed"]
  /\ UNCHANGED <<connector, result, hook, socket, request, answer, stateVars,
                 scene, ends>>

(* recv_connection_msg.  With a foreign message the promise is forgotten.  *)
ParseForeign(m) ==
  /\ Takes(m)
  /\ state = "New" /\ answer = "foreign"
  /\ job' = [job EXCEPT ![m] = Job(<<"state">>, "Misconfigured", "failed")]
  /\ UNCHANGED delivered

(* mutant: the promise is cleared before it is resolved                    *)
ParseAnswerClears ==
  /\ Takes(Answer)
  /\ state = "New" /\ answer # "foreign"
  /\ job' = [job EXCEPT ![Answer] =
               Job(<<"state", "clear", "resolve">>,
                   IF answer = "accepted" THEN "Healthy" ELSE "Misconfigured",
                   IF answer = "accepted" THEN "connected" ELSE "failed")]
  /\ UNCHANGED delivered

ParseAnswer ==
  /\ Takes(Answer)
  /\ state = "New" /\ answer # "foreign"
  /\ job' = [job EXCEPT ![Answer] =
               Job(<<"state", "resolve", "clear">>,
                   IF answer = "accepted" THEN "Healthy" ELSE "Misconfigured",
                   IF answer = "accepted" THEN "connected" ELSE "failed")]
  /\ UNCHANGED delivered

(* mutant: the listener is set when the scene is shown                     *)
ParseGameShown(m) ==
  /\ Takes(m)
  /\ state = "Healthy"
  /\ delivered' = IF m \in Games /\ scene = "shown"
                  THEN delivered \cup {m} ELSE delivered
  /\ UNCHANGED job

(* recv_game_msg, and the listener of the scene if it is set *)
ParseGame(m) ==
  /\ Takes(m)
  /\ state = "Healthy"
  /\ delivered' = IF m \in Games /\ scene # "startup"
                  THEN delivered \cup {m} ELSE delivered
  /\ UNCHANGED job

(* a message that is not expected in this state *)
Skip(m) ==
  /\ Takes(m)
  /\ \/ state = "New" /\ m \in Games /\ answer # "foreign"
     \/ state \notin {"New", "Healthy"}
  /\ UNCHANGED <<job, delivered>>

Parse(m) == ParseForeign(m) \/ (m = Answer /\ ParseAnswer) \/ ParseGame(m)
              \/ Skip(m)

(* the callback connect registers, once *)
FailureCallback ==
  /\ connector \in {"registered", "returned"}
  /\ result = "failed"
  /\ job["failure"] = Idle
  /\ job' = [job EXCEPT !["failure"] =
               Job(<<"state">>, "Misconfigured", "failed")]
  /\ UNCHANGED <<connector, result, hook, netVars, stateVars, sceneVars,
                 ends>>

(* ... and those of build_net_client and AppStartupScene, which end in     *)
(* PveGameScene::Create.  After a failure the startup scene stays.         *)
CreateScene ==
  /\ connector = "returned"
  /\ result = "connected"
  /\ scene = "startup"
  /\ scene' = "created"
  /\ UNCHANGED <<connector, result, hook, netVars, job, stateVars, delivered,
                 ends>>

(* on the main thread *)
SetScene ==
  /\ scene = "created"
  /\ scene' = "shown"
  /\ UNCHANGED <<connector, result, hook, netVars, job, stateVars, delivered,
                 ends>>

-----------------------------------------------------------------------------
(* The steps of a job *)

Does(t, step) == Busy(t) /\ Head(job[t].todo) = step

Rest(t, todo) ==
  /\ job' = [job EXCEPT ![t].todo = todo]
  /\ UNCHANGED <<connector, netVars, sceneVars>>

Done(t) == Rest(t, Tail(job[t].todo))

(* mutant: return if there is no promise                                   *)
TestReturns(t) ==
  /\ Does(t, "test")
  /\ Rest(t, IF hook THEN Tail(job[t].todo) ELSE <<>>)
  /\ missed' = (~hook /\ result = "pending")
  /\ UNCHANGED <<result, hook, stateVars, crashed>>

(* if (on_connect_promise_) *)
Test(t) ==
  /\ Does(t, "test")
  /\ Rest(t, IF hook THEN Tail(job[t].todo) ELSE <<"state">>)
  /\ missed' = (~hook /\ result = "pending")
  /\ UNCHANGED <<result, hook, stateVars, crashed>>

(* on_connect_promise_->resolve; a promise keeps its first value *)
Resolve(t) ==
  /\ Does(t, "resolve")
  /\ Done(t)
  /\ result' = IF hook /\ result = "pending" THEN job[t].value ELSE result
  /\ crashed' = ~hook
  /\ UNCHANGED missed
  /\ UNCHANGED <<hook, stateVars>>

(* on_connect_promise_ = nullptr *)
Clear(t) ==
  /\ Does(t, "clear")
  /\ Done(t)
  /\ hook' = FALSE
  /\ UNCHANGED <<result, stateVars, ends>>

(* WsClient::set_state, which calls ... *)
SetState(t) ==
  /\ Does(t, "state")
  /\ state' = job[t].to
  /\ Rest(t, IF state = job[t].to THEN Tail(job[t].todo)
             ELSE [job[t].todo EXCEPT ![1] = "tell"])
  /\ UNCHANGED <<result, hook, net, seen, ends>>

(* what NetClient makes of a state of WsClient *)
Told(s) == CASE s = "Healthy" -> "Basic"
             [] s = "Misconfigured" -> "Malformed"
             [] OTHER -> "Disconnected"

(* ... NetClient::set_state: if the state is new to it, the listener of    *)
(* the scene, once there is one, is called ...                             *)
Tell(t) ==
  /\ Does(t, "tell")
  /\ Rest(t, IF net = Told(job[t].to) THEN Tail(job[t].todo)
             ELSE [job[t].todo EXCEPT ![1] = "store"])
  /\ seen' = IF net # Told(job[t].to) /\ scene # "startup"
             THEN Told(job[t].to) ELSE seen
  /\ UNCHANGED <<result, hook, state, net, ends>>

(* ... before the state is stored *)
Store(t) ==
  /\ Does(t, "store")
  /\ Done(t)
  /\ net' = Told(job[t].to)
  /\ UNCHANGED <<result, hook, state, seen, ends>>

Step(t) == Test(t) \/ Resolve(t) \/ Clear(t) \/ SetState(t) \/ Tell(t)
             \/ Store(t)

Finished ==
  /\ \/ crashed
     \/ /\ Quiet /\ socket \in {"none", "closed"}
        /\ \A m \in Messages : at[m] # "queued"
  /\ UNCHANGED vars

Next ==
  \/ /\ ~crashed
     /\ \/ Connect
        \/ OnOpen \/ OnFail \/ OnClose
        \/ \E m \in Messages : OnMessage(m) \/ Parse(m)
        \/ SendRequest \/ FailureCallback \/ CreateScene \/ SetScene
        \/ \E t \in Threads : Step(t)
  \/ Finished

Spec == Init /\ [][Next]_vars

(* The server answers a request or closes: NoLimbo of WsServer.  A message *)
(* a server has sent arrives or the connection closes.                     *)
Responds == at[Answer] = "server" /\ (OnMessage(Answer) \/ OnClose)

Runs(A) == ~crashed /\ A

(* The threads run and the library reports the end of every attempt to     *)
(* connect.  Games, closes and failures of an open connection are free.    *)
Fairness ==
  /\ WF_vars(Runs(Connect)) /\ WF_vars(Runs(OnOpen \/ OnFail))
  /\ WF_vars(Runs(Responds))
  /\ WF_vars(Runs(SendRequest)) /\ WF_vars(Runs(FailureCallback))
  /\ WF_vars(Runs(CreateScene)) /\ WF_vars(Runs(SetScene))
  /\ \A m \in Messages : WF_vars(Runs(Parse(m)))
  /\ \A t \in Threads : WF_vars(Runs(Step(t)))

LiveSpec == Spec /\ Fairness

-----------------------------------------------------------------------------
(* Properties *)

States == {"None", "New", "Healthy", "Misconfigured"}

TypedJob(t) == job[t].to \in States /\ job[t].value \in {"connected", "failed"}
             /\ Len(job[t].todo) =< 4

(* Every variable has its type, and no job belongs to no connection.       *)
TypeOK ==
  /\ connector \in {"request", "noserver", "failed", "started", "stored",
                    "registered", "returned"}
  /\ result \in {"pending", "connected", "failed"}
  /\ {hook, crashed, missed} \subseteq BOOLEAN
  /\ socket \in {"none", "opening", "open", "closed"}
  /\ request \in {"none", "queued", "sent", "lost"}
  /\ answer \in {"none", "accepted", "rejected", "foreign"}
  /\ at \in [Messages -> {"server", "queued", "parsed"}]
  /\ \A t \in Threads : TypedJob(t)
  /\ state \in States
  /\ {net, seen} \subseteq {"Disconnected", "Basic", "Malformed"}
  /\ scene \in {"startup", "created", "shown"}
  /\ delivered \subseteq Games
  /\ socket = "none" => Quiet

(* Who believes what of the connection, although handlers and tasks        *)
(* overtake each other between WsClient's state and NetClient's.  Whenever *)
(* no job is under way, NetClient's state says healthy exactly if          *)
(* WsClient's does; it is the one that belongs to WsClient's while the     *)
(* connection is not closed (a close that meets the callback of the failed *)
(* promise may leave Misconfigured to the one and Disconnected to the      *)
(* other); and a closed connection is not believed to be healthy: all but  *)
(* when the end of the connection was handled before connect stored the    *)
(* promise.  The scene never hears that the connection is healthy, for     *)
(* that is announced before the scene is made: its state stays             *)
(* Disconnected.                                                           *)
Connectedness ==
  /\ Quiet /\ ~crashed /\ ~missed =>
       /\ (net = "Basic") <=> (state = "Healthy")
       /\ socket # "closed" => net = Told(state)
       /\ socket = "closed" => state # "Healthy"
  /\ seen = "Disconnected"

(* The game's scene is made only for a connection the server accepted.     *)
SceneMeansAccepted == scene # "startup" => answer = "accepted"

(* A null pointer is only dereferenced while connect has not returned, or  *)
(* once the connection is closed.                                          *)
CrashExplained ==
  [][ crashed' => connector' # "returned" \/ connector # "returned"
                    \/ socket = "closed" ]_vars

(* A message of the game is only lost while the client has not read the    *)
(* server's answer, before the scene is made, or around the end of the     *)
(* connection.                                                             *)
LossExplained ==
  [][ \A m \in Games :
        at[m] = "queued" /\ at'[m] = "parsed" /\ answer = "accepted"
          /\ m \notin delivered'
        => state = "New" \/ scene = "startup" \/ socket = "closed" ]_vars

(* Every attempt to connect ends with a value for the promise of connect,  *)
(* but for a crash, a server of another version, and a failure handled     *)
(* before the promise was stored.                                          *)
ResolvesUnless ==
  connector = "started"
    ~> (result # "pending" \/ crashed \/ answer = "foreign" \/ missed)

=============================================================================
