---------------------------- MODULE EcsScheduler ----------------------------
(***************************************************************************)
(* igecs::Scheduler (libs/igecs/include/igecs/scheduler.h,                 *)
(* src/scheduler.cc): a graph of systems ("nodes"), each with a            *)
(* declaration of what it reads and writes, is built, validated and then   *)
(* executed once by the calling thread together with the threads of the    *)
(* any-thread task list.                                                   *)
(*                                                                         *)
(* Nodes are named by the order in which they are built, so a node depends *)
(* on earlier ones only.  A task list is the set of its pending tasks:     *)
(* what a task is for can be told from the status of its node, or of the   *)
(* combination of all nodes.  A thread of the pool takes a task off the    *)
(* list in one step and runs it in another, with the list unlocked.        *)
(* Promises and combiners follow PromiseContract and PromiseAll.           *)
(***************************************************************************)
EXTENDS Integers, FiniteSets

CONSTANTS
  N,          (* bound: number of nodes                                    *)
  Types,      (* component, context and event types                        *)
  Decls,      (* the declarations a node may be built with                 *)
  MainOnly,   (* nodes built with main_thread_only                         *)
  Pool,       (* threads that serve the any-thread task list               *)
  Main,       (* the thread that calls execute                             *)
  Nobody

Nodes   == 1..N
AllOf   == 0          (* stands for the combination of all nodes           *)
Owners  == Nodes \cup {AllOf}
Threads == Pool \cup {Main}

DeclType == [reads : SUBSET Types, writes : SUBSET Types,
             ctxReads : SUBSET Types, ctxWrites : SUBSET Types,
             evtWrites : SUBSET Types, evtConsumes : SUBSET Types]

ASSUME SchedulerAssumption ==
  /\ N \in Nat
  /\ Decls \subseteq DeclType
  /\ MainOnly \subseteq Nodes
  /\ Main \notin Pool
  /\ Nobody \notin Threads

VARIABLES
  built,      (* number of nodes in Builder::nodes_                        *)
  deps,       (* dependency_ids_ of each node                              *)
  strictDeps, (* the nodes each node eventually depends on                 *)
  decl,       (* wv_decl_ of each node                                     *)
  status,     (* where the execution of each node is                       *)
  runner,     (* the thread inside the callback of each node               *)
  holder,     (* the pool thread that has taken the task of a node, or of  *)
              (* the combination, off the any-thread list and not run it   *)
  all,        (* the combination of all nodes: its callback's status       *)
  worked,     (* a task was run in this pass of the spin loop              *)
  hanging,    (* hang_start has a value                                    *)
  phase       (* of the calling thread                                     *)

graphVars == <<built, deps, strictDeps, decl>>
spinVars  == <<worked, hanging, phase>>
vars == <<graphVars, status, runner, holder, all, spinVars>>

Built == 1..built

Decl0 == [reads |-> {}, writes |-> {}, ctxReads |-> {}, ctxWrites |-> {},
          evtWrites |-> {}, evtConsumes |-> {}]

Init ==
  /\ built = 0
  /\ deps = [n \in Nodes |-> {}]
  /\ strictDeps = [n \in Nodes |-> {}]
  /\ decl = [n \in Nodes |-> Decl0]
  /\ status = [n \in Nodes |-> "waiting"]
  /\ runner = [n \in Nodes |-> Nobody]
  /\ holder = [o \in Owners |-> Nobody]
  /\ all = "waiting"
  /\ worked = FALSE
  /\ hanging = FALSE
  /\ phase = "build"

-----------------------------------------------------------------------------
(* Building and validating the graph *)

(* mutant: only direct dependencies are found                              *)
AddNodeDirect(ds, d) ==
  /\ phase = "build"
  /\ built < N
  /\ ds \subseteq Built
  /\ built' = built + 1
  /\ deps' = [deps EXCEPT ![built + 1] = ds]
  /\ strictDeps' = [strictDeps EXCEPT ![built + 1] = ds]
  /\ decl' = [decl EXCEPT ![built + 1] = d]
  /\ UNCHANGED <<status, runner, holder, all, spinVars>>

(* depends_on takes a node that is already built.  has_strict_dep follows  *)
(* the dependencies of dependencies; they are complete once a node is      *)
(* built, so the set is recorded here.                                     *)
AddNode(ds, d) ==
  /\ phase = "build"
  /\ built < N
  /\ ds \subseteq Built
  /\ built' = built + 1
  /\ deps' = [deps EXCEPT ![built + 1] = ds]
  /\ strictDeps' = [strictDeps EXCEPT ![built + 1] =
                      ds \cup UNION {strictDeps[m] : m \in ds}]
  /\ decl' = [decl EXCEPT ![built + 1] = d]
  /\ UNCHANGED <<status, runner, holder, all, spinVars>>

HasStrictDep(a, b) == b \in strictDeps[a]

(* mutant: reads are not compared                                          *)
NeedsOrderWrites(a, b) ==
  \/ a.ctxWrites \cap b.ctxWrites # {}
  \/ a.writes \cap b.writes # {}
  \/ a.evtConsumes \cap b.evtConsumes # {}

(* The three comparisons of the constructor, as written: what one node     *)
(* writes or consumes against what another one declares.                   *)
NeedsOrder(a, b) ==
  \/ a.ctxWrites \cap (b.ctxWrites \cup b.ctxReads) # {}
  \/ a.writes \cap (b.writes \cup b.reads) # {}
  \/ a.evtConsumes \cap (b.evtWrites \cup b.evtConsumes) # {}

Validated ==
  \A n \in Built : \A m \in Built \ {n} :
    NeedsOrder(decl[n], decl[m]) => HasStrictDep(n, m) \/ HasStrictDep(m, n)

(* mutant: main_thread_only is forgotten                                   *)
ScheduledAnywhere(n) == "any"

(* Where the task of a node goes (Node::schedule). *)
Scheduled(n) == IF n \in MainOnly THEN "main" ELSE "any"

(* The constructor, then the start of execute: nodes without dependencies  *)
(* are scheduled at once.  A failed validation aborts, no node returns.    *)
Execute ==
  /\ phase = "build"
  /\ IF Validated
     THEN /\ phase' = IF built = 0 THEN "returned" ELSE "main"
          /\ status' = [n \in Nodes |-> IF n \in Built /\ deps[n] = {}
                                        THEN Scheduled(n) ELSE "waiting"]
     ELSE phase' = "aborted" /\ UNCHANGED status
  /\ UNCHANGED <<graphVars, runner, holder, all, worked, hanging>>

-----------------------------------------------------------------------------
(* Tasks *)

Idle(t) ==
  (\A n \in Nodes : runner[n] # t) /\ (\A o \in Owners : holder[o] # t)

Move(n, from, to) ==
  /\ status[n] = from
  /\ status' = [status EXCEPT ![n] = to]

(* the node's own task: enter the callback *)
StartNode(t, n, list) ==
  /\ Move(n, list, "running")
  /\ runner' = [runner EXCEPT ![n] = t]
  /\ UNCHANGED <<graphVars, all>>

(* node_combiner: the callback of the last dependency *)
DependenciesReady(n) ==
  /\ n \in Built
  /\ deps[n] # {}
  /\ \A m \in deps[n] : status[m] = "done"

DependenciesDone(n) ==
  /\ DependenciesReady(n)
  /\ Move(n, "waiting", "combined")
  /\ UNCHANGED <<graphVars, runner, all>>

(* the combined callback: Node::schedule *)
ScheduleCombined(n) ==
  /\ Move(n, "combined", Scheduled(n))
  /\ UNCHANGED <<graphVars, runner, all>>

(* the promise of the callback has a value: rsl->resolve, which is the end *)
(* for a node without dependencies; otherwise combine_chaining resolves    *)
(* one more promise                                                        *)
ResolveNode(n) ==
  /\ Move(n, "settling", IF deps[n] = {} THEN "done" ELSE "chained")
  /\ UNCHANGED <<graphVars, runner, all>>

ResolveChained(n) ==
  /\ Move(n, "chained", "done")
  /\ UNCHANGED <<graphVars, runner, all>>

(* mutant: only the nodes without dependencies are waited for              *)
RootsReady ==
  /\ all = "waiting"
  /\ built > 0
  /\ \A n \in Built : deps[n] = {} => status[n] = "done"

(* mutant: slots of the schedule that no node was built for are waited for *)
AllSlotsReady ==
  /\ all = "waiting"
  /\ built > 0
  /\ \A n \in Nodes : status[n] = "done"

(* all_nodes_combiner: the callback of the last node *)
AllNodesReady ==
  /\ all = "waiting"
  /\ built > 0
  /\ \A n \in Built : status[n] = "done"

AllNodesDone ==
  /\ AllNodesReady
  /\ all' = "main"
  /\ UNCHANGED <<graphVars, status, runner>>

(* the task o has for the any-thread list, if it has one *)
Pending(o) ==
  IF o = AllOf THEN AllNodesReady
  ELSE \/ status[o] \in {"combined", "any", "settling", "chained"}
       \/ status[o] = "waiting" /\ DependenciesReady(o)

(* it is on the list *)
Listed(o) == Pending(o) /\ holder[o] = Nobody

RunTask(t, o) ==
  \/ /\ o \in Nodes
     /\ \/ StartNode(t, o, "any")
        \/ DependenciesDone(o) \/ ScheduleCombined(o)
        \/ ResolveNode(o) \/ ResolveChained(o)
  \/ o = AllOf /\ AllNodesDone

(* is_done = true *)
SetDone ==
  /\ all = "main"
  /\ all' = "done"
  /\ UNCHANGED <<graphVars, status, runner>>

MainTask == (\E n \in Nodes : StartNode(Main, n, "main")) \/ SetDone

-----------------------------------------------------------------------------
(* Threads *)

Executing == phase \in {"main", "any"}

(* the callback of a node returns, with a promise that has a value or not  *)
EndNode(t) ==
  /\ Executing
  /\ \E n \in Nodes :
       /\ runner[n] = t
       /\ runner' = [runner EXCEPT ![n] = Nobody]
       /\ \/ Move(n, "running", "settling")
          \/ Move(n, "running", "async")
  /\ UNCHANGED <<graphVars, holder, all, spinVars>>

(* Environment: the promise a callback returned gets its value. *)
AsyncResolve(n) ==
  /\ Executing
  /\ Move(n, "async", "settling")
  /\ UNCHANGED <<graphVars, runner, holder, all, spinVars>>

(* TaskList::execute_next of a pool thread: the task leaves the list ...   *)
PoolTake(t) ==
  /\ Executing
  /\ Idle(t)
  /\ \E o \in Owners :
       Listed(o) /\ holder' = [holder EXCEPT ![o] = t]
  /\ UNCHANGED <<graphVars, status, runner, all, spinVars>>

(* ... and is run *)
PoolRun(t) ==
  /\ Executing
  /\ \E o \in Owners :
       /\ holder[o] = t
       /\ holder' = [holder EXCEPT ![o] = Nobody]
       /\ RunTask(t, o)
  /\ UNCHANGED spinVars

(* execute_next returns false: the list is empty *)
NoMainTask == all # "main" /\ \A n \in Nodes : status[n] # "main"

NoAnyTask == \A o \in Owners : ~Listed(o)

(* a pass of the spin loop: everything on the main thread's list ... *)
MainFirst ==
  /\ phase = "main"
  /\ Idle(Main)
  /\ \/ /\ MainTask
        /\ worked' = TRUE
        /\ UNCHANGED <<hanging, phase>>
     \/ /\ NoMainTask
        /\ phase' = "any"
        /\ UNCHANGED <<graphVars, status, runner, all, worked, hanging>>
  /\ UNCHANGED holder

(* ... then one task of the other list, and over again (nobody can tell    *)
(* when the caller, which is busy with it, took it off) ...                *)
ThenAny ==
  /\ phase = "any"
  /\ \E o \in Owners : Listed(o) /\ RunTask(Main, o)
  /\ phase' = "main"
  /\ worked' = TRUE
  /\ UNCHANGED <<holder, hanging>>

(* ... until neither list had a task.  A pass that did nothing starts the  *)
(* hang timer, and fails the assertion if the timer has run out.           *)
PassEnd ==
  /\ phase = "any"
  /\ NoAnyTask
  /\ hanging' = ~worked
  /\ worked' = FALSE
  /\ \/ phase' = IF all = "done" THEN "returned" ELSE "main"
     \/ hanging /\ ~worked /\ phase' = "crashed"
  /\ UNCHANGED <<graphVars, status, runner, holder, all>>

MainStep == MainFirst \/ ThenAny \/ PassEnd \/ EndNode(Main)

Finished == phase \in {"returned", "aborted", "crashed"} /\ UNCHANGED vars

Next ==
  \/ \E ds \in SUBSET Nodes : \E d \in Decls : AddNode(ds, d)
  \/ Execute
  \/ \E t \in Pool : PoolTake(t) \/ PoolRun(t) \/ EndNode(t)
  \/ \E n \in Nodes : AsyncResolve(n)
  \/ MainStep
  \/ Finished

Spec == Init /\ [][Next]_vars

(* Threads run; callbacks return, and the promises they return get a value *)
(* (promise.h, rule 2).  A thread of the pool runs the task it has taken,  *)
(* but need not take any: the caller serves both lists.                    *)
Fairness ==
  /\ WF_vars(MainStep)
  /\ \A t \in Pool : WF_vars(PoolRun(t)) /\ WF_vars(EndNode(t))
  /\ \A n \in Nodes : WF_vars(AsyncResolve(n))

LiveSpec == Spec /\ Fairness

-----------------------------------------------------------------------------
(* Properties *)

(* Types; a node has a runner exactly while its callback runs.             *)
TypeOK ==
  /\ built \in 0..N
  /\ deps \in [Nodes -> SUBSET Nodes]
  /\ strictDeps \in [Nodes -> SUBSET Nodes]
  /\ decl \in [Nodes -> DeclType]
  /\ status \in [Nodes -> {"waiting", "combined", "main", "any", "running",
                           "async", "settling", "chained", "done"}]
  /\ runner \in [Nodes -> Threads \cup {Nobody}]
  /\ holder \in [Owners -> Pool \cup {Nobody}]
  /\ all \in {"waiting", "main", "done"}
  /\ worked \in BOOLEAN /\ hanging \in BOOLEAN
  /\ phase \in {"build", "main", "any", "returned", "aborted", "crashed"}
  /\ \A n \in Nodes : status[n] = "running" <=> runner[n] # Nobody

(* A system is under way from its start until its promise has a value. *)
Active(n) == status[n] \in {"running", "async"}

(* What must not happen at the same time: one changes what the other uses. *)
Conflict(a, b) ==
  \/ a.writes \cap (b.reads \cup b.writes) # {}
  \/ b.writes \cap (a.reads \cup a.writes) # {}
  \/ a.ctxWrites \cap (b.ctxReads \cup b.ctxWrites) # {}
  \/ b.ctxWrites \cap (a.ctxReads \cup a.ctxWrites) # {}
  \/ a.evtConsumes \cap (b.evtWrites \cup b.evtConsumes) # {}
  \/ b.evtConsumes \cap (a.evtWrites \cup a.evtConsumes) # {}

(* What the validation is for: in a graph the constructor accepts, two     *)
(* systems that conflict are never under way together, on whatever threads *)
(* and in whatever order the task lists run them.                          *)
ConflictingNodesExclude ==
  \A n \in Nodes : \A m \in Nodes \ {n} :
    Active(n) /\ Active(m) => ~Conflict(decl[n], decl[m])

(* A node built with main_thread_only is run by the thread that called     *)
(* execute, and by then all it depends on has its result.                  *)
RunsInPlace ==
  \A n \in Nodes :
    /\ n \in MainOnly => runner[n] \in {Main, Nobody}
    /\ runner[n] # Nobody => \A m \in strictDeps[n] : status[m] = "done"

(* execute returns only when every node is done: nothing of this frame     *)
(* touches the world afterwards.                                           *)
ReturnsWhenDone ==
  phase = "returned" => \A n \in Built : status[n] = "done"

(* The hang assertion trips only while a system is under way, or while a   *)
(* thread of the pool is late: with a task it has taken off the list, be   *)
(* it the frame's own bookkeeping, or just having put one on the caller's. *)
(* It does not trip because a task was lost, and without a pool only for a *)
(* system that takes too long.                                             *)
HangMeansWaiting ==
  phase = "crashed" =>
    \/ \E n \in Built : Active(n)
    \/ \E o \in Owners : holder[o] # Nobody
    \/ Pool # {} /\ (all = "main" \/ \E n \in Built : status[n] = "main")

(* execute comes to an end (returning, unless the hang timer runs out      *)
(* first): no order of tasks leaves the spin loop waiting for ever, even   *)
(* if the pool never helps.                                                *)
ExecuteEnds == Executing ~> (phase \in {"returned", "crashed"})

-----------------------------------------------------------------------------
(* The inductive invariant *)

(* Strict dependencies are the closure of deps, and point backwards: the   *)
(* cycle that the constructor asserts against cannot be built.             *)
GraphInv ==
  /\ \A n \in Nodes \ Built : deps[n] = {} /\ strictDeps[n] = {}
  /\ \A n \in Built :
       /\ strictDeps[n] = deps[n] \cup UNION {strictDeps[m] : m \in deps[n]}
       /\ \A m \in strictDeps[n] :
            m \in Built /\ m < n /\ strictDeps[m] \subseteq strictDeps[n]

(* A node leaves "waiting" in an execution of a validated graph only, and  *)
(* with all its strict dependencies done; its task is on the list its      *)
(* thread serves.                                                          *)
StartedInv ==
  /\ phase \in {"build", "aborted"} =>
       \A n \in Nodes : status[n] = "waiting"
  /\ phase \notin {"build", "aborted"} => Validated
  /\ \A n \in Nodes : status[n] # "waiting" =>
       n \in Built /\ \A m \in strictDeps[n] : status[m] = "done"
  /\ \A n \in MainOnly : status[n] # "any" /\ runner[n] \in {Main, Nobody}

(* The combination of all nodes has been resolved only after all of them,  *)
(* and execute returns after that.                                         *)
AllInv ==
  /\ phase = "build" => all = "waiting"
  /\ all # "waiting" => \A n \in Built : status[n] = "done"
  /\ phase = "returned" => all = "done" \/ built = 0

(* What the caller knows of an execution: there is a node, those without   *)
(* dependencies have left "waiting", a pass that found the frame done has  *)
(* worked, and without a pool nobody refills the main thread's list.       *)
PassInv ==
  /\ Executing => /\ built > 0
                  /\ \A n \in Built : deps[n] = {} => status[n] # "waiting"
                  /\ all = "done" => worked
  /\ phase = "any" /\ Pool = {} => NoMainTask

(* The task a thread of the pool has taken is still to be run: nobody else *)
(* does what it is for in the meantime.                                    *)
HeldInv == \A o \in Owners : holder[o] # Nobody => Pending(o)

(* The graph, the progress of each node and the progress of the calling    *)
(* thread agree in every interleaving of the caller with the pool.         *)
IInv ==
  /\ TypeOK
  /\ GraphInv
  /\ StartedInv
  /\ AllInv
  /\ PassInv
  /\ HeldInv

=============================================================================
