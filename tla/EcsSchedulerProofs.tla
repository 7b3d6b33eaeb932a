------------------------- MODULE EcsSchedulerProofs -------------------------
(***************************************************************************)
(* Proofs about igecs::Scheduler, for any number of nodes and threads and  *)
(* any declarations.                                                       *)
(***************************************************************************)
EXTENDS EcsScheduler, WellFoundedInduction, TLAPS

-----------------------------------------------------------------------------
(* What the tasks have in common *)

(* A task of the any-thread list moves one node a step ahead, or finds all *)
(* nodes done.                                                             *)
LEMMA RunTaskCases ==
  ASSUME NEW t, NEW o \in Owners, RunTask(t, o)
  PROVE  /\ UNCHANGED graphVars
         /\ \/ \E n \in Nodes :
                 \/ StartNode(t, n, "any")
                 \/ /\ UNCHANGED <<runner, all>>
                    /\ \/ /\ n \in Built
                          /\ deps[n] # {}
                          /\ \A m \in deps[n] : status[m] = "done"
                          /\ Move(n, "waiting", "combined")
                       \/ Move(n, "combined", Scheduled(n))
                       \/ Move(n, "settling", "done")
                       \/ Move(n, "settling", "chained")
                       \/ Move(n, "chained", "done")
            \/ AllNodesDone
  BY DEF RunTask, StartNode, DependenciesDone, ScheduleCombined, ResolveNode,
         ResolveChained, AllNodesDone, DependenciesReady

-----------------------------------------------------------------------------
(* Types *)

LEMMA InitType == Init => TypeOK
  <1> SUFFICES ASSUME Init
               PROVE  TypeOK
    OBVIOUS
  <1>1. Decl0 \in DeclType
    BY DEF Decl0, DeclType
  <1>2. /\ built \in 0..N /\ decl \in [Nodes -> DeclType]
        /\ deps \in [Nodes -> SUBSET Nodes]
        /\ strictDeps \in [Nodes -> SUBSET Nodes]
    BY <1>1, SchedulerAssumption DEF Init
  <1> QED
    BY <1>2 DEF Init, TypeOK

(* Moving a node that is not running to another place where it does not    *)
(* run.                                                                    *)
LEMMA MoveType ==
  ASSUME TypeOK, UNCHANGED <<graphVars, runner, all>>,
         holder' \in [Owners -> Pool \cup {Nobody}],
         UNCHANGED spinVars \/ (worked' \in BOOLEAN /\ hanging' \in BOOLEAN
           /\ phase' \in {"build", "main", "any", "returned", "aborted",
                          "crashed"}),
         NEW n \in Nodes, NEW from, NEW to, Move(n, from, to),
         from # "running",
         to \in {"combined", "main", "any", "settling", "chained", "done"}
  PROVE  TypeOK'
  BY DEF TypeOK, Move, graphVars, spinVars, Built

(* Entering a callback. *)
LEMMA StartType ==
  ASSUME TypeOK,
         holder' \in [Owners -> Pool \cup {Nobody}],
         UNCHANGED spinVars \/ (worked' \in BOOLEAN /\ hanging' \in BOOLEAN
           /\ phase' \in {"build", "main", "any", "returned", "aborted",
                          "crashed"}),
         NEW t \in Threads, NEW n \in Nodes, NEW l, StartNode(t, n, l)
  PROVE  TypeOK'
  <1>1. t # Nobody
    BY SchedulerAssumption
  <1>2. status' = [status EXCEPT ![n] = "running"]
        /\ runner' = [runner EXCEPT ![n] = t]
        /\ UNCHANGED <<graphVars, all>>
    BY DEF StartNode, Move
  <1> QED
    BY <1>1, <1>2 DEF TypeOK, graphVars, spinVars, Built

LEMMA RunTaskType ==
  ASSUME TypeOK,
         holder' \in [Owners -> Pool \cup {Nobody}],
         UNCHANGED spinVars \/ (worked' \in BOOLEAN /\ hanging' \in BOOLEAN
           /\ phase' \in {"build", "main", "any", "returned", "aborted",
                          "crashed"}),
         NEW t \in Threads, NEW o \in Owners, RunTask(t, o)
  PROVE  TypeOK'
  <1>1. ASSUME NEW n \in Nodes, StartNode(t, n, "any")
        PROVE  TypeOK'
    BY <1>1, StartType
  <1>2. ASSUME NEW n \in Nodes, NEW from, NEW to, Move(n, from, to),
               UNCHANGED <<graphVars, runner, all>>, from # "running",
               to \in {"combined", "main", "any", "settling", "chained",
                       "done"}
        PROVE  TypeOK'
    BY <1>2, MoveType
  <1>3. CASE AllNodesDone
    BY <1>3 DEF AllNodesDone, TypeOK, graphVars, spinVars, Built
  <1>4. \A n \in Nodes : Scheduled(n) \in {"main", "any"}
    BY DEF Scheduled
  <1> QED
    BY <1>1, <1>2, <1>3, <1>4, RunTaskCases

LEMMA TypeStep == TypeOK /\ StartedInv /\ [Next]_vars => TypeOK'
  <1> SUFFICES ASSUME TypeOK, StartedInv, [Next]_vars
               PROVE  TypeOK'
    OBVIOUS
  <1>1. ASSUME NEW ds \in SUBSET Nodes, NEW d \in Decls, AddNode(ds, d)
        PROVE  TypeOK'
    <2>1. built \in 0..N /\ built' \in 0..N /\ built + 1 \in Nodes
      BY <1>1, SchedulerAssumption DEF TypeOK, AddNode, Nodes
    <2>2. /\ deps' = [deps EXCEPT ![built + 1] = ds]
          /\ strictDeps' = [strictDeps EXCEPT ![built + 1] =
                              ds \cup UNION {strictDeps[m] : m \in ds}]
          /\ decl' = [decl EXCEPT ![built + 1] = d]
          /\ UNCHANGED <<status, runner, holder, all, spinVars>>
      BY <1>1 DEF AddNode
    <2>3. d \in DeclType
      BY SchedulerAssumption
    <2>4. UNION {strictDeps[m] : m \in ds} \subseteq Nodes
      BY DEF TypeOK
    <2> QED
      BY <2>1, <2>2, <2>3, <2>4 DEF TypeOK, spinVars
  <1>2. CASE Execute
    <2>1. \A n \in Nodes : Scheduled(n) \in {"main", "any"}
      BY DEF Scheduled
    <2>2. CASE Validated
      <3>1. /\ phase' \in {"returned", "main"}
            /\ status' = [n \in Nodes |-> IF n \in Built /\ deps[n] = {}
                                          THEN Scheduled(n) ELSE "waiting"]
            /\ UNCHANGED <<graphVars, runner, holder, all, worked, hanging>>
            /\ \A n \in Nodes : runner[n] = Nobody
        BY <1>2, <2>2 DEF Execute, TypeOK, StartedInv
      <3> QED
        BY <3>1, <2>1 DEF TypeOK, graphVars
    <2>3. CASE ~Validated
      BY <1>2, <2>3 DEF Execute, TypeOK, graphVars
    <2> QED
      BY <2>2, <2>3
  <1>3. ASSUME NEW t \in Pool, PoolRun(t)
        PROVE  TypeOK'
    <2>1. PICK o \in Owners :
            holder' = [holder EXCEPT ![o] = Nobody] /\ RunTask(t, o)
      BY <1>3 DEF PoolRun
    <2>2. holder' \in [Owners -> Pool \cup {Nobody}]
      BY <2>1 DEF TypeOK
    <2>3. UNCHANGED spinVars /\ t \in Threads
      BY <1>3 DEF PoolRun, Threads
    <2> QED
      BY <2>1, <2>2, <2>3, RunTaskType
  <1>4. ASSUME NEW t \in Threads, EndNode(t)
        PROVE  TypeOK'
    <2>1. PICK n \in Nodes :
            /\ runner' = [runner EXCEPT ![n] = Nobody]
            /\ \/ Move(n, "running", "settling")
               \/ Move(n, "running", "async")
            /\ UNCHANGED <<graphVars, holder, all, spinVars>>
      BY <1>4 DEF EndNode
    <2> QED
      BY <2>1 DEF TypeOK, Move, graphVars, spinVars
  <1>5. ASSUME NEW n \in Nodes, AsyncResolve(n)
        PROVE  TypeOK'
    BY <1>5, MoveType DEF AsyncResolve, TypeOK
  <1>6. CASE MainFirst
    <2>1. ASSUME NEW n \in Nodes, StartNode(Main, n, "main")
          PROVE  TypeOK'
      BY <1>6, <2>1, StartType DEF MainFirst, Threads, TypeOK
    <2>2. CASE SetDone
      BY <1>6, <2>2 DEF MainFirst, SetDone, TypeOK, graphVars
    <2>3. CASE UNCHANGED <<graphVars, status, runner, all>>
      BY <1>6, <2>3 DEF MainFirst, TypeOK, graphVars
    <2> QED
      BY <1>6, <2>1, <2>2, <2>3 DEF MainFirst, MainTask
  <1>7. CASE ThenAny
    BY <1>7, RunTaskType DEF ThenAny, Threads, TypeOK
  <1>8. CASE PassEnd
    BY <1>8 DEF PassEnd, TypeOK, graphVars
  <1>9. ASSUME NEW t \in Pool, PoolTake(t)
        PROVE  TypeOK'
    <2>1. holder' \in [Owners -> Pool \cup {Nobody}]
      BY <1>9 DEF PoolTake, TypeOK
    <2> QED
      BY <1>9, <2>1 DEF PoolTake, graphVars, spinVars, TypeOK
  <1>10. CASE UNCHANGED vars
    BY <1>10 DEF vars, graphVars, spinVars, TypeOK
  <1> QED
    BY <1>1, <1>2, <1>3, <1>4, <1>5, <1>6, <1>7, <1>8, <1>9, <1>10
    DEF Next, MainStep, Finished, Threads

-----------------------------------------------------------------------------
(* The graph *)

LEMMA InitGraph == Init => GraphInv
  BY DEF Init, GraphInv, Built

LEMMA GraphStep == TypeOK /\ GraphInv /\ [Next]_vars => GraphInv'
  <1> SUFFICES ASSUME TypeOK, GraphInv, [Next]_vars
               PROVE  GraphInv'
    OBVIOUS
  <1>1. ASSUME NEW ds \in SUBSET Nodes, NEW d \in Decls, AddNode(ds, d)
        PROVE  GraphInv'
    <2> DEFINE new == built + 1
    <2>1. /\ built \in Nat /\ new \in Nodes /\ new \notin Built
          /\ Built' = Built \cup {new} /\ Built \subseteq Nodes
          /\ \A m \in Built : m < new
      BY <1>1, SchedulerAssumption DEF TypeOK, AddNode, Nodes, Built
    <2>2. /\ deps' = [deps EXCEPT ![new] = ds]
          /\ strictDeps' = [strictDeps EXCEPT ![new] =
                              ds \cup UNION {strictDeps[m] : m \in ds}]
          /\ ds \subseteq Built
      BY <1>1 DEF AddNode
    <2>3. /\ deps'[new] = ds
          /\ strictDeps'[new] = ds \cup UNION {strictDeps[m] : m \in ds}
          /\ \A m \in Nodes \ {new} :
               deps'[m] = deps[m] /\ strictDeps'[m] = strictDeps[m]
      BY <2>1, <2>2 DEF TypeOK
    <2> HIDE DEF new
    <2>4. \A n \in Nodes \ Built' : deps'[n] = {} /\ strictDeps'[n] = {}
      BY <2>1, <2>3 DEF GraphInv
    <2>5. \A n \in Built : deps[n] \subseteq Built /\ strictDeps[n] \subseteq Built
      BY DEF GraphInv
    <2>6. ASSUME NEW n \in Built
          PROVE  /\ strictDeps'[n] = deps'[n] \cup
                                       UNION {strictDeps'[m] : m \in deps'[n]}
                 /\ \A m \in strictDeps'[n] :
                      /\ m \in Built' /\ m < n
                      /\ strictDeps'[m] \subseteq strictDeps'[n]
      <3>1. \A m \in Built : deps'[m] = deps[m] /\ strictDeps'[m] = strictDeps[m]
        BY <2>1, <2>3
      <3>2. {strictDeps'[m] : m \in deps'[n]} = {strictDeps[m] : m \in deps[n]}
        BY <2>5, <2>6, <3>1
      <3>3. /\ strictDeps[n] = deps[n] \cup UNION {strictDeps[m] : m \in deps[n]}
            /\ \A m \in strictDeps[n] :
                 m \in Built /\ m < n /\ strictDeps[m] \subseteq strictDeps[n]
        BY <2>6 DEF GraphInv
      <3> QED
        BY <2>1, <2>5, <2>6, <3>1, <3>2, <3>3
    <2>7. /\ strictDeps'[new] = deps'[new] \cup
                                  UNION {strictDeps'[m] : m \in deps'[new]}
          /\ \A m \in strictDeps'[new] :
               /\ m \in Built' /\ m < new
               /\ strictDeps'[m] \subseteq strictDeps'[new]
      <3>1. \A m \in Built : strictDeps'[m] = strictDeps[m]
        BY <2>1, <2>3
      <3>2. {strictDeps'[m] : m \in ds} = {strictDeps[m] : m \in ds}
        BY <2>2, <3>1
      <3>3. ASSUME NEW m \in strictDeps'[new]
            PROVE  m \in Built /\ strictDeps[m] \subseteq strictDeps'[new]
        <4>1. CASE m \in ds
          BY <4>1, <2>2, <2>3
        <4>2. ASSUME NEW k \in ds, m \in strictDeps[k]
              PROVE  m \in Built /\ strictDeps[m] \subseteq strictDeps'[new]
          <5>1. k \in Built
            BY <2>2
          <5>2. m \in Built /\ strictDeps[m] \subseteq strictDeps[k]
            BY <4>2, <5>1 DEF GraphInv
          <5> QED
            BY <5>2, <2>3
        <4> QED
          BY <3>3, <4>1, <4>2, <2>3
      <3> QED
        BY <2>1, <2>3, <3>1, <3>2, <3>3
    <2> QED
      BY <2>1, <2>4, <2>6, <2>7 DEF GraphInv
  <1>2. CASE UNCHANGED graphVars
    BY <1>2 DEF graphVars, GraphInv, Built
  <1>3. ASSUME NEW t, NEW o \in Owners, RunTask(t, o)
        PROVE  UNCHANGED graphVars
    BY <1>3, RunTaskCases
  <1>4. CASE MainFirst
    BY <1>2, <1>4 DEF MainFirst, MainTask, StartNode, SetDone, graphVars
  <1> QED
    BY <1>1, <1>2, <1>3, <1>4
    DEF Next, MainStep, Finished, Execute, PoolTake, PoolRun, EndNode, AsyncResolve,
        ThenAny, PassEnd, vars

-----------------------------------------------------------------------------
(* Progress of the nodes *)

LEMMA InitStarted == Init => StartedInv
  BY SchedulerAssumption DEF Init, StartedInv

(* The node has been built and its strict dependencies are done. *)
Ready(n) == n \in Built /\ \A m \in strictDeps[n] : status[m] = "done"

MainRunners == \A k \in MainOnly : runner[k] \in {Main, Nobody}

Executable == phase \notin {"build", "aborted"}

(* A node whose strict dependencies are done moves ahead during an         *)
(* execution.                                                              *)
LEMMA MoveStarted ==
  ASSUME TypeOK, StartedInv, UNCHANGED graphVars,
         Executable, Executable', MainRunners',
         NEW n \in Nodes, NEW from, NEW to, Ready(n), Move(n, from, to),
         from # "done", to = "any" => n \notin MainOnly
  PROVE  StartedInv'
  <1>1. Validated'
    BY DEF Executable, StartedInv, Validated, HasStrictDep, Built, graphVars
  <1>2. MainOnly \subseteq Nodes
    BY SchedulerAssumption
  <1>3. status[n] # "done" /\ status'[n] = to
        /\ \A k \in Nodes \ {n} : status'[k] = status[k]
    BY <1>2 DEF Move, TypeOK
  <1>4. \A m \in Nodes : status[m] = "done" => m # n
    BY <1>3
  <1>5. \A k \in Nodes : strictDeps[k] \subseteq Nodes
    BY DEF TypeOK
  <1>6. ASSUME NEW k \in Nodes, status'[k] # "waiting"
        PROVE  k \in Built' /\ \A m \in strictDeps'[k] : status'[m] = "done"
    <2>1. k \in Built /\ \A m \in strictDeps[k] : status[m] = "done"
      BY <1>3, <1>6 DEF StartedInv, Ready
    <2> QED
      BY <2>1, <1>3, <1>4, <1>5 DEF graphVars, Built
  <1>7. \A k \in MainOnly : status'[k] # "any"
    BY <1>2, <1>3 DEF StartedInv
  <1> QED
    BY <1>1, <1>6, <1>7 DEF StartedInv, Executable, MainRunners

(* The same for a node that is already under way. *)
LEMMA MoveOnStarted ==
  ASSUME TypeOK, StartedInv, UNCHANGED <<graphVars, runner>>,
         Executable',
         NEW n \in Nodes, NEW from, NEW to, Move(n, from, to),
         from \notin {"waiting", "done"}, to = "any" => n \notin MainOnly
  PROVE  StartedInv'
  <1>1. status[n] # "waiting"
    BY DEF Move
  <1>2. Ready(n) /\ Executable
    BY <1>1 DEF StartedInv, Ready, Executable
  <1>3. MainRunners'
    BY DEF StartedInv, MainRunners
  <1>4. UNCHANGED graphVars /\ from # "done"
    OBVIOUS
  <1> QED
    BY <1>2, <1>3, <1>4, MoveStarted

LEMMA StartStarted ==
  ASSUME TypeOK, StartedInv, Executable',
         NEW t \in Threads, NEW n \in Nodes, NEW l \in {"main", "any"},
         StartNode(t, n, l), l = "main" => t = Main
  PROVE  StartedInv'
  <1>1. Move(n, l, "running") /\ UNCHANGED graphVars
        /\ runner' = [runner EXCEPT ![n] = t]
    BY DEF StartNode
  <1>2. Ready(n) /\ Executable
    BY <1>1 DEF StartedInv, Move, Ready, Executable
  <1>3. MainRunners'
    BY <1>1, SchedulerAssumption DEF StartedInv, TypeOK, Move, MainRunners
  <1>4. l # "done" /\ "running" # "any"
    OBVIOUS
  <1> QED
    BY <1>1, <1>2, <1>3, <1>4, MoveStarted

LEMMA RunTaskStarted ==
  ASSUME TypeOK, GraphInv, StartedInv, Executable, Executable',
         NEW t \in Threads, NEW o \in Owners, RunTask(t, o)
  PROVE  StartedInv'
  <1>1. UNCHANGED graphVars
    BY RunTaskCases
  <1>2. ASSUME NEW n \in Nodes, StartNode(t, n, "any")
        PROVE  StartedInv'
    BY <1>2, StartStarted
  <1>3. ASSUME NEW n \in Nodes, n \in Built, \A m \in deps[n] : status[m] = "done",
               Move(n, "waiting", "combined"), UNCHANGED runner
        PROVE  StartedInv'
    <2>1. Ready(n)
      <3>1. deps[n] \subseteq strictDeps[n] /\ strictDeps[n] \subseteq Nodes
        BY <1>3 DEF GraphInv, TypeOK
      <3>2. strictDeps[n] = deps[n] \cup UNION {strictDeps[m] : m \in deps[n]}
        BY <1>3 DEF GraphInv
      <3>3. \A m \in deps[n] : \A k \in strictDeps[m] : status[k] = "done"
        BY <1>3, <3>1 DEF StartedInv
      <3> QED
        BY <1>3, <3>2, <3>3 DEF Ready
    <2>2. MainRunners'
      BY <1>3 DEF StartedInv, MainRunners
    <2> QED
      BY <1>1, <1>3, <2>1, <2>2, MoveStarted
  <1>4. ASSUME NEW n \in Nodes, NEW from, NEW to, Move(n, from, to),
               UNCHANGED runner, from \notin {"waiting", "done"},
               to = "any" => n \notin MainOnly
        PROVE  StartedInv'
    BY <1>1, <1>4, MoveOnStarted
  <1>5. CASE AllNodesDone
    <2>1. Validated'
      BY <1>1, <1>5
      DEF Executable, StartedInv, Validated, HasStrictDep, Built, graphVars
    <2> QED
      BY <1>5, <2>1 DEF AllNodesDone, Executable, StartedInv, graphVars, Built
  <1>6. \A n \in Nodes : Scheduled(n) = "any" => n \notin MainOnly
    BY DEF Scheduled
  <1> QED
    BY <1>2, <1>3, <1>4, <1>5, <1>6, RunTaskCases

LEMMA StartedStep == TypeOK /\ GraphInv /\ StartedInv /\ [Next]_vars => StartedInv'
  <1> SUFFICES ASSUME TypeOK, GraphInv, StartedInv, [Next]_vars
               PROVE  StartedInv'
    OBVIOUS
  <1> USE SchedulerAssumption
  <1>1. ASSUME NEW ds \in SUBSET Nodes, NEW d \in Decls, AddNode(ds, d)
        PROVE  StartedInv'
    BY <1>1 DEF AddNode, StartedInv, spinVars
  <1>2. CASE Execute
    <2>1. CASE Validated
      <3>1. /\ phase' \in {"returned", "main"}
            /\ status' = [n \in Nodes |-> IF n \in Built /\ deps[n] = {}
                                          THEN Scheduled(n) ELSE "waiting"]
            /\ UNCHANGED <<graphVars, runner>>
        BY <1>2, <2>1 DEF Execute
      <3>2. Validated'
        BY <2>1, <3>1 DEF Validated, HasStrictDep, Built, graphVars
      <3>3. \A n \in Built : deps[n] = {} => strictDeps[n] = {}
        BY DEF GraphInv
      <3>4. \A n \in MainOnly : Scheduled(n) # "any" /\ n \in Nodes
        BY DEF Scheduled
      <3> QED
        BY <3>1, <3>2, <3>3, <3>4 DEF StartedInv, graphVars, Built
    <2>2. CASE ~Validated
      BY <1>2, <2>2 DEF Execute, StartedInv, graphVars, Built
    <2> QED
      BY <2>1, <2>2
  <1>3. ASSUME NEW t \in Pool, PoolRun(t)
        PROVE  StartedInv'
    BY <1>3, RunTaskStarted
    DEF PoolRun, Threads, Executing, Executable, spinVars
  <1>4. ASSUME NEW t \in Threads, EndNode(t)
        PROVE  StartedInv'
    <2>1. PICK n \in Nodes :
            /\ runner' = [runner EXCEPT ![n] = Nobody]
            /\ \/ Move(n, "running", "settling")
               \/ Move(n, "running", "async")
      BY <1>4 DEF EndNode
    <2>2. Executable /\ Executable' /\ UNCHANGED graphVars
      BY <1>4 DEF EndNode, Executing, Executable, spinVars
    <2>3. Ready(n)
      BY <2>1 DEF StartedInv, Move, Ready
    <2>4. MainRunners'
      BY <2>1 DEF StartedInv, TypeOK, MainRunners
    <2> QED
      BY <2>1, <2>2, <2>3, <2>4, MoveStarted
  <1>5. ASSUME NEW n \in Nodes, AsyncResolve(n)
        PROVE  StartedInv'
    BY <1>5, MoveOnStarted DEF AsyncResolve, Executing, Executable, spinVars
  <1>6. CASE MainFirst
    <2>1. ASSUME NEW n \in Nodes, StartNode(Main, n, "main")
          PROVE  StartedInv'
      <3>1. Executable' /\ Main \in Threads
        BY <1>6 DEF MainFirst, Threads, Executable
      <3> QED
        BY <2>1, <3>1, StartStarted
    <2>2. CASE SetDone \/ UNCHANGED <<graphVars, status, runner>>
      <3>1. UNCHANGED <<graphVars, status, runner>>
            /\ phase' \notin {"build", "aborted"}
            /\ phase \notin {"build", "aborted"}
        BY <1>6, <2>2 DEF MainFirst, SetDone
      <3>2. Validated'
        BY <3>1 DEF StartedInv, Validated, HasStrictDep, Built, graphVars
      <3> QED
        BY <3>1, <3>2 DEF StartedInv, graphVars, Built
    <2> QED
      BY <1>6, <2>1, <2>2 DEF MainFirst, MainTask
  <1>7. CASE ThenAny
    BY <1>7, RunTaskStarted DEF ThenAny, Threads, Executable
  <1>8. CASE PassEnd
    <2>1. UNCHANGED <<graphVars, status, runner>>
          /\ phase' \notin {"build", "aborted"}
          /\ phase \notin {"build", "aborted"}
      BY <1>8 DEF PassEnd
    <2>2. Validated'
      BY <2>1 DEF StartedInv, Validated, HasStrictDep, Built, graphVars
    <2> QED
      BY <2>1, <2>2 DEF StartedInv, graphVars, Built
  <1>9. CASE UNCHANGED <<graphVars, status, runner, spinVars>>
    <2>1. Validated' = Validated
      BY <1>9 DEF Validated, HasStrictDep, Built, graphVars
    <2> QED
      BY <1>9, <2>1 DEF graphVars, spinVars, StartedInv, Built
  <1> QED
    BY <1>1, <1>2, <1>3, <1>4, <1>5, <1>6, <1>7, <1>8, <1>9
    DEF Next, MainStep, PoolTake, Finished, Threads, vars

-----------------------------------------------------------------------------
(* The combination of all nodes *)

LEMMA InitAll == Init => AllInv
  BY DEF Init, AllInv

(* While the combination is resolved no node moves. *)
LEMMA MoveAll ==
  ASSUME AllInv, StartedInv, UNCHANGED <<graphVars, all>>,
         Executable, Executable', phase' = "returned" => all = "done",
         NEW n \in Nodes, NEW from, NEW to, Move(n, from, to),
         from # "done", from # "waiting" \/ n \in Built
  PROVE  AllInv'
  <1>1. n \in Built /\ status[n] # "done"
    BY DEF Move, StartedInv
  <1>2. all = "waiting"
    BY <1>1 DEF AllInv
  <1> QED
    BY <1>2 DEF AllInv, Executable, graphVars

LEMMA RunTaskAll ==
  ASSUME AllInv, StartedInv, Executable, Executable', phase' # "returned",
         NEW t, NEW o \in Owners, RunTask(t, o)
  PROVE  AllInv'
  <1>1. UNCHANGED graphVars
    BY RunTaskCases
  <1>2. ASSUME NEW n \in Nodes, NEW from, NEW to, Move(n, from, to),
               UNCHANGED all, from # "done", from # "waiting" \/ n \in Built
        PROVE  AllInv'
    BY <1>1, <1>2, MoveAll
  <1>3. ASSUME NEW n \in Nodes, StartNode(t, n, "any")
        PROVE  AllInv'
    BY <1>2, <1>3 DEF StartNode
  <1>4. CASE AllNodesDone
    BY <1>1, <1>4 DEF AllNodesDone, AllNodesReady, AllInv, Executable, Built, graphVars
  <1> QED
    BY <1>2, <1>3, <1>4, RunTaskCases

LEMMA AllStep == StartedInv /\ AllInv /\ [Next]_vars => AllInv'
  <1> SUFFICES ASSUME StartedInv, AllInv, [Next]_vars
               PROVE  AllInv'
    OBVIOUS
  <1>1. ASSUME NEW ds, NEW d, AddNode(ds, d)
        PROVE  AllInv'
    BY <1>1 DEF AddNode, AllInv, spinVars
  <1>2. CASE Execute
    BY <1>2 DEF Execute, AllInv, graphVars, Built
  <1>3. ASSUME NEW t \in Pool, PoolRun(t)
        PROVE  AllInv'
    BY <1>3, RunTaskAll DEF PoolRun, Executing, Executable, spinVars
  <1>4. ASSUME NEW t, EndNode(t)
        PROVE  AllInv'
    BY <1>4, MoveAll DEF EndNode, Executing, Executable, spinVars
  <1>5. ASSUME NEW n \in Nodes, AsyncResolve(n)
        PROVE  AllInv'
    BY <1>5, MoveAll DEF AsyncResolve, Executing, Executable, spinVars
  <1>6. CASE MainFirst
    <2>1. ASSUME NEW n \in Nodes, StartNode(Main, n, "main")
          PROVE  AllInv'
      <3>1. /\ Executable /\ Executable' /\ phase' # "returned"
            /\ Move(n, "main", "running") /\ UNCHANGED <<graphVars, all>>
        BY <1>6, <2>1 DEF MainFirst, Executable, StartNode
      <3> QED
        BY <3>1, MoveAll
    <2>2. CASE SetDone
      BY <1>6, <2>2 DEF MainFirst, SetDone, AllInv, graphVars, Built
    <2>3. CASE UNCHANGED <<graphVars, status, all>>
      BY <1>6, <2>3 DEF MainFirst, AllInv, graphVars, Built
    <2> QED
      BY <1>6, <2>1, <2>2, <2>3 DEF MainFirst, MainTask
  <1>7. CASE ThenAny
    BY <1>7, RunTaskAll DEF ThenAny, Executable
  <1>8. CASE PassEnd
    BY <1>8 DEF PassEnd, AllInv, graphVars, Built
  <1>9. CASE UNCHANGED <<graphVars, status, all, spinVars>>
    BY <1>9 DEF graphVars, spinVars, AllInv, Built
  <1> QED
    BY <1>1, <1>2, <1>3, <1>4, <1>5, <1>6, <1>7, <1>8, <1>9
    DEF Next, MainStep, PoolTake, Finished, vars

-----------------------------------------------------------------------------
(* The passes of the spin loop *)

LEMMA InitPass == Init => PassInv
  BY DEF Init, PassInv, Executing

(* A node without dependencies never returns to "waiting". *)
LEMMA LeftWaiting ==
  ASSUME TypeOK, NEW n \in Nodes, NEW from, NEW to, Move(n, from, to),
         UNCHANGED graphVars, to # "waiting",
         \A m \in Built : deps[m] = {} => status[m] # "waiting"
  PROVE  \A m \in Built' : deps'[m] = {} => status'[m] # "waiting"
  <1>1. Built' = Built /\ deps' = deps
    BY DEF graphVars, Built
  <1>2. \A m \in Nodes : status'[m] = status[m] \/ status'[m] = to
    BY DEF Move, TypeOK
  <1>3. Built \subseteq Nodes
    BY SchedulerAssumption DEF TypeOK, Built, Nodes
  <1> QED
    BY <1>1, <1>2, <1>3

LEMMA RunTaskRoots ==
  ASSUME TypeOK, NEW t, NEW o \in Owners, RunTask(t, o),
         \A m \in Built : deps[m] = {} => status[m] # "waiting"
  PROVE  /\ \A m \in Built' : deps'[m] = {} => status'[m] # "waiting"
         /\ built' = built /\ (all' = "done" => all = "done")
  <1>1. UNCHANGED graphVars
    BY RunTaskCases
  <1>2. ASSUME NEW n \in Nodes, NEW from, NEW to, Move(n, from, to),
               UNCHANGED all, to # "waiting"
        PROVE  /\ \A m \in Built' : deps'[m] = {} => status'[m] # "waiting"
               /\ built' = built /\ (all' = "done" => all = "done")
    BY <1>1, <1>2, LeftWaiting DEF graphVars
  <1>3. ASSUME NEW n \in Nodes, StartNode(t, n, "any")
        PROVE  /\ \A m \in Built' : deps'[m] = {} => status'[m] # "waiting"
               /\ built' = built /\ (all' = "done" => all = "done")
    BY <1>2, <1>3 DEF StartNode
  <1>4. CASE AllNodesDone
    BY <1>1, <1>4 DEF AllNodesDone, graphVars, Built
  <1>5. \A n \in Nodes : Scheduled(n) # "waiting"
    BY DEF Scheduled
  <1> QED
    BY <1>2, <1>3, <1>4, <1>5, RunTaskCases

LEMMA PassStep == TypeOK /\ AllInv /\ PassInv /\ [Next]_vars => PassInv'
  <1> SUFFICES ASSUME TypeOK, AllInv, PassInv, [Next]_vars
               PROVE  PassInv'
    OBVIOUS
  <1> DEFINE Roots == \A m \in Built : deps[m] = {} => status[m] # "waiting"
  <1>1. ASSUME NEW ds, NEW d, AddNode(ds, d)
        PROVE  PassInv'
    BY <1>1 DEF AddNode, PassInv, Executing, spinVars
  <1>2. CASE Execute
    <2>1. phase' # "any"
      BY <1>2 DEF Execute
    <2>2. ASSUME Executing'
          PROVE  built' > 0 /\ Roots' /\ (all' = "done" => worked')
      <3>1. /\ built # 0 /\ UNCHANGED <<graphVars, all>> /\ phase = "build"
            /\ status' = [n \in Nodes |-> IF n \in Built /\ deps[n] = {}
                                          THEN Scheduled(n) ELSE "waiting"]
        BY <1>2, <2>2 DEF Execute, Executing
      <3>2. all = "waiting"
        BY <3>1 DEF AllInv
      <3>3. \A n \in Nodes : Scheduled(n) # "waiting"
        BY DEF Scheduled
      <3>4. built \in Nat /\ Built \subseteq Nodes
        BY SchedulerAssumption DEF TypeOK, Built, Nodes
      <3> QED
        BY <3>1, <3>2, <3>3, <3>4 DEF graphVars, Built
    <2> QED
      BY <2>1, <2>2 DEF PassInv
  <1>3. ASSUME NEW t \in Pool, PoolRun(t)
        PROVE  PassInv'
    <2>1. /\ Executing /\ UNCHANGED spinVars /\ Pool # {}
          /\ \E o \in Owners : RunTask(t, o)
      BY <1>3 DEF PoolRun
    <2>2. Roots' /\ built' = built /\ (all' = "done" => all = "done")
      BY <2>1, RunTaskRoots DEF PassInv
    <2> QED
      BY <2>1, <2>2 DEF PassInv, Executing, spinVars
  <1>4. ASSUME NEW n \in Nodes, NEW from, NEW to, Move(n, from, to),
               to \notin {"waiting", "main"}, Executing, UNCHANGED <<graphVars, all, spinVars>>
        PROVE  PassInv'
    <2>1. Roots'
      BY <1>4, LeftWaiting DEF PassInv
    <2>2. NoMainTask => NoMainTask'
      BY <1>4 DEF NoMainTask, Move, TypeOK
    <2> QED
      BY <1>4, <2>1, <2>2 DEF PassInv, Executing, spinVars, graphVars
  <1>5. ASSUME NEW t \in Threads, EndNode(t)
        PROVE  PassInv'
    BY <1>4, <1>5 DEF EndNode
  <1>6. ASSUME NEW n \in Nodes, AsyncResolve(n)
        PROVE  PassInv'
    BY <1>4, <1>6 DEF AsyncResolve
  <1>7. CASE MainFirst
    <2>1. ASSUME NEW n \in Nodes, StartNode(Main, n, "main")
          PROVE  PassInv'
      <3>1. /\ Move(n, "main", "running") /\ UNCHANGED <<graphVars, all>>
            /\ phase' = "main" /\ worked' = TRUE /\ Executing
        BY <1>7, <2>1 DEF MainFirst, StartNode, NoMainTask, Executing, Move
      <3>2. Roots'
        BY <3>1, LeftWaiting DEF PassInv
      <3> QED
        BY <3>1, <3>2 DEF PassInv, Executing, graphVars
    <2>2. CASE SetDone
      BY <1>7, <2>2
      DEF MainFirst, SetDone, NoMainTask, PassInv, Executing, graphVars, Built
    <2>3. CASE NoMainTask /\ phase' = "any"
                 /\ UNCHANGED <<graphVars, status, runner, all, worked, hanging>>
      BY <1>7, <2>3
      DEF MainFirst, PassInv, Executing, NoMainTask, graphVars, Built
    <2> QED
      BY <1>7, <2>1, <2>2, <2>3 DEF MainFirst, MainTask
  <1>8. CASE ThenAny
    <2>1. Roots' /\ built' = built
      BY <1>8, RunTaskRoots DEF ThenAny, PassInv, Executing
    <2> QED
      BY <1>8, <2>1 DEF ThenAny, PassInv, Executing
  <1>9. CASE PassEnd
    BY <1>9 DEF PassEnd, PassInv, Executing, graphVars, Built
  <1>10. CASE UNCHANGED <<graphVars, status, all, spinVars>>
    BY <1>10
    DEF graphVars, spinVars, PassInv, Executing, NoMainTask, Built
  <1> QED
    BY <1>1, <1>2, <1>3, <1>5, <1>6, <1>7, <1>8, <1>9, <1>10
    DEF Next, MainStep, PoolTake, Finished, Threads, vars

-----------------------------------------------------------------------------
(* The tasks in the hands of the pool *)

LEMMA InitHeld == Init => HeldInv
  BY DEF Init, HeldInv

(* A node's step does not take away what another task is for; nor its own, *)
(* unless the thread that holds it is done with it.                        *)
LEMMA MoveHeld ==
  ASSUME TypeOK, StartedInv, HeldInv, UNCHANGED <<graphVars, all>>,
         NEW n \in Nodes, NEW from, NEW to, Move(n, from, to),
         from # "done", from # "waiting" \/ n \in Built,
         holder'[n] = Nobody \/ from \in {"running", "async", "main"},
         \A o \in Owners : holder'[o] \in {holder[o], Nobody}
  PROVE  HeldInv'
  <1>1. /\ status[n] = from /\ status'[n] = to
        /\ \A m \in Nodes \ {n} : status'[m] = status[m]
    BY DEF Move, TypeOK
  <1>2. n \in Built
    BY <1>1 DEF StartedInv
  <1>3. Built' = Built /\ deps' = deps /\ all' = all /\ built' = built
    BY DEF graphVars, Built
  <1> SUFFICES ASSUME NEW o \in Owners, holder'[o] # Nobody
               PROVE  Pending(o)'
    BY DEF HeldInv
  <1>4. Pending(o)
    BY DEF HeldInv
  <1>5. CASE o = AllOf
    BY <1>1, <1>2, <1>4, <1>5 DEF Pending, AllNodesReady
  <1>6. CASE o # AllOf
    <2>1. o \in Nodes
      BY <1>6 DEF Owners
    <2>2. o # n
      BY <1>1, <1>4, <1>6 DEF Pending
    <2>3. deps[o] \subseteq Nodes
      BY <2>1 DEF TypeOK
    <2>4. DependenciesReady(o) => DependenciesReady(o)'
      BY <1>1, <1>3, <2>3 DEF DependenciesReady
    <2> QED
      BY <1>1, <1>4, <1>6, <2>1, <2>2, <2>4 DEF Pending
  <1> QED
    BY <1>5, <1>6

LEMMA RunTaskHeld ==
  ASSUME TypeOK, StartedInv, HeldInv,
         NEW t, NEW o \in Owners, RunTask(t, o), holder'[o] = Nobody,
         \A q \in Owners : holder'[q] \in {holder[q], Nobody}
  PROVE  HeldInv'
  <1>1. UNCHANGED graphVars
    BY RunTaskCases
  <1>2. ASSUME NEW from, NEW to, o \in Nodes, Move(o, from, to),
               UNCHANGED all, from # "done", from # "waiting" \/ o \in Built
        PROVE  HeldInv'
    BY <1>1, <1>2, MoveHeld
  <1>3. CASE o = AllOf /\ AllNodesDone
    <2>1. UNCHANGED <<built, deps, status>>
      BY <1>3 DEF AllNodesDone, graphVars
    <2>2. ASSUME NEW q \in Owners, holder'[q] # Nobody
          PROVE  Pending(q)'
      <3>1. q # AllOf /\ Pending(q)
        BY <1>3, <2>2 DEF HeldInv
      <3> QED
        BY <2>1, <3>1 DEF Pending, DependenciesReady, Built
    <2> QED
      BY <2>2 DEF HeldInv
  <1>4. CASE /\ o \in Nodes
             /\ \/ StartNode(t, o, "any")
                \/ DependenciesDone(o) \/ ScheduleCombined(o)
                \/ ResolveNode(o) \/ ResolveChained(o)
    <2>1. PICK from, to : Move(o, from, to) /\ UNCHANGED all /\ from # "done"
                          /\ (from # "waiting" \/ o \in Built)
      BY <1>4 DEF StartNode, DependenciesDone, DependenciesReady,
                  ScheduleCombined, ResolveNode, ResolveChained
    <2> QED
      BY <1>2, <1>4, <2>1
  <1> QED
    BY <1>3, <1>4 DEF RunTask

(* Before an execution no task is there to be held. *)
LEMMA BuildHeld ==
  ASSUME TypeOK, StartedInv, HeldInv, phase = "build"
  PROVE  \A o \in Owners : holder[o] = Nobody
  <1>1. Built \subseteq Nodes /\ (built > 0 => built \in Built)
    BY SchedulerAssumption DEF TypeOK, Built, Nodes
  <1>2. \A n \in Nodes : status[n] = "waiting"
    BY DEF StartedInv
  <1>3. ~AllNodesReady
    BY <1>1, <1>2 DEF AllNodesReady
  <1>4. \A n \in Nodes : ~DependenciesReady(n)
    BY <1>2 DEF DependenciesReady, TypeOK
  <1> QED
    BY <1>2, <1>3, <1>4 DEF HeldInv, Pending, Owners

LEMMA HeldStep ==
  TypeOK /\ StartedInv /\ HeldInv /\ [Next]_vars => HeldInv'
  <1> SUFFICES ASSUME TypeOK, StartedInv, HeldInv, [Next]_vars
               PROVE  HeldInv'
    OBVIOUS
  <1>1. ASSUME NEW ds, NEW d, AddNode(ds, d) \/ Execute
        PROVE  HeldInv'
    BY <1>1, BuildHeld DEF AddNode, Execute, HeldInv
  <1>2. ASSUME UNCHANGED <<built, deps, status, all>>,
               UNCHANGED holder \/ \E t \in Pool : PoolTake(t)
        PROVE  HeldInv'
    <2>1. \A o \in Owners : Pending(o)' = Pending(o)
      BY <1>2 DEF Pending, AllNodesReady, DependenciesReady, Built
    <2>2. CASE UNCHANGED holder
      BY <2>1, <2>2 DEF HeldInv
    <2>3. ASSUME NEW t \in Pool, PoolTake(t)
          PROVE  HeldInv'
      BY <2>1, <2>3 DEF PoolTake, HeldInv, Listed, TypeOK
    <2> QED
      BY <1>2, <2>2, <2>3
  <1>3. ASSUME NEW t \in Pool, PoolRun(t)
        PROVE  HeldInv'
    <2>1. PICK o \in Owners :
            holder' = [holder EXCEPT ![o] = Nobody] /\ RunTask(t, o)
      BY <1>3 DEF PoolRun
    <2>2. /\ holder'[o] = Nobody
          /\ \A q \in Owners : holder'[q] \in {holder[q], Nobody}
      BY <2>1 DEF TypeOK
    <2> QED
      BY <2>1, <2>2, RunTaskHeld
  <1>4. ASSUME NEW t, EndNode(t)
        PROVE  HeldInv'
    <2>1. UNCHANGED <<graphVars, holder, all>>
      BY <1>4 DEF EndNode
    <2> QED
      BY <1>4, <2>1, MoveHeld DEF EndNode
  <1>5. ASSUME NEW n \in Nodes, AsyncResolve(n)
        PROVE  HeldInv'
    BY <1>5, MoveHeld DEF AsyncResolve
  <1>6. CASE MainFirst
    <2>1. ASSUME NEW n \in Nodes, StartNode(Main, n, "main")
          PROVE  HeldInv'
      BY <1>6, <2>1, MoveHeld DEF MainFirst, StartNode
    <2>2. CASE SetDone
      <3>1. /\ UNCHANGED <<built, deps, status, holder>>
            /\ all # "waiting" /\ all' # "waiting"
        BY <1>6, <2>2 DEF MainFirst, SetDone, graphVars
      <3>2. \A o \in Owners : Pending(o)' = Pending(o)
        BY <3>1 DEF Pending, AllNodesReady, DependenciesReady, Built
      <3> QED
        BY <3>1, <3>2 DEF HeldInv
    <2>3. CASE UNCHANGED <<graphVars, status, all>>
      BY <1>2, <1>6, <2>3 DEF MainFirst, graphVars
    <2> QED
      BY <1>6, <2>1, <2>2, <2>3 DEF MainFirst, MainTask
  <1>7. CASE ThenAny
    <2>1. PICK o \in Owners : holder[o] = Nobody /\ RunTask(Main, o)
      BY <1>7 DEF ThenAny, Listed
    <2>2. UNCHANGED holder
      BY <1>7 DEF ThenAny
    <2> QED
      BY <2>1, <2>2, RunTaskHeld
  <1>8. CASE PassEnd
    BY <1>2, <1>8 DEF PassEnd, graphVars
  <1>9. ASSUME NEW t \in Pool, PoolTake(t)
        PROVE  HeldInv'
    BY <1>2, <1>9 DEF PoolTake, graphVars
  <1>10. CASE UNCHANGED vars
    BY <1>2, <1>10 DEF vars, graphVars
  <1> QED
    BY <1>1, <1>3, <1>4, <1>5, <1>6, <1>7, <1>8, <1>9, <1>10
    DEF Next, MainStep, Finished

-----------------------------------------------------------------------------
(* Theorems *)

(* The graph, the nodes and the calling thread agree, whatever graph is    *)
(* built and whichever threads execute it.                                 *)
THEOREM SchedulerInvariant == Spec => []IInv
  <1>1. Init => IInv
    BY InitType, InitGraph, InitStarted, InitAll, InitPass, InitHeld DEF IInv
  <1>2. IInv /\ [Next]_vars => IInv'
    BY TypeStep, GraphStep, StartedStep, AllStep, PassStep, HeldStep DEF IInv
  <1> QED
    BY <1>1, <1>2, PTL DEF Spec

(* Every variable of the scheduler keeps its type. *)
THEOREM SchedulerTyped == Spec => []TypeOK
  <1>1. IInv => TypeOK
    BY DEF IInv
  <1> QED
    BY <1>1, SchedulerInvariant, PTL

(* A graph that passes the validation of the constructor is executed       *)
(* without two conflicting systems under way at once.                      *)
THEOREM SchedulerExcludes == Spec => []ConflictingNodesExclude
  <1>1. IInv => ConflictingNodesExclude
    <2> SUFFICES ASSUME IInv, NEW n \in Nodes, NEW m \in Nodes \ {n},
                        Active(n), Active(m), Conflict(decl[n], decl[m])
                 PROVE  FALSE
      BY DEF ConflictingNodesExclude
    <2>1. /\ n \in Built /\ m \in Built /\ Validated
          /\ \A k \in strictDeps[n] : status[k] = "done"
          /\ \A k \in strictDeps[m] : status[k] = "done"
      BY DEF IInv, StartedInv, Active
    <2>2. \/ NeedsOrder(decl[n], decl[m])
          \/ NeedsOrder(decl[m], decl[n])
      BY DEF Conflict, NeedsOrder
    <2>3. n \in strictDeps[m] \/ m \in strictDeps[n]
      BY <2>1, <2>2 DEF Validated, HasStrictDep
    <2> QED
      BY <2>1, <2>3 DEF Active
  <1> QED
    BY <1>1, SchedulerInvariant, PTL

(* Systems run on the thread they ask for, after all they depend on. *)
THEOREM SchedulerRunsInPlace == Spec => []RunsInPlace
  <1>1. IInv => RunsInPlace
    BY SchedulerAssumption DEF IInv, TypeOK, StartedInv, RunsInPlace
  <1> QED
    BY <1>1, SchedulerInvariant, PTL

(* execute does not return before every node is done. *)
THEOREM SchedulerReturns == Spec => []ReturnsWhenDone
  <1>1. IInv => ReturnsWhenDone
    BY DEF IInv, TypeOK, AllInv, ReturnsWhenDone, Built
  <1> QED
    BY <1>1, SchedulerInvariant, PTL

(* While no task is listed and not every node is done, the first such node *)
(* is what the others wait for: it is under way, on the main thread's      *)
(* list, or in the hands of a thread of the pool.                          *)
LEMMA FirstUndone ==
  ASSUME IInv, Executing, NoAnyTask, NEW u \in Built, status[u] # "done"
  PROVE  \E n \in Built :
           Active(n) \/ status[n] = "main" \/ holder[n] # Nobody
  <1> DEFINE Undone == {n \in Built : status[n] # "done"}
  <1>1. Built \subseteq Nodes /\ Built \subseteq Nat
    BY SchedulerAssumption DEF IInv, TypeOK, Built, Nodes
  <1>2. Undone \in SUBSET Nat /\ Undone # {}
    BY <1>1
  <1>3. PICK n \in Undone : \A m \in Undone : n <= m
    <2> DEFINE Less == {p \in Nat \X Nat : p[1] < p[2]}
    <2>1. IsWellFoundedOn(Less, Nat)
      BY NatLessThanWellFounded DEF OpToRel
    <2> HIDE DEF Undone
    <2>2. PICK n \in Undone : \A m \in Undone : <<m, n>> \notin Less
      <3> HIDE DEF Less
      <3> QED
        BY <1>2, <2>1, WFMin
    <2>3. \A m \in Undone : ~(m < n)
      BY <1>2, <2>2
    <2> QED
      BY <1>2, <2>3
  <1>4. n \in Built /\ status[n] # "done"
    BY <1>3
  <1>5. \A m \in deps[n] : status[m] = "done"
    <2> SUFFICES ASSUME NEW m \in deps[n], status[m] # "done"
                 PROVE  FALSE
      OBVIOUS
    <2>1. m \in Built /\ m < n
      BY <1>4 DEF IInv, GraphInv
    <2> QED
      BY <1>1, <1>3, <1>4, <2>1
  <1>6. n \in Owners /\ n # AllOf /\ n \in Nodes
    BY <1>1, <1>4 DEF Owners, Nodes, AllOf
  <1>7. CASE Pending(n)
    <2>1. holder[n] # Nobody
      BY <1>6, <1>7 DEF NoAnyTask, Listed
    <2> QED
      BY <1>4, <2>1
  <1>8. CASE ~Pending(n)
    <2>1. status[n] # "waiting"
      BY <1>4, <1>5, <1>6, <1>8
      DEF IInv, PassInv, Pending, DependenciesReady
    <2>2. status[n] \in {"main", "running", "async"}
      BY <1>4, <1>6, <1>8, <2>1 DEF IInv, TypeOK, Pending
    <2> QED
      BY <1>4, <2>2 DEF Active
  <1> QED
    BY <1>7, <1>8

(* The assertion of the hang timer stops execute only while some system    *)
(* has not given its result, or while a thread of the pool has a task in   *)
(* its hands or has just put one on the caller's list.                     *)
THEOREM SchedulerHangs == Spec => []HangMeansWaiting
  <1>1. Init => HangMeansWaiting
    BY DEF Init, HangMeansWaiting
  <1>2. IInv /\ HangMeansWaiting /\ [Next]_vars => HangMeansWaiting'
    <2> SUFFICES ASSUME IInv, HangMeansWaiting, [Next]_vars, phase' = "crashed"
                 PROVE  \/ \E n \in Built' : Active(n)'
                        \/ \E o \in Owners : holder'[o] # Nobody
                        \/ /\ Pool # {}
                           /\ \/ all' = "main"
                              \/ \E n \in Built' : status'[n] = "main"
      BY DEF HangMeansWaiting
    <2>1. CASE PassEnd
      <3>1. /\ UNCHANGED <<graphVars, status, holder, all>> /\ NoAnyTask
            /\ phase = "any" /\ ~worked
        BY <2>1 DEF PassEnd
      <3>2. Built' = Built /\ \A n : Active(n)' = Active(n)
        BY <3>1 DEF graphVars, Built, Active
      <3>3. all # "done" /\ built > 0
        BY <3>1 DEF IInv, PassInv, Executing
      <3>4. CASE all = "main"
        <4>1. Pool # {}
          BY <3>1, <3>4 DEF IInv, PassInv, NoMainTask
        <4> QED
          BY <3>1, <3>4, <4>1
      <3>5. CASE all = "waiting"
        <4> SUFFICES ASSUME \A o \in Owners : holder[o] = Nobody
                     PROVE  \/ \E n \in Built' : Active(n)'
                            \/ /\ Pool # {}
                               /\ \/ all' = "main"
                                  \/ \E n \in Built' : status'[n] = "main"
          BY <3>1
        <4>1. PICK u \in Built : status[u] # "done"
          BY <3>1, <3>3, <3>5
          DEF NoAnyTask, Listed, Pending, Owners, AllNodesReady
        <4>2. PICK n \in Built : Active(n) \/ status[n] = "main"
          <5>1. Built \subseteq Owners
            BY SchedulerAssumption DEF IInv, TypeOK, Built, Nodes, Owners
          <5> QED
            BY <3>1, <4>1, <5>1, FirstUndone DEF Executing
        <4>3. CASE Active(n)
          BY <3>2, <4>3
        <4>4. CASE status[n] = "main"
          <5>1. n \in Nodes
            BY SchedulerAssumption DEF IInv, TypeOK, Built, Nodes
          <5>2. Pool # {}
            BY <3>1, <4>4, <5>1 DEF IInv, PassInv, NoMainTask
          <5> QED
            BY <3>1, <3>2, <4>4, <5>2
        <4> QED
          BY <4>2, <4>3, <4>4
      <3> QED
        BY <3>3, <3>4, <3>5 DEF IInv, TypeOK
    <2>2. CASE Finished \/ UNCHANGED vars
      <3>1. UNCHANGED <<built, status, holder, all, phase>>
        BY <2>2 DEF Finished, vars, graphVars, spinVars
      <3> QED
        BY <3>1 DEF HangMeansWaiting, Active, Built
    <2>3. ASSUME NEW ds, NEW d, AddNode(ds, d)
          PROVE  FALSE
      BY <2>3 DEF AddNode, spinVars
    <2>4. CASE Execute
      BY <2>4 DEF Execute
    <2>5. ASSUME NEW t, PoolTake(t) \/ PoolRun(t) \/ EndNode(t)
          PROVE  FALSE
      BY <2>5 DEF PoolTake, PoolRun, EndNode, Executing, spinVars
    <2>6. ASSUME NEW n, AsyncResolve(n)
          PROVE  FALSE
      BY <2>6 DEF AsyncResolve, Executing, spinVars
    <2>7. CASE MainFirst \/ ThenAny
      BY <2>7 DEF MainFirst, ThenAny
    <2> QED
      BY <2>1, <2>2, <2>3, <2>4, <2>5, <2>6, <2>7 DEF Next, MainStep
  <1> QED
    BY <1>1, <1>2, SchedulerInvariant, PTL DEF Spec

=============================================================================
