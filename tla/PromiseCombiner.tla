-------------------------- MODULE PromiseCombiner --------------------------
(***************************************************************************)
(* igasync's PromiseCombiner (include/igasync/promise_combiner.h and       *)
(* src/promise_combiner.cc): one caller adds input promises and asks for   *)
(* their combination, while worker threads run the callback each input     *)
(* was given.                                                              *)
(*                                                                         *)
(* The promises themselves follow PromiseContract, which module Promise    *)
(* implements: a registered callback becomes a task once its promise has a *)
(* value.  Every input callback is a process of its own, since any worker  *)
(* may run it, and so is the call of resolve_promise(0u) inside combine,   *)
(* named by Zero, the key no input has.                                    *)
(*                                                                         *)
(* The combiner keeps itself alive through final_result_, and the input    *)
(* callbacks hold only a weak pointer, so who owns it is modelled too.     *)
(***************************************************************************)
EXTENDS Naturals

CONSTANTS
  Inputs,  (* keys of the promises the caller may add                      *)
  Zero     (* key 0u: combine's own call of resolve_promise                *)

ASSUME KeysAssumption == Zero \notin Inputs

Keys == Inputs \cup {Zero}

VARIABLES
  entries,      (* keys in promise_ptrs_                                   *)
  marked,       (* keys whose entry has IsResolved                         *)
  requested,    (* is_combine_requested_                                   *)
  finalResult,  (* final_result_: "null" or "owner" (it owns the combiner) *)
  finalValue,   (* result_ of final_promise_: "none", "owner", "null"      *)
  consumer,     (* the combined callback: where it is                      *)
  rslMutex,     (* holders of rsl_mut_ (at most one)                       *)
  resolvePc,    (* where the resolve_promise call of each key is           *)
  held,         (* the caller still holds its shared_ptr                   *)
  settled,      (* inputs that have a value                                *)
  added         (* history: inputs passed to add                           *)

combinerVars ==
  <<entries, marked, requested, finalResult, finalValue, consumer, rslMutex,
    resolvePc, held, settled, added>>

finalVars == <<finalResult, finalValue, consumer>>

Free == rslMutex = {}

(* The owners of the combiner: the caller, final_result_, the result kept  *)
(* by final_promise_ or handed to the combined callback, and every input   *)
(* callback that has locked its weak pointer.                              *)
Alive ==
  \/ held
  \/ finalResult = "owner"
  \/ finalValue = "owner"
  \/ consumer = "running"
  \/ \E k \in Inputs : resolvePc[k] \in {"call", "scan", "resolve", "unlock"}

-----------------------------------------------------------------------------

CombinerInit ==
  /\ entries = {}
  /\ marked = {}
  /\ requested = FALSE
  /\ finalResult = "null"
  /\ finalValue = "none"
  /\ consumer = "none"
  /\ rslMutex = {}
  /\ resolvePc = [k \in Keys |-> "none"]
  /\ held = TRUE
  /\ settled = {}
  /\ added = {}

(* Environment: an input promise gets its value. *)
Settle(k) ==
  /\ k \notin settled
  /\ settled' = settled \cup {k}
  /\ UNCHANGED <<entries, marked, requested, finalVars, rslMutex, resolvePc,
                 held, added>>

(* add: push the entry and register the callback, all under rsl_mut_ *)
Add(k) ==
  /\ held /\ Free
  /\ ~requested
  /\ k \notin added
  /\ added' = added \cup {k}
  /\ entries' = entries \cup {k}
  /\ resolvePc' = [resolvePc EXCEPT ![k] = "registered"]
  /\ UNCHANGED <<marked, requested, finalVars, rslMutex, held, settled>>

(* mutant: the combined callback is registered before resolve_promise(0u)  *)
CombineConsumeFirst ==
  /\ held /\ Free
  /\ ~requested
  /\ finalResult' = "owner"
  /\ requested' = TRUE
  /\ consumer' = "registered"
  /\ resolvePc' = [resolvePc EXCEPT ![Zero] = "call"]
  /\ UNCHANGED <<entries, marked, finalValue, rslMutex, held, settled, added>>

(* mutant: the pending result does not own the combiner                    *)
CombineUnowned ==
  /\ held /\ Free
  /\ ~requested
  /\ requested' = TRUE
  /\ resolvePc' = [resolvePc EXCEPT ![Zero] = "call"]
  /\ UNCHANGED <<entries, marked, finalVars, rslMutex, held, settled, added>>

(* combine: take an owning result and raise the flag under rsl_mut_, then  *)
(* call resolve_promise(0u)                                                *)
Combine ==
  /\ held /\ Free
  /\ ~requested
  /\ finalResult' = "owner"
  /\ requested' = TRUE
  /\ resolvePc' = [resolvePc EXCEPT ![Zero] = "call"]
  /\ UNCHANGED <<entries, marked, finalValue, consumer, rslMutex, held,
                 settled, added>>

(* combine: then_consuming, after resolve_promise(0u) has returned *)
CombineConsume ==
  /\ resolvePc[Zero] = "consume"
  /\ resolvePc' = [resolvePc EXCEPT ![Zero] = "returned"]
  /\ consumer' = IF finalValue = "none" THEN "registered" ELSE "scheduled"
  /\ UNCHANGED <<entries, marked, requested, finalResult, finalValue,
                 rslMutex, held, settled, added>>

(* the caller's shared_ptr goes out of scope *)
Release ==
  /\ held
  /\ resolvePc[Zero] = "returned"
  /\ held' = FALSE
  /\ UNCHANGED <<entries, marked, requested, finalVars, rslMutex, resolvePc,
                 settled, added>>

-----------------------------------------------------------------------------
(* The callback of an input, run by a worker *)

(* the weak pointer is locked; it fails when the combiner is gone *)
CallbackStart(k) ==
  /\ resolvePc[k] = "registered"
  /\ k \in settled
  /\ resolvePc' = [resolvePc EXCEPT ![k] = IF Alive THEN "call" ELSE "lost"]
  /\ UNCHANGED <<entries, marked, requested, finalVars, rslMutex, held,
                 settled, added>>

(* resolve_promise: lock rsl_mut_ and mark the entry of the key *)
ResolveMark(k) ==
  /\ resolvePc[k] = "call"
  /\ Free
  /\ rslMutex' = {k}
  /\ marked' = marked \cup ({k} \cap entries)
  /\ resolvePc' = [resolvePc EXCEPT ![k] = "scan"]
  /\ UNCHANGED <<entries, requested, finalVars, held, settled, added>>

(* mutant: one resolved entry is enough                                    *)
ResolveScanAny(k) ==
  /\ resolvePc[k] = "scan"
  /\ resolvePc' = [resolvePc EXCEPT ![k] =
              IF requested /\ (entries = {} \/ entries \cap marked # {})
              THEN "resolve" ELSE "unlock"]
  /\ UNCHANGED <<entries, marked, requested, finalVars, rslMutex, held,
                 settled, added>>

(* resolve_promise: the early returns *)
ResolveScan(k) ==
  /\ resolvePc[k] = "scan"
  /\ resolvePc' = [resolvePc EXCEPT ![k] =
              IF requested /\ entries \subseteq marked
              THEN "resolve" ELSE "unlock"]
  /\ UNCHANGED <<entries, marked, requested, finalVars, rslMutex, held,
                 settled, added>>

(* mutant: a second resolve overwrites the value                           *)
ResolveFinalAgain(k) ==
  /\ resolvePc[k] = "resolve"
  /\ resolvePc' = [resolvePc EXCEPT ![k] = "unlock"]
  /\ finalResult' = "null"
  /\ finalValue' = finalResult
  /\ consumer' = IF consumer = "registered" THEN "scheduled" ELSE consumer
  /\ UNCHANGED <<entries, marked, requested, rslMutex, held, settled, added>>

(* mutant: final_result_ is copied, not moved, into the promise            *)
ResolveFinalCopied(k) ==
  /\ resolvePc[k] = "resolve"
  /\ resolvePc' = [resolvePc EXCEPT ![k] = "unlock"]
  /\ finalValue' = IF finalValue = "none" THEN finalResult ELSE finalValue
  /\ consumer' = IF consumer = "registered" THEN "scheduled" ELSE consumer
  /\ UNCHANGED <<entries, marked, requested, finalResult, rslMutex, held,
                 settled, added>>

(* final_promise_->resolve(std::move(final_result_)): a value that is      *)
(* already set stays, the moved result is dropped                          *)
ResolveFinal(k) ==
  /\ resolvePc[k] = "resolve"
  /\ resolvePc' = [resolvePc EXCEPT ![k] = "unlock"]
  /\ finalResult' = "null"
  /\ IF finalValue = "none"
     THEN /\ finalValue' = finalResult
          /\ consumer' = IF consumer = "registered"
                         THEN "scheduled" ELSE consumer
     ELSE UNCHANGED <<finalValue, consumer>>
  /\ UNCHANGED <<entries, marked, requested, rslMutex, held, settled, added>>

ResolveUnlock(k) ==
  /\ resolvePc[k] = "unlock"
  /\ rslMutex' = {}
  /\ resolvePc' = [resolvePc EXCEPT ![k] =
                     IF k = Zero THEN "consume" ELSE "done"]
  /\ UNCHANGED <<entries, marked, requested, finalVars, held, settled, added>>

-----------------------------------------------------------------------------
(* The combined callback, run by a worker *)

(* the value is moved out of final_promise_ into the callback's parameter *)
ConsumerStart ==
  /\ consumer = "scheduled"
  /\ consumer' = "running"
  /\ finalValue' = "null"
  /\ UNCHANGED <<entries, marked, requested, finalResult, rslMutex, resolvePc,
                 held, settled, added>>

(* ~PromiseCombinerResult clears promise_ptrs_ without rsl_mut_ *)
ConsumerEnd ==
  /\ consumer = "running"
  /\ consumer' = "done"
  /\ entries' = {}
  /\ UNCHANGED <<marked, requested, finalResult, finalValue, rslMutex,
                 resolvePc, held, settled, added>>

-----------------------------------------------------------------------------

ResolvePromise(k) ==
  \/ ResolveMark(k) \/ ResolveScan(k) \/ ResolveFinal(k) \/ ResolveUnlock(k)

InputStep(k) == CallbackStart(k) \/ ResolvePromise(k)

CallerStep == ResolvePromise(Zero) \/ CombineConsume \/ Release

CombinedStep == ConsumerStart \/ ConsumerEnd

CombinerFinished ==
  /\ consumer = "done"
  /\ ~held
  /\ settled = Inputs
  /\ UNCHANGED combinerVars

CombinerNext ==
  \/ \E k \in Inputs : Add(k) \/ Settle(k) \/ InputStep(k)
  \/ Combine \/ CallerStep \/ CombinedStep
  \/ CombinerFinished

CombinerSpec == CombinerInit /\ [][CombinerNext]_combinerVars

(* Calls return, task lists are pumped, and every input promise gets a     *)
(* value (rule 2 of promise.h); nobody is obliged to call combine.         *)
CombinerFairness ==
  /\ \A k \in Inputs :
       WF_combinerVars(Settle(k)) /\ WF_combinerVars(InputStep(k))
  /\ WF_combinerVars(CallerStep)
  /\ WF_combinerVars(CombinedStep)

CombinerLiveSpec == CombinerSpec /\ CombinerFairness

-----------------------------------------------------------------------------
(* Properties *)

(* Types; rsl_mut_ has at most one holder, which is inside                 *)
(* resolve_promise; only added inputs are marked, and only settled ones.   *)
CombinerTypeOK ==
  /\ entries \subseteq added /\ added \subseteq Inputs
  /\ marked \subseteq added \cap settled /\ settled \subseteq Inputs
  /\ requested \in BOOLEAN /\ held \in BOOLEAN
  /\ finalResult \in {"null", "owner"}
  /\ finalValue \in {"none", "owner", "null"}
  /\ consumer \in {"none", "registered", "scheduled", "running", "done"}
  /\ resolvePc \in [Keys -> {"none", "registered", "call", "scan", "resolve",
                      "unlock", "consume", "returned", "done", "lost"}]
  /\ rslMutex = {k \in Keys : resolvePc[k] \in {"scan", "resolve", "unlock"}}
  /\ \A j, k \in rslMutex : j = k

(* The detailed combiner implements Promise.all: the combined callback is  *)
(* invoked once, after combine was called and all added inputs have a      *)
(* value, whichever of the input callbacks and the call of combine comes   *)
(* last.                                                                   *)
All == INSTANCE PromiseAll WITH
  delivered <- (IF consumer \in {"running", "done"} THEN 1 ELSE 0)

ImplementsAll == All!Spec

(* The result's destructor clears promise_ptrs_ without the lock, in the   *)
(* thread of the combined callback.  That is no data race: by then no      *)
(* thread is, or will be, at the loops of resolve_promise.                 *)
ClearRacesNobody ==
  consumer = "running" =>
    \A k \in Keys : resolvePc[k] \notin {"registered", "call", "scan"}

(* The combined callback can read its inputs: the result that reaches it   *)
(* owns the combiner (final_result_ is moved from at most once before that *)
(* matters) and every added promise is still in promise_ptrs_.             *)
ResultReadable ==
  /\ finalValue # "none" /\ consumer \in {"none", "registered", "scheduled"}
       => finalValue = "owner"
  /\ consumer = "running" => entries = added

(* No input callback finds the combiner gone (the "Well shit" branch).     *)
CallbackFindsCombiner == \A k \in Inputs : resolvePc[k] # "lost"

(* A combination that is requested is delivered, and afterwards the        *)
(* combiner is destroyed: neither final_result_ nor final_promise_ keeps   *)
(* the cycle through the combiner alive.                                   *)
DeliveredAndFreed == requested ~> (consumer = "done" /\ ~Alive)

=============================================================================
