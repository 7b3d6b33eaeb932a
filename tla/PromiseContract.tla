-------------------------- MODULE PromiseContract --------------------------
(***************************************************************************)
(* What a Promise offers its users, without mutexes, counters or task      *)
(* lists (the numbered rules and the IMPORTANT NOTE of                     *)
(* igasync/promise.h): the value is set at most once; a callback accepted  *)
(* by on_success runs at most once and only after the value is set; one    *)
(* consumer is accepted, after which no callback is; and a consumer        *)
(* accepted while the promise was pending takes the value away only after  *)
(* every accepted callback has run.                                        *)
(***************************************************************************)
EXTENDS Sequences

CONSTANTS Thens, Consumers, Resolvers, NoValue, Moved

VARIABLES
  value,       (* NoValue, the value of a resolver, or Moved               *)
  registered,  (* accepted on_success callbacks                            *)
  consumer,    (* the accepted consumer, or NoValue                        *)
  deferred,    (* the consumer was accepted before the value was set       *)
  seen         (* the value each callback was run with                     *)

cvars == <<value, registered, consumer, deferred, seen>>

Init ==
  /\ value = NoValue
  /\ registered = {}
  /\ consumer = NoValue
  /\ deferred = FALSE
  /\ seen = [k \in Thens \cup Consumers |-> <<>>]

Register(k) ==
  /\ consumer = NoValue
  /\ registered' = registered \cup {k}
  /\ UNCHANGED <<value, consumer, deferred, seen>>

Finalize(c) ==
  /\ consumer = NoValue
  /\ consumer' = c
  /\ deferred' = (value = NoValue)
  /\ UNCHANGED <<value, registered, seen>>

Fulfil(r) ==
  /\ value = NoValue
  /\ value' = r
  /\ UNCHANGED <<registered, consumer, deferred, seen>>

Run(k) ==
  /\ k \in registered
  /\ value # NoValue
  /\ seen[k] = <<>>
  /\ seen' = [seen EXCEPT ![k] = <<value>>]
  /\ UNCHANGED <<value, registered, consumer, deferred>>

Consume(c) ==
  /\ c = consumer
  /\ value # NoValue
  /\ seen[c] = <<>>
  /\ deferred => \A k \in registered : seen[k] # <<>>
  /\ seen' = [seen EXCEPT ![c] = <<value>>]
  /\ value' = Moved
  /\ UNCHANGED <<registered, consumer, deferred>>

Next ==
  \/ \E k \in Thens : Register(k) \/ Run(k)
  \/ \E c \in Consumers : Finalize(c) \/ Consume(c)
  \/ \E r \in Resolvers : Fulfil(r)

Spec == Init /\ [][Next]_cvars

=============================================================================
