----------------------------- MODULE MCPromise -----------------------------
(* Callbacks spread over a main list pumped by the main thread and a pool  *)
(* list pumped by any number of pool threads; resolve calls race.          *)
EXTENDS Promise

CONSTANTS OnMain, main, pool, wMain

MCListOf == [k \in Callbacks |-> IF k \in OnMain THEN main ELSE pool]
MCServes == [w \in Workers |-> IF w = wMain THEN {main} ELSE {pool}]

=============================================================================
