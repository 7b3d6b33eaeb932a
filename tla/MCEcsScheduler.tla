--------------------------- MODULE MCEcsScheduler ---------------------------
(* Each system declares one access to the one type X. *)
EXTENDS EcsScheduler

CONSTANT X

MCTypes == {X}

(* Decl::writes and Decl::ctx_writes record a read as well *)
MCDecls ==
  { [Decl0 EXCEPT !.reads = {X}],
    [Decl0 EXCEPT !.reads = {X}, !.writes = {X}],
    [Decl0 EXCEPT !.ctxReads = {X}],
    [Decl0 EXCEPT !.ctxReads = {X}, !.ctxWrites = {X}],
    [Decl0 EXCEPT !.evtWrites = {X}],
    [Decl0 EXCEPT !.evtConsumes = {X}] }

=============================================================================
