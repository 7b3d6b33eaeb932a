----------------------------- MODULE MCWsServer -----------------------------
(* All connections present the same token: each one after the first is a   *)
(* reconnect.                                                              *)
EXTENDS WsServer

CONSTANT p1

MCPlayerOf == [h \in Hdls |-> p1]

=============================================================================
