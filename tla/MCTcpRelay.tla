----------------------------- MODULE MCTcpRelay -----------------------------
(* TcpRelay with two connections that compete for a single slot of the     *)
(* forwarder; only the first one carries data, one byte each way.          *)
EXTENDS TcpRelay

CONSTANTS a, b

MCConns == {a, b}
MCBytes == [c \in MCConns |-> IF c = a THEN 1 ELSE 0]
=============================================================================
