--------------------------- MODULE MCNatForwarder ---------------------------
(* NatForwarder with four datagrams of one client: the reader of the first *)
(* socket can delete the entry of a later one under the dial of another.   *)
EXTENDS NatForwarder

CONSTANT host

MCAddr == [d \in Datagrams |-> host]
=============================================================================
