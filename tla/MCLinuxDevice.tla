--------------------------- MODULE MCLinuxDevice ---------------------------
(* LinuxDevice with two addresses; two of the three base rules, in Config's order. *)
EXTENDS LinuxDevice

MCBase == <<"200", "201">>
=============================================================================
