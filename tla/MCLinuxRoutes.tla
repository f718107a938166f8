--------------------------- MODULE MCLinuxRoutes ---------------------------
(* LinuxRoutes with two addresses; the three base rules in Config's order. *)
EXTENDS LinuxRoutes

MCBase == <<"200", "201", "202">>
=============================================================================
