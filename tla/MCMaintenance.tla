--------------------------- MODULE MCMaintenance ---------------------------
(* Small instances of Maintenance for TLC: two calls in the server, one in the *)
(* command line tool.                                                          *)
EXTENDS Maintenance

CONSTANTS c1, c2, c3, server, cli

HostDef == [c \in Call |-> IF c = c3 THEN cli ELSE server]
=============================================================================
