--------------------------- MODULE MCStorePacing ---------------------------
(* A small instance of StorePacing: three callers of one host, units of     *)
(* time in which a gap is three or four long and a circuit stays open six.   *)
EXTENDS StorePacing

CONSTANTS c1, c2, c3

=============================================================================
