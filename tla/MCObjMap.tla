-------------------------------- MODULE MCObjMap -------------------------------
(* Constants of the ObjMap run. *)
EXTENDS ObjMap, TLC

CONSTANTS a, b, c, d, null, true, nokey, novalue

MCKeys == {a, b, c, d}

\* In a table of 4 slots a, b and c collide in the last one and wrap around;
\* d's home is where b lands.  In a table of 8 slots c moves away.
MCHash == (a :> 3) @@ (b :> 3) @@ (c :> 7) @@ (d :> 0)

MCValues == {null, true}
================================================================================
