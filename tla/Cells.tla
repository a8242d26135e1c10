--------------------------------- MODULE Cells ---------------------------------
(***************************************************************************)
(* What variables promise a Nur program: every variable is a cell of its   *)
(* own, shared by the function that declares it and by all the closures    *)
(* that mention it, and a read gives the value written last, whether or    *)
(* not the declaring function is still running.  Upvalues, the stack,      *)
(* frames and upvalues of vm.c, implements this specification.             *)
(***************************************************************************)
EXTENDS Naturals, Sequences

CONSTANT Values

VARIABLES
    cells,  \* the values of the variables declared so far
    out     \* which variable the last step read, if any, and what it got

vars == <<cells, out>>

NothingRead == [cell |-> 0]

Init == cells = << >> /\ out = NothingRead

Declare(v) == cells' = Append(cells, v) /\ out' = NothingRead

Write(c, v) == cells' = [cells EXCEPT ![c] = v] /\ out' = NothingRead

Read(c) == out' = [cell |-> c, value |-> cells[c]] /\ UNCHANGED cells

\* Computation that neither declares, writes nor reads a variable.
Other == out' = NothingRead /\ UNCHANGED cells

Next ==
    \/ \E v \in Values : Declare(v)
    \/ \E c \in DOMAIN cells, v \in Values : Write(c, v)
    \/ \E c \in DOMAIN cells : Read(c)
    \/ Other

Spec == Init /\ [][Next]_vars
================================================================================
