-------------------------------- MODULE MCHeap --------------------------------
(* The programs of the Heap runs. *)
EXTENDS Heap

MCPrograms ==
    { [path |-> <<"d", "/", "m">>, literals |-> << <<"d", "/">> >>,
       hasFunction |-> FALSE, maxObjects |-> 8],
      [path |-> <<"m">>, literals |-> << <<>>, <<".", "/">> >>,
       hasFunction |-> FALSE, maxObjects |-> 8],
      [path |-> <<"m">>, literals |-> << <<"m">> >>,
       hasFunction |-> FALSE, maxObjects |-> 8],
      \* A closure that is called.
      [path |-> <<"m">>, literals |-> << <<"/">> >>,
       hasFunction |-> TRUE, maxObjects |-> 9],
      \* Closures that share variables: two open upvalues, no strings.
      [path |-> <<"m">>, literals |-> <<>>,
       hasFunction |-> TRUE, maxObjects |-> 12] }

\* What lies above the stack and every open upvalue is written before it is read,
\* and so is the slot that a closure is going to be pushed to.
Used == IF open # <<>> /\ open[1].slot > sp THEN open[1].slot ELSE sp
View == <<program, heap, sp, frames, open, building, phase, collector,
          [i \in 1..Used |-> IF building # Nil /\ i = sp + 1 THEN Nil ELSE stack[i]]>>
===============================================================================
