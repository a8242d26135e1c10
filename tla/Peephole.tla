-------------------------------- MODULE Peephole -------------------------------
(***************************************************************************)
(* Jumps in a function's bytecode: how compiler.c emits and patches them,  *)
(* and what chunk_optimize, the pass that drops DUP; POP pairs, does to    *)
(* them.  A chunk is a sequence of instructions, each at a byte offset; a  *)
(* jump holds the number of bytes to skip, forward or back.                *)
(*                                                                         *)
(* The fields aim and from are history: aim is the instruction (its number *)
(* in the compiled chunk) a jump is meant for, from the number an          *)
(* instruction had before the pass.  The program reads neither.            *)
(***************************************************************************)
EXTENDS Integers, SequencesExt

CONSTANTS
    MaxInstructions,  \* bound: length of a compiled function
    MaxNesting        \* bound: nested loops and conditionals

VARIABLES
    phase,       \* "compile", "optimize", "done"
    chunk,       \* the chunk being compiled, then the old chunk of the pass
    count,       \* its bytes
    nest,        \* the loops and conditionals being compiled, innermost last
    locals,      \* compiler->locals_count
    ip,          \* the pass: the next instruction to read
    previous,    \* the opcode read before
    newChunk, newCount

vars == <<phase, chunk, count, nest, locals, ip, previous, newChunk, newCount>>

--------------------------------------------------------------------------------
(* Instructions *)

Forward == {"jump", "popJumpIfFalse"}
IsJump(i) == i.op \in Forward \cup {"loop"}

\* An expression stands for whatever code pushes one value: PUSH_CONST here.
Size(op) == IF op \in Forward \cup {"loop", "expr"} THEN 3 ELSE 1

Unpatched == 0
Instruction(op, at, operand, aim, from) ==
    [op |-> op, at |-> at, operand |-> operand, aim |-> aim, from |-> from]

\* Where the VM goes on after a jump (vm.c: ip += offset, ip -= offset).
Destination(i) ==
    IF i.op = "loop" THEN i.at + Size(i.op) - i.operand ELSE i.at + Size(i.op) + i.operand

\* The byte at which the n-th instruction of c ends and the next one starts.
End(c, n) == IF n = 0 THEN 0 ELSE c[n].at + Size(c[n].op)

\* Append an instruction to chunk c.
Emit(c, op) == Append(c, Instruction(op, End(c, Len(c)), Unpatched, 0, Len(c) + 1))

\* Append a pop for each of k locals.
EmitPops(c, k) ==
    c \o [n \in 1 .. k |-> Instruction("pop", End(c, Len(c)) + n - 1, Unpatched, 0, Len(c) + n)]

\* compiler_emit_jump: what it skips is not known yet.
EmitJump(c, op) == Emit(c, op)

\* Mutant: the two bytes of the operand are not subtracted.
PatchFar(c, n) ==
    [c EXCEPT ![n].operand = End(c, Len(c)) - (c[n].at + 1),
              ![n].aim = Len(c) + 1]

\* compiler_patch_jump: the jump at n skips to the end of what is emitted so far.
Patch(c, n) ==
    [c EXCEPT ![n].operand = End(c, Len(c)) - (c[n].at + 1) - 2,
              ![n].aim = Len(c) + 1]

\* Patching does not move code: jumps are patched in any order.
PatchAll(c, jumps) ==
    [n \in DOMAIN c |-> IF n \in jumps THEN Patch(c, n)[n] ELSE c[n]]

\* Mutant: the two bytes of the operand are not counted.
EmitLoopShort(c, offset, start) ==
    LET at == End(c, Len(c)) IN
    Append(c, Instruction("loop", at, (at + 1) - offset, start, Len(c) + 1))

\* compiler_emit_loop: back to the instruction number start, at byte offset.
EmitLoop(c, offset, start) ==
    LET at == End(c, Len(c)) IN
    Append(c, Instruction("loop", at, (at + 1) - offset + 2, start, Len(c) + 1))

--------------------------------------------------------------------------------
Init ==
    /\ phase = "compile"
    /\ chunk = << >> /\ count = 0
    /\ nest = << >> /\ locals = 0
    /\ ip = 1 /\ previous = "none"
    /\ newChunk = << >> /\ newCount = 0

Emitted(c) ==
    /\ phase = "compile"
    /\ Len(c) <= MaxInstructions
    /\ chunk' = c
    /\ count' = End(c, Len(c))
    /\ UNCHANGED <<phase, ip, previous, newChunk, newCount>>

Innermost == Last(nest)
Pushed(construct) == nest' = Append(nest, construct)
Popped == nest' = Front(nest)

\* The innermost loop, which break and continue are about.
InnermostLoop(k) ==
    /\ nest[k].kind = "while"
    /\ \A m \in k + 1 .. Len(nest) : nest[m].kind # "while"

\* The body of a construct is a block: its locals are dropped where it ends.
Body == IF nest = << >> THEN 0 ELSE Innermost.locals
EndBody(c) == EmitPops(c, locals - Body)
LocalsDropped == locals' = Body

\* An expression, or an assignment to a variable that exists.
ExpressionStatement ==
    /\ Emitted(Emit(Emit(chunk, "expr"), "pop"))
    /\ UNCHANGED <<nest, locals>>

\* The first assignment to a name in a function: its value stays on the stack.
DeclarationStatement ==
    /\ Emitted(Emit(Emit(Emit(chunk, "expr"), "dup"), "pop"))
    /\ locals' = locals + 1
    /\ UNCHANGED nest

BeginWhile ==
    /\ Len(nest) < MaxNesting
    /\ LET c == EmitJump(Emit(chunk, "expr"), "popJumpIfFalse") IN
        /\ Emitted(c)
        /\ Pushed([kind |-> "while", offset |-> count, start |-> Len(chunk) + 1,
                   locals |-> locals, exits |-> {Len(c)}])
    /\ UNCHANGED locals

EndWhile ==
    /\ nest # << >> /\ Innermost.kind = "while"
    /\ Emitted(PatchAll(EmitLoop(EndBody(chunk), Innermost.offset, Innermost.start),
                        Innermost.exits))
    /\ LocalsDropped
    /\ Popped

BeginIf ==
    /\ Len(nest) < MaxNesting
    /\ LET c == EmitJump(Emit(chunk, "expr"), "popJumpIfFalse") IN
        /\ Emitted(c)
        /\ Pushed([kind |-> "then", locals |-> locals, exits |-> {Len(c)}])
    /\ UNCHANGED locals

\* The jump over the else part is emitted whether there is one or not.
BeginElse ==
    /\ nest # << >> /\ Innermost.kind = "then"
    /\ LET c == EmitJump(EndBody(chunk), "jump") IN
        /\ Emitted(PatchAll(c, Innermost.exits))
        /\ nest' = [nest EXCEPT ![Len(nest)].kind = "else", ![Len(nest)].exits = {Len(c)}]
    /\ LocalsDropped

EndIf ==
    /\ nest # << >> /\ Innermost.kind = "else"
    /\ Emitted(PatchAll(EndBody(chunk), Innermost.exits))
    /\ LocalsDropped
    /\ Popped

Break ==
    \E k \in 1 .. Len(nest) :
        /\ InnermostLoop(k)
        /\ Emitted(EmitJump(chunk, "jump"))
        /\ nest' = [nest EXCEPT ![k].exits = @ \cup {Len(chunk) + 1}]
        /\ UNCHANGED locals

Continue ==
    \E k \in 1 .. Len(nest) :
        /\ InnermostLoop(k)
        /\ Emitted(EmitLoop(chunk, nest[k].offset, nest[k].start))
        /\ UNCHANGED <<nest, locals>>

\* compile_function: a function ends with PUSH_NULL; RETURN, and is optimized.
EndFunction ==
    /\ phase = "compile"
    /\ nest = << >>
    /\ chunk' = Emit(Emit(EndBody(chunk), "pushNull"), "return")
    /\ count' = End(chunk', Len(chunk'))
    /\ LocalsDropped
    /\ phase' = "optimize"
    /\ UNCHANGED <<nest, ip, previous, newChunk, newCount>>

--------------------------------------------------------------------------------
(* chunk_optimize, one instruction at a time.  Operands are copied as they are. *)

Reading(n) ==
    /\ phase = "optimize"
    /\ ip = n /\ n <= Len(chunk)
    /\ ip' = n + 1
    /\ previous' = chunk[n].op
    /\ UNCHANGED <<phase, chunk, count, nest, locals>>

\* Mutant: the DUP before the POP is kept.
DropPopOnly(n) ==
    /\ Reading(n)
    /\ chunk[n].op = "pop" /\ previous = "dup"
    /\ UNCHANGED <<newChunk, newCount>>

DropPair(n) ==
    /\ Reading(n)
    /\ chunk[n].op = "pop" /\ previous = "dup"
    /\ newChunk' = Front(newChunk)
    /\ newCount' = newCount - 1

\* Mutant: the operand bytes are not counted.
CopyCountingOne(n) ==
    /\ Reading(n)
    /\ ~(chunk[n].op = "pop" /\ previous = "dup")
    /\ newChunk' = Append(newChunk, [chunk[n] EXCEPT !.at = newCount])
    /\ newCount' = newCount + 1

\* Mutant: the operand of a jump is not copied.
CopyOpcode(n) ==
    /\ Reading(n)
    /\ ~(chunk[n].op = "pop" /\ previous = "dup")
    /\ newChunk' = Append(newChunk, [chunk[n] EXCEPT !.at = newCount, !.operand = Unpatched])
    /\ newCount' = newCount + Size(chunk[n].op)

Copy(n) ==
    /\ Reading(n)
    /\ ~(chunk[n].op = "pop" /\ previous = "dup")
    /\ newChunk' = Append(newChunk, [chunk[n] EXCEPT !.at = newCount])
    /\ newCount' = newCount + Size(chunk[n].op)

Finish ==
    /\ phase = "optimize"
    /\ ip > Len(chunk)
    /\ phase' = "done"
    /\ UNCHANGED <<chunk, count, nest, locals, ip, previous, newChunk, newCount>>

Compile ==
    \/ ExpressionStatement \/ DeclarationStatement
    \/ BeginWhile \/ EndWhile \/ BeginIf \/ BeginElse \/ EndIf
    \/ Break \/ Continue
    \/ EndFunction

Optimize == (\E n \in 1 .. Len(chunk) : DropPair(n) \/ Copy(n)) \/ Finish

Next == Compile \/ Optimize

Spec == Init /\ [][Next]_vars

--------------------------------------------------------------------------------
(* Properties *)

Ops == Forward \cup {"loop", "expr", "dup", "pop", "pushNull", "return"}
Instructions == [op : Ops, at : Nat, operand : Nat, aim : Nat, from : Nat]
Loops == [kind : {"while"}, offset : Nat, start : Nat, locals : Nat, exits : SUBSET Nat]
Conditionals == [kind : {"then", "else"}, locals : Nat, exits : SUBSET Nat]

TypeOK ==
    /\ phase \in {"compile", "optimize", "done"}
    /\ chunk \in Seq(Instructions) /\ newChunk \in Seq(Instructions)
    /\ nest \in Seq(Loops \cup Conditionals) /\ locals \in Nat
    /\ count = End(chunk, Len(chunk)) /\ newCount = End(newChunk, Len(newChunk))
    /\ ip \in 1 .. Len(chunk) + 1 /\ previous \in Ops \cup {"none"}

Jumps(c) == {n \in DOMAIN c : IsJump(c[n])}

\* Byte offset of the first instruction of c that was number n or later.
OffsetOf(c, n) ==
    LET later == {m \in DOMAIN c : c[m].from >= n} IN
    IF later = {} THEN End(c, Len(c))
    ELSE c[CHOOSE m \in later : \A k \in later : m <= k].at

\* compiler.c:544-559, 561-626, 794-822: once a function is compiled, every jump
\* lands on the instruction it is meant for, through any nesting of loops,
\* conditionals, break and continue.
JumpsPatched ==
    phase # "compile" => \A n \in Jumps(chunk) : Destination(chunk[n]) = OffsetOf(chunk, chunk[n].aim)

Dropped == {n \in DOMAIN chunk : \A m \in DOMAIN newChunk : newChunk[m].from # n}

\* compiler.c:1026-1034: what the pass removes is DUP; POP pairs, whole and nothing
\* else, so that the stack is as high as before wherever control arrives.
OnlyPairsDropped ==
    phase = "done" =>
        /\ \A n \in Dropped :
             \/ chunk[n].op = "dup" /\ n + 1 \in Dropped
             \/ chunk[n].op = "pop" /\ n - 1 \in Dropped /\ chunk[n - 1].op = "dup"
        /\ \A m, k \in DOMAIN newChunk : m < k => newChunk[m].from < newChunk[k].from
        /\ \A n \in Dropped, j \in Jumps(chunk) : chunk[n].op = "pop" => chunk[j].aim # n

\* The numbers of the instructions a jump passes over.
Span(i) == IF i.op = "loop" THEN i.aim .. i.from ELSE i.from + 1 .. i.aim - 1

\* A jump that passes over no dropped pair still lands where it is meant to.
ShortJumpsKept ==
    phase = "done" =>
        \A n \in Jumps(newChunk) :
            Span(newChunk[n]) \cap Dropped = {} =>
                Destination(newChunk[n]) = OffsetOf(newChunk, newChunk[n].aim)

\* Every jump still lands where it is meant to: what tests/integration/closures.nur
\* ("while loop closure") takes for granted.
JumpsKept ==
    phase = "done" =>
        \A n \in Jumps(newChunk) :
            Destination(newChunk[n]) = OffsetOf(newChunk, newChunk[n].aim)

--------------------------------------------------------------------------------
(* The inductive invariant of PeepholeProofs *)

\* Instructions lie one after the other.
Laid(c) ==
    \A n \in 1 .. Len(c) : c[n].at = End(c, n - 1) /\ \A m \in 0 .. n : End(c, m) <= End(c, n)

\* What a jump may be meant for: an instruction of c or its end, never one that
\* follows a DUP.
Target(c, m) == m \in 1 .. Len(c) + 1 /\ (m > 1 => c[m - 1].op # "dup")

\* The jumps of c are patched, but for those in a set.
Patched(c, unpatched) ==
    \A n \in Jumps(c) \ unpatched :
        /\ Target(c, c[n].aim)
        /\ Destination(c[n]) = End(c, c[n].aim - 1)
        /\ IF c[n].op = "loop" THEN c[n].aim <= n ELSE c[n].aim > n

Numbered(c) == \A n \in 1 .. Len(c) : c[n].from = n
DupsPaired(c) ==
    \A n \in 1 .. Len(c) : c[n].op = "dup" => n < Len(c) /\ c[n + 1].op = "pop"

Unfinished == UNION {nest[k].exits : k \in 1 .. Len(nest)}

\* A loop or conditional of c knows its jumps, and a loop where it starts.
Known(c, s) ==
    /\ s.exits \subseteq {n \in 1 .. Len(c) : c[n].op \in Forward}
    /\ s.kind = "while" =>
         /\ s.start <= Len(c) /\ Target(c, s.start)
         /\ s.offset = End(c, s.start - 1)

Nested ==
    /\ phase # "compile" => nest = << >>
    /\ \A k \in 1 .. Len(nest) :
         /\ Known(chunk, nest[k])
         /\ nest[k].locals <= locals
         /\ \A l \in k .. Len(nest) : nest[k].locals <= nest[l].locals

\* An instruction that the pass has read and left out.
Gone(n) ==
    \/ chunk[n].op = "dup" /\ n + 1 < ip
    \/ chunk[n].op = "pop" /\ n > 1 /\ chunk[n - 1].op = "dup"

\* The copy at m is one of what was read, as it was but for its place.
Copied(m) ==
    /\ newChunk[m].from \in 1 .. ip - 1 /\ ~Gone(newChunk[m].from)
    /\ newChunk[m] = [chunk[newChunk[m].from] EXCEPT !.at = newChunk[m].at]

\* Copies keep their order, and two with nothing left out between them are as far
\* apart as they were.
Spaced(m, k) ==
    LET n == newChunk[m].from
        o == newChunk[k].from
    IN  /\ n < o
        /\ (\A l \in n .. o : ~Gone(l)) => newChunk[k].at - newChunk[m].at = chunk[o].at - chunk[n].at

\* What the pass has copied so far is what it read without the pairs.
Passed ==
    /\ phase = "compile" => ip = 1
    /\ phase = "done" => ip = Len(chunk) + 1
    /\ previous = IF ip = 1 THEN "none" ELSE chunk[ip - 1].op
    /\ Laid(newChunk)
    /\ \A m \in 1 .. Len(newChunk) : Copied(m) /\ \A k \in m + 1 .. Len(newChunk) : Spaced(m, k)
    /\ \A n \in 1 .. ip - 1 :
         Gone(n) \/ \E m \in 1 .. Len(newChunk) : newChunk[m].from = n

IInv ==
    /\ TypeOK
    /\ Laid(chunk) /\ Numbered(chunk) /\ DupsPaired(chunk)
    /\ Patched(chunk, Unfinished)
    /\ Nested
    /\ Passed

================================================================================
