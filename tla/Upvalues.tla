-------------------------------- MODULE Upvalues -------------------------------
(***************************************************************************)
(* Variables at run time: the value stack, the call frames, closures and   *)
(* upvalues of vm.c, driven by the instructions the compiler emits for     *)
(* declarations, assignments, closures, blocks, calls and returns.         *)
(*                                                                         *)
(* A local variable lives in a stack slot.  A closure that mentions it     *)
(* holds an upvalue that points at the slot while it is open, and owns the *)
(* value once it is closed.  open is vm->open_upvalues, the list of the    *)
(* open ones.  The compiler's table of locals (names, slots, is_captured)  *)
(* is carried in the frame: it says what is emitted when a block ends.     *)
(*                                                                         *)
(* The variables cells and out, and the fields named cell, are history:    *)
(* they say which variable of the program is meant, and nothing in the     *)
(* program reads them.                                                     *)
(***************************************************************************)
EXTENDS Integers, SequencesExt

CONSTANTS
    Values,          \* the values variables hold
    Null,            \* what a function that falls off its end returns
    Function,        \* the value of a variable that holds a closure
    StackSize,       \* bound: slots of the value stack (VM_STACK_MAX)
    MaxFrames,       \* VM_FRAMES_MAX
    MaxArity,        \* bound: parameters of a function
    MaxScopeLocals,  \* bound: variables declared in one block
    MaxBlocks,       \* bound: nested blocks in a function, its body included
    MaxCells,        \* bound: variables declared in an execution
    MaxClosures,     \* bound: closures that outlive the call that made them
    MaxUpvalues      \* bound: upvalues of a closure

ASSUME ValueAssumption == Null \in Values /\ Function \in Values
ASSUME BoundAssumption ==
    /\ StackSize \in Nat /\ MaxFrames \in Nat \ {0} /\ MaxArity \in Nat
    /\ MaxScopeLocals \in Nat /\ MaxBlocks \in Nat /\ MaxCells \in Nat
    /\ MaxClosures \in Nat /\ MaxUpvalues \in Nat

VARIABLES
    stack, sp,   \* the value stack; what was popped stays in its slot
    frames,      \* the call frames, the running one last
    drops,       \* what is left of the instructions that drop values at a block end
    after,       \* the instruction that follows them: "null", "return" or none
    location,    \* location[u]: where upvalue u points, a slot or its own closed
    closed,      \* closed[u]: the value that upvalue u owns once it is closed
    open,        \* vm->open_upvalues, head first
    building,    \* the closure OP_MAKE_CLOSURE is filling
    closures,    \* the closures the program keeps
    cells, out   \* history, see Cells

machine == <<stack, sp>>
code == <<drops, after>>
heap == <<location, closed, open>>
vars == <<machine, frames, code, heap, building, closures, cells, out>>

--------------------------------------------------------------------------------
Top == Last(frames)
SetTop(f) == frames' = [frames EXCEPT ![Len(frames)] = f]

\* History: the step reads no variable; it changes none either.
NothingRead == [cell |-> 0]
Unseen == out' = NothingRead /\ UNCHANGED cells

NotBuilding == [on |-> FALSE, named |-> FALSE, upvalues |-> << >>]

\* Between two statements of the running function.
Ready == drops = << >> /\ after = "none" /\ ~building.on
InFunction == Len(frames) > 1

\* compiler_find_local: the slot of the j-th local of the running function.
SlotOf(j) == Top.slots + j - 1

\* The location of a closed upvalue is &upvalue->closed.
Own == -1

\* *upvalue->location
Deref(u) == IF location[u] = Own THEN closed[u] ELSE stack[location[u]]

\* A function starts at base with its arguments as its first locals, none or one.
Frame(base, params, upvalues) ==
    [slots |-> base, locals |-> params, blocks |-> <<Len(params)>>, upvalues |-> upvalues]
Local(captured, cell) == [captured |-> captured, cell |-> cell]

Push(v) ==
    /\ sp < StackSize
    /\ stack' = [stack EXCEPT ![sp] = v]
    /\ sp' = sp + 1

Pop == sp' = sp - 1 /\ UNCHANGED stack

Init ==
    /\ stack = [s \in 0 .. StackSize - 1 |-> Null] /\ sp = 0
    /\ frames = <<[slots |-> 0, locals |-> << >>, blocks |-> << >>, upvalues |-> << >>]>>
    /\ drops = << >> /\ after = "none"
    /\ location = << >> /\ closed = << >> /\ open = << >>
    /\ building = NotBuilding
    /\ closures = << >>
    /\ cells = << >> /\ out = NothingRead

--------------------------------------------------------------------------------
(* Statements about variables.  At the top level of a file they are globals, *)
(* so only functions have locals.                                            *)

RoomForLocal ==
    /\ InFunction
    /\ Len(Top.blocks) > 0
    /\ Len(Top.locals) - Last(Top.blocks) < MaxScopeLocals
    /\ Len(cells) < MaxCells

AddLocal(captured) ==
    SetTop([Top EXCEPT !.locals = Append(@, Local(captured, Len(cells) + 1))])

\* The first assignment to a name: the value is left on the stack (DUP, POP).
\* captured says that some function inside the scope mentions the variable.
DeclareLocal(v, captured) ==
    /\ Ready /\ RoomForLocal
    /\ Push(v)
    /\ AddLocal(captured)
    /\ cells' = Append(cells, v)
    /\ out' = NothingRead
    /\ UNCHANGED <<code, heap, building, closures>>

GetLocal(j) ==
    /\ Ready
    /\ out' = [cell |-> Top.locals[j].cell, value |-> stack[SlotOf(j)]]
    /\ UNCHANGED <<machine, frames, code, heap, building, closures, cells>>

SetLocal(j, v) ==
    /\ Ready
    /\ stack' = [stack EXCEPT ![SlotOf(j)] = v]
    /\ cells' = [cells EXCEPT ![Top.locals[j].cell] = v]
    /\ out' = NothingRead
    /\ UNCHANGED <<sp, frames, code, heap, building, closures>>

GetUpvalue(n) ==
    /\ Ready
    /\ out' = [cell |-> Top.upvalues[n].cell, value |-> Deref(Top.upvalues[n].upvalue)]
    /\ UNCHANGED <<machine, frames, code, heap, building, closures, cells>>

\* Mutant: the value goes to the upvalue even while it is open.
SetUpvalueClosed(n, v) ==
    /\ Ready
    /\ closed' = [closed EXCEPT ![Top.upvalues[n].upvalue] = v]
    /\ cells' = [cells EXCEPT ![Top.upvalues[n].cell] = v]
    /\ out' = NothingRead
    /\ UNCHANGED <<machine, frames, code, location, open, building, closures>>

SetUpvalue(n, v) ==
    /\ Ready
    /\ LET u == Top.upvalues[n].upvalue IN
        IF location[u] = Own
        THEN closed' = [closed EXCEPT ![u] = v] /\ UNCHANGED stack
        ELSE stack' = [stack EXCEPT ![location[u]] = v] /\ UNCHANGED closed
    /\ cells' = [cells EXCEPT ![Top.upvalues[n].cell] = v]
    /\ out' = NothingRead
    /\ UNCHANGED <<sp, frames, code, location, open, building, closures>>

--------------------------------------------------------------------------------
(* OP_MAKE_CLOSURE, one captured variable at a time *)

\* A function expression.
BeginClosure ==
    /\ Ready
    /\ building' = [NotBuilding EXCEPT !.on = TRUE]
    /\ Unseen
    /\ UNCHANGED <<machine, frames, code, heap, closures>>

\* A function assigned to a new name: the local is added before the function is
\* compiled, so that the function can mention itself.  Its slot is not pushed yet.
BeginNamedClosure(captured) ==
    /\ Ready /\ RoomForLocal
    /\ sp < StackSize
    /\ AddLocal(captured)
    /\ cells' = Append(cells, Function)
    /\ building' = [NotBuilding EXCEPT !.on = TRUE, !.named = TRUE]
    /\ out' = NothingRead
    /\ UNCHANGED <<machine, code, heap, closures>>

\* compiler_add_upvalue lists a variable once.
Wanted(cell) ==
    /\ building.on
    /\ Len(building.upvalues) < MaxUpvalues
    /\ \A n \in 1 .. Len(building.upvalues) : building.upvalues[n].cell # cell

Gets(u, cell) ==
    building' = [building EXCEPT !.upvalues = Append(@, [upvalue |-> u, cell |-> cell])]

\* The walk of vm_capture_upvalue passes the n upvalues above the slot.
Above(n, slot) ==
    /\ \A m \in 1 .. n : location[open[m]] > slot
    /\ n < Len(open) => location[open[n + 1]] <= slot

CaptureShared(j, n) ==
    /\ Top.locals[j].captured /\ Wanted(Top.locals[j].cell)
    /\ Above(n, SlotOf(j))
    /\ n < Len(open) /\ location[open[n + 1]] = SlotOf(j)
    /\ Gets(open[n + 1], Top.locals[j].cell)
    /\ Unseen
    /\ UNCHANGED <<machine, frames, code, heap, closures>>

\* Mutant: a new upvalue goes to the head of the list.
CaptureNewAtHead(j, n) ==
    /\ Top.locals[j].captured /\ Wanted(Top.locals[j].cell)
    /\ Above(n, SlotOf(j))
    /\ n < Len(open) => location[open[n + 1]] # SlotOf(j)
    /\ location' = Append(location, SlotOf(j))
    /\ closed' = Append(closed, Null)
    /\ open' = InsertAt(open, 1, Len(location) + 1)
    /\ Gets(Len(location) + 1, Top.locals[j].cell)
    /\ Unseen
    /\ UNCHANGED <<machine, frames, code, closures>>

CaptureNew(j, n) ==
    /\ Top.locals[j].captured /\ Wanted(Top.locals[j].cell)
    /\ Above(n, SlotOf(j))
    /\ n < Len(open) => location[open[n + 1]] # SlotOf(j)
    /\ location' = Append(location, SlotOf(j))
    /\ closed' = Append(closed, Null)
    /\ open' = InsertAt(open, n + 1, Len(location) + 1)
    /\ Gets(Len(location) + 1, Top.locals[j].cell)
    /\ Unseen
    /\ UNCHANGED <<machine, frames, code, closures>>

\* A variable of an outer function: the upvalue of the running one is copied.
CaptureUpvalue(n) ==
    /\ Wanted(Top.upvalues[n].cell)
    /\ Gets(Top.upvalues[n].upvalue, Top.upvalues[n].cell)
    /\ Unseen
    /\ UNCHANGED <<machine, frames, code, heap, closures>>

\* Mutant: a function with a name is not kept on the stack.
KeepClosureUnpushed(arity) ==
    /\ building.on
    /\ Len(closures) < MaxClosures
    /\ closures' = Append(closures, [upvalues |-> building.upvalues, arity |-> arity])
    /\ building' = NotBuilding
    /\ Unseen
    /\ UNCHANGED <<machine, frames, code, heap>>

\* The closure is stored: in the new local if it has a name, and in an array that
\* outlives the call.
KeepClosure(arity) ==
    /\ building.on
    /\ Len(closures) < MaxClosures
    /\ closures' = Append(closures, [upvalues |-> building.upvalues, arity |-> arity])
    /\ building' = NotBuilding
    /\ IF building.named THEN Push(Function) ELSE UNCHANGED machine
    /\ Unseen
    /\ UNCHANGED <<frames, code, heap>>

--------------------------------------------------------------------------------
(* Calls, blocks and returns *)

\* fn { ... }(): the closure is called at once and not kept.
CallNew ==
    /\ building.on /\ ~building.named
    /\ Len(frames) < MaxFrames
    /\ frames' = Append(frames, Frame(sp, << >>, building.upvalues))
    /\ building' = NotBuilding
    /\ Unseen
    /\ UNCHANGED <<machine, code, heap, closures>>

CallWithoutArgument(k) ==
    /\ Ready
    /\ closures[k].arity = 0
    /\ Len(frames) < MaxFrames
    /\ frames' = Append(frames, Frame(sp, << >>, closures[k].upvalues))
    /\ Unseen
    /\ UNCHANGED <<machine, code, heap, building, closures>>

CallWithArgument(k, v) ==
    /\ Ready
    /\ closures[k].arity = 1
    /\ Len(frames) < MaxFrames
    /\ Len(cells) < MaxCells
    /\ Push(v)
    /\ cells' = Append(cells, v)
    /\ frames' = Append(frames, Frame(sp, <<Local(TRUE, Len(cells) + 1)>>,
                                      closures[k].upvalues))
    /\ out' = NothingRead
    /\ UNCHANGED <<code, heap, building, closures>>

\* "stack overflow": the program ends with an error.
CallTooDeep ==
    /\ Ready
    /\ Len(closures) > 0
    /\ Len(frames) = MaxFrames
    /\ after' = "halt"
    /\ Unseen
    /\ UNCHANGED <<machine, frames, drops, heap, building, closures>>

\* Mutant: every block starts at the first local of the function.
OpenBlockAtZero ==
    /\ Ready /\ InFunction
    /\ Len(Top.blocks) < MaxBlocks
    /\ SetTop([Top EXCEPT !.blocks = Append(@, 0)])
    /\ Unseen
    /\ UNCHANGED <<machine, code, heap, building, closures>>

OpenBlock ==
    /\ Ready /\ InFunction
    /\ Len(Top.blocks) < MaxBlocks
    /\ SetTop([Top EXCEPT !.blocks = Append(@, Len(Top.locals))])
    /\ Unseen
    /\ UNCHANGED <<machine, code, heap, building, closures>>

\* Mutant: captured locals are popped like the others.
BlockEndPops(first) == [m \in 1 .. Len(Top.locals) - first |-> "pop"]

\* compile_block ends with one instruction per local of the block, in the order
\* the locals were declared.
BlockEnd(first) ==
    [m \in 1 .. Len(Top.locals) - first |->
        IF Top.locals[first + m].captured THEN "close" ELSE "pop"]

\* The block of the body is followed by PUSH_NULL and RETURN.
EndBlock ==
    /\ Ready /\ InFunction
    /\ Len(Top.blocks) > 0
    /\ LET first == Last(Top.blocks) IN
        /\ drops' = BlockEnd(first)
        /\ after' = IF Len(Top.blocks) = 1 THEN "null" ELSE "none"
        /\ SetTop([Top EXCEPT !.locals = SubSeq(@, 1, first),
                              !.blocks = Front(@)])
    /\ Unseen
    /\ UNCHANGED <<machine, heap, building, closures>>

\* return, from any depth of blocks.  A value it is given takes the place of null.
Return ==
    /\ Ready /\ InFunction
    /\ after' = "null"
    /\ Unseen
    /\ UNCHANGED <<machine, frames, drops, heap, building, closures>>

DoPop ==
    /\ drops # << >> /\ Head(drops) = "pop"
    /\ Pop
    /\ drops' = Tail(drops)
    /\ Unseen
    /\ UNCHANGED <<frames, after, heap, building, closures>>

\* Mutant: the closed upvalues stay in the list.
ClosingKeepsList(n, last) ==
    /\ \A m \in 1 .. n : location[open[m]] >= last
    /\ n < Len(open) => location[open[n + 1]] < last
    /\ LET closing == {open[m] : m \in 1 .. n} IN
        /\ closed' = [u \in DOMAIN closed |->
                         IF u \in closing THEN stack[location[u]] ELSE closed[u]]
        /\ location' = [u \in DOMAIN location |->
                         IF u \in closing THEN Own ELSE location[u]]
    /\ UNCHANGED open

\* vm_close_upvalues(last), when n upvalues are at last or above it.
Closing(n, last) ==
    /\ \A m \in 1 .. n : location[open[m]] >= last
    /\ n < Len(open) => location[open[n + 1]] < last
    /\ open' = SubSeq(open, n + 1, Len(open))
    /\ LET closing == {open[m] : m \in 1 .. n} IN
        /\ closed' = [u \in DOMAIN closed |->
                         IF u \in closing THEN stack[location[u]] ELSE closed[u]]
        /\ location' = [u \in DOMAIN location |->
                         IF u \in closing THEN Own ELSE location[u]]

DoClose(n) ==
    /\ drops # << >> /\ Head(drops) = "close"
    /\ Closing(n, sp - 1)
    /\ Pop
    /\ drops' = Tail(drops)
    /\ Unseen
    /\ UNCHANGED <<frames, after, building, closures>>

DoNull ==
    /\ drops = << >> /\ after = "null"
    /\ Push(Null)
    /\ after' = "return"
    /\ Unseen
    /\ UNCHANGED <<frames, drops, heap, building, closures>>

\* Mutant: the arguments stay under the result.
DoReturnOverArguments(n) ==
    /\ drops = << >> /\ after = "return"
    /\ Closing(n, Top.slots)
    /\ frames' = Front(frames)
    /\ drops' = <<"pop">> /\ after' = "none"
    /\ Unseen
    /\ UNCHANGED <<machine, building, closures>>

\* Mutant: the frame's upvalues are not closed.
DoReturnOpen(n) ==
    /\ n = 0
    /\ drops = << >> /\ after = "return"
    /\ stack' = [stack EXCEPT ![Top.slots] = stack[sp - 1]]
    /\ sp' = Top.slots + 1
    /\ frames' = Front(frames)
    /\ drops' = <<"pop">> /\ after' = "none"
    /\ Unseen
    /\ UNCHANGED <<heap, building, closures>>

\* The result takes the place of the arguments; the call was a statement, so that
\* the caller pops it.
DoReturn(n) ==
    /\ drops = << >> /\ after = "return"
    /\ Closing(n, Top.slots)
    /\ stack' = [stack EXCEPT ![Top.slots] = stack[sp - 1]]
    /\ sp' = Top.slots + 1
    /\ frames' = Front(frames)
    /\ drops' = <<"pop">> /\ after' = "none"
    /\ Unseen
    /\ UNCHANGED <<building, closures>>

--------------------------------------------------------------------------------
UseVariable ==
    \/ \E v \in Values, captured \in BOOLEAN : DeclareLocal(v, captured)
    \/ \E j \in 1 .. Len(Top.locals) : GetLocal(j) \/ \E v \in Values : SetLocal(j, v)
    \/ \E n \in 1 .. Len(Top.upvalues) : GetUpvalue(n) \/ \E v \in Values : SetUpvalue(n, v)

MakeClosure ==
    \/ BeginClosure
    \/ \E captured \in BOOLEAN : BeginNamedClosure(captured)
    \/ \E j \in 1 .. Len(Top.locals), n \in 0 .. Len(open) :
         CaptureShared(j, n) \/ CaptureNew(j, n)
    \/ \E n \in 1 .. Len(Top.upvalues) : CaptureUpvalue(n)
    \/ \E arity \in 0 .. MaxArity : KeepClosure(arity)

CallFunction ==
    \/ CallNew
    \/ \E k \in 1 .. Len(closures) :
         CallWithoutArgument(k) \/ \E v \in Values : CallWithArgument(k, v)
    \/ CallTooDeep

Leave ==
    \/ OpenBlock \/ EndBlock \/ Return
    \/ DoPop \/ DoNull
    \/ \E n \in 0 .. Len(open) : DoClose(n) \/ DoReturn(n)

Next == UseVariable \/ MakeClosure \/ CallFunction \/ Leave

Spec == Init /\ [][Next]_vars

--------------------------------------------------------------------------------
(* Properties *)

\* The open upvalues in the list are distinct and descend strictly by location:
\* what the walks of vm.c:540 and vm.c:563, which stop at the first that does not
\* fit, take for granted.  So a slot has one open upvalue at most.
OpenSorted ==
    \A m, n \in 1 .. Len(open) :
        m < n => location[open[m]] > location[open[n]]

\* An upvalue is in the list exactly while it is open.
OpenListed ==
    \A u \in DOMAIN location : location[u] # Own <=> \E m \in 1 .. Len(open) : open[m] = u

Locals == [captured : BOOLEAN, cell : Nat]
Captures == [upvalue : 1 .. Len(location), cell : Nat]
Frames == [slots : Nat, locals : Seq(Locals), blocks : Seq(Nat), upvalues : Seq(Captures)]
Fillings == [on : BOOLEAN, named : BOOLEAN, upvalues : Seq(Captures)]
Closures == [upvalues : Seq(Captures), arity : 0 .. MaxArity]

TypeOK ==
    /\ stack \in [0 .. StackSize - 1 -> Values] /\ sp \in 0 .. StackSize
    /\ frames \in Seq(Frames) /\ frames # << >>
    /\ drops \in Seq({"pop", "close"}) /\ after \in {"none", "null", "return", "halt"}
    /\ location \in Seq(0 .. StackSize - 1 \cup {Own}) /\ closed \in Seq(Values)
    /\ Len(closed) = Len(location)
    /\ open \in Seq(1 .. Len(location))
    /\ building \in Fillings
    /\ closures \in Seq(Closures)
    /\ cells \in Seq(Values)

\* The frames lie on the stack one after the other, without a gap.
FramesStacked ==
    /\ frames[1].slots = 0 /\ frames[1].locals = << >>
    /\ \A f \in 1 .. Len(frames) - 1 :
         frames[f + 1].slots = frames[f].slots + Len(frames[f].locals)

BlocksNested ==
    \A f \in 1 .. Len(frames) : \A m \in 1 .. Len(frames[f].blocks) :
        /\ frames[f].blocks[m] <= Len(frames[f].locals)
        /\ \A n \in m .. Len(frames[f].blocks) : frames[f].blocks[m] <= frames[f].blocks[n]

One(b) == IF b THEN 1 ELSE 0

\* Every slot in use belongs to a local, to an instruction that will drop it or to
\* the value being returned; a local that waits for its function has no slot yet.
StackAccounted ==
    sp + One(building.named)
        = Top.slots + Len(Top.locals) + Len(drops) + One(after = "return")

Pending ==
    /\ building.on => drops = << >> /\ after = "none"
    /\ building.named => building.on /\ sp < StackSize
    /\ after \in {"null", "return"} => InFunction

Balanced == FramesStacked /\ BlocksNested /\ StackAccounted /\ Pending

\* The inductive invariant of UpvaluesProofs.
IInv == TypeOK /\ OpenSorted /\ OpenListed /\ Balanced

\* The compiler's slot numbers are the positions the VM gives its locals: between
\* statements the stack of the running function holds its locals and nothing else.
SlotsAgree == Ready => sp = Top.slots + Len(Top.locals)

\* No open upvalue points at a slot that has been popped (vm.c:1026, 1387): the
\* slot would be reused and the variable change under its closures.
NoDangling ==
    Ready => \A m \in 1 .. Len(open) : location[open[m]] < sp

\* The drops of a block's end are emitted in the order of the declarations and meet
\* the locals in the opposite order (compiler.c:41): they fit where the captured ones
\* lie mirrored, as in a block with one local, or whose locals are captured all alike.
Mirrored(first) ==
    \A m \in first + 1 .. Len(Top.locals) :
        Top.locals[m].captured = Top.locals[first + 1 + Len(Top.locals) - m].captured

\* The programs all of whose blocks are like that.
MirroredEnds == EndBlock => Mirrored(Last(Top.blocks))
MirroredSpec == Init /\ [][Next /\ MirroredEnds]_vars

\* The locals of all frames, each with the slot the compiler gave it.
Live ==
    UNION {{[slot |-> frames[f].slots + j - 1, cell |-> frames[f].locals[j].cell,
             captured |-> frames[f].locals[j].captured] : j \in 1 .. Len(frames[f].locals)}
           : f \in 1 .. Len(frames)}

\* The captures of running functions, of the closure being made and of those kept.
Held ==
    (UNION {Range(frames[f].upvalues) : f \in 1 .. Len(frames)})
        \cup Range(building.upvalues)
        \cup (UNION {Range(closures[k].upvalues) : k \in 1 .. Len(closures)})

\* A frame starts above the locals of all the frames below it.
FramesApart ==
    \A f, g \in 1 .. Len(frames) :
        f < g => frames[f].slots + Len(frames[f].locals) <= frames[g].slots

\* A local is a cell of its own, and its slot has what the cell has; the local that
\* waits for its function has no slot yet.
LocalsAreCells ==
    \A a \in Live :
        /\ a.cell \in 1 .. Len(cells)
        /\ cells[a.cell] = IF a.slot < sp THEN stack[a.slot] ELSE Function
        /\ \A b \in Live : a.cell = b.cell \/ a.slot = b.slot => a = b

\* A capture has the cell of its upvalue: captures of one cell share one upvalue, which
\* is open at the slot of the cell's local as long as there is one.
CapturesAreCells ==
    \A p \in Held :
        /\ p.cell \in 1 .. Len(cells)
        /\ location[p.upvalue] < sp => Deref(p.upvalue) = cells[p.cell]
        /\ \A q \in Held : p.cell = q.cell <=> p.upvalue = q.upvalue
        /\ \A a \in Live : a.cell = p.cell <=> a.slot = location[p.upvalue]

\* An open upvalue points into the stack.  Where a local has the slot, it is marked as
\* captured, and where the slot is about to be dropped, the upvalue will be closed.
OpenWillClose ==
    \A u \in 1 .. Len(location) :
        /\ location[u] < sp + One(building.named)
        /\ \A a \in Live : a.slot = location[u] => a.captured
        /\ \A m \in 1 .. Len(drops) : location[u] = sp - m => drops[m] = "close"

\* What CellsProofs adds to IInv to make it inductive for values as well.
CellInv == FramesApart /\ LocalsAreCells /\ CapturesAreCells /\ OpenWillClose

\* A closure sees the current value of the variables it mentions, after the
\* function that declared them has returned too.
ClosuresSeeVariables ==
    Ready => \A k \in DOMAIN closures : \A n \in DOMAIN closures[k].upvalues :
               LET captured == closures[k].upvalues[n] IN
               Deref(captured.upvalue) = cells[captured.cell]

\* A read gives the last value written to the variable it names, whoever wrote it.
Variables == INSTANCE Cells
ImplementsCells == Variables!Spec

================================================================================
