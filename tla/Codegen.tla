-------------------------------- MODULE Codegen --------------------------------
(***************************************************************************)
(* The compiler's picture of the value stack against the stack itself.     *)
(* A function is compiled node by node as compiler.c does, todo being what *)
(* is left of the recursion, and is then run: conditions go either way, so *)
(* that every path through its code is taken.                              *)
(*                                                                         *)
(* Values are abstracted to whose they are: a stack slot holds the local   *)
(* it was given to, or 0 for an intermediate result.  Jumps hold the       *)
(* number of an instruction; Peephole is about their bytes.  The compiler  *)
(* does not keep depth, nor an instruction its height, placed and var, nor *)
(* an expression how many values lie above the locals: these are history.  *)
(*                                                                         *)
(* The body of a function is a block ("=> e" is the block of return e).    *)
(* Two modules have the rest: Upvalues what a closure captures, Peephole   *)
(* the pass over the finished chunk.                                       *)
(*                                                                         *)
(* The program accepts functions the model leaves out, and each of them    *)
(* puts the stack out of step with the compiler:                           *)
(*   - break or continue out of a block that has declared a local,         *)
(*   - a local declared where control may not come, or on top of an        *)
(*     operand: the arm of an if with no block, the condition of a loop,   *)
(*     the right operand of an addition,                                   *)
(*   - a remainder by the constant zero, for which nothing is emitted,     *)
(*   - more than MaxLocals locals,                                         *)
(* as does the failed arithmetic of an assignment to a variable, which is  *)
(* the one runtime error that does not end the program.                    *)
(***************************************************************************)
EXTENDS Naturals, SequencesExt

CONSTANTS
    Arity,        \* parameters of the function
    MaxNodes,     \* bound: statements and expressions of the function
    Operands,     \* bound: how many operands an expression may have
    MaxLocals,    \* UINT8_MAX, the most locals of a function; out of reach
    MaxStack      \* bound: values on the stack of a function that runs

ASSUME BoundsAssumption ==
    /\ MaxNodes \in Nat /\ MaxLocals \in Nat /\ MaxStack \in Nat
    /\ Arity \in 0 .. MaxLocals
    /\ Operands \subseteq Nat

VARIABLES
    phase,     \* "compile", "run", "done"
    todo,      \* what is left to compile, the next thing first
    nodes,     \* nodes compiled so far
    locals,    \* compiler->locals, each by the number of its declaration
    declared,  \* locals declared so far, parameters included
    loop,      \* compiler->loop
    chunk,
    depth,     \* values on the stack where the next instruction goes
    ip, stack

compiler == <<todo, nodes, locals, declared, loop>>
code == <<chunk, depth>>
machine == <<ip, stack>>
vars == <<phase, compiler, code, machine>>

--------------------------------------------------------------------------------
(* Instructions *)

Temporary == 0
Unpatched == 0

\* What an instruction adds to the stack.  "combine" stands for every opcode that
\* takes n operands and leaves one result.
Pushes == {"push", "dup", "getLocal"}
Pops == {"pop", "jumpIfFalse", "return"}
Raised(d, op, n) ==
    CASE op \in Pushes -> d + 1
      [] op \in Pops -> d - 1
      [] op = "combine" -> (d + 1) - n
      [] OTHER -> d

Code(op, n, var) == [op |-> op, n |-> n, var |-> var]

\* An instruction that finds so many values on the stack, and these locals in their slots.
Instruction(c, height, placed) ==
    [op |-> c.op, n |-> c.n, var |-> c.var, height |-> height, placed |-> placed]

Emit(op, n, var) ==
    /\ chunk' = Append(chunk, Instruction(Code(op, n, var), depth, locals))
    /\ depth' = Raised(depth, op, n)

Patched(c, jumps) ==
    [m \in DOMAIN c |-> IF m \in jumps THEN [c[m] EXCEPT !.n = Len(c) + 1] ELSE c[m]]

NoLoop == [inside |-> FALSE, start |-> 0, breaks |-> {}, locals |-> 0]

--------------------------------------------------------------------------------
(* The recursion of the compiler *)

Statement == [do |-> "stmt"]
Statements(from) == [do |-> "stmts", from |-> from]
Expression(above) == [do |-> "expr", above |-> above]
Write(op, n, var, above) == [do |-> "emit", code |-> Code(op, n, var), above |-> above]

Inner == {"expr", "emit", "bind"}    \* the items an expression is made of

Doing(what) == phase = "compile" /\ todo # << >> /\ Head(todo).do = what
Then(items) == todo' = items \o Tail(todo)
Node == nodes < MaxNodes /\ nodes' = nodes + 1

\* The rest of the compiler stays as it is.
Only(items) == Then(items) /\ UNCHANGED <<phase, locals, declared, loop, machine>>

Init ==
    /\ phase = "compile"
    /\ locals = [j \in 1 .. Arity |-> j]
    /\ declared = Len(locals) /\ depth = Len(locals)
    /\ stack = locals /\ ip = 1
    /\ todo = <<Statements(Len(locals))>>
    /\ nodes = 0
    /\ loop = NoLoop
    /\ chunk = << >>

Written ==
    /\ Doing("emit")
    /\ LET c == Head(todo).code IN Emit(c.op, c.n, c.var)
    /\ Only(<< >>)
    /\ UNCHANGED nodes

--------------------------------------------------------------------------------
(* Statements *)

MoreStatements ==
    /\ Doing("stmts") /\ nodes < MaxNodes
    /\ Only(<<Statement, Head(todo)>>)
    /\ UNCHANGED <<nodes, code>>

Block ==
    /\ Doing("stmt") /\ Node
    /\ Only(<<Statements(Len(locals))>>)
    /\ UNCHANGED code

\* POP and CLOSE_UPVALUE take one value each.
Drops(k) ==
    [m \in 1 .. k |-> Instruction(Code("pop", 0, 0), (depth + 1) - m,
                                  SubSeq(locals, 1, (Len(locals) + 1) - m))]

\* No more statements: the block ends.
EndBlock ==
    /\ Doing("stmts")
    /\ LET dropped == Len(locals) - Head(todo).from IN
        /\ chunk' = chunk \o Drops(dropped)
        /\ depth' = depth - dropped
        /\ locals' = SubSeq(locals, 1, Head(todo).from)
    /\ Then(<< >>)
    /\ UNCHANGED <<phase, nodes, declared, loop, machine>>

ExpressionStatement ==
    /\ Doing("stmt") /\ nodes < MaxNodes
    /\ Only(<<Expression(0), Write("pop", 0, 0, 1)>>)
    /\ UNCHANGED <<nodes, code>>

Return ==
    /\ Doing("stmt") /\ Node
    /\ Only(<<Expression(0), Write("return", 0, 0, 1)>>)
    /\ UNCHANGED code

While ==
    /\ Doing("stmt") /\ Node
    /\ loop' = [inside |-> TRUE, start |-> Len(chunk) + 1, breaks |-> {},
                locals |-> Len(locals)]
    /\ Then(<<Expression(0), [do |-> "whileBody", outer |-> loop]>>)
    /\ UNCHANGED <<phase, locals, declared, code, machine>>

WhileBody ==
    /\ Doing("whileBody")
    /\ Emit("jumpIfFalse", Unpatched, 0)
    /\ Only(<<Statement, [do |-> "endWhile", outer |-> Head(todo).outer,
                          jump |-> Len(chunk) + 1]>>)
    /\ UNCHANGED nodes

\* Mutant: after a loop the compiler is in none.
EndWhileInNone ==
    /\ Doing("endWhile")
    /\ LET looped == Append(chunk, Instruction(Code("jump", loop.start, 0), depth, locals)) IN
        chunk' = Patched(looped, loop.breaks \cup {Head(todo).jump})
    /\ loop' = NoLoop
    /\ Then(<< >>)
    /\ UNCHANGED <<phase, nodes, locals, declared, depth, machine>>

EndWhile ==
    /\ Doing("endWhile")
    /\ LET looped == Append(chunk, Instruction(Code("jump", loop.start, 0), depth, locals)) IN
        chunk' = Patched(looped, loop.breaks \cup {Head(todo).jump})
    /\ loop' = Head(todo).outer
    /\ Then(<< >>)
    /\ UNCHANGED <<phase, nodes, locals, declared, depth, machine>>

If ==
    /\ Doing("stmt") /\ Node
    /\ Only(<<Expression(0), [do |-> "then"]>>)
    /\ UNCHANGED code

ThenCase ==
    /\ Doing("then")
    /\ Emit("jumpIfFalse", Unpatched, 0)
    /\ Only(<<Statement, [do |-> "else", jump |-> Len(chunk) + 1]>>)
    /\ UNCHANGED nodes

\* The false case is a statement or missing.
ElseCase(false) ==
    /\ Doing("else")
    /\ LET jumping == Append(chunk, Instruction(Code("jump", Unpatched, 0), depth, locals)) IN
        chunk' = Patched(jumping, {Head(todo).jump})
    /\ Only(false \o <<[do |-> "endIf", jump |-> Len(chunk) + 1]>>)
    /\ UNCHANGED <<nodes, depth>>

EndIf ==
    /\ Doing("endIf")
    /\ chunk' = Patched(chunk, {Head(todo).jump})
    /\ Only(<< >>)
    /\ UNCHANGED <<nodes, depth>>

LeavesNoLocal == Len(locals) = loop.locals

Break ==
    /\ Doing("stmt") /\ Node
    /\ loop.inside
    /\ LeavesNoLocal
    /\ Emit("jump", Unpatched, 0)
    /\ loop' = [loop EXCEPT !.breaks = @ \cup {Len(chunk) + 1}]
    /\ Then(<< >>)
    /\ UNCHANGED <<phase, locals, declared, machine>>

Continue ==
    /\ Doing("stmt") /\ Node
    /\ loop.inside
    /\ LeavesNoLocal
    /\ Emit("jump", loop.start, 0)
    /\ Only(<< >>)

--------------------------------------------------------------------------------
(* Expressions *)

\* A literal, a global variable, a function, an empty array or map, or operands
\* folded into a constant.
Leaf ==
    /\ Doing("expr") /\ Node
    /\ Emit("push", 0, 0)
    /\ Only(<< >>)

\* n operands, then one opcode.
Operation(n) ==
    /\ Doing("expr") /\ Node
    /\ LET above == Head(todo).above IN
        Only([m \in 1 .. n |-> Expression((above + m) - 1)]
               \o <<Write("combine", n, 0, above + n)>>)
    /\ UNCHANGED code

GetLocal(j) ==
    /\ Doing("expr") /\ Node
    /\ Emit("getLocal", j, locals[j])
    /\ Only(<< >>)

\* Assignment to a local that exists.
SetLocal(j) ==
    /\ Doing("expr") /\ Node
    /\ LET above == Head(todo).above IN
        Only(<<Expression(above), Write("setLocal", j, locals[j], above + 1)>>)
    /\ UNCHANGED code

\* compiler_add_local; what it answers at the limit is not looked at.
AddLocal ==
    /\ declared' = declared + 1
    /\ locals' = IF Len(locals) = MaxLocals THEN locals ELSE Append(locals, declared + 1)

\* Nothing lies on top of the locals, and control always comes here: in a statement
\* of a block or the condition of one.
Declarable(t) ==
    \E n \in 1 .. Len(t) :
        /\ \A m \in 1 .. n - 1 : t[m].do \in Inner
        /\ t[n].do = "stmts" \/ (t[n].do = "then" /\ n < Len(t) /\ t[n + 1].do = "stmts")

InPlace == depth = Len(locals) /\ Declarable(todo)

\* Assignment to a new name.  Mutant: the local is there before its value.
NewLocalFirst ==
    /\ Doing("expr") /\ Node
    /\ InPlace
    /\ AddLocal
    /\ Then(<<Expression(0), Write("dup", 0, declared + 1, 0)>>)
    /\ UNCHANGED <<phase, loop, code, machine>>

NewLocal ==
    /\ Doing("expr") /\ Node
    /\ InPlace
    /\ Only(<<Expression(0), [do |-> "bind"]>>)
    /\ UNCHANGED code

\* Mutant: the value is not duplicated.
BindNoDup ==
    /\ Doing("bind")
    /\ AddLocal
    /\ Then(<< >>)
    /\ UNCHANGED <<phase, nodes, code, loop, machine>>

Bind ==
    /\ Doing("bind")
    /\ Emit("dup", 0, declared + 1)
    /\ AddLocal
    /\ Then(<< >>)
    /\ UNCHANGED <<phase, nodes, loop, machine>>

\* Assignment of a function to a new name: the local is added first, so that what is
\* pushed is in its slot.
NewFunction ==
    /\ Doing("expr") /\ Node
    /\ InPlace
    /\ Emit("push", 0, declared + 1)
    /\ AddLocal
    /\ Then(<<Write("dup", 0, declared + 1, 0)>>)
    /\ UNCHANGED <<phase, loop, machine>>

\* A function ends with PUSH_NULL; RETURN.
EndFunction ==
    /\ phase = "compile" /\ todo = << >>
    /\ chunk' = chunk \o <<Instruction(Code("push", 0, 0), depth, locals),
                           Instruction(Code("return", 0, 0), depth + 1, locals)>>
    /\ phase' = "run"
    /\ UNCHANGED <<compiler, depth, machine>>

--------------------------------------------------------------------------------
(* The function is run.  A runtime error ends the program at any instruction. *)

Current == chunk[ip]
Running(op) == phase = "run" /\ Len(stack) <= MaxStack /\ Current.op = op
Goto(target) == ip' = target
Step == Goto(ip + 1)
Here == UNCHANGED <<phase, compiler, code>>

RunPush ==
    /\ Running("push")
    /\ stack' = Append(stack, Current.var)
    /\ Step /\ Here

RunPop ==
    /\ Running("pop")
    /\ Len(stack) > 0
    /\ stack' = Front(stack)
    /\ Step /\ Here

\* The value below the copy is the new local's.
RunDup ==
    /\ Running("dup")
    /\ Len(stack) > 0
    /\ stack' = Front(stack) \o <<Current.var, Temporary>>
    /\ Step /\ Here

RunGetLocal ==
    /\ Running("getLocal")
    /\ stack' = Append(stack, Temporary)
    /\ Step /\ Here

RunSetLocal ==
    /\ Running("setLocal")
    /\ UNCHANGED stack
    /\ Step /\ Here

RunCombine ==
    /\ Running("combine")
    /\ Len(stack) >= Current.n
    /\ stack' = Append(SubSeq(stack, 1, Len(stack) - Current.n), Temporary)
    /\ Step /\ Here

\* Mutant: the condition stays on the stack.
RunJumpIfFalsePeek ==
    /\ Running("jumpIfFalse")
    /\ UNCHANGED stack
    /\ Step \/ Goto(Current.n)
    /\ Here

RunJumpIfFalse ==
    /\ Running("jumpIfFalse")
    /\ Len(stack) > 0
    /\ stack' = Front(stack)
    /\ Step \/ Goto(Current.n)
    /\ Here

RunJump ==
    /\ Running("jump")
    /\ Goto(Current.n)
    /\ UNCHANGED stack
    /\ Here

RunReturn ==
    /\ Running("return")
    /\ phase' = "done"
    /\ UNCHANGED <<compiler, code, machine>>

CompileStatement ==
    \/ Block \/ MoreStatements \/ EndBlock
    \/ ExpressionStatement \/ Return
    \/ While \/ WhileBody \/ EndWhile
    \/ If \/ ThenCase \/ (\E false \in {<< >>, <<Statement>>} : ElseCase(false)) \/ EndIf
    \/ Break \/ Continue

CompileExpression ==
    \/ Leaf
    \/ \E n \in Operands : Operation(n)
    \/ \E j \in DOMAIN locals : GetLocal(j) \/ SetLocal(j)
    \/ NewLocal \/ Bind \/ NewFunction

Run ==
    \/ RunPush \/ RunPop \/ RunDup \/ RunGetLocal \/ RunSetLocal \/ RunCombine
    \/ RunJumpIfFalse \/ RunJump \/ RunReturn

Next == Written \/ CompileStatement \/ CompileExpression \/ EndFunction \/ Run

Spec == Init /\ [][Next]_vars

--------------------------------------------------------------------------------
(* Properties *)

Ops == Pushes \cup Pops \cup {"combine", "setLocal", "jump"}
Instructions ==
    [op : Ops, n : Nat, var : Nat, height : Nat, placed : Seq(Nat)]
Loops == [inside : BOOLEAN, start : Nat, breaks : SUBSET Nat, locals : Nat]
Items ==
    [do : {"stmt", "bind", "then"}]
        \cup [do : {"expr"}, above : Nat]
        \cup [do : {"emit"}, code : [op : Ops, n : Nat, var : Nat], above : Nat]
        \cup [do : {"stmts"}, from : Nat]
        \cup [do : {"whileBody"}, outer : Loops]
        \cup [do : {"endWhile"}, outer : Loops, jump : Nat]
        \cup [do : {"else", "endIf"}, jump : Nat]

TypeOK ==
    /\ phase \in {"compile", "run", "done"}
    /\ todo \in Seq(Items)
    /\ nodes \in 0 .. MaxNodes
    /\ locals \in Seq(1 .. declared) /\ Len(locals) <= MaxLocals
    /\ declared \in Nat
    /\ loop \in Loops
    /\ chunk \in Seq(Instructions) /\ depth \in Nat
    /\ ip \in 1 .. Len(chunk) + 1
    /\ stack \in Seq(Nat)

\* compiler.c:857-1006: every expression pushes one value and every statement
\* leaves the locals of its blocks and nothing else, so that the next local gets
\* the slot the compiler numbers it with.
StatementsBalanced ==
    Doing("stmt") \/ Doing("stmts") => depth = Len(locals)

\* An instruction finds the stack equally high along every path that leads to it:
\* through either case of a conditional, any number of rounds of a loop, break and
\* continue (compiler.c:561-626, 794-822).
HeightsAgree ==
    phase = "run" => Len(stack) = Current.height

\* frame->slots[index] is the local the compiler meant (vm.c:972-980), wherever
\* control comes from.
LocalsInPlace ==
    phase = "run" /\ Current.op \in {"getLocal", "setLocal"} =>
        Current.n <= Len(stack) /\ stack[Current.n] = Current.var

--------------------------------------------------------------------------------
(* The inductive invariant of CodegenProofs *)

Jumps == {"jump", "jumpIfFalse"}

\* The stack and the locals in their slots before the n-th instruction of c; what
\* follows c has d values and the locals in s.
Height(c, d, n) == IF n <= Len(c) THEN c[n].height ELSE d
Placed(c, s, n) == IF n <= Len(c) THEN c[n].placed ELSE s

\* How much of the stack an instruction leaves as it is, from the bottom.
Kept(i) ==
    CASE i.op \in Pops \/ i.op = "dup" -> i.height - 1
      [] i.op = "combine" -> i.height - i.n
      [] OTHER -> i.height

\* After instruction i, d values are on the stack and the locals in s have their slots.
Leads(i, d, s) ==
    /\ d = Raised(i.height, i.op, i.n)
    /\ \A j \in 1 .. Len(s) :
         \/ j <= Kept(i) /\ j <= Len(i.placed) /\ s[j] = i.placed[j]
         \/ i.op \in {"push", "dup"} /\ j = Kept(i) + 1 /\ s[j] = i.var

\* One instruction leads to the next, and a jump to its target as well, if it is not
\* one of those that are to be patched.
Sound(c, d, s, unpatched) ==
    \A n \in 1 .. Len(c) :
        /\ Len(c[n].placed) <= c[n].height
        /\ c[n].op = "combine" => c[n].n <= c[n].height
        /\ c[n].op \in {"getLocal", "setLocal"} =>
             c[n].n \in 1 .. Len(c[n].placed) /\ c[n].placed[c[n].n] = c[n].var
        /\ Leads(c[n], Height(c, d, n + 1), Placed(c, s, n + 1))
        /\ c[n].op \in Jumps /\ n \notin unpatched =>
             /\ c[n].n \in 1 .. Len(c) + 1
             /\ Leads(c[n], Height(c, d, c[n].n), Placed(c, s, c[n].n))

Awaiting == {"endWhile", "else", "endIf"}
Whiles(t) == {n \in 1 .. Len(t) : t[n].do \in {"whileBody", "endWhile"}}
Unfinished(t, l) ==
    l.breaks \cup (UNION {t[n].outer.breaks : n \in Whiles(t)})
             \cup {t[n].jump : n \in {m \in 1 .. Len(t) : t[m].do \in Awaiting}}

\* The jump j was emitted with nothing but the first n locals on the stack, and its condition.
JumpFrom(c, s, j, n) ==
    /\ j \in 1 .. Len(c) /\ c[j].op \in Jumps
    /\ n <= Len(s) /\ c[j].placed = SubSeq(s, 1, n)
    /\ c[j].height = IF c[j].op = "jump" THEN n ELSE n + 1

\* A loop starts, and is left, with the locals it was found with.
LoopSound(c, d, s, l) ==
    l # NoLoop =>
        /\ l.inside
        /\ l.start \in 1 .. Len(c) + 1 /\ l.locals <= Len(s)
        /\ Height(c, d, l.start) = l.locals
        /\ Placed(c, s, l.start) = SubSeq(s, 1, l.locals)
        /\ \A b \in l.breaks : JumpFrom(c, s, b, l.locals) /\ c[b].op = "jump"

LoopsSound(t, l, c, d, s) ==
    LoopSound(c, d, s, l) /\ \A n \in Whiles(t) : LoopSound(c, d, s, t[n].outer)

\* How many values lie above the locals before an item, and after it.
Above(item) ==
    CASE item.do \in {"expr", "emit"} -> item.above
      [] item.do \in {"bind", "whileBody", "then"} -> 1
      [] OTHER -> 0
Left(item) ==
    CASE item.do = "expr" -> item.above + 1
      [] item.do = "emit" -> Raised(item.above, item.code.op, item.code.n)
      [] item.do = "bind" -> 1
      [] OTHER -> 0

Balanced(t, d, s) ==
    /\ d = Len(s) + IF t = << >> THEN 0 ELSE Above(t[1])
    /\ \A n \in 1 .. Len(t) : Left(t[n]) = IF n = Len(t) THEN 0 ELSE Above(t[n + 1])

\* What an instruction that waits to be emitted relies on.
Writable(item, s) ==
    LET i == item.code IN
    /\ i.op \in {"push", "dup", "pop", "return", "combine", "setLocal"}
    /\ i.op = "combine" => i.n <= item.above
    /\ i.op \in {"pop", "return"} => item.above = 1
    /\ i.op = "setLocal" => i.n \in 1 .. Len(s) /\ s[i.n] = i.var
    /\ i.op = "dup" => item.above = 0 /\ Len(s) > 0 /\ s[Len(s)] = i.var

\* Expressions come before the statement they are in, and that before those around it.
Ordered(t, s) ==
    \A n \in 1 .. Len(t) :
        /\ t[n].do \in Inner \cup {"stmt", "whileBody", "then"} =>
             \A m \in 1 .. n - 1 : t[m].do \in Inner
        /\ t[n].do = "emit" => Writable(t[n], s) /\ (t[n].code.op = "dup" => n = 1)
        /\ t[n].do = "bind" => Declarable(t)

\* How many locals there are when an item's jump is patched, or when a block has ended.
LocalsAt(c, item) == IF item.do = "stmts" THEN item.from ELSE Len(c[item.jump].placed)

\* Between these items no local comes or goes.
Quiet(t, m, n) == \A k \in m .. n : t[k].do # "stmts"

\* Each item will meet the locals that its jump was emitted with.
Scoped(t, c, s) ==
    \A n \in 1 .. Len(t) :
        /\ t[n].do \in Awaiting => JumpFrom(c, s, t[n].jump, LocalsAt(c, t[n]))
        /\ t[n].do \in Awaiting /\ Quiet(t, 1, n) => LocalsAt(c, t[n]) = Len(s)
        /\ t[n].do = "stmts" => t[n].from <= Len(s)
        /\ \A m \in 1 .. n - 1 :
             t[m].do = "stmts" =>
                /\ t[n].do \in Awaiting \/ t[n].do = "stmts" => LocalsAt(c, t[n]) <= t[m].from
                /\ t[n].do \in Awaiting /\ Quiet(t, m + 1, n) => LocalsAt(c, t[n]) = t[m].from
                /\ n \in Whiles(t) => t[n].outer.locals <= t[m].from

\* k is the loop that the compiler is in when it comes to the n-th item; it is in l now.
Around(t, l, k, n) ==
    \/ k = l /\ \A m \in 1 .. n - 1 : m \notin Whiles(t)
    \/ \E w \in Whiles(t) : w < n /\ k = t[w].outer /\ \A m \in w + 1 .. n - 1 : m \notin Whiles(t)

Nested(t, l, c, s) ==
    /\ Whiles(t) = {} => l = NoLoop
    /\ \A n \in Whiles(t) : (\A m \in Whiles(t) : m <= n) => t[n].outer = NoLoop
    /\ \A n \in 1 .. Len(t), k \in {l} \cup {t[m].outer : m \in Whiles(t)} :
         Around(t, l, k, n) =>
            /\ t[n].do = "stmts" => k.locals <= t[n].from
            /\ t[n].do = "endWhile" => k.inside /\ k.locals = LocalsAt(c, t[n])
            /\ t[n].do = "whileBody" => k.inside /\ k.locals = Len(s)

\* The stack at ip has the height and the locals that the compiler relied on there.
StackAsCompiled ==
    /\ Len(stack) = Height(chunk, depth, ip)
    /\ \A j \in 1 .. Len(Placed(chunk, locals, ip)) :
         j <= Len(stack) /\ stack[j] = Placed(chunk, locals, ip)[j]

Runnable ==
    IF phase = "compile" THEN ip = 1
    ELSE /\ todo = << >> /\ ip <= Len(chunk) /\ chunk[Len(chunk)].op = "return"
         /\ \A n \in 1 .. Len(chunk) : chunk[n].op \in Jumps => chunk[n].n \in 1 .. Len(chunk)

\* While code is emitted (compiler.c:561-626, 857-1006), each instruction leaves the
\* stack that the compiler counts on after it, along both ways of a jump; what is left
\* to compile takes the locals as they are, each jump that waits to be patched will be
\* given a target that it fits, and a loop is left with the locals it was found with.
\* While the code is run, the stack is the one counted on.
IInv ==
    /\ TypeOK
    /\ Balanced(todo, depth, locals) /\ Ordered(todo, locals) /\ Scoped(todo, chunk, locals)
    /\ LoopsSound(todo, loop, chunk, depth, locals) /\ Nested(todo, loop, chunk, locals)
    /\ Sound(chunk, depth, locals, Unfinished(todo, loop))
    /\ StackAsCompiled /\ Runnable

================================================================================
