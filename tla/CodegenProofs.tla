----------------------------- MODULE CodegenProofs -----------------------------
(***************************************************************************)
(* Proofs about Codegen, for functions of any size and nesting.            *)
(***************************************************************************)
EXTENDS Codegen, SequenceTheorems, TLAPS

\* compiler_add_local is not refused (compiler.c:107), which compile_assign does not look
\* at.  A step that adds no local may be taken with a full table.
NotRefused == AddLocal => Len(locals) < MaxLocals

--------------------------------------------------------------------------------
(* Types *)

LEMMA ItemFacts ==
    ASSUME NEW i \in Items
    PROVE  /\ i.do \in {"expr", "emit", "bind", "stmt", "stmts", "whileBody", "endWhile",
                        "then", "else", "endIf"}
           /\ i.do = "expr" => i.above \in Nat
           /\ i.do = "emit" => /\ i.above \in Nat /\ i.code.op \in Ops
                               /\ i.code.n \in Nat /\ i.code.var \in Nat
           /\ i.do = "stmts" => i.from \in Nat
           /\ i.do \in {"whileBody", "endWhile"} => i.outer \in Loops
           /\ i.do \in Awaiting => i.jump \in Nat
<1>1. CASE i \in [do : {"stmt", "bind", "then"}]
  BY <1>1 DEF Awaiting
<1>2. CASE i \in [do : {"expr"}, above : Nat]
  BY <1>2 DEF Awaiting
<1>3. CASE i \in [do : {"emit"}, code : [op : Ops, n : Nat, var : Nat], above : Nat]
  BY <1>3 DEF Awaiting
<1>4. CASE i \in [do : {"stmts"}, from : Nat]
  BY <1>4 DEF Awaiting
<1>5. CASE i \in [do : {"whileBody"}, outer : Loops]
  BY <1>5 DEF Awaiting
<1>6. CASE i \in [do : {"endWhile"}, outer : Loops, jump : Nat]
  BY <1>6 DEF Awaiting
<1>7. CASE i \in [do : {"else", "endIf"}, jump : Nat]
  BY <1>7 DEF Awaiting
<1>. QED
  BY <1>1, <1>2, <1>3, <1>4, <1>5, <1>6, <1>7 DEF Items

LEMMA LoopFacts ==
    /\ \A l \in Loops : /\ l.inside \in BOOLEAN /\ l.start \in Nat /\ l.locals \in Nat
                        /\ l.breaks \subseteq Nat
    /\ NoLoop \in Loops /\ NoLoop.locals = 0 /\ NoLoop.breaks = {} /\ ~NoLoop.inside
BY DEF Loops, NoLoop

\* What is left to compile after an item has been replaced by others.
LEMMA Replaced ==
    ASSUME NEW t \in Seq(Items), t # << >>, NEW items \in Seq(Items)
    PROVE  LET r == items \o Tail(t) IN
           /\ r \in Seq(Items) /\ Len(r) = Len(items) + Len(t) - 1
           /\ Len(t) \in Nat \ {0} /\ Len(items) \in Nat /\ Len(r) \in Nat
           /\ \A n \in 1 .. Len(items) : r[n] = items[n]
           /\ \A n \in 2 .. Len(t) : r[(n + Len(items)) - 1] = t[n]
           /\ \A n \in Len(items) + 1 .. Len(r) :
                (n - Len(items)) + 1 \in 2 .. Len(t) /\ r[n] = t[(n - Len(items)) + 1]
<1>. DEFINE u == Tail(t)
            r == items \o u
<1>1. /\ u \in Seq(Items) /\ Len(t) \in Nat \ {0} /\ Len(u) = Len(t) - 1 /\ Len(items) \in Nat
      /\ \A n \in 1 .. Len(u) : u[n] = t[n + 1]
  OBVIOUS
<1>. HIDE DEF u
<1>2. /\ r \in Seq(Items) /\ Len(r) = Len(items) + Len(u)
      /\ \A n \in 1 .. Len(r) : r[n] = IF n <= Len(items) THEN items[n] ELSE u[n - Len(items)]
  <2>1. /\ items \o u \in Seq(Items) /\ Len(items \o u) = Len(items) + Len(u)
        /\ \A n \in 1 .. Len(items) + Len(u) :
             (items \o u)[n] = IF n <= Len(items) THEN items[n] ELSE u[n - Len(items)]
    BY <1>1, ConcatProperties
  <2>. QED
    BY <2>1
<1>. HIDE DEF r
<1>3. \A n \in 1 .. Len(items) : r[n] = items[n]
  <2>1. \A n \in 1 .. Len(items) : n \in 1 .. Len(r) /\ n <= Len(items)
    BY <1>1, <1>2
  <2>. QED
    BY <1>2, <2>1
<1>4. ASSUME NEW n \in 2 .. Len(t) PROVE r[(n + Len(items)) - 1] = t[n]
  <2>1. (n + Len(items)) - 1 \in 1 .. Len(r) /\ ~((n + Len(items)) - 1 <= Len(items))
        /\ ((n + Len(items)) - 1) - Len(items) = n - 1 /\ n - 1 \in 1 .. Len(u) /\ (n - 1) + 1 = n
    BY <1>1, <1>2
  <2>. QED
    BY <1>1, <1>2, <2>1
<1>5. ASSUME NEW n \in Len(items) + 1 .. Len(r)
      PROVE  (n - Len(items)) + 1 \in 2 .. Len(t) /\ r[n] = t[(n - Len(items)) + 1]
  <2>1. n \in 1 .. Len(r) /\ ~(n <= Len(items)) /\ n - Len(items) \in 1 .. Len(u)
        /\ (n - Len(items)) + 1 \in 2 .. Len(t)
    BY <1>1, <1>2
  <2>2. r[n] = u[n - Len(items)]
    BY <1>2, <2>1
  <2>. QED
    BY <1>1, <2>1, <2>2
<1>. QED
  BY <1>1, <1>2, <1>3, <1>4, <1>5 DEF r, u

LEMMA ChunkFacts ==
    ASSUME NEW c \in Seq(Instructions)
    PROVE  /\ Len(c) \in Nat /\ DOMAIN c = 1 .. Len(c)
           /\ \A n \in 1 .. Len(c) :
                /\ c[n] \in Instructions /\ c[n].op \in Ops /\ c[n].n \in Nat /\ c[n].var \in Nat
                /\ c[n].height \in Nat /\ c[n].placed \in Seq(Nat) /\ Len(c[n].placed) \in Nat
<1>1. Len(c) \in Nat /\ DOMAIN c = 1 .. Len(c)
  OBVIOUS
<1>2. \A n \in 1 .. Len(c) : c[n] \in Instructions
  OBVIOUS
<1>3. \A n \in 1 .. Len(c) :
        /\ c[n].op \in Ops /\ c[n].n \in Nat /\ c[n].var \in Nat
        /\ c[n].height \in Nat /\ c[n].placed \in Seq(Nat)
  BY <1>2 DEF Instructions
<1>. QED
  BY <1>1, <1>2, <1>3

--------------------------------------------------------------------------------
(* Chunks *)

\* Emitting and patching keep what has been emitted, and what it leads to.
Extended(c, d, s, r, d2, s2) ==
    /\ Len(c) <= Len(r)
    /\ \A n \in 1 .. Len(c) :
         r[n].op = c[n].op /\ r[n].height = c[n].height /\ r[n].placed = c[n].placed
    /\ \A n \in 1 .. Len(c) + 1 :
         Height(r, d2, n) = Height(c, d, n) /\ Placed(r, s2, n) = Placed(c, s, n)

LEMMA AppendFacts ==
    ASSUME NEW c \in Seq(Instructions), NEW i \in Instructions
    PROVE  /\ Append(c, i) \in Seq(Instructions) /\ Len(c) \in Nat
           /\ Len(Append(c, i)) = Len(c) + 1
           /\ \A n \in 1 .. Len(c) : Append(c, i)[n] = c[n]
           /\ Append(c, i)[Len(c) + 1] = i
OBVIOUS

LEMMA EmitExtends ==
    ASSUME NEW c \in Seq(Instructions), NEW d, NEW s, NEW i \in Instructions,
           i.height = d, i.placed = s, NEW d2, NEW s2
    PROVE  Extended(c, d, s, Append(c, i), d2, s2)
<1>. DEFINE r == Append(c, i)
<1>1. /\ r \in Seq(Instructions) /\ Len(c) \in Nat /\ Len(r) = Len(c) + 1
      /\ \A n \in 1 .. Len(c) : r[n] = c[n]
      /\ r[Len(c) + 1] = i
  BY AppendFacts
<1>. HIDE DEF r
<1>2. ASSUME NEW n \in 1 .. Len(c) + 1
      PROVE  Height(r, d2, n) = Height(c, d, n) /\ Placed(r, s2, n) = Placed(c, s, n)
  <2>1. CASE n \in 1 .. Len(c)
    BY <1>1, <2>1 DEF Height, Placed
  <2>2. CASE n = Len(c) + 1
    BY <1>1, <2>2 DEF Height, Placed
  <2>. QED
    BY <1>1, <2>1, <2>2
<1>3. Extended(c, d, s, r, d2, s2)
  BY <1>1, <1>2 DEF Extended
<1>. QED
  BY <1>3 DEF r

\* One instruction more: the end of the chunk is where it is written.
LEMMA EmitSound ==
    ASSUME NEW c \in Seq(Instructions), NEW d, NEW s, NEW u, Sound(c, d, s, u),
           NEW i \in Instructions, i.height = d, i.placed = s, Len(s) <= d,
           i.op = "combine" => i.n <= d,
           i.op \in {"getLocal", "setLocal"} => i.n \in 1 .. Len(s) /\ s[i.n] = i.var,
           NEW d2, NEW s2, Leads(i, d2, s2),
           NEW u2, u \subseteq u2,
           i.op \in Jumps => \/ Len(c) + 1 \in u2
                             \/ i.n \in 1 .. Len(c) + 1 /\ Leads(i, Height(c, d, i.n), Placed(c, s, i.n))
    PROVE  Sound(Append(c, i), d2, s2, u2)
<1>. DEFINE r == Append(c, i)
<1>1. /\ r \in Seq(Instructions) /\ Len(c) \in Nat /\ Len(r) = Len(c) + 1
      /\ \A n \in 1 .. Len(c) : r[n] = c[n]
      /\ r[Len(c) + 1] = i
  BY AppendFacts
<1>2. \A n \in 1 .. Len(c) + 1 :
        Height(r, d2, n) = Height(c, d, n) /\ Placed(r, s2, n) = Placed(c, s, n)
  <2>1. Extended(c, d, s, Append(c, i), d2, s2)
    BY EmitExtends
  <2>. QED
    BY <2>1 DEF Extended
<1>3. Height(r, d2, Len(r) + 1) = d2 /\ Placed(r, s2, Len(r) + 1) = s2
  BY <1>1 DEF Height, Placed
<1>. HIDE DEF r
<1>. SUFFICES ASSUME NEW n \in 1 .. Len(r)
              PROVE  /\ Len(r[n].placed) <= r[n].height
                     /\ r[n].op = "combine" => r[n].n <= r[n].height
                     /\ r[n].op \in {"getLocal", "setLocal"} =>
                          r[n].n \in 1 .. Len(r[n].placed) /\ r[n].placed[r[n].n] = r[n].var
                     /\ Leads(r[n], Height(r, d2, n + 1), Placed(r, s2, n + 1))
                     /\ r[n].op \in Jumps /\ n \notin u2 =>
                          /\ r[n].n \in 1 .. Len(r) + 1
                          /\ Leads(r[n], Height(r, d2, r[n].n), Placed(r, s2, r[n].n))
  BY DEF Sound, r
<1>4. CASE n \in 1 .. Len(c)
  <2>1. r[n] = c[n] /\ n + 1 \in 1 .. Len(c) + 1
    BY <1>1, <1>4
  <2>2. /\ Len(c[n].placed) <= c[n].height
        /\ c[n].op = "combine" => c[n].n <= c[n].height
        /\ c[n].op \in {"getLocal", "setLocal"} =>
             c[n].n \in 1 .. Len(c[n].placed) /\ c[n].placed[c[n].n] = c[n].var
        /\ Leads(c[n], Height(c, d, n + 1), Placed(c, s, n + 1))
        /\ c[n].op \in Jumps /\ n \notin u =>
             /\ c[n].n \in 1 .. Len(c) + 1
             /\ Leads(c[n], Height(c, d, c[n].n), Placed(c, s, c[n].n))
    BY <1>4 DEF Sound
  <2>3. ASSUME c[n].op \in Jumps, n \notin u2
        PROVE  /\ c[n].n \in 1 .. Len(r) + 1
               /\ Leads(c[n], Height(r, d2, c[n].n), Placed(r, s2, c[n].n))
    <3>1. /\ c[n].n \in 1 .. Len(c) + 1
          /\ Leads(c[n], Height(c, d, c[n].n), Placed(c, s, c[n].n))
      BY <2>2, <2>3
    <3>. QED
      BY <1>1, <1>2, <3>1
  <2>4. Leads(c[n], Height(r, d2, n + 1), Placed(r, s2, n + 1))
    BY <1>2, <2>1, <2>2
  <2>. QED
    BY <2>1, <2>2, <2>3, <2>4
<1>5. CASE n = Len(c) + 1
  <2>1. r[n] = i /\ n + 1 = Len(r) + 1
    BY <1>1, <1>5
  <2>2. Leads(i, Height(r, d2, n + 1), Placed(r, s2, n + 1))
    BY <1>3, <2>1
  <2>3. ASSUME i.op \in Jumps, n \notin u2
        PROVE  i.n \in 1 .. Len(r) + 1 /\ Leads(i, Height(r, d2, i.n), Placed(r, s2, i.n))
    <3>1. i.n \in 1 .. Len(c) + 1 /\ Leads(i, Height(c, d, i.n), Placed(c, s, i.n))
      BY <1>5, <2>3
    <3>. QED
      BY <1>1, <1>2, <3>1
  <2>. QED
    BY <2>1, <2>2, <2>3
<1>. QED
  BY <1>1, <1>4, <1>5

\* Patching jumps that lead to the end of the chunk.
LEMMA PatchFacts ==
    ASSUME NEW c \in Seq(Instructions), NEW jumps
    PROVE  /\ Patched(c, jumps) \in Seq(Instructions) /\ Len(c) \in Nat
           /\ Len(Patched(c, jumps)) = Len(c)
           /\ \A n \in 1 .. Len(c) :
                /\ Patched(c, jumps)[n].op = c[n].op
                /\ Patched(c, jumps)[n].height = c[n].height
                /\ Patched(c, jumps)[n].placed = c[n].placed
                /\ Patched(c, jumps)[n].var = c[n].var
                /\ n \notin jumps => Patched(c, jumps)[n] = c[n]
                /\ n \in jumps => Patched(c, jumps)[n].n = Len(c) + 1
<1>. DEFINE i(m) == IF m \in jumps THEN [c[m] EXCEPT !.n = Len(c) + 1] ELSE c[m]
            r == [m \in 1 .. Len(c) |-> i(m)]
<1>1. Patched(c, jumps) = r
  BY ChunkFacts DEF Patched
<1>2. Len(c) \in Nat /\ Len(c) + 1 \in Nat /\ \A n \in 1 .. Len(c) : c[n] \in Instructions
  BY ChunkFacts
<1>3. ASSUME NEW n \in 1 .. Len(c)
      PROVE  /\ i(n) \in Instructions
             /\ i(n).op = c[n].op /\ i(n).height = c[n].height /\ i(n).placed = c[n].placed
             /\ i(n).var = c[n].var
             /\ n \notin jumps => i(n) = c[n]
             /\ n \in jumps => i(n).n = Len(c) + 1
  <2>. DEFINE x == c[n]
              k == Len(c) + 1
  <2>1. x \in Instructions /\ k \in Nat
    BY <1>2
  <2>2. i(n) = IF n \in jumps THEN [x EXCEPT !.n = k] ELSE x
    OBVIOUS
  <2>. HIDE DEF x, k, i
  <2>3. /\ [x EXCEPT !.n = k] \in Instructions /\ [x EXCEPT !.n = k].op = x.op
        /\ [x EXCEPT !.n = k].height = x.height /\ [x EXCEPT !.n = k].placed = x.placed
        /\ [x EXCEPT !.n = k].var = x.var /\ [x EXCEPT !.n = k].n = k
    BY <2>1 DEF Instructions
  <2>4. /\ i(n) \in Instructions
        /\ i(n).op = x.op /\ i(n).height = x.height /\ i(n).placed = x.placed
        /\ i(n).var = x.var
        /\ n \notin jumps => i(n) = x
        /\ n \in jumps => i(n).n = k
    BY <2>1, <2>2, <2>3
  <2>. QED
    BY <2>4 DEF x, k
<1>. HIDE DEF i
<1>4. /\ r \in Seq(Instructions) /\ Len(r) = Len(c)
      /\ \A n \in 1 .. Len(c) : r[n] = i(n)
  BY <1>2, <1>3
<1>. HIDE DEF r
<1>. QED
  BY <1>1, <1>2, <1>3, <1>4

LEMMA PatchExtends ==
    ASSUME NEW c \in Seq(Instructions), NEW d, NEW s, NEW jumps
    PROVE  Extended(c, d, s, Patched(c, jumps), d, s)
BY PatchFacts DEF Extended, Height, Placed

\* Where a jump leads does not depend on its operand.
LEMMA LeadsAlike ==
    ASSUME NEW i, NEW j, i.op = j.op, i.op \in Jumps, i.height = j.height, i.placed = j.placed,
           NEW d, NEW s, Leads(i, d, s)
    PROVE  Leads(j, d, s)
BY DEF Leads, Raised, Kept, Jumps, Pushes, Pops

LEMMA PatchSound ==
    ASSUME NEW c \in Seq(Instructions), NEW d, NEW s, NEW u, Sound(c, d, s, u),
           NEW jumps, \A j \in jumps : j \in 1 .. Len(c) /\ c[j].op \in Jumps /\ Leads(c[j], d, s),
           NEW u2, u \subseteq u2 \cup jumps
    PROVE  Sound(Patched(c, jumps), d, s, u2)
<1>. DEFINE r == Patched(c, jumps)
<1>1. /\ r \in Seq(Instructions) /\ Len(c) \in Nat /\ Len(r) = Len(c)
      /\ \A n \in 1 .. Len(c) :
           /\ r[n].op = c[n].op /\ r[n].height = c[n].height /\ r[n].placed = c[n].placed
           /\ r[n].var = c[n].var
           /\ n \notin jumps => r[n] = c[n]
           /\ n \in jumps => r[n].n = Len(c) + 1
  BY PatchFacts
<1>2. \A n \in 1 .. Len(c) + 1 :
        Height(r, d, n) = Height(c, d, n) /\ Placed(r, s, n) = Placed(c, s, n)
  <2>1. Extended(c, d, s, Patched(c, jumps), d, s)
    BY PatchExtends
  <2>. QED
    BY <2>1 DEF Extended
<1>3. Height(c, d, Len(c) + 1) = d /\ Placed(c, s, Len(c) + 1) = s
  BY <1>1 DEF Height, Placed
<1>. HIDE DEF r
<1>. SUFFICES ASSUME NEW n \in 1 .. Len(c)
              PROVE  /\ Len(r[n].placed) <= r[n].height
                     /\ r[n].op = "combine" => r[n].n <= r[n].height
                     /\ r[n].op \in {"getLocal", "setLocal"} =>
                          r[n].n \in 1 .. Len(r[n].placed) /\ r[n].placed[r[n].n] = r[n].var
                     /\ Leads(r[n], Height(r, d, n + 1), Placed(r, s, n + 1))
                     /\ r[n].op \in Jumps /\ n \notin u2 =>
                          /\ r[n].n \in 1 .. Len(r) + 1
                          /\ Leads(r[n], Height(r, d, r[n].n), Placed(r, s, r[n].n))
  BY <1>1 DEF Sound, r
<1>4. /\ Len(c[n].placed) <= c[n].height
      /\ c[n].op = "combine" => c[n].n <= c[n].height
      /\ c[n].op \in {"getLocal", "setLocal"} =>
           c[n].n \in 1 .. Len(c[n].placed) /\ c[n].placed[c[n].n] = c[n].var
      /\ Leads(c[n], Height(c, d, n + 1), Placed(c, s, n + 1))
      /\ c[n].op \in Jumps /\ n \notin u =>
           /\ c[n].n \in 1 .. Len(c) + 1
           /\ Leads(c[n], Height(c, d, c[n].n), Placed(c, s, c[n].n))
  BY DEF Sound
<1>5. n + 1 \in 1 .. Len(c) + 1
  BY <1>1
<1>6. CASE n \notin jumps
  <2>1. r[n] = c[n]
    BY <1>1, <1>6
  <2>2. Leads(c[n], Height(r, d, n + 1), Placed(r, s, n + 1))
    BY <1>2, <1>4, <1>5
  <2>3. ASSUME c[n].op \in Jumps, n \notin u2
        PROVE  /\ c[n].n \in 1 .. Len(r) + 1
               /\ Leads(c[n], Height(r, d, c[n].n), Placed(r, s, c[n].n))
    <3>1. /\ c[n].n \in 1 .. Len(c) + 1
          /\ Leads(c[n], Height(c, d, c[n].n), Placed(c, s, c[n].n))
      BY <1>4, <1>6, <2>3
    <3>. QED
      BY <1>1, <1>2, <3>1
  <2>. QED
    BY <1>4, <2>1, <2>2, <2>3
<1>7. CASE n \in jumps
  <2>1. c[n].op \in Jumps /\ Leads(c[n], d, s)
    BY <1>7
  <2>2. Leads(r[n], d, s) /\ Leads(r[n], Height(c, d, n + 1), Placed(c, s, n + 1))
    BY <1>1, <1>4, <2>1, LeadsAlike
  <2>3. Leads(r[n], Height(r, d, n + 1), Placed(r, s, n + 1))
    BY <1>2, <1>5, <2>2
  <2>4. r[n].n = Len(c) + 1 /\ r[n].n \in 1 .. Len(r) + 1
    BY <1>1, <1>7
  <2>5. Leads(r[n], Height(r, d, r[n].n), Placed(r, s, r[n].n))
    <3>1. Len(c) + 1 \in 1 .. Len(c) + 1
      BY <1>1
    <3>2. Height(r, d, Len(c) + 1) = d /\ Placed(r, s, Len(c) + 1) = s
      BY <1>2, <1>3, <3>1
    <3>. QED
      BY <2>2, <2>4, <3>2
  <2>6. r[n].op \notin {"combine", "getLocal", "setLocal"}
    BY <1>1, <2>1 DEF Jumps
  <2>. QED
    BY <1>1, <1>4, <2>3, <2>4, <2>5, <2>6
<1>. QED
  BY <1>6, <1>7

--------------------------------------------------------------------------------
(* What is left to compile *)

\* The state of the compiler, without the machine.
Compiled(t, l, c, d, s) ==
    /\ t \in Seq(Items) /\ l \in Loops /\ c \in Seq(Instructions) /\ d \in Nat /\ s \in Seq(Nat)
    /\ Balanced(t, d, s) /\ Ordered(t, s) /\ Scoped(t, c, s)
    /\ LoopsSound(t, l, c, d, s) /\ Nested(t, l, c, s)
    /\ Sound(c, d, s, Unfinished(t, l))

\* How many locals there are after the first item.
Base(t, s) == IF t[1].do = "stmts" THEN t[1].from ELSE Len(s)

LEMMA TodoFacts ==
    ASSUME NEW t \in Seq(Items)
    PROVE  /\ Len(t) \in Nat
           /\ \A n \in 1 .. Len(t) :
                /\ t[n] \in Items
                /\ t[n].do \in {"expr", "emit", "bind", "stmt", "stmts", "whileBody", "endWhile",
                                "then", "else", "endIf"}
                /\ t[n].do = "expr" => t[n].above \in Nat
                /\ t[n].do = "emit" => /\ t[n].above \in Nat /\ t[n].code.op \in Ops
                                       /\ t[n].code.n \in Nat /\ t[n].code.var \in Nat
                /\ t[n].do = "stmts" => t[n].from \in Nat
                /\ t[n].do \in {"whileBody", "endWhile"} => t[n].outer \in Loops
                /\ t[n].do \in Awaiting => t[n].jump \in Nat
<1>1. Len(t) \in Nat /\ \A n \in 1 .. Len(t) : t[n] \in Items
  OBVIOUS
<1>. QED
  BY <1>1, ItemFacts

\* A jump that waits is one of the chunk, and the locals it was emitted with are the
\* bottom ones of those there are now.
LEMMA WaitingFacts ==
    ASSUME NEW c \in Seq(Instructions), NEW s \in Seq(Nat), NEW t \in Seq(Items), Scoped(t, c, s),
           NEW n \in 1 .. Len(t), t[n].do \in Awaiting
    PROVE  /\ JumpFrom(c, s, t[n].jump, LocalsAt(c, t[n]))
           /\ LocalsAt(c, t[n]) = Len(c[t[n].jump].placed)
           /\ LocalsAt(c, t[n]) \in Nat /\ LocalsAt(c, t[n]) <= Len(s)
           /\ t[n].jump \in 1 .. Len(c)
<1>1. JumpFrom(c, s, t[n].jump, LocalsAt(c, t[n]))
  BY DEF Scoped
<1>2. t[n].jump \in 1 .. Len(c) /\ LocalsAt(c, t[n]) <= Len(s)
  BY <1>1 DEF JumpFrom
<1>3. LocalsAt(c, t[n]) = Len(c[t[n].jump].placed)
  BY DEF LocalsAt, Awaiting
<1>. QED
  BY <1>1, <1>2, <1>3, ChunkFacts

LEMMA Based ==
    ASSUME NEW t, NEW l, NEW c, NEW d, NEW s, Compiled(t, l, c, d, s), t # << >>
    PROVE  /\ Base(t, s) \in Nat /\ Base(t, s) <= Len(s) /\ l.locals <= Base(t, s)
           /\ \A n \in 2 .. Len(t) :
                /\ t[n].do \in Awaiting \/ t[n].do = "stmts" => LocalsAt(c, t[n]) <= Base(t, s)
                /\ t[n].do \in Awaiting /\ Quiet(t, 2, n) => LocalsAt(c, t[n]) = Base(t, s)
                /\ n \in Whiles(t) => t[n].outer.locals <= Base(t, s)
<1>. DEFINE b == Base(t, s)
<1>1. /\ t \in Seq(Items) /\ l \in Loops /\ c \in Seq(Instructions) /\ s \in Seq(Nat)
      /\ Scoped(t, c, s) /\ LoopsSound(t, l, c, d, s) /\ Nested(t, l, c, s)
  BY DEF Compiled
<1>2. Len(t) \in Nat /\ Len(t) >= 1 /\ Len(s) \in Nat /\ 1 \in 1 .. Len(t)
  BY <1>1
<1>3. \A n \in 1 .. Len(t) :
        /\ t[n].do = "stmts" => t[n].from \in Nat /\ t[n].from <= Len(s)
                                /\ LocalsAt(c, t[n]) = t[n].from
        /\ t[n].do \in Awaiting => LocalsAt(c, t[n]) \in Nat /\ LocalsAt(c, t[n]) <= Len(s)
  <2>1. \A n \in 1 .. Len(t) : t[n].do = "stmts" => t[n].from \in Nat /\ t[n].from <= Len(s)
    BY <1>1, TodoFacts DEF Scoped
  <2>. QED
    BY <1>1, <2>1, WaitingFacts DEF LocalsAt
<1>4. \A k \in {l} \cup {t[n].outer : n \in Whiles(t)} : k.locals \in Nat /\ k.locals <= Len(s)
  <2>1. \A k \in {l} \cup {t[n].outer : n \in Whiles(t)} : k \in Loops /\ LoopSound(c, d, s, k)
    BY <1>1, TodoFacts DEF LoopsSound, Whiles
  <2>2. \A k \in Loops : k.locals \in Nat
    BY LoopFacts
  <2>. QED
    BY <1>2, <2>1, <2>2, LoopFacts DEF LoopSound
<1>5. CASE t[1].do = "stmts"
  <2>1. b = t[1].from /\ b \in Nat /\ b <= Len(s)
    BY <1>2, <1>3, <1>5 DEF Base
  <2>2. l.locals <= t[1].from
    <3>1. Around(t, l, l, 1)
      BY DEF Around
    <3>. QED
      BY <1>1, <1>2, <1>5, <3>1 DEF Nested
  <2>3. ASSUME NEW n \in 2 .. Len(t)
        PROVE  /\ t[n].do \in Awaiting \/ t[n].do = "stmts" => LocalsAt(c, t[n]) <= b
               /\ t[n].do \in Awaiting /\ Quiet(t, 2, n) => LocalsAt(c, t[n]) = b
               /\ n \in Whiles(t) => t[n].outer.locals <= b
    <3>1. n \in 1 .. Len(t) /\ 1 \in 1 .. n - 1 /\ 1 + 1 = 2
      BY <1>2
    <3>. QED
      BY <1>1, <1>5, <2>1, <3>1 DEF Scoped
  <2>. QED
    BY <2>1, <2>2, <2>3
<1>6. CASE t[1].do # "stmts"
  <2>1. b = Len(s)
    BY <1>6 DEF Base
  <2>2. ASSUME NEW n \in 2 .. Len(t), t[n].do \in Awaiting, Quiet(t, 2, n)
        PROVE  LocalsAt(c, t[n]) = b
    <3>1. n \in 1 .. Len(t) /\ \A k \in 1 .. n : k = 1 \/ k \in 2 .. n
      BY <1>2
    <3>2. Quiet(t, 1, n)
      BY <1>6, <2>2, <3>1 DEF Quiet
    <3>. QED
      BY <1>1, <2>1, <2>2, <3>1, <3>2 DEF Scoped
  <2>3. \A n \in 2 .. Len(t) : n \in 1 .. Len(t)
    BY <1>2
  <2>. QED
    BY <1>2, <1>3, <1>4, <2>1, <2>2, <2>3
<1>. QED
  BY <1>5, <1>6

\* items take the place of the first item, which they take the stack from and hand it on as.
Chained(items, h, d, s) ==
    /\ d = Len(s) + IF items = << >> THEN Left(h) ELSE Above(items[1])
    /\ \A n \in 1 .. Len(items) :
         Left(items[n]) = IF n = Len(items) THEN Left(h) ELSE Above(items[n + 1])

LEMMA BalancedStep ==
    ASSUME NEW t \in Seq(Items), t # << >>, NEW d, NEW s, Balanced(t, d, s),
           NEW items \in Seq(Items), NEW d2, NEW s2, Chained(items, t[1], d2, s2)
    PROVE  Balanced(items \o Tail(t), d2, s2)
<1>. DEFINE r == items \o Tail(t)
<1>1. /\ r \in Seq(Items) /\ Len(r) = Len(items) + Len(t) - 1
      /\ Len(t) \in Nat \ {0} /\ Len(items) \in Nat /\ Len(r) \in Nat
      /\ \A n \in 1 .. Len(items) : r[n] = items[n]
      /\ \A n \in 2 .. Len(t) : r[(n + Len(items)) - 1] = t[n]
      /\ \A n \in Len(items) + 1 .. Len(r) :
           (n - Len(items)) + 1 \in 2 .. Len(t) /\ r[n] = t[(n - Len(items)) + 1]
  BY Replaced
<1>. HIDE DEF r
<1>2. Left(t[1]) = IF Len(r) = Len(items) THEN 0 ELSE Above(r[Len(items) + 1])
  <2>. DEFINE a == Len(items)
              e == Len(t)
              z == Len(r)
  <2>1. \A n \in 1 .. Len(t) : Left(t[n]) = IF n = Len(t) THEN 0 ELSE Above(t[n + 1])
    BY DEF Balanced
  <2>2. a \in Nat /\ e \in Nat \ {0} /\ z = a + e - 1
    BY <1>1
  <2>. HIDE DEF a, e, z
  <2>3. 1 \in 1 .. e /\ 1 + 1 = 2
    BY <2>2
  <2>4. Left(t[1]) = IF 1 = Len(t) THEN 0 ELSE Above(t[2])
    BY <2>1, <2>3 DEF e
  <2>5. e = 1 => z = a
    BY <2>2
  <2>6. e # 1 => 2 \in 2 .. e /\ (2 + a) - 1 = a + 1 /\ z # a
    BY <2>2
  <2>7. CASE e = 1
    BY <2>4, <2>5, <2>7 DEF a, e, z
  <2>8. CASE e # 1
    <3>1. r[a + 1] = t[2]
      BY <1>1, <2>6, <2>8 DEF a, e
    <3>. QED
      BY <2>4, <2>6, <2>8, <3>1 DEF a, e, z
  <2>. QED
    BY <2>7, <2>8
<1>3. d2 = Len(s2) + IF r = << >> THEN 0 ELSE Above(r[1])
  <2>1. CASE Len(items) = 0
    BY <1>1, <1>2, <2>1 DEF Chained
  <2>2. CASE Len(items) # 0
    <3>1. 1 \in 1 .. Len(items) /\ r # << >> /\ items # << >>
      BY <1>1, <2>2
    <3>. QED
      BY <1>1, <3>1 DEF Chained
  <2>. QED
    BY <2>1, <2>2
<1>4. ASSUME NEW n \in 1 .. Len(r)
      PROVE  Left(r[n]) = IF n = Len(r) THEN 0 ELSE Above(r[n + 1])
  <2>1. CASE n < Len(items)
    <3>1. n \in 1 .. Len(items) /\ n + 1 \in 1 .. Len(items) /\ n # Len(items) /\ n # Len(r)
      BY <1>1, <2>1
    <3>. QED
      BY <1>1, <3>1 DEF Chained
  <2>2. CASE n = Len(items)
    <3>1. n \in 1 .. Len(items)
      BY <1>1, <2>2
    <3>. QED
      BY <1>1, <1>2, <2>2, <3>1 DEF Chained
  <2>3. CASE n > Len(items)
    <3>. DEFINE m == (n - Len(items)) + 1
    <3>1. n \in Len(items) + 1 .. Len(r) /\ m \in 2 .. Len(t) /\ m \in 1 .. Len(t) /\ r[n] = t[m]
      BY <1>1, <2>3
    <3>2. Left(t[m]) = IF m = Len(t) THEN 0 ELSE Above(t[m + 1])
      BY <3>1 DEF Balanced
    <3>3. n = Len(r) <=> m = Len(t)
      BY <1>1, <3>1
    <3>4. ASSUME n # Len(r) PROVE r[n + 1] = t[m + 1]
      <4>1. n + 1 \in Len(items) + 1 .. Len(r) /\ ((n + 1) - Len(items)) + 1 = m + 1
        BY <1>1, <3>1, <3>4
      <4>. QED
        BY <1>1, <4>1
    <3>. HIDE DEF m
    <3>. QED
      BY <3>1, <3>2, <3>3, <3>4
  <2>. QED
    BY <1>1, <2>1, <2>2, <2>3
<1>5. Balanced(r, d2, s2)
  BY <1>3, <1>4 DEF Balanced
<1>. QED
  BY <1>5 DEF r

\* A local may still be declared when a part of the expression has been dealt with.
LEMMA DeclarableStays ==
    ASSUME NEW t \in Seq(Items), t # << >>, t[1].do \in Inner, Declarable(t),
           NEW items \in Seq(Items), \A n \in 1 .. Len(items) : items[n].do \in Inner
    PROVE  Declarable(items \o Tail(t))
<1>. DEFINE r == items \o Tail(t)
            k == Len(items)
            at(n) == (n + k) - 1
<1>1. /\ Len(t) \in Nat \ {0} /\ k \in Nat /\ Len(r) \in Nat /\ Len(r) = k + Len(t) - 1
      /\ \A n \in 1 .. k : r[n] = items[n]
      /\ \A n \in 2 .. Len(t) : r[at(n)] = t[n]
  BY Replaced
<1>. HIDE DEF r, k
<1>2. PICK n \in 1 .. Len(t) :
        /\ \A m \in 1 .. n - 1 : t[m].do \in Inner
        /\ t[n].do = "stmts" \/ (t[n].do = "then" /\ n < Len(t) /\ t[n + 1].do = "stmts")
  BY DEF Declarable
<1>3. n # 1
  BY <1>2 DEF Inner
<1>4. /\ n \in 2 .. Len(t) /\ at(n) \in 1 .. Len(r)
      /\ n < Len(t) => at(n) < Len(r) /\ n + 1 \in 2 .. Len(t) /\ at(n + 1) = at(n) + 1
  BY <1>1, <1>3
<1>5. ASSUME NEW m \in 1 .. at(n) - 1 PROVE r[m].do \in Inner
  <2>1. CASE m <= k
    BY <1>1, <2>1 DEF k
  <2>2. CASE ~(m <= k)
    <3>. DEFINE j == (m - k) + 1
    <3>1. j \in 2 .. Len(t) /\ j \in 1 .. n - 1 /\ at(j) = m
      BY <1>1, <1>4, <2>2
    <3>. HIDE DEF at, j
    <3>. QED
      BY <1>1, <1>2, <3>1
  <2>. QED
    BY <2>1, <2>2
<1>. HIDE DEF at
<1>6. /\ r[at(n)] = t[n]
      /\ n < Len(t) => r[at(n) + 1] = t[n + 1]
  BY <1>1, <1>4
<1>7. Declarable(r)
  BY <1>2, <1>4, <1>5, <1>6 DEF Declarable
<1>. QED
  BY <1>7 DEF r

\* Before anything waits for a local, the block it is declared in ends.
LEMMA DeclarableBlock ==
    ASSUME NEW t \in Seq(Items), t # << >>, t[1].do \in Inner, Declarable(t),
           NEW n \in 2 .. Len(t)
    PROVE  /\ t[n].do \in Awaiting => ~Quiet(t, 2, n)
           /\ t[n].do = "whileBody" => \E m \in 1 .. n - 1 : t[m].do \notin Inner
<1>1. Len(t) \in Nat
  OBVIOUS
<1>2. PICK p \in 1 .. Len(t) :
        /\ \A m \in 1 .. p - 1 : t[m].do \in Inner
        /\ t[p].do = "stmts" \/ (t[p].do = "then" /\ p < Len(t) /\ t[p + 1].do = "stmts")
  BY DEF Declarable
<1>3. p # 1
  BY <1>2 DEF Inner
<1>4. ASSUME t[n].do \in Awaiting PROVE ~Quiet(t, 2, n)
  <2>1. ~(n \in 1 .. p - 1) /\ n # p
    BY <1>2, <1>4 DEF Awaiting, Inner
  <2>2. p < n
    BY <1>1, <2>1
  <2>3. CASE t[p].do = "stmts"
    <3>1. p \in 2 .. n
      BY <1>1, <1>3, <2>2
    <3>. QED
      BY <2>3, <3>1 DEF Quiet
  <2>4. CASE t[p].do # "stmts"
    <3>1. t[p + 1].do = "stmts" /\ p + 1 \in 2 .. n
      BY <1>1, <1>2, <1>3, <2>2, <2>4
    <3>. QED
      BY <3>1 DEF Quiet
  <2>. QED
    BY <2>3, <2>4
<1>5. ASSUME t[n].do = "whileBody" PROVE \E m \in 1 .. n - 1 : t[m].do \notin Inner
  <2>1. ~(n \in 1 .. p - 1) /\ n # p
    BY <1>2, <1>5 DEF Inner
  <2>2. p \in 1 .. n - 1
    BY <1>1, <2>1
  <2>. QED
    BY <1>2, <2>2 DEF Inner
<1>. QED
  BY <1>4, <1>5

\* What items need where they stand, and leave to what comes after them.
InOrder(items, t, s, s2) ==
    /\ t[1].do \in Inner =>
         /\ \A n \in 1 .. Len(items) : items[n].do \in Inner
         /\ Len(s) <= Len(s2) /\ \A j \in 1 .. Len(s) : s2[j] = s[j]
    /\ \A n \in 1 .. Len(items) :
         /\ items[n].do \in Inner \cup {"stmt", "whileBody", "then"} =>
              \A m \in 1 .. n - 1 : items[m].do \in Inner
         /\ items[n].do = "emit" => Writable(items[n], s2) /\ (items[n].code.op = "dup" => n = 1)
         /\ items[n].do = "bind" => t[1].do \in Inner /\ Declarable(t)

LEMMA WritableStays ==
    ASSUME NEW s \in Seq(Nat), NEW s2 \in Seq(Nat),
           Len(s) <= Len(s2), \A j \in 1 .. Len(s) : s2[j] = s[j],
           NEW item, Writable(item, s), item.code.op # "dup"
    PROVE  Writable(item, s2)
<1>. DEFINE i == item.code
<1>1. Len(s) \in Nat /\ Len(s2) \in Nat
  OBVIOUS
<1>2. i.op = "setLocal" => i.n \in 1 .. Len(s) /\ s[i.n] = i.var
  BY DEF Writable
<1>3. i.op = "setLocal" => i.n \in 1 .. Len(s2) /\ s2[i.n] = i.var
  BY <1>1, <1>2
<1>. QED
  BY <1>3 DEF Writable

LEMMA OrderedStep ==
    ASSUME NEW t \in Seq(Items), t # << >>, NEW s \in Seq(Nat), Ordered(t, s),
           NEW items \in Seq(Items), NEW s2 \in Seq(Nat), InOrder(items, t, s, s2)
    PROVE  Ordered(items \o Tail(t), s2)
<1>. DEFINE r == items \o Tail(t)
            k == Len(items)
            at(n) == (n + k) - 1
<1>1. /\ Len(t) \in Nat \ {0} /\ k \in Nat /\ Len(r) \in Nat /\ Len(r) = k + Len(t) - 1
      /\ \A n \in 1 .. k : r[n] = items[n]
      /\ \A n \in 2 .. Len(t) : r[at(n)] = t[n]
      /\ \A n \in k + 1 .. Len(r) : (n - k) + 1 \in 2 .. Len(t) /\ r[n] = t[(n - k) + 1]
  BY Replaced
<1>2. Len(s) \in Nat /\ Len(s2) \in Nat
  OBVIOUS
<1>3. ASSUME t[1].do \in Inner, Declarable(t) PROVE Declarable(r)
  <2>1. \A n \in 1 .. Len(items) : items[n].do \in Inner
    BY <1>3 DEF InOrder
  <2>2. Declarable(items \o Tail(t))
    BY <1>3, <2>1, DeclarableStays
  <2>. QED
    BY <2>2
<1>. HIDE DEF r
<1>4. ASSUME NEW n \in 1 .. k
      PROVE  /\ r[n].do \in Inner \cup {"stmt", "whileBody", "then"} =>
                  \A m \in 1 .. n - 1 : r[m].do \in Inner
             /\ r[n].do = "emit" => Writable(r[n], s2) /\ (r[n].code.op = "dup" => n = 1)
             /\ r[n].do = "bind" => Declarable(r)
  <2>1. r[n] = items[n] /\ \A m \in 1 .. n - 1 : r[m] = items[m]
    BY <1>1
  <2>. QED
    BY <1>3, <2>1 DEF InOrder
<1>. HIDE DEF k
<1>5. ASSUME NEW n \in k + 1 .. Len(r)
      PROVE  /\ r[n].do \in Inner \cup {"stmt", "whileBody", "then"} =>
                  \A m \in 1 .. n - 1 : r[m].do \in Inner
             /\ r[n].do = "emit" => Writable(r[n], s2) /\ (r[n].code.op = "dup" => n = 1)
             /\ r[n].do = "bind" => Declarable(r)
  <2>. DEFINE p == (n - k) + 1
  <2>1. p \in 2 .. Len(t) /\ r[n] = t[p] /\ p \in 1 .. Len(t) /\ 1 \in 1 .. p - 1
    BY <1>1
  <2>2. /\ t[p].do \in Inner \cup {"stmt", "whileBody", "then"} =>
             \A m \in 1 .. p - 1 : t[m].do \in Inner
        /\ t[p].do = "emit" => Writable(t[p], s) /\ (t[p].code.op = "dup" => p = 1)
        /\ t[p].do = "bind" => Declarable(t)
    BY <2>1 DEF Ordered
  <2>3. p # 1
    BY <2>1
  <2>4. ASSUME t[p].do \in Inner \cup {"stmt", "whileBody", "then"}
        PROVE  t[1].do \in Inner /\ \A m \in 1 .. n - 1 : r[m].do \in Inner
    <3>1. t[1].do \in Inner
      BY <2>1, <2>2, <2>4
    <3>2. ASSUME NEW m \in 1 .. n - 1 PROVE r[m].do \in Inner
      <4>1. CASE m <= k
        <5>1. m \in 1 .. Len(items) /\ r[m] = items[m]
          BY <1>1, <4>1 DEF k
        <5>. QED
          BY <3>1, <5>1 DEF InOrder
      <4>2. CASE ~(m <= k)
        <5>1. m \in k + 1 .. Len(r) /\ (m - k) + 1 \in 1 .. p - 1
          BY <1>1, <4>2
        <5>2. r[m] = t[(m - k) + 1]
          BY <1>1, <5>1
        <5>3. t[(m - k) + 1].do \in Inner
          BY <2>2, <2>4, <5>1
        <5>. QED
          BY <5>2, <5>3
      <4>. QED
        BY <4>1, <4>2
    <3>. QED
      BY <3>1, <3>2
  <2>5. ASSUME t[p].do = "emit" PROVE Writable(t[p], s2) /\ t[p].code.op # "dup"
    <3>1. t[1].do \in Inner
      BY <2>4, <2>5 DEF Inner
    <3>2. Len(s) <= Len(s2) /\ \A j \in 1 .. Len(s) : s2[j] = s[j]
      BY <3>1 DEF InOrder
    <3>3. Writable(t[p], s) /\ t[p].code.op # "dup"
      BY <2>2, <2>3, <2>5
    <3>. QED
      BY <3>2, <3>3, WritableStays
  <2>6. ASSUME t[p].do = "bind" PROVE Declarable(r)
    <3>1. t[1].do \in Inner
      BY <2>4, <2>6 DEF Inner
    <3>. QED
      BY <1>3, <2>2, <2>6, <3>1
  <2>. HIDE DEF p
  <2>. QED
    BY <2>1, <2>4, <2>5, <2>6
<1>6. \A n \in 1 .. Len(r) : n \in 1 .. k \/ n \in k + 1 .. Len(r)
  BY <1>1
<1>7. Ordered(r, s2)
  BY <1>4, <1>5, <1>6 DEF Ordered
<1>. QED
  BY <1>7 DEF r

\* Where the bottom locals are the same, so is what a jump was emitted with.
LEMMA SameBottom ==
    ASSUME NEW s \in Seq(Nat), NEW s2 \in Seq(Nat), NEW n \in Nat, n <= Len(s), n <= Len(s2),
           \A j \in 1 .. n : s2[j] = s[j]
    PROVE  SubSeq(s2, 1, n) = SubSeq(s, 1, n)
<1>. DEFINE p == SubSeq(s, 1, n)
            p2 == SubSeq(s2, 1, n)
<1>1. p \in Seq(Nat) /\ Len(p) = n /\ \A j \in 1 .. n : p[j] = s[j]
  OBVIOUS
<1>2. p2 \in Seq(Nat) /\ Len(p2) = n /\ \A j \in 1 .. n : p2[j] = s2[j]
  OBVIOUS
<1>. HIDE DEF p, p2
<1>3. Len(p2) = Len(p) /\ \A j \in 1 .. Len(p2) : p2[j] = p[j]
  BY <1>1, <1>2
<1>4. p2 = p
  BY <1>1, <1>2, <1>3, SeqEqual
<1>. QED
  BY <1>4 DEF p, p2

LEMMA JumpFromStays ==
    ASSUME NEW c, NEW d, NEW s \in Seq(Nat), NEW c2, NEW d2, NEW s2 \in Seq(Nat),
           Len(c) \in Nat, Len(c2) \in Nat, Extended(c, d, s, c2, d2, s2),
           NEW b \in Nat, b <= Len(s2), \A j \in 1 .. b : s2[j] = s[j],
           NEW jump, NEW n \in Nat, n <= b, JumpFrom(c, s, jump, n)
    PROVE  /\ JumpFrom(c2, s2, jump, n)
           /\ c2[jump].op = c[jump].op /\ c2[jump].placed = c[jump].placed
<1>1. Len(s) \in Nat /\ Len(s2) \in Nat /\ n <= Len(s) /\ n <= Len(s2)
  BY DEF JumpFrom
<1>2. /\ jump \in 1 .. Len(c) /\ jump \in 1 .. Len(c2)
      /\ c2[jump].op = c[jump].op /\ c2[jump].height = c[jump].height
      /\ c2[jump].placed = c[jump].placed
  <2>1. /\ Len(c) <= Len(c2)
        /\ \A m \in 1 .. Len(c) :
             c2[m].op = c[m].op /\ c2[m].height = c[m].height /\ c2[m].placed = c[m].placed
    BY DEF Extended
  <2>2. jump \in 1 .. Len(c)
    BY DEF JumpFrom
  <2>3. jump \in 1 .. Len(c2)
    BY <2>1, <2>2
  <2>. QED
    BY <2>1, <2>2, <2>3
<1>3. SubSeq(s2, 1, n) = SubSeq(s, 1, n)
  <2>1. \A j \in 1 .. n : s2[j] = s[j]
    OBVIOUS
  <2>. QED
    BY <1>1, <2>1, SameBottom
<1>. QED
  BY <1>1, <1>2, <1>3 DEF JumpFrom

\* What items that wait, and blocks, find and leave.
InScope(items, t, c2, s, s2) ==
    /\ Base(t, s) <= Len(s2) /\ \A j \in 1 .. Base(t, s) : s2[j] = s[j]
    /\ \A n \in 1 .. Len(items) :
         /\ items[n].do \in Awaiting => /\ JumpFrom(c2, s2, items[n].jump, Len(s2))
                                        /\ LocalsAt(c2, items[n]) = Len(s2)
         /\ items[n].do = "stmts" => n = Len(items) /\ items[n].from = Base(t, s)
    /\ \/ \E n \in 1 .. Len(items) : items[n].do = "stmts"
       \/ Len(s2) = Base(t, s)
       \/ t[1].do \in Inner /\ Declarable(t)

\* The jumps that wait after the first item, when more has been emitted.
LEMMA WaitingStays ==
    ASSUME NEW t, NEW l, NEW c, NEW d, NEW s, Compiled(t, l, c, d, s), t # << >>,
           NEW items, NEW c2 \in Seq(Instructions), NEW d2, NEW s2 \in Seq(Nat),
           Extended(c, d, s, c2, d2, s2), InScope(items, t, c2, s, s2),
           NEW n \in 2 .. Len(t), t[n].do \in Awaiting \/ t[n].do = "stmts"
    PROVE  /\ LocalsAt(c2, t[n]) = LocalsAt(c, t[n])
           /\ t[n].do \in Awaiting => JumpFrom(c2, s2, t[n].jump, LocalsAt(c2, t[n]))
<1>1. /\ t \in Seq(Items) /\ c \in Seq(Instructions) /\ s \in Seq(Nat) /\ Scoped(t, c, s)
      /\ Len(c) \in Nat /\ Len(c2) \in Nat /\ n \in 1 .. Len(t)
  BY DEF Compiled
<1>. DEFINE b == Base(t, s)
<1>2. /\ b \in Nat /\ LocalsAt(c, t[n]) <= b
      /\ b <= Len(s2) /\ \A j \in 1 .. b : s2[j] = s[j]
  BY Based DEF InScope
<1>. HIDE DEF b
<1>3. CASE t[n].do = "stmts"
  BY <1>3 DEF LocalsAt, Awaiting
<1>4. CASE t[n].do \in Awaiting
  <2>1. /\ JumpFrom(c, s, t[n].jump, LocalsAt(c, t[n]))
        /\ LocalsAt(c, t[n]) = Len(c[t[n].jump].placed)
        /\ LocalsAt(c, t[n]) \in Nat
    BY <1>1, <1>4, WaitingFacts
  <2>2. /\ JumpFrom(c2, s2, t[n].jump, LocalsAt(c, t[n]))
        /\ c2[t[n].jump].placed = c[t[n].jump].placed
    <3>. DEFINE jump == t[n].jump
                e == LocalsAt(c, t[n])
    <3>1. JumpFrom(c, s, jump, e) /\ e \in Nat /\ e <= b
      BY <1>2, <2>1
    <3>. HIDE DEF jump, e
    <3>2. JumpFrom(c2, s2, jump, e) /\ c2[jump].placed = c[jump].placed
      BY <1>1, <1>2, <3>1, JumpFromStays
    <3>. QED
      BY <3>2 DEF jump, e
  <2>3. LocalsAt(c2, t[n]) = Len(c2[t[n].jump].placed)
    BY <1>4 DEF LocalsAt, Awaiting
  <2>. QED
    BY <2>1, <2>2, <2>3
<1>. QED
  BY <1>3, <1>4

LEMMA ScopedStep ==
    ASSUME NEW t, NEW l, NEW c, NEW d, NEW s, Compiled(t, l, c, d, s), t # << >>,
           NEW items \in Seq(Items), NEW c2 \in Seq(Instructions), NEW d2, NEW s2 \in Seq(Nat),
           Extended(c, d, s, c2, d2, s2), InScope(items, t, c2, s, s2)
    PROVE  Scoped(items \o Tail(t), c2, s2)
<1>. DEFINE r == items \o Tail(t)
            k == Len(items)
            b == Base(t, s)
            at(n) == (n + k) - 1
<1>0. t \in Seq(Items) /\ Scoped(t, c, s) /\ Len(s2) \in Nat
  BY DEF Compiled
<1>1. /\ Len(t) \in Nat \ {0} /\ k \in Nat /\ Len(r) \in Nat /\ Len(r) = k + Len(t) - 1
      /\ \A n \in 1 .. k : r[n] = items[n]
      /\ \A n \in 2 .. Len(t) : r[at(n)] = t[n]
      /\ \A n \in k + 1 .. Len(r) : (n - k) + 1 \in 2 .. Len(t) /\ r[n] = t[(n - k) + 1]
  BY <1>0, Replaced
<1>2. /\ b \in Nat /\ b <= Len(s2)
      /\ \A n \in 2 .. Len(t) :
           /\ t[n].do \in Awaiting \/ t[n].do = "stmts" => LocalsAt(c, t[n]) <= b
           /\ t[n].do \in Awaiting /\ Quiet(t, 2, n) => LocalsAt(c, t[n]) = b
           /\ n \in Whiles(t) => t[n].outer.locals <= b
  BY Based DEF InScope
<1>3. \A n \in 1 .. k :
        /\ items[n].do \in Awaiting => /\ JumpFrom(c2, s2, items[n].jump, Len(s2))
                                       /\ LocalsAt(c2, items[n]) = Len(s2)
        /\ items[n].do = "stmts" => n = k /\ items[n].from = b
  BY DEF InScope
<1>4. \A n \in 2 .. Len(t) :
        t[n].do \in Awaiting \/ t[n].do = "stmts" =>
          /\ LocalsAt(c2, t[n]) = LocalsAt(c, t[n])
          /\ t[n].do \in Awaiting => JumpFrom(c2, s2, t[n].jump, LocalsAt(c2, t[n]))
  BY WaitingStays
<1>5. \/ \E n \in 1 .. k : items[n].do = "stmts"
      \/ Len(s2) = b
      \/ t[1].do \in Inner /\ Declarable(t)
  BY DEF InScope
<1>. HIDE DEF r, k, b
<1>6. ASSUME NEW n \in 1 .. k
      PROVE  /\ r[n].do \in Awaiting => JumpFrom(c2, s2, r[n].jump, LocalsAt(c2, r[n]))
             /\ r[n].do \in Awaiting /\ Quiet(r, 1, n) => LocalsAt(c2, r[n]) = Len(s2)
             /\ r[n].do = "stmts" => r[n].from <= Len(s2)
             /\ \A m \in 1 .. n - 1 : r[m].do # "stmts"
  <2>1. r[n] = items[n]
    BY <1>1
  <2>2. ASSUME NEW m \in 1 .. n - 1 PROVE r[m].do # "stmts"
    <3>1. m \in 1 .. k /\ m # k /\ r[m] = items[m]
      BY <1>1
    <3>. QED
      BY <1>3, <3>1
  <2>. QED
    BY <1>2, <1>3, <2>1, <2>2
<1>7. ASSUME NEW n \in k + 1 .. Len(r)
      PROVE  /\ r[n].do \in Awaiting => JumpFrom(c2, s2, r[n].jump, LocalsAt(c2, r[n]))
             /\ r[n].do \in Awaiting /\ Quiet(r, 1, n) => LocalsAt(c2, r[n]) = Len(s2)
             /\ r[n].do = "stmts" => r[n].from <= Len(s2)
             /\ \A m \in 1 .. n - 1 :
                  r[m].do = "stmts" =>
                     /\ r[n].do \in Awaiting \/ r[n].do = "stmts" =>
                          LocalsAt(c2, r[n]) <= r[m].from
                     /\ r[n].do \in Awaiting /\ Quiet(r, m + 1, n) =>
                          LocalsAt(c2, r[n]) = r[m].from
                     /\ n \in Whiles(r) => r[n].outer.locals <= r[m].from
  <2>. DEFINE p == (n - k) + 1
  <2>0. n \in Nat /\ n \in 1 .. Len(r)
    BY <1>1
  <2>1. p \in 2 .. Len(t) /\ r[n] = t[p] /\ p \in 1 .. Len(t) /\ at(p) = n
    <3>1. p \in 2 .. Len(t) /\ r[n] = t[p]
      BY <1>1
    <3>2. p \in 1 .. Len(t)
      BY <1>1, <3>1
    <3>3. at(p) = n
      BY <1>1, <2>0
    <3>. QED
      BY <3>1, <3>2, <3>3
  <2>2. /\ t[p].do \in Awaiting \/ t[p].do = "stmts" =>
             LocalsAt(c2, t[p]) = LocalsAt(c, t[p]) /\ LocalsAt(c, t[p]) <= b
        /\ t[p].do \in Awaiting => JumpFrom(c2, s2, t[p].jump, LocalsAt(c2, t[p]))
        /\ n \in Whiles(r) => p \in Whiles(t)
    BY <1>2, <1>4, <2>1 DEF Whiles
  <2>3. ASSUME NEW q \in 2 .. p PROVE at(q) \in k + 1 .. n /\ r[at(q)] = t[q]
    BY <1>1, <2>1
  <2>4. ASSUME NEW m \in 1 .. k + 1, Quiet(r, m, n) PROVE Quiet(t, 2, p)
    <3>1. ASSUME NEW q \in 2 .. p PROVE t[q].do # "stmts"
      <4>1. at(q) \in m .. n
        BY <1>1, <2>3
      <4>. QED
        BY <2>3, <2>4, <4>1 DEF Quiet
    <3>. QED
      BY <3>1 DEF Quiet
  <2>. HIDE DEF p
  <2>5. ASSUME t[p].do \in Awaiting, Quiet(r, 1, n) PROVE LocalsAt(c2, t[p]) = Len(s2)
    <3>1. Quiet(t, 2, p)
      BY <1>1, <2>4, <2>5
    <3>2. ~\E m \in 1 .. k : items[m].do = "stmts"
      <4>1. \A m \in 1 .. k : m \in 1 .. n /\ r[m] = items[m]
        BY <1>1
      <4>. QED
        BY <2>5, <4>1 DEF Quiet
    <3>3. ~(t[1].do \in Inner /\ Declarable(t))
      BY <1>0, <2>1, <2>5, <3>1, DeclarableBlock
    <3>. QED
      BY <1>2, <1>5, <2>1, <2>2, <2>5, <3>1, <3>2, <3>3
  <2>6. ASSUME t[p].do = "stmts" PROVE t[p].from <= Len(s2)
    <3>1. LocalsAt(c2, t[p]) = t[p].from /\ t[p].from \in Nat
      BY <1>0, <2>1, <2>6, TodoFacts DEF LocalsAt
    <3>. QED
      BY <1>2, <2>2, <2>6, <3>1
  <2>7. ASSUME NEW m \in 1 .. n - 1, r[m].do = "stmts"
        PROVE  /\ t[p].do \in Awaiting \/ t[p].do = "stmts" => LocalsAt(c2, t[p]) <= r[m].from
               /\ t[p].do \in Awaiting /\ Quiet(r, m + 1, n) => LocalsAt(c2, t[p]) = r[m].from
               /\ n \in Whiles(r) => t[p].outer.locals <= r[m].from
    <3>1. CASE m <= k
      <4>1. m = k /\ r[m].from = b
        <5>1. m \in 1 .. k /\ r[m] = items[m]
          BY <1>1, <3>1
        <5>. QED
          BY <1>3, <2>7, <5>1
      <4>2. ASSUME t[p].do \in Awaiting, Quiet(r, m + 1, n)
            PROVE  LocalsAt(c2, t[p]) = b
        <5>1. m + 1 \in 1 .. k + 1
          BY <1>1, <4>1
        <5>2. Quiet(t, 2, p)
          BY <2>4, <4>2, <5>1
        <5>3. LocalsAt(c, t[p]) = b
          BY <1>2, <2>1, <4>2, <5>2
        <5>. QED
          BY <2>2, <4>2, <5>3
      <4>. QED
        BY <1>2, <2>1, <2>2, <4>1, <4>2
    <3>2. CASE ~(m <= k)
      <4>. DEFINE q == (m - k) + 1
      <4>0. m \in k + 1 .. Len(r) /\ m \in Nat
        BY SMTT(30), <1>1, <2>0, <3>2
      <4>1. q \in 2 .. Len(t) /\ q \in 1 .. p - 1 /\ r[m] = t[q] /\ at(q) = m
        <5>1. q \in 2 .. Len(t) /\ r[m] = t[q]
          BY <1>1, <4>0
        <5>2. q \in 1 .. p - 1
          BY <1>1, <2>0, <4>0 DEF p
        <5>3. at(q) = m
          BY <1>1, <4>0
        <5>. QED
          BY <5>1, <5>2, <5>3
      <4>2. ASSUME Quiet(r, m + 1, n) PROVE Quiet(t, q + 1, p)
        <5>1. ASSUME NEW j \in q + 1 .. p PROVE t[j].do # "stmts"
          <6>1. j \in 2 .. p
            BY <1>1, <2>1, <4>1, SMTT(30)
          <6>2. at(j) \in m + 1 .. n
            BY <1>1, <2>0, <2>1, <4>0, <4>1, <6>1
          <6>. QED
            BY <2>3, <4>2, <6>1, <6>2 DEF Quiet
        <5>. QED
          BY <5>1 DEF Quiet
      <4>. HIDE DEF q
      <4>3. /\ t[p].do \in Awaiting \/ t[p].do = "stmts" => LocalsAt(c, t[p]) <= t[q].from
            /\ t[p].do \in Awaiting /\ Quiet(t, q + 1, p) => LocalsAt(c, t[p]) = t[q].from
            /\ p \in Whiles(t) => t[p].outer.locals <= t[q].from
        BY <1>0, <2>1, <2>7, <4>1 DEF Scoped
      <4>. QED
        BY <2>2, <4>1, <4>2, <4>3
    <3>. QED
      BY <3>1, <3>2
  <2>. QED
    BY <2>1, <2>2, <2>5, <2>6, <2>7
<1>8. \A n \in 1 .. Len(r) : n \in 1 .. k \/ n \in k + 1 .. Len(r)
  BY <1>1
<1>9. Scoped(r, c2, s2)
  BY <1>6, <1>7, <1>8 DEF Scoped
<1>. QED
  BY <1>9 DEF r

--------------------------------------------------------------------------------
(* Loops *)

Outers(t) == {t[n].outer : n \in Whiles(t)}

LEMMA LoopKept ==
    ASSUME NEW t, NEW l, NEW c, NEW d, NEW s, Compiled(t, l, c, d, s), t # << >>,
           NEW items, NEW c2 \in Seq(Instructions), NEW d2, NEW s2 \in Seq(Nat),
           Extended(c, d, s, c2, d2, s2), InScope(items, t, c2, s, s2),
           NEW k \in {l} \cup Outers(t)
    PROVE  /\ k \in Loops /\ k.locals \in Nat /\ k.locals <= Base(t, s)
           /\ LoopSound(c2, d2, s2, k)
<1>. DEFINE b == Base(t, s)
<1>1. /\ t \in Seq(Items) /\ l \in Loops /\ s \in Seq(Nat) /\ LoopsSound(t, l, c, d, s)
      /\ Len(c) \in Nat /\ Len(c2) \in Nat /\ Len(s) \in Nat /\ Len(s2) \in Nat /\ Len(t) \in Nat
  BY DEF Compiled
<1>2. /\ b \in Nat /\ b <= Len(s) /\ l.locals <= b /\ b <= Len(s2)
      /\ \A j \in 1 .. b : s2[j] = s[j]
      /\ \A n \in 2 .. Len(t) : n \in Whiles(t) => t[n].outer.locals <= b
  BY Based DEF InScope
<1>3. k \in Loops /\ LoopSound(c, d, s, k)
  BY <1>1, TodoFacts DEF LoopsSound, Whiles, Outers
<1>4. k.locals \in Nat
  BY <1>3, LoopFacts
<1>5. k.locals <= b
  <2>1. CASE k = l
    BY <1>2, <2>1
  <2>2. CASE k # l
    <3>1. PICK n \in Whiles(t) : k = t[n].outer
      BY <2>2 DEF Outers
    <3>2. CASE n \in 2 .. Len(t)
      BY <1>2, <3>1, <3>2
    <3>3. CASE n \notin 2 .. Len(t)
      <4>1. n = 1
        BY <1>1, <3>1, <3>3 DEF Whiles
      <4>2. t[1].do # "stmts"
        BY <3>1, <4>1 DEF Whiles
      <4>3. b = Len(s)
        BY <4>2 DEF Base
      <4>. QED
        BY <1>1, <1>3, <4>3, LoopFacts DEF LoopSound
    <3>. QED
      BY <3>2, <3>3
  <2>. QED
    BY <2>1, <2>2
<1>. HIDE DEF b
<1>6. ASSUME k # NoLoop
      PROVE  /\ k.inside
             /\ k.start \in 1 .. Len(c2) + 1 /\ k.locals <= Len(s2)
             /\ Height(c2, d2, k.start) = k.locals
             /\ Placed(c2, s2, k.start) = SubSeq(s2, 1, k.locals)
             /\ \A j \in k.breaks : JumpFrom(c2, s2, j, k.locals) /\ c2[j].op = "jump"
  <2>1. /\ k.inside
        /\ k.start \in 1 .. Len(c) + 1 /\ k.locals <= Len(s)
        /\ Height(c, d, k.start) = k.locals
        /\ Placed(c, s, k.start) = SubSeq(s, 1, k.locals)
        /\ \A j \in k.breaks : JumpFrom(c, s, j, k.locals) /\ c[j].op = "jump"
    BY <1>3, <1>6 DEF LoopSound
  <2>2. /\ Len(c) <= Len(c2)
        /\ \A n \in 1 .. Len(c) + 1 :
             Height(c2, d2, n) = Height(c, d, n) /\ Placed(c2, s2, n) = Placed(c, s, n)
    BY DEF Extended
  <2>3. k.start \in 1 .. Len(c2) + 1 /\ k.locals <= Len(s2)
    BY <1>1, <1>2, <1>4, <1>5, <2>1, <2>2
  <2>4. SubSeq(s2, 1, k.locals) = SubSeq(s, 1, k.locals)
    <3>1. \A j \in 1 .. k.locals : s2[j] = s[j]
      BY <1>2, <1>4, <1>5
    <3>. QED
      BY <1>1, <1>4, <2>1, <2>3, <3>1, SameBottom
  <2>5. ASSUME NEW j \in k.breaks
        PROVE  JumpFrom(c2, s2, j, k.locals) /\ c2[j].op = "jump"
    <3>. DEFINE e == k.locals
    <3>1. JumpFrom(c, s, j, e) /\ c[j].op = "jump" /\ e \in Nat /\ e <= b
      BY <1>4, <1>5, <2>1
    <3>. HIDE DEF e
    <3>2. JumpFrom(c2, s2, j, e) /\ c2[j].op = c[j].op
      BY <1>1, <1>2, <3>1, JumpFromStays
    <3>. QED
      BY <3>1, <3>2 DEF e
  <2>. QED
    BY <2>1, <2>2, <2>3, <2>4, <2>5
<1>7. LoopSound(c2, d2, s2, k)
  BY <1>6 DEF LoopSound
<1>. QED
  BY <1>3, <1>4, <1>5, <1>7 DEF b

\* The loops that are left after the first item has been replaced.
LEMMA WhilesStep ==
    ASSUME NEW t \in Seq(Items), t # << >>, NEW items \in Seq(Items)
    PROVE  /\ \A n \in 2 .. Len(t) :
                (n + Len(items)) - 1 \in Whiles(items \o Tail(t)) <=> n \in Whiles(t)
           /\ \A m \in Whiles(items \o Tail(t)) :
                \/ m \in Whiles(items) /\ (items \o Tail(t))[m] = items[m]
                \/ \E n \in 2 .. Len(t) : /\ n \in Whiles(t) /\ m = (n + Len(items)) - 1
                                          /\ (items \o Tail(t))[m] = t[n]
           /\ \A m \in Whiles(items) : m \in Whiles(items \o Tail(t))
<1>. DEFINE r == items \o Tail(t)
            k == Len(items)
            at(n) == (n + k) - 1
<1>1. /\ Len(t) \in Nat \ {0} /\ k \in Nat /\ Len(r) \in Nat /\ Len(r) = k + Len(t) - 1
      /\ \A n \in 1 .. k : r[n] = items[n]
      /\ \A n \in 2 .. Len(t) : r[at(n)] = t[n]
      /\ \A n \in k + 1 .. Len(r) : (n - k) + 1 \in 2 .. Len(t) /\ r[n] = t[(n - k) + 1]
  BY Replaced
<1>. HIDE DEF r
<1>2. ASSUME NEW n \in 2 .. Len(t) PROVE at(n) \in Whiles(r) <=> n \in Whiles(t)
  <2>1. n \in 1 .. Len(t) /\ at(n) \in 1 .. Len(r) /\ r[at(n)] = t[n]
    BY <1>1
  <2>. HIDE DEF at
  <2>. QED
    BY <2>1 DEF Whiles
<1>3. ASSUME NEW m \in Whiles(r)
      PROVE  \/ m \in Whiles(items) /\ r[m] = items[m]
             \/ \E n \in 2 .. Len(t) : n \in Whiles(t) /\ m = at(n) /\ r[m] = t[n]
  <2>1. m \in 1 .. Len(r) /\ r[m].do \in {"whileBody", "endWhile"}
    BY DEF Whiles
  <2>2. CASE m <= k
    <3>1. m \in 1 .. k /\ r[m] = items[m]
      BY <1>1, <2>1, <2>2
    <3>. QED
      BY <2>1, <3>1 DEF Whiles
  <2>3. CASE ~(m <= k)
    <3>. DEFINE n == (m - k) + 1
    <3>1. n \in 2 .. Len(t) /\ r[m] = t[n]
      BY <1>1, <2>1, <2>3
    <3>2. at(n) = m
      BY <1>1, <2>1
    <3>3. n \in 1 .. Len(t)
      BY <1>1, <3>1
    <3>. HIDE DEF n, at
    <3>4. n \in Whiles(t)
      BY <2>1, <3>1, <3>3 DEF Whiles
    <3>. QED
      BY <3>1, <3>2, <3>4
  <2>. QED
    BY <2>2, <2>3
<1>4. ASSUME NEW m \in Whiles(items) PROVE m \in Whiles(r)
  <2>1. m \in 1 .. k /\ items[m].do \in {"whileBody", "endWhile"}
    BY DEF Whiles
  <2>2. m \in 1 .. Len(r) /\ r[m] = items[m]
    BY <1>1, <2>1
  <2>. QED
    BY <2>1, <2>2 DEF Whiles
<1>. QED
  BY <1>2, <1>3, <1>4 DEF r

LEMMA LoopsStep ==
    ASSUME NEW t, NEW l, NEW c, NEW d, NEW s, Compiled(t, l, c, d, s), t # << >>,
           NEW items \in Seq(Items), NEW c2 \in Seq(Instructions), NEW d2, NEW s2 \in Seq(Nat),
           Extended(c, d, s, c2, d2, s2), InScope(items, t, c2, s, s2),
           \A n \in Whiles(items) : items[n].outer \in {l} \cup Outers(t),
           NEW l2, LoopSound(c2, d2, s2, l2)
    PROVE  LoopsSound(items \o Tail(t), l2, c2, d2, s2)
<1>. DEFINE r == items \o Tail(t)
<1>1. t \in Seq(Items)
  BY DEF Compiled
<1>2. \A m \in Whiles(r) :
        \/ m \in Whiles(items) /\ r[m] = items[m]
        \/ \E n \in 2 .. Len(t) : n \in Whiles(t) /\ r[m] = t[n]
  BY <1>1, WhilesStep
<1>. HIDE DEF r
<1>3. \A m \in Whiles(r) : r[m].outer \in {l} \cup Outers(t)
  BY <1>2 DEF Outers
<1>4. \A k \in {l} \cup Outers(t) : LoopSound(c2, d2, s2, k)
  BY LoopKept
<1>5. LoopsSound(r, l2, c2, d2, s2)
  BY <1>3, <1>4 DEF LoopsSound
<1>. QED
  BY <1>5 DEF r

\* The loop that the compiler will be in after the first item.
Onward(t, l) == IF t[1].do \in {"whileBody", "endWhile"} THEN t[1].outer ELSE l

LEMMA OnwardAround ==
    ASSUME NEW t \in Seq(Items), t # << >>, NEW l, NEW c, NEW s, Nested(t, l, c, s)
    PROVE  /\ Onward(t, l) \in {l} \cup Outers(t)
           /\ \A n \in 2 .. Len(t) :
                (\A m \in 2 .. n - 1 : m \notin Whiles(t)) => Around(t, l, Onward(t, l), n)
           /\ (\A n \in 2 .. Len(t) : n \notin Whiles(t)) => Onward(t, l) = NoLoop
<1>. DEFINE e == Onward(t, l)
<1>1. Len(t) \in Nat \ {0} /\ 1 \in 1 .. Len(t)
  OBVIOUS
<1>2. \A n \in Whiles(t) : n = 1 \/ n \in 2 .. Len(t)
  BY <1>1 DEF Whiles
<1>3. CASE 1 \in Whiles(t)
  <2>1. e = t[1].outer
    BY <1>3 DEF Onward, Whiles
  <2>2. ASSUME NEW n \in 2 .. Len(t), \A m \in 2 .. n - 1 : m \notin Whiles(t)
        PROVE  Around(t, l, e, n)
    <3>1. 1 < n /\ 1 + 1 = 2
      OBVIOUS
    <3>. HIDE DEF e
    <3>. QED
      BY <1>3, <2>1, <2>2, <3>1 DEF Around
  <2>3. ASSUME \A n \in 2 .. Len(t) : n \notin Whiles(t) PROVE e = NoLoop
    <3>1. \A m \in Whiles(t) : m <= 1
      BY <1>2, <2>3
    <3>. QED
      BY <1>3, <2>1, <3>1 DEF Nested
  <2>. QED
    BY <1>3, <2>1, <2>2, <2>3 DEF Outers
<1>4. CASE 1 \notin Whiles(t)
  <2>1. e = l
    BY <1>1, <1>4 DEF Onward, Whiles
  <2>2. ASSUME NEW n \in 2 .. Len(t), \A m \in 2 .. n - 1 : m \notin Whiles(t)
        PROVE  Around(t, l, e, n)
    <3>1. \A m \in 1 .. n - 1 : m = 1 \/ m \in 2 .. n - 1
      OBVIOUS
    <3>. HIDE DEF e
    <3>. QED
      BY <1>4, <2>1, <2>2, <3>1 DEF Around
  <2>3. ASSUME \A n \in 2 .. Len(t) : n \notin Whiles(t) PROVE e = NoLoop
    <3>1. Whiles(t) = {}
      BY <1>2, <1>4, <2>3
    <3>. QED
      BY <2>1, <3>1 DEF Nested
  <2>. QED
    BY <2>1, <2>2, <2>3
<1>. QED
  BY <1>3, <1>4

\* Either the compiler goes on to the loop it would have been in, or to a new one inside it.
InLoop(items, t, l, l2, s2) ==
    \/ /\ Whiles(items) = {}
       /\ l2.locals = Onward(t, l).locals /\ l2.inside = Onward(t, l).inside
       /\ Onward(t, l) = NoLoop => l2 = NoLoop
    \/ /\ Len(items) = 2 /\ Whiles(items) = {2} /\ items[1].do # "stmts"
       /\ items[2].outer = Onward(t, l)
       /\ l2.inside /\ l2.locals = Len(s2)

LEMMA AroundStep ==
    ASSUME NEW t \in Seq(Items), t # << >>, NEW l, NEW c, NEW s, Nested(t, l, c, s),
           NEW items \in Seq(Items), NEW l2, NEW s2, InLoop(items, t, l, l2, s2),
           NEW n \in 2 .. Len(t), NEW k, Around(items \o Tail(t), l2, k, (n + Len(items)) - 1)
    PROVE  \E k0 \in {l} \cup Outers(t) :
              Around(t, l, k0, n) /\ k0.locals = k.locals /\ k0.inside = k.inside
<1>. DEFINE r == items \o Tail(t)
            z == Len(items)
            at(m) == (m + z) - 1
            e == Onward(t, l)
<1>1. Len(t) \in Nat \ {0} /\ z \in Nat /\ n \in Nat
  OBVIOUS
<1>2. /\ \A m \in 2 .. Len(t) : at(m) \in Whiles(r) <=> m \in Whiles(t)
      /\ \A m \in Whiles(r) :
           \/ m \in Whiles(items) /\ r[m] = items[m]
           \/ \E p \in 2 .. Len(t) : p \in Whiles(t) /\ m = at(p) /\ r[m] = t[p]
      /\ \A m \in Whiles(items) : m \in Whiles(r)
  BY WhilesStep
<1>3. /\ e \in {l} \cup Outers(t)
      /\ (\A m \in 2 .. n - 1 : m \notin Whiles(t)) => Around(t, l, e, n)
  BY OnwardAround
<1>. HIDE DEF r, e
<1>4. \/ k = l2 /\ \A m \in 1 .. at(n) - 1 : m \notin Whiles(r)
      \/ \E w \in Whiles(r) : /\ w < at(n) /\ k = r[w].outer
                              /\ \A m \in w + 1 .. at(n) - 1 : m \notin Whiles(r)
  BY DEF Around, r
<1>5. ASSUME NEW w \in Nat, w <= z, \A m \in w + 1 .. at(n) - 1 : m \notin Whiles(r)
      PROVE  Around(t, l, e, n)
  <2>1. ASSUME NEW m \in 2 .. n - 1 PROVE m \notin Whiles(t)
    <3>1. m \in 2 .. Len(t) /\ at(m) \in w + 1 .. at(n) - 1
      BY <1>1, <1>5
    <3>. HIDE DEF at
    <3>. QED
      BY <1>2, <1>5, <3>1
  <2>. QED
    BY <1>3, <2>1
<1>6. CASE k = l2 /\ \A m \in 1 .. at(n) - 1 : m \notin Whiles(r)
  <2>1. Around(t, l, e, n)
    BY <1>1, <1>5, <1>6
  <2>2. Whiles(items) = {}
    <3>1. ASSUME NEW m \in Whiles(items) PROVE FALSE
      <4>1. m \in 1 .. z
        BY DEF Whiles
      <4>2. m \in 1 .. at(n) - 1
        BY <1>1, <4>1
      <4>. QED
        BY <1>2, <1>6, <4>2
    <3>. QED
      BY <3>1
  <2>3. l2.locals = e.locals /\ l2.inside = e.inside
    BY <2>2 DEF InLoop, e
  <2>. QED
    BY <1>3, <1>6, <2>1, <2>3
<1>7. CASE \E w \in Whiles(r) : /\ w < at(n) /\ k = r[w].outer
                                /\ \A m \in w + 1 .. at(n) - 1 : m \notin Whiles(r)
  <2>1. PICK w \in Whiles(r) : /\ w < at(n) /\ k = r[w].outer
                               /\ \A m \in w + 1 .. at(n) - 1 : m \notin Whiles(r)
    BY <1>7
  <2>2. CASE w \in Whiles(items) /\ r[w] = items[w]
    <3>1. k = e
      BY <2>1, <2>2 DEF InLoop, e
    <3>2. w \in 1 .. z
      BY <2>2 DEF Whiles
    <3>3. Around(t, l, e, n)
      BY <1>1, <1>5, <2>1, <3>2
    <3>. QED
      BY <1>3, <3>1, <3>3
  <2>3. CASE \E p \in 2 .. Len(t) : p \in Whiles(t) /\ w = at(p) /\ r[w] = t[p]
    <3>1. PICK p \in 2 .. Len(t) : p \in Whiles(t) /\ w = at(p) /\ r[w] = t[p]
      BY <2>3
    <3>2. p < n
      BY <1>1, <2>1, <3>1
    <3>3. ASSUME NEW m \in p + 1 .. n - 1 PROVE m \notin Whiles(t)
      <4>1. m \in 2 .. Len(t) /\ at(m) \in w + 1 .. at(n) - 1
        BY <1>1, <3>1
      <4>. HIDE DEF at
      <4>. QED
        BY <1>2, <2>1, <4>1
    <3>4. Around(t, l, k, n)
      BY <2>1, <3>1, <3>2, <3>3 DEF Around
    <3>5. k \in Outers(t)
      BY <2>1, <3>1 DEF Outers
    <3>. QED
      BY <3>4, <3>5
  <2>. QED
    BY <1>2, <2>2, <2>3
<1>. QED
  BY <1>4, <1>6, <1>7

LEMMA NestedStep ==
    ASSUME NEW t, NEW l, NEW c, NEW d, NEW s, Compiled(t, l, c, d, s), t # << >>,
           NEW items \in Seq(Items), NEW c2 \in Seq(Instructions), NEW d2, NEW s2 \in Seq(Nat),
           Extended(c, d, s, c2, d2, s2),
           InOrder(items, t, s, s2), InScope(items, t, c2, s, s2),
           NEW l2, InLoop(items, t, l, l2, s2)
    PROVE  Nested(items \o Tail(t), l2, c2, s2)
<1>. DEFINE r == items \o Tail(t)
            z == Len(items)
            at(m) == (m + z) - 1
            e == Onward(t, l)
<1>0. /\ t \in Seq(Items) /\ Nested(t, l, c, s) /\ Ordered(t, s)
      /\ Len(s) \in Nat /\ Len(s2) \in Nat
  BY DEF Compiled
<1>1. /\ Len(t) \in Nat \ {0} /\ z \in Nat /\ Len(r) \in Nat /\ Len(r) = z + Len(t) - 1
      /\ \A n \in 1 .. z : r[n] = items[n]
      /\ \A n \in 2 .. Len(t) : r[at(n)] = t[n]
      /\ \A n \in z + 1 .. Len(r) : (n - z) + 1 \in 2 .. Len(t) /\ r[n] = t[(n - z) + 1]
  BY <1>0, Replaced
<1>2. /\ \A m \in 2 .. Len(t) : at(m) \in Whiles(r) <=> m \in Whiles(t)
      /\ \A m \in Whiles(r) :
           \/ m \in Whiles(items) /\ r[m] = items[m]
           \/ \E p \in 2 .. Len(t) : p \in Whiles(t) /\ m = at(p) /\ r[m] = t[p]
      /\ \A m \in Whiles(items) : m \in Whiles(r)
  BY <1>0, WhilesStep
<1>3. /\ e \in {l} \cup Outers(t)
      /\ (\A n \in 2 .. Len(t) : n \notin Whiles(t)) => e = NoLoop
  BY <1>0, OnwardAround
<1>4. ASSUME NEW n \in 2 .. Len(t), NEW k, Around(r, l2, k, at(n))
      PROVE  \E k0 \in {l} \cup Outers(t) :
                Around(t, l, k0, n) /\ k0.locals = k.locals /\ k0.inside = k.inside
  <2>1. Around(items \o Tail(t), l2, k, (n + Len(items)) - 1)
    BY <1>4
  <2>. HIDE DEF r, z, at, e
  <2>. QED
    BY <1>0, <2>1, AroundStep, SMTT(30)
<1>. HIDE DEF r, e
<1>5. Whiles(r) = {} => l2 = NoLoop
  <2>. SUFFICES ASSUME Whiles(r) = {} PROVE l2 = NoLoop
    OBVIOUS
  <2>1. e = NoLoop
    BY <1>2, <1>3
  <2>2. Whiles(items) = {}
    BY <1>2
  <2>. QED
    BY <2>1, <2>2 DEF InLoop, e
<1>6. ASSUME NEW n \in Whiles(r), \A m \in Whiles(r) : m <= n PROVE r[n].outer = NoLoop
  <2>1. CASE n \in Whiles(items) /\ r[n] = items[n]
    <3>1. n \in 1 .. z
      BY <2>1 DEF Whiles
    <3>2. r[n].outer = e
      BY <2>1 DEF InLoop, e
    <3>3. n = z
      BY <2>1 DEF InLoop
    <3>4. ASSUME NEW m \in 2 .. Len(t), m \in Whiles(t) PROVE FALSE
      <4>1. at(m) \in Whiles(r)
        BY <1>2, <3>4
      <4>2. at(m) <= n
        BY <1>6, <4>1
      <4>. QED
        BY <1>1, <3>3, <4>2
    <3>. QED
      BY <1>3, <3>2, <3>4
  <2>2. CASE \E p \in 2 .. Len(t) : p \in Whiles(t) /\ n = at(p) /\ r[n] = t[p]
    <3>1. PICK p \in 2 .. Len(t) : p \in Whiles(t) /\ n = at(p) /\ r[n] = t[p]
      BY <2>2
    <3>2. ASSUME NEW m \in Whiles(t) PROVE m <= p
      <4>1. m \in 1 .. Len(t)
        BY DEF Whiles
      <4>2. CASE m = 1
        BY <4>2
      <4>3. CASE m # 1
        <5>1. m \in 2 .. Len(t)
          BY <1>1, <4>1, <4>3
        <5>2. at(m) <= n
          BY <1>2, <1>6, <5>1
        <5>. QED
          BY <1>1, <3>1, <5>1, <5>2
      <4>. QED
        BY <4>2, <4>3
    <3>. QED
      BY <1>0, <3>1, <3>2 DEF Nested
  <2>. QED
    BY <1>2, <2>1, <2>2
<1>7. ASSUME NEW n \in 1 .. z, NEW k, Around(r, l2, k, n)
      PROVE  /\ r[n].do = "stmts" => k.locals <= r[n].from
             /\ r[n].do = "endWhile" => k.inside /\ k.locals = LocalsAt(c2, r[n])
             /\ r[n].do = "whileBody" => k.inside /\ k.locals = Len(s2)
  <2>1. r[n] = items[n]
    BY <1>1
  <2>2. n \notin Whiles(items) => n \notin Whiles(r) /\ r[n].do \notin {"endWhile", "whileBody"}
    BY <2>1 DEF Whiles, r
  <2>3. CASE /\ Whiles(items) = {}
             /\ l2.locals = e.locals /\ l2.inside = e.inside
    <3>1. \A w \in Whiles(r) : ~(w < n)
      <4>1. SUFFICES ASSUME NEW w \in Whiles(r), w < n PROVE FALSE
        OBVIOUS
      <4>2. PICK p \in 2 .. Len(t) : w = at(p)
        BY <1>2, <2>3
      <4>. QED
        BY <1>1, <4>1, <4>2
    <3>2. k = l2
      BY <1>7, <3>1 DEF Around
    <3>3. r[n].do = "stmts" => k.locals <= r[n].from
      <4>1. e.locals <= Base(t, s)
        BY <1>3, LoopKept
      <4>2. r[n].do = "stmts" => r[n].from = Base(t, s)
        BY <2>1 DEF InScope
      <4>. QED
        BY <2>3, <3>2, <4>1, <4>2
    <3>. QED
      BY <2>2, <2>3, <3>3
  <2>4. CASE /\ z = 2 /\ Whiles(items) = {2} /\ items[1].do # "stmts"
             /\ l2.inside /\ l2.locals = Len(s2)
    <3>1. n \in {1, 2} /\ 2 \in Whiles(r)
      BY <1>2, <2>4
    <3>2. \A w \in Whiles(r) : ~(w < n)
      <4>1. SUFFICES ASSUME NEW w \in Whiles(r), w < n PROVE FALSE
        OBVIOUS
      <4>2. w # 2
        BY <3>1, <4>1
      <4>3. PICK p \in 2 .. Len(t) : w = at(p)
        BY <1>2, <2>4, <4>2
      <4>. QED
        BY <1>1, <2>4, <3>1, <4>1, <4>3
    <3>3. k = l2
      BY <1>7, <3>2 DEF Around
    <3>4. r[n].do = "endWhile" => LocalsAt(c2, r[n]) = Len(s2)
      BY <2>1 DEF InScope, Awaiting
    <3>5. r[n].do # "stmts"
      BY <2>1, <2>4, <3>1 DEF Whiles
    <3>. QED
      BY <2>4, <3>3, <3>4, <3>5
  <2>. QED
    BY <2>3, <2>4 DEF InLoop, e
<1>8. ASSUME NEW n \in 2 .. Len(t), NEW k, Around(r, l2, k, at(n))
      PROVE  /\ t[n].do = "stmts" => k.locals <= t[n].from
             /\ t[n].do = "endWhile" => k.inside /\ k.locals = LocalsAt(c2, t[n])
             /\ t[n].do = "whileBody" => k.inside /\ k.locals = Len(s2)
  <2>1. PICK k0 \in {l} \cup Outers(t) :
          Around(t, l, k0, n) /\ k0.locals = k.locals /\ k0.inside = k.inside
    BY <1>4, <1>8
  <2>2. n \in 1 .. Len(t) /\ 1 \in 1 .. n - 1
    BY <1>1
  <2>3. /\ t[n].do = "stmts" => k0.locals <= t[n].from
        /\ t[n].do = "endWhile" => k0.inside /\ k0.locals = LocalsAt(c, t[n])
        /\ t[n].do = "whileBody" => k0.inside /\ k0.locals = Len(s)
    BY <1>0, <2>1, <2>2 DEF Nested, Outers
  <2>4. t[n].do = "endWhile" => LocalsAt(c2, t[n]) = LocalsAt(c, t[n])
    BY WaitingStays DEF Awaiting
  <2>5. ASSUME t[n].do = "whileBody" PROVE Len(s2) = Len(s)
    <3>1. \A m \in 1 .. n - 1 : t[m].do \in Inner
      BY <1>0, <2>2, <2>5 DEF Ordered
    <3>2. t[1].do \in Inner
      BY <2>2, <3>1
    <3>3. ~Declarable(t)
      BY <1>0, <2>5, <3>1, <3>2, DeclarableBlock
    <3>4. \A m \in 1 .. z : items[m].do # "stmts"
      BY <3>2 DEF InOrder, Inner
    <3>5. Base(t, s) = Len(s)
      BY <3>2 DEF Base, Inner
    <3>. QED
      BY <3>3, <3>4, <3>5 DEF InScope
  <2>. QED
    BY <2>1, <2>3, <2>4, <2>5
<1>9. ASSUME NEW n \in 1 .. Len(r), NEW k, Around(r, l2, k, n)
      PROVE  /\ r[n].do = "stmts" => k.locals <= r[n].from
             /\ r[n].do = "endWhile" => k.inside /\ k.locals = LocalsAt(c2, r[n])
             /\ r[n].do = "whileBody" => k.inside /\ k.locals = Len(s2)
  <2>1. CASE n <= z
    <3>1. n \in 1 .. z
      BY <1>1, <2>1
    <3>. QED
      BY <1>7, <1>9, <3>1
  <2>2. CASE ~(n <= z)
    <3>. DEFINE p == (n - z) + 1
    <3>0. n \in z + 1 .. Len(r)
      BY <1>1, <2>2
    <3>1. p \in 2 .. Len(t) /\ r[n] = t[p]
      BY <1>1, <3>0
    <3>2. at(p) = n
      BY <1>1
    <3>. HIDE DEF p, at
    <3>. QED
      BY <1>8, <1>9, <3>1, <3>2
  <2>. QED
    BY <2>1, <2>2
<1>10. Nested(r, l2, c2, s2)
  BY <1>5, <1>6, <1>9 DEF Nested
<1>. QED
  BY <1>10 DEF r

\* Of the jumps that are not patched yet, only those of the first item may be missing.
LEMMA UnfinishedStep ==
    ASSUME NEW t \in Seq(Items), t # << >>, NEW l, NEW items \in Seq(Items), NEW l2, NEW jumps,
           \A j \in l.breaks : j \in Unfinished(items \o Tail(t), l2) \cup jumps,
           t[1].do \in {"whileBody", "endWhile"} =>
             \A j \in t[1].outer.breaks : j \in Unfinished(items \o Tail(t), l2) \cup jumps,
           t[1].do \in Awaiting => t[1].jump \in Unfinished(items \o Tail(t), l2) \cup jumps
    PROVE  Unfinished(t, l) \subseteq Unfinished(items \o Tail(t), l2) \cup jumps
<1>. DEFINE r == items \o Tail(t)
            z == Len(items)
            at(m) == (m + z) - 1
<1>1. /\ Len(t) \in Nat \ {0} /\ z \in Nat /\ Len(r) \in Nat /\ Len(r) = z + Len(t) - 1
      /\ \A n \in 2 .. Len(t) : r[at(n)] = t[n]
  BY Replaced
<1>2. \A m \in 2 .. Len(t) : at(m) \in Whiles(r) <=> m \in Whiles(t)
  BY WhilesStep
<1>. HIDE DEF r
<1>3. ASSUME NEW n \in 1 .. Len(t)
      PROVE  n = 1 \/ (n \in 2 .. Len(t) /\ at(n) \in 1 .. Len(r) /\ r[at(n)] = t[n])
  BY <1>1
<1>. HIDE DEF at
<1>4. ASSUME NEW n \in Whiles(t), NEW j \in t[n].outer.breaks PROVE j \in Unfinished(r, l2) \cup jumps
  <2>1. n \in 1 .. Len(t) /\ t[n].do \in {"whileBody", "endWhile"}
    BY DEF Whiles
  <2>2. CASE n = 1
    BY <1>4, <2>1, <2>2 DEF r
  <2>3. CASE n # 1
    <3>1. n \in 2 .. Len(t) /\ r[at(n)] = t[n]
      BY <1>3, <2>1, <2>3
    <3>2. at(n) \in Whiles(r)
      BY <1>2, <3>1
    <3>3. j \in r[at(n)].outer.breaks
      BY <1>4, <3>1
    <3>. QED
      BY <3>2, <3>3 DEF Unfinished
  <2>. QED
    BY <2>2, <2>3
<1>5. ASSUME NEW n \in 1 .. Len(t), t[n].do \in Awaiting
      PROVE  t[n].jump \in Unfinished(r, l2) \cup jumps
  <2>1. CASE n = 1
    BY <1>5, <2>1 DEF r
  <2>2. CASE n # 1
    BY <1>3, <1>5, <2>2 DEF Unfinished
  <2>. QED
    BY <2>1, <2>2
<1>6. ASSUME NEW j \in Unfinished(t, l) PROVE j \in Unfinished(r, l2) \cup jumps
  <2>1. \/ j \in l.breaks
        \/ \E n \in Whiles(t) : j \in t[n].outer.breaks
        \/ \E n \in 1 .. Len(t) : t[n].do \in Awaiting /\ j = t[n].jump
    BY DEF Unfinished
  <2>. QED
    BY <1>4, <1>5, <2>1 DEF r
<1>. QED
  BY <1>6 DEF r

\* What is new among them.
LEMMA UnfinishedItems ==
    ASSUME NEW t \in Seq(Items), t # << >>, NEW items \in Seq(Items), NEW l
    PROVE  /\ \A j \in l.breaks : j \in Unfinished(items \o Tail(t), l)
           /\ \A n \in 1 .. Len(items) :
                /\ items[n].do \in Awaiting => items[n].jump \in Unfinished(items \o Tail(t), l)
                /\ items[n].do \in {"whileBody", "endWhile"} =>
                     \A j \in items[n].outer.breaks : j \in Unfinished(items \o Tail(t), l)
<1>. DEFINE r == items \o Tail(t)
<1>1. /\ Len(items) \in Nat /\ Len(r) \in Nat /\ Len(t) \in Nat \ {0}
      /\ Len(r) = Len(items) + Len(t) - 1
      /\ \A n \in 1 .. Len(items) : r[n] = items[n]
  BY Replaced
<1>. HIDE DEF r
<1>2. \A n \in 1 .. Len(items) : n \in 1 .. Len(r)
  BY <1>1
<1>3. \A n \in 1 .. Len(items) : items[n].do \in {"whileBody", "endWhile"} => n \in Whiles(r)
  BY <1>1, <1>2 DEF Whiles
<1>4. /\ \A j \in l.breaks : j \in Unfinished(r, l)
      /\ \A n \in 1 .. Len(items) :
           /\ items[n].do \in Awaiting => items[n].jump \in Unfinished(r, l)
           /\ items[n].do \in {"whileBody", "endWhile"} =>
                \A j \in items[n].outer.breaks : j \in Unfinished(r, l)
  BY <1>1, <1>2, <1>3 DEF Unfinished
<1>. QED
  BY <1>4 DEF r

--------------------------------------------------------------------------------
(* Steps of the compiler *)

LEMMA CompileStep ==
    ASSUME NEW t, NEW l, NEW c, NEW d, NEW s, Compiled(t, l, c, d, s), t # << >>,
           NEW items \in Seq(Items), NEW l2 \in Loops, NEW c2 \in Seq(Instructions),
           NEW d2 \in Nat, NEW s2 \in Seq(Nat),
           Extended(c, d, s, c2, d2, s2), Chained(items, t[1], d2, s2),
           InOrder(items, t, s, s2), InScope(items, t, c2, s, s2), InLoop(items, t, l, l2, s2),
           LoopSound(c2, d2, s2, l2), Sound(c2, d2, s2, Unfinished(items \o Tail(t), l2))
    PROVE  Compiled(items \o Tail(t), l2, c2, d2, s2)
<1>1. /\ t \in Seq(Items) /\ s \in Seq(Nat)
      /\ Balanced(t, d, s) /\ Ordered(t, s) /\ Nested(t, l, c, s)
  BY DEF Compiled
<1>2. items \o Tail(t) \in Seq(Items)
  BY <1>1, Replaced
<1>3. Balanced(items \o Tail(t), d2, s2)
  BY <1>1, BalancedStep
<1>4. Ordered(items \o Tail(t), s2)
  BY <1>1, OrderedStep
<1>5. Scoped(items \o Tail(t), c2, s2)
  BY ScopedStep
<1>6. LoopsSound(items \o Tail(t), l2, c2, d2, s2)
  <2>1. Onward(t, l) \in {l} \cup Outers(t)
    BY <1>1, OnwardAround
  <2>2. \A n \in Whiles(items) : items[n].outer \in {l} \cup Outers(t)
    BY <2>1 DEF InLoop
  <2>. QED
    BY <2>2, LoopsStep
<1>7. Nested(items \o Tail(t), l2, c2, s2)
  BY NestedStep
<1>. QED
  BY <1>2, <1>3, <1>4, <1>5, <1>6, <1>7 DEF Compiled

LEMMA NothingWritten ==
    ASSUME NEW c, NEW d, NEW s, Len(c) \in Nat
    PROVE  Extended(c, d, s, c, d, s)
BY DEF Extended

\* The first item is replaced and nothing else happens.
LEMMA PlainStep ==
    ASSUME NEW t, NEW l, NEW c, NEW d, NEW s, Compiled(t, l, c, d, s), t # << >>,
           t[1].do \in {"stmts", "stmt", "expr"},
           NEW items \in Seq(Items),
           Chained(items, t[1], d, s), InOrder(items, t, s, s), InScope(items, t, c, s, s),
           Whiles(items) = {}
    PROVE  Compiled(items \o Tail(t), l, c, d, s)
<1>1. /\ t \in Seq(Items) /\ l \in Loops /\ c \in Seq(Instructions) /\ d \in Nat /\ s \in Seq(Nat)
      /\ LoopSound(c, d, s, l) /\ Sound(c, d, s, Unfinished(t, l))
      /\ Len(c) \in Nat
  BY DEF Compiled, LoopsSound
<1>2. Extended(c, d, s, c, d, s)
  BY <1>1, NothingWritten
<1>3. InLoop(items, t, l, l, s)
  <2>1. Onward(t, l) = l
    BY DEF Onward
  <2>. QED
    BY <2>1 DEF InLoop
<1>4. Sound(c, d, s, Unfinished(items \o Tail(t), l))
  <2>. DEFINE r == items \o Tail(t)
  <2>1. \A j \in l.breaks : j \in Unfinished(items \o Tail(t), l)
    BY <1>1, UnfinishedItems
  <2>2. Unfinished(t, l) \subseteq Unfinished(items \o Tail(t), l) \cup {}
    <3>1. t[1].do \notin {"whileBody", "endWhile"} /\ t[1].do \notin Awaiting
      BY DEF Awaiting
    <3>2. \A j \in l.breaks : j \in Unfinished(items \o Tail(t), l) \cup {}
      BY <2>1
    <3>. QED
      BY <1>1, <3>1, <3>2, UnfinishedStep
  <2>3. Unfinished(t, l) \subseteq Unfinished(items \o Tail(t), l)
    BY <2>2
  <2>. QED
    BY <1>1, <2>3 DEF Sound
<1>. QED
  BY <1>1, <1>2, <1>3, <1>4, CompileStep

\* An instruction is written.  What the compiler waits for, it goes on waiting for.
LEMMA WriteStep ==
    ASSUME NEW t, NEW l, NEW c, NEW d, NEW s, Compiled(t, l, c, d, s), t # << >>,
           NEW e \in [op : Ops, n : Nat, var : Nat],
           Len(s) <= d, e.op = "combine" => e.n <= d,
           e.op \in {"getLocal", "setLocal"} => e.n \in 1 .. Len(s) /\ s[e.n] = e.var,
           NEW items \in Seq(Items), NEW l2 \in Loops, NEW d2 \in Nat, NEW s2 \in Seq(Nat),
           Leads(Instruction(e, d, s), d2, s2),
           Unfinished(t, l) \subseteq Unfinished(items \o Tail(t), l2),
           e.op \in Jumps =>
             \/ Len(c) + 1 \in Unfinished(items \o Tail(t), l2)
             \/ /\ e.n \in 1 .. Len(c) + 1
                /\ Leads(Instruction(e, d, s), Height(c, d, e.n), Placed(c, s, e.n)),
           Chained(items, t[1], d2, s2), InOrder(items, t, s, s2),
           InScope(items, t, Append(c, Instruction(e, d, s)), s, s2),
           InLoop(items, t, l, l2, s2),
           LoopSound(Append(c, Instruction(e, d, s)), d2, s2, l2)
    PROVE  /\ Compiled(items \o Tail(t), l2, Append(c, Instruction(e, d, s)), d2, s2)
           /\ Extended(c, d, s, Append(c, Instruction(e, d, s)), d2, s2)
<1>. DEFINE i == Instruction(e, d, s)
            u == Unfinished(items \o Tail(t), l2)
<1>1. /\ t \in Seq(Items) /\ c \in Seq(Instructions) /\ d \in Nat /\ s \in Seq(Nat)
      /\ Sound(c, d, s, Unfinished(t, l))
  BY DEF Compiled
<1>2. /\ i \in Instructions /\ i.op = e.op /\ i.n = e.n /\ i.var = e.var
      /\ i.height = d /\ i.placed = s
  BY <1>1 DEF Instruction, Instructions
<1>. HIDE DEF i
<1>3. Append(c, i) \in Seq(Instructions)
  BY <1>1, <1>2
<1>4. Extended(c, d, s, Append(c, i), d2, s2)
  BY <1>1, <1>2, EmitExtends
<1>5. Sound(Append(c, i), d2, s2, u)
  <2>1. Leads(i, d2, s2) /\ Unfinished(t, l) \subseteq u
    BY DEF i
  <2>2. i.op \in Jumps => \/ Len(c) + 1 \in u
                          \/ i.n \in 1 .. Len(c) + 1 /\ Leads(i, Height(c, d, i.n), Placed(c, s, i.n))
    BY <1>2 DEF i
  <2>. HIDE DEF u
  <2>3. /\ i.op = "combine" => i.n <= d
        /\ i.op \in {"getLocal", "setLocal"} => i.n \in 1 .. Len(s) /\ s[i.n] = i.var
    BY <1>2
  <2>. QED
    BY <1>1, <1>2, <2>1, <2>2, <2>3, EmitSound
<1>6. InScope(items, t, Append(c, i), s, s2) /\ LoopSound(Append(c, i), d2, s2, l2)
  BY DEF i
<1>7. Compiled(items \o Tail(t), l2, Append(c, i), d2, s2)
  BY <1>3, <1>4, <1>5, <1>6, CompileStep
<1>. QED
  BY <1>4, <1>7 DEF i

\* No jump is finished or made.
LEMMA SameWaiting ==
    ASSUME NEW t, NEW l, NEW c, NEW d, NEW s, Compiled(t, l, c, d, s), t # << >>,
           t[1].do \notin Awaiting \cup {"whileBody"}, NEW items \in Seq(Items), Whiles(items) = {}
    PROVE  /\ Unfinished(t, l) \subseteq Unfinished(items \o Tail(t), l)
           /\ \A s2 : InLoop(items, t, l, l, s2)
<1>1. t \in Seq(Items)
  BY DEF Compiled
<1>2. \A j \in l.breaks : j \in Unfinished(items \o Tail(t), l) \cup {}
  BY <1>1, UnfinishedItems
<1>3. t[1].do \notin {"whileBody", "endWhile"} /\ t[1].do \notin Awaiting
  BY DEF Awaiting
<1>4. Unfinished(t, l) \subseteq Unfinished(items \o Tail(t), l) \cup {}
  BY <1>1, <1>2, <1>3, UnfinishedStep
<1>5. Onward(t, l) = l
  BY <1>3 DEF Onward
<1>. QED
  BY <1>4, <1>5 DEF InLoop

--------------------------------------------------------------------------------
(* What takes the place of an item *)

LEMMA ItemKinds ==
    /\ Statement \in Items /\ Statement.do = "stmt"
    /\ \A n \in Nat : /\ Statements(n) \in Items /\ Statements(n).do = "stmts"
                      /\ Statements(n).from = n
                      /\ Expression(n) \in Items /\ Expression(n).do = "expr"
                      /\ Expression(n).above = n
    /\ [do |-> "then"] \in Items /\ [do |-> "bind"] \in Items
    /\ \A o \in Loops : [do |-> "whileBody", outer |-> o] \in Items
    /\ \A o \in Loops, j \in Nat : [do |-> "endWhile", outer |-> o, jump |-> j] \in Items
    /\ \A j \in Nat : /\ [do |-> "else", jump |-> j] \in Items
                      /\ [do |-> "endIf", jump |-> j] \in Items
<1>1. Statement \in Items /\ Statement.do = "stmt"
  BY DEF Statement, Items
<1>2. ASSUME NEW n \in Nat
      PROVE  /\ Statements(n) \in Items /\ Statements(n).do = "stmts" /\ Statements(n).from = n
             /\ Expression(n) \in Items /\ Expression(n).do = "expr" /\ Expression(n).above = n
  BY DEF Statements, Expression, Items
<1>4. [do |-> "then"] \in Items /\ [do |-> "bind"] \in Items
  BY DEF Items
<1>5. ASSUME NEW o \in Loops PROVE [do |-> "whileBody", outer |-> o] \in Items
  BY DEF Items
<1>6. ASSUME NEW o \in Loops, NEW j \in Nat
      PROVE  [do |-> "endWhile", outer |-> o, jump |-> j] \in Items
  BY DEF Items
<1>7. ASSUME NEW j \in Nat
      PROVE  [do |-> "else", jump |-> j] \in Items /\ [do |-> "endIf", jump |-> j] \in Items
  BY DEF Items
<1>. QED
  BY <1>1, <1>2, <1>4, <1>5, <1>6, <1>7

LEMMA WriteKinds ==
    ASSUME NEW op \in Ops, NEW n \in Nat, NEW var \in Nat, NEW above \in Nat
    PROVE  /\ Write(op, n, var, above) \in Items /\ Write(op, n, var, above).do = "emit"
           /\ Write(op, n, var, above).above = above
           /\ Write(op, n, var, above).code = Code(op, n, var)
           /\ Code(op, n, var) \in [op : Ops, n : Nat, var : Nat]
           /\ Code(op, n, var).op = op /\ Code(op, n, var).n = n /\ Code(op, n, var).var = var
<1>1. /\ Code(op, n, var) \in [op : Ops, n : Nat, var : Nat]
      /\ Code(op, n, var).op = op /\ Code(op, n, var).n = n /\ Code(op, n, var).var = var
  BY DEF Code
<1>2. /\ Write(op, n, var, above) \in
           [do : {"emit"}, code : [op : Ops, n : Nat, var : Nat], above : Nat]
      /\ Write(op, n, var, above).do = "emit" /\ Write(op, n, var, above).above = above
      /\ Write(op, n, var, above).code = Code(op, n, var)
  BY <1>1 DEF Write
<1>. QED
  BY <1>1, <1>2 DEF Items

LEMMA HeadFacts ==
    ASSUME NEW t, NEW l, NEW c, NEW d, NEW s, Compiled(t, l, c, d, s), t # << >>
    PROVE  /\ Head(t) = t[1] /\ Len(t) \in Nat /\ 1 \in 1 .. Len(t) /\ t[1] \in Items
           /\ Len(s) \in Nat /\ Len(c) \in Nat /\ d \in Nat /\ d = Len(s) + Above(t[1])
           /\ t[1].do # "stmts" => Base(t, s) = Len(s)
<1>1. t \in Seq(Items) /\ s \in Seq(Nat) /\ c \in Seq(Instructions) /\ d \in Nat /\ Balanced(t, d, s)
  BY DEF Compiled
<1>2. Head(t) = t[1] /\ Len(t) \in Nat /\ 1 \in 1 .. Len(t) /\ t[1] \in Items
  BY <1>1
<1>3. d = Len(s) + Above(t[1])
  BY <1>1 DEF Balanced
<1>. QED
  BY <1>1, <1>2, <1>3 DEF Base

LEMMA JumpPlaced ==
    ASSUME NEW c, NEW s \in Seq(Nat), NEW item, item.do \in Awaiting,
           JumpFrom(c, s, item.jump, Len(s))
    PROVE  LocalsAt(c, item) = Len(s)
<1>1. c[item.jump].placed = SubSeq(s, 1, Len(s))
  BY DEF JumpFrom
<1>2. SubSeq(s, 1, Len(s)) = s
  OBVIOUS
<1>. QED
  BY <1>1, <1>2 DEF LocalsAt, Awaiting

\* The item is dealt with.
FitsNone(t, s, d2, s2) ==
    /\ d2 = Len(s2) + Left(t[1])
    /\ Base(t, s) <= Len(s2) /\ \A j \in 1 .. Base(t, s) : s2[j] = s[j]
    /\ Len(s2) = Base(t, s) \/ (t[1].do \in Inner /\ Declarable(t))

LEMMA NoItem ==
    ASSUME NEW t, NEW l, NEW c, NEW d, NEW s, Compiled(t, l, c, d, s), t # << >>,
           NEW c2, NEW d2, NEW s2 \in Seq(Nat), FitsNone(t, s, d2, s2)
    PROVE  /\ << >> \in Seq(Items) /\ Whiles(<< >>) = {}
           /\ Chained(<< >>, t[1], d2, s2) /\ InOrder(<< >>, t, s, s2)
           /\ InScope(<< >>, t, c2, s, s2)
<1>1. t[1].do \in Inner => Base(t, s) = Len(s)
  BY HeadFacts DEF Inner
<1>2. << >> \in Seq(Items) /\ Len(<< >>) = 0 /\ 1 .. 0 = {}
  OBVIOUS
<1>3. Whiles(<< >>) = {}
  BY <1>2 DEF Whiles
<1>4. Chained(<< >>, t[1], d2, s2)
  BY <1>2 DEF Chained, FitsNone
<1>5. InOrder(<< >>, t, s, s2)
  BY <1>1, <1>2 DEF InOrder, FitsNone
<1>6. InScope(<< >>, t, c2, s, s2)
  BY <1>2 DEF InScope, FitsNone
<1>. QED
  BY <1>2, <1>3, <1>4, <1>5, <1>6

\* One item takes its place.
FitsOne(t, s, a, c2, d2, s2) ==
    /\ t[1].do # "stmts" /\ a.do \notin {"bind", "whileBody", "endWhile"}
    /\ d2 = Len(s2) + Above(a) /\ Left(a) = Left(t[1])
    /\ Len(s) <= Len(s2) /\ \A j \in 1 .. Len(s) : s2[j] = s[j]
    /\ t[1].do \in Inner => a.do \in Inner
    /\ a.do = "emit" => Writable(a, s2)
    /\ a.do \in Awaiting => JumpFrom(c2, s2, a.jump, Len(s2))
    /\ a.do = "stmts" => a.from = Len(s)
    /\ a.do = "stmts" \/ Len(s2) = Len(s) \/ (t[1].do \in Inner /\ Declarable(t))

LEMMA OneItem ==
    ASSUME NEW t, NEW l, NEW c, NEW d, NEW s, Compiled(t, l, c, d, s), t # << >>,
           NEW a \in Items, NEW c2, NEW d2, NEW s2 \in Seq(Nat), FitsOne(t, s, a, c2, d2, s2)
    PROVE  /\ <<a>> \in Seq(Items) /\ Whiles(<<a>>) = {}
           /\ Chained(<<a>>, t[1], d2, s2) /\ InOrder(<<a>>, t, s, s2)
           /\ InScope(<<a>>, t, c2, s, s2)
<1>. DEFINE items == <<a>>
<1>1. items \in Seq(Items) /\ Len(items) = 1 /\ items[1] = a /\ items # << >>
  OBVIOUS
<1>0. /\ t[1].do # "stmts" /\ a.do \notin {"bind", "whileBody", "endWhile"}
      /\ d2 = Len(s2) + Above(a) /\ Left(a) = Left(t[1])
      /\ Len(s) <= Len(s2) /\ \A n \in 1 .. Len(s) : s2[n] = s[n]
      /\ t[1].do \in Inner => a.do \in Inner
      /\ a.do = "emit" => Writable(a, s2)
      /\ a.do \in Awaiting => JumpFrom(c2, s2, a.jump, Len(s2))
      /\ a.do = "stmts" => a.from = Len(s)
      /\ a.do = "stmts" \/ Len(s2) = Len(s) \/ (t[1].do \in Inner /\ Declarable(t))
  BY DEF FitsOne
<1>2. Base(t, s) = Len(s)
  BY <1>0, HeadFacts
<1>3. \A n \in 1 .. Len(items) : n = 1
  BY <1>1
<1>. HIDE DEF items
<1>4. Whiles(items) = {}
  BY <1>0, <1>1, <1>3 DEF Whiles
<1>5. Chained(items, t[1], d2, s2)
  BY <1>0, <1>1, <1>3 DEF Chained
<1>6. InOrder(items, t, s, s2)
  <2>1. t[1].do \in Inner => \A n \in 1 .. Len(items) : items[n].do \in Inner
    BY <1>0, <1>1, <1>3
  <2>2. ASSUME NEW n \in 1 .. Len(items)
        PROVE  /\ 1 .. n - 1 = {}
               /\ items[n].do = "emit" =>
                    Writable(items[n], s2) /\ (items[n].code.op = "dup" => n = 1)
               /\ items[n].do # "bind"
    BY <1>0, <1>1, <1>3
  <2>. QED
    BY <1>0, <2>1, <2>2 DEF InOrder
<1>7. InScope(items, t, c2, s, s2)
  <2>1. ASSUME NEW n \in 1 .. Len(items)
        PROVE  /\ items[n].do \in Awaiting => /\ JumpFrom(c2, s2, items[n].jump, Len(s2))
                                              /\ LocalsAt(c2, items[n]) = Len(s2)
               /\ items[n].do = "stmts" => n = Len(items) /\ items[n].from = Base(t, s)
    BY <1>0, <1>1, <1>2, <1>3, JumpPlaced
  <2>2. \/ \E n \in 1 .. Len(items) : items[n].do = "stmts"
        \/ Len(s2) = Base(t, s)
        \/ t[1].do \in Inner /\ Declarable(t)
    BY <1>0, <1>1, <1>2
  <2>. QED
    BY <1>0, <1>2, <2>1, <2>2 DEF InScope
<1>. QED
  BY <1>1, <1>4, <1>5, <1>6, <1>7 DEF items

\* Two items do.
FitsTwo(t, s, a, b, c2, d2) ==
    /\ a.do \in {"stmt", "expr"} /\ b.do # "stmt"
    /\ d2 = Len(s) + Above(a) /\ Left(a) = Above(b) /\ Left(b) = Left(t[1])
    /\ t[1].do \in Inner => a.do = "expr" /\ b.do \in Inner
    /\ b.do \in Inner \cup {"whileBody", "then"} => a.do = "expr"
    /\ b.do = "emit" => Writable(b, s) /\ b.code.op # "dup"
    /\ b.do = "bind" => t[1].do \in Inner /\ Declarable(t)
    /\ b.do \in Awaiting => JumpFrom(c2, s, b.jump, Len(s))
    /\ b.do = "stmts" \/ t[1].do = "stmts" => b = t[1]

LEMMA TwoItems ==
    ASSUME NEW t, NEW l, NEW c, NEW d, NEW s, Compiled(t, l, c, d, s), t # << >>,
           NEW a \in Items, NEW b \in Items, NEW c2, NEW d2, FitsTwo(t, s, a, b, c2, d2)
    PROVE  /\ <<a, b>> \in Seq(Items) /\ Len(<<a, b>>) = 2 /\ <<a, b>>[1] = a /\ <<a, b>>[2] = b
           /\ Whiles(<<a, b>>) = IF b.do \in {"whileBody", "endWhile"} THEN {2} ELSE {}
           /\ Chained(<<a, b>>, t[1], d2, s) /\ InOrder(<<a, b>>, t, s, s)
           /\ InScope(<<a, b>>, t, c2, s, s)
<1>. DEFINE items == <<a, b>>
<1>1. items \in Seq(Items) /\ Len(items) = 2 /\ items[1] = a /\ items[2] = b /\ items # << >>
  OBVIOUS
<1>2. \A n \in 1 .. Len(items) : n = 1 \/ n = 2
  BY <1>1
<1>0. /\ a.do \in {"stmt", "expr"} /\ b.do # "stmt"
      /\ d2 = Len(s) + Above(a) /\ Left(a) = Above(b) /\ Left(b) = Left(t[1])
      /\ t[1].do \in Inner => a.do = "expr" /\ b.do \in Inner
      /\ b.do \in Inner \cup {"whileBody", "then"} => a.do = "expr"
      /\ b.do = "emit" => Writable(b, s) /\ b.code.op # "dup"
      /\ b.do = "bind" => t[1].do \in Inner /\ Declarable(t)
      /\ b.do \in Awaiting => JumpFrom(c2, s, b.jump, Len(s))
      /\ b.do = "stmts" \/ t[1].do = "stmts" => b = t[1]
  BY DEF FitsTwo
<1>3. s \in Seq(Nat) /\ Len(s) \in Nat
  BY DEF Compiled
<1>. HIDE DEF items
<1>4. Whiles(items) = IF b.do \in {"whileBody", "endWhile"} THEN {2} ELSE {}
  BY <1>0, <1>1, <1>2 DEF Whiles
<1>5. Chained(items, t[1], d2, s)
  BY <1>0, <1>1, <1>2 DEF Chained
<1>6. InOrder(items, t, s, s)
  <2>1. t[1].do \in Inner => \A n \in 1 .. Len(items) : items[n].do \in Inner
    BY <1>0, <1>1, <1>2 DEF Inner
  <2>2. ASSUME NEW n \in 1 .. Len(items)
        PROVE  /\ items[n].do \in Inner \cup {"stmt", "whileBody", "then"} =>
                    \A m \in 1 .. n - 1 : items[m].do \in Inner
               /\ items[n].do = "emit" =>
                    Writable(items[n], s) /\ (items[n].code.op = "dup" => n = 1)
               /\ items[n].do = "bind" => t[1].do \in Inner /\ Declarable(t)
    <3>1. CASE n = 1
      BY <1>0, <1>1, <3>1
    <3>2. CASE n = 2
      <4>1. \A m \in 1 .. n - 1 : m = 1
        BY <3>2
      <4>. QED
        BY <1>0, <1>1, <3>2, <4>1 DEF Inner
    <3>. QED
      BY <1>2, <3>1, <3>2
  <2>. QED
    BY <1>3, <2>1, <2>2 DEF InOrder
<1>7. InScope(items, t, c2, s, s)
  <2>1. ASSUME NEW n \in 1 .. Len(items)
        PROVE  /\ items[n].do \in Awaiting => /\ JumpFrom(c2, s, items[n].jump, Len(s))
                                              /\ LocalsAt(c2, items[n]) = Len(s)
               /\ items[n].do = "stmts" => n = Len(items) /\ items[n].from = Base(t, s)
    <3>1. CASE n = 1
      BY <1>0, <1>1, <3>1 DEF Awaiting
    <3>2. CASE n = 2
      BY <1>0, <1>1, <1>3, <3>2, JumpPlaced DEF Base
    <3>. QED
      BY <1>2, <3>1, <3>2
  <2>2. \/ \E n \in 1 .. Len(items) : items[n].do = "stmts"
        \/ Len(s) = Base(t, s)
    <3>1. CASE t[1].do = "stmts"
      BY <1>0, <1>1, <3>1
    <3>2. CASE t[1].do # "stmts"
      BY <3>2, HeadFacts
    <3>. QED
      BY <3>1, <3>2
  <2>3. Base(t, s) <= Len(s)
    BY Based
  <2>. QED
    BY <2>1, <2>2, <2>3 DEF InScope
<1>. QED
  BY <1>1, <1>4, <1>5, <1>6, <1>7 DEF items

--------------------------------------------------------------------------------
(* What instructions leave of the stack *)

LEMMA InstructionFields ==
    ASSUME NEW e \in [op : Ops, n : Nat, var : Nat], NEW h, NEW p
    PROVE  LET i == Instruction(e, h, p) IN
           /\ i.op = e.op /\ i.n = e.n /\ i.var = e.var /\ i.height = h /\ i.placed = p
           /\ h \in Nat /\ p \in Seq(Nat) => i \in Instructions
BY DEF Instruction, Instructions

\* An instruction that takes nothing from the locals.
LEMMA LeadsOn ==
    ASSUME NEW e \in [op : Ops, n : Nat, var : Nat], NEW d \in Nat, NEW s \in Seq(Nat),
           CASE e.op \in Pops -> Len(s) <= d - 1
             [] e.op = "dup" -> /\ Len(s) = d /\ Len(s) > 0 /\ s[Len(s)] = e.var
             [] e.op = "combine" -> Len(s) <= d - e.n
             [] OTHER -> Len(s) <= d
    PROVE  Leads(Instruction(e, d, s), Raised(d, e.op, e.n), s)
<1>. DEFINE i == Instruction(e, d, s)
<1>1. i.op = e.op /\ i.n = e.n /\ i.var = e.var /\ i.height = d /\ i.placed = s
  BY InstructionFields
<1>2. Len(s) \in Nat /\ e.n \in Nat
  OBVIOUS
<1>. HIDE DEF i
<1>3. CASE e.op = "dup"
  <2>1. Kept(i) = d - 1 /\ Len(s) = d /\ s[Len(s)] = e.var
    BY <1>1, <1>3 DEF Kept, Pops
  <2>2. \A j \in 1 .. Len(s) :
          \/ j <= Kept(i) /\ j <= Len(i.placed) /\ s[j] = i.placed[j]
          \/ i.op \in {"push", "dup"} /\ j = Kept(i) + 1 /\ s[j] = i.var
    <3>1. \A j \in 1 .. Len(s) : j <= d - 1 \/ (j = (d - 1) + 1 /\ j = Len(s))
      BY <1>2, <2>1
    <3>. QED
      BY <1>1, <1>2, <1>3, <2>1, <3>1
  <2>. QED
    BY <1>1, <2>2 DEF Leads, i
<1>4. CASE e.op # "dup"
  <2>1. Len(s) <= Kept(i)
    <3>1. CASE e.op \in Pops
      <4>1. Kept(i) = d - 1
        BY <1>1, <3>1 DEF Kept, Pops
      <4>2. Len(s) <= d - 1
        BY <3>1 DEF Pops
      <4>. QED
        BY <4>1, <4>2
    <3>2. CASE e.op = "combine"
      <4>1. Kept(i) = d - e.n
        BY <1>1, <3>2 DEF Kept, Pops
      <4>2. Len(s) <= d - e.n
        BY <3>2 DEF Pops
      <4>. QED
        BY <4>1, <4>2
    <3>3. CASE e.op \notin Pops /\ e.op # "combine"
      <4>1. Kept(i) = d
        BY <1>1, <1>4, <3>3 DEF Kept
      <4>2. Len(s) <= d
        BY <1>4, <3>3
      <4>. QED
        BY <4>1, <4>2
    <3>. QED
      BY <3>1, <3>2, <3>3
  <2>2. Kept(i) \in Int
    BY <1>1, <1>2 DEF Kept
  <2>3. \A j \in 1 .. Len(s) : j <= Kept(i)
    BY <1>2, <2>1, <2>2
  <2>. QED
    BY <1>1, <2>3 DEF Leads, i
<1>. QED
  BY <1>3, <1>4

\* A jump that waited comes to where its locals are all there are.
LEMMA JumpLeads ==
    ASSUME NEW c \in Seq(Instructions), NEW s \in Seq(Nat), NEW j, JumpFrom(c, s, j, Len(s))
    PROVE  j \in 1 .. Len(c) /\ c[j].op \in Jumps /\ Leads(c[j], Len(s), s)
<1>. DEFINE i == c[j]
<1>1. /\ j \in 1 .. Len(c) /\ i.op \in Jumps /\ i.placed = SubSeq(s, 1, Len(s))
      /\ i.height = IF i.op = "jump" THEN Len(s) ELSE Len(s) + 1
  BY DEF JumpFrom
<1>2. SubSeq(s, 1, Len(s)) = s /\ Len(s) \in Nat
  OBVIOUS
<1>. HIDE DEF i
<1>3. Len(s) = Raised(i.height, i.op, i.n) /\ Kept(i) = Len(s)
  <2>1. CASE i.op = "jump"
    BY <1>1, <1>2, <2>1 DEF Raised, Kept, Pushes, Pops
  <2>2. CASE i.op = "jumpIfFalse"
    BY <1>1, <1>2, <2>2 DEF Raised, Kept, Pushes, Pops
  <2>. QED
    BY <1>1, <2>1, <2>2 DEF Jumps
<1>4. Leads(i, Len(s), s)
  BY <1>1, <1>2, <1>3 DEF Leads
<1>. QED
  BY <1>1, <1>4 DEF i

\* The value of an assignment becomes the new local.
LEMMA LeadsToLocal ==
    ASSUME NEW e \in [op : Ops, n : Nat, var : Nat], NEW d \in Nat, NEW s \in Seq(Nat),
           \/ e.op = "push" /\ d = Len(s)
           \/ e.op = "dup" /\ d = Len(s) + 1
    PROVE  Leads(Instruction(e, d, s), d + 1, Append(s, e.var))
<1>. DEFINE i == Instruction(e, d, s)
            s2 == Append(s, e.var)
<1>1. i.op = e.op /\ i.n = e.n /\ i.var = e.var /\ i.height = d /\ i.placed = s
  BY InstructionFields
<1>2. Len(s) \in Nat /\ Len(s2) = Len(s) + 1 /\ s2[Len(s) + 1] = e.var
      /\ \A j \in 1 .. Len(s) : s2[j] = s[j]
  OBVIOUS
<1>. HIDE DEF i, s2
<1>3. Kept(i) = Len(s) /\ Raised(i.height, i.op, i.n) = d + 1
  <2>1. CASE e.op = "push" /\ d = Len(s)
    BY <1>1, <2>1 DEF Kept, Raised, Pushes, Pops
  <2>2. CASE e.op = "dup" /\ d = Len(s) + 1
    BY <1>1, <1>2, <2>2 DEF Kept, Raised, Pushes, Pops
  <2>. QED
    BY <2>1, <2>2
<1>4. ASSUME NEW j \in 1 .. Len(s2)
      PROVE  \/ j <= Kept(i) /\ j <= Len(i.placed) /\ s2[j] = i.placed[j]
             \/ i.op \in {"push", "dup"} /\ j = Kept(i) + 1 /\ s2[j] = i.var
  <2>1. CASE j \in 1 .. Len(s)
    BY <1>1, <1>2, <1>3, <2>1
  <2>2. CASE j = Len(s) + 1
    BY <1>1, <1>2, <1>3, <2>2
  <2>. QED
    BY <1>2, <2>1, <2>2
<1>5. Leads(i, d + 1, s2)
  BY <1>3, <1>4 DEF Leads
<1>. QED
  BY <1>5 DEF i, s2

--------------------------------------------------------------------------------
(* The actions that write nothing *)

Compiling == Compiled(todo, loop, chunk, depth, locals)

Continues ==
    /\ Compiled(todo', loop', chunk', depth', locals')
    /\ Extended(chunk, depth, locals, chunk', depth', locals')

LEMMA DoingFacts ==
    ASSUME Compiling, NEW what, Doing(what)
    PROVE  /\ todo # << >> /\ todo[1].do = what /\ Head(todo) = todo[1]
           /\ todo[1] \in Items /\ depth = Len(locals) + Above(todo[1])
           /\ Len(locals) \in Nat /\ Len(chunk) \in Nat /\ depth \in Nat
           /\ locals \in Seq(Nat) /\ chunk \in Seq(Instructions) /\ loop \in Loops
           /\ phase = "compile"
<1>1. todo # << >> /\ Head(todo).do = what /\ phase = "compile"
  BY DEF Doing
<1>2. /\ Head(todo) = todo[1] /\ todo[1] \in Items
      /\ Len(locals) \in Nat /\ Len(chunk) \in Nat /\ depth \in Nat
      /\ depth = Len(locals) + Above(todo[1])
  BY <1>1, HeadFacts DEF Compiling
<1>. QED
  BY <1>1, <1>2 DEF Compiling, Compiled

LEMMA PlainContinues ==
    ASSUME Compiling, todo # << >>, todo[1].do \in {"stmts", "stmt", "expr"},
           NEW items \in Seq(Items), Whiles(items) = {},
           Chained(items, todo[1], depth, locals), InOrder(items, todo, locals, locals),
           InScope(items, todo, chunk, locals, locals),
           todo' = items \o Tail(todo), UNCHANGED <<loop, chunk, depth, locals>>
    PROVE  Continues
<1>1. Compiled(items \o Tail(todo), loop, chunk, depth, locals)
  BY PlainStep DEF Compiling
<1>2. Extended(chunk, depth, locals, chunk, depth, locals)
  BY NothingWritten DEF Compiling, Compiled
<1>. QED
  BY <1>1, <1>2 DEF Continues

LEMMA MoreStatementsStep ==
    ASSUME Compiling, MoreStatements
    PROVE  Continues
<1>. DEFINE b == todo[1]
            items == <<Statement, b>>
<1>1. /\ todo # << >> /\ b.do = "stmts" /\ b \in Items /\ depth = Len(locals) + Above(b)
      /\ todo' = items \o Tail(todo) /\ UNCHANGED <<loop, chunk, depth, locals>>
  BY DoingFacts DEF MoreStatements, Only, Then, code
<1>2. Statement \in Items /\ Statement.do = "stmt"
  BY ItemKinds
<1>3. /\ depth = Len(locals) + Above(Statement) /\ Left(Statement) = Above(b)
      /\ Left(b) = Left(todo[1])
  BY <1>1, <1>2 DEF Above, Left
<1>4. FitsTwo(todo, locals, Statement, b, chunk, depth)
  BY <1>1, <1>2, <1>3 DEF FitsTwo, Inner, Awaiting
<1>5. /\ items \in Seq(Items) /\ Whiles(items) = {}
      /\ Chained(items, todo[1], depth, locals) /\ InOrder(items, todo, locals, locals)
      /\ InScope(items, todo, chunk, locals, locals)
  <2>1. Compiled(todo, loop, chunk, depth, locals)
    BY DEF Compiling
  <2>. QED
    BY <1>1, <1>2, <1>4, <2>1, TwoItems
<1>. HIDE DEF items
<1>. QED
  BY <1>1, <1>5, PlainContinues

LEMMA BlockStep ==
    ASSUME Compiling, Block
    PROVE  Continues
<1>. DEFINE a == Statements(Len(locals))
            items == <<a>>
<1>1. /\ todo # << >> /\ todo[1].do = "stmt" /\ depth = Len(locals) + Above(todo[1])
      /\ Len(locals) \in Nat /\ locals \in Seq(Nat)
      /\ todo' = items \o Tail(todo) /\ UNCHANGED <<loop, chunk, depth, locals>>
  BY DoingFacts DEF Block, Only, Then, code
<1>2. a \in Items /\ a.do = "stmts" /\ a.from = Len(locals)
  BY <1>1, ItemKinds
<1>3. Above(a) = 0 /\ Left(a) = 0 /\ Above(todo[1]) = 0 /\ Left(todo[1]) = 0
  BY <1>1, <1>2 DEF Above, Left
<1>. HIDE DEF a
<1>4. FitsOne(todo, locals, a, chunk, depth, locals)
  BY <1>1, <1>2, <1>3 DEF FitsOne, Inner, Awaiting
<1>5. Compiled(todo, loop, chunk, depth, locals)
  BY DEF Compiling
<1>6. /\ items \in Seq(Items) /\ Whiles(items) = {}
      /\ Chained(items, todo[1], depth, locals) /\ InOrder(items, todo, locals, locals)
      /\ InScope(items, todo, chunk, locals, locals)
  BY <1>1, <1>2, <1>4, <1>5, OneItem
<1>. HIDE DEF items
<1>. QED
  BY <1>1, <1>6, PlainContinues

\* A statement that starts with an expression.
LEMMA ExpressionFirst ==
    ASSUME Compiling, Doing("stmt"), NEW b \in Items, Above(b) = 1, Left(b) = 0,
           \/ b.do = "then"
           \/ b.do = "emit" /\ Writable(b, locals) /\ b.code.op # "dup",
           todo' = <<Expression(0), b>> \o Tail(todo), UNCHANGED <<loop, chunk, depth, locals>>
    PROVE  Continues
<1>. DEFINE a == Expression(0)
            items == <<a, b>>
<1>1. /\ todo # << >> /\ todo[1].do = "stmt" /\ depth = Len(locals) + Above(todo[1])
      /\ Len(locals) \in Nat
  BY DoingFacts
<1>2. a \in Items /\ a.do = "expr" /\ a.above = 0
  BY ItemKinds
<1>3. Above(a) = 0 /\ Left(a) = 1 /\ Above(todo[1]) = 0 /\ Left(todo[1]) = 0
  BY <1>1, <1>2 DEF Above, Left
<1>4. todo' = items \o Tail(todo)
  OBVIOUS
<1>. HIDE DEF a
<1>5. FitsTwo(todo, locals, a, b, chunk, depth)
  BY <1>1, <1>2, <1>3 DEF FitsTwo, Inner, Awaiting
<1>6. Compiled(todo, loop, chunk, depth, locals)
  BY DEF Compiling
<1>7. /\ items \in Seq(Items) /\ Whiles(items) = {}
      /\ Chained(items, todo[1], depth, locals) /\ InOrder(items, todo, locals, locals)
      /\ InScope(items, todo, chunk, locals, locals)
  BY <1>1, <1>2, <1>5, <1>6, TwoItems
<1>. HIDE DEF items
<1>. QED
  BY <1>1, <1>4, <1>7, PlainContinues

LEMMA ExpressionStatementStep ==
    ASSUME Compiling, ExpressionStatement
    PROVE  Continues
<1>. DEFINE b == Write("pop", 0, 0, 1)
<1>1. /\ Doing("stmt") /\ todo' = <<Expression(0), b>> \o Tail(todo)
      /\ UNCHANGED <<loop, chunk, depth, locals>>
  BY DEF ExpressionStatement, Only, Then, code
<1>2. /\ b \in Items /\ b.do = "emit" /\ b.above = 1
      /\ b.code.op = "pop" /\ b.code.n = 0 /\ b.code.var = 0
  <2>1. "pop" \in Ops
    BY DEF Ops, Pops
  <2>. QED
    BY <2>1, WriteKinds
<1>. HIDE DEF b
<1>3. Above(b) = 1 /\ Left(b) = 0 /\ Writable(b, locals)
  BY <1>2 DEF Above, Left, Raised, Pushes, Pops, Writable
<1>. QED
  BY <1>1, <1>2, <1>3, ExpressionFirst

LEMMA ReturnStep ==
    ASSUME Compiling, Return
    PROVE  Continues
<1>. DEFINE b == Write("return", 0, 0, 1)
<1>1. /\ Doing("stmt") /\ todo' = <<Expression(0), b>> \o Tail(todo)
      /\ UNCHANGED <<loop, chunk, depth, locals>>
  BY DEF Return, Only, Then, code
<1>2. /\ b \in Items /\ b.do = "emit" /\ b.above = 1
      /\ b.code.op = "return" /\ b.code.n = 0 /\ b.code.var = 0
  <2>1. "return" \in Ops
    BY DEF Ops, Pops
  <2>. QED
    BY <2>1, WriteKinds
<1>. HIDE DEF b
<1>3. Above(b) = 1 /\ Left(b) = 0 /\ Writable(b, locals)
  BY <1>2 DEF Above, Left, Raised, Pushes, Pops, Writable
<1>. QED
  BY <1>1, <1>2, <1>3, ExpressionFirst

LEMMA IfStep ==
    ASSUME Compiling, If
    PROVE  Continues
<1>. DEFINE b == [do |-> "then"]
<1>1. /\ Doing("stmt") /\ todo' = <<Expression(0), b>> \o Tail(todo)
      /\ UNCHANGED <<loop, chunk, depth, locals>>
  BY DEF If, Only, Then, code
<1>2. b \in Items /\ b.do = "then"
  BY ItemKinds
<1>. HIDE DEF b
<1>3. Above(b) = 1 /\ Left(b) = 0
  BY <1>2 DEF Above, Left
<1>. QED
  BY <1>1, <1>2, <1>3, ExpressionFirst

LEMMA SetLocalWrite ==
    ASSUME NEW j \in Nat, NEW who \in Nat, NEW up \in Nat
    PROVE  LET b == Write("setLocal", j, who, up) IN
           /\ b \in Items /\ b.do = "emit" /\ b.above = up
           /\ b.code.op = "setLocal" /\ b.code.n = j /\ b.code.var = who
<1>1. "setLocal" \in Ops
  BY DEF Ops
<1>. QED
  BY <1>1, WriteKinds

LEMMA SetLocalStep ==
    ASSUME Compiling, NEW j \in DOMAIN locals, SetLocal(j)
    PROVE  Continues
<1>. DEFINE h == todo[1].above
            a == Expression(h)
            b == Write("setLocal", j, locals[j], h + 1)
            items == <<a, b>>
<1>1. /\ todo # << >> /\ todo[1].do = "expr" /\ depth = Len(locals) + Above(todo[1])
      /\ Len(locals) \in Nat /\ locals \in Seq(Nat) /\ todo[1] \in Items /\ Head(todo) = todo[1]
  BY DoingFacts DEF SetLocal
<1>2. todo' = items \o Tail(todo) /\ UNCHANGED <<loop, chunk, depth, locals>>
  BY <1>1 DEF SetLocal, Only, Then, code
<1>3. h \in Nat /\ h + 1 \in Nat
  BY <1>1, ItemFacts
<1>4. j \in 1 .. Len(locals) /\ j \in Nat /\ locals[j] \in Nat
  BY <1>1
<1>5. Above(todo[1]) = h /\ Left(todo[1]) = h + 1
  BY <1>1 DEF Above, Left
<1>. HIDE DEF h
<1>6. a \in Items /\ a.do = "expr" /\ a.above = h
  BY <1>3, ItemKinds
<1>7. /\ b \in Items /\ b.do = "emit" /\ b.above = h + 1
      /\ b.code.op = "setLocal" /\ b.code.n = j /\ b.code.var = locals[j]
  <2>. DEFINE who == locals[j]
              up == h + 1
  <2>1. who \in Nat /\ up \in Nat
    BY <1>3, <1>4
  <2>. HIDE DEF who, up
  <2>. QED
    BY <1>4, <2>1, SetLocalWrite DEF who, up
<1>. HIDE DEF a, b
<1>8. /\ Above(a) = h /\ Left(a) = h + 1 /\ Above(b) = h + 1 /\ Left(b) = h + 1
      /\ Writable(b, locals)
  BY <1>4, <1>6, <1>7 DEF Above, Left, Raised, Pushes, Pops, Writable
<1>9. FitsTwo(todo, locals, a, b, chunk, depth)
  BY <1>1, <1>5, <1>6, <1>7, <1>8 DEF FitsTwo, Inner, Awaiting
<1>10. Compiled(todo, loop, chunk, depth, locals)
  BY DEF Compiling
<1>11. /\ items \in Seq(Items) /\ Whiles(items) = {}
      /\ Chained(items, todo[1], depth, locals) /\ InOrder(items, todo, locals, locals)
      /\ InScope(items, todo, chunk, locals, locals)
  BY <1>1, <1>6, <1>7, <1>9, <1>10, TwoItems
<1>. HIDE DEF items
<1>. QED
  BY <1>1, <1>2, <1>11, PlainContinues

LEMMA NewLocalStep ==
    ASSUME Compiling, NewLocal
    PROVE  Continues
<1>. DEFINE a == Expression(0)
            b == [do |-> "bind"]
            items == <<a, b>>
<1>1. /\ todo # << >> /\ todo[1].do = "expr" /\ depth = Len(locals) + Above(todo[1])
      /\ Len(locals) \in Nat /\ todo[1] \in Items
      /\ todo' = items \o Tail(todo) /\ UNCHANGED <<loop, chunk, depth, locals>>
      /\ depth = Len(locals) /\ Declarable(todo)
  BY DoingFacts DEF NewLocal, Only, Then, code, InPlace
<1>2. todo[1].above \in Nat
  BY <1>1, ItemFacts
<1>3. Above(todo[1]) = 0 /\ Left(todo[1]) = 1
  BY <1>1, <1>2 DEF Above, Left
<1>4. a \in Items /\ a.do = "expr" /\ a.above = 0 /\ b \in Items /\ b.do = "bind"
  BY ItemKinds
<1>. HIDE DEF a, b
<1>5. Above(a) = 0 /\ Left(a) = 1 /\ Above(b) = 1 /\ Left(b) = 1
  BY <1>4 DEF Above, Left
<1>6. FitsTwo(todo, locals, a, b, chunk, depth)
  BY <1>1, <1>3, <1>4, <1>5 DEF FitsTwo, Inner, Awaiting
<1>7. Compiled(todo, loop, chunk, depth, locals)
  BY DEF Compiling
<1>8. /\ items \in Seq(Items) /\ Whiles(items) = {}
      /\ Chained(items, todo[1], depth, locals) /\ InOrder(items, todo, locals, locals)
      /\ InScope(items, todo, chunk, locals, locals)
  BY <1>1, <1>4, <1>6, <1>7, TwoItems
<1>. HIDE DEF items
<1>. QED
  BY <1>1, <1>8, PlainContinues

\* The operands lie on one another.
LEMMA OperationStep ==
    ASSUME Compiling, NEW n \in Operands, Operation(n)
    PROVE  Continues
<1>. DEFINE above == todo[1].above
            operands == [m \in 1 .. n |-> Expression((above + m) - 1)]
            b == Write("combine", n, 0, above + n)
            items == operands \o <<b>>
<1>1. /\ todo # << >> /\ todo[1].do = "expr" /\ depth = Len(locals) + Above(todo[1])
      /\ Len(locals) \in Nat /\ todo[1] \in Items /\ Head(todo) = todo[1]
  BY DoingFacts DEF Operation
<1>2. todo' = items \o Tail(todo) /\ UNCHANGED <<loop, chunk, depth, locals>>
  BY <1>1 DEF Operation, Only, Then, code
<1>3. n \in Nat
  BY BoundsAssumption
<1>4. above \in Nat /\ above + n \in Nat
  BY <1>1, <1>3, ItemFacts
<1>5. Above(todo[1]) = above /\ Left(todo[1]) = above + 1
  BY <1>1 DEF Above, Left
<1>. HIDE DEF above
<1>6. \A m \in 1 .. n : /\ Expression((above + m) - 1) \in Items
                        /\ Expression((above + m) - 1).do = "expr"
                        /\ Expression((above + m) - 1).above = (above + m) - 1
  <2>1. \A m \in 1 .. n : (above + m) - 1 \in Nat
    BY <1>3, <1>4
  <2>. QED
    BY <2>1, ItemKinds
<1>7. /\ b \in Items /\ b.do = "emit" /\ b.above = above + n
      /\ b.code.op = "combine" /\ b.code.n = n
  <2>1. "combine" \in Ops
    BY DEF Ops
  <2>. QED
    BY <1>3, <1>4, <2>1, WriteKinds
<1>. HIDE DEF b
<1>8. /\ items \in Seq(Items) /\ Len(items) = n + 1 /\ items[n + 1] = b
      /\ \A m \in 1 .. n : items[m] = Expression((above + m) - 1)
  <2>1. operands \in Seq(Items) /\ Len(operands) = n
    BY <1>3, <1>6
  <2>2. \A m \in 1 .. n : operands[m] = Expression((above + m) - 1)
    OBVIOUS
  <2>3. <<b>> \in Seq(Items) /\ Len(<<b>>) = 1 /\ <<b>>[1] = b
    BY <1>7
  <2>. HIDE DEF operands
  <2>4. /\ operands \o <<b>> \in Seq(Items) /\ Len(operands \o <<b>>) = n + 1
        /\ \A m \in 1 .. n + 1 :
             (operands \o <<b>>)[m] = IF m <= n THEN operands[m] ELSE <<b>>[m - n]
    BY <2>1, <2>3, ConcatProperties
  <2>5. \A m \in 1 .. n : m \in 1 .. n + 1 /\ m <= n
    BY <1>3
  <2>6. n + 1 \in 1 .. n + 1 /\ ~(n + 1 <= n) /\ (n + 1) - n = 1
    BY <1>3
  <2>7. (operands \o <<b>>)[n + 1] = b
    BY <2>3, <2>4, <2>6
  <2>. QED
    BY <2>2, <2>4, <2>5, <2>7
<1>. HIDE DEF items
<1>9. \A m \in 1 .. n + 1 :
        \/ /\ m \in 1 .. n /\ items[m].do = "expr"
           /\ Above(items[m]) = (above + m) - 1 /\ Left(items[m]) = above + m
        \/ /\ m = n + 1 /\ items[m].do = "emit" /\ Above(items[m]) = above + n
           /\ Left(items[m]) = above + 1
  <2>1. ASSUME NEW m \in 1 .. n
        PROVE  /\ items[m].do = "expr"
               /\ Above(items[m]) = (above + m) - 1 /\ Left(items[m]) = above + m
    <3>1. items[m].do = "expr" /\ items[m].above = (above + m) - 1
      BY <1>6, <1>8
    <3>2. ((above + m) - 1) + 1 = above + m
      BY <1>3, <1>4
    <3>. QED
      BY <3>1, <3>2 DEF Above, Left
  <2>2. /\ items[n + 1].do = "emit" /\ Above(items[n + 1]) = above + n
        /\ Left(items[n + 1]) = above + 1
    <3>1. /\ items[n + 1].do = "emit" /\ items[n + 1].above = above + n
          /\ items[n + 1].code.op = "combine" /\ items[n + 1].code.n = n
      BY <1>7, <1>8
    <3>2. Left(items[n + 1]) = ((above + n) + 1) - n
      BY <3>1 DEF Left, Raised, Pushes, Pops
    <3>. QED
      BY <1>3, <1>4, <3>1, <3>2 DEF Above
  <2>3. \A m \in 1 .. n + 1 : m \in 1 .. n \/ m = n + 1
    BY <1>3
  <2>. QED
    BY <2>1, <2>2, <2>3
<1>10. Whiles(items) = {}
  BY <1>8, <1>9 DEF Whiles
<1>11. Chained(items, todo[1], depth, locals)
  <2>1. depth = Len(locals) + IF items = << >> THEN Left(todo[1]) ELSE Above(items[1])
    <3>1. items # << >> /\ 1 \in 1 .. n + 1
      BY <1>3, <1>8
    <3>2. Above(items[1]) = above
      <4>1. CASE n = 0
        BY <1>4, <1>9, <3>1, <4>1
      <4>2. CASE n # 0
        <5>1. 1 # n + 1 /\ (above + 1) - 1 = above
          BY <1>3, <1>4, <4>2
        <5>. QED
          BY <1>9, <3>1, <5>1
      <4>. QED
        BY <4>1, <4>2
    <3>. QED
      BY <1>1, <1>5, <3>1, <3>2
  <2>2. ASSUME NEW m \in 1 .. Len(items)
        PROVE  Left(items[m]) = IF m = Len(items) THEN Left(todo[1]) ELSE Above(items[m + 1])
    <3>1. CASE m = n + 1
      BY <1>3, <1>5, <1>8, <1>9, <3>1
    <3>2. CASE m # n + 1
      <4>1. m \in 1 .. n /\ m + 1 \in 1 .. n + 1 /\ m \in 1 .. n + 1 /\ m # Len(items)
        BY <1>3, <1>8, <3>2
      <4>2. Left(items[m]) = above + m
        BY <1>9, <3>2, <4>1
      <4>3. Above(items[m + 1]) = above + m
        <5>1. m + 1 = n + 1 => above + n = above + m
          BY <1>3, <1>4, <4>1
        <5>2. (above + (m + 1)) - 1 = above + m
          BY <1>4, <4>1
        <5>. QED
          BY <1>9, <4>1, <5>1, <5>2
      <4>. QED
        BY <4>1, <4>2, <4>3
    <3>. QED
      BY <3>1, <3>2
  <2>. QED
    BY <2>1, <2>2 DEF Chained
<1>12. InOrder(items, todo, locals, locals)
  <2>1. \A m \in 1 .. Len(items) : items[m].do \in Inner /\ items[m].do # "bind"
    BY <1>8, <1>9 DEF Inner
  <2>2. ASSUME NEW m \in 1 .. Len(items), items[m].do = "emit"
        PROVE  Writable(items[m], locals) /\ items[m].code.op # "dup"
    <3>1. items[m] = b
      BY <1>8, <1>9, <2>2
    <3>2. n <= above + n
      BY <1>3, <1>4
    <3>. QED
      BY <1>7, <3>1, <3>2 DEF Writable
  <2>3. \A m \in 1 .. Len(items) : \A q \in 1 .. m - 1 : q \in 1 .. Len(items)
    BY <1>3, <1>8
  <2>. QED
    BY <1>1, <2>1, <2>2, <2>3 DEF InOrder
<1>13. InScope(items, todo, chunk, locals, locals)
  <2>1. Base(todo, locals) = Len(locals)
    BY <1>1 DEF Base
  <2>2. \A m \in 1 .. Len(items) : items[m].do \notin Awaiting /\ items[m].do # "stmts"
    BY <1>8, <1>9 DEF Awaiting
  <2>. QED
    BY <1>1, <2>1, <2>2 DEF InScope
<1>. QED
  BY <1>1, <1>2, <1>8, <1>10, <1>11, <1>12, <1>13, PlainContinues

--------------------------------------------------------------------------------
(* The actions that write an instruction *)

\* The instruction e is written, and items take the place of the first item.
Writes(e, items) ==
    /\ e.op = "combine" => e.n <= depth
    /\ e.op \in {"getLocal", "setLocal"} =>
         e.n \in 1 .. Len(locals) /\ locals[e.n] = e.var
    /\ e.op \in Jumps =>
         \/ Len(chunk) + 1 \in Unfinished(items \o Tail(todo), loop')
         \/ /\ e.n \in 1 .. Len(chunk) + 1
            /\ Leads(Instruction(e, depth, locals), Height(chunk, depth, e.n),
                     Placed(chunk, locals, e.n))
    /\ chunk' = Append(chunk, Instruction(e, depth, locals))
    /\ depth' \in Nat /\ locals' \in Seq(Nat)
    /\ Leads(Instruction(e, depth, locals), depth', locals')
    /\ Chained(items, todo[1], depth', locals') /\ InOrder(items, todo, locals, locals')
    /\ InScope(items, todo, chunk', locals, locals')
    /\ todo' = items \o Tail(todo)

LEMMA WriteInLoop ==
    ASSUME Compiling, todo # << >>,
           NEW e \in [op : Ops, n : Nat, var : Nat],
           NEW items \in Seq(Items), Writes(e, items), loop' \in Loops,
           Unfinished(todo, loop) \subseteq Unfinished(items \o Tail(todo), loop'),
           InLoop(items, todo, loop, loop', locals'),
           LoopSound(chunk', depth', locals', loop') \/ loop' = loop
    PROVE  Continues
<1>. DEFINE i == Instruction(e, depth, locals)
<1>1. /\ Compiled(todo, loop, chunk, depth, locals) /\ loop \in Loops
      /\ chunk \in Seq(Instructions) /\ depth \in Nat /\ locals \in Seq(Nat)
  BY DEF Compiling, Compiled
<1>2. i \in Instructions /\ i.height = depth /\ i.placed = locals
  BY <1>1, InstructionFields
<1>3. Len(locals) <= depth
  <2>1. depth = Len(locals) + Above(todo[1]) /\ Len(locals) \in Nat
    BY <1>1, HeadFacts
  <2>2. Above(todo[1]) \in Nat
    BY <1>1, HeadFacts, ItemFacts DEF Above
  <2>. QED
    BY <2>1, <2>2
<1>. HIDE DEF i
<1>4. Append(chunk, i) \in Seq(Instructions)
  BY <1>1, <1>2
<1>5. Extended(chunk, depth, locals, Append(chunk, i), depth', locals')
  BY <1>1, <1>2, EmitExtends
<1>6. /\ chunk' = Append(chunk, i) /\ depth' \in Nat /\ locals' \in Seq(Nat)
      /\ InScope(items, todo, Append(chunk, i), locals, locals')
  BY DEF Writes, i
<1>7. LoopSound(Append(chunk, i), depth', locals', loop')
  BY <1>1, <1>4, <1>5, <1>6, LoopKept
<1>8. Compiled(items \o Tail(todo), loop', Append(chunk, i), depth', locals')
  BY <1>1, <1>3, <1>6, <1>7, WriteStep DEF Writes, i
<1>. QED
  BY <1>5, <1>6, <1>8 DEF Continues, Writes

LEMMA WriteContinues ==
    ASSUME Compiling, todo # << >>, todo[1].do \notin Awaiting \cup {"whileBody"},
           NEW e \in [op : Ops, n : Nat, var : Nat],
           NEW items \in Seq(Items), Whiles(items) = {}, Writes(e, items), loop' = loop
    PROVE  Continues
<1>1. Compiled(todo, loop, chunk, depth, locals) /\ loop \in Loops
  BY DEF Compiling, Compiled
<1>2. /\ Unfinished(todo, loop) \subseteq Unfinished(items \o Tail(todo), loop)
      /\ InLoop(items, todo, loop, loop, locals')
  BY <1>1, SameWaiting
<1>. QED
  BY <1>1, <1>2, WriteInLoop

\* The first item is done with, and the locals are what they were.
WritesAlone(e) ==
    /\ CASE e.op \in Pops -> Len(locals) <= depth - 1
         [] e.op = "dup" -> /\ Len(locals) = depth /\ Len(locals) > 0
                            /\ locals[Len(locals)] = e.var
         [] e.op = "combine" -> Len(locals) <= depth - e.n /\ e.n <= depth
         [] OTHER -> Len(locals) <= depth
    /\ e.op \in {"getLocal", "setLocal"} =>
         e.n \in 1 .. Len(locals) /\ locals[e.n] = e.var
    /\ e.op \in Jumps =>
         /\ e.n \in 1 .. Len(chunk) + 1
         /\ Leads(Instruction(e, depth, locals), Height(chunk, depth, e.n),
                  Placed(chunk, locals, e.n))
    /\ chunk' = Append(chunk, Instruction(e, depth, locals))
    /\ Raised(depth, e.op, e.n) = Len(locals) + Left(todo[1])
    /\ depth' = Raised(depth, e.op, e.n) /\ locals' = locals /\ loop' = loop
    /\ todo' = << >> \o Tail(todo)

LEMMA WriteAlone ==
    ASSUME Compiling, todo # << >>, todo[1].do \in {"stmt", "expr", "emit"},
           Left(todo[1]) \in Nat,
           NEW e \in [op : Ops, n : Nat, var : Nat], WritesAlone(e)
    PROVE  Continues
<1>1. /\ Compiled(todo, loop, chunk, depth, locals) /\ todo[1].do # "stmts"
      /\ depth \in Nat /\ locals \in Seq(Nat) /\ Len(locals) \in Nat
  BY DEF Compiling, Compiled
<1>2. Base(todo, locals) = Len(locals)
  BY <1>1 DEF Base
<1>3. depth' = Len(locals) + Left(todo[1]) /\ depth' \in Nat /\ locals' \in Seq(Nat)
  BY <1>1 DEF WritesAlone
<1>4. FitsNone(todo, locals, depth', locals')
  BY <1>1, <1>2, <1>3 DEF FitsNone, WritesAlone
<1>5. /\ << >> \in Seq(Items) /\ Whiles(<< >>) = {}
      /\ Chained(<< >>, todo[1], depth', locals') /\ InOrder(<< >>, todo, locals, locals')
      /\ InScope(<< >>, todo, chunk', locals, locals')
  BY <1>1, <1>3, <1>4, NoItem
<1>6. Leads(Instruction(e, depth, locals), depth', locals')
  <2>1. Leads(Instruction(e, depth, locals), Raised(depth, e.op, e.n), locals)
    <3>1. CASE e.op \in Pops
      BY <1>1, <3>1, LeadsOn DEF WritesAlone, Pops
    <3>2. CASE e.op = "dup"
      BY <1>1, <3>2, LeadsOn DEF WritesAlone, Pops
    <3>3. CASE e.op = "combine"
      BY <1>1, <3>3, LeadsOn DEF WritesAlone, Pops
    <3>4. CASE e.op \notin Pops \cup {"dup", "combine"}
      BY <1>1, <3>4, LeadsOn DEF WritesAlone, Pops
    <3>. QED
      BY <3>1, <3>2, <3>3, <3>4
  <2>. QED
    BY <2>1 DEF WritesAlone
<1>7. Writes(e, << >>)
  <2>1. e.op = "combine" => e.n <= depth
    BY DEF WritesAlone, Pops
  <2>. QED
    BY <1>3, <1>5, <1>6, <2>1 DEF Writes, WritesAlone
<1>8. todo[1].do \notin Awaiting \cup {"whileBody"}
  BY DEF Awaiting
<1>9. loop' = loop
  BY DEF WritesAlone
<1>. QED
  BY <1>5, <1>7, <1>8, <1>9, WriteContinues

LEMMA CodeFacts ==
    ASSUME NEW op \in Ops, NEW n \in Nat, NEW var \in Nat
    PROVE  /\ Code(op, n, var) \in [op : Ops, n : Nat, var : Nat]
           /\ Code(op, n, var).op = op /\ Code(op, n, var).n = n /\ Code(op, n, var).var = var
  BY DEF Code

LEMMA LeafStep ==
    ASSUME Compiling, Leaf
    PROVE  Continues
<1>. DEFINE e == Code("push", 0, 0)
<1>1. /\ todo # << >> /\ todo[1].do = "expr" /\ depth = Len(locals) + Above(todo[1])
      /\ Len(locals) \in Nat /\ todo[1] \in Items
  BY DoingFacts DEF Leaf
<1>2. todo[1].above \in Nat
  BY <1>1, ItemFacts
<1>3. Above(todo[1]) = todo[1].above /\ Left(todo[1]) = todo[1].above + 1
  BY <1>1 DEF Above, Left
<1>4. "push" \in Ops /\ "push" \notin Pops \cup Jumps
  BY DEF Ops, Pushes, Pops, Jumps
<1>5. e \in [op : Ops, n : Nat, var : Nat] /\ e.op = "push" /\ e.n = 0
  BY <1>4, CodeFacts
<1>6. /\ chunk' = Append(chunk, Instruction(e, depth, locals))
      /\ depth' = Raised(depth, e.op, e.n) /\ locals' = locals /\ loop' = loop
      /\ todo' = << >> \o Tail(todo)
  BY <1>5 DEF Leaf, Emit, Only, Then
<1>7. Raised(depth, e.op, e.n) = depth + 1
  BY <1>5 DEF Raised, Pushes, Pops
<1>. HIDE DEF e
<1>8. WritesAlone(e)
  BY <1>1, <1>2, <1>3, <1>4, <1>5, <1>6, <1>7 DEF WritesAlone
<1>. QED
  BY <1>1, <1>2, <1>3, <1>5, <1>8, WriteAlone

LEMMA GetLocalStep ==
    ASSUME Compiling, NEW j \in DOMAIN locals, GetLocal(j)
    PROVE  Continues
<1>. DEFINE who == locals[j]
            e == Code("getLocal", j, who)
<1>1. /\ todo # << >> /\ todo[1].do = "expr" /\ depth = Len(locals) + Above(todo[1])
      /\ Len(locals) \in Nat /\ todo[1] \in Items /\ locals \in Seq(Nat)
  BY DoingFacts DEF GetLocal
<1>2. todo[1].above \in Nat
  BY <1>1, ItemFacts
<1>3. Above(todo[1]) = todo[1].above /\ Left(todo[1]) = todo[1].above + 1
  BY <1>1 DEF Above, Left
<1>4. "getLocal" \in Ops /\ "getLocal" \notin Pops \cup Jumps
  BY DEF Ops, Pushes, Pops, Jumps
<1>5. j \in 1 .. Len(locals) /\ j \in Nat /\ who \in Nat /\ who = locals[j]
  BY <1>1
<1>. HIDE DEF who
<1>6. /\ e \in [op : Ops, n : Nat, var : Nat]
      /\ e.op = "getLocal" /\ e.n = j /\ e.var = who
  BY <1>4, <1>5, CodeFacts
<1>7. /\ chunk' = Append(chunk, Instruction(e, depth, locals))
      /\ depth' = Raised(depth, e.op, e.n) /\ locals' = locals /\ loop' = loop
      /\ todo' = << >> \o Tail(todo)
  BY <1>5, <1>6 DEF GetLocal, Emit, Only, Then
<1>8. Raised(depth, e.op, e.n) = depth + 1
  BY <1>6 DEF Raised, Pushes, Pops
<1>. HIDE DEF e
<1>9. WritesAlone(e)
  <2>1. e.n \in 1 .. Len(locals) /\ locals[e.n] = e.var
    BY <1>5, <1>6
  <2>2. e.op \notin Pops /\ e.op # "dup" /\ e.op # "combine" /\ e.op \notin Jumps
    BY <1>4, <1>6
  <2>3. Len(locals) <= depth /\ depth + 1 = Len(locals) + Left(todo[1])
    BY SMTT(30), <1>1, <1>2, <1>3
  <2>4. Raised(depth, e.op, e.n) = Len(locals) + Left(todo[1])
    BY <1>8, <2>3
  <2>. QED
    BY <1>7, <2>1, <2>2, <2>3, <2>4 DEF WritesAlone
<1>. QED
  BY <1>1, <1>2, <1>3, <1>6, <1>9, WriteAlone

\* The opcode of an expression, or of a statement, once its operands have been compiled.
LEMMA WrittenStep ==
    ASSUME Compiling, Written
    PROVE  Continues
<1>. DEFINE e == todo[1].code
<1>1. /\ todo # << >> /\ todo[1].do = "emit" /\ depth = Len(locals) + Above(todo[1])
      /\ Len(locals) \in Nat /\ todo[1] \in Items /\ Head(todo) = todo[1] /\ depth \in Nat
  BY DoingFacts DEF Written
<1>2. /\ todo[1].above \in Nat /\ e \in [op : Ops, n : Nat, var : Nat]
      /\ e.op \in Ops /\ e.n \in Nat
  BY <1>1 DEF Items
<1>3. Above(todo[1]) = todo[1].above
  BY <1>1 DEF Above
<1>4. Left(todo[1]) = Raised(todo[1].above, e.op, e.n)
  BY <1>1 DEF Left
<1>5. Writable(todo[1], locals)
  BY <1>1, HeadFacts DEF Compiling, Compiled, Ordered
<1>6. /\ e.op \in {"push", "dup", "pop", "return", "combine", "setLocal"}
      /\ e.op = "combine" => e.n <= todo[1].above
      /\ e.op \in {"pop", "return"} => todo[1].above = 1
      /\ e.op = "setLocal" => e.n \in 1 .. Len(locals) /\ locals[e.n] = e.var
      /\ e.op = "dup" => /\ todo[1].above = 0 /\ Len(locals) > 0
                         /\ locals[Len(locals)] = e.var
  BY <1>5 DEF Writable
<1>7. /\ chunk' = Append(chunk, Instruction(e, depth, locals))
      /\ depth' = Raised(depth, e.op, e.n) /\ locals' = locals /\ loop' = loop
      /\ todo' = << >> \o Tail(todo)
  <2>1. Code(e.op, e.n, e.var) = e
    BY <1>2 DEF Code
  <2>. QED
    BY <1>1, <2>1 DEF Written, Emit, Only, Then
<1>. HIDE DEF e
<1>8. /\ Raised(depth, e.op, e.n) = Len(locals) + Raised(todo[1].above, e.op, e.n)
      /\ Raised(todo[1].above, e.op, e.n) \in Nat
  <2>1. depth = Len(locals) + todo[1].above
    BY <1>1, <1>3
  <2>2. /\ Raised(Len(locals) + todo[1].above, e.op, e.n)
             = Len(locals) + Raised(todo[1].above, e.op, e.n)
        /\ Raised(todo[1].above, e.op, e.n) \in Nat
    <3>. DEFINE op == e.op
                n == e.n
                up == todo[1].above
                k == Len(locals)
    <3>1. /\ op \in {"push", "dup", "pop", "return", "combine", "setLocal"}
          /\ n \in Nat /\ k \in Nat /\ up \in Nat
          /\ op = "combine" => n <= up
          /\ op \in {"pop", "return"} => up = 1
      BY <1>1, <1>2, <1>6
    <3>. HIDE DEF op, n, up, k
    <3>2. Raised(k + up, op, n) = k + Raised(up, op, n) /\ Raised(up, op, n) \in Nat
      <4>1. CASE op \in {"push", "dup"}
        BY <3>1, <4>1 DEF Raised, Pushes, Pops
      <4>2. CASE op \in {"pop", "return"}
        BY <3>1, <4>2 DEF Raised, Pushes, Pops
      <4>3. CASE op = "combine"
        BY <3>1, <4>3 DEF Raised, Pushes, Pops
      <4>4. CASE op = "setLocal"
        BY <3>1, <4>4 DEF Raised, Pushes, Pops
      <4>. QED
        BY <3>1, <4>1, <4>2, <4>3, <4>4
    <3>. QED
      BY <3>2 DEF op, n, up, k
  <2>. QED
    BY <2>1, <2>2
<1>9. WritesAlone(e)
  <2>1. /\ e.op \in Pops => Len(locals) <= depth - 1
        /\ e.op = "dup" => /\ Len(locals) = depth /\ Len(locals) > 0
                           /\ locals[Len(locals)] = e.var
        /\ e.op = "combine" => Len(locals) <= depth - e.n /\ e.n <= depth
        /\ Len(locals) <= depth
    BY <1>1, <1>2, <1>3, <1>6 DEF Pops
  <2>2. e.op \notin Jumps /\ e.op # "getLocal"
    BY <1>6 DEF Jumps
  <2>. QED
    BY <1>4, <1>6, <1>7, <1>8, <2>1, <2>2 DEF WritesAlone
<1>. QED
  BY <1>1, <1>2, <1>4, <1>8, <1>9, WriteAlone

\* The loop that the compiler is in starts where a statement finds the stack now.
LEMMA ContinueStep ==
    ASSUME Compiling, Continue
    PROVE  Continues
<1>. DEFINE e == Code("jump", loop.start, 0)
<1>1. /\ todo # << >> /\ todo[1].do = "stmt" /\ depth = Len(locals) + Above(todo[1])
      /\ Len(locals) \in Nat /\ loop \in Loops /\ locals \in Seq(Nat)
      /\ depth \in Nat
  BY DoingFacts DEF Continue
<1>2. Above(todo[1]) = 0 /\ Left(todo[1]) = 0
  BY <1>1 DEF Above, Left
<1>3. /\ loop.inside /\ loop.locals = Len(locals) /\ loop.start \in Nat
  BY <1>1, LoopFacts DEF Continue, LeavesNoLocal
<1>4. /\ loop.start \in 1 .. Len(chunk) + 1
      /\ Height(chunk, depth, loop.start) = Len(locals)
      /\ Placed(chunk, locals, loop.start) = SubSeq(locals, 1, Len(locals))
  <2>1. loop # NoLoop
    BY <1>3, LoopFacts
  <2>2. LoopSound(chunk, depth, locals, loop)
    BY DEF Compiling, Compiled, LoopsSound
  <2>. QED
    BY <1>3, <2>1, <2>2 DEF LoopSound
<1>5. SubSeq(locals, 1, Len(locals)) = locals
  BY <1>1
<1>6. "jump" \in Ops /\ "jump" \notin Pops /\ "jump" \in Jumps
  BY DEF Ops, Pops, Jumps
<1>7. e \in [op : Ops, n : Nat, var : Nat] /\ e.op = "jump" /\ e.n = loop.start
  BY <1>3, <1>6, CodeFacts
<1>8. /\ chunk' = Append(chunk, Instruction(e, depth, locals))
      /\ depth' = Raised(depth, e.op, e.n) /\ locals' = locals /\ loop' = loop
      /\ todo' = << >> \o Tail(todo)
  BY <1>7 DEF Continue, Emit, Only, Then
<1>9. Raised(depth, e.op, e.n) = depth
  BY <1>7 DEF Raised, Pushes, Pops
<1>. HIDE DEF e
<1>10. Leads(Instruction(e, depth, locals), depth, locals)
  BY <1>1, <1>2, <1>6, <1>7, <1>9, LeadsOn
<1>11. /\ e.n \in 1 .. Len(chunk) + 1
       /\ Leads(Instruction(e, depth, locals), Height(chunk, depth, e.n),
                Placed(chunk, locals, e.n))
  BY <1>1, <1>2, <1>4, <1>5, <1>7, <1>10
<1>12. WritesAlone(e)
  <2>1. Len(locals) <= depth /\ depth = Len(locals) + Left(todo[1])
    BY <1>1, <1>2
  <2>. QED
    BY <1>6, <1>7, <1>8, <1>9, <1>11, <2>1 DEF WritesAlone
<1>. QED
  BY <1>1, <1>2, <1>7, <1>12, WriteAlone

\* The table has room for the new local.
LEMMA LocalAdded ==
    ASSUME locals \in Seq(Nat), declared \in Nat, NotRefused, AddLocal
    PROVE  /\ locals' = Append(locals, declared + 1) /\ locals' \in Seq(Nat)
           /\ Len(locals) \in Nat /\ Len(locals') = Len(locals) + 1
           /\ \A j \in 1 .. Len(locals) : locals'[j] = locals[j]
           /\ locals'[Len(locals) + 1] = declared + 1
<1>1. Len(locals) \in Nat /\ Len(locals) # MaxLocals
  BY BoundsAssumption DEF NotRefused
<1>2. locals' = Append(locals, declared + 1)
  BY <1>1 DEF AddLocal
<1>. QED
  BY <1>1, <1>2

\* The value of an assignment to a new name: the copy is the local.
LEMMA BindStep ==
    ASSUME Compiling, declared \in Nat, NotRefused, Bind
    PROVE  Continues
<1>. DEFINE e == Code("dup", 0, declared + 1)
<1>1. /\ todo # << >> /\ todo[1].do = "bind" /\ depth = Len(locals) + Above(todo[1])
      /\ Len(locals) \in Nat /\ locals \in Seq(Nat) /\ depth \in Nat
      /\ Compiled(todo, loop, chunk, depth, locals)
  BY DoingFacts DEF Bind, Compiling
<1>2. Above(todo[1]) = 1 /\ Left(todo[1]) = 1
  BY <1>1 DEF Above, Left
<1>3. /\ locals' = Append(locals, declared + 1) /\ locals' \in Seq(Nat)
      /\ Len(locals') = Len(locals) + 1
      /\ \A j \in 1 .. Len(locals) : locals'[j] = locals[j]
  BY <1>1, LocalAdded DEF Bind
<1>4. "dup" \in Ops /\ "dup" \notin Pops \cup Jumps /\ "dup" \in Pushes
  BY DEF Ops, Pushes, Pops, Jumps
<1>5. e \in [op : Ops, n : Nat, var : Nat] /\ e.op = "dup" /\ e.n = 0 /\ e.var = declared + 1
  BY <1>4, CodeFacts
<1>6. /\ chunk' = Append(chunk, Instruction(e, depth, locals))
      /\ depth' = Raised(depth, e.op, e.n) /\ loop' = loop
      /\ todo' = << >> \o Tail(todo)
  BY <1>5 DEF Bind, Emit, Then
<1>7. Raised(depth, e.op, e.n) = depth + 1
  BY <1>4, <1>5 DEF Raised
<1>. HIDE DEF e
<1>8. Leads(Instruction(e, depth, locals), depth', locals')
  BY <1>1, <1>2, <1>3, <1>5, <1>6, <1>7, LeadsToLocal
<1>9. FitsNone(todo, locals, depth', locals')
  <2>1. Declarable(todo)
    BY <1>1, HeadFacts DEF Compiled, Ordered
  <2>2. Base(todo, locals) = Len(locals)
    BY <1>1 DEF Base
  <2>. QED
    BY <1>1, <1>2, <1>3, <1>6, <1>7, <2>1, <2>2 DEF FitsNone, Inner
<1>10. /\ << >> \in Seq(Items) /\ Whiles(<< >>) = {}
       /\ Chained(<< >>, todo[1], depth', locals') /\ InOrder(<< >>, todo, locals, locals')
       /\ InScope(<< >>, todo, chunk', locals, locals')
  BY <1>1, <1>3, <1>9, NoItem
<1>11. Writes(e, << >>)
  <2>1. depth' \in Nat
    BY <1>1, <1>6, <1>7
  <2>. QED
    BY <1>3, <1>4, <1>5, <1>6, <1>8, <1>10, <2>1 DEF Writes
<1>. QED
  BY <1>1, <1>5, <1>6, <1>10, <1>11, WriteContinues DEF Awaiting

LEMMA DupWrite ==
    ASSUME NEW who \in Nat
    PROVE  LET b == Write("dup", 0, who, 0) IN
           /\ b \in Items /\ b.do = "emit" /\ b.above = 0
           /\ b.code.op = "dup" /\ b.code.n = 0 /\ b.code.var = who
<1>1. "dup" \in Ops
  BY DEF Ops, Pushes
<1>2. Code("dup", 0, who) \in [op : Ops, n : Nat, var : Nat]
  BY <1>1, CodeFacts
<1>3. Write("dup", 0, who, 0) \in Items
  BY <1>2 DEF Write, Items
<1>. QED
  BY <1>3 DEF Write, Code

\* A function that is given a new name is in its slot once it is pushed.
LEMMA NewFunctionStep ==
    ASSUME Compiling, declared \in Nat, NotRefused, NewFunction
    PROVE  Continues
<1>. DEFINE e == Code("push", 0, declared + 1)
            a == Write("dup", 0, declared + 1, 0)
<1>1. /\ todo # << >> /\ todo[1].do = "expr" /\ depth = Len(locals) + Above(todo[1])
      /\ Len(locals) \in Nat /\ locals \in Seq(Nat) /\ depth \in Nat /\ todo[1] \in Items
      /\ Compiled(todo, loop, chunk, depth, locals)
      /\ depth = Len(locals) /\ Declarable(todo)
  BY DoingFacts DEF NewFunction, Compiling, InPlace
<1>2. Above(todo[1]) = 0 /\ Left(todo[1]) = 1
  <2>1. todo[1].above \in Nat
    BY <1>1, ItemFacts
  <2>. QED
    BY <1>1, <2>1 DEF Above, Left
<1>3. /\ locals' = Append(locals, declared + 1) /\ locals' \in Seq(Nat)
      /\ Len(locals') = Len(locals) + 1
      /\ \A j \in 1 .. Len(locals) : locals'[j] = locals[j]
      /\ locals'[Len(locals) + 1] = declared + 1
  BY <1>1, LocalAdded DEF NewFunction
<1>4. "push" \in Ops /\ "push" \notin Pops \cup Jumps /\ "push" \in Pushes
  BY DEF Ops, Pushes, Pops, Jumps
<1>5. e \in [op : Ops, n : Nat, var : Nat] /\ e.op = "push" /\ e.n = 0 /\ e.var = declared + 1
  BY <1>4, CodeFacts
<1>6. /\ chunk' = Append(chunk, Instruction(e, depth, locals))
      /\ depth' = Raised(depth, e.op, e.n) /\ loop' = loop
      /\ todo' = <<a>> \o Tail(todo)
  BY <1>5 DEF NewFunction, Emit, Then
<1>7. Raised(depth, e.op, e.n) = depth + 1
  BY <1>4, <1>5 DEF Raised
<1>8. /\ a \in Items /\ a.do = "emit" /\ a.above = 0
      /\ a.code.op = "dup" /\ a.code.n = 0 /\ a.code.var = declared + 1
  <2>. DEFINE who == declared + 1
  <2>1. who \in Nat
    OBVIOUS
  <2>. HIDE DEF who
  <2>. QED
    BY <2>1, DupWrite DEF who
<1>. HIDE DEF e, a
<1>9. Leads(Instruction(e, depth, locals), depth', locals')
  BY <1>1, <1>3, <1>5, <1>6, <1>7, LeadsToLocal
<1>10. Above(a) = 0 /\ Left(a) = 1
  BY <1>8 DEF Above, Left, Raised, Pushes, Pops
<1>11. Writable(a, locals')
  BY <1>1, <1>3, <1>8 DEF Writable
<1>12. FitsOne(todo, locals, a, chunk', depth', locals')
  BY <1>1, <1>2, <1>3, <1>6, <1>7, <1>8, <1>10, <1>11 DEF FitsOne, Inner, Awaiting
<1>. DEFINE items == <<a>>
<1>13. /\ items \in Seq(Items) /\ Whiles(items) = {}
       /\ Chained(items, todo[1], depth', locals') /\ InOrder(items, todo, locals, locals')
       /\ InScope(items, todo, chunk', locals, locals')
  BY <1>1, <1>3, <1>8, <1>12, OneItem
<1>. HIDE DEF items
<1>14. Writes(e, items)
  <2>1. depth' \in Nat
    BY <1>1, <1>6, <1>7
  <2>2. todo' = items \o Tail(todo)
    BY <1>6 DEF items
  <2>. QED
    BY <1>3, <1>4, <1>5, <1>6, <1>9, <1>13, <2>1, <2>2 DEF Writes
<1>. QED
  BY <1>1, <1>5, <1>6, <1>13, <1>14, WriteContinues DEF Awaiting

\* The jump that has just been written waits with the locals there are.
LEMMA NewJump ==
    ASSUME NEW c \in Seq(Instructions), NEW s \in Seq(Nat), NEW d \in Nat,
           NEW e \in [op : Ops, n : Nat, var : Nat],
           \/ e.op = "jump" /\ d = Len(s)
           \/ e.op = "jumpIfFalse" /\ d = Len(s) + 1
    PROVE  LET c2 == Append(c, Instruction(e, d, s)) IN
           /\ c2 \in Seq(Instructions) /\ Len(c2) = Len(c) + 1
           /\ JumpFrom(c2, s, Len(c) + 1, Len(s)) /\ c2[Len(c) + 1].op = e.op
<1>. DEFINE i == Instruction(e, d, s)
            c2 == Append(c, i)
<1>1. i \in Instructions /\ i.op = e.op /\ i.height = d /\ i.placed = s
  BY InstructionFields
<1>. HIDE DEF i
<1>2. /\ c2 \in Seq(Instructions) /\ Len(c) \in Nat /\ Len(c2) = Len(c) + 1
      /\ c2[Len(c) + 1] = i
  BY <1>1, AppendFacts
<1>3. SubSeq(s, 1, Len(s)) = s /\ Len(s) \in Nat
  OBVIOUS
<1>. HIDE DEF c2
<1>4. JumpFrom(c2, s, Len(c) + 1, Len(s))
  <2>. DEFINE j == Len(c) + 1
  <2>1. j \in 1 .. Len(c2) /\ c2[j] = i
    BY <1>2
  <2>. HIDE DEF j
  <2>2. c2[j].op \in Jumps
    BY <1>1, <2>1 DEF Jumps
  <2>3. c2[j].height = IF c2[j].op = "jump" THEN Len(s) ELSE Len(s) + 1
    BY <1>1, <2>1
  <2>4. c2[j].placed = SubSeq(s, 1, Len(s))
    BY <1>1, <1>3, <2>1
  <2>5. Len(s) <= Len(s)
    <3>1. Len(s) \in Nat
      OBVIOUS
    <3>. QED
      BY <3>1
  <2>6. JumpFrom(c2, s, j, Len(s))
    BY <2>1, <2>2, <2>3, <2>4, <2>5 DEF JumpFrom
  <2>. QED
    BY <2>6 DEF j
<1>. QED
  BY <1>1, <1>2, <1>4 DEF c2, i

\* The condition is taken off the stack, and the jump waits for the end of the true case.
LEMMA ThenCaseStep ==
    ASSUME Compiling, ThenCase
    PROVE  Continues
<1>. DEFINE e == Code("jumpIfFalse", Unpatched, 0)
            where == Len(chunk) + 1
            b == [do |-> "else", jump |-> where]
            items == <<Statement, b>>
<1>1. /\ todo # << >> /\ todo[1].do = "then" /\ depth = Len(locals) + Above(todo[1])
      /\ Len(locals) \in Nat /\ locals \in Seq(Nat) /\ depth \in Nat
      /\ chunk \in Seq(Instructions) /\ where \in Nat
      /\ Compiled(todo, loop, chunk, depth, locals)
  BY DoingFacts DEF ThenCase, Compiling
<1>2. Above(todo[1]) = 1 /\ Left(todo[1]) = 0
  BY <1>1 DEF Above, Left
<1>3. "jumpIfFalse" \in Ops /\ "jumpIfFalse" \in Pops /\ "jumpIfFalse" \notin Pushes
  BY DEF Ops, Pushes, Pops
<1>4. e \in [op : Ops, n : Nat, var : Nat] /\ e.op = "jumpIfFalse" /\ e.n = Unpatched
  BY <1>3, CodeFacts DEF Unpatched
<1>5. /\ chunk' = Append(chunk, Instruction(e, depth, locals))
      /\ depth' = Raised(depth, e.op, e.n) /\ locals' = locals /\ loop' = loop
      /\ todo' = items \o Tail(todo)
  BY <1>4 DEF ThenCase, Emit, Only, Then
<1>6. Raised(depth, e.op, e.n) = Len(locals) /\ depth = Len(locals) + 1
  BY <1>1, <1>2, <1>3, <1>4 DEF Raised
<1>. HIDE DEF e, where
<1>7. b \in Items /\ b.do = "else" /\ b.jump = where
  BY <1>1, ItemKinds
<1>8. Statement \in Items /\ Statement.do = "stmt"
  BY ItemKinds
<1>. HIDE DEF b
<1>9. JumpFrom(chunk', locals, where, Len(locals))
  BY <1>1, <1>4, <1>5, <1>6, NewJump DEF where
<1>10. Above(Statement) = 0 /\ Left(Statement) = 0 /\ Above(b) = 0 /\ Left(b) = 0
  BY <1>7, <1>8 DEF Above, Left
<1>11. FitsTwo(todo, locals, Statement, b, chunk', depth')
  BY <1>1, <1>2, <1>5, <1>6, <1>7, <1>8, <1>9, <1>10 DEF FitsTwo, Inner
<1>12. /\ items \in Seq(Items) /\ Whiles(items) = {} /\ Len(items) = 2 /\ items[2] = b
       /\ Chained(items, todo[1], depth', locals) /\ InOrder(items, todo, locals, locals)
       /\ InScope(items, todo, chunk', locals, locals)
  BY <1>1, <1>7, <1>8, <1>11, TwoItems
<1>. HIDE DEF items
<1>13. where \in Unfinished(items \o Tail(todo), loop)
  <2>1. items[2].do \in Awaiting => items[2].jump \in Unfinished(items \o Tail(todo), loop)
    <3>1. 2 \in 1 .. Len(items) /\ todo \in Seq(Items)
      BY <1>1, <1>12 DEF Compiled
    <3>2. \A n \in 1 .. Len(items) :
            items[n].do \in Awaiting => items[n].jump \in Unfinished(items \o Tail(todo), loop)
      BY <1>1, <1>12, <3>1, UnfinishedItems
    <3>. QED
      BY <3>1, <3>2
  <2>. QED
    BY <1>7, <1>12, <2>1 DEF Awaiting
<1>14. Leads(Instruction(e, depth, locals), depth', locals')
  <2>1. e.op \in Pops /\ e.op # "dup" /\ e.op # "combine" /\ Len(locals) <= depth - 1
    BY <1>1, <1>3, <1>4, <1>6
  <2>2. Leads(Instruction(e, depth, locals), Raised(depth, e.op, e.n), locals)
    BY <1>1, <1>4, <2>1, LeadsOn
  <2>. QED
    BY <1>5, <2>2
<1>15. Writes(e, items)
  BY <1>1, <1>4, <1>5, <1>6, <1>12, <1>13, <1>14 DEF Writes, where
<1>. QED
  BY <1>1, <1>4, <1>5, <1>12, <1>15, WriteContinues DEF Awaiting

\* The condition of a loop: the jump waits for its end, and so does what the compiler
\* was in before.
LEMMA WhileBodyStep ==
    ASSUME Compiling, WhileBody
    PROVE  Continues
<1>. DEFINE e == Code("jumpIfFalse", Unpatched, 0)
            where == Len(chunk) + 1
            outer == todo[1].outer
            b == [do |-> "endWhile", outer |-> outer, jump |-> where]
            items == <<Statement, b>>
<1>1. /\ todo # << >> /\ todo[1].do = "whileBody" /\ depth = Len(locals) + Above(todo[1])
      /\ Len(locals) \in Nat /\ locals \in Seq(Nat) /\ depth \in Nat
      /\ chunk \in Seq(Instructions) /\ where \in Nat /\ Head(todo) = todo[1]
      /\ Compiled(todo, loop, chunk, depth, locals) /\ todo[1] \in Items
      /\ todo \in Seq(Items) /\ loop \in Loops
  BY DoingFacts DEF WhileBody, Compiling, Compiled
<1>2. Above(todo[1]) = 1 /\ Left(todo[1]) = 0 /\ outer \in Loops
  BY <1>1, ItemFacts DEF Above, Left
<1>3. "jumpIfFalse" \in Ops /\ "jumpIfFalse" \in Pops /\ "jumpIfFalse" \notin Pushes
  BY DEF Ops, Pushes, Pops
<1>4. e \in [op : Ops, n : Nat, var : Nat] /\ e.op = "jumpIfFalse" /\ e.n = Unpatched
  BY <1>3, CodeFacts DEF Unpatched
<1>5. /\ chunk' = Append(chunk, Instruction(e, depth, locals))
      /\ depth' = Raised(depth, e.op, e.n) /\ locals' = locals /\ loop' = loop
      /\ todo' = items \o Tail(todo)
  BY <1>1, <1>4 DEF WhileBody, Emit, Only, Then
<1>6. Raised(depth, e.op, e.n) = Len(locals) /\ depth = Len(locals) + 1
  BY <1>1, <1>2, <1>3, <1>4 DEF Raised
<1>. HIDE DEF e, where, outer
<1>7. b \in Items /\ b.do = "endWhile" /\ b.jump = where /\ b.outer = outer
  BY <1>1, <1>2, ItemKinds
<1>8. Statement \in Items /\ Statement.do = "stmt"
  BY ItemKinds
<1>. HIDE DEF b
<1>9. JumpFrom(chunk', locals, where, Len(locals))
  BY <1>1, <1>4, <1>5, <1>6, NewJump DEF where
<1>10. Above(Statement) = 0 /\ Left(Statement) = 0 /\ Above(b) = 0 /\ Left(b) = 0
  BY <1>7, <1>8 DEF Above, Left
<1>11. FitsTwo(todo, locals, Statement, b, chunk', depth')
  BY <1>1, <1>2, <1>5, <1>6, <1>7, <1>8, <1>9, <1>10 DEF FitsTwo, Inner
<1>12. /\ items \in Seq(Items) /\ Whiles(items) = {2} /\ Len(items) = 2
       /\ items[1] = Statement /\ items[2] = b
       /\ Chained(items, todo[1], depth', locals) /\ InOrder(items, todo, locals, locals)
       /\ InScope(items, todo, chunk', locals, locals)
  BY <1>1, <1>7, <1>8, <1>11, TwoItems
<1>. HIDE DEF items
<1>13. /\ where \in Unfinished(items \o Tail(todo), loop)
       /\ \A j \in loop.breaks : j \in Unfinished(items \o Tail(todo), loop)
       /\ \A j \in outer.breaks : j \in Unfinished(items \o Tail(todo), loop)
  <2>1. /\ \A j \in loop.breaks : j \in Unfinished(items \o Tail(todo), loop)
        /\ \A n \in 1 .. Len(items) :
             /\ items[n].do \in Awaiting => items[n].jump \in Unfinished(items \o Tail(todo), loop)
             /\ items[n].do \in {"whileBody", "endWhile"} =>
                  \A j \in items[n].outer.breaks : j \in Unfinished(items \o Tail(todo), loop)
    BY <1>1, <1>12, UnfinishedItems
  <2>2. 2 \in 1 .. Len(items)
    BY <1>12
  <2>. QED
    BY <1>7, <1>12, <2>1, <2>2 DEF Awaiting
<1>14. Leads(Instruction(e, depth, locals), depth', locals')
  <2>1. e.op \in Pops /\ e.op # "dup" /\ e.op # "combine" /\ Len(locals) <= depth - 1
    BY <1>1, <1>3, <1>4, <1>6
  <2>2. Leads(Instruction(e, depth, locals), Raised(depth, e.op, e.n), locals)
    BY <1>1, <1>4, <2>1, LeadsOn
  <2>. QED
    BY <1>5, <2>2
<1>15. Writes(e, items)
  BY <1>1, <1>4, <1>5, <1>6, <1>12, <1>13, <1>14 DEF Writes, where
<1>16. Unfinished(todo, loop) \subseteq Unfinished(items \o Tail(todo), loop)
  <2>1. todo[1].do \notin Awaiting
    BY <1>1 DEF Awaiting
  <2>2. Unfinished(todo, loop) \subseteq Unfinished(items \o Tail(todo), loop) \cup {}
    BY <1>1, <1>12, <1>13, <2>1, UnfinishedStep DEF outer
  <2>. QED
    BY <2>2
<1>17. InLoop(items, todo, loop, loop, locals)
  <2>1. loop.inside /\ loop.locals = Len(locals)
    <3>1. Around(todo, loop, loop, 1)
      BY DEF Around
    <3>2. 1 \in 1 .. Len(todo)
      BY <1>1, HeadFacts
    <3>. QED
      BY <1>1, <3>1, <3>2 DEF Compiled, Nested
  <2>2. Onward(todo, loop) = outer
    BY <1>1 DEF Onward, outer
  <2>. QED
    BY <1>7, <1>8, <1>12, <2>1, <2>2 DEF InLoop
<1>. QED
  BY <1>1, <1>4, <1>5, <1>12, <1>15, <1>16, <1>17, WriteInLoop

\* A break waits for the end of the loop the compiler is in.
LEMMA BreakStep ==
    ASSUME Compiling, Break
    PROVE  Continues
<1>. DEFINE e == Code("jump", Unpatched, 0)
            where == Len(chunk) + 1
            l2 == [loop EXCEPT !.breaks = @ \cup {where}]
<1>1. /\ todo # << >> /\ todo[1].do = "stmt" /\ depth = Len(locals) + Above(todo[1])
      /\ Len(locals) \in Nat /\ locals \in Seq(Nat) /\ depth \in Nat
      /\ chunk \in Seq(Instructions) /\ where \in Nat
      /\ Compiled(todo, loop, chunk, depth, locals)
      /\ todo \in Seq(Items) /\ loop \in Loops
  BY DoingFacts DEF Break, Compiling, Compiled
<1>2. Above(todo[1]) = 0 /\ Left(todo[1]) = 0
  BY <1>1 DEF Above, Left
<1>3. "jump" \in Ops /\ "jump" \notin Pops \cup Pushes
  BY DEF Ops, Pushes, Pops
<1>4. e \in [op : Ops, n : Nat, var : Nat] /\ e.op = "jump" /\ e.n = Unpatched
  BY <1>3, CodeFacts DEF Unpatched
<1>5. /\ chunk' = Append(chunk, Instruction(e, depth, locals))
      /\ depth' = Raised(depth, e.op, e.n) /\ locals' = locals /\ loop' = l2
      /\ todo' = << >> \o Tail(todo) /\ loop.inside /\ loop.locals = Len(locals)
  BY <1>1, <1>4 DEF Break, Emit, Then, LeavesNoLocal
<1>6. Raised(depth, e.op, e.n) = depth /\ depth = Len(locals)
  BY <1>1, <1>2, <1>3, <1>4 DEF Raised
<1>7. /\ l2 \in Loops /\ l2.inside = loop.inside /\ l2.locals = loop.locals
      /\ l2.start = loop.start /\ l2.breaks = loop.breaks \cup {where}
  BY <1>1 DEF Loops
<1>. HIDE DEF e, where, l2
<1>8. JumpFrom(chunk', locals, where, Len(locals)) /\ chunk'[where].op = "jump"
  BY <1>1, <1>4, <1>5, <1>6, NewJump DEF where
<1>9. FitsNone(todo, locals, depth', locals)
  <2>1. Base(todo, locals) = Len(locals)
    BY <1>1 DEF Base
  <2>. QED
    BY <1>1, <1>2, <1>5, <1>6, <2>1 DEF FitsNone
<1>10. /\ << >> \in Seq(Items) /\ Whiles(<< >>) = {}
       /\ Chained(<< >>, todo[1], depth', locals) /\ InOrder(<< >>, todo, locals, locals)
       /\ InScope(<< >>, todo, chunk', locals, locals)
  BY <1>1, <1>9, NoItem
<1>11. /\ where \in Unfinished(<< >> \o Tail(todo), l2)
       /\ \A j \in loop.breaks : j \in Unfinished(<< >> \o Tail(todo), l2)
  BY <1>7 DEF Unfinished
<1>12. Leads(Instruction(e, depth, locals), depth', locals')
  BY <1>1, <1>3, <1>4, <1>5, <1>6, LeadsOn
<1>13. Writes(e, << >>)
  BY <1>1, <1>4, <1>5, <1>6, <1>10, <1>11, <1>12 DEF Writes, where
<1>14. Unfinished(todo, loop) \subseteq Unfinished(<< >> \o Tail(todo), l2)
  <2>1. todo[1].do \notin Awaiting
    BY <1>1 DEF Awaiting
  <2>2. Unfinished(todo, loop) \subseteq Unfinished(<< >> \o Tail(todo), l2) \cup {}
    BY <1>1, <1>10, <1>11, <2>1, UnfinishedStep
  <2>. QED
    BY <2>2
<1>15. InLoop(<< >>, todo, loop, l2, locals)
  <2>1. Onward(todo, loop) = loop /\ loop # NoLoop
    BY <1>1, <1>5, LoopFacts DEF Onward
  <2>. QED
    BY <1>7, <1>10, <2>1 DEF InLoop
<1>16. LoopSound(chunk', depth', locals, l2)
  <2>. DEFINE i == Instruction(e, depth, locals)
  <2>1. i \in Instructions /\ i.height = depth /\ i.placed = locals
    BY <1>1, <1>4, InstructionFields
  <2>2. chunk' = Append(chunk, i) /\ depth' \in Nat
    BY <1>1, <1>5, <1>6
  <2>. HIDE DEF i
  <2>3. /\ Extended(chunk, depth, locals, chunk', depth', locals)
        /\ chunk' \in Seq(Instructions)
    BY <1>1, <2>1, <2>2, EmitExtends, AppendFacts
  <2>4. LoopSound(chunk', depth', locals, loop)
    BY <1>1, <1>10, <2>3, LoopKept
  <2>5. loop # NoLoop
    BY <1>5, LoopFacts
  <2>. QED
    BY <1>5, <1>7, <1>8, <2>4, <2>5 DEF LoopSound
<1>. QED
  BY <1>1, <1>4, <1>5, <1>7, <1>10, <1>13, <1>14, <1>15, <1>16, WriteInLoop

--------------------------------------------------------------------------------
(* Loops begin *)

LEMMA SoundStays ==
    ASSUME NEW c, NEW d, NEW s, NEW u, Sound(c, d, s, u), NEW u2, u \subseteq u2
    PROVE  Sound(c, d, s, u2)
  BY DEF Sound

\* A loop starts where its condition is compiled.
LEMMA WhileStep ==
    ASSUME Compiling, While
    PROVE  Continues
<1>. DEFINE l2 == [inside |-> TRUE, start |-> Len(chunk) + 1, breaks |-> {},
                   locals |-> Len(locals)]
            a == Expression(0)
            b == [do |-> "whileBody", outer |-> loop]
            items == <<a, b>>
<1>1. /\ todo # << >> /\ todo[1].do = "stmt" /\ depth = Len(locals) + Above(todo[1])
      /\ Len(locals) \in Nat /\ locals \in Seq(Nat) /\ depth \in Nat
      /\ chunk \in Seq(Instructions) /\ Len(chunk) \in Nat
      /\ Compiled(todo, loop, chunk, depth, locals)
      /\ todo \in Seq(Items) /\ loop \in Loops
      /\ Sound(chunk, depth, locals, Unfinished(todo, loop))
  BY DoingFacts DEF While, Compiling, Compiled
<1>2. Above(todo[1]) = 0 /\ Left(todo[1]) = 0
  BY <1>1 DEF Above, Left
<1>3. /\ l2 \in Loops /\ l2.inside /\ l2.start = Len(chunk) + 1 /\ l2.breaks = {}
      /\ l2.locals = Len(locals)
  BY <1>1 DEF Loops
<1>4. loop' = l2 /\ todo' = items \o Tail(todo) /\ UNCHANGED <<chunk, depth, locals>>
  BY DEF While, Then, code
<1>. HIDE DEF l2
<1>5. a \in Items /\ a.do = "expr" /\ a.above = 0
  BY ItemKinds
<1>6. b \in Items /\ b.do = "whileBody" /\ b.outer = loop
  BY <1>1, ItemKinds
<1>. HIDE DEF a, b
<1>7. Above(a) = 0 /\ Left(a) = 1 /\ Above(b) = 1 /\ Left(b) = 0
  BY <1>5, <1>6 DEF Above, Left
<1>8. FitsTwo(todo, locals, a, b, chunk, depth)
  BY <1>1, <1>2, <1>5, <1>6, <1>7 DEF FitsTwo, Inner, Awaiting
<1>9. /\ items \in Seq(Items) /\ Whiles(items) = {2} /\ Len(items) = 2
      /\ items[1] = a /\ items[2] = b
      /\ Chained(items, todo[1], depth, locals) /\ InOrder(items, todo, locals, locals)
      /\ InScope(items, todo, chunk, locals, locals)
  BY <1>1, <1>5, <1>6, <1>8, TwoItems
<1>. HIDE DEF items
<1>10. InLoop(items, todo, loop, l2, locals)
  <2>1. Onward(todo, loop) = loop
    BY <1>1 DEF Onward
  <2>. QED
    BY <1>3, <1>5, <1>6, <1>9, <2>1 DEF InLoop
<1>11. LoopSound(chunk, depth, locals, l2)
  <2>. DEFINE start == l2.start
  <2>1. start \in 1 .. Len(chunk) + 1 /\ ~(start <= Len(chunk))
    BY <1>1, <1>3
  <2>2. Height(chunk, depth, start) = depth /\ Placed(chunk, locals, start) = locals
    BY <2>1 DEF Height, Placed
  <2>3. SubSeq(locals, 1, Len(locals)) = locals /\ depth = Len(locals)
    BY <1>1, <1>2
  <2>. QED
    BY <1>1, <1>3, <2>1, <2>2, <2>3 DEF LoopSound
<1>12. Unfinished(todo, loop) \subseteq Unfinished(items \o Tail(todo), l2)
  <2>1. todo[1].do \notin Awaiting
    BY <1>1 DEF Awaiting
  <2>2. \A j \in loop.breaks : j \in Unfinished(items \o Tail(todo), l2)
    <3>1. 2 \in 1 .. Len(items)
      BY <1>9
    <3>2. items[2].do \in {"whileBody", "endWhile"} =>
            \A j \in items[2].outer.breaks : j \in Unfinished(items \o Tail(todo), l2)
      BY <1>1, <1>9, <3>1, UnfinishedItems
    <3>. QED
      BY <1>6, <1>9, <3>2
  <2>3. Unfinished(todo, loop) \subseteq Unfinished(items \o Tail(todo), l2) \cup {}
    BY <1>1, <1>9, <2>1, <2>2, UnfinishedStep
  <2>. QED
    BY <2>3
<1>13. Sound(chunk, depth, locals, Unfinished(items \o Tail(todo), l2))
  BY <1>1, <1>12, SoundStays
<1>14. Extended(chunk, depth, locals, chunk, depth, locals)
  BY <1>1, NothingWritten
<1>15. Compiled(items \o Tail(todo), l2, chunk, depth, locals)
  BY <1>1, <1>3, <1>9, <1>10, <1>11, <1>13, <1>14, CompileStep
<1>. QED
  BY <1>4, <1>14, <1>15 DEF Continues

--------------------------------------------------------------------------------
(* The actions that patch a jump *)

LEMMA ExtendedTwice ==
    ASSUME NEW c, NEW d, NEW s, NEW c1, NEW d1, NEW s1, NEW c2, NEW d2, NEW s2,
           Len(c) \in Nat, Len(c1) \in Nat, Len(c2) \in Nat,
           Extended(c, d, s, c1, d1, s1), Extended(c1, d1, s1, c2, d2, s2)
    PROVE  Extended(c, d, s, c2, d2, s2)
<1>1. Len(c) <= Len(c1) /\ Len(c1) <= Len(c2)
  BY DEF Extended
<1>2. /\ \A n \in 1 .. Len(c) : n \in 1 .. Len(c1)
      /\ \A n \in 1 .. Len(c) + 1 : n \in 1 .. Len(c1) + 1
  BY <1>1
<1>3. Len(c) <= Len(c2)
  BY <1>1
<1>4. \A n \in 1 .. Len(c) :
        c2[n].op = c[n].op /\ c2[n].height = c[n].height /\ c2[n].placed = c[n].placed
  BY <1>2 DEF Extended
<1>5. \A n \in 1 .. Len(c) + 1 :
        Height(c2, d2, n) = Height(c, d, n) /\ Placed(c2, s2, n) = Placed(c, s, n)
  BY <1>2 DEF Extended
<1>. QED
  BY <1>3, <1>4, <1>5 DEF Extended

\* Jumps that were emitted with the locals there are now.
AllHere(c, s, jumps) == \A j \in jumps : JumpFrom(c, s, j, Len(s))

LEMMA Patching ==
    ASSUME NEW c \in Seq(Instructions), NEW d \in Nat, NEW s \in Seq(Nat),
           NEW c1 \in Seq(Instructions), Extended(c, d, s, c1, d, s), d = Len(s),
           NEW u, Sound(c1, d, s, u),
           NEW jumps, AllHere(c, s, jumps), NEW u2, u \subseteq u2 \cup jumps
    PROVE  /\ Patched(c1, jumps) \in Seq(Instructions)
           /\ Extended(c, d, s, Patched(c1, jumps), d, s)
           /\ Sound(Patched(c1, jumps), d, s, u2)
<1>1. /\ Patched(c1, jumps) \in Seq(Instructions) /\ Len(c1) \in Nat
      /\ Len(c) \in Nat /\ Len(Patched(c1, jumps)) \in Nat /\ Len(s) \in Nat
  BY PatchFacts
<1>2. Extended(c1, d, s, Patched(c1, jumps), d, s)
  BY PatchExtends
<1>3. Extended(c, d, s, Patched(c1, jumps), d, s)
  BY <1>1, <1>2, ExtendedTwice
<1>4. ASSUME NEW j \in jumps
      PROVE  j \in 1 .. Len(c1) /\ c1[j].op \in Jumps /\ Leads(c1[j], d, s)
  <2>1. JumpFrom(c, s, j, Len(s))
    BY DEF AllHere
  <2>2. JumpFrom(c1, s, j, Len(s))
    <3>1. Len(s) <= Len(s) /\ \A k \in 1 .. Len(s) : s[k] = s[k]
      BY <1>1
    <3>. QED
      BY <1>1, <2>1, <3>1, JumpFromStays
  <2>. QED
    BY <2>2, JumpLeads
<1>5. Sound(Patched(c1, jumps), d, s, u2)
  BY <1>4, PatchSound
<1>. QED
  BY <1>1, <1>3, <1>5

\* The item that the compiler has come to waits with the locals there are now.
LEMMA AwaitingFacts ==
    ASSUME Compiling, todo # << >>, todo[1].do \in Awaiting
    PROVE  /\ JumpFrom(chunk, locals, todo[1].jump, Len(locals))
           /\ LocalsAt(chunk, todo[1]) = Len(locals)
           /\ depth = Len(locals) /\ Above(todo[1]) = 0 /\ Left(todo[1]) = 0
<1>1. Scoped(todo, chunk, locals) /\ 1 \in 1 .. Len(todo) /\ depth = Len(locals) + Above(todo[1])
      /\ Len(locals) \in Nat
  BY HeadFacts DEF Compiling, Compiled
<1>2. Quiet(todo, 1, 1)
  BY DEF Quiet, Awaiting
<1>3. Above(todo[1]) = 0 /\ Left(todo[1]) = 0
  BY DEF Above, Left, Awaiting
<1>. QED
  BY <1>1, <1>2, <1>3 DEF Scoped

LEMMA EndIfStep ==
    ASSUME Compiling, EndIf
    PROVE  Continues
<1>. DEFINE jumps == {todo[1].jump}
            c2 == Patched(chunk, jumps)
<1>1. /\ todo # << >> /\ todo[1].do = "endIf" /\ Head(todo) = todo[1]
      /\ Len(locals) \in Nat /\ locals \in Seq(Nat) /\ depth \in Nat
      /\ chunk \in Seq(Instructions) /\ Len(chunk) \in Nat
      /\ Compiled(todo, loop, chunk, depth, locals)
      /\ todo \in Seq(Items) /\ loop \in Loops
      /\ Sound(chunk, depth, locals, Unfinished(todo, loop))
  BY DoingFacts DEF EndIf, Compiling, Compiled
<1>2. /\ JumpFrom(chunk, locals, todo[1].jump, Len(locals))
      /\ depth = Len(locals) /\ Left(todo[1]) = 0
  BY <1>1, AwaitingFacts DEF Awaiting
<1>3. /\ chunk' = c2 /\ todo' = << >> \o Tail(todo) /\ UNCHANGED <<locals, depth, loop>>
  BY <1>1 DEF EndIf, Only, Then
<1>4. FitsNone(todo, locals, depth, locals)
  <2>1. Base(todo, locals) = Len(locals)
    BY <1>1 DEF Base
  <2>. QED
    BY <1>1, <1>2, <2>1 DEF FitsNone
<1>5. /\ << >> \in Seq(Items) /\ Whiles(<< >>) = {}
      /\ Chained(<< >>, todo[1], depth, locals) /\ InOrder(<< >>, todo, locals, locals)
      /\ InScope(<< >>, todo, c2, locals, locals)
  BY <1>1, <1>4, NoItem
<1>6. Unfinished(todo, loop) \subseteq Unfinished(<< >> \o Tail(todo), loop) \cup jumps
  <2>1. \A j \in loop.breaks : j \in Unfinished(<< >> \o Tail(todo), loop)
    BY DEF Unfinished
  <2>. QED
    <3>1. /\ \A j \in loop.breaks : j \in Unfinished(<< >> \o Tail(todo), loop) \cup jumps
          /\ todo[1].jump \in Unfinished(<< >> \o Tail(todo), loop) \cup jumps
      BY <2>1
    <3>2. todo[1].do \notin {"whileBody", "endWhile"}
      BY <1>1
    <3>. HIDE DEF jumps
    <3>. QED
      BY <1>1, <1>5, <3>1, <3>2, UnfinishedStep
<1>7. Extended(chunk, depth, locals, chunk, depth, locals)
  BY <1>1, NothingWritten
<1>8. AllHere(chunk, locals, jumps)
  BY <1>2 DEF AllHere
<1>. HIDE DEF jumps
<1>9. /\ c2 \in Seq(Instructions)
      /\ Extended(chunk, depth, locals, c2, depth, locals)
      /\ Sound(c2, depth, locals, Unfinished(<< >> \o Tail(todo), loop))
  BY <1>1, <1>2, <1>6, <1>7, <1>8, Patching
<1>. HIDE DEF c2
<1>10. LoopSound(c2, depth, locals, loop)
  BY <1>1, <1>5, <1>9, LoopKept
<1>11. InLoop(<< >>, todo, loop, loop, locals)
  <2>1. Onward(todo, loop) = loop
    BY <1>1 DEF Onward
  <2>. QED
    BY <1>5, <2>1 DEF InLoop
<1>12. Compiled(<< >> \o Tail(todo), loop, c2, depth, locals)
  BY <1>1, <1>5, <1>9, <1>10, <1>11, CompileStep
<1>. QED
  BY <1>3, <1>9, <1>12 DEF Continues

\* The jump back to the condition.
LEMMA EndWhileStep ==
    ASSUME Compiling, EndWhile
    PROVE  Continues
<1>. DEFINE e == Code("jump", loop.start, 0)
            i == Instruction(e, depth, locals)
            c1 == Append(chunk, i)
            jumps == loop.breaks \cup {todo[1].jump}
            c2 == Patched(c1, jumps)
            outer == todo[1].outer
<1>1. /\ todo # << >> /\ todo[1].do = "endWhile" /\ Head(todo) = todo[1]
      /\ Len(locals) \in Nat /\ locals \in Seq(Nat) /\ depth \in Nat
      /\ chunk \in Seq(Instructions) /\ Len(chunk) \in Nat
      /\ Compiled(todo, loop, chunk, depth, locals) /\ todo[1] \in Items
      /\ todo \in Seq(Items) /\ loop \in Loops /\ 1 \in 1 .. Len(todo)
      /\ Sound(chunk, depth, locals, Unfinished(todo, loop))
  BY DoingFacts, HeadFacts DEF EndWhile, Compiling, Compiled
<1>2. /\ JumpFrom(chunk, locals, todo[1].jump, Len(locals))
      /\ LocalsAt(chunk, todo[1]) = Len(locals)
      /\ depth = Len(locals) /\ Left(todo[1]) = 0
  BY <1>1, AwaitingFacts DEF Awaiting
<1>3. /\ chunk' = c2 /\ todo' = << >> \o Tail(todo) /\ loop' = outer
      /\ UNCHANGED <<locals, depth>>
  BY <1>1 DEF EndWhile, Then
<1>4. outer \in Loops /\ outer \in Outers(todo) /\ Onward(todo, loop) = outer
  BY <1>1, ItemFacts DEF Outers, Whiles, Onward
<1>. HIDE DEF outer
<1>5. loop.inside /\ loop.locals = Len(locals) /\ loop.start \in Nat
  <2>1. Around(todo, loop, loop, 1)
    BY DEF Around
  <2>2. loop.inside /\ loop.locals = LocalsAt(chunk, todo[1])
    BY <1>1, <2>1 DEF Compiled, Nested
  <2>. QED
    BY <1>1, <1>2, <2>2, LoopFacts
<1>6. /\ loop.start \in 1 .. Len(chunk) + 1
      /\ Height(chunk, depth, loop.start) = Len(locals)
      /\ Placed(chunk, locals, loop.start) = SubSeq(locals, 1, Len(locals))
      /\ \A b \in loop.breaks : JumpFrom(chunk, locals, b, Len(locals))
  <2>1. loop # NoLoop
    BY <1>5, LoopFacts
  <2>2. LoopSound(chunk, depth, locals, loop)
    BY <1>1 DEF Compiled, LoopsSound
  <2>. QED
    BY <1>5, <2>1, <2>2 DEF LoopSound
<1>7. SubSeq(locals, 1, Len(locals)) = locals
  BY <1>1
<1>8. "jump" \in Ops /\ "jump" \notin Pops \cup Pushes /\ "jump" \in Jumps
  BY DEF Ops, Pops, Pushes, Jumps
<1>9. e \in [op : Ops, n : Nat, var : Nat] /\ e.op = "jump" /\ e.n = loop.start
  BY <1>5, <1>8, CodeFacts
<1>10. Raised(depth, e.op, e.n) = depth
  BY <1>8, <1>9 DEF Raised
<1>. HIDE DEF e
<1>11. Leads(i, depth, locals)
  <2>1. e.op \notin Pops /\ e.op # "dup" /\ e.op # "combine" /\ Len(locals) <= depth
    BY <1>1, <1>2, <1>8, <1>9
  <2>2. Leads(Instruction(e, depth, locals), Raised(depth, e.op, e.n), locals)
    BY <1>1, <1>9, <2>1, LeadsOn
  <2>. QED
    BY <1>10, <2>2
<1>12. /\ i \in Instructions /\ i.op = "jump" /\ i.n = loop.start
       /\ i.height = depth /\ i.placed = locals
  BY <1>1, <1>9, InstructionFields
<1>. HIDE DEF i
<1>13. c1 \in Seq(Instructions) /\ Extended(chunk, depth, locals, c1, depth, locals)
  BY <1>1, <1>12, AppendFacts, EmitExtends
<1>14. Sound(c1, depth, locals, Unfinished(todo, loop))
  <2>1. /\ i.n \in 1 .. Len(chunk) + 1
        /\ Leads(i, Height(chunk, depth, i.n), Placed(chunk, locals, i.n))
    BY <1>2, <1>6, <1>7, <1>11, <1>12
  <2>2. Len(locals) <= depth /\ Unfinished(todo, loop) \subseteq Unfinished(todo, loop)
    BY <1>1, <1>2
  <2>. QED
    BY <1>1, <1>11, <1>12, <2>1, <2>2, EmitSound
<1>. HIDE DEF c1
<1>15. FitsNone(todo, locals, depth, locals)
  <2>1. Base(todo, locals) = Len(locals)
    BY <1>1 DEF Base
  <2>. QED
    BY <1>1, <1>2, <2>1 DEF FitsNone
<1>16. /\ << >> \in Seq(Items) /\ Whiles(<< >>) = {}
       /\ Chained(<< >>, todo[1], depth, locals) /\ InOrder(<< >>, todo, locals, locals)
       /\ InScope(<< >>, todo, c2, locals, locals)
  BY <1>1, <1>15, NoItem
<1>17. Unfinished(todo, loop) \subseteq Unfinished(<< >> \o Tail(todo), outer) \cup jumps
  <2>1. \A j \in outer.breaks : j \in Unfinished(<< >> \o Tail(todo), outer)
    BY DEF Unfinished
  <2>2. \A j \in loop.breaks : j \in Unfinished(<< >> \o Tail(todo), outer) \cup jumps
    OBVIOUS
  <2>3. \A j \in todo[1].outer.breaks :
          j \in Unfinished(<< >> \o Tail(todo), outer) \cup jumps
    BY <2>1 DEF outer
  <2>4. todo[1].jump \in Unfinished(<< >> \o Tail(todo), outer) \cup jumps
    OBVIOUS
  <2>. HIDE DEF jumps
  <2>. QED
    BY <1>1, <1>16, <2>2, <2>3, <2>4, UnfinishedStep
<1>18. AllHere(chunk, locals, jumps)
  BY <1>2, <1>6 DEF AllHere
<1>. HIDE DEF jumps
<1>19. /\ c2 \in Seq(Instructions)
       /\ Extended(chunk, depth, locals, c2, depth, locals)
       /\ Sound(c2, depth, locals, Unfinished(<< >> \o Tail(todo), outer))
  BY <1>1, <1>2, <1>13, <1>14, <1>17, <1>18, Patching
<1>. HIDE DEF c2
<1>20. LoopSound(c2, depth, locals, outer)
  BY <1>1, <1>4, <1>16, <1>19, LoopKept
<1>21. InLoop(<< >>, todo, loop, outer, locals)
  BY <1>4, <1>16 DEF InLoop
<1>22. Compiled(<< >> \o Tail(todo), outer, c2, depth, locals)
  BY <1>1, <1>4, <1>16, <1>19, <1>20, <1>21, CompileStep
<1>. QED
  BY <1>3, <1>19, <1>22 DEF Continues

LEMMA OneAndOne ==
    ASSUME NEW S, NEW a \in S, NEW b \in S
    PROVE  <<a>> \o <<b>> = <<a, b>>
<1>. DEFINE p == <<a>>
            q == <<b>>
            r == <<a, b>>
<1>1. p \in Seq(S) /\ q \in Seq(S) /\ r \in Seq(S) /\ Len(p) = 1 /\ Len(q) = 1 /\ Len(r) = 2
      /\ p[1] = a /\ q[1] = b /\ r[1] = a /\ r[2] = b
  OBVIOUS
<1>. HIDE DEF p, q, r
<1>2. /\ p \o q \in Seq(S) /\ Len(p \o q) = Len(p) + Len(q)
      /\ \A i \in 1 .. Len(p) + Len(q) :
           (p \o q)[i] = IF i <= Len(p) THEN p[i] ELSE q[i - Len(p)]
  BY <1>1, ConcatProperties
<1>3. Len(p \o q) = Len(r) /\ \A i \in 1 .. Len(p \o q) : (p \o q)[i] = r[i]
  BY <1>1, <1>2
<1>4. p \o q = r
  BY <1>1, <1>2, <1>3, SeqEqual
<1>. QED
  BY <1>4 DEF p, q, r

\* The end of the true case: the jump over the false case waits, and the jump to it does not.
LEMMA ElseCaseStep ==
    ASSUME Compiling, NEW false \in {<< >>, <<Statement>>}, ElseCase(false)
    PROVE  Continues
<1>. DEFINE e == Code("jump", Unpatched, 0)
            i == Instruction(e, depth, locals)
            c1 == Append(chunk, i)
            where == Len(chunk) + 1
            b == [do |-> "endIf", jump |-> where]
            items == false \o <<b>>
            jumps == {todo[1].jump}
            c2 == Patched(c1, jumps)
<1>1. /\ todo # << >> /\ todo[1].do = "else" /\ Head(todo) = todo[1]
      /\ Len(locals) \in Nat /\ locals \in Seq(Nat) /\ depth \in Nat
      /\ chunk \in Seq(Instructions) /\ Len(chunk) \in Nat /\ where \in Nat
      /\ Compiled(todo, loop, chunk, depth, locals) /\ todo[1] \in Items
      /\ todo \in Seq(Items) /\ loop \in Loops
      /\ Sound(chunk, depth, locals, Unfinished(todo, loop))
  BY DoingFacts, HeadFacts DEF ElseCase, Compiling, Compiled
<1>2. /\ JumpFrom(chunk, locals, todo[1].jump, Len(locals))
      /\ depth = Len(locals) /\ Left(todo[1]) = 0 /\ Above(todo[1]) = 0
  BY <1>1, AwaitingFacts DEF Awaiting
<1>3. /\ chunk' = c2 /\ todo' = items \o Tail(todo) /\ UNCHANGED <<locals, depth, loop>>
  BY <1>1 DEF ElseCase, Only, Then
<1>4. "jump" \in Ops /\ "jump" \notin Pops \cup Pushes /\ "jump" \in Jumps
  BY DEF Ops, Pops, Pushes, Jumps
<1>5. e \in [op : Ops, n : Nat, var : Nat] /\ e.op = "jump"
  BY <1>4, CodeFacts DEF Unpatched
<1>6. Raised(depth, e.op, e.n) = depth
  BY <1>4, <1>5 DEF Raised
<1>. HIDE DEF e
<1>7. Leads(i, depth, locals)
  <2>1. e.op \notin Pops /\ e.op # "dup" /\ e.op # "combine" /\ Len(locals) <= depth
    BY <1>1, <1>2, <1>4, <1>5
  <2>2. Leads(Instruction(e, depth, locals), Raised(depth, e.op, e.n), locals)
    BY <1>1, <1>5, <2>1, LeadsOn
  <2>. QED
    BY <1>6, <2>2
<1>8. /\ i \in Instructions /\ i.op = "jump" /\ i.height = depth /\ i.placed = locals
  BY <1>1, <1>5, InstructionFields
<1>9. JumpFrom(c1, locals, where, Len(locals))
  BY <1>1, <1>2, <1>5, NewJump
<1>. HIDE DEF i, where
<1>10. /\ c1 \in Seq(Instructions) /\ Extended(chunk, depth, locals, c1, depth, locals)
       /\ Len(c1) \in Nat
  BY <1>1, <1>8, AppendFacts, EmitExtends
<1>11. b \in Items /\ b.do = "endIf" /\ b.jump = where
  BY <1>1, ItemKinds
<1>12. Sound(c1, depth, locals, Unfinished(todo, loop) \cup {where})
  <2>1. Len(locals) <= depth /\ where \in Unfinished(todo, loop) \cup {where}
        /\ Unfinished(todo, loop) \subseteq Unfinished(todo, loop) \cup {where}
    BY <1>1, <1>2
  <2>. QED
    BY <1>1, <1>4, <1>7, <1>8, <2>1, EmitSound DEF where
<1>. HIDE DEF c1, b
<1>13. AllHere(chunk, locals, jumps)
  BY <1>2 DEF AllHere
<1>14. JumpFrom(c2, locals, where, Len(locals))
  <2>1. c2 \in Seq(Instructions) /\ Len(c2) \in Nat
    BY <1>10, PatchFacts
  <2>2. Extended(c1, depth, locals, c2, depth, locals)
    BY <1>10, PatchExtends
  <2>3. Len(locals) <= Len(locals) /\ \A j \in 1 .. Len(locals) : locals[j] = locals[j]
    BY <1>1
  <2>. HIDE DEF c2, jumps
  <2>. QED
    BY <1>1, <1>9, <1>10, <2>1, <2>2, <2>3, JumpFromStays
<1>15. Above(b) = 0 /\ Left(b) = 0
  BY <1>11 DEF Above, Left
<1>16. /\ items \in Seq(Items) /\ Whiles(items) = {}
       /\ Chained(items, todo[1], depth, locals) /\ InOrder(items, todo, locals, locals)
       /\ InScope(items, todo, c2, locals, locals)
       /\ \E n \in 1 .. Len(items) : items[n] = b
  <2>1. CASE false = << >>
    <3>1. items = <<b>>
      BY <2>1
    <3>2. FitsOne(todo, locals, b, c2, depth, locals)
      BY <1>1, <1>2, <1>11, <1>14, <1>15 DEF FitsOne, Inner
    <3>3. /\ <<b>> \in Seq(Items) /\ Whiles(<<b>>) = {}
          /\ Chained(<<b>>, todo[1], depth, locals) /\ InOrder(<<b>>, todo, locals, locals)
          /\ InScope(<<b>>, todo, c2, locals, locals)
      BY <1>1, <1>11, <3>2, OneItem
    <3>4. 1 \in 1 .. Len(<<b>>) /\ <<b>>[1] = b
      OBVIOUS
    <3>. QED
      BY <3>1, <3>3, <3>4
  <2>2. CASE false = <<Statement>>
    <3>1. items = <<Statement, b>>
      <4>1. <<Statement>> \o <<b>> = <<Statement, b>>
        BY <1>11, ItemKinds, OneAndOne
      <4>. QED
        BY <2>2, <4>1
    <3>2. Statement \in Items /\ Statement.do = "stmt"
      BY ItemKinds
    <3>3. Above(Statement) = 0 /\ Left(Statement) = 0
      BY <3>2 DEF Above, Left
    <3>4. FitsTwo(todo, locals, Statement, b, c2, depth)
      BY <1>1, <1>2, <1>11, <1>14, <1>15, <3>2, <3>3 DEF FitsTwo, Inner
    <3>5. /\ <<Statement, b>> \in Seq(Items) /\ Whiles(<<Statement, b>>) = {}
          /\ Chained(<<Statement, b>>, todo[1], depth, locals)
          /\ InOrder(<<Statement, b>>, todo, locals, locals)
          /\ InScope(<<Statement, b>>, todo, c2, locals, locals)
          /\ Len(<<Statement, b>>) = 2 /\ <<Statement, b>>[2] = b
      BY <1>1, <1>11, <3>2, <3>4, TwoItems
    <3>6. 2 \in 1 .. Len(<<Statement, b>>)
      BY <3>5
    <3>. QED
      BY <3>1, <3>5, <3>6
  <2>. QED
    BY <2>1, <2>2
<1>. HIDE DEF items
<1>17. /\ \A j \in loop.breaks : j \in Unfinished(items \o Tail(todo), loop)
       /\ where \in Unfinished(items \o Tail(todo), loop)
  <2>1. PICK n \in 1 .. Len(items) : items[n] = b
    BY <1>16
  <2>2. items[n].do \in Awaiting /\ items[n].jump = where
    BY <1>11, <2>1 DEF Awaiting
  <2>. QED
    BY <1>1, <1>16, <2>2, UnfinishedItems
<1>18. Unfinished(todo, loop) \cup {where} \subseteq Unfinished(items \o Tail(todo), loop) \cup jumps
  <2>1. /\ \A j \in loop.breaks : j \in Unfinished(items \o Tail(todo), loop) \cup jumps
        /\ todo[1].jump \in Unfinished(items \o Tail(todo), loop) \cup jumps
    BY <1>17
  <2>. HIDE DEF jumps
  <2>2. Unfinished(todo, loop) \subseteq Unfinished(items \o Tail(todo), loop) \cup jumps
    BY <1>1, <1>16, <2>1, UnfinishedStep
  <2>. QED
    BY <1>17, <2>2
<1>. HIDE DEF jumps
<1>19. /\ c2 \in Seq(Instructions)
       /\ Extended(chunk, depth, locals, c2, depth, locals)
       /\ Sound(c2, depth, locals, Unfinished(items \o Tail(todo), loop))
  BY <1>1, <1>2, <1>10, <1>12, <1>13, <1>18, Patching
<1>. HIDE DEF c2
<1>20. LoopSound(c2, depth, locals, loop)
  BY <1>1, <1>16, <1>19, LoopKept
<1>21. InLoop(items, todo, loop, loop, locals)
  <2>1. Onward(todo, loop) = loop
    BY <1>1 DEF Onward
  <2>. QED
    BY <1>16, <2>1 DEF InLoop
<1>22. Compiled(items \o Tail(todo), loop, c2, depth, locals)
  BY <1>1, <1>16, <1>19, <1>20, <1>21, CompileStep
<1>. QED
  BY <1>3, <1>19, <1>22 DEF Continues

--------------------------------------------------------------------------------
(* A block ends *)

\* The k-th local from the top, and those above it, are dropped.
LEMMA DropFacts ==
    ASSUME locals \in Seq(Nat), depth = Len(locals), NEW k \in 0 .. Len(locals)
    PROVE  /\ Len(locals) \in Nat /\ Drops(k) \in Seq(Instructions) /\ Len(Drops(k)) = k
           /\ \A m \in 1 .. k : /\ Drops(k)[m].op = "pop"
                                /\ Drops(k)[m].height = (depth + 1) - m
                                /\ Drops(k)[m].placed = SubSeq(locals, 1, (depth + 1) - m)
           /\ \A h \in 0 .. Len(locals) : /\ SubSeq(locals, 1, h) \in Seq(Nat)
                                         /\ Len(SubSeq(locals, 1, h)) = h
                                         /\ \A j \in 1 .. h : SubSeq(locals, 1, h)[j] = locals[j]
<1>1. Len(locals) \in Nat /\ k \in Nat
  OBVIOUS
<1>2. \A h \in 0 .. Len(locals) : /\ SubSeq(locals, 1, h) \in Seq(Nat)
                                  /\ Len(SubSeq(locals, 1, h)) = h
                                  /\ \A j \in 1 .. h : SubSeq(locals, 1, h)[j] = locals[j]
  <2>1. ASSUME NEW h \in 0 .. Len(locals)
        PROVE  /\ SubSeq(locals, 1, h) \in Seq(Nat)
               /\ Len(SubSeq(locals, 1, h)) = h
               /\ \A j \in 1 .. h : SubSeq(locals, 1, h)[j] = locals[j]
    BY <1>1
  <2>. QED
    BY <2>1
<1>3. Code("pop", 0, 0) \in [op : Ops, n : Nat, var : Nat] /\ Code("pop", 0, 0).op = "pop"
  <2>1. "pop" \in Ops
    BY DEF Ops, Pops
  <2>. QED
    BY <2>1, CodeFacts
<1>. DEFINE drop(m) == Instruction(Code("pop", 0, 0), (depth + 1) - m,
                                   SubSeq(locals, 1, (Len(locals) + 1) - m))
<1>4. ASSUME NEW m \in 1 .. k
      PROVE  /\ drop(m) \in Instructions /\ drop(m).op = "pop"
             /\ drop(m).height = (depth + 1) - m
             /\ drop(m).placed = SubSeq(locals, 1, (depth + 1) - m)
  <2>. DEFINE h == (Len(locals) + 1) - m
              p == SubSeq(locals, 1, h)
  <2>1. h \in 0 .. Len(locals) /\ h \in Nat
    BY <1>1
  <2>2. p \in Seq(Nat)
    BY <1>2, <2>1
  <2>3. (depth + 1) - m = h
    OBVIOUS
  <2>. HIDE DEF h, p
  <2>4. /\ Instruction(Code("pop", 0, 0), h, p) \in Instructions
        /\ Instruction(Code("pop", 0, 0), h, p).op = "pop"
        /\ Instruction(Code("pop", 0, 0), h, p).height = h
        /\ Instruction(Code("pop", 0, 0), h, p).placed = p
    BY <1>3, <2>1, <2>2, InstructionFields
  <2>. QED
    BY <2>3, <2>4 DEF h, p
<1>5. Drops(k) = [m \in 1 .. k |-> drop(m)]
  BY DEF Drops
<1>. HIDE DEF drop
<1>6. Drops(k) \in Seq(Instructions) /\ Len(Drops(k)) = k
  BY <1>1, <1>4, <1>5
<1>7. \A m \in 1 .. k : Drops(k)[m] = drop(m)
  BY <1>5
<1>. QED
  BY <1>1, <1>2, <1>4, <1>6, <1>7

\* What Sound says of the n-th instruction.
SoundAt(c, d, s, unpatched, n) ==
    /\ Len(c[n].placed) <= c[n].height
    /\ c[n].op = "combine" => c[n].n <= c[n].height
    /\ c[n].op \in {"getLocal", "setLocal"} =>
         c[n].n \in 1 .. Len(c[n].placed) /\ c[n].placed[c[n].n] = c[n].var
    /\ Leads(c[n], Height(c, d, n + 1), Placed(c, s, n + 1))
    /\ c[n].op \in Jumps /\ n \notin unpatched =>
         /\ c[n].n \in 1 .. Len(c) + 1
         /\ Leads(c[n], Height(c, d, c[n].n), Placed(c, s, c[n].n))

LEMMA SoundKept ==
    ASSUME NEW c, NEW d, NEW s, NEW u, Sound(c, d, s, u),
           NEW r, NEW d2, NEW s2, Extended(c, d, s, r, d2, s2),
           Len(c) \in Nat, Len(r) \in Nat,
           NEW n \in 1 .. Len(c), r[n] = c[n]
    PROVE  SoundAt(r, d2, s2, u, n)
<1>1. /\ Len(c) <= Len(r)
      /\ \A m \in 1 .. Len(c) + 1 :
           Height(r, d2, m) = Height(c, d, m) /\ Placed(r, s2, m) = Placed(c, s, m)
  BY DEF Extended
<1>2. SoundAt(c, d, s, u, n)
  BY DEF Sound, SoundAt
<1>3. n + 1 \in 1 .. Len(c) + 1
  OBVIOUS
<1>4. Leads(r[n], Height(r, d2, n + 1), Placed(r, s2, n + 1))
  BY <1>1, <1>2, <1>3 DEF SoundAt
<1>5. ASSUME r[n].op \in Jumps, n \notin u
      PROVE  /\ r[n].n \in 1 .. Len(r) + 1
             /\ Leads(r[n], Height(r, d2, r[n].n), Placed(r, s2, r[n].n))
  <2>1. /\ c[n].n \in 1 .. Len(c) + 1
        /\ Leads(c[n], Height(c, d, c[n].n), Placed(c, s, c[n].n))
    BY <1>2, <1>5 DEF SoundAt
  <2>. QED
    BY <1>1, <2>1
<1>. QED
  BY <1>2, <1>4, <1>5 DEF SoundAt

\* What a dropped local leads to.
LEMMA PopLeads ==
    ASSUME NEW i \in Instructions, i.op = "pop", NEW h \in Nat \ {0}, i.height = h,
           NEW s, i.placed = SubSeq(s, 1, h), s \in Seq(Nat), h <= Len(s)
    PROVE  Leads(i, h - 1, SubSeq(s, 1, h - 1)) /\ Len(i.placed) = h
<1>. DEFINE p == SubSeq(s, 1, h)
            q == SubSeq(s, 1, h - 1)
<1>1. Len(p) = h /\ \A j \in 1 .. h : p[j] = s[j]
  OBVIOUS
<1>2. h - 1 \in Nat /\ Len(q) = h - 1 /\ \A j \in 1 .. h - 1 : q[j] = s[j]
  OBVIOUS
<1>3. i.placed = p
  OBVIOUS
<1>. HIDE DEF p, q
<1>4. Raised(i.height, i.op, i.n) = h - 1 /\ Kept(i) = h - 1
  BY DEF Raised, Pushes, Pops, Kept
<1>5. ASSUME NEW j \in 1 .. Len(q)
      PROVE  j <= Kept(i) /\ j <= Len(i.placed) /\ q[j] = i.placed[j]
  BY <1>1, <1>2, <1>3, <1>4
<1>6. Leads(i, h - 1, q)
  BY <1>4, <1>5 DEF Leads
<1>. QED
  BY <1>1, <1>3, <1>6 DEF q

LEMMA DropsSound ==
    ASSUME chunk \in Seq(Instructions), locals \in Seq(Nat), depth = Len(locals),
           NEW u, Sound(chunk, depth, locals, u),
           NEW base \in 0 .. Len(locals)
    PROVE  LET r == chunk \o Drops(Len(locals) - base)
               s2 == SubSeq(locals, 1, base)
           IN
           /\ r \in Seq(Instructions)
           /\ s2 \in Seq(Nat) /\ Len(s2) = base /\ \A j \in 1 .. base : s2[j] = locals[j]
           /\ Extended(chunk, depth, locals, r, base, s2)
           /\ Sound(r, base, s2, u)
<1>. DEFINE k == Len(locals) - base
            r == chunk \o Drops(k)
            s2 == SubSeq(locals, 1, base)
<1>1. /\ Len(locals) \in Nat /\ k \in 0 .. Len(locals) /\ k \in Nat /\ Len(chunk) \in Nat
      /\ base = depth - k /\ depth \in Nat /\ base \in Nat
  OBVIOUS
<1>. HIDE DEF k
<1>2. /\ Drops(k) \in Seq(Instructions) /\ Len(Drops(k)) = k
      /\ \A m \in 1 .. k : /\ Drops(k)[m].op = "pop"
                           /\ Drops(k)[m].height = (depth + 1) - m
                           /\ Drops(k)[m].placed = SubSeq(locals, 1, (depth + 1) - m)
      /\ \A h \in 0 .. Len(locals) : /\ SubSeq(locals, 1, h) \in Seq(Nat)
                                    /\ Len(SubSeq(locals, 1, h)) = h
                                    /\ \A j \in 1 .. h : SubSeq(locals, 1, h)[j] = locals[j]
  BY <1>1, DropFacts
<1>3. /\ r \in Seq(Instructions) /\ Len(r) = Len(chunk) + k /\ Len(r) \in Nat
      /\ \A n \in 1 .. Len(chunk) : r[n] = chunk[n]
      /\ \A m \in 1 .. k : r[Len(chunk) + m] = Drops(k)[m]
  <2>. DEFINE q == Drops(k)
  <2>1. q \in Seq(Instructions) /\ Len(q) = k
    BY <1>2
  <2>. HIDE DEF q
  <2>2. /\ chunk \o q \in Seq(Instructions) /\ Len(chunk \o q) = Len(chunk) + Len(q)
        /\ \A n \in 1 .. Len(chunk) + Len(q) :
             (chunk \o q)[n] = IF n <= Len(chunk) THEN chunk[n] ELSE q[n - Len(chunk)]
    BY <2>1, ConcatProperties
  <2>3. r = chunk \o q
    BY DEF q
  <2>4. /\ r \in Seq(Instructions) /\ Len(r) = Len(chunk) + k
        /\ \A n \in 1 .. Len(chunk) + k :
             r[n] = IF n <= Len(chunk) THEN chunk[n] ELSE q[n - Len(chunk)]
    BY <2>1, <2>2, <2>3
  <2>5. ASSUME NEW n \in 1 .. Len(chunk)
        PROVE  r[n] = chunk[n]
    <3>1. n \in 1 .. Len(chunk) + k /\ n <= Len(chunk)
      BY <1>1
    <3>. QED
      BY <2>4, <3>1
  <2>6. ASSUME NEW m \in 1 .. k
        PROVE  r[Len(chunk) + m] = q[m]
    <3>1. /\ Len(chunk) + m \in 1 .. Len(chunk) + k /\ ~(Len(chunk) + m <= Len(chunk))
          /\ (Len(chunk) + m) - Len(chunk) = m
      BY <1>1
    <3>2. r[Len(chunk) + m] = q[(Len(chunk) + m) - Len(chunk)]
      BY <2>4, <3>1
    <3>. QED
      BY <3>1, <3>2
  <2>. QED
    BY SMTT(30), <1>1, <2>4, <2>5, <2>6 DEF q
<1>. HIDE DEF r
<1>4. s2 \in Seq(Nat) /\ Len(s2) = base /\ \A j \in 1 .. base : s2[j] = locals[j]
  BY <1>1, <1>2
<1>5. ASSUME NEW m \in 1 .. k + 1
      PROVE  /\ Height(r, base, Len(chunk) + m) = (depth + 1) - m
             /\ Placed(r, s2, Len(chunk) + m) = SubSeq(locals, 1, (depth + 1) - m)
  <2>1. CASE m \in 1 .. k
    <3>1. Len(chunk) + m <= Len(r)
      BY <1>1, <1>3, <2>1
    <3>. QED
      BY <1>2, <1>3, <2>1, <3>1 DEF Height, Placed
  <2>2. CASE m = k + 1
    <3>1. ~(Len(chunk) + m <= Len(r)) /\ (depth + 1) - m = base
      BY <1>1, <1>3, <2>2
    <3>. QED
      BY <3>1 DEF Height, Placed
  <2>. QED
    BY <1>1, <2>1, <2>2
<1>. HIDE DEF s2
<1>6. Extended(chunk, depth, locals, r, base, s2)
  <2>1. ASSUME NEW n \in 1 .. Len(chunk) + 1
        PROVE  /\ Height(r, base, n) = Height(chunk, depth, n)
               /\ Placed(r, s2, n) = Placed(chunk, locals, n)
    <3>1. CASE n \in 1 .. Len(chunk)
      <4>1. n <= Len(chunk) /\ n <= Len(r)
        BY <1>1, <1>3, <3>1
      <4>. QED
        BY <1>3, <3>1, <4>1 DEF Height, Placed
    <3>2. CASE n = Len(chunk) + 1
      <4>1. ~(n <= Len(chunk)) /\ 1 \in 1 .. k + 1 /\ (depth + 1) - 1 = depth
        BY <1>1, <3>2
      <4>2. Height(chunk, depth, n) = depth /\ Placed(chunk, locals, n) = locals
        BY <4>1 DEF Height, Placed
      <4>3. Height(r, base, n) = depth /\ Placed(r, s2, n) = SubSeq(locals, 1, depth)
        BY <1>5, <3>2, <4>1
      <4>4. SubSeq(locals, 1, Len(locals)) = locals
        OBVIOUS
      <4>. QED
        BY <4>2, <4>3, <4>4
    <3>. QED
      BY <1>1, <3>1, <3>2
  <2>2. Len(chunk) <= Len(r)
    BY <1>1, <1>3
  <2>. QED
    BY <1>3, <2>1, <2>2 DEF Extended
<1>7. ASSUME NEW n \in 1 .. Len(r)
      PROVE  SoundAt(r, base, s2, u, n)
  <2>1. CASE n \in 1 .. Len(chunk)
    BY <1>1, <1>3, <1>6, <2>1, SoundKept
  <2>2. CASE n \notin 1 .. Len(chunk)
    <3>. DEFINE m == n - Len(chunk)
                h == (depth + 1) - m
    <3>1. /\ m \in 1 .. k /\ m + 1 \in 1 .. k + 1 /\ n = Len(chunk) + m
          /\ n + 1 = Len(chunk) + (m + 1)
          /\ h \in Nat \ {0} /\ h <= Len(locals) /\ (depth + 1) - (m + 1) = h - 1
      BY <1>1, <1>3, <2>2
    <3>2. /\ r[n] \in Instructions /\ r[n].op = "pop" /\ r[n].height = h
          /\ r[n].placed = SubSeq(locals, 1, h)
      <4>1. r[n] = Drops(k)[m]
        BY <1>3, <3>1
      <4>2. r[n] \in Instructions
        BY <1>3
      <4>3. /\ Drops(k)[m].op = "pop" /\ Drops(k)[m].height = h
            /\ Drops(k)[m].placed = SubSeq(locals, 1, h)
        BY <1>2, <3>1
      <4>. QED
        BY <4>1, <4>2, <4>3
    <3>3. Height(r, base, n + 1) = h - 1 /\ Placed(r, s2, n + 1) = SubSeq(locals, 1, h - 1)
      BY <1>5, <3>1
    <3>. HIDE DEF m, h
    <3>4. Leads(r[n], h - 1, SubSeq(locals, 1, h - 1)) /\ Len(r[n].placed) = h
      BY <3>1, <3>2, PopLeads
    <3>5. Len(r[n].placed) <= r[n].height
      BY <3>1, <3>2, <3>4
    <3>. QED
      BY <3>2, <3>3, <3>4, <3>5 DEF SoundAt, Jumps
  <2>. QED
    BY <2>1, <2>2
<1>8. Sound(r, base, s2, u)
  BY <1>7 DEF Sound, SoundAt
<1>. QED
  BY <1>3, <1>4, <1>6, <1>8 DEF k, r, s2

LEMMA EndBlockStep ==
    ASSUME Compiling, EndBlock
    PROVE  Continues
<1>. DEFINE base == todo[1].from
            k == Len(locals) - base
            c2 == chunk \o Drops(k)
            s2 == SubSeq(locals, 1, base)
<1>1. /\ todo # << >> /\ todo[1].do = "stmts" /\ Head(todo) = todo[1]
      /\ Len(locals) \in Nat /\ locals \in Seq(Nat) /\ depth \in Nat
      /\ chunk \in Seq(Instructions) /\ depth = Len(locals) + Above(todo[1])
      /\ Compiled(todo, loop, chunk, depth, locals)
      /\ todo \in Seq(Items) /\ loop \in Loops
      /\ Sound(chunk, depth, locals, Unfinished(todo, loop))
  BY DoingFacts DEF EndBlock, Compiling, Compiled
<1>2. depth = Len(locals) /\ Left(todo[1]) = 0
  BY <1>1 DEF Above, Left
<1>3. Base(todo, locals) = base /\ base \in 0 .. Len(locals) /\ base \in Nat
  <2>1. Base(todo, locals) = base
    BY <1>1 DEF Base
  <2>. QED
    BY <1>1, <2>1, Based
<1>4. /\ chunk' = c2 /\ depth' = base /\ locals' = s2 /\ loop' = loop
      /\ todo' = << >> \o Tail(todo)
  <2>1. depth - k = base
    BY <1>1, <1>2, <1>3
  <2>. QED
    BY <1>1, <2>1 DEF EndBlock, Then
<1>. HIDE DEF base
<1>5. /\ c2 \in Seq(Instructions)
      /\ s2 \in Seq(Nat) /\ Len(s2) = base /\ \A j \in 1 .. base : s2[j] = locals[j]
      /\ Extended(chunk, depth, locals, c2, base, s2)
      /\ Sound(c2, base, s2, Unfinished(todo, loop))
  BY <1>1, <1>2, <1>3, DropsSound
<1>. HIDE DEF c2, s2
<1>6. FitsNone(todo, locals, base, s2)
  BY <1>2, <1>3, <1>5 DEF FitsNone
<1>7. /\ << >> \in Seq(Items) /\ Whiles(<< >>) = {}
      /\ Chained(<< >>, todo[1], base, s2) /\ InOrder(<< >>, todo, locals, s2)
      /\ InScope(<< >>, todo, c2, locals, s2)
  BY <1>1, <1>5, <1>6, NoItem
<1>8. /\ Unfinished(todo, loop) \subseteq Unfinished(<< >> \o Tail(todo), loop)
      /\ InLoop(<< >>, todo, loop, loop, s2)
  BY <1>1, <1>7, SameWaiting DEF Awaiting
<1>9. LoopSound(c2, base, s2, loop)
  BY <1>1, <1>5, <1>7, LoopKept
<1>10. Sound(c2, base, s2, Unfinished(<< >> \o Tail(todo), loop))
  BY <1>5, <1>8, SoundStays
<1>11. Compiled(<< >> \o Tail(todo), loop, c2, base, s2)
  BY <1>1, <1>3, <1>5, <1>7, <1>8, <1>9, <1>10, CompileStep
<1>. QED
  BY <1>4, <1>5, <1>11 DEF Continues

--------------------------------------------------------------------------------
(* The compiler keeps the invariant *)

\* What an action does to the rest of the state.
Onwards ==
    /\ phase' = "compile" /\ ip' = ip /\ stack' = stack
    /\ nodes' \in 0 .. MaxNodes
    /\ \/ locals' = locals /\ declared' = declared
       \/ AddLocal
       \/ declared' = declared /\ \E n \in 0 .. Len(locals) : locals' = SubSeq(locals, 1, n)

LEMMA IsCompiling ==
    ASSUME IInv
    PROVE  Compiling /\ declared \in Nat /\ nodes \in 0 .. MaxNodes
<1>1. locals \in Seq(Nat)
  BY DEF IInv, TypeOK
<1>. QED
  BY <1>1 DEF IInv, TypeOK, Compiling, Compiled

LEMMA LocalsTyped ==
    ASSUME locals \in Seq(1 .. declared), declared \in Nat, Len(locals) <= MaxLocals,
           NotRefused, Onwards
    PROVE  locals' \in Seq(1 .. declared') /\ declared' \in Nat /\ Len(locals') <= MaxLocals
<1>1. Len(locals) \in Nat /\ MaxLocals \in Nat
  BY BoundsAssumption
<1>2. CASE locals' = locals /\ declared' = declared
  BY <1>2
<1>3. CASE AddLocal
  <2>1. /\ locals' = Append(locals, declared + 1) /\ declared' = declared + 1
        /\ Len(locals) < MaxLocals
    BY <1>1, <1>3 DEF AddLocal, NotRefused
  <2>2. locals \in Seq(1 .. declared + 1) /\ declared + 1 \in 1 .. declared + 1
    <3>1. 1 .. declared \subseteq 1 .. declared + 1
      OBVIOUS
    <3>. QED
      BY <3>1
  <2>. QED
    BY <1>1, <2>1, <2>2
<1>4. CASE declared' = declared /\ \E n \in 0 .. Len(locals) : locals' = SubSeq(locals, 1, n)
  <2>1. PICK n \in 0 .. Len(locals) : locals' = SubSeq(locals, 1, n)
    BY <1>4
  <2>2. SubSeq(locals, 1, n) \in Seq(1 .. declared) /\ Len(SubSeq(locals, 1, n)) = n
    BY <1>1
  <2>. QED
    BY <1>1, <1>4, <2>1, <2>2
<1>. QED
  BY <1>2, <1>3, <1>4 DEF Onwards

LEMMA CompilerKeeps ==
    ASSUME IInv, phase = "compile", NotRefused, Continues, Onwards
    PROVE  IInv'
<1>1. /\ locals \in Seq(1 .. declared) /\ declared \in Nat /\ Len(locals) <= MaxLocals
      /\ stack \in Seq(Nat) /\ ip = 1
  BY DEF IInv, TypeOK, Runnable
<1>2. locals' \in Seq(1 .. declared') /\ declared' \in Nat /\ Len(locals') <= MaxLocals
  BY <1>1, LocalsTyped
<1>3. /\ todo' \in Seq(Items) /\ loop' \in Loops /\ chunk' \in Seq(Instructions) /\ depth' \in Nat
      /\ Balanced(todo', depth', locals') /\ Ordered(todo', locals')
      /\ Scoped(todo', chunk', locals') /\ LoopsSound(todo', loop', chunk', depth', locals')
      /\ Nested(todo', loop', chunk', locals')
      /\ Sound(chunk', depth', locals', Unfinished(todo', loop'))
  BY DEF Continues, Compiled
<1>4. ip' = 1 /\ stack' = stack /\ phase' = "compile" /\ nodes' \in 0 .. MaxNodes
  BY <1>1 DEF Onwards
<1>5. Len(chunk) \in Nat /\ Len(chunk') \in Nat /\ 1 \in 1 .. Len(chunk) + 1
  BY <1>3 DEF IInv, TypeOK
<1>6. TypeOK'
  BY <1>1, <1>2, <1>3, <1>4, <1>5 DEF TypeOK
<1>7. StackAsCompiled'
  <2>1. /\ Height(chunk', depth', 1) = Height(chunk, depth, 1)
        /\ Placed(chunk', locals', 1) = Placed(chunk, locals, 1)
    BY <1>5 DEF Continues, Extended
  <2>2. StackAsCompiled
    BY DEF IInv
  <2>. QED
    BY <1>1, <1>4, <2>1, <2>2 DEF StackAsCompiled
<1>8. Runnable'
  BY <1>4 DEF Runnable
<1>. QED
  BY <1>3, <1>6, <1>7, <1>8 DEF IInv

\* The block's locals go when it ends; what else does not declare a local keeps them.
LEMMA EndBlockOnwards ==
    ASSUME Compiling, nodes \in 0 .. MaxNodes, EndBlock
    PROVE  Onwards
<1>1. todo # << >> /\ todo[1].do = "stmts" /\ Head(todo) = todo[1] /\ phase = "compile"
  BY DoingFacts DEF EndBlock
<1>2. Base(todo, locals) \in 0 .. Len(locals)
  <2>1. Len(locals) \in Nat
    BY <1>1, HeadFacts DEF Compiling
  <2>. QED
    BY <1>1, <2>1, Based DEF Compiling
<1>3. locals' = SubSeq(locals, 1, Base(todo, locals))
  BY <1>1 DEF EndBlock, Base
<1>. QED
  BY <1>1, <1>2, <1>3 DEF EndBlock, Onwards, machine

LEMMA StatementOnwards ==
    ASSUME Compiling, nodes \in 0 .. MaxNodes, CompileStatement
    PROVE  Onwards
<1>1. CASE EndBlock
  BY <1>1, EndBlockOnwards
<1>2. CASE ~EndBlock
  <2>1. nodes < MaxNodes => nodes + 1 \in 0 .. MaxNodes
    BY BoundsAssumption
  <2>2. CASE Block \/ MoreStatements \/ ExpressionStatement \/ Return
    BY <2>1, <2>2 DEF Block, MoreStatements, ExpressionStatement, Return, Doing, Node, Only,
       machine, Onwards
  <2>3. CASE While \/ WhileBody \/ EndWhile
    BY <2>1, <2>3 DEF While, WhileBody, EndWhile, Doing, Node, Only, machine, Onwards
  <2>4. CASE If \/ ThenCase \/ (\E false \in {<< >>, <<Statement>>} : ElseCase(false)) \/ EndIf
    BY <2>1, <2>4 DEF If, ThenCase, ElseCase, EndIf, Doing, Node, Only, machine, Onwards
  <2>5. CASE Break \/ Continue
    BY <2>1, <2>5 DEF Break, Continue, Doing, Node, Only, machine, Onwards
  <2>. QED
    BY <1>2, <2>2, <2>3, <2>4, <2>5 DEF CompileStatement
<1>. QED
  BY <1>1, <1>2

LEMMA ExpressionOnwards ==
    ASSUME nodes \in 0 .. MaxNodes, CompileExpression \/ Written
    PROVE  Onwards
<1>1. nodes < MaxNodes => nodes + 1 \in 0 .. MaxNodes
  BY BoundsAssumption
<1>2. CASE Written \/ Leaf \/ \E n \in Operands : Operation(n)
  BY <1>1, <1>2 DEF Written, Leaf, Operation, Doing, Node, Only, machine, Onwards
<1>3. CASE \E j \in DOMAIN locals : GetLocal(j) \/ SetLocal(j)
  BY <1>1, <1>3 DEF GetLocal, SetLocal, Doing, Node, Only, machine, Onwards
<1>4. CASE NewLocal
  BY <1>1, <1>4 DEF NewLocal, Doing, Node, Only, machine, Onwards
<1>5. CASE Bind
  BY <1>1, <1>5 DEF Bind, Doing, machine, Onwards
<1>6. CASE NewFunction
  BY <1>1, <1>6 DEF NewFunction, Doing, Node, machine, Onwards
<1>. QED
  BY <1>2, <1>3, <1>4, <1>5, <1>6 DEF CompileExpression

LEMMA TwoMore ==
    ASSUME NEW S, NEW c \in Seq(S), NEW a \in S, NEW b \in S
    PROVE  c \o <<a, b>> = Append(Append(c, a), b)
<1>. DEFINE q == <<a, b>>
            r == Append(Append(c, a), b)
<1>1. q \in Seq(S) /\ Len(q) = 2 /\ q[1] = a /\ q[2] = b
  OBVIOUS
<1>. HIDE DEF q
<1>2. /\ Append(c, a) \in Seq(S) /\ Len(Append(c, a)) = Len(c) + 1 /\ Len(c) \in Nat
      /\ \A i \in 1 .. Len(c) : Append(c, a)[i] = c[i]
      /\ Append(c, a)[Len(c) + 1] = a
  OBVIOUS
<1>3. /\ r \in Seq(S) /\ Len(r) = Len(c) + 2 /\ r[Len(c) + 2] = b
      /\ \A i \in 1 .. Len(c) + 1 : r[i] = Append(c, a)[i]
  <2>. DEFINE p == Append(c, a)
  <2>1. p \in Seq(S) /\ Len(p) = Len(c) + 1
    BY <1>2
  <2>. HIDE DEF p
  <2>2. /\ Append(p, b) \in Seq(S) /\ Len(Append(p, b)) = Len(p) + 1
        /\ \A i \in 1 .. Len(p) : Append(p, b)[i] = p[i]
        /\ Append(p, b)[Len(p) + 1] = b
    BY <2>1
  <2>3. (Len(c) + 1) + 1 = Len(c) + 2
    BY <1>2
  <2>. QED
    BY <2>1, <2>2, <2>3 DEF p
<1>. HIDE DEF r
<1>4. /\ c \o q \in Seq(S) /\ Len(c \o q) = Len(c) + Len(q)
      /\ \A i \in 1 .. Len(c) + Len(q) :
           (c \o q)[i] = IF i <= Len(c) THEN c[i] ELSE q[i - Len(c)]
  BY <1>1, ConcatProperties
<1>5. ASSUME NEW i \in 1 .. Len(c) + 2
      PROVE  (c \o q)[i] = r[i]
  <2>1. (c \o q)[i] = IF i <= Len(c) THEN c[i] ELSE q[i - Len(c)]
    BY <1>1, <1>4
  <2>2. CASE i \in 1 .. Len(c)
    <3>1. i <= Len(c) /\ i \in 1 .. Len(c) + 1
      BY <1>2, <2>2
    <3>. QED
      BY <1>2, <1>3, <2>1, <2>2, <3>1
  <2>3. CASE i = Len(c) + 1
    <3>1. ~(i <= Len(c)) /\ i - Len(c) = 1 /\ Len(c) + 1 \in 1 .. Len(c) + 1
      BY <1>2, <2>3
    <3>. QED
      BY <1>1, <1>2, <1>3, <2>1, <2>3, <3>1
  <2>4. CASE i = Len(c) + 2
    <3>1. ~(i <= Len(c)) /\ i - Len(c) = 2
      BY <1>2, <2>4
    <3>. QED
      BY <1>1, <1>3, <2>1, <2>4, <3>1
  <2>5. i \in 1 .. Len(c) \/ i = Len(c) + 1 \/ i = Len(c) + 2
    <3>1. Len(c) \in Nat
      BY <1>2
    <3>. QED
      BY <3>1
  <2>. QED
    BY <2>2, <2>3, <2>4, <2>5
<1>6. Len(c \o q) = Len(r) /\ \A i \in 1 .. Len(c \o q) : (c \o q)[i] = r[i]
  BY <1>1, <1>3, <1>4, <1>5
<1>7. c \o q = r
  BY <1>3, <1>4, <1>6, SeqEqual
<1>. QED
  BY <1>7 DEF q, r

\* Nothing is left to compile, so that no jump waits.
LEMMA Finished ==
    ASSUME Compiling, todo = << >>
    PROVE  depth = Len(locals) /\ Unfinished(todo, loop) = {}
<1>1. Len(todo) = 0 /\ Whiles(todo) = {}
  BY DEF Whiles
<1>2. loop = NoLoop
  BY <1>1 DEF Compiling, Compiled, Nested
<1>3. Unfinished(todo, loop) = {}
  <2>1. loop.breaks = {}
    BY <1>2, LoopFacts
  <2>2. {m \in 1 .. Len(todo) : todo[m].do \in Awaiting} = {}
    BY <1>1
  <2>. QED
    BY <1>1, <2>1, <2>2 DEF Unfinished
<1>4. depth = Len(locals)
  <2>1. Len(locals) \in Nat
    BY DEF Compiling, Compiled
  <2>. QED
    BY <2>1 DEF Compiling, Compiled, Balanced
<1>. QED
  BY <1>3, <1>4

\* The function ends with a return that control comes to, if not to another.
LEMMA EndFunctionKeeps ==
    ASSUME IInv, EndFunction
    PROVE  IInv'
<1>. DEFINE e1 == Code("push", 0, 0)
            e2 == Code("return", 0, 0)
            i1 == Instruction(e1, depth, locals)
            i2 == Instruction(e2, depth + 1, locals)
            c1 == Append(chunk, i1)
            c2 == Append(c1, i2)
<1>1. /\ Compiling /\ Compiled(todo, loop, chunk, depth, locals)
      /\ chunk \in Seq(Instructions) /\ depth \in Nat /\ locals \in Seq(Nat)
      /\ Len(locals) \in Nat /\ Len(chunk) \in Nat /\ depth + 1 \in Nat
      /\ todo = << >> /\ phase = "compile" /\ ip = 1
      /\ Sound(chunk, depth, locals, Unfinished(todo, loop))
  BY IsCompiling DEF Compiling, Compiled, EndFunction, IInv, Runnable
<1>2. depth = Len(locals) /\ Sound(chunk, depth, locals, {}) /\ Unfinished(todo, loop) = {}
  BY <1>1, Finished
<1>3. "push" \in Ops /\ "return" \in Ops
  BY DEF Ops, Pushes, Pops
<1>4. /\ e1 \in [op : Ops, n : Nat, var : Nat] /\ e1.op = "push"
      /\ e2 \in [op : Ops, n : Nat, var : Nat] /\ e2.op = "return"
  BY <1>3, CodeFacts
<1>5. chunk' = chunk \o <<i1, i2>>
  BY DEF EndFunction
<1>. HIDE DEF e1, e2
<1>6. /\ i1 \in Instructions /\ i1.op = "push" /\ i1.height = depth /\ i1.placed = locals
      /\ i2 \in Instructions /\ i2.op = "return" /\ i2.height = depth + 1 /\ i2.placed = locals
  BY <1>1, <1>4, InstructionFields
<1>7. Leads(i1, depth + 1, locals)
  <2>1. /\ e1.op \notin Pops /\ e1.op # "dup" /\ e1.op # "combine" /\ Len(locals) <= depth
        /\ Raised(depth, e1.op, e1.n) = depth + 1
    BY <1>1, <1>2, <1>4 DEF Pops, Pushes, Raised
  <2>2. Leads(Instruction(e1, depth, locals), Raised(depth, e1.op, e1.n), locals)
    BY <1>1, <1>4, <2>1, LeadsOn
  <2>. QED
    BY <2>1, <2>2
<1>8. Leads(i2, depth, locals)
  <2>1. /\ e2.op \in Pops /\ e2.op # "dup" /\ e2.op # "combine" /\ Len(locals) <= (depth + 1) - 1
        /\ Raised(depth + 1, e2.op, e2.n) = depth
    BY <1>1, <1>2, <1>4 DEF Pops, Pushes, Raised
  <2>. DEFINE d == depth + 1
  <2>2. Len(locals) <= d - 1 /\ d \in Nat
    BY <1>1, <2>1
  <2>. HIDE DEF d
  <2>3. Leads(Instruction(e2, d, locals), Raised(d, e2.op, e2.n), locals)
    BY <1>1, <1>4, <2>1, <2>2, LeadsOn
  <2>. QED
    BY <2>1, <2>3 DEF d
<1>. HIDE DEF i1, i2
<1>9. chunk' = c2
  BY <1>1, <1>5, <1>6, TwoMore
<1>10. /\ c1 \in Seq(Instructions) /\ Len(c1) = Len(chunk) + 1
       /\ \A n \in 1 .. Len(chunk) : c1[n] = chunk[n]
       /\ c1[Len(chunk) + 1] = i1
  BY <1>1, <1>6, AppendFacts
<1>11. Sound(c1, depth + 1, locals, {})
  <2>1. Len(locals) <= depth /\ i1.op \notin Jumps
    BY <1>1, <1>2, <1>6 DEF Jumps
  <2>. QED
    BY <1>1, <1>2, <1>6, <1>7, <2>1, EmitSound
<1>12. Extended(chunk, depth, locals, c1, depth + 1, locals)
  BY <1>1, <1>6, EmitExtends
<1>. HIDE DEF c1
<1>13. /\ c2 \in Seq(Instructions) /\ Len(c2) = Len(c1) + 1 /\ Len(c1) \in Nat
       /\ \A n \in 1 .. Len(c1) : c2[n] = c1[n]
       /\ c2[Len(c1) + 1] = i2
  BY <1>6, <1>10, AppendFacts
<1>14. Sound(c2, depth, locals, {})
  <2>1. Len(locals) <= depth + 1 /\ i2.op \notin Jumps /\ i2.op # "combine"
        /\ i2.op \notin {"getLocal", "setLocal"}
    BY <1>1, <1>2, <1>6 DEF Jumps
  <2>. QED
    BY <1>6, <1>8, <1>10, <1>11, <2>1, EmitSound
<1>15. Extended(c1, depth + 1, locals, c2, depth, locals)
  BY <1>6, <1>10, EmitExtends
<1>. HIDE DEF c2
<1>16. Extended(chunk, depth, locals, c2, depth, locals)
  BY <1>1, <1>10, <1>12, <1>13, <1>15, ExtendedTwice
<1>17. /\ UNCHANGED <<todo, nodes, locals, declared, loop, depth, ip, stack>> /\ phase' = "run"
  BY DEF EndFunction, compiler, machine
<1>18. TypeOK'
  <2>1. 1 \in 1 .. Len(c2) + 1
    BY <1>13
  <2>. QED
    BY <1>1, <1>9, <1>13, <1>17, <2>1 DEF IInv, TypeOK
<1>19. /\ Balanced(todo, depth, locals) /\ Ordered(todo, locals) /\ Scoped(todo, c2, locals)
       /\ LoopsSound(todo, loop, c2, depth, locals) /\ Nested(todo, loop, c2, locals)
  <2>1. Len(todo) = 0 /\ Whiles(todo) = {}
    BY <1>1 DEF Whiles
  <2>2. loop = NoLoop
    BY <1>1, <2>1 DEF Compiled, Nested
  <2>3. LoopsSound(todo, loop, c2, depth, locals)
    BY <2>1, <2>2 DEF LoopsSound, LoopSound
  <2>4. Scoped(todo, c2, locals)
    BY <2>1 DEF Scoped
  <2>5. Nested(todo, loop, c2, locals)
    BY <2>1, <2>2 DEF Nested
  <2>. QED
    BY <1>1, <2>3, <2>4, <2>5 DEF Compiled
<1>20. StackAsCompiled'
  <2>1. /\ Height(c2, depth, 1) = Height(chunk, depth, 1)
        /\ Placed(c2, locals, 1) = Placed(chunk, locals, 1)
    BY <1>1, <1>16 DEF Extended
  <2>2. StackAsCompiled
    BY DEF IInv
  <2>. QED
    BY <1>1, <1>9, <1>17, <2>1, <2>2 DEF StackAsCompiled
<1>21. Runnable'
  <2>1. Len(c2) = Len(chunk) + 2 /\ c2[Len(c2)].op = "return" /\ 1 <= Len(c2)
    <3>1. (Len(chunk) + 1) + 1 = Len(chunk) + 2
      BY <1>1
    <3>. QED
      BY <1>1, <1>6, <1>10, <1>13, <3>1
  <2>2. ASSUME NEW n \in 1 .. Len(c2), c2[n].op \in Jumps
        PROVE  c2[n].n \in 1 .. Len(c2)
    <3>1. n \in 1 .. Len(chunk)
      <4>1. n # Len(chunk) + 1
        <5>1. Len(chunk) + 1 \in 1 .. Len(c1) /\ i1.op \notin Jumps
          BY <1>1, <1>6, <1>10 DEF Jumps
        <5>. QED
          BY <1>10, <1>13, <2>2, <5>1
      <4>2. n # Len(chunk) + 2
        <5>1. Len(c1) + 1 = Len(chunk) + 2 /\ i2.op \notin Jumps
          BY <1>1, <1>6, <1>10 DEF Jumps
        <5>. QED
          BY <1>13, <2>2, <5>1
      <4>. QED
        BY <1>1, <2>1, <4>1, <4>2
    <3>2. c2[n] = chunk[n]
      <4>1. n \in 1 .. Len(c1)
        BY <1>1, <1>10, <3>1
      <4>. QED
        BY <1>10, <1>13, <3>1, <4>1
    <3>3. chunk[n].n \in 1 .. Len(chunk) + 1
      BY <1>2, <2>2, <3>1, <3>2 DEF Sound
    <3>. QED
      BY <1>1, <2>1, <3>2, <3>3
  <2>. QED
    BY <1>1, <1>9, <1>17, <2>1, <2>2 DEF Runnable
<1>. QED
  BY <1>2, <1>9, <1>14, <1>17, <1>18, <1>19, <1>20, <1>21 DEF IInv

--------------------------------------------------------------------------------
(* The function that runs keeps it as well *)

\* What the invariant says of the instruction that is executed next.
LEMMA RunFacts ==
    ASSUME IInv, phase = "run"
    PROVE  /\ todo = << >> /\ chunk \in Seq(Instructions) /\ Len(chunk) \in Nat
           /\ ip \in 1 .. Len(chunk) /\ chunk[ip] \in Instructions /\ stack \in Seq(Nat)
           /\ Sound(chunk, depth, locals, {}) /\ Current = chunk[ip]
           /\ Len(stack) = Current.height /\ Len(stack) \in Nat
           /\ Len(Current.placed) <= Len(stack)
           /\ \A j \in 1 .. Len(Current.placed) : stack[j] = Current.placed[j]
           /\ Current.op = "combine" => Current.n <= Len(stack)
           /\ Current.n \in Nat /\ Current.var \in Nat /\ Len(Current.placed) \in Nat
<1>1. /\ todo = << >> /\ chunk \in Seq(Instructions) /\ Len(chunk) \in Nat
      /\ ip \in 1 .. Len(chunk) /\ stack \in Seq(Nat) /\ Len(stack) \in Nat
      /\ Sound(chunk, depth, locals, Unfinished(todo, loop))
  BY DEF IInv, TypeOK, Runnable
<1>2. Sound(chunk, depth, locals, {})
  BY <1>1, Finished, IsCompiling
<1>3. /\ chunk[ip] \in Instructions /\ chunk[ip].n \in Nat /\ chunk[ip].var \in Nat
      /\ Len(chunk[ip].placed) \in Nat /\ chunk[ip].height \in Nat
  BY <1>1, ChunkFacts
<1>4. /\ Height(chunk, depth, ip) = chunk[ip].height
      /\ Placed(chunk, locals, ip) = chunk[ip].placed
  BY <1>1 DEF Height, Placed
<1>5. /\ Len(stack) = chunk[ip].height
      /\ \A j \in 1 .. Len(chunk[ip].placed) : stack[j] = chunk[ip].placed[j]
  BY <1>4 DEF IInv, StackAsCompiled
<1>6. /\ Len(chunk[ip].placed) <= chunk[ip].height
      /\ chunk[ip].op = "combine" => chunk[ip].n <= chunk[ip].height
  BY <1>1, <1>2 DEF Sound
<1>. QED
  BY <1>1, <1>2, <1>3, <1>5, <1>6 DEF Current

\* The instruction does to the stack what the compiler takes it to do.
Executed ==
    /\ stack' \in Seq(Nat) /\ Len(stack') = Raised(Len(stack), Current.op, Current.n)
    /\ \A j \in Nat \ {0} : j <= Kept(Current) => stack'[j] = stack[j]
    /\ Current.op \in {"push", "dup"} => stack'[Kept(Current) + 1] = Current.var
    /\ Here

LEMMA ComesTo ==
    ASSUME IInv, phase = "run", Executed,
           NEW target \in 1 .. Len(chunk), ip' = target,
           Leads(Current, Height(chunk, depth, target), Placed(chunk, locals, target))
    PROVE  IInv'
<1>. DEFINE s2 == chunk[target].placed
<1>1. /\ chunk \in Seq(Instructions) /\ Len(chunk) \in Nat /\ Len(stack) = Current.height
      /\ \A j \in 1 .. Len(Current.placed) : stack[j] = Current.placed[j]
      /\ Sound(chunk, depth, locals, {}) /\ Len(Current.placed) \in Nat
  BY RunFacts
<1>2. /\ Height(chunk, depth, target) = chunk[target].height
      /\ Placed(chunk, locals, target) = s2
  BY DEF Height, Placed
<1>3. /\ Len(s2) <= chunk[target].height /\ Len(s2) \in Nat /\ chunk[target].height \in Nat
  BY <1>1, ChunkFacts DEF Sound
<1>4. Len(stack') = chunk[target].height
  BY <1>1, <1>2 DEF Executed, Leads
<1>5. ASSUME NEW j \in 1 .. Len(s2)
      PROVE  j <= Len(stack') /\ stack'[j] = s2[j]
  <2>1. j <= Len(stack') /\ j \in Nat \ {0}
    BY <1>3, <1>4
  <2>2. \/ j <= Kept(Current) /\ j <= Len(Current.placed) /\ s2[j] = Current.placed[j]
        \/ Current.op \in {"push", "dup"} /\ j = Kept(Current) + 1 /\ s2[j] = Current.var
    BY <1>2 DEF Leads
  <2>3. CASE j <= Kept(Current) /\ j <= Len(Current.placed) /\ s2[j] = Current.placed[j]
    <3>1. j \in 1 .. Len(Current.placed)
      BY <1>1, <2>1, <2>3
    <3>2. stack'[j] = stack[j]
      BY <2>1, <2>3 DEF Executed
    <3>. QED
      BY <1>1, <2>1, <2>3, <3>1, <3>2
  <2>4. CASE Current.op \in {"push", "dup"} /\ j = Kept(Current) + 1 /\ s2[j] = Current.var
    BY <2>1, <2>4 DEF Executed
  <2>. QED
    BY <2>2, <2>3, <2>4
<1>6. /\ UNCHANGED <<phase, todo, nodes, locals, declared, loop, chunk, depth>>
      /\ stack' \in Seq(Nat)
  BY DEF Executed, Here, compiler, code
<1>7. target \in 1 .. Len(chunk) + 1 /\ target <= Len(chunk)
  BY <1>1
<1>8. TypeOK'
  BY <1>6, <1>7 DEF IInv, TypeOK
<1>9. StackAsCompiled'
  BY <1>2, <1>4, <1>5, <1>6 DEF StackAsCompiled
<1>10. Runnable'
  BY <1>6, <1>7 DEF IInv, Runnable
<1>11. /\ Balanced(todo, depth, locals) /\ Ordered(todo, locals) /\ Scoped(todo, chunk, locals)
       /\ LoopsSound(todo, loop, chunk, depth, locals) /\ Nested(todo, loop, chunk, locals)
       /\ Sound(chunk, depth, locals, Unfinished(todo, loop))
  BY DEF IInv
<1>. QED
  BY <1>6, <1>8, <1>9, <1>10, <1>11 DEF IInv

LEMMA StepKeeps ==
    ASSUME IInv, phase = "run", Executed, Step, Current.op # "return"
    PROVE  IInv'
<1>1. ip \in 1 .. Len(chunk) /\ Current = chunk[ip] /\ Len(chunk) \in Nat
      /\ Sound(chunk, depth, locals, {})
  BY RunFacts
<1>2. ip # Len(chunk)
  BY <1>1 DEF IInv, Runnable
<1>3. ip + 1 \in 1 .. Len(chunk)
  BY <1>1, <1>2
<1>4. Leads(Current, Height(chunk, depth, ip + 1), Placed(chunk, locals, ip + 1))
  BY <1>1 DEF Sound
<1>5. ip' = ip + 1
  BY DEF Step, Goto
<1>. QED
  BY <1>3, <1>4, <1>5, ComesTo

LEMMA JumpKeeps ==
    ASSUME IInv, phase = "run", Executed, Current.op \in Jumps, Goto(Current.n)
    PROVE  IInv'
<1>1. ip \in 1 .. Len(chunk) /\ Current = chunk[ip] /\ Sound(chunk, depth, locals, {})
  BY RunFacts
<1>2. Current.n \in 1 .. Len(chunk)
  BY <1>1 DEF IInv, Runnable
<1>3. Leads(Current, Height(chunk, depth, Current.n), Placed(chunk, locals, Current.n))
  BY <1>1 DEF Sound
<1>. QED
  BY <1>2, <1>3, ComesTo DEF Goto

\* The stack without its top, and with one value more.
LEMMA StackFacts ==
    ASSUME NEW st \in Seq(Nat), NEW v \in Nat
    PROVE  /\ Len(st) \in Nat
           /\ Append(st, v) \in Seq(Nat) /\ Len(Append(st, v)) = Len(st) + 1
           /\ \A j \in 1 .. Len(st) : Append(st, v)[j] = st[j]
           /\ Append(st, v)[Len(st) + 1] = v
           /\ \A n \in 0 .. Len(st) :
                /\ SubSeq(st, 1, n) \in Seq(Nat) /\ Len(SubSeq(st, 1, n)) = n
                /\ \A j \in 1 .. n : SubSeq(st, 1, n)[j] = st[j]
<1>1. Len(st) \in Nat
  OBVIOUS
<1>2. ASSUME NEW n \in 0 .. Len(st)
      PROVE  /\ SubSeq(st, 1, n) \in Seq(Nat) /\ Len(SubSeq(st, 1, n)) = n
             /\ \A j \in 1 .. n : SubSeq(st, 1, n)[j] = st[j]
  BY <1>1
<1>3. /\ Append(st, v) \in Seq(Nat) /\ Len(Append(st, v)) = Len(st) + 1
      /\ \A j \in 1 .. Len(st) : Append(st, v)[j] = st[j]
      /\ Append(st, v)[Len(st) + 1] = v
  OBVIOUS
<1>. QED
  BY <1>1, <1>2, <1>3

LEMMA PushExecuted ==
    ASSUME IInv, RunPush \/ RunGetLocal
    PROVE  IInv'
<1>1. /\ phase = "run" /\ Current.op \in {"push", "getLocal"} /\ Step /\ Here
      /\ \E v \in Nat : /\ stack' = Append(stack, v)
                        /\ Current.op = "push" => v = Current.var
  <2>1. phase = "run"
    BY DEF RunPush, RunGetLocal, Running
  <2>2. Current.var \in Nat
    BY <2>1, RunFacts
  <2>. QED
    BY <2>1, <2>2 DEF RunPush, RunGetLocal, Running, Temporary
<1>2. PICK v \in Nat : stack' = Append(stack, v) /\ (Current.op = "push" => v = Current.var)
  BY <1>1
<1>3. stack \in Seq(Nat) /\ Len(stack) = Current.height
  BY <1>1, RunFacts
<1>4. /\ stack' \in Seq(Nat) /\ Len(stack') = Len(stack) + 1 /\ Len(stack) \in Nat
      /\ \A j \in 1 .. Len(stack) : stack'[j] = stack[j]
      /\ stack'[Len(stack) + 1] = v
  BY <1>2, <1>3, StackFacts
<1>5. Raised(Len(stack), Current.op, Current.n) = Len(stack) + 1 /\ Kept(Current) = Len(stack)
  BY <1>1, <1>3 DEF Raised, Pushes, Pops, Kept
<1>6. Executed
  <2>1. \A j \in Nat \ {0} : j <= Kept(Current) => stack'[j] = stack[j]
    BY <1>4, <1>5
  <2>2. Current.op \in {"push", "dup"} => stack'[Kept(Current) + 1] = Current.var
    BY <1>1, <1>2, <1>4, <1>5
  <2>. QED
    BY <1>1, <1>4, <1>5, <2>1, <2>2 DEF Executed
<1>. QED
  BY <1>1, <1>6, StepKeeps

\* The value, or the condition, is taken off the stack.
LEMMA PopExecuted ==
    ASSUME IInv, RunPop \/ RunJumpIfFalse
    PROVE  IInv'
<1>1. /\ phase = "run" /\ Current.op \in {"pop", "jumpIfFalse"} /\ Here
      /\ stack' = Front(stack) /\ Len(stack) > 0
      /\ Step \/ (Current.op = "jumpIfFalse" /\ Goto(Current.n))
  BY DEF RunPop, RunJumpIfFalse, Running
<1>2. stack \in Seq(Nat) /\ Len(stack) = Current.height /\ Len(stack) \in Nat
  BY <1>1, RunFacts
<1>. DEFINE n == Len(stack) - 1
<1>3. n \in 0 .. Len(stack) /\ stack' = SubSeq(stack, 1, n)
  BY <1>1, <1>2 DEF Front
<1>4. Raised(Len(stack), Current.op, Current.n) = n /\ Kept(Current) = n
  BY <1>1, <1>2 DEF Raised, Pushes, Pops, Kept
<1>. HIDE DEF n
<1>5. /\ stack' \in Seq(Nat) /\ Len(stack') = n
      /\ \A j \in 1 .. n : stack'[j] = stack[j]
  BY <1>2, <1>3, StackFacts
<1>6. Executed
  <2>1. \A j \in Nat \ {0} : j <= Kept(Current) => stack'[j] = stack[j]
    BY <1>2, <1>3, <1>4, <1>5
  <2>. QED
    BY <1>1, <1>4, <1>5, <2>1 DEF Executed
<1>7. CASE Step
  BY <1>1, <1>6, <1>7, StepKeeps
<1>8. CASE Current.op = "jumpIfFalse" /\ Goto(Current.n)
  BY <1>1, <1>6, <1>8, JumpKeeps DEF Jumps
<1>. QED
  BY <1>1, <1>7, <1>8

\* The stack stays as it is.
LEMMA NothingExecuted ==
    ASSUME IInv, RunSetLocal \/ RunJump
    PROVE  IInv'
<1>1. /\ phase = "run" /\ Here /\ stack' = stack
      /\ \/ Current.op = "setLocal" /\ Step
         \/ Current.op = "jump" /\ Goto(Current.n)
  BY DEF RunSetLocal, RunJump, Running
<1>2. stack \in Seq(Nat) /\ Len(stack) \in Nat
  BY <1>1, RunFacts
<1>3. Executed
  <2>1. Raised(Len(stack), Current.op, Current.n) = Len(stack)
    BY <1>1 DEF Raised, Pushes, Pops
  <2>2. Current.op \notin {"push", "dup"}
    BY <1>1
  <2>. QED
    BY <1>1, <1>2, <2>1, <2>2 DEF Executed
<1>4. CASE Current.op = "setLocal" /\ Step
  BY <1>1, <1>3, <1>4, StepKeeps
<1>5. CASE Current.op = "jump" /\ Goto(Current.n)
  BY <1>1, <1>3, <1>5, JumpKeeps DEF Jumps
<1>. QED
  BY <1>1, <1>4, <1>5

LEMMA CombineExecuted ==
    ASSUME IInv, RunCombine
    PROVE  IInv'
<1>. DEFINE n == Len(stack) - Current.n
            kept == SubSeq(stack, 1, n)
<1>1. /\ phase = "run" /\ Current.op = "combine" /\ Here /\ Step
      /\ stack' = Append(kept, Temporary)
  BY DEF RunCombine, Running
<1>2. /\ stack \in Seq(Nat) /\ Len(stack) = Current.height /\ Len(stack) \in Nat
      /\ Current.n \in Nat /\ Current.n <= Len(stack)
  BY <1>1, RunFacts
<1>3. n \in 0 .. Len(stack)
  BY <1>2
<1>4. Raised(Len(stack), Current.op, Current.n) = n + 1 /\ Kept(Current) = n
  BY <1>1, <1>2 DEF Raised, Pushes, Pops, Kept
<1>. HIDE DEF n
<1>5. kept \in Seq(Nat) /\ Len(kept) = n /\ \A j \in 1 .. n : kept[j] = stack[j]
  BY <1>2, <1>3, StackFacts
<1>. HIDE DEF kept
<1>6. /\ stack' \in Seq(Nat) /\ Len(stack') = n + 1
      /\ \A j \in 1 .. n : stack'[j] = kept[j]
  <2>1. Temporary \in Nat
    BY DEF Temporary
  <2>. QED
    BY <1>1, <1>5, <2>1, StackFacts
<1>7. Executed
  <2>1. \A j \in Nat \ {0} : j <= Kept(Current) => stack'[j] = stack[j]
    BY <1>2, <1>3, <1>4, <1>5, <1>6
  <2>. QED
    BY <1>1, <1>4, <1>6, <2>1 DEF Executed
<1>. QED
  BY <1>1, <1>7, StepKeeps

\* The value below the copy belongs to the local.
LEMMA DupExecuted ==
    ASSUME IInv, RunDup
    PROVE  IInv'
<1>. DEFINE n == Len(stack) - 1
            kept == SubSeq(stack, 1, n)
            who == Current.var
<1>1. /\ phase = "run" /\ Current.op = "dup" /\ Here /\ Step
      /\ stack' = kept \o <<who, Temporary>> /\ Len(stack) > 0
  BY DEF RunDup, Running, Front
<1>2. stack \in Seq(Nat) /\ Len(stack) = Current.height /\ Len(stack) \in Nat /\ who \in Nat
  BY <1>1, RunFacts
<1>3. n \in 0 .. Len(stack) /\ n \in Nat
  BY <1>1, <1>2
<1>4. Raised(Len(stack), Current.op, Current.n) = n + 2 /\ Kept(Current) = n
  BY <1>1, <1>2 DEF Raised, Pushes, Pops, Kept
<1>. HIDE DEF n, who
<1>5. kept \in Seq(Nat) /\ Len(kept) = n /\ \A j \in 1 .. n : kept[j] = stack[j]
  BY <1>2, <1>3, StackFacts
<1>. HIDE DEF kept
<1>. DEFINE once == Append(kept, who)
<1>6. stack' = Append(once, Temporary) /\ Temporary \in Nat
  BY <1>1, <1>2, <1>5, TwoMore DEF Temporary
<1>7. /\ once \in Seq(Nat) /\ Len(once) = n + 1
      /\ \A j \in 1 .. n : once[j] = kept[j]
      /\ once[n + 1] = who
  BY <1>2, <1>5, StackFacts
<1>. HIDE DEF once
<1>8. /\ stack' \in Seq(Nat) /\ Len(stack') = (n + 1) + 1
      /\ \A j \in 1 .. n + 1 : stack'[j] = once[j]
  BY <1>6, <1>7, StackFacts
<1>9. Executed
  <2>1. ASSUME NEW j \in Nat \ {0}, j <= Kept(Current)
        PROVE  stack'[j] = stack[j]
    <3>1. j \in 1 .. n /\ j \in 1 .. n + 1
      BY <1>3, <1>4, <2>1
    <3>. QED
      BY <1>5, <1>7, <1>8, <3>1
  <2>2. stack'[Kept(Current) + 1] = Current.var
    <3>1. n + 1 \in 1 .. n + 1
      BY <1>3
    <3>. QED
      BY <1>4, <1>7, <1>8, <3>1 DEF who
  <2>3. (n + 1) + 1 = n + 2
    BY <1>3
  <2>. QED
    BY <1>1, <1>4, <1>8, <2>1, <2>2, <2>3 DEF Executed
<1>. QED
  BY <1>1, <1>9, StepKeeps

LEMMA ReturnExecuted ==
    ASSUME IInv, RunReturn
    PROVE  IInv'
<1>1. /\ phase = "run" /\ phase' = "done"
      /\ UNCHANGED <<todo, nodes, locals, declared, loop, chunk, depth, ip, stack>>
  BY DEF RunReturn, Running, compiler, code, machine
<1>2. TypeOK' /\ StackAsCompiled' /\ Runnable'
  BY <1>1 DEF IInv, TypeOK, StackAsCompiled, Runnable
<1>3. /\ Balanced(todo, depth, locals) /\ Ordered(todo, locals) /\ Scoped(todo, chunk, locals)
      /\ LoopsSound(todo, loop, chunk, depth, locals) /\ Nested(todo, loop, chunk, locals)
      /\ Sound(chunk, depth, locals, Unfinished(todo, loop))
  BY DEF IInv
<1>. QED
  BY <1>1, <1>2, <1>3 DEF IInv

LEMMA RunKeeps ==
    ASSUME IInv, Run
    PROVE  IInv'
  BY PushExecuted, PopExecuted, NothingExecuted, CombineExecuted, DupExecuted, ReturnExecuted
     DEF Run

--------------------------------------------------------------------------------
(* Theorems *)

LEMMA InitIInv ==
    ASSUME Init
    PROVE  IInv
<1>. DEFINE h == Statements(Len(locals))
<1>1. Arity \in Nat /\ Arity <= MaxLocals /\ MaxNodes \in Nat
  BY BoundsAssumption
<1>2. /\ locals \in Seq(1 .. declared) /\ locals \in Seq(Nat) /\ Len(locals) = Arity
      /\ declared = Arity /\ depth = Arity /\ stack = locals /\ ip = 1
      /\ chunk = << >> /\ loop = NoLoop /\ nodes = 0 /\ phase = "compile"
  BY <1>1 DEF Init
<1>3. h \in Items /\ h.do = "stmts" /\ h.from = Arity
  BY <1>1, <1>2, ItemKinds
<1>4. todo = <<h>>
  BY DEF Init
<1>. HIDE DEF h
<1>5. todo \in Seq(Items) /\ Len(todo) = 1 /\ todo[1] = h
  BY <1>3, <1>4
<1>6. Above(h) = 0 /\ Left(h) = 0
  BY <1>3 DEF Above, Left
<1>7. Whiles(todo) = {} /\ chunk \in Seq(Instructions) /\ Len(chunk) = 0
  BY <1>2, <1>3, <1>5 DEF Whiles
<1>8. TypeOK
  BY <1>1, <1>2, <1>5, <1>7, LoopFacts DEF TypeOK
<1>9. Balanced(todo, depth, locals)
  BY <1>1, <1>2, <1>4, <1>5, <1>6 DEF Balanced
<1>10. Ordered(todo, locals)
  BY <1>3, <1>5 DEF Ordered, Inner
<1>11. Scoped(todo, chunk, locals)
  BY <1>1, <1>2, <1>3, <1>5 DEF Scoped, Awaiting
<1>12. LoopsSound(todo, loop, chunk, depth, locals)
  BY <1>2, <1>7 DEF LoopsSound, LoopSound
<1>13. Nested(todo, loop, chunk, locals)
  BY <1>1, <1>2, <1>3, <1>5, <1>7, LoopFacts DEF Nested
<1>14. Sound(chunk, depth, locals, Unfinished(todo, loop))
  BY <1>7 DEF Sound
<1>15. StackAsCompiled
  <2>1. Height(chunk, depth, ip) = depth /\ Placed(chunk, locals, ip) = locals
    BY <1>2, <1>7 DEF Height, Placed
  <2>. QED
    BY <1>1, <1>2, <2>1 DEF StackAsCompiled
<1>16. Runnable
  BY <1>2 DEF Runnable
<1>. QED
  BY <1>8, <1>9, <1>10, <1>11, <1>12, <1>13, <1>14, <1>15, <1>16 DEF IInv

LEMMA StatementKeeps ==
    ASSUME IInv, NotRefused, CompileStatement
    PROVE  IInv'
<1>1. Compiling /\ nodes \in 0 .. MaxNodes
  BY IsCompiling
<1>2. Onwards
  BY <1>1, StatementOnwards
<1>3. phase = "compile"
  BY DEF CompileStatement, Block, MoreStatements, EndBlock, ExpressionStatement, Return, While,
     WhileBody, EndWhile, If, ThenCase, ElseCase, EndIf, Break, Continue, Doing
<1>4. Continues
  BY <1>1, BlockStep, MoreStatementsStep, EndBlockStep, ExpressionStatementStep, ReturnStep,
     WhileStep, WhileBodyStep, EndWhileStep, IfStep, ThenCaseStep, ElseCaseStep, EndIfStep,
     BreakStep, ContinueStep DEF CompileStatement
<1>. QED
  BY <1>2, <1>3, <1>4, CompilerKeeps

LEMMA ExpressionKeeps ==
    ASSUME IInv, NotRefused, CompileExpression \/ Written
    PROVE  IInv'
<1>1. Compiling /\ nodes \in 0 .. MaxNodes /\ declared \in Nat
  BY IsCompiling
<1>2. Onwards
  BY <1>1, ExpressionOnwards
<1>3. phase = "compile"
  BY DEF CompileExpression, Written, Leaf, Operation, GetLocal, SetLocal, NewLocal, Bind,
     NewFunction, Doing
<1>4. Continues
  BY <1>1, WrittenStep, LeafStep, OperationStep, GetLocalStep, SetLocalStep, NewLocalStep,
     BindStep, NewFunctionStep DEF CompileExpression
<1>. QED
  BY <1>2, <1>3, <1>4, CompilerKeeps

LEMMA StutterKeeps ==
    ASSUME IInv, UNCHANGED vars
    PROVE  IInv'
<1>1. UNCHANGED <<phase, todo, nodes, locals, declared, loop, chunk, depth, ip, stack>>
  BY DEF vars, compiler, code, machine
<1>2. TypeOK' /\ StackAsCompiled' /\ Runnable'
  BY <1>1 DEF IInv, TypeOK, StackAsCompiled, Runnable
<1>3. /\ Balanced(todo, depth, locals) /\ Ordered(todo, locals) /\ Scoped(todo, chunk, locals)
      /\ LoopsSound(todo, loop, chunk, depth, locals) /\ Nested(todo, loop, chunk, locals)
      /\ Sound(chunk, depth, locals, Unfinished(todo, loop))
  BY DEF IInv
<1>. QED
  BY <1>1, <1>2, <1>3 DEF IInv

\* The invariant is inductive, so long as no local is refused: what the compiler takes the
\* stack to be at an instruction is what every way to it leaves.
THEOREM CompiledAsRun == Spec /\ [][NotRefused]_vars => []IInv
<1>1. Init => IInv
  BY InitIInv
<1>2. IInv /\ [Next]_vars /\ [NotRefused]_vars => IInv'
  BY StatementKeeps, ExpressionKeeps, EndFunctionKeeps, RunKeeps, StutterKeeps DEF Next
<1>. QED
  BY <1>1, <1>2, PTL DEF Spec

\* An expression pushes one value and a statement none.
THEOREM BalancedStatements == Spec /\ [][NotRefused]_vars => []StatementsBalanced
<1>1. IInv => StatementsBalanced
  <2>1. ASSUME IInv, NEW what \in {"stmt", "stmts"}, Doing(what)
        PROVE  depth = Len(locals)
    <3>1. /\ todo[1].do = what /\ depth = Len(locals) + Above(todo[1])
          /\ Len(locals) \in Nat
      BY <2>1, IsCompiling, DoingFacts
    <3>2. Above(todo[1]) = 0
      BY <3>1 DEF Above
    <3>. QED
      BY <3>1, <3>2
  <2>. QED
    BY <2>1 DEF StatementsBalanced
<1>. QED
  BY <1>1, CompiledAsRun, PTL

\* Every path to an instruction finds the stack equally high.
THEOREM PathsAgree == Spec /\ [][NotRefused]_vars => []HeightsAgree
<1>1. IInv => HeightsAgree
  BY RunFacts DEF HeightsAgree
<1>. QED
  BY <1>1, CompiledAsRun, PTL

\* The slot that an instruction reads or writes is the local's.
THEOREM SlotsAreLocals == Spec /\ [][NotRefused]_vars => []LocalsInPlace
<1>1. IInv => LocalsInPlace
  <2>1. ASSUME IInv, phase = "run", Current.op \in {"getLocal", "setLocal"}
        PROVE  Current.n <= Len(stack) /\ stack[Current.n] = Current.var
    <3>1. /\ Current = chunk[ip] /\ ip \in 1 .. Len(chunk) /\ Sound(chunk, depth, locals, {})
          /\ Len(Current.placed) <= Len(stack) /\ Len(Current.placed) \in Nat
          /\ Len(stack) \in Nat
          /\ \A j \in 1 .. Len(Current.placed) : stack[j] = Current.placed[j]
      BY <2>1, RunFacts
    <3>2. /\ Current.n \in 1 .. Len(Current.placed)
          /\ Current.placed[Current.n] = Current.var
      BY <2>1, <3>1 DEF Sound
    <3>. QED
      BY <3>1, <3>2
  <2>. QED
    BY <2>1 DEF LocalsInPlace
<1>. QED
  BY <1>1, CompiledAsRun, PTL
================================================================================
