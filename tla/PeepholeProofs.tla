----------------------------- MODULE PeepholeProofs ----------------------------
(***************************************************************************)
(* Proofs about Peephole, for functions of any length and any nesting of   *)
(* loops and conditionals.                                                 *)
(***************************************************************************)
EXTENDS Peephole, SequenceTheorems, TLAPS

--------------------------------------------------------------------------------
(* Chunks *)

\* Code all of whose jumps are patched but for those in a set.
Code(c, unpatched) ==
    c \in Seq(Instructions) /\ Laid(c) /\ Numbered(c) /\ Patched(c, unpatched)

\* What is emitted does not move what is there, and patching moves nothing.
Extended(r, c) ==
    /\ Len(c) <= Len(r)
    /\ \A n \in 1 .. Len(c) : r[n].op = c[n].op /\ r[n].at = c[n].at

LEMMA Sizes ==
    /\ \A op \in Ops : Size(op) \in Nat \ {0}
    /\ \A op \in Forward \cup {"loop"} : op \in Ops /\ Size(op) = 3
    /\ Size("dup") = 1 /\ Size("pop") = 1
    /\ "loop" \notin Forward /\ "dup" \notin Forward /\ "pop" \notin Forward
BY DEF Ops, Size, Forward

LEMMA InstructionFacts ==
    ASSUME NEW c \in Seq(Instructions)
    PROVE  /\ Len(c) \in Nat /\ DOMAIN c = 1 .. Len(c)
           /\ \A n \in 1 .. Len(c) :
                /\ c[n] \in Instructions /\ c[n].op \in Ops /\ c[n].at \in Nat
                /\ c[n].operand \in Nat /\ c[n].aim \in Nat /\ c[n].from \in Nat
                /\ End(c, n) = c[n].at + Size(c[n].op)
           /\ \A n \in 0 .. Len(c) : End(c, n) \in Nat
<1>1. Len(c) \in Nat /\ DOMAIN c = 1 .. Len(c)
  BY LenProperties
<1>2. \A n \in 1 .. Len(c) : c[n] \in Instructions
  BY ElementOfSeq
<1>3. \A n \in 1 .. Len(c) :
        /\ c[n].op \in Ops /\ c[n].at \in Nat
        /\ c[n].operand \in Nat /\ c[n].aim \in Nat /\ c[n].from \in Nat
  BY <1>2 DEF Instructions
<1>4. \A n \in 1 .. Len(c) : End(c, n) = c[n].at + Size(c[n].op)
  BY <1>1 DEF End
<1>5. \A n \in 0 .. Len(c) : End(c, n) \in Nat
  <2>1. \A n \in 1 .. Len(c) : Size(c[n].op) \in Nat
    BY <1>3, Sizes
  <2>2. \A n \in 1 .. Len(c) : End(c, n) \in Nat
    BY <1>3, <1>4, <2>1
  <2>3. End(c, 0) = 0
    BY DEF End
  <2>. QED
    BY <1>1, <2>2, <2>3
<1>. QED
  BY <1>1, <1>2, <1>3, <1>4, <1>5

LEMMA ExtendedFacts ==
    ASSUME NEW c \in Seq(Instructions), NEW r \in Seq(Instructions), Extended(r, c)
    PROVE  /\ \A n \in 0 .. Len(c) : End(r, n) = End(c, n)
           /\ \A m : Target(c, m) => Target(r, m) /\ m \in Nat \ {0} /\ End(r, m - 1) = End(c, m - 1)
<1>1. Len(c) \in Nat /\ Len(r) \in Nat
  BY InstructionFacts
<1>2. \A n \in 0 .. Len(c) : End(r, n) = End(c, n)
  <2>. SUFFICES ASSUME NEW n \in 0 .. Len(c) PROVE End(r, n) = End(c, n)
    OBVIOUS
  <2>1. CASE n = 0
    BY <2>1 DEF End
  <2>2. CASE n # 0
    <3>1. n \in 1 .. Len(c)
      BY <1>1, <2>2
    <3>. QED
      BY <2>2, <3>1 DEF End, Extended
  <2>. QED
    BY <2>1, <2>2
<1>3. ASSUME NEW m, Target(c, m)
      PROVE  Target(r, m) /\ m \in Nat \ {0} /\ End(r, m - 1) = End(c, m - 1)
  <2>1. m \in 1 .. Len(c) + 1 /\ m \in 1 .. Len(r) + 1 /\ m - 1 \in 0 .. Len(c)
    BY <1>1, <1>3 DEF Target, Extended
  <2>2. m > 1 => r[m - 1].op # "dup"
    <3>1. m > 1 => m - 1 \in 1 .. Len(c)
      BY <1>1, <2>1
    <3>. QED
      BY <1>3, <3>1 DEF Target, Extended
  <2>. QED
    BY <1>2, <2>1, <2>2 DEF Target
<1>. QED
  BY <1>2, <1>3

LEMMA ExtendedTwice ==
    ASSUME NEW c \in Seq(Instructions), NEW d \in Seq(Instructions), NEW r \in Seq(Instructions),
           Extended(d, c), Extended(r, d)
    PROVE  Extended(r, c)
<1>1. Len(c) \in Nat /\ Len(d) \in Nat /\ Len(r) \in Nat
  BY InstructionFacts
<1>. QED
  BY <1>1 DEF Extended

\* A construct stays what it is while code is added.
LEMMA KnownKept ==
    ASSUME NEW c \in Seq(Instructions), NEW r \in Seq(Instructions), Extended(r, c),
           NEW s, Known(c, s)
    PROVE  Known(r, s)
<1>1. Len(c) \in Nat /\ Len(r) \in Nat /\ Len(c) <= Len(r)
  BY InstructionFacts DEF Extended
<1>2. s.exits \subseteq {n \in 1 .. Len(r) : r[n].op \in Forward}
  BY <1>1 DEF Known, Extended
<1>3. s.kind = "while" =>
        /\ s.start <= Len(r) /\ Target(r, s.start)
        /\ s.offset = End(r, s.start - 1)
  <2>. SUFFICES ASSUME s.kind = "while"
                PROVE  s.start <= Len(r) /\ Target(r, s.start) /\ s.offset = End(r, s.start - 1)
    OBVIOUS
  <2>1. s.start <= Len(c) /\ Target(c, s.start) /\ s.offset = End(c, s.start - 1)
    BY DEF Known
  <2>. QED
    BY <1>1, <2>1, ExtendedFacts
<1>. QED
  BY <1>2, <1>3 DEF Known

\* Where no DUP waits for its POP, a jump may go to the end of the code.
LEMMA EndIsTarget ==
    ASSUME NEW c \in Seq(Instructions), DupsPaired(c)
    PROVE  Target(c, Len(c) + 1)
<1>1. Len(c) \in Nat
  BY InstructionFacts
<1>2. Len(c) + 1 > 1 => c[(Len(c) + 1) - 1].op # "dup"
  <2>. SUFFICES ASSUME Len(c) + 1 > 1 PROVE c[(Len(c) + 1) - 1].op # "dup"
    OBVIOUS
  <2>1. Len(c) \in 1 .. Len(c) /\ (Len(c) + 1) - 1 = Len(c) /\ ~(Len(c) < Len(c))
    BY <1>1
  <2>2. c[Len(c)].op # "dup"
    BY <2>1 DEF DupsPaired
  <2>. QED
    BY <2>1, <2>2
<1>. QED
  BY <1>1, <1>2 DEF Target

--------------------------------------------------------------------------------
(* Emitting *)

LEMMA AppendLaid ==
    ASSUME NEW c \in Seq(Instructions), Laid(c), NEW i \in Instructions, i.at = End(c, Len(c))
    PROVE  LET r == Append(c, i) IN
           /\ r \in Seq(Instructions) /\ Len(r) = Len(c) + 1
           /\ \A n \in 1 .. Len(c) : r[n] = c[n]
           /\ r[Len(c) + 1] = i
           /\ Extended(r, c) /\ Laid(r)
<1>. DEFINE r == Append(c, i)
            L == Len(c)
<1>1. /\ r \in Seq(Instructions) /\ Len(r) = L + 1 /\ L \in Nat
      /\ \A n \in 1 .. L : r[n] = c[n]
      /\ r[L + 1] = i
  BY AppendProperties, InstructionFacts
<1>. HIDE DEF r
<1>2. Extended(r, c)
  BY <1>1 DEF Extended
<1>3. \A n \in 0 .. L : End(r, n) = End(c, n) /\ End(c, n) \in Nat
  BY <1>1, <1>2, ExtendedFacts, InstructionFacts
<1>4. End(r, L + 1) = End(c, L) + Size(i.op) /\ Size(i.op) \in Nat
  <2>1. i.op \in Ops /\ L + 1 # 0
    BY <1>1 DEF Instructions
  <2>2. End(r, L + 1) = r[L + 1].at + Size(r[L + 1].op)
    BY <2>1 DEF End
  <2>. QED
    BY <1>1, <2>1, <2>2, Sizes
<1>5. \A m \in 0 .. L : End(c, m) <= End(c, L)
  <2>1. CASE L = 0
    BY <1>3, <2>1
  <2>2. CASE L # 0
    BY <1>1, <2>2 DEF Laid
  <2>. QED
    BY <2>1, <2>2
<1>6. ASSUME NEW n \in 1 .. Len(r)
      PROVE  r[n].at = End(r, n - 1) /\ \A m \in 0 .. n : End(r, m) <= End(r, n)
  <2>1. CASE n \in 1 .. L
    <3>1. n - 1 \in 0 .. L /\ \A m \in 0 .. n : m \in 0 .. L
      BY <1>1, <2>1
    <3>2. c[n].at = End(c, n - 1) /\ \A m \in 0 .. n : End(c, m) <= End(c, n)
      BY <2>1 DEF Laid
    <3>. QED
      BY <1>1, <1>3, <2>1, <3>1, <3>2
  <2>2. CASE n = L + 1
    <3>1. n - 1 = L /\ L \in 0 .. L
      BY <1>1, <2>2
    <3>2. r[n].at = End(r, n - 1)
      BY <1>1, <1>3, <2>2, <3>1
    <3>3. ASSUME NEW m \in 0 .. n PROVE End(r, m) <= End(r, n)
      <4>1. CASE m = n
        BY <1>3, <1>4, <2>2, <3>1, <4>1
      <4>2. CASE m # n
        <5>1. m \in 0 .. L
          BY <1>1, <2>2, <4>2
        <5>2. End(r, m) <= End(c, L) /\ End(r, m) \in Nat /\ End(c, L) \in Nat
          BY <1>3, <1>5, <3>1, <5>1
        <5>. QED
          BY <1>4, <2>2, <5>2
      <4>. QED
        BY <4>1, <4>2
    <3>. QED
      BY <3>2, <3>3
  <2>. QED
    BY <1>1, <2>1, <2>2
<1>. QED
  BY <1>1, <1>2, <1>6 DEF Laid, r

LEMMA AppendNumbered ==
    ASSUME NEW c \in Seq(Instructions), Numbered(c), NEW r, Len(r) = Len(c) + 1,
           \A n \in 1 .. Len(c) : r[n] = c[n], r[Len(c) + 1].from = Len(c) + 1
    PROVE  Numbered(r)
<1>1. Len(c) \in Nat
  BY InstructionFacts
<1>. QED
  BY <1>1 DEF Numbered

\* A jump that is patched stays so.
LEMMA PatchedKept ==
    ASSUME NEW c \in Seq(Instructions), NEW r \in Seq(Instructions), Extended(r, c),
           NEW S, Patched(c, S), NEW n \in 1 .. Len(c), n \notin S, r[n] = c[n], IsJump(r[n])
    PROVE  /\ Target(r, r[n].aim)
           /\ Destination(r[n]) = End(r, r[n].aim - 1)
           /\ IF r[n].op = "loop" THEN r[n].aim <= n ELSE r[n].aim > n
<1>1. n \in Jumps(c)
  BY InstructionFacts DEF Jumps
<1>2. /\ Target(c, c[n].aim)
      /\ Destination(c[n]) = End(c, c[n].aim - 1)
      /\ IF c[n].op = "loop" THEN c[n].aim <= n ELSE c[n].aim > n
  BY <1>1 DEF Patched
<1>. QED
  BY <1>2, ExtendedFacts

LEMMA EmitCode ==
    ASSUME NEW c, NEW S, NEW T, Code(c, S), NEW op \in Ops, op # "loop",
           S \subseteq T, op \in Forward => Len(c) + 1 \in T
    PROVE  LET r == Emit(c, op) IN
           /\ Code(r, T) /\ Extended(r, c) /\ Len(r) = Len(c) + 1
           /\ r[Len(c) + 1].op = op /\ \A n \in 1 .. Len(c) : r[n] = c[n]
<1>. DEFINE i == Instruction(op, End(c, Len(c)), Unpatched, 0, Len(c) + 1)
            r == Append(c, i)
<1>1. c \in Seq(Instructions) /\ Laid(c) /\ Numbered(c) /\ Patched(c, S) /\ Len(c) \in Nat
  BY InstructionFacts DEF Code
<1>2. i \in Instructions /\ i.at = End(c, Len(c)) /\ i.from = Len(c) + 1 /\ i.op = op
  <2>1. End(c, Len(c)) \in Nat /\ Len(c) + 1 \in Nat
    BY <1>1, InstructionFacts
  <2>. DEFINE E == End(c, Len(c))
  <2>. HIDE DEF E
  <2>2. E \in Nat /\ i = Instruction(op, E, Unpatched, 0, Len(c) + 1)
    BY <2>1 DEF E
  <2>. QED
    BY <2>1, <2>2 DEF Instruction, Instructions, Unpatched, E
<1>. HIDE DEF i
<1>3. /\ r \in Seq(Instructions) /\ Len(r) = Len(c) + 1
      /\ \A n \in 1 .. Len(c) : r[n] = c[n]
      /\ r[Len(c) + 1] = i
      /\ Extended(r, c) /\ Laid(r)
  BY <1>1, <1>2, AppendLaid
<1>. HIDE DEF r
<1>4. Patched(r, T)
  <2>. SUFFICES ASSUME NEW n \in Jumps(r) \ T
                PROVE  /\ Target(r, r[n].aim)
                       /\ Destination(r[n]) = End(r, r[n].aim - 1)
                       /\ IF r[n].op = "loop" THEN r[n].aim <= n ELSE r[n].aim > n
    BY DEF Patched
  <2>1. n \in 1 .. Len(c) + 1 /\ IsJump(r[n]) /\ n \notin S /\ n \notin T
    BY <1>3, InstructionFacts DEF Jumps
  <2>2. n # Len(c) + 1
    BY <1>2, <1>3, <2>1 DEF IsJump
  <2>3. n \in 1 .. Len(c)
    BY <1>1, <2>1, <2>2
  <2>. QED
    BY <1>1, <1>3, <2>1, <2>3, PatchedKept
<1>5. Numbered(r)
  BY <1>1, <1>2, <1>3, AppendNumbered
<1>6. Emit(c, op) = r
  BY DEF Emit, r, i
<1>. QED
  BY <1>2, <1>3, <1>4, <1>5, <1>6 DEF Code

LEMMA EmitPlain ==
    ASSUME NEW c, NEW S, Code(c, S), NEW op \in Ops \ (Forward \cup {"loop"})
    PROVE  LET r == Emit(c, op) IN
           /\ Code(r, S) /\ Extended(r, c) /\ Len(r) = Len(c) + 1
           /\ r[Len(c) + 1].op = op /\ \A n \in 1 .. Len(c) : r[n] = c[n]
<1>. DEFINE T == S
<1>1. op \in Ops /\ op # "loop" /\ S \subseteq T /\ (op \in Forward => Len(c) + 1 \in T)
  OBVIOUS
<1>. HIDE DEF T
<1>2. /\ Code(Emit(c, op), T) /\ Extended(Emit(c, op), c) /\ Len(Emit(c, op)) = Len(c) + 1
      /\ Emit(c, op)[Len(c) + 1].op = op /\ \A n \in 1 .. Len(c) : Emit(c, op)[n] = c[n]
  BY <1>1, EmitCode, ZenonT(30)
<1>. QED
  BY <1>2 DEF T

LEMMA JumpCode ==
    ASSUME NEW c, NEW S, Code(c, S), NEW op \in Forward
    PROVE  LET r == EmitJump(c, op) IN
           /\ Code(r, S \cup {Len(c) + 1}) /\ Extended(r, c) /\ Len(r) = Len(c) + 1
           /\ r[Len(c) + 1].op = op /\ \A n \in 1 .. Len(c) : r[n] = c[n]
<1>. DEFINE T == S \cup {Len(c) + 1}
<1>1. op \in Ops /\ op # "loop" /\ S \subseteq T /\ (op \in Forward => Len(c) + 1 \in T)
  BY Sizes
<1>. HIDE DEF T
<1>2. /\ Code(Emit(c, op), T) /\ Extended(Emit(c, op), c) /\ Len(Emit(c, op)) = Len(c) + 1
      /\ Emit(c, op)[Len(c) + 1].op = op /\ \A n \in 1 .. Len(c) : Emit(c, op)[n] = c[n]
  BY <1>1, EmitCode, ZenonT(30)
<1>. QED
  BY <1>2 DEF EmitJump, T

LEMMA LoopCode ==
    ASSUME NEW c, NEW S, Code(c, S), NEW start, Target(c, start), start <= Len(c)
    PROVE  LET r == EmitLoop(c, End(c, start - 1), start) IN
           /\ Code(r, S) /\ Extended(r, c) /\ Len(r) = Len(c) + 1
           /\ r[Len(c) + 1].op = "loop" /\ \A n \in 1 .. Len(c) : r[n] = c[n]
<1>. DEFINE L == Len(c)
            at == End(c, L)
            offset == End(c, start - 1)
            i == Instruction("loop", at, (at + 1) - offset + 2, start, L + 1)
            r == Append(c, i)
<1>1. c \in Seq(Instructions) /\ Laid(c) /\ Numbered(c) /\ Patched(c, S) /\ L \in Nat
  BY InstructionFacts DEF Code
<1>2. start \in 1 .. L /\ start - 1 \in 0 .. L /\ L \in 1 .. L
  BY <1>1 DEF Target
<1>3. at \in Nat /\ offset \in Nat /\ offset <= at
  BY <1>1, <1>2, InstructionFacts DEF Laid
<1>. HIDE DEF at, offset
<1>4. (at + 1) - offset + 2 \in Nat /\ at + 3 - ((at + 1) - offset + 2) = offset
  BY <1>3
<1>5. /\ i \in Instructions /\ i.at = at /\ i.from = L + 1 /\ i.op = "loop" /\ i.aim = start
      /\ i.operand = (at + 1) - offset + 2
  BY <1>1, <1>2, <1>3, <1>4, Sizes DEF Instruction, Instructions
<1>6. Destination(i) = offset
  BY <1>4, <1>5, Sizes DEF Destination
<1>. HIDE DEF i
<1>7. /\ r \in Seq(Instructions) /\ Len(r) = L + 1
      /\ \A n \in 1 .. L : r[n] = c[n]
      /\ r[L + 1] = i
      /\ Extended(r, c) /\ Laid(r)
  BY <1>1, <1>5, AppendLaid DEF at
<1>. HIDE DEF r
<1>8. Patched(r, S)
  <2>. SUFFICES ASSUME NEW n \in Jumps(r) \ S
                PROVE  /\ Target(r, r[n].aim)
                       /\ Destination(r[n]) = End(r, r[n].aim - 1)
                       /\ IF r[n].op = "loop" THEN r[n].aim <= n ELSE r[n].aim > n
    BY DEF Patched
  <2>1. n \in 1 .. L + 1 /\ IsJump(r[n]) /\ n \notin S
    BY <1>7, InstructionFacts DEF Jumps
  <2>2. CASE n = L + 1
    <3>1. Target(r, start) /\ End(r, start - 1) = offset
      BY <1>1, <1>7, ExtendedFacts DEF offset
    <3>. QED
      BY <1>1, <1>2, <1>5, <1>6, <1>7, <2>2, <3>1
  <2>3. CASE n \in 1 .. L
    BY <1>1, <1>7, <2>1, <2>3, PatchedKept
  <2>. QED
    BY <1>1, <2>1, <2>2, <2>3
<1>9. Numbered(r)
  BY <1>1, <1>5, <1>7, AppendNumbered
<1>10. EmitLoop(c, End(c, start - 1), start) = r
  BY DEF EmitLoop, r, i, at, offset
<1>. QED
  BY <1>5, <1>7, <1>8, <1>9, <1>10 DEF Code

LEMMA PopsCode ==
    ASSUME NEW c, NEW S, Code(c, S), NEW k \in Nat
    PROVE  LET r == EmitPops(c, k) IN
           /\ Code(r, S) /\ Extended(r, c) /\ Len(r) = Len(c) + k
           /\ \A n \in 1 .. Len(c) : r[n] = c[n]
           /\ \A n \in Len(c) + 1 .. Len(c) + k : r[n].op = "pop"
<1>. DEFINE L == Len(c)
            E == End(c, L)
            pops == [n \in 1 .. k |-> Instruction("pop", E + n - 1, Unpatched, 0, L + n)]
            r == c \o pops
<1>1. c \in Seq(Instructions) /\ Laid(c) /\ Numbered(c) /\ Patched(c, S) /\ L \in Nat /\ E \in Nat
  BY InstructionFacts DEF Code
<1>2. \A n \in 1 .. k :
        /\ pops[n] \in Instructions /\ pops[n].at = E + n - 1 /\ pops[n].op = "pop"
        /\ pops[n].from = L + n
  <2>. SUFFICES ASSUME NEW n \in 1 .. k
                PROVE  LET i == Instruction("pop", E + n - 1, Unpatched, 0, L + n) IN
                       /\ i \in Instructions /\ i.at = E + n - 1 /\ i.op = "pop"
                       /\ i.from = L + n
    OBVIOUS
  <2>1. E + n - 1 \in Nat /\ L + n \in Nat
    BY <1>1
  <2>. HIDE DEF E
  <2>. QED
    BY <2>1 DEF Instruction, Instructions, Ops, Unpatched
<1>3. pops \in Seq(Instructions) /\ Len(pops) = k
  <2>1. pops \in [1 .. k -> Instructions]
    BY <1>2
  <2>. HIDE DEF pops
  <2>. QED
    BY <2>1
<1>. HIDE DEF pops, E
<1>4. /\ r \in Seq(Instructions) /\ Len(r) = L + k
      /\ \A n \in 1 .. L + k : r[n] = IF n <= L THEN c[n] ELSE pops[n - L]
  BY <1>1, <1>3, ConcatProperties
<1>. HIDE DEF r
<1>5. /\ \A n \in 1 .. L : r[n] = c[n]
      /\ \A n \in L + 1 .. L + k :
           r[n].op = "pop" /\ r[n].at = E + (n - L) - 1 /\ r[n].from = n
  <2>1. \A n \in 1 .. L : n \in 1 .. L + k /\ n <= L
    BY <1>1
  <2>2. \A n \in L + 1 .. L + k :
          n \in 1 .. L + k /\ ~(n <= L) /\ n - L \in 1 .. k /\ L + (n - L) = n
    BY <1>1
  <2>. QED
    BY <1>2, <1>4, <2>1, <2>2
<1>6. Extended(r, c)
  BY <1>1, <1>4, <1>5 DEF Extended
<1>7. \A n \in 0 .. L : End(r, n) = End(c, n) /\ End(c, n) \in Nat
  BY <1>1, <1>4, <1>6, ExtendedFacts, InstructionFacts
<1>8. \A n \in L .. L + k : End(r, n) = E + (n - L)
  <2>. SUFFICES ASSUME NEW n \in L .. L + k PROVE End(r, n) = E + (n - L)
    OBVIOUS
  <2>1. CASE n = L
    BY <1>1, <1>7, <2>1 DEF E
  <2>2. CASE n # L
    <3>1. n \in L + 1 .. L + k /\ n # 0
      BY <1>1, <2>2
    <3>2. End(r, n) = E + (n - L) - 1 + 1
      BY <1>5, <3>1, Sizes DEF End
    <3>. QED
      BY <1>1, <3>2
  <2>. QED
    BY <2>1, <2>2
<1>9. Laid(r)
  <2>. SUFFICES ASSUME NEW n \in 1 .. L + k
                PROVE  r[n].at = End(r, n - 1) /\ \A m \in 0 .. n : End(r, m) <= End(r, n)
    BY <1>4 DEF Laid
  <2>1. CASE n <= L
    <3>1. n \in 1 .. L /\ n - 1 \in 0 .. L /\ \A m \in 0 .. n : m \in 0 .. L
      BY <1>1, <2>1
    <3>2. c[n].at = End(c, n - 1) /\ \A m \in 0 .. n : End(c, m) <= End(c, n)
      BY <1>1, <3>1 DEF Laid
    <3>. QED
      BY <1>5, <1>7, <3>1, <3>2
  <2>2. CASE ~(n <= L)
    <3>1. n \in L + 1 .. L + k /\ n \in L .. L + k /\ n - 1 \in L .. L + k
      BY <1>1, <2>2
    <3>2. r[n].at = End(r, n - 1)
      BY <1>1, <1>5, <1>8, <3>1
    <3>3. ASSUME NEW m \in 0 .. n PROVE End(r, m) <= End(r, n)
      <4>1. CASE m <= L
        <5>1. m \in 0 .. L /\ L \in 0 .. L
          BY <1>1, <4>1
        <5>2. End(c, m) <= E
          <6>1. CASE L = 0
            <7>1. m = L
              BY <5>1, <6>1
            <7>. QED
              BY <1>1, <7>1 DEF E
          <6>2. CASE L # 0
            BY <1>1, <5>1, <6>2 DEF Laid, E
          <6>. QED
            BY <6>1, <6>2
        <5>3. End(r, m) = End(c, m) /\ End(c, m) \in Nat
          BY <1>7, <5>1
        <5>. QED
          BY <1>1, <1>8, <3>1, <5>2, <5>3
      <4>2. CASE ~(m <= L)
        <5>1. m \in L .. L + k
          BY <1>1, <3>1, <4>2
        <5>. QED
          BY <1>1, <1>8, <3>1, <5>1
      <4>. QED
        BY <4>1, <4>2
    <3>. QED
      BY <3>2, <3>3
  <2>. QED
    BY <2>1, <2>2
<1>10. Numbered(r)
  <2>. SUFFICES ASSUME NEW n \in 1 .. L + k PROVE r[n].from = n
    BY <1>4 DEF Numbered
  <2>1. CASE n \in 1 .. L
    BY <1>1, <1>5, <2>1 DEF Numbered
  <2>2. CASE n \notin 1 .. L
    <3>1. n \in L + 1 .. L + k
      BY <1>1, <2>2
    <3>. QED
      BY <1>5, <3>1
  <2>. QED
    BY <2>1, <2>2
<1>11. Patched(r, S)
  <2>. SUFFICES ASSUME NEW n \in Jumps(r) \ S
                PROVE  /\ Target(r, r[n].aim)
                       /\ Destination(r[n]) = End(r, r[n].aim - 1)
                       /\ IF r[n].op = "loop" THEN r[n].aim <= n ELSE r[n].aim > n
    BY DEF Patched
  <2>1. n \in 1 .. L + k /\ IsJump(r[n]) /\ n \notin S
    BY <1>4, InstructionFacts DEF Jumps
  <2>2. n \in 1 .. L
    <3>. SUFFICES ASSUME n \notin 1 .. L PROVE FALSE
      OBVIOUS
    <3>1. n \in L + 1 .. L + k
      BY <1>1, <2>1
    <3>2. r[n].op = "pop"
      BY <1>5, <3>1
    <3>. QED
      BY <2>1, <3>2, Sizes DEF IsJump
  <2>. QED
    BY <1>1, <1>4, <1>5, <1>6, <2>1, <2>2, PatchedKept
<1>12. EmitPops(c, k) = r
  BY DEF EmitPops, r, pops, E
<1>. QED
  BY <1>4, <1>5, <1>6, <1>9, <1>10, <1>11, <1>12 DEF Code

\* Code that grows by anything but a DUP keeps its DUPs before their POPs.
LEMMA PairedGrows ==
    ASSUME NEW c \in Seq(Instructions), NEW r \in Seq(Instructions), DupsPaired(c), Extended(r, c),
           \A n \in Len(c) + 1 .. Len(r) : r[n].op # "dup"
    PROVE  DupsPaired(r)
<1>1. Len(c) \in Nat /\ Len(r) \in Nat /\ Len(c) <= Len(r)
  BY InstructionFacts DEF Extended
<1>. SUFFICES ASSUME NEW n \in 1 .. Len(r), r[n].op = "dup"
              PROVE  n < Len(r) /\ r[n + 1].op = "pop"
  BY DEF DupsPaired
<1>2. n \in 1 .. Len(c)
  BY <1>1
<1>3. n < Len(c) /\ c[n + 1].op = "pop"
  BY <1>2 DEF DupsPaired, Extended
<1>4. n + 1 \in 1 .. Len(c)
  BY <1>1, <1>2, <1>3
<1>. QED
  BY <1>1, <1>2, <1>3, <1>4 DEF Extended

--------------------------------------------------------------------------------
(* Patching *)

LEMMA PatchCode ==
    ASSUME NEW c, NEW S, Code(c, S), DupsPaired(c),
           NEW J, J \subseteq {n \in 1 .. Len(c) : c[n].op \in Forward}
    PROVE  LET r == PatchAll(c, J) IN
           Code(r, S \ J) /\ DupsPaired(r) /\ Extended(r, c) /\ Len(r) = Len(c)
<1>. DEFINE L == Len(c)
            far(n) == End(c, L) - (c[n].at + 1) - 2
            r == PatchAll(c, J)
<1>1. /\ c \in Seq(Instructions) /\ Laid(c) /\ Numbered(c) /\ Patched(c, S)
      /\ L \in Nat /\ DOMAIN c = 1 .. L
  BY InstructionFacts DEF Code
<1>2. ASSUME NEW n \in J
      PROVE  /\ n \in 1 .. L /\ c[n] \in Instructions /\ c[n].op \in Forward
             /\ far(n) \in Nat /\ c[n].at \in Nat /\ c[n].at + 3 + far(n) = End(c, L)
  <2>1. n \in 1 .. L /\ c[n].op \in Forward /\ L \in 1 .. L /\ n \in 0 .. L
    BY <1>1
  <2>2. /\ c[n] \in Instructions /\ c[n].at \in Nat /\ End(c, n) = c[n].at + 3
        /\ End(c, L) \in Nat
    BY <1>1, <2>1, InstructionFacts, Sizes
  <2>3. End(c, n) <= End(c, L)
    BY <1>1, <2>1 DEF Laid
  <2>4. \A a, e \in Nat : a + 3 <= e => e - (a + 1) - 2 \in Nat /\ a + 3 + (e - (a + 1) - 2) = e
    OBVIOUS
  <2>5. far(n) \in Nat /\ c[n].at + 3 + far(n) = End(c, L)
    BY <2>2, <2>3, <2>4
  <2>. QED
    BY <2>1, <2>2, <2>5
<1>. HIDE DEF far
<1>3. ASSUME NEW n \in J
      PROVE  Patch(c, n)[n] = [c[n] EXCEPT !.operand = far(n), !.aim = L + 1]
  BY <1>1, <1>2 DEF Patch, far
<1>4. r = [n \in 1 .. L |->
             IF n \in J THEN [c[n] EXCEPT !.operand = far(n), !.aim = L + 1] ELSE c[n]]
  BY <1>1, <1>3 DEF PatchAll
<1>. HIDE DEF r
<1>5. ASSUME NEW n \in 1 .. L
      PROVE  /\ r[n] \in Instructions
             /\ r[n].op = c[n].op /\ r[n].at = c[n].at /\ r[n].from = c[n].from
             /\ n \in J => r[n].operand = far(n) /\ r[n].aim = L + 1
             /\ n \notin J => r[n] = c[n]
  <2>1. c[n] \in Instructions
    BY <1>1, InstructionFacts
  <2>2. CASE n \in J
    <3>1. r[n] = [c[n] EXCEPT !.operand = far(n), !.aim = L + 1]
      BY <1>4, <2>2
    <3>. DEFINE x == far(n)
                y == L + 1
                i == c[n]
                j == [i EXCEPT !.operand = x, !.aim = y]
    <3>2. x \in Nat /\ y \in Nat /\ i \in Instructions /\ r[n] = j
      BY <1>1, <1>2, <2>1, <2>2, <3>1
    <3>. HIDE DEF x, y, i
    <3>3. /\ j \in Instructions
          /\ j.op = i.op /\ j.at = i.at /\ j.from = i.from /\ j.operand = x /\ j.aim = y
      BY <3>2 DEF Instructions
    <3>. HIDE DEF j
    <3>. QED
      BY <2>2, <3>2, <3>3 DEF x, y, i
  <2>3. CASE n \notin J
    BY <1>4, <2>1, <2>3
  <2>. QED
    BY <2>2, <2>3
<1>6. r \in Seq(Instructions) /\ Len(r) = L
  <2>1. r \in [1 .. L -> Instructions]
    BY <1>4, <1>5
  <2>. QED
    BY <1>1, <2>1
<1>7. Extended(r, c)
  BY <1>1, <1>5, <1>6 DEF Extended
<1>8. \A n \in 0 .. L : End(r, n) = End(c, n)
  BY <1>1, <1>6, <1>7, ExtendedFacts
<1>9. Laid(r)
  <2>. SUFFICES ASSUME NEW n \in 1 .. L
                PROVE  r[n].at = End(r, n - 1) /\ \A m \in 0 .. n : End(r, m) <= End(r, n)
    BY <1>6 DEF Laid
  <2>1. n - 1 \in 0 .. L /\ \A m \in 0 .. n : m \in 0 .. L
    BY <1>1
  <2>2. c[n].at = End(c, n - 1) /\ \A m \in 0 .. n : End(c, m) <= End(c, n)
    BY <1>1 DEF Laid
  <2>. QED
    BY <1>1, <1>5, <1>8, <2>1, <2>2
<1>10. Numbered(r)
  BY <1>1, <1>5, <1>6 DEF Numbered
<1>11. DupsPaired(r)
  BY <1>1, <1>6, <1>7, PairedGrows
<1>12. Patched(r, S \ J)
  <2>. SUFFICES ASSUME NEW n \in Jumps(r) \ (S \ J)
                PROVE  /\ Target(r, r[n].aim)
                       /\ Destination(r[n]) = End(r, r[n].aim - 1)
                       /\ IF r[n].op = "loop" THEN r[n].aim <= n ELSE r[n].aim > n
    BY DEF Patched
  <2>1. n \in 1 .. L /\ IsJump(r[n]) /\ n \notin S \ J
    BY <1>6, InstructionFacts DEF Jumps
  <2>2. CASE n \in J
    <3>1. r[n].op \in Forward /\ r[n].op # "loop" /\ Size(r[n].op) = 3 /\ r[n].aim = L + 1
      BY <1>2, <1>5, <2>1, <2>2, Sizes
    <3>2. Destination(r[n]) = c[n].at + 3 + far(n)
      BY <1>5, <2>1, <2>2, <3>1 DEF Destination
    <3>3. L \in 0 .. L /\ (L + 1) - 1 = L /\ L + 1 > n
      BY <1>1, <2>1
    <3>4. Target(r, L + 1)
      BY <1>6, <1>11, EndIsTarget
    <3>. QED
      BY <1>2, <1>8, <2>2, <3>1, <3>2, <3>3, <3>4
  <2>3. CASE n \notin J
    BY <1>1, <1>5, <1>6, <1>7, <2>1, <2>3, PatchedKept
  <2>. QED
    BY <2>2, <2>3
<1>. QED
  BY <1>6, <1>7, <1>9, <1>10, <1>11, <1>12 DEF Code, r

--------------------------------------------------------------------------------
(* Compiling *)

\* What SubSeq keeps when it takes the first n elements.
LEMMA TakeFront ==
    ASSUME NEW S, NEW s \in Seq(S), NEW n \in 0 .. Len(s)
    PROVE  LET r == SubSeq(s, 1, n) IN
           /\ r \in Seq(S) /\ Len(r) = n
           /\ \A m \in 1 .. n : r[m] = s[m]
<1>1. Len(s) \in Nat /\ \A m \in 1 .. Len(s) : s[m] \in S
  BY LenProperties, ElementOfSeq
<1>2. 1 \in Int /\ n \in Int /\ \A m \in 1 .. n : s[m] \in S
  BY <1>1
<1>3. \A m \in 1 .. n : SubSeq(s, 1, n)[m] = s[m]
  BY <1>1, <1>2, SubSeqProperties
<1>. QED
  BY <1>1, <1>2, <1>3, SubSeqProperties

LEMMA Weaken ==
    ASSUME NEW c, NEW S, NEW T, Code(c, S), S \subseteq T
    PROVE  Code(c, T)
BY DEF Code, Patched

LEMMA StateFacts ==
    ASSUME IInv
    PROVE  /\ chunk \in Seq(Instructions) /\ Len(chunk) \in Nat
           /\ Code(chunk, Unfinished) /\ DupsPaired(chunk)
           /\ nest \in Seq(Loops \cup Conditionals) /\ Len(nest) \in Nat
           /\ \A k \in 1 .. Len(nest) :
                /\ nest[k] \in Loops \cup Conditionals
                /\ nest[k].locals \in Nat /\ nest[k].locals <= Body
           /\ locals \in Nat /\ Body \in Nat /\ Body <= locals /\ locals - Body \in Nat
           /\ nest # << >> => Len(nest) \in 1 .. Len(nest) /\ Innermost = nest[Len(nest)]
<1>1. /\ chunk \in Seq(Instructions) /\ Laid(chunk) /\ Numbered(chunk)
      /\ Patched(chunk, Unfinished) /\ DupsPaired(chunk)
      /\ nest \in Seq(Loops \cup Conditionals) /\ locals \in Nat /\ Nested
  BY DEF IInv, TypeOK
<1>2. Len(chunk) \in Nat
  BY <1>1, InstructionFacts
<1>3. Len(nest) \in Nat /\ \A k \in 1 .. Len(nest) : nest[k] \in Loops \cup Conditionals
  BY <1>1, LenProperties, ElementOfSeq
<1>4. \A k \in 1 .. Len(nest) : nest[k].locals \in Nat
  BY <1>3 DEF Loops, Conditionals
<1>5. nest # << >> => Len(nest) \in 1 .. Len(nest) /\ Innermost = nest[Len(nest)]
  BY <1>1, <1>3, EmptySeq DEF Innermost, Last
<1>6. Body \in Nat /\ Body <= locals /\ \A k \in 1 .. Len(nest) : nest[k].locals <= Body
  <2>1. CASE nest = << >>
    BY <1>1, <2>1 DEF Body
  <2>2. CASE nest # << >>
    <3>1. Body = nest[Len(nest)].locals /\ Len(nest) \in 1 .. Len(nest)
      BY <1>5, <2>2 DEF Body
    <3>2. \A k \in 1 .. Len(nest) : Len(nest) \in k .. Len(nest)
      BY <1>3
    <3>. QED
      BY <1>1, <1>4, <3>1, <3>2 DEF Nested
  <2>. QED
    BY <2>1, <2>2
<1>7. locals - Body \in Nat
  BY <1>1, <1>6
<1>. QED
  BY <1>1, <1>2, <1>3, <1>4, <1>5, <1>6, <1>7 DEF Code

\* Before the pass nothing is copied, whatever the chunk becomes.
LEMMA CompileStep ==
    ASSUME IInv, phase = "compile", phase' \in {"compile", "optimize"},
           Code(chunk', Unfinished'), DupsPaired(chunk'), count' = End(chunk', Len(chunk')),
           nest' \in Seq(Loops \cup Conditionals), locals' \in Nat, Nested',
           UNCHANGED <<ip, previous, newChunk, newCount>>
    PROVE  IInv'
<1>1. ip = 1 /\ previous = "none" /\ Passed /\ TypeOK
  BY DEF IInv, Passed
<1>2. Len(newChunk) \in Nat /\ newChunk \in Seq(Instructions) /\ newCount = End(newChunk, Len(newChunk))
  BY <1>1, InstructionFacts DEF TypeOK
<1>3. Len(newChunk) = 0
  <2>. SUFFICES ASSUME Len(newChunk) # 0 PROVE FALSE
    OBVIOUS
  <2>1. 1 \in 1 .. Len(newChunk)
    BY <1>2
  <2>2. newChunk[1].from \in 1 .. ip - 1
    BY <1>1, <2>1 DEF Passed, Copied
  <2>. QED
    BY <1>1, <2>2
<1>4. chunk' \in Seq(Instructions) /\ Len(chunk') \in Nat
  BY InstructionFacts DEF Code
<1>5. TypeOK'
  BY <1>1, <1>2, <1>4 DEF TypeOK
<1>6. Passed'
  BY <1>1, <1>3 DEF Passed, Laid
<1>. QED
  BY <1>5, <1>6 DEF IInv, Code

\* A construct stays open, or is closed, while code is added.
LEMMA NestKept ==
    ASSUME IInv, phase' = "compile", chunk' \in Seq(Instructions), Extended(chunk', chunk),
           Len(nest') \in Nat, Len(nest') <= Len(nest),
           \A k \in 1 .. Len(nest') : nest'[k] = nest[k],
           \A k \in 1 .. Len(nest') : nest[k].locals <= locals'
    PROVE  Nested'
<1>1. Nested /\ chunk \in Seq(Instructions) /\ Len(nest) \in Nat
  BY StateFacts DEF IInv
<1>2. ASSUME NEW k \in 1 .. Len(nest')
      PROVE  /\ Known(chunk', nest'[k])
             /\ nest'[k].locals <= locals'
             /\ \A l \in k .. Len(nest') : nest'[k].locals <= nest'[l].locals
  <2>1. k \in 1 .. Len(nest) /\ \A l \in k .. Len(nest') : l \in k .. Len(nest) /\ l \in 1 .. Len(nest')
    BY <1>1
  <2>2. Known(chunk, nest[k]) /\ \A l \in k .. Len(nest) : nest[k].locals <= nest[l].locals
    BY <1>1, <2>1 DEF Nested
  <2>3. Known(chunk', nest[k])
    BY <1>1, <2>2, KnownKept
  <2>. QED
    BY <2>1, <2>2, <2>3
<1>. QED
  BY <1>2 DEF Nested

\* A construct is opened, or one that is open changes its jumps.
LEMMA NestGrows ==
    ASSUME IInv, phase' = "compile", chunk' \in Seq(Instructions), Extended(chunk', chunk),
           locals' \in Nat, NEW k \in 1 .. Len(nest'), Len(nest') \in Nat,
           \A n \in 1 .. Len(nest') : n # k => n <= Len(nest) /\ nest'[n] = nest[n],
           Known(chunk', nest'[k]),
           \A n \in 1 .. Len(nest') : nest'[n].locals <= locals',
           \A n \in 1 .. Len(nest') : \A l \in n .. Len(nest') : nest'[n].locals <= nest'[l].locals
    PROVE  Nested'
<1>1. Nested /\ chunk \in Seq(Instructions) /\ Len(nest) \in Nat
  BY StateFacts DEF IInv
<1>2. ASSUME NEW n \in 1 .. Len(nest'), n # k
      PROVE  Known(chunk', nest'[n])
  <2>1. n \in 1 .. Len(nest) /\ nest'[n] = nest[n]
    BY <1>1, <1>2
  <2>2. Known(chunk, nest[n])
    BY <1>1, <2>1 DEF Nested
  <2>. QED
    BY <1>1, <2>1, <2>2, KnownKept
<1>. QED
  BY <1>2 DEF Nested

LEMMA ExpressionStatementStep ==
    ASSUME IInv, ExpressionStatement
    PROVE  IInv'
<1>. DEFINE c == Emit(chunk, "expr")
            r == Emit(c, "pop")
<1>1. /\ Code(chunk, Unfinished) /\ chunk \in Seq(Instructions) /\ Len(chunk) \in Nat
      /\ DupsPaired(chunk)
  BY StateFacts
<1>2. {"expr", "pop"} \subseteq Ops \ (Forward \cup {"loop"})
  BY DEF Ops, Forward
<1>3. Code(c, Unfinished) /\ Extended(c, chunk) /\ Len(c) = Len(chunk) + 1 /\ c[Len(chunk) + 1].op = "expr"
  BY <1>1, <1>2, EmitPlain
<1>. HIDE DEF c
<1>4. /\ Code(r, Unfinished) /\ Extended(r, c) /\ Len(r) = Len(c) + 1 /\ r[Len(c) + 1].op = "pop"
      /\ \A n \in 1 .. Len(c) : r[n] = c[n]
  BY <1>2, <1>3, EmitPlain
<1>. HIDE DEF r
<1>5. c \in Seq(Instructions) /\ r \in Seq(Instructions)
  BY <1>3, <1>4 DEF Code
<1>6. Extended(r, chunk)
  BY <1>1, <1>3, <1>4, <1>5, ExtendedTwice
<1>7. DupsPaired(r)
  <2>1. \A n \in Len(chunk) + 1 .. Len(r) : n = Len(chunk) + 1 \/ n = Len(c) + 1
    BY <1>1, <1>3, <1>4
  <2>2. Len(chunk) + 1 \in 1 .. Len(c)
    BY <1>1, <1>3
  <2>3. \A n \in Len(chunk) + 1 .. Len(r) : r[n].op # "dup"
    BY <1>3, <1>4, <2>1, <2>2
  <2>. QED
    BY <1>1, <1>5, <1>6, <2>3, PairedGrows
<1>8. /\ phase = "compile" /\ chunk' = r /\ count' = End(chunk', Len(chunk'))
      /\ UNCHANGED <<phase, ip, previous, newChunk, newCount, nest, locals>>
  BY DEF ExpressionStatement, Emitted, r, c
<1>9. Unfinished' = Unfinished
  BY <1>8 DEF Unfinished
<1>10. Nested'
  <2>1. Len(nest) \in Nat /\ \A k \in 1 .. Len(nest) : nest[k].locals <= locals
    BY StateFacts DEF IInv, Nested
  <2>. QED
    BY <1>5, <1>6, <1>8, <2>1, NestKept
<1>. QED
  BY <1>4, <1>7, <1>8, <1>9, <1>10, StateFacts, CompileStep

LEMMA DeclarationStatementStep ==
    ASSUME IInv, DeclarationStatement
    PROVE  IInv'
<1>. DEFINE c == Emit(chunk, "expr")
            d == Emit(c, "dup")
            r == Emit(d, "pop")
            L == Len(chunk)
<1>1. Code(chunk, Unfinished) /\ chunk \in Seq(Instructions) /\ L \in Nat /\ DupsPaired(chunk)
  BY StateFacts
<1>2. {"expr", "dup", "pop"} \subseteq Ops \ (Forward \cup {"loop"})
  BY DEF Ops, Forward
<1>3. Code(c, Unfinished) /\ Extended(c, chunk) /\ Len(c) = L + 1 /\ c[L + 1].op = "expr"
  BY <1>1, <1>2, EmitPlain
<1>. HIDE DEF c
<1>4. /\ Code(d, Unfinished) /\ Extended(d, c) /\ Len(d) = L + 2 /\ d[L + 2].op = "dup"
      /\ \A n \in 1 .. L + 1 : d[n] = c[n]
  <2>1. /\ Code(d, Unfinished) /\ Extended(d, c) /\ Len(d) = Len(c) + 1 /\ d[Len(c) + 1].op = "dup"
        /\ \A n \in 1 .. Len(c) : d[n] = c[n]
    BY <1>2, <1>3, EmitPlain
  <2>. QED
    BY <1>1, <1>3, <2>1
<1>. HIDE DEF d
<1>5. /\ Code(r, Unfinished) /\ Extended(r, d) /\ Len(r) = L + 3 /\ r[L + 3].op = "pop"
      /\ \A n \in 1 .. L + 2 : r[n] = d[n]
  <2>1. /\ Code(r, Unfinished) /\ Extended(r, d) /\ Len(r) = Len(d) + 1 /\ r[Len(d) + 1].op = "pop"
        /\ \A n \in 1 .. Len(d) : r[n] = d[n]
    BY <1>2, <1>4, EmitPlain
  <2>. QED
    BY <1>1, <1>4, <2>1
<1>. HIDE DEF r
<1>6. c \in Seq(Instructions) /\ d \in Seq(Instructions) /\ r \in Seq(Instructions)
  BY <1>3, <1>4, <1>5 DEF Code
<1>7. Extended(r, chunk)
  <2>1. Extended(d, chunk)
    BY <1>1, <1>3, <1>4, <1>6, ExtendedTwice
  <2>. QED
    BY <1>1, <1>5, <1>6, <2>1, ExtendedTwice
<1>8. DupsPaired(r)
  <2>. SUFFICES ASSUME NEW n \in 1 .. L + 3, r[n].op = "dup"
                PROVE  n < L + 3 /\ r[n + 1].op = "pop"
    BY <1>5 DEF DupsPaired
  <2>1. CASE n \in 1 .. L
    <3>1. n < L /\ chunk[n + 1].op = "pop"
      BY <1>1, <1>7, <2>1 DEF DupsPaired, Extended
    <3>2. n + 1 \in 1 .. L
      BY <1>1, <2>1, <3>1
    <3>. QED
      BY <1>1, <1>7, <2>1, <3>1, <3>2 DEF Extended
  <2>2. CASE n = L + 1
    <3>1. L + 1 \in 1 .. L + 1 /\ L + 1 \in 1 .. L + 2
      BY <1>1
    <3>. QED
      BY <1>3, <1>4, <1>5, <2>2, <3>1
  <2>3. CASE n = L + 2
    BY <1>1, <1>5, <2>3
  <2>4. CASE n = L + 3
    BY <1>5, <2>4
  <2>. QED
    BY <1>1, <2>1, <2>2, <2>3, <2>4
<1>9. /\ phase = "compile" /\ chunk' = r /\ count' = End(chunk', Len(chunk')) /\ locals' = locals + 1
      /\ UNCHANGED <<phase, ip, previous, newChunk, newCount, nest>>
  BY DEF DeclarationStatement, Emitted, r, d, c
<1>10. Unfinished' = Unfinished
  BY <1>9 DEF Unfinished
<1>11. locals' \in Nat /\ Nested'
  <2>1. Len(nest) \in Nat /\ locals \in Nat /\ \A k \in 1 .. Len(nest) : nest[k].locals \in Nat
    BY StateFacts
  <2>2. \A k \in 1 .. Len(nest) : nest[k].locals <= locals
    BY DEF IInv, Nested
  <2>3. locals' \in Nat /\ \A k \in 1 .. Len(nest) : nest[k].locals <= locals'
    BY <1>9, <2>1, <2>2
  <2>. QED
    BY <1>6, <1>7, <1>9, <2>1, <2>3, NestKept
<1>. QED
  BY <1>5, <1>8, <1>9, <1>10, <1>11, StateFacts, CompileStep

\* What while and if begin with: a condition, and a jump that is not patched yet.
LEMMA ConditionStep ==
    ASSUME IInv, NEW s \in Loops \cup Conditionals, NEW c,
           c = EmitJump(Emit(chunk, "expr"), "popJumpIfFalse"),
           Emitted(c), nest' = Append(nest, s), locals' = locals,
           s.exits = {Len(c)}, s.locals = locals,
           s.kind = "while" => s.start = Len(chunk) + 1 /\ s.offset = count
    PROVE  IInv'
<1>. DEFINE L == Len(chunk)
            d == Emit(chunk, "expr")
<1>1. /\ Code(chunk, Unfinished) /\ chunk \in Seq(Instructions) /\ L \in Nat /\ DupsPaired(chunk)
      /\ nest \in Seq(Loops \cup Conditionals) /\ Len(nest) \in Nat /\ locals \in Nat
      /\ count = End(chunk, L)
  BY StateFacts DEF IInv, TypeOK
<1>2. /\ phase = "compile" /\ chunk' = c /\ count' = End(chunk', Len(chunk'))
      /\ UNCHANGED <<phase, ip, previous, newChunk, newCount>>
  BY DEF Emitted
<1>3. /\ "expr" \in Ops \ (Forward \cup {"loop"})
      /\ "popJumpIfFalse" \in Forward
  BY DEF Ops, Forward
<1>4. Code(d, Unfinished) /\ Extended(d, chunk) /\ Len(d) = L + 1 /\ d[L + 1].op = "expr"
  BY <1>1, <1>3, EmitPlain
<1>. HIDE DEF d
<1>5. /\ nest' \in Seq(Loops \cup Conditionals) /\ Len(nest') = Len(nest) + 1
      /\ \A k \in 1 .. Len(nest) : nest'[k] = nest[k]
      /\ nest'[Len(nest) + 1] = s
  BY <1>1, AppendProperties
<1>. DEFINE T == Unfinished \cup {L + 2}
<1>6. /\ Code(c, T) /\ Extended(c, d) /\ Len(c) = L + 2 /\ c[L + 2].op = "popJumpIfFalse"
      /\ \A n \in 1 .. L + 1 : c[n] = d[n]
  <2>1. /\ Code(c, Unfinished \cup {Len(d) + 1}) /\ Extended(c, d) /\ Len(c) = Len(d) + 1
        /\ c[Len(d) + 1].op = "popJumpIfFalse"
        /\ \A n \in 1 .. Len(d) : c[n] = d[n]
    <3>1. c = EmitJump(d, "popJumpIfFalse")
      BY DEF d
    <3>2. /\ Code(EmitJump(d, "popJumpIfFalse"), Unfinished \cup {Len(d) + 1})
          /\ Extended(EmitJump(d, "popJumpIfFalse"), d)
          /\ Len(EmitJump(d, "popJumpIfFalse")) = Len(d) + 1
          /\ EmitJump(d, "popJumpIfFalse")[Len(d) + 1].op = "popJumpIfFalse"
          /\ \A n \in 1 .. Len(d) : EmitJump(d, "popJumpIfFalse")[n] = d[n]
      BY ZenonT(30), <1>3, <1>4, JumpCode
    <3>. QED
      BY <3>1, <3>2
  <2>2. Len(d) + 1 = L + 2
    BY <1>1, <1>4
  <2>. QED
    BY <1>4, <2>1, <2>2
<1>7. c \in Seq(Instructions) /\ d \in Seq(Instructions)
  BY <1>4, <1>6 DEF Code
<1>8. Extended(c, chunk)
  BY <1>1, <1>4, <1>6, <1>7, ExtendedTwice
<1>9. DupsPaired(c)
  <2>1. \A n \in L + 1 .. Len(c) : n = L + 1 \/ n = L + 2
    BY <1>1, <1>6
  <2>2. L + 1 \in 1 .. L + 1
    BY <1>1
  <2>3. \A n \in L + 1 .. Len(c) : c[n].op # "dup"
    BY <1>4, <1>6, <2>1, <2>2
  <2>. QED
    BY <1>1, <1>7, <1>8, <2>3, PairedGrows
<1>10. Code(chunk', Unfinished')
  <2>1. T \subseteq Unfinished'
    <3>1. \A k \in 1 .. Len(nest) : k \in 1 .. Len(nest')
      BY <1>1, <1>5
    <3>2. Len(nest) + 1 \in 1 .. Len(nest') /\ L + 2 \in nest'[Len(nest) + 1].exits
      BY <1>1, <1>5, <1>6
    <3>. QED
      BY <1>5, <3>1, <3>2 DEF Unfinished
  <2>. QED
    BY <1>2, <1>6, <2>1, Weaken
<1>11. Known(c, s)
  <2>1. L + 2 \in 1 .. Len(c) /\ c[L + 2].op \in Forward
    BY <1>1, <1>3, <1>6
  <2>2. s.exits \subseteq {n \in 1 .. Len(c) : c[n].op \in Forward}
    BY <1>6, <2>1
  <2>3. Target(chunk, L + 1)
    BY <1>1, EndIsTarget
  <2>4. Target(c, L + 1) /\ End(c, (L + 1) - 1) = End(chunk, (L + 1) - 1) /\ (L + 1) - 1 = L
    BY <1>1, <1>7, <1>8, <2>3, ExtendedFacts
  <2>5. s.kind = "while" =>
          s.start <= Len(c) /\ Target(c, s.start) /\ s.offset = End(c, s.start - 1)
    BY <1>1, <1>6, <2>4
  <2>. QED
    BY <2>2, <2>5 DEF Known
<1>12. Nested'
  <2>1. \A n \in 1 .. Len(nest') :
          \/ n = Len(nest) + 1 /\ nest'[n].locals = locals
          \/ n \in 1 .. Len(nest) /\ nest'[n] = nest[n] /\ n # Len(nest) + 1
    BY <1>1, <1>5
  <2>2. \A n \in 1 .. Len(nest) :
          /\ nest[n].locals <= locals
          /\ \A l \in n .. Len(nest) : nest[n].locals <= nest[l].locals
    BY DEF IInv, Nested
  <2>3. \A n \in 1 .. Len(nest') : nest'[n].locals <= locals'
    BY <1>1, <2>1, <2>2
  <2>4. ASSUME NEW n \in 1 .. Len(nest'), NEW l \in n .. Len(nest')
        PROVE  nest'[n].locals <= nest'[l].locals
    <3>1. l \in 1 .. Len(nest')
      BY <1>1, <1>5
    <3>2. CASE l = Len(nest) + 1
      BY <1>5, <2>3, <3>2
    <3>3. CASE l # Len(nest) + 1
      <4>1. l \in n .. Len(nest) /\ n \in 1 .. Len(nest) /\ nest'[l] = nest[l] /\ nest'[n] = nest[n]
        BY <1>1, <1>5, <2>1, <3>1, <3>3
      <4>. QED
        BY <2>2, <4>1
    <3>. QED
      BY <3>2, <3>3
  <2>5. /\ Len(nest) + 1 \in 1 .. Len(nest') /\ Len(nest') \in Nat
        /\ \A n \in 1 .. Len(nest') : n # Len(nest) + 1 => n <= Len(nest) /\ nest'[n] = nest[n]
    BY <1>1, <1>5, <2>1
  <2>6. Known(chunk', nest'[Len(nest) + 1])
    BY <1>2, <1>5, <1>11
  <2>7. phase' = "compile" /\ chunk' \in Seq(Instructions) /\ Extended(chunk', chunk) /\ locals' \in Nat
    BY <1>1, <1>2, <1>7, <1>8
  <2>. QED
    BY <2>3, <2>4, <2>5, <2>6, <2>7, NestGrows
<1>. QED
  BY <1>1, <1>2, <1>5, <1>9, <1>10, <1>12, CompileStep

LEMMA ConditionLength ==
    ASSUME IInv
    PROVE  Len(EmitJump(Emit(chunk, "expr"), "popJumpIfFalse")) \in Nat
<1>. DEFINE c == EmitJump(Emit(chunk, "expr"), "popJumpIfFalse")
<1>1. /\ Code(chunk, Unfinished)
      /\ "expr" \in Ops \ (Forward \cup {"loop"}) /\ "popJumpIfFalse" \in Forward
  BY StateFacts DEF Ops, Forward
<1>. DEFINE d == Emit(chunk, "expr")
<1>2. Code(d, Unfinished)
  BY <1>1, EmitPlain
<1>. HIDE DEF d
<1>3. Code(c, Unfinished \cup {Len(d) + 1})
  BY <1>1, <1>2, JumpCode DEF d
<1>. HIDE DEF c
<1>. QED
  BY <1>3, InstructionFacts DEF Code

LEMMA BeginWhileStep ==
    ASSUME IInv, BeginWhile
    PROVE  IInv'
<1>. DEFINE c == EmitJump(Emit(chunk, "expr"), "popJumpIfFalse")
            s == [kind |-> "while", offset |-> count, start |-> Len(chunk) + 1,
                  locals |-> locals, exits |-> {Len(c)}]
<1>1. Emitted(c) /\ nest' = Append(nest, s) /\ locals' = locals
  BY DEF BeginWhile, Pushed
<1>2. count \in Nat /\ Len(chunk) + 1 \in Nat /\ locals \in Nat /\ Len(chunk) \in 0 .. Len(chunk)
  <2>1. Len(chunk) \in Nat /\ chunk \in Seq(Instructions) /\ locals \in Nat
    BY StateFacts
  <2>2. Len(chunk) \in 0 .. Len(chunk) /\ count = End(chunk, Len(chunk))
    BY <2>1 DEF IInv, TypeOK
  <2>. QED
    BY <2>1, <2>2, InstructionFacts
<1>3. Len(c) \in Nat
  BY ConditionLength
<1>. HIDE DEF c
<1>4. s \in Loops \cup Conditionals
  BY <1>2, <1>3 DEF Loops
<1>. QED
  BY <1>1, <1>4, ConditionStep DEF c

LEMMA BeginIfStep ==
    ASSUME IInv, BeginIf
    PROVE  IInv'
<1>. DEFINE c == EmitJump(Emit(chunk, "expr"), "popJumpIfFalse")
            s == [kind |-> "then", locals |-> locals, exits |-> {Len(c)}]
<1>1. Emitted(c) /\ nest' = Append(nest, s) /\ locals' = locals
  BY DEF BeginIf, Pushed
<1>2. locals \in Nat /\ Len(c) \in Nat
  BY StateFacts, ConditionLength
<1>. HIDE DEF c
<1>3. s \in Loops \cup Conditionals /\ s.kind # "while"
  BY <1>2 DEF Conditionals
<1>. QED
  BY <1>1, <1>3, ConditionStep DEF c

\* The body of a construct ends with pops for its locals.
LEMMA BodyEnds ==
    ASSUME IInv
    PROVE  LET c == EndBody(chunk) IN
           /\ Code(c, Unfinished) /\ DupsPaired(c) /\ Extended(c, chunk)
           /\ \A k \in 1 .. Len(nest) : Known(c, nest[k])
<1>. DEFINE c == EmitPops(chunk, locals - Body)
<1>1. /\ Code(chunk, Unfinished) /\ DupsPaired(chunk) /\ chunk \in Seq(Instructions)
      /\ locals - Body \in Nat /\ Len(chunk) \in Nat
  BY StateFacts
<1>2. /\ Code(c, Unfinished) /\ Extended(c, chunk) /\ Len(c) = Len(chunk) + (locals - Body)
      /\ \A n \in Len(chunk) + 1 .. Len(chunk) + (locals - Body) : c[n].op = "pop"
  BY <1>1, PopsCode
<1>3. EndBody(chunk) = c
  BY DEF EndBody
<1>. HIDE DEF c
<1>4. c \in Seq(Instructions)
  BY <1>2 DEF Code
<1>5. DupsPaired(c)
  BY <1>1, <1>2, <1>4, PairedGrows
<1>6. \A k \in 1 .. Len(nest) : Known(c, nest[k])
  <2>1. \A k \in 1 .. Len(nest) : Known(chunk, nest[k])
    BY DEF IInv, Nested
  <2>. QED
    BY <1>1, <1>2, <1>4, <2>1, KnownKept
<1>. QED
  BY <1>2, <1>3, <1>5, <1>6

LEMMA PoppedNest ==
    ASSUME IInv, nest # << >>, Popped
    PROVE  /\ nest' \in Seq(Loops \cup Conditionals) /\ Len(nest') = Len(nest) - 1
           /\ \A k \in 1 .. Len(nest') : nest'[k] = nest[k]
           /\ Unfinished \ Innermost.exits \subseteq Unfinished'
<1>1. /\ nest \in Seq(Loops \cup Conditionals) /\ Len(nest) \in 1 .. Len(nest) /\ Len(nest) \in Nat
      /\ Innermost = nest[Len(nest)]
  BY StateFacts
<1>2. Len(nest) - 1 \in 0 .. Len(nest) /\ nest' = SubSeq(nest, 1, Len(nest) - 1)
  BY <1>1 DEF Popped, Front
<1>3. /\ nest' \in Seq(Loops \cup Conditionals) /\ Len(nest') = Len(nest) - 1
      /\ \A k \in 1 .. Len(nest') : nest'[k] = nest[k]
  BY <1>1, <1>2, TakeFront
<1>4. ASSUME NEW n \in Unfinished, n \notin Innermost.exits
      PROVE  n \in Unfinished'
  <2>1. PICK k \in 1 .. Len(nest) : n \in nest[k].exits
    BY <1>4 DEF Unfinished
  <2>2. k \in 1 .. Len(nest')
    BY <1>1, <1>3, <1>4, <2>1
  <2>3. n \in nest'[k].exits
    BY <1>3, <2>1, <2>2
  <2>. QED
    BY <2>2, <2>3 DEF Unfinished
<1>. QED
  BY <1>3, <1>4

\* What EndWhile and EndIf share: the innermost construct is closed.
LEMMA CloseStep ==
    ASSUME IInv, nest # << >>, Popped, LocalsDropped, NEW r, Emitted(r),
           Code(r, Unfinished \ Innermost.exits), DupsPaired(r), Extended(r, chunk)
    PROVE  IInv'
<1>1. /\ chunk \in Seq(Instructions) /\ Len(nest) \in Nat /\ Body \in Nat
      /\ \A k \in 1 .. Len(nest) : nest[k].locals <= Body
  BY StateFacts
<1>2. /\ phase = "compile" /\ chunk' = r /\ count' = End(chunk', Len(chunk'))
      /\ UNCHANGED <<phase, ip, previous, newChunk, newCount>>
      /\ locals' = Body
  BY DEF Emitted, LocalsDropped
<1>3. /\ nest' \in Seq(Loops \cup Conditionals) /\ Len(nest') = Len(nest) - 1
      /\ \A k \in 1 .. Len(nest') : nest'[k] = nest[k]
      /\ Unfinished \ Innermost.exits \subseteq Unfinished'
  BY PoppedNest
<1>4. Code(chunk', Unfinished') /\ chunk' \in Seq(Instructions)
  <2>1. Code(r, Unfinished')
    BY <1>3, Weaken
  <2>. QED
    BY <1>2, <2>1 DEF Code
<1>5. Nested'
  <2>1. Len(nest') \in Nat /\ Len(nest') <= Len(nest) /\ \A k \in 1 .. Len(nest') : k \in 1 .. Len(nest)
    BY <1>1, <1>3, LenProperties
  <2>2. \A k \in 1 .. Len(nest') : nest[k].locals <= locals'
    BY <1>1, <1>2, <2>1
  <2>. QED
    BY <1>2, <1>3, <1>4, <2>1, <2>2, NestKept
<1>. QED
  BY <1>1, <1>2, <1>3, <1>4, <1>5, CompileStep

LEMMA EndWhileStep ==
    ASSUME IInv, EndWhile
    PROVE  IInv'
<1>. DEFINE c == EndBody(chunk)
            s == Innermost
            d == EmitLoop(c, s.offset, s.start)
            r == PatchAll(d, s.exits)
<1>1. /\ nest # << >> /\ s.kind = "while" /\ Len(nest) \in 1 .. Len(nest) /\ s = nest[Len(nest)]
      /\ chunk \in Seq(Instructions)
      /\ Emitted(r) /\ LocalsDropped /\ Popped
  BY StateFacts DEF EndWhile
<1>2. /\ Code(c, Unfinished) /\ DupsPaired(c) /\ Extended(c, chunk) /\ Known(c, s)
      /\ c \in Seq(Instructions) /\ Len(c) \in Nat
  BY <1>1, BodyEnds, InstructionFacts DEF Code
<1>. HIDE DEF c
<1>3. Target(c, s.start) /\ s.start <= Len(c) /\ s.offset = End(c, s.start - 1)
  BY <1>1, <1>2 DEF Known
<1>4. /\ Code(d, Unfinished) /\ Extended(d, c) /\ Len(d) = Len(c) + 1 /\ d[Len(c) + 1].op = "loop"
      /\ d \in Seq(Instructions)
  <2>1. /\ Code(EmitLoop(c, End(c, s.start - 1), s.start), Unfinished)
        /\ Extended(EmitLoop(c, End(c, s.start - 1), s.start), c)
        /\ Len(EmitLoop(c, End(c, s.start - 1), s.start)) = Len(c) + 1
        /\ EmitLoop(c, End(c, s.start - 1), s.start)[Len(c) + 1].op = "loop"
    BY <1>2, <1>3, LoopCode
  <2>2. d = EmitLoop(c, End(c, s.start - 1), s.start)
    BY <1>3
  <2>. HIDE DEF d
  <2>. QED
    BY <2>1, <2>2 DEF Code
<1>. HIDE DEF d
<1>5. DupsPaired(d)
  <2>1. \A n \in Len(c) + 1 .. Len(d) : n = Len(c) + 1
    BY <1>2, <1>4
  <2>. QED
    BY <1>2, <1>4, <2>1, PairedGrows
<1>6. Known(d, s)
  BY <1>2, <1>4, KnownKept
<1>7. s.exits \subseteq {n \in 1 .. Len(d) : d[n].op \in Forward}
  BY <1>6 DEF Known
<1>8. Code(r, Unfinished \ s.exits) /\ DupsPaired(r) /\ Extended(r, d) /\ r \in Seq(Instructions)
  BY <1>4, <1>5, <1>7, PatchCode DEF Code
<1>. HIDE DEF r
<1>9. Extended(r, chunk)
  <2>1. Extended(d, chunk)
    BY <1>1, <1>2, <1>4, ExtendedTwice
  <2>. QED
    BY <1>1, <1>4, <1>8, <2>1, ExtendedTwice
<1>. QED
  BY <1>1, <1>8, <1>9, CloseStep

LEMMA EndIfStep ==
    ASSUME IInv, EndIf
    PROVE  IInv'
<1>. DEFINE c == EndBody(chunk)
            s == Innermost
            r == PatchAll(c, s.exits)
<1>1. /\ nest # << >> /\ Len(nest) \in 1 .. Len(nest) /\ s = nest[Len(nest)]
      /\ chunk \in Seq(Instructions)
      /\ Emitted(r) /\ LocalsDropped /\ Popped
  BY StateFacts DEF EndIf
<1>2. /\ Code(c, Unfinished) /\ DupsPaired(c) /\ Extended(c, chunk) /\ Known(c, s)
      /\ c \in Seq(Instructions)
  BY <1>1, BodyEnds DEF Code
<1>. HIDE DEF c
<1>3. s.exits \subseteq {n \in 1 .. Len(c) : c[n].op \in Forward}
  BY <1>2 DEF Known
<1>4. Code(r, Unfinished \ s.exits) /\ DupsPaired(r) /\ Extended(r, c) /\ r \in Seq(Instructions)
  BY <1>2, <1>3, PatchCode DEF Code
<1>. HIDE DEF r
<1>5. Extended(r, chunk)
  BY <1>1, <1>2, <1>4, ExtendedTwice
<1>. QED
  BY <1>1, <1>4, <1>5, CloseStep

LEMMA BeginElseStep ==
    ASSUME IInv, BeginElse
    PROVE  IInv'
<1>. DEFINE c == EndBody(chunk)
            s == Innermost
            d == EmitJump(c, "jump")
            r == PatchAll(d, s.exits)
            N == Len(nest)
<1>1. /\ nest # << >> /\ N \in 1 .. N /\ N \in Nat /\ s = nest[N] /\ s.kind = "then"
      /\ chunk \in Seq(Instructions) /\ nest \in Seq(Loops \cup Conditionals)
      /\ s \in Loops \cup Conditionals
      /\ \A k \in 1 .. N : nest[k].locals \in Nat /\ nest[k].locals <= Body
      /\ Body \in Nat
  BY StateFacts DEF BeginElse
<1>2. /\ phase = "compile" /\ chunk' = r /\ count' = End(chunk', Len(chunk')) /\ locals' = Body
      /\ UNCHANGED <<phase, ip, previous, newChunk, newCount>>
      /\ nest' = [nest EXCEPT ![N].kind = "else", ![N].exits = {Len(d)}]
  BY DEF BeginElse, Emitted, LocalsDropped
<1>3. /\ Code(c, Unfinished) /\ DupsPaired(c) /\ Extended(c, chunk) /\ Known(c, s)
      /\ c \in Seq(Instructions) /\ Len(c) \in Nat
  BY <1>1, BodyEnds, InstructionFacts DEF Code
<1>. HIDE DEF c
<1>4. /\ Code(d, Unfinished \cup {Len(c) + 1}) /\ Extended(d, c) /\ Len(d) = Len(c) + 1
      /\ d[Len(c) + 1].op = "jump" /\ d \in Seq(Instructions) /\ "jump" \in Forward
  <2>1. "jump" \in Forward
    BY DEF Forward
  <2>2. /\ Code(d, Unfinished \cup {Len(c) + 1}) /\ Extended(d, c) /\ Len(d) = Len(c) + 1
        /\ d[Len(c) + 1].op = "jump"
    BY <1>3, <2>1, JumpCode
  <2>. HIDE DEF d
  <2>. QED
    BY <2>1, <2>2 DEF Code
<1>. HIDE DEF d
<1>5. DupsPaired(d)
  <2>1. \A n \in Len(c) + 1 .. Len(d) : n = Len(c) + 1
    BY <1>3, <1>4
  <2>. QED
    BY <1>3, <1>4, <2>1, PairedGrows
<1>6. s.exits \subseteq {n \in 1 .. Len(d) : d[n].op \in Forward}
  <2>1. Known(d, s)
    BY <1>3, <1>4, KnownKept
  <2>. QED
    BY <2>1 DEF Known
<1>7. /\ Code(r, (Unfinished \cup {Len(c) + 1}) \ s.exits) /\ DupsPaired(r) /\ Extended(r, d)
      /\ Len(r) = Len(d) /\ r \in Seq(Instructions)
  <2>1. /\ Code(r, (Unfinished \cup {Len(c) + 1}) \ s.exits) /\ DupsPaired(r) /\ Extended(r, d)
        /\ Len(r) = Len(d)
    BY <1>4, <1>5, <1>6, PatchCode
  <2>. HIDE DEF r
  <2>. QED
    BY <2>1 DEF Code
<1>. HIDE DEF r
<1>8. Extended(r, chunk)
  <2>1. Extended(d, chunk)
    BY <1>1, <1>3, <1>4, ExtendedTwice
  <2>. QED
    BY <1>1, <1>4, <1>7, <2>1, ExtendedTwice
<1>9. /\ nest' \in Seq(Loops \cup Conditionals) /\ Len(nest') = N
      /\ \A k \in 1 .. N : k # N => nest'[k] = nest[k]
      /\ nest'[N].kind = "else" /\ nest'[N].exits = {Len(d)} /\ nest'[N].locals = s.locals
  <2>. DEFINE x == [s EXCEPT !.kind = "else", !.exits = {Len(d)}]
  <2>1. x \in Loops \cup Conditionals /\ x.kind = "else" /\ x.exits = {Len(d)} /\ x.locals = s.locals
    <3>1. s \in Conditionals
      BY <1>1 DEF Loops, Conditionals
    <3>2. {Len(d)} \in SUBSET Nat
      BY <1>3, <1>4
    <3>. QED
      BY <3>1, <3>2 DEF Conditionals
  <2>2. nest' = [nest EXCEPT ![N] = x]
    <3>1. N \in DOMAIN nest
      BY <1>1, LenProperties
    <3>. QED
      BY <1>1, <1>2, <3>1
  <2>. HIDE DEF x
  <2>. QED
    BY <1>1, <2>1, <2>2, ExceptSeq
<1>10. Code(chunk', Unfinished')
  <2>1. (Unfinished \cup {Len(c) + 1}) \ s.exits \subseteq Unfinished'
    <3>1. ASSUME NEW n \in Unfinished, n \notin s.exits PROVE n \in Unfinished'
      <4>1. PICK k \in 1 .. N : n \in nest[k].exits
        BY <3>1 DEF Unfinished
      <4>2. nest'[k] = nest[k] /\ k \in 1 .. Len(nest')
        BY <1>1, <1>9, <3>1, <4>1
      <4>. QED
        BY <4>1, <4>2 DEF Unfinished
    <3>2. Len(c) + 1 \in Unfinished'
      <4>1. N \in 1 .. Len(nest') /\ Len(c) + 1 \in nest'[N].exits
        BY <1>1, <1>4, <1>9
      <4>. QED
        BY <4>1 DEF Unfinished
    <3>. QED
      BY <3>1, <3>2
  <2>. QED
    BY <1>2, <1>7, <2>1, Weaken
<1>11. Nested'
  <2>1. \A k \in 1 .. N : nest'[k].locals = nest[k].locals
    BY <1>1, <1>9
  <2>2. \A n \in 1 .. Len(nest') : nest'[n].locals <= locals'
    BY <1>1, <1>2, <1>9, <2>1
  <2>3. \A n \in 1 .. Len(nest') : \A l \in n .. Len(nest') : nest'[n].locals <= nest'[l].locals
    <3>1. \A n \in 1 .. N : \A l \in n .. N : nest[n].locals <= nest[l].locals /\ l \in 1 .. N
      BY <1>1 DEF IInv, Nested
    <3>. QED
      BY <1>9, <2>1, <3>1
  <2>4. Known(chunk', nest'[N])
    <3>1. Len(d) \in 1 .. Len(r) /\ r[Len(d)].op = "jump"
      <4>1. Len(d) \in 1 .. Len(d) /\ Len(d) = Len(c) + 1
        BY <1>3, <1>4
      <4>. QED
        BY <1>4, <1>7, <4>1 DEF Extended
    <3>. QED
      BY <1>2, <1>4, <1>9, <3>1 DEF Known
  <2>5. /\ N \in 1 .. Len(nest') /\ Len(nest') \in Nat
        /\ \A n \in 1 .. Len(nest') : n # N => n <= Len(nest) /\ nest'[n] = nest[n]
    BY <1>1, <1>9
  <2>6. phase' = "compile" /\ chunk' \in Seq(Instructions) /\ Extended(chunk', chunk) /\ locals' \in Nat
    BY <1>1, <1>2, <1>7, <1>8
  <2>. QED
    BY <2>2, <2>3, <2>4, <2>5, <2>6, NestGrows
<1>. QED
  BY <1>1, <1>2, <1>7, <1>9, <1>10, <1>11, CompileStep

LEMMA BreakStep ==
    ASSUME IInv, Break
    PROVE  IInv'
<1>. DEFINE L == Len(chunk)
            r == EmitJump(chunk, "jump")
            N == Len(nest)
<1>1. /\ Code(chunk, Unfinished) /\ DupsPaired(chunk) /\ chunk \in Seq(Instructions) /\ L \in Nat
      /\ nest \in Seq(Loops \cup Conditionals) /\ N \in Nat /\ locals \in Nat
      /\ \A k \in 1 .. N : nest[k] \in Loops \cup Conditionals
  BY StateFacts
<1>2. PICK k \in 1 .. N :
        /\ InnermostLoop(k)
        /\ Emitted(r)
        /\ nest' = [nest EXCEPT ![k].exits = @ \cup {L + 1}]
        /\ locals' = locals
  BY DEF Break
<1>3. /\ phase = "compile" /\ chunk' = r /\ count' = End(chunk', Len(chunk'))
      /\ UNCHANGED <<phase, ip, previous, newChunk, newCount>>
  BY <1>2 DEF Emitted
<1>4. /\ Code(r, Unfinished \cup {L + 1}) /\ Extended(r, chunk) /\ Len(r) = L + 1
      /\ r[L + 1].op = "jump" /\ r \in Seq(Instructions) /\ "jump" \in Forward
  <2>1. "jump" \in Forward
    BY DEF Forward
  <2>2. /\ Code(r, Unfinished \cup {L + 1}) /\ Extended(r, chunk) /\ Len(r) = L + 1
        /\ r[L + 1].op = "jump"
    BY <1>1, <2>1, JumpCode
  <2>. HIDE DEF r
  <2>. QED
    BY <2>1, <2>2 DEF Code
<1>. HIDE DEF r
<1>5. DupsPaired(r)
  <2>1. \A n \in L + 1 .. Len(r) : n = L + 1
    BY <1>1, <1>4
  <2>. QED
    BY <1>1, <1>4, <2>1, PairedGrows
<1>6. /\ nest' \in Seq(Loops \cup Conditionals) /\ Len(nest') = N
      /\ \A n \in 1 .. N : n # k => nest'[n] = nest[n]
      /\ nest'[k].kind = "while" /\ nest'[k].exits = nest[k].exits \cup {L + 1}
      /\ nest'[k].locals = nest[k].locals
      /\ nest'[k].start = nest[k].start /\ nest'[k].offset = nest[k].offset
  <2>. DEFINE s == nest[k]
              more == s.exits \cup {L + 1}
              x == [s EXCEPT !.exits = more]
  <2>1. s \in Loops
    BY <1>1, <1>2 DEF InnermostLoop, Loops, Conditionals
  <2>2. nest' = [nest EXCEPT ![k] = x]
    <3>1. k \in DOMAIN nest
      BY <1>1, LenProperties
    <3>. QED
      BY <1>2, <3>1
  <2>. HIDE DEF s
  <2>3. more \in SUBSET Nat
    BY <1>1, <2>1 DEF Loops
  <2>. HIDE DEF more
  <2>4. /\ x \in Loops /\ x.kind = "while" /\ x.exits = more
        /\ x.locals = s.locals /\ x.start = s.start /\ x.offset = s.offset
    BY <2>1, <2>3 DEF Loops
  <2>. HIDE DEF x
  <2>5. /\ nest' \in Seq(Loops \cup Conditionals) /\ Len(nest') = N
        /\ \A n \in 1 .. N : nest'[n] = IF n = k THEN x ELSE nest[n]
    BY <1>1, <2>2, <2>4, ExceptSeq
  <2>. QED
    BY <2>4, <2>5 DEF s, more
<1>7. Code(chunk', Unfinished')
  <2>1. Unfinished \cup {L + 1} \subseteq Unfinished'
    <3>1. \A n \in 1 .. N : nest[n].exits \subseteq nest'[n].exits
      BY <1>6
    <3>2. k \in 1 .. Len(nest') /\ L + 1 \in nest'[k].exits
      BY <1>6
    <3>. QED
      BY <1>6, <3>1, <3>2 DEF Unfinished
  <2>. QED
    BY <1>3, <1>4, <2>1, Weaken
<1>8. Nested'
  <2>1. \A n \in 1 .. N : nest'[n].locals = nest[n].locals
    BY <1>6
  <2>2. \A n \in 1 .. N :
          /\ nest[n].locals <= locals
          /\ \A l \in n .. N : nest[n].locals <= nest[l].locals /\ l \in 1 .. N
    BY <1>1 DEF IInv, Nested
  <2>3. /\ \A n \in 1 .. Len(nest') : nest'[n].locals <= locals'
        /\ \A n \in 1 .. Len(nest') : \A l \in n .. Len(nest') : nest'[n].locals <= nest'[l].locals
    BY <1>2, <1>6, <2>1, <2>2
  <2>4. Known(chunk', nest'[k])
    <3>1. Known(chunk, nest[k])
      BY DEF IInv, Nested
    <3>2. Known(r, nest[k])
      BY <1>1, <1>4, <3>1, KnownKept
    <3>3. nest[k].kind = "while"
      BY <1>2 DEF InnermostLoop
    <3>4. L + 1 \in {n \in 1 .. Len(r) : r[n].op \in Forward}
      BY <1>1, <1>4
    <3>. QED
      BY <1>3, <1>6, <3>2, <3>3, <3>4 DEF Known
  <2>5. /\ k \in 1 .. Len(nest') /\ Len(nest') \in Nat
        /\ \A n \in 1 .. Len(nest') : n # k => n <= Len(nest) /\ nest'[n] = nest[n]
    BY <1>1, <1>6
  <2>6. phase' = "compile" /\ chunk' \in Seq(Instructions) /\ Extended(chunk', chunk) /\ locals' \in Nat
    BY <1>1, <1>2, <1>3, <1>4
  <2>. QED
    BY <2>3, <2>4, <2>5, <2>6, NestGrows
<1>. QED
  BY <1>1, <1>2, <1>3, <1>5, <1>6, <1>7, <1>8, CompileStep

LEMMA ContinueStep ==
    ASSUME IInv, Continue
    PROVE  IInv'
<1>. DEFINE L == Len(chunk)
            N == Len(nest)
<1>1. /\ Code(chunk, Unfinished) /\ DupsPaired(chunk) /\ chunk \in Seq(Instructions) /\ L \in Nat
      /\ nest \in Seq(Loops \cup Conditionals) /\ N \in Nat /\ locals \in Nat
  BY StateFacts
<1>2. PICK k \in 1 .. N :
        /\ InnermostLoop(k)
        /\ Emitted(EmitLoop(chunk, nest[k].offset, nest[k].start))
        /\ UNCHANGED <<nest, locals>>
  BY DEF Continue
<1>. DEFINE start == nest[k].start
            r == EmitLoop(chunk, End(chunk, start - 1), start)
<1>3. Target(chunk, start) /\ start <= L /\ nest[k].offset = End(chunk, start - 1)
  <2>1. Known(chunk, nest[k]) /\ nest[k].kind = "while"
    BY <1>2 DEF IInv, Nested, InnermostLoop
  <2>. QED
    BY <2>1 DEF Known
<1>4. /\ phase = "compile" /\ chunk' = r /\ count' = End(chunk', Len(chunk'))
      /\ UNCHANGED <<phase, ip, previous, newChunk, newCount, nest, locals>>
  BY <1>2, <1>3 DEF Emitted
<1>. HIDE DEF start
<1>5. /\ Code(r, Unfinished) /\ Extended(r, chunk) /\ Len(r) = L + 1
      /\ r[L + 1].op = "loop" /\ r \in Seq(Instructions)
  <2>1. /\ Code(r, Unfinished) /\ Extended(r, chunk) /\ Len(r) = L + 1
        /\ r[L + 1].op = "loop"
    BY <1>1, <1>3, LoopCode
  <2>. HIDE DEF r
  <2>. QED
    BY <2>1 DEF Code
<1>. HIDE DEF r
<1>6. DupsPaired(r)
  <2>1. \A n \in L + 1 .. Len(r) : n = L + 1
    BY <1>1, <1>5
  <2>. QED
    BY <1>1, <1>5, <2>1, PairedGrows
<1>7. Unfinished' = Unfinished
  BY <1>4 DEF Unfinished
<1>8. Nested'
  <2>1. \A n \in 1 .. N : nest[n].locals <= locals
    BY DEF IInv, Nested
  <2>. QED
    BY <1>1, <1>4, <1>5, <2>1, NestKept
<1>. QED
  BY <1>1, <1>4, <1>5, <1>6, <1>7, <1>8, CompileStep

LEMMA EndFunctionStep ==
    ASSUME IInv, EndFunction
    PROVE  IInv'
<1>. DEFINE c == EndBody(chunk)
            d == Emit(c, "pushNull")
            r == Emit(d, "return")
<1>1. Code(c, Unfinished) /\ DupsPaired(c) /\ c \in Seq(Instructions) /\ Len(c) \in Nat
  BY BodyEnds, InstructionFacts DEF Code
<1>. HIDE DEF c
<1>2. {"pushNull", "return"} \subseteq Ops \ (Forward \cup {"loop"})
  BY DEF Ops, Forward
<1>3. /\ Code(d, Unfinished) /\ Extended(d, c) /\ Len(d) = Len(c) + 1
      /\ d[Len(c) + 1].op = "pushNull"
  BY <1>1, <1>2, EmitPlain
<1>. HIDE DEF d
<1>4. /\ Code(r, Unfinished) /\ Extended(r, d) /\ Len(r) = Len(d) + 1 /\ r[Len(d) + 1].op = "return"
      /\ \A n \in 1 .. Len(d) : r[n] = d[n]
  BY <1>2, <1>3, EmitPlain
<1>. HIDE DEF r
<1>5. d \in Seq(Instructions) /\ r \in Seq(Instructions)
  BY <1>3, <1>4 DEF Code
<1>6. DupsPaired(r)
  <2>1. Extended(r, c)
    BY <1>1, <1>3, <1>4, <1>5, ExtendedTwice
  <2>2. \A n \in Len(c) + 1 .. Len(r) : n = Len(c) + 1 \/ n = Len(d) + 1
    BY <1>1, <1>3, <1>4
  <2>3. Len(c) + 1 \in 1 .. Len(d)
    BY <1>1, <1>3
  <2>4. \A n \in Len(c) + 1 .. Len(r) : r[n].op # "dup"
    BY <1>3, <1>4, <2>2, <2>3
  <2>. QED
    BY <1>1, <1>5, <2>1, <2>4, PairedGrows
<1>7. /\ phase = "compile" /\ phase' = "optimize" /\ nest = << >> /\ nest' = nest
      /\ chunk' = r /\ count' = End(chunk', Len(chunk')) /\ locals' = Body
      /\ UNCHANGED <<ip, previous, newChunk, newCount>>
  BY DEF EndFunction, LocalsDropped, r, d, c
<1>8. Unfinished' = Unfinished /\ Nested'
  BY <1>7 DEF Unfinished, Nested
<1>. QED
  BY <1>4, <1>6, <1>7, <1>8, StateFacts, CompileStep

--------------------------------------------------------------------------------
(* The pass *)

LEMMA PassFacts ==
    ASSUME IInv
    PROVE  /\ chunk \in Seq(Instructions) /\ Len(chunk) \in Nat
           /\ newChunk \in Seq(Instructions) /\ Len(newChunk) \in Nat
           /\ ip \in 1 .. Len(chunk) + 1
           /\ \A m \in 1 .. Len(newChunk) :
                /\ newChunk[m].from \in 1 .. ip - 1 /\ ~Gone(newChunk[m].from)
                /\ newChunk[m].op = chunk[newChunk[m].from].op
                /\ newChunk[m].operand = chunk[newChunk[m].from].operand
                /\ newChunk[m].aim = chunk[newChunk[m].from].aim
                /\ newChunk[m].at \in Nat
                /\ \A k \in m + 1 .. Len(newChunk) : newChunk[m].from < newChunk[k].from
           /\ \A n \in 1 .. ip - 1 :
                Gone(n) \/ \E m \in 1 .. Len(newChunk) : newChunk[m].from = n
<1>1. /\ chunk \in Seq(Instructions) /\ newChunk \in Seq(Instructions)
      /\ ip \in 1 .. Len(chunk) + 1 /\ Passed
  BY DEF IInv, TypeOK
<1>2. Len(chunk) \in Nat /\ Len(newChunk) \in Nat
  BY <1>1, InstructionFacts
<1>3. ASSUME NEW m \in 1 .. Len(newChunk)
      PROVE  /\ newChunk[m].from \in 1 .. ip - 1 /\ ~Gone(newChunk[m].from)
             /\ newChunk[m].op = chunk[newChunk[m].from].op
             /\ newChunk[m].operand = chunk[newChunk[m].from].operand
             /\ newChunk[m].aim = chunk[newChunk[m].from].aim
             /\ newChunk[m].at \in Nat
  <2>. DEFINE n == newChunk[m].from
  <2>1. n \in 1 .. ip - 1 /\ ~Gone(n) /\ newChunk[m] = [chunk[n] EXCEPT !.at = newChunk[m].at]
    BY <1>1 DEF Passed, Copied
  <2>2. n \in 1 .. Len(chunk)
    BY <1>1, <1>2, <2>1
  <2>3. chunk[n] \in Instructions /\ newChunk[m].at \in Nat
    BY <1>1, <2>2, InstructionFacts
  <2>. HIDE DEF n
  <2>4. /\ newChunk[m].op = chunk[n].op /\ newChunk[m].operand = chunk[n].operand
        /\ newChunk[m].aim = chunk[n].aim
    BY <2>1, <2>3 DEF Instructions
  <2>. QED
    BY <2>1, <2>3, <2>4 DEF n
<1>4. \A m \in 1 .. Len(newChunk) : \A k \in m + 1 .. Len(newChunk) :
        newChunk[m].from < newChunk[k].from
  BY <1>1 DEF Passed, Spaced
<1>5. \A n \in 1 .. ip - 1 :
        Gone(n) \/ \E m \in 1 .. Len(newChunk) : newChunk[m].from = n
  BY <1>1 DEF Passed
<1>. QED
  BY <1>1, <1>2, <1>3, <1>4, <1>5

\* An instruction that was just read and is not left out is the last that was copied.
LEMMA LastCopied ==
    ASSUME IInv, ip > 1, ~Gone(ip - 1)
    PROVE  Len(newChunk) \in 1 .. Len(newChunk) /\ newChunk[Len(newChunk)].from = ip - 1
<1>. DEFINE M == Len(newChunk)
<1>1. M \in Nat /\ ip \in Nat /\ ip - 1 \in 1 .. ip - 1
  BY PassFacts
<1>2. PICK m \in 1 .. M : newChunk[m].from = ip - 1
  BY <1>1, PassFacts
<1>3. M \in 1 .. M /\ newChunk[M].from \in 1 .. ip - 1
  BY <1>1, PassFacts
<1>4. m < M => newChunk[m].from < newChunk[M].from
  <2>1. m < M => M \in m + 1 .. M
    BY <1>1
  <2>. QED
    BY <2>1, PassFacts
<1>. QED
  BY <1>1, <1>2, <1>3, <1>4

LEMMA PassStep ==
    ASSUME IInv, phase # "compile", phase' \in {"optimize", "done"},
           UNCHANGED <<chunk, count, nest, locals>>,
           newChunk' \in Seq(Instructions), newCount' = End(newChunk', Len(newChunk')),
           ip' \in 1 .. Len(chunk) + 1, previous' \in Ops \cup {"none"}, Passed'
    PROVE  IInv'
<1>1. nest = << >> /\ Nested'
  BY DEF IInv, Nested
<1>2. TypeOK'
  BY DEF IInv, TypeOK
<1>3. Patched(chunk', Unfinished')
  BY DEF IInv, Unfinished
<1>. QED
  BY <1>1, <1>2, <1>3 DEF IInv

LEMMA FinishStep ==
    ASSUME IInv, Finish
    PROVE  IInv'
<1>1. /\ phase = "optimize" /\ phase' = "done" /\ ip > Len(chunk)
      /\ UNCHANGED <<chunk, count, nest, locals, ip, previous, newChunk, newCount>>
  BY DEF Finish
<1>2. TypeOK /\ Passed /\ Len(chunk) \in Nat /\ ip \in 1 .. Len(chunk) + 1
  BY PassFacts DEF IInv
<1>3. ip = Len(chunk) + 1
  BY <1>1, <1>2
<1>4. \A n : Gone(n)' <=> Gone(n)
  BY <1>1 DEF Gone
<1>5. (\A m : Copied(m)' <=> Copied(m)) /\ (\A m, k : Spaced(m, k)' <=> Spaced(m, k))
  BY <1>1, <1>4 DEF Copied, Spaced
<1>6. Passed'
  BY <1>1, <1>2, <1>3, <1>4, <1>5 DEF Passed
<1>. QED
  BY <1>1, <1>2, <1>6, PassStep DEF TypeOK

\* Where a POP does not follow a DUP in reading, no DUP comes before it.
LEMMA CopyRead ==
    ASSUME IInv, NEW n \in 1 .. Len(chunk), ip = n, ~(chunk[n].op = "pop" /\ previous = "dup")
    PROVE  n > 1 => chunk[n - 1].op # "dup"
<1>1. Passed /\ DupsPaired(chunk) /\ Len(chunk) \in Nat
  BY PassFacts DEF IInv
<1>. SUFFICES ASSUME n > 1, chunk[n - 1].op = "dup" PROVE FALSE
  OBVIOUS
<1>2. n - 1 \in 1 .. Len(chunk) /\ (n - 1) + 1 = n
  BY <1>1
<1>3. chunk[n].op = "pop"
  BY <1>1, <1>2 DEF DupsPaired
<1>4. previous = "dup"
  BY <1>1 DEF Passed
<1>. QED
  BY <1>3, <1>4

LEMMA CopyStep ==
    ASSUME IInv, NEW n \in 1 .. Len(chunk), Copy(n)
    PROVE  IInv'
<1>. DEFINE M == Len(newChunk)
            i == [chunk[n] EXCEPT !.at = newCount]
<1>1. /\ phase = "optimize" /\ ip = n /\ ip' = n + 1 /\ previous' = chunk[n].op
      /\ ~(chunk[n].op = "pop" /\ previous = "dup")
      /\ UNCHANGED <<phase, chunk, count, nest, locals>>
      /\ newChunk' = Append(newChunk, i) /\ newCount' = newCount + Size(chunk[n].op)
  BY DEF Copy, Reading
<1>2. /\ chunk \in Seq(Instructions) /\ newChunk \in Seq(Instructions)
      /\ Len(chunk) \in Nat /\ M \in Nat
      /\ newCount = End(newChunk, M) /\ Laid(newChunk) /\ Laid(chunk) /\ Numbered(chunk) /\ Passed
  BY PassFacts DEF IInv, TypeOK, Passed
<1>3. newCount \in Nat /\ chunk[n] \in Instructions /\ chunk[n].from = n
  <2>1. M \in 0 .. M
    BY <1>2
  <2>. QED
    BY <1>2, <2>1, InstructionFacts DEF Numbered
<1>4. /\ i \in Instructions /\ i.at = newCount /\ i.op = chunk[n].op /\ i.from = n
      /\ i = [chunk[n] EXCEPT !.at = i.at]
  BY <1>3 DEF Instructions
<1>. HIDE DEF i
<1>5. /\ newChunk' \in Seq(Instructions) /\ Len(newChunk') = M + 1
      /\ \A m \in 1 .. M : newChunk'[m] = newChunk[m]
      /\ newChunk'[M + 1] = i
      /\ Laid(newChunk')
  BY <1>1, <1>2, <1>4, AppendLaid
<1>6. newCount' = End(newChunk', Len(newChunk'))
  BY <1>1, <1>2, <1>4, <1>5 DEF End
<1>7. n > 1 => chunk[n - 1].op # "dup"
  BY <1>1, CopyRead
<1>8. \A l \in 1 .. Len(chunk) : Gone(l)' <=> Gone(l)
  <2>. SUFFICES ASSUME NEW l \in 1 .. Len(chunk) PROVE Gone(l)' <=> Gone(l)
    OBVIOUS
  <2>1. chunk[l].op = "dup" => (l + 1 < n + 1 <=> l + 1 < n)
    <3>1. l = n - 1 => n > 1
      BY <1>2
    <3>. QED
      BY <1>2, <1>7, <3>1
  <2>. QED
    BY <1>1, <2>1 DEF Gone
<1>9. ~Gone(n)'
  BY <1>1, <1>2, <1>7 DEF Gone
<1>10. ASSUME NEW m \in 1 .. M
       PROVE  /\ newChunk[m].from \in 1 .. n - 1 /\ newChunk[m].from \in 1 .. Len(chunk)
              /\ Copied(m) /\ \A k \in m + 1 .. M : Spaced(m, k)
  <2>1. newChunk[m].from \in 1 .. n - 1
    BY <1>1, PassFacts
  <2>2. newChunk[m].from \in 1 .. Len(chunk)
    BY <1>2, <2>1
  <2>. QED
    BY <1>2, <2>1, <2>2 DEF Passed
\* The new copy is as far from an earlier one as the instructions were.
<1>11. ASSUME NEW m \in 1 .. M, \A l \in newChunk[m].from .. n : ~Gone(l)
       PROVE  newCount - newChunk[m].at = chunk[n].at - chunk[newChunk[m].from].at
  <2>1. newChunk[m].from \in 1 .. n - 1
    BY <1>10
  <2>2. n > 1 /\ n - 1 \in newChunk[m].from .. n /\ n - 1 \in 1 .. Len(chunk)
    BY <1>2, <2>1
  <2>3. M \in 1 .. M /\ newChunk[M].from = n - 1
    BY <1>1, <1>11, <2>2, LastCopied
  <2>4. newCount = newChunk[M].at + Size(chunk[n - 1].op)
    <3>1. newChunk[M].op = chunk[n - 1].op /\ M # 0
      BY <2>3, PassFacts
    <3>. QED
      BY <1>2, <3>1 DEF End
  <2>5. chunk[n].at = chunk[n - 1].at + Size(chunk[n - 1].op)
    <3>1. chunk[n].at = End(chunk, n - 1) /\ n - 1 # 0
      BY <1>2, <2>2 DEF Laid
    <3>. QED
      BY <3>1 DEF End
  <2>6. /\ newChunk[M].at \in Nat /\ newChunk[m].at \in Nat /\ Size(chunk[n - 1].op) \in Nat
        /\ chunk[n - 1].at \in Nat /\ chunk[newChunk[m].from].at \in Nat
    <3>1. newChunk[m].from \in 1 .. Len(chunk)
      BY <1>10
    <3>. QED
      BY <1>2, <2>2, <2>3, <3>1, InstructionFacts, Sizes
  <2>7. CASE m = M
    BY <2>3, <2>4, <2>5, <2>6, <2>7
  <2>8. CASE m # M
    <3>1. M \in m + 1 .. M /\ \A l \in newChunk[m].from .. newChunk[M].from : ~Gone(l)
      BY <1>2, <1>11, <2>1, <2>3, <2>8
    <3>2. newChunk[M].at - newChunk[m].at = chunk[n - 1].at - chunk[newChunk[m].from].at
      BY <1>10, <2>3, <3>1 DEF Spaced
    <3>. DEFINE a == newChunk[m].at
                b == newChunk[M].at
                c == chunk[newChunk[m].from].at
                d == chunk[n - 1].at
                size == Size(chunk[n - 1].op)
    <3>3. /\ a \in Nat /\ b \in Nat /\ c \in Nat /\ d \in Nat /\ size \in Nat
          /\ b - a = d - c /\ newCount = b + size /\ chunk[n].at = d + size
      BY <2>4, <2>5, <2>6, <3>2
    <3>. HIDE DEF a, b, c, d, size
    <3>4. newCount - a = chunk[n].at - c
      BY <3>3
    <3>. QED
      BY <3>4 DEF a, c
  <2>. QED
    BY <2>7, <2>8
<1>12. ASSUME NEW m \in 1 .. M + 1
       PROVE  Copied(m)'
  <2>1. CASE m = M + 1
    <3>1. n \in 1 .. ip' - 1
      BY <1>1, <1>2
    <3>. QED
      BY <1>1, <1>4, <1>5, <1>9, <2>1, <3>1 DEF Copied
  <2>2. CASE m # M + 1
    <3>1. m \in 1 .. M
      BY <1>2, <2>2
    <3>2. newChunk'[m] = newChunk[m] /\ newChunk[m].from \in 1 .. n - 1 /\ newChunk[m].from \in 1 .. Len(chunk)
      BY <1>5, <1>10, <3>1
    <3>3. Copied(m) /\ newChunk[m].from \in 1 .. ip' - 1
      BY <1>1, <1>10, <3>1, <3>2
    <3>. QED
      BY <1>1, <1>8, <3>2, <3>3 DEF Copied
  <2>. QED
    BY <2>1, <2>2
<1>13. ASSUME NEW m \in 1 .. M + 1, NEW k \in m + 1 .. M + 1
       PROVE  Spaced(m, k)'
  <2>1. m \in 1 .. M
    BY <1>2
  <2>2. newChunk'[m] = newChunk[m] /\ newChunk[m].from \in 1 .. n - 1 /\ newChunk[m].from \in 1 .. Len(chunk)
    BY <1>5, <1>10, <2>1
  <2>3. CASE k = M + 1
    <3>1. newChunk'[k] = i
      BY <1>5, <2>3
    <3>2. \A l \in newChunk[m].from .. n : l \in 1 .. Len(chunk)
      BY <2>2
    <3>3. (\A l \in newChunk[m].from .. n : ~Gone(l)') =>
            newCount - newChunk[m].at = chunk[n].at - chunk[newChunk[m].from].at
      BY <1>8, <1>11, <2>1, <3>2
    <3>4. newChunk[m].from < n
      BY <2>2
    <3>. QED
      BY <1>1, <1>4, <2>2, <3>1, <3>3, <3>4 DEF Spaced
  <2>4. CASE k # M + 1
    <3>1. k \in m + 1 .. M /\ k \in 1 .. M
      BY <1>2, <2>1, <2>4
    <3>2. newChunk'[k] = newChunk[k] /\ newChunk[k].from \in 1 .. Len(chunk) /\ Spaced(m, k)
      BY <1>5, <1>10, <2>1, <3>1
    <3>3. \A l \in newChunk[m].from .. newChunk[k].from : l \in 1 .. Len(chunk)
      BY <2>2, <3>2
    <3>. QED
      BY <1>1, <1>8, <2>2, <3>2, <3>3 DEF Spaced
  <2>. QED
    BY <2>3, <2>4
<1>14. ASSUME NEW l \in 1 .. ip' - 1
       PROVE  Gone(l)' \/ \E m \in 1 .. M + 1 : newChunk'[m].from = l
  <2>1. CASE l = n
    BY <1>2, <1>4, <1>5, <2>1
  <2>2. CASE l # n
    <3>1. l \in 1 .. ip - 1 /\ l \in 1 .. Len(chunk)
      BY <1>1, <1>2, <2>2
    <3>2. Gone(l) \/ \E m \in 1 .. M : newChunk[m].from = l
      BY <1>2, <3>1 DEF Passed
    <3>. QED
      BY <1>2, <1>5, <1>8, <3>1, <3>2
  <2>. QED
    BY <2>1, <2>2
<1>15. previous' = (IF ip' = 1 THEN "none" ELSE chunk'[ip' - 1].op)
  BY <1>1, <1>2
<1>16. Passed'
  BY <1>1, <1>5, <1>12, <1>13, <1>14, <1>15 DEF Passed
<1>17. ip' \in 1 .. Len(chunk) + 1 /\ previous' \in Ops \cup {"none"}
  <2>1. chunk[n].op \in Ops
    BY <1>3 DEF Instructions
  <2>2. n + 1 \in 1 .. Len(chunk) + 1
    BY <1>2
  <2>. QED
    BY <1>1, <2>1, <2>2
<1>. QED
  BY <1>1, <1>5, <1>6, <1>16, <1>17, PassStep

LEMMA DropPairStep ==
    ASSUME IInv, NEW n \in 1 .. Len(chunk), DropPair(n)
    PROVE  IInv'
<1>. DEFINE M == Len(newChunk)
<1>1. /\ phase = "optimize" /\ ip = n /\ ip' = n + 1 /\ previous' = chunk[n].op
      /\ chunk[n].op = "pop" /\ previous = "dup"
      /\ UNCHANGED <<phase, chunk, count, nest, locals>>
      /\ newChunk' = SubSeq(newChunk, 1, M - 1) /\ newCount' = newCount - 1
  BY DEF DropPair, Reading, Front
<1>2. /\ chunk \in Seq(Instructions) /\ newChunk \in Seq(Instructions)
      /\ Len(chunk) \in Nat /\ M \in Nat
      /\ newCount = End(newChunk, M) /\ Laid(newChunk) /\ Passed
  BY PassFacts DEF IInv, TypeOK, Passed
<1>3. n > 1 /\ chunk[n - 1].op = "dup" /\ n - 1 \in 1 .. Len(chunk)
  BY <1>1, <1>2 DEF Passed
\* The DUP that was just copied is the last of the new chunk.
<1>4. M \in 1 .. M /\ newChunk[M].from = n - 1
  <2>1. ~Gone(n - 1)
    BY <1>1, <1>3 DEF Gone
  <2>. QED
    BY <1>1, <1>3, <2>1, LastCopied
<1>5. /\ newChunk' \in Seq(Instructions) /\ Len(newChunk') = M - 1
      /\ \A m \in 1 .. M - 1 : newChunk'[m] = newChunk[m]
  <2>1. M - 1 \in 0 .. M
    BY <1>4
  <2>. QED
    BY <1>1, <1>2, <2>1, TakeFront
<1>6. Laid(newChunk')
  <2>1. Extended(newChunk, newChunk')
    BY <1>2, <1>5 DEF Extended
  <2>2. \A l \in 0 .. M - 1 : End(newChunk', l) = End(newChunk, l)
    BY <1>2, <1>5, <2>1, ExtendedFacts
  <2>3. ASSUME NEW l \in 1 .. M - 1
        PROVE  /\ newChunk'[l].at = End(newChunk', l - 1)
               /\ \A m \in 0 .. l : End(newChunk', m) <= End(newChunk', l)
    <3>1. l \in 1 .. M /\ l - 1 \in 0 .. M - 1 /\ \A m \in 0 .. l : m \in 0 .. M - 1
      BY <1>4
    <3>2. newChunk[l].at = End(newChunk, l - 1) /\ \A m \in 0 .. l : End(newChunk, m) <= End(newChunk, l)
      BY <1>2, <3>1 DEF Laid
    <3>. QED
      BY <1>5, <2>2, <3>1, <3>2
  <2>. QED
    BY <1>5, <2>3 DEF Laid
<1>7. newCount' = End(newChunk', Len(newChunk'))
  <2>1. Extended(newChunk, newChunk') /\ M - 1 \in 0 .. M - 1
    BY <1>2, <1>4, <1>5 DEF Extended
  <2>2. End(newChunk', M - 1) = End(newChunk, M - 1)
    BY <1>2, <1>5, <2>1, ExtendedFacts
  <2>3. newChunk[M].at = End(newChunk, M - 1) /\ newChunk[M].at \in Nat
    BY <1>2, <1>4, InstructionFacts DEF Laid
  <2>4. End(newChunk, M) = newChunk[M].at + 1
    <3>1. newChunk[M].op = "dup"
      BY <1>3, <1>4, PassFacts
    <3>. QED
      BY <1>4, <3>1, Sizes DEF End
  <2>5. newCount - 1 = newChunk[M].at
    BY <1>2, <2>3, <2>4
  <2>. HIDE DEF M
  <2>. QED
    BY <1>1, <1>5, <2>2, <2>3, <2>5
<1>8. \A l \in 1 .. Len(chunk) : Gone(l)' <=> Gone(l) \/ l = n - 1
  <2>. SUFFICES ASSUME NEW l \in 1 .. Len(chunk) PROVE Gone(l)' <=> Gone(l) \/ l = n - 1
    OBVIOUS
  <2>1. l + 1 < n + 1 <=> l + 1 < n \/ l = n - 1
    BY <1>2
  <2>. QED
    BY <1>1, <1>3, <2>1 DEF Gone
<1>9. Gone(n)
  BY <1>1, <1>3 DEF Gone
<1>10. ASSUME NEW m \in 1 .. M - 1
       PROVE  /\ m \in 1 .. M /\ newChunk[m].from \in 1 .. n - 2 /\ newChunk[m].from \in 1 .. Len(chunk)
              /\ newChunk'[m] = newChunk[m]
              /\ Copied(m) /\ \A k \in m + 1 .. M : Spaced(m, k)
  <2>1. m \in 1 .. M /\ M \in m + 1 .. M
    BY <1>4
  <2>2. newChunk[m].from \in 1 .. n - 1 /\ newChunk[m].from < newChunk[M].from
    BY <1>1, <2>1, PassFacts
  <2>3. newChunk[m].from \in 1 .. n - 2 /\ newChunk[m].from \in 1 .. Len(chunk)
    BY <1>2, <1>4, <2>2
  <2>. QED
    BY <1>2, <1>5, <2>1, <2>3 DEF Passed
<1>11. ASSUME NEW m \in 1 .. M - 1
       PROVE  Copied(m)'
  <2>1. newChunk[m].from \in 1 .. ip' - 1 /\ newChunk[m].from # n - 1
    <3>1. newChunk[m].from \in 1 .. n - 2
      BY <1>10
    <3>. QED
      BY <1>1, <3>1
  <2>. QED
    BY <1>1, <1>8, <1>10, <2>1 DEF Copied
<1>12. ASSUME NEW m \in 1 .. M - 1, NEW k \in m + 1 .. M - 1
       PROVE  Spaced(m, k)'
  <2>1. k \in 1 .. M - 1 /\ k \in m + 1 .. M
    BY <1>2
  <2>2. \A l \in newChunk[m].from .. newChunk[k].from : l \in 1 .. Len(chunk)
    BY <1>10, <2>1
  <2>3. Spaced(m, k) /\ newChunk'[m] = newChunk[m] /\ newChunk'[k] = newChunk[k]
    BY <1>10, <2>1
  <2>. QED
    BY <1>1, <1>8, <2>2, <2>3 DEF Spaced
<1>13. ASSUME NEW l \in 1 .. ip' - 1
       PROVE  Gone(l)' \/ \E m \in 1 .. M - 1 : newChunk'[m].from = l
  <2>1. l \in 1 .. Len(chunk)
    BY <1>1, <1>2
  <2>2. CASE l = n \/ l = n - 1
    BY <1>8, <1>9, <2>1, <2>2
  <2>3. CASE l # n /\ l # n - 1
    <3>1. l \in 1 .. ip - 1
      BY <1>1, <2>3
    <3>2. CASE Gone(l)
      BY <1>8, <2>1, <3>2
    <3>3. CASE ~Gone(l)
      <4>1. PICK m \in 1 .. M : newChunk[m].from = l
        BY <1>2, <3>1, <3>3 DEF Passed
      <4>2. m \in 1 .. M - 1
        BY <1>2, <1>4, <2>3, <4>1
      <4>. QED
        BY <1>10, <4>1, <4>2
    <3>. QED
      BY <3>2, <3>3
  <2>. QED
    BY <2>2, <2>3
<1>14. previous' = (IF ip' = 1 THEN "none" ELSE chunk'[ip' - 1].op)
  BY <1>1, <1>2
<1>15. Passed'
  BY <1>1, <1>5, <1>6, <1>11, <1>12, <1>13, <1>14 DEF Passed
<1>16. ip' \in 1 .. Len(chunk) + 1 /\ previous' \in Ops \cup {"none"}
  <2>1. "pop" \in Ops /\ n + 1 \in 1 .. Len(chunk) + 1
    BY <1>2 DEF Ops
  <2>. QED
    BY <1>1, <2>1
<1>. QED
  BY <1>1, <1>5, <1>7, <1>15, <1>16, PassStep

--------------------------------------------------------------------------------
(* The invariant *)

LEMMA InitInv ==
    ASSUME Init
    PROVE  IInv
<1>1. /\ phase = "compile" /\ chunk = << >> /\ count = 0 /\ nest = << >> /\ locals = 0
      /\ ip = 1 /\ previous = "none" /\ newChunk = << >> /\ newCount = 0
  BY DEF Init
<1>2. /\ chunk \in Seq(Instructions) /\ newChunk \in Seq(Instructions)
      /\ nest \in Seq(Loops \cup Conditionals)
      /\ Len(chunk) = 0 /\ Len(newChunk) = 0 /\ Len(nest) = 0 /\ DOMAIN chunk = {}
  BY <1>1
<1>3. TypeOK
  BY <1>1, <1>2 DEF TypeOK, End
<1>4. Laid(chunk) /\ Numbered(chunk) /\ DupsPaired(chunk) /\ Patched(chunk, Unfinished)
  BY <1>2 DEF Laid, Numbered, DupsPaired, Patched, Jumps
<1>5. Nested
  BY <1>1, <1>2 DEF Nested
<1>6. Passed
  BY <1>1, <1>2 DEF Passed, Laid
<1>. QED
  BY <1>3, <1>4, <1>5, <1>6 DEF IInv

LEMMA StutterInv ==
    ASSUME IInv, UNCHANGED vars
    PROVE  IInv'
<1>1. UNCHANGED <<phase, chunk, count, nest, locals, ip, previous, newChunk, newCount>>
  BY DEF vars
<1>2. TypeOK' /\ Nested' /\ Unfinished' = Unfinished
  BY <1>1 DEF IInv, TypeOK, Nested, Unfinished
<1>3. \A n : Gone(n)' <=> Gone(n)
  BY <1>1 DEF Gone
<1>4. (\A m : Copied(m)' <=> Copied(m)) /\ (\A m, k : Spaced(m, k)' <=> Spaced(m, k))
  BY <1>1, <1>3 DEF Copied, Spaced
<1>5. Passed'
  BY <1>1, <1>3, <1>4 DEF IInv, Passed
<1>. QED
  BY <1>1, <1>2, <1>5 DEF IInv

LEMMA NextInv ==
    ASSUME IInv, [Next]_vars
    PROVE  IInv'
<1>1. CASE ExpressionStatement
  BY <1>1, ExpressionStatementStep
<1>2. CASE DeclarationStatement
  BY <1>2, DeclarationStatementStep
<1>3. CASE BeginWhile
  BY <1>3, BeginWhileStep
<1>4. CASE EndWhile
  BY <1>4, EndWhileStep
<1>5. CASE BeginIf
  BY <1>5, BeginIfStep
<1>6. CASE BeginElse
  BY <1>6, BeginElseStep
<1>7. CASE EndIf
  BY <1>7, EndIfStep
<1>8. CASE Break
  BY <1>8, BreakStep
<1>9. CASE Continue
  BY <1>9, ContinueStep
<1>10. CASE EndFunction
  BY <1>10, EndFunctionStep
<1>11. ASSUME NEW n \in 1 .. Len(chunk), DropPair(n)
       PROVE  IInv'
  BY <1>11, DropPairStep
<1>12. ASSUME NEW n \in 1 .. Len(chunk), Copy(n)
       PROVE  IInv'
  BY <1>12, CopyStep
<1>13. CASE Finish
  BY <1>13, FinishStep
<1>14. CASE UNCHANGED vars
  BY <1>14, StutterInv
<1>. QED
  BY <1>1, <1>2, <1>3, <1>4, <1>5, <1>6, <1>7, <1>8, <1>9, <1>10, <1>11, <1>12, <1>13, <1>14
     DEF Next, Compile, Optimize

\* compiler.c:544-626, 794-822, 1001-1040: what is compiled is laid out byte after
\* byte, its jumps are patched but for those of the constructs that are open, and
\* what the pass has written is what it read without the pairs.
THEOREM ChunkInvariance ==
    Spec => []IInv
<1>1. Init => IInv
  BY InitInv
<1>2. IInv /\ [Next]_vars => IInv'
  BY NextInv
<1>. QED
  BY <1>1, <1>2, PTL DEF Spec

\* The chunks are sequences of instructions and count the bytes of theirs.
THEOREM ChunksTyped ==
    Spec => []TypeOK
<1>1. IInv => TypeOK
  BY DEF IInv
<1>. QED
  BY <1>1, ChunkInvariance, PTL

--------------------------------------------------------------------------------
(* Jumps *)

LEMMA FirstOffset ==
    ASSUME NEW c \in Seq(Instructions), NEW x, NEW p \in 1 .. Len(c), c[p].from >= x,
           \A k \in 1 .. Len(c) : c[k].from >= x => p <= k
    PROVE  OffsetOf(c, x) = c[p].at
<1>. DEFINE later == {m \in DOMAIN c : c[m].from >= x}
            first == CHOOSE m \in later : \A k \in later : m <= k
<1>1. DOMAIN c = 1 .. Len(c) /\ p \in later /\ \A k \in later : k \in 1 .. Len(c) /\ p <= k
  BY InstructionFacts
<1>2. first \in later /\ \A k \in later : first <= k
  BY <1>1
<1>3. first = p
  BY <1>1, <1>2
<1>4. OffsetOf(c, x) = IF later = {} THEN End(c, Len(c)) ELSE c[first].at
  BY DEF OffsetOf
<1>. QED
  BY <1>1, <1>3, <1>4

LEMMA EndOffset ==
    ASSUME NEW c \in Seq(Instructions), NEW x, \A k \in 1 .. Len(c) : ~(c[k].from >= x)
    PROVE  OffsetOf(c, x) = End(c, Len(c))
BY InstructionFacts DEF OffsetOf

\* Where a jump of a compiled function is meant to land.
LEMMA CompiledJump ==
    ASSUME IInv, phase # "compile", NEW n \in 1 .. Len(chunk), IsJump(chunk[n])
    PROVE  /\ Target(chunk, chunk[n].aim)
           /\ Destination(chunk[n]) = End(chunk, chunk[n].aim - 1)
           /\ IF chunk[n].op = "loop" THEN chunk[n].aim <= n ELSE chunk[n].aim > n
<1>1. Len(nest) = 0
  BY DEF IInv, Nested
<1>2. n \in Jumps(chunk) \ Unfinished
  BY <1>1, PassFacts, InstructionFacts DEF Jumps, Unfinished
<1>. QED
  BY <1>2 DEF IInv, Patched

LEMMA PatchedFollows ==
    ASSUME IInv
    PROVE  JumpsPatched
<1>. DEFINE L == Len(chunk)
<1>1. /\ chunk \in Seq(Instructions) /\ L \in Nat /\ DOMAIN chunk = 1 .. L
      /\ Laid(chunk) /\ \A k \in 1 .. L : chunk[k].from = k
  BY PassFacts, InstructionFacts DEF IInv, Numbered
<1>. SUFFICES ASSUME phase # "compile", NEW n \in 1 .. L, IsJump(chunk[n])
              PROVE  Destination(chunk[n]) = OffsetOf(chunk, chunk[n].aim)
  BY <1>1 DEF JumpsPatched, Jumps
<1>. DEFINE a == chunk[n].aim
<1>2. a \in 1 .. L + 1 /\ Destination(chunk[n]) = End(chunk, a - 1)
  BY CompiledJump DEF Target
<1>. HIDE DEF a
<1>3. CASE a = L + 1
  <2>1. \A k \in 1 .. L : ~(chunk[k].from >= a)
    BY <1>1, <1>3
  <2>2. OffsetOf(chunk, a) = End(chunk, L)
    BY <1>1, <2>1, EndOffset
  <2>. QED
    BY <1>1, <1>2, <1>3, <2>2 DEF a
<1>4. CASE a # L + 1
  <2>1. a \in 1 .. L
    BY <1>1, <1>2, <1>4
  <2>2. chunk[a].from >= a /\ \A k \in 1 .. L : chunk[k].from >= a => a <= k
    BY <1>1, <2>1
  <2>3. OffsetOf(chunk, a) = chunk[a].at
    BY <1>1, <2>1, <2>2, FirstOffset
  <2>4. chunk[a].at = End(chunk, a - 1)
    BY <1>1, <2>1 DEF Laid
  <2>. QED
    BY <1>2, <2>3, <2>4 DEF a
<1>. QED
  BY <1>3, <1>4

\* Every jump of a compiled function lands where it is meant to, through any nesting
\* of loops, conditionals, break and continue (compiler.c:544-626, 794-822).
THEOREM CompiledJumpsLand ==
    Spec => []JumpsPatched
<1>1. IInv => JumpsPatched
  BY PatchedFollows
<1>. QED
  BY <1>1, ChunkInvariance, PTL

LEMMA DroppedAreGone ==
    ASSUME IInv, phase = "done"
    PROVE  /\ ip = Len(chunk) + 1
           /\ Dropped = {n \in 1 .. Len(chunk) : Gone(n)}
<1>1. ip = Len(chunk) + 1 /\ Len(chunk) \in Nat
  BY PassFacts DEF IInv, Passed
<1>2. DOMAIN chunk = 1 .. Len(chunk) /\ DOMAIN newChunk = 1 .. Len(newChunk)
  BY PassFacts, InstructionFacts
<1>3. ASSUME NEW n \in 1 .. Len(chunk)
      PROVE  (\A m \in 1 .. Len(newChunk) : newChunk[m].from # n) <=> Gone(n)
  <2>1. n \in 1 .. ip - 1
    BY <1>1
  <2>. QED
    BY <2>1, PassFacts
<1>. QED
  BY <1>1, <1>2, <1>3 DEF Dropped

LEMMA PairsFollow ==
    ASSUME IInv
    PROVE  OnlyPairsDropped
<1>. SUFFICES ASSUME phase = "done" PROVE OnlyPairsDropped
  BY DEF OnlyPairsDropped
<1>1. /\ Len(chunk) \in Nat /\ DupsPaired(chunk) /\ ip = Len(chunk) + 1
      /\ Dropped = {n \in 1 .. Len(chunk) : Gone(n)}
  BY PassFacts, DroppedAreGone DEF IInv
<1>2. ASSUME NEW n \in Dropped
      PROVE  \/ chunk[n].op = "dup" /\ n + 1 \in Dropped
             \/ chunk[n].op = "pop" /\ n - 1 \in Dropped /\ chunk[n - 1].op = "dup"
  <2>1. n \in 1 .. Len(chunk) /\ Gone(n)
    BY <1>1
  <2>2. CASE chunk[n].op = "dup"
    <3>1. n + 1 \in 1 .. Len(chunk) /\ chunk[n + 1].op = "pop"
      BY <1>1, <2>1, <2>2 DEF DupsPaired
    <3>2. Gone(n + 1)
      BY <2>1, <2>2, <3>1 DEF Gone
    <3>. QED
      BY <1>1, <2>2, <3>1, <3>2
  <2>3. CASE chunk[n].op # "dup"
    <3>1. chunk[n].op = "pop" /\ n > 1 /\ chunk[n - 1].op = "dup"
      BY <2>1, <2>3 DEF Gone
    <3>2. n - 1 \in 1 .. Len(chunk) /\ (n - 1) + 1 < ip
      BY <1>1, <2>1, <3>1
    <3>3. Gone(n - 1)
      BY <3>1, <3>2 DEF Gone
    <3>. QED
      BY <1>1, <3>1, <3>2, <3>3
  <2>. QED
    BY <2>2, <2>3
<1>3. DOMAIN newChunk = 1 .. Len(newChunk) /\ DOMAIN chunk = 1 .. Len(chunk) /\ Len(newChunk) \in Nat
  BY PassFacts, InstructionFacts
<1>4. ASSUME NEW m \in DOMAIN newChunk, NEW k \in DOMAIN newChunk, m < k
      PROVE  newChunk[m].from < newChunk[k].from
  <2>1. m \in 1 .. Len(newChunk) /\ k \in m + 1 .. Len(newChunk)
    BY <1>3, <1>4
  <2>. QED
    BY <2>1, PassFacts
<1>5. ASSUME NEW n \in Dropped, NEW j \in Jumps(chunk), chunk[n].op = "pop", chunk[j].aim = n
      PROVE  FALSE
  <2>1. n > 1 /\ chunk[n - 1].op = "dup"
    BY <1>1, <1>5 DEF Gone
  <2>2. Target(chunk, chunk[j].aim)
    BY <1>3, CompiledJump DEF Jumps
  <2>. QED
    BY <1>5, <2>1, <2>2 DEF Target
<1>. QED
  BY <1>2, <1>4, <1>5 DEF OnlyPairsDropped

\* What the pass leaves out of any function is DUP; POP pairs, whole, and no jump is
\* meant for the POP of one: dropping them changes no height (compiler.c:1026-1034).
THEOREM PairsDropped ==
    Spec => []OnlyPairsDropped
<1>1. IInv => OnlyPairsDropped
  BY PairsFollow
<1>. QED
  BY <1>1, ChunkInvariance, PTL

LEMMA CopiesInOrder ==
    ASSUME IInv, NEW m \in 1 .. Len(newChunk), NEW k \in 1 .. Len(newChunk)
    PROVE  newChunk[m].from <= newChunk[k].from <=> m <= k
<1>1. /\ Len(newChunk) \in Nat /\ ip \in Nat
      /\ newChunk[m].from \in 1 .. ip - 1 /\ newChunk[k].from \in 1 .. ip - 1
  <2>1. Len(newChunk) \in Nat /\ Len(chunk) \in Nat /\ ip \in 1 .. Len(chunk) + 1
    BY PassFacts
  <2>2. newChunk[m].from \in 1 .. ip - 1 /\ newChunk[k].from \in 1 .. ip - 1
    BY PassFacts
  <2>. QED
    BY <2>1, <2>2
<1>2. m < k => newChunk[m].from < newChunk[k].from
  <2>1. m < k => k \in m + 1 .. Len(newChunk)
    BY <1>1
  <2>. QED
    BY <2>1, PassFacts
<1>3. k < m => newChunk[k].from < newChunk[m].from
  <2>1. k < m => m \in k + 1 .. Len(newChunk)
    BY <1>1
  <2>. QED
    BY <2>1, PassFacts
<1>. QED
  BY <1>1, <1>2, <1>3

LEMMA CopiesApart ==
    ASSUME IInv, NEW m \in 1 .. Len(newChunk), NEW k \in 1 .. Len(newChunk), m <= k,
           \A l \in newChunk[m].from .. newChunk[k].from : ~Gone(l)
    PROVE  newChunk[k].at - newChunk[m].at
             = chunk[newChunk[k].from].at - chunk[newChunk[m].from].at
<1>1. CASE m = k
  <2>1. newChunk[m].from \in 1 .. Len(chunk)
    BY PassFacts
  <2>2. newChunk[m].at \in Nat /\ chunk[newChunk[m].from].at \in Nat
    BY <2>1, PassFacts, InstructionFacts
  <2>. QED
    BY <1>1, <2>2
<1>2. CASE m # k
  <2>1. k \in m + 1 .. Len(newChunk)
    BY <1>2, PassFacts
  <2>. QED
    BY <2>1 DEF IInv, Passed, Spaced
<1>. QED
  BY <1>1, <1>2

LEMMA ShortJumpsFollow ==
    ASSUME IInv
    PROVE  ShortJumpsKept
<1>. DEFINE M == Len(newChunk)
<1>1. /\ DOMAIN newChunk = 1 .. M /\ M \in Nat /\ newChunk \in Seq(Instructions)
      /\ chunk \in Seq(Instructions) /\ Len(chunk) \in Nat
  BY PassFacts, InstructionFacts
<1>. SUFFICES ASSUME phase = "done", NEW n \in 1 .. M, IsJump(newChunk[n]),
                     Span(newChunk[n]) \cap Dropped = {}
              PROVE  Destination(newChunk[n]) = OffsetOf(newChunk, newChunk[n].aim)
  BY <1>1 DEF ShortJumpsKept, Jumps
<1>. DEFINE o == newChunk[n].from
            a == newChunk[n].aim
            d == newChunk[n].operand
            at == newChunk[n].at
<1>2. /\ ip = Len(chunk) + 1 /\ \A l \in 1 .. Len(chunk) : l \in Dropped <=> Gone(l)
      /\ Laid(newChunk) /\ Laid(chunk)
  BY DroppedAreGone DEF IInv, Passed
<1>3. /\ o \in 1 .. Len(chunk) /\ ~Gone(o) /\ newChunk[n].op = chunk[o].op
      /\ chunk[o].operand = d /\ chunk[o].aim = a /\ at \in Nat /\ d \in Nat /\ chunk[o].at \in Nat
  <2>1. /\ o \in 1 .. Len(chunk) /\ ~Gone(o) /\ newChunk[n].op = chunk[o].op
        /\ chunk[o].operand = d /\ chunk[o].aim = a
    BY <1>2, PassFacts
  <2>. QED
    BY <1>1, <2>1, InstructionFacts
<1>4. IsJump(chunk[o]) /\ Size(chunk[o].op) = 3
  BY <1>3, Sizes DEF IsJump
<1>5. /\ a \in 1 .. Len(chunk) + 1
      /\ Destination(chunk[o]) = End(chunk, a - 1)
      /\ IF chunk[o].op = "loop" THEN a <= o ELSE a > o
  BY <1>3, <1>4, CompiledJump DEF Target
<1>. HIDE DEF o, a, d, at
<1>6. CASE chunk[o].op = "loop"
  <2>1. \A l \in a .. o : l \in 1 .. Len(chunk) /\ ~Gone(l)
    <3>1. Span(newChunk[n]) = a .. o
      BY <1>3, <1>6 DEF Span, a, o
    <3>2. \A l \in a .. o : l \in 1 .. Len(chunk)
      BY <1>1, <1>3, <1>5
    <3>. QED
      BY <1>2, <3>1, <3>2
  <2>2. a \in 1 .. ip - 1 /\ a \in a .. o /\ a \in 1 .. Len(chunk)
    BY <1>1, <1>2, <1>3, <1>5, <1>6
  <2>3. PICK p \in 1 .. M : newChunk[p].from = a
    BY <2>1, <2>2, PassFacts
  <2>4. p <= n
    BY <1>5, <1>6, <2>3, CopiesInOrder DEF o
  <2>5. at - newChunk[p].at = chunk[o].at - chunk[a].at
    BY <2>1, <2>3, <2>4, CopiesApart DEF o, at
  <2>6. OffsetOf(newChunk, a) = newChunk[p].at
    <3>1. newChunk[p].from >= a
      BY <1>5, <2>3
    <3>2. ASSUME NEW k \in 1 .. M, newChunk[k].from >= a PROVE p <= k
      <4>1. newChunk[k].from \in 1 .. ip - 1
        BY PassFacts
      <4>2. newChunk[p].from <= newChunk[k].from
        BY <1>5, <2>3, <3>2, <4>1
      <4>. QED
        BY <4>2, CopiesInOrder
    <3>. QED
      BY <1>1, <3>1, <3>2, FirstOffset
  <2>7. chunk[a].at = End(chunk, a - 1) /\ chunk[a].at \in Nat /\ newChunk[p].at \in Nat
    BY <1>1, <1>2, <2>2, InstructionFacts DEF Laid
  <2>8. Destination(chunk[o]) = chunk[o].at + 3 - d /\ Destination(newChunk[n]) = at + 3 - d
    BY <1>3, <1>4, <1>6 DEF Destination, d, at
  <2>. DEFINE there == newChunk[p].at
              here == chunk[o].at
              aim == chunk[a].at
  <2>9. /\ there \in Nat /\ here \in Nat /\ aim \in Nat /\ at \in Nat /\ d \in Nat
        /\ here + 3 - d = aim /\ at - there = here - aim
    BY <1>3, <1>5, <2>5, <2>7, <2>8
  <2>10. Destination(newChunk[n]) = at + 3 - d /\ OffsetOf(newChunk, newChunk[n].aim) = there
    BY <2>6, <2>8 DEF a
  <2>. HIDE DEF there, here, aim
  <2>11. at + 3 - d = there
    BY <2>9
  <2>. QED
    BY <2>10, <2>11
<1>7. CASE chunk[o].op # "loop"
  <2>. DEFINE q == a - 1
  <2>1. q \in 1 .. Len(chunk) /\ q \in 1 .. ip - 1 /\ q \in o .. q /\ o <= q /\ a = q + 1
    BY <1>1, <1>2, <1>3, <1>5, <1>7
  <2>2. \A l \in o .. q : ~Gone(l)
    <3>1. Span(newChunk[n]) = o + 1 .. a - 1
      BY <1>3, <1>7 DEF Span, a, o
    <3>2. \A l \in o .. q : l = o \/ (l \in o + 1 .. a - 1 /\ l \in 1 .. Len(chunk))
      BY <1>1, <1>3, <2>1
    <3>. QED
      BY <1>2, <1>3, <3>1, <3>2
  <2>. HIDE DEF q
  <2>3. PICK p \in 1 .. M : newChunk[p].from = q
    BY <2>1, <2>2, PassFacts
  <2>4. n <= p
    BY <2>1, <2>3, CopiesInOrder DEF o
  <2>5. newChunk[p].at - at = chunk[q].at - chunk[o].at
    BY <2>2, <2>3, <2>4, CopiesApart DEF o, at
  <2>. DEFINE size == Size(chunk[q].op)
  <2>6. /\ End(chunk, q) = chunk[q].at + size /\ End(newChunk, p) = newChunk[p].at + size
        /\ size \in Nat /\ chunk[q].at \in Nat /\ newChunk[p].at \in Nat
    <3>1. newChunk[p].op = chunk[q].op
      BY <2>3, PassFacts
    <3>. QED
      BY <1>1, <2>1, <3>1, InstructionFacts, Sizes
  <2>7. OffsetOf(newChunk, a) = End(newChunk, p)
    <3>1. ASSUME NEW k \in 1 .. M
          PROVE  newChunk[k].from >= a <=> ~(k <= p)
      <4>1. newChunk[k].from \in 1 .. ip - 1 /\ (newChunk[k].from <= q <=> k <= p)
        BY <2>3, CopiesInOrder, PassFacts
      <4>. QED
        BY <1>1, <1>2, <2>1, <4>1
    <3>2. CASE p = M
      <4>1. \A k \in 1 .. M : ~(newChunk[k].from >= a)
        BY <1>1, <3>1, <3>2
      <4>. QED
        BY <1>1, <3>2, <4>1, EndOffset
    <3>3. CASE p # M
      <4>1. p + 1 \in 1 .. M /\ ~(p + 1 <= p) /\ (p + 1) - 1 = p
        <5>1. M \in Nat /\ p \in 1 .. M
          BY <1>1
        <5>. HIDE DEF M
        <5>. QED
          BY <3>3, <5>1
      <4>2. newChunk[p + 1].from >= a /\ \A k \in 1 .. M : newChunk[k].from >= a => p + 1 <= k
        BY <1>1, <3>1, <4>1
      <4>3. OffsetOf(newChunk, a) = newChunk[p + 1].at
        BY <1>1, <4>1, <4>2, FirstOffset
      <4>. QED
        BY <1>2, <4>1, <4>3 DEF Laid
    <3>. QED
      BY <3>2, <3>3
  <2>8. Destination(chunk[o]) = chunk[o].at + 3 + d /\ Destination(newChunk[n]) = at + 3 + d
    BY <1>3, <1>4, <1>7 DEF Destination, d, at
  <2>9. chunk[o].at + 3 + d = chunk[q].at + size
    BY <1>5, <2>6, <2>8 DEF q
  <2>. DEFINE there == newChunk[p].at
              here == chunk[o].at
              last == chunk[q].at
  <2>10. /\ there \in Nat /\ here \in Nat /\ last \in Nat /\ at \in Nat /\ d \in Nat /\ size \in Nat
         /\ here + 3 + d = last + size /\ there - at = last - here
    BY <1>3, <2>5, <2>6, <2>9
  <2>11. /\ Destination(newChunk[n]) = at + 3 + d
         /\ OffsetOf(newChunk, newChunk[n].aim) = there + size
    BY <2>6, <2>7, <2>8 DEF a
  <2>. HIDE DEF there, here, last, size
  <2>12. at + 3 + d = there + size
    BY <2>10
  <2>. QED
    BY <2>11, <2>12
<1>. QED
  BY <1>6, <1>7

\* The pass moves a jump and what it is meant for alike when it drops nothing between
\* them, and the jump still lands there (compiler.c:1001-1040).
THEOREM ShortJumpsLand ==
    Spec => []ShortJumpsKept
<1>1. IInv => ShortJumpsKept
  BY ShortJumpsFollow
<1>. QED
  BY <1>1, ChunkInvariance, PTL
================================================================================
