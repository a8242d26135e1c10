------------------------------ MODULE CellsProofs ------------------------------
(***************************************************************************)
(* Proofs about Upvalues, continued: the values of variables.  Slots,      *)
(* upvalues and cells agree in every program whose blocks end as           *)
(* MirroredEnds says, for every stack size and every number of frames,     *)
(* blocks, variables and closures.                                         *)
(***************************************************************************)
EXTENDS UpvaluesProofs

--------------------------------------------------------------------------------
(* Facts about the state *)

LEMMA FrameTypes ==
    ASSUME TypeOK, NEW f \in 1 .. Len(frames)
    PROVE  /\ frames[f] \in Frames /\ frames[f].slots \in Nat
           /\ frames[f].locals \in Seq(Locals) /\ Len(frames[f].locals) \in Nat
           /\ \A j \in 1 .. Len(frames[f].locals) :
                /\ frames[f].locals[j].cell \in Nat
                /\ frames[f].locals[j].captured \in BOOLEAN
           /\ frames[f].upvalues \in Seq(Captures)
<1>1. frames[f] \in Frames
  BY ElementOfSeq DEF TypeOK
<1>2. frames[f].locals \in Seq(Locals)
  BY <1>1 DEF Frames
<1>3. \A j \in 1 .. Len(frames[f].locals) : frames[f].locals[j] \in Locals
  BY <1>2, ElementOfSeq
<1>. QED
  BY <1>1, <1>2, <1>3, LenProperties DEF Frames, Locals

\* A local of the running function or of one below it.
LEMMA LiveFacts ==
    ASSUME TypeOK, FramesApart, NEW a \in Live
    PROVE  /\ a.slot \in Nat /\ a.cell \in Nat /\ a.captured \in BOOLEAN
           /\ a = [slot |-> a.slot, cell |-> a.cell, captured |-> a.captured]
           /\ a.slot < Top.slots + Len(Top.locals)
           /\ a.slot < Top.slots
                \/ \E j \in 1 .. Len(Top.locals) :
                      /\ a.slot = SlotOf(j) /\ a.cell = Top.locals[j].cell
                      /\ a.captured = Top.locals[j].captured
<1>0. PICK f \in 1 .. Len(frames) : \E j \in 1 .. Len(frames[f].locals) :
         a = [slot |-> frames[f].slots + j - 1, cell |-> frames[f].locals[j].cell,
              captured |-> frames[f].locals[j].captured]
  BY DEF Live
<1>1. PICK j \in 1 .. Len(frames[f].locals) :
         a = [slot |-> frames[f].slots + j - 1, cell |-> frames[f].locals[j].cell,
              captured |-> frames[f].locals[j].captured]
  BY <1>0
<1>2. /\ frames[f].slots \in Nat /\ Len(frames[f].locals) \in Nat
      /\ frames[f].locals[j].cell \in Nat /\ frames[f].locals[j].captured \in BOOLEAN
  BY FrameTypes
<1>3. a.slot = frames[f].slots + j - 1 /\ a.slot \in Nat
  BY <1>1, <1>2
<1>4. Top.slots \in Nat /\ Len(Top.locals) \in Nat /\ Len(frames) \in Nat \ {0}
  BY TopTypes
<1>5. CASE f = Len(frames)
  BY <1>1, <1>2, <1>3, <1>4, <1>5 DEF Top, Last, SlotOf
<1>6. CASE f # Len(frames)
  <2>1. frames[f].slots + Len(frames[f].locals) <= Top.slots
    BY <1>4, <1>6 DEF FramesApart, Top, Last
  <2>2. a.slot < Top.slots
    BY <1>2, <1>3, <1>4, <2>1
  <2>3. Top.slots <= Top.slots + Len(Top.locals)
    BY <1>4
  <2>. QED
    BY <1>1, <1>2, <1>3, <1>4, <2>2, <2>3
<1>. QED
  BY <1>5, <1>6

LEMMA LiveHas ==
    ASSUME NEW f \in 1 .. Len(frames), NEW j \in 1 .. Len(frames[f].locals)
    PROVE  [slot |-> frames[f].slots + j - 1, cell |-> frames[f].locals[j].cell,
            captured |-> frames[f].locals[j].captured] \in Live
<1>1. [slot |-> frames[f].slots + j - 1, cell |-> frames[f].locals[j].cell,
       captured |-> frames[f].locals[j].captured]
        \in {[slot |-> frames[f].slots + k - 1, cell |-> frames[f].locals[k].cell,
              captured |-> frames[f].locals[k].captured] : k \in 1 .. Len(frames[f].locals)}
  OBVIOUS
<1>. QED
  BY <1>1 DEF Live

LEMMA TopLive ==
    ASSUME TypeOK, NEW j \in 1 .. Len(Top.locals)
    PROVE  [slot |-> SlotOf(j), cell |-> Top.locals[j].cell,
            captured |-> Top.locals[j].captured] \in Live
<1>1. Len(frames) \in 1 .. Len(frames) /\ frames[Len(frames)] = Top
  BY TopTypes DEF Top, Last
<1>. QED
  BY <1>1, LiveHas DEF SlotOf

LEMMA HeldFacts ==
    ASSUME TypeOK, NEW p \in Held
    PROVE  p.upvalue \in Made /\ p.cell \in Nat
<1>1. CASE \E f \in 1 .. Len(frames) : p \in Range(frames[f].upvalues)
  <2>1. PICK f \in 1 .. Len(frames) : p \in Range(frames[f].upvalues)
    BY <1>1
  <2>2. frames[f].upvalues \in Seq(Captures)
    BY FrameTypes
  <2>3. p \in Captures
    BY <2>1, <2>2, LenProperties, ElementOfSeq DEF Range
  <2>. QED
    BY <2>3 DEF Captures, Made
<1>2. CASE p \in Range(building.upvalues)
  <2>1. p \in Captures
    BY <1>2, BuildingType, LenProperties, ElementOfSeq DEF Range
  <2>. QED
    BY <2>1 DEF Captures, Made
<1>3. CASE \E k \in 1 .. Len(closures) : p \in Range(closures[k].upvalues)
  <2>1. PICK k \in 1 .. Len(closures) : p \in Range(closures[k].upvalues)
    BY <1>3
  <2>2. p \in Captures
    BY <2>1, UpvaluesOfClosure, LenProperties, ElementOfSeq DEF Range
  <2>. QED
    BY <2>2 DEF Captures, Made
<1>. QED
  BY <1>1, <1>2, <1>3 DEF Held

\* Where the stack ends: between statements at the last local, and while a function
\* with a name is made, one below.
LEMMA StackEnds ==
    ASSUME IInv, Ready \/ building.on
    PROVE  /\ sp + One(building.named) = Top.slots + Len(Top.locals)
           /\ drops = << >> /\ Len(drops) = 0 /\ after = "none"
           /\ (Ready => ~building.named)
<1>1. drops = << >> /\ after = "none" /\ (Ready => ~building.named)
  BY DEF Ready, IInv, Balanced, Pending
<1>2. Len(drops) = 0
  BY <1>1
<1>. QED
  BY <1>1, <1>2, TopTypes DEF IInv, Balanced, StackAccounted, One

\* No two open upvalues point at one slot.
LEMMA OneUpvaluePerSlot ==
    ASSUME IInv, NEW u \in Made, NEW v \in Made, location[u] = location[v], location[u] # Own
    PROVE  u = v
<1>1. /\ Len(open) \in Nat /\ DOMAIN location = Made
      /\ \A m \in 1 .. Len(open) : open[m] \in Made
      /\ \A w \in Made : location[w] \in 0 .. StackSize - 1 \cup {Own}
  BY CountsAreNaturals DEF IInv
<1>2. PICK m \in 1 .. Len(open) : open[m] = u
  BY <1>1 DEF IInv, OpenListed
<1>3. PICK n \in 1 .. Len(open) : open[n] = v
  BY <1>1 DEF IInv, OpenListed
<1>4. location[u] \in Int /\ location[v] \in Int
  BY <1>1 DEF Own
<1>5. ~(m < n) /\ ~(n < m)
  BY <1>2, <1>3, <1>4 DEF IInv, OpenSorted
<1>6. m = n
  BY <1>5
<1>. QED
  BY <1>2, <1>3, <1>6

--------------------------------------------------------------------------------
(* How the locals and the captures change *)

\* Steps that add no local: the frames that are left keep their slots and, of their
\* locals, the first.
LEMMA LiveKept ==
    ASSUME TypeOK, TypeOK', FramesApart, Len(frames') <= Len(frames),
           \A f \in 1 .. Len(frames') :
              /\ frames'[f].slots = frames[f].slots
              /\ Len(frames'[f].locals) <= Len(frames[f].locals)
              /\ \A j \in 1 .. Len(frames'[f].locals) :
                   frames'[f].locals[j] = frames[f].locals[j]
    PROVE  Live' \subseteq Live /\ FramesApart'
<1>1. Len(frames) \in Nat /\ Len(frames') \in Nat
  BY LenProperties DEF TypeOK
<1>2. \A f \in 1 .. Len(frames') :
        /\ f \in 1 .. Len(frames)
        /\ frames[f].slots \in Nat /\ Len(frames[f].locals) \in Nat
        /\ Len(frames'[f].locals) \in Nat
  <2>. SUFFICES ASSUME NEW f \in 1 .. Len(frames')
                PROVE  /\ f \in 1 .. Len(frames)
                       /\ frames[f].slots \in Nat /\ Len(frames[f].locals) \in Nat
                       /\ Len(frames'[f].locals) \in Nat
    OBVIOUS
  <2>1. f \in 1 .. Len(frames)
    BY <1>1
  <2>2. frames'[f] \in Frames'
    BY ElementOfSeq DEF TypeOK
  <2>3. Len(frames'[f].locals) \in Nat
    BY <2>2, LenProperties DEF Frames
  <2>. QED
    BY <2>1, <2>3, FrameTypes
<1>3. ASSUME NEW a \in Live' PROVE a \in Live
  <2>1. PICK f \in 1 .. Len(frames') : \E j \in 1 .. Len(frames'[f].locals) :
           a = [slot |-> frames'[f].slots + j - 1, cell |-> frames'[f].locals[j].cell,
                captured |-> frames'[f].locals[j].captured]
    BY DEF Live
  <2>2. PICK j \in 1 .. Len(frames'[f].locals) :
           a = [slot |-> frames'[f].slots + j - 1, cell |-> frames'[f].locals[j].cell,
                captured |-> frames'[f].locals[j].captured]
    BY <2>1
  <2>3. f \in 1 .. Len(frames) /\ j \in 1 .. Len(frames[f].locals)
    BY <1>2
  <2>4. a = [slot |-> frames[f].slots + j - 1, cell |-> frames[f].locals[j].cell,
             captured |-> frames[f].locals[j].captured]
    BY <2>2
  <2>. QED
    BY <2>3, <2>4, LiveHas
<1>4. FramesApart'
  <2>. SUFFICES ASSUME NEW f \in 1 .. Len(frames'), NEW g \in 1 .. Len(frames'), f < g
                PROVE  frames'[f].slots + Len(frames'[f].locals) <= frames'[g].slots
    BY DEF FramesApart
  <2>1. /\ f \in 1 .. Len(frames) /\ g \in 1 .. Len(frames)
        /\ frames[f].slots \in Nat /\ Len(frames[f].locals) \in Nat
        /\ Len(frames'[f].locals) \in Nat /\ frames[g].slots \in Nat
    BY <1>2
  <2>2. frames[f].slots + Len(frames[f].locals) <= frames[g].slots
    BY <2>1 DEF FramesApart
  <2>3. /\ frames'[f].slots = frames[f].slots /\ frames'[g].slots = frames[g].slots
        /\ Len(frames'[f].locals) <= Len(frames[f].locals)
    OBVIOUS
  <2>. QED
    BY SMTT(30), <2>1, <2>2, <2>3
<1>. QED
  BY <1>3, <1>4

LEMMA LiveSame ==
    ASSUME FramesApart, UNCHANGED frames
    PROVE  Live' = Live /\ FramesApart'
BY DEF Live, FramesApart

\* A frame or a local above all others.
NewLocal(captured) == [slot |-> sp, cell |-> Len(cells) + 1, captured |-> captured]

LEMMA LiveAdded ==
    ASSUME IInv, FramesApart, Ready, NEW captured \in BOOLEAN, AddLocal(captured)
    PROVE  Live' \subseteq Live \cup {NewLocal(captured)} /\ FramesApart'
<1>. DEFINE local == Local(captured, Len(cells) + 1)
            locals == Append(Top.locals, local)
            f == [Top EXCEPT !.locals = locals]
            last == Len(frames)
<1>1. /\ last \in Nat \ {0} /\ frames[last] = Top
      /\ Len(Top.locals) \in Nat /\ Top.slots \in Nat /\ Len(cells) \in Nat
  BY TopTypes, CountsAreNaturals DEF IInv, Top, Last
<1>2. local \in Locals /\ local.cell = Len(cells) + 1 /\ local.captured = captured
  BY <1>1 DEF Local, Locals
<1>. HIDE DEF local
<1>3. /\ locals \in Seq(Locals) /\ Len(locals) = Len(Top.locals) + 1
      /\ locals[Len(Top.locals) + 1] = local
      /\ \A j \in 1 .. Len(Top.locals) : locals[j] = Top.locals[j]
  BY <1>2, TopTypes, AppendProperties DEF IInv
<1>. HIDE DEF locals
<1>4. f \in Frames /\ f.slots = Top.slots /\ f.locals = locals
  BY <1>3, TopTypes, FrameWithLocals DEF IInv
<1>5. SetTop(f)
  BY DEF AddLocal, local, locals
<1>. HIDE DEF f
<1>6. /\ Len(frames') = last
      /\ frames'[last] = f
      /\ \A g \in 1 .. last : g # last => frames'[g] = frames[g]
  BY <1>1, <1>4, <1>5, SetTopKeeps DEF IInv, Top, Last
<1>7. sp = Top.slots + Len(Top.locals)
  BY <1>1, StackEnds DEF One, IInv, TypeOK
<1>. HIDE DEF last
<1>8. ASSUME NEW a \in Live' PROVE a \in Live \cup {NewLocal(captured)}
  <2>1. PICK g \in 1 .. Len(frames') : \E j \in 1 .. Len(frames'[g].locals) :
           a = [slot |-> frames'[g].slots + j - 1, cell |-> frames'[g].locals[j].cell,
                captured |-> frames'[g].locals[j].captured]
    BY DEF Live
  <2>2. PICK j \in 1 .. Len(frames'[g].locals) :
           a = [slot |-> frames'[g].slots + j - 1, cell |-> frames'[g].locals[j].cell,
                captured |-> frames'[g].locals[j].captured]
    BY <2>1
  <2>3. CASE g = last /\ j = Len(Top.locals) + 1
    <3>1. a = [slot |-> Top.slots + j - 1, cell |-> local.cell, captured |-> local.captured]
      BY <1>3, <1>4, <1>6, <2>2, <2>3
    <3>2. Top.slots + j - 1 = sp
      BY <1>1, <1>7, <2>3
    <3>. QED
      BY <1>2, <3>1, <3>2 DEF NewLocal
  <2>4. CASE g # last \/ j # Len(Top.locals) + 1
    <3>1. /\ g \in 1 .. Len(frames) /\ j \in 1 .. Len(frames[g].locals)
          /\ frames'[g].slots = frames[g].slots /\ frames'[g].locals[j] = frames[g].locals[j]
      BY SMTT(30), <1>1, <1>3, <1>4, <1>6, <2>4 DEF last
    <3>2. a = [slot |-> frames[g].slots + j - 1, cell |-> frames[g].locals[j].cell,
               captured |-> frames[g].locals[j].captured]
      BY <2>2, <3>1
    <3>. QED
      BY <3>1, <3>2, LiveHas
  <2>. QED
    BY <2>3, <2>4
<1>9. FramesApart'
  <2>. SUFFICES ASSUME NEW g \in 1 .. last, NEW h \in 1 .. last, g < h
                PROVE  frames'[g].slots + Len(frames'[g].locals) <= frames'[h].slots
    BY <1>6 DEF FramesApart
  <2>1. g # last
    BY <1>1
  <2>2. frames[g].slots + Len(frames[g].locals) <= frames[h].slots
    BY DEF FramesApart, last
  <2>. QED
    BY <1>1, <1>4, <1>6, <2>1, <2>2
<1>. QED
  BY <1>8, <1>9

LEMMA LiveCalled ==
    ASSUME IInv, FramesApart, Ready \/ building.on, ~building.named,
           NEW params \in Seq(Locals), NEW upvalues \in Seq(Captures),
           params = << >> \/ params = <<Local(TRUE, Len(cells) + 1)>>,
           frames' = Append(frames, Frame(sp, params, upvalues))
    PROVE  /\ Live' \subseteq Live \cup
                IF params = << >> THEN {} ELSE {NewLocal(TRUE)}
           /\ FramesApart'
<1>. DEFINE f == Frame(sp, params, upvalues)
            last == Len(frames)
<1>1. /\ last \in Nat \ {0} /\ frames[last] = Top /\ sp \in Nat
      /\ Len(Top.locals) \in Nat /\ Top.slots \in Nat /\ Len(cells) \in Nat
  BY TopTypes, CountsAreNaturals DEF IInv, Top, Last
<1>2. /\ f.slots = sp /\ f.locals = params
      /\ f \in Frames
  <2>1. Len(params) \in Nat
    BY LenProperties
  <2>2. <<Len(params)>> \in Seq(Nat)
    BY <2>1
  <2>. QED
    BY <1>1, <2>2 DEF Frame, Frames
<1>. HIDE DEF f
<1>3. /\ Len(frames') = last + 1
      /\ frames'[last + 1] = f
      /\ \A g \in 1 .. last : frames'[g] = frames[g]
  <2>1. frames' = Append(frames, f)
    BY DEF f
  <2>. QED
    BY <1>2, <2>1, AppendProperties DEF IInv, TypeOK
<1>4. sp = Top.slots + Len(Top.locals)
  BY <1>1, StackEnds DEF One, IInv, TypeOK
<1>. HIDE DEF last
<1>5. ASSUME NEW a \in Live' PROVE a \in Live \cup IF params = << >> THEN {} ELSE {NewLocal(TRUE)}
  <2>1. PICK g \in 1 .. Len(frames') : \E j \in 1 .. Len(frames'[g].locals) :
           a = [slot |-> frames'[g].slots + j - 1, cell |-> frames'[g].locals[j].cell,
                captured |-> frames'[g].locals[j].captured]
    BY DEF Live
  <2>2. PICK j \in 1 .. Len(frames'[g].locals) :
           a = [slot |-> frames'[g].slots + j - 1, cell |-> frames'[g].locals[j].cell,
                captured |-> frames'[g].locals[j].captured]
    BY <2>1
  <2>3. CASE g = last + 1
    <3>0. frames'[g].locals = params /\ frames'[g].slots = sp
      BY <1>2, <1>3, <2>3
    <3>1. params # << >> /\ params = <<Local(TRUE, Len(cells) + 1)>>
      <4>. SUFFICES ASSUME params = << >> PROVE FALSE
        OBVIOUS
      <4>1. Len(params) = 0
        OBVIOUS
      <4>. QED
        BY <3>0, <4>1
    <3>2. j = 1
      <4>1. Len(params) = 1
        BY <3>1
      <4>. QED
        BY <3>0, <4>1
    <3>3. frames'[g].slots + j - 1 = sp
      BY <1>1, <3>0, <3>2
    <3>4. a = [slot |-> sp, cell |-> params[1].cell, captured |-> params[1].captured]
      BY <2>2, <3>0, <3>2, <3>3
    <3>5. params[1] = [captured |-> TRUE, cell |-> Len(cells) + 1]
      BY <3>1 DEF Local
    <3>6. a = NewLocal(TRUE)
      BY <3>4, <3>5 DEF NewLocal
    <3>. QED
      BY <3>1, <3>6
  <2>4. CASE g # last + 1
    <3>1. g \in 1 .. Len(frames) /\ frames'[g] = frames[g]
      BY <1>1, <1>3, <2>4 DEF last
    <3>2. a = [slot |-> frames[g].slots + j - 1, cell |-> frames[g].locals[j].cell,
               captured |-> frames[g].locals[j].captured]
      BY <2>2, <3>1
    <3>. QED
      BY <3>1, <3>2, LiveHas
  <2>. QED
    BY <2>3, <2>4
<1>6. FramesApart'
  <2>. SUFFICES ASSUME NEW g \in 1 .. last + 1, NEW h \in 1 .. last + 1, g < h
                PROVE  frames'[g].slots + Len(frames'[g].locals) <= frames'[h].slots
    BY <1>3 DEF FramesApart
  <2>1. g \in 1 .. last /\ frames'[g] = frames[g]
    BY <1>1, <1>3
  <2>2. CASE h \in 1 .. last
    <3>1. frames[g].slots + Len(frames[g].locals) <= frames[h].slots
      BY <2>1, <2>2 DEF FramesApart, last
    <3>. QED
      BY <1>3, <2>1, <2>2, <3>1
  <2>3. CASE h = last + 1
    <3>1. frames[g].slots + Len(frames[g].locals) <= sp
      <4>1. CASE g = last
        BY <1>1, <1>4, <4>1
      <4>2. CASE g < last
        <5>1. frames[g].slots + Len(frames[g].locals) <= Top.slots
          BY <1>1, <2>1, <4>2 DEF FramesApart, last
        <5>2. frames[g].slots \in Nat /\ Len(frames[g].locals) \in Nat
          BY <2>1, FrameTypes DEF IInv, last
        <5>3. Top.slots <= sp
          BY <1>1, <1>4
        <5>. QED
          BY SMTT(30), <1>1, <5>1, <5>2, <5>3
      <4>. QED
        BY <1>1, <2>1, <4>1, <4>2
    <3>. QED
      BY <1>2, <1>3, <2>1, <2>3, <3>1
  <2>4. h \in 1 .. last \/ h = last + 1
    BY <1>1
  <2>. QED
    BY <2>2, <2>3, <2>4
<1>. QED
  BY <1>5, <1>6

\* The captures of a state that has those of S only.
LEMMA HeldWithin ==
    ASSUME NEW S,
           \A f \in 1 .. Len(frames') : Range(frames'[f].upvalues) \subseteq S,
           Range(building'.upvalues) \subseteq S,
           \A k \in 1 .. Len(closures') : Range(closures'[k].upvalues) \subseteq S
    PROVE  Held' \subseteq S
BY DEF Held

LEMMA HeldHas ==
    /\ \A f \in 1 .. Len(frames) : Range(frames[f].upvalues) \subseteq Held
    /\ Range(building.upvalues) \subseteq Held
    /\ \A k \in 1 .. Len(closures) : Range(closures[k].upvalues) \subseteq Held
BY DEF Held

LEMMA HeldSame ==
    ASSUME UNCHANGED <<frames, building, closures>>
    PROVE  Held' = Held
BY DEF Held

--------------------------------------------------------------------------------
(* What steps do to values *)

\* Steps that write nothing, add no local and no capture.
LEMMA QuietKeeps ==
    ASSUME IInv, CellInv, Live' \subseteq Live, Held' \subseteq Held, FramesApart',
           UNCHANGED <<stack, sp, cells, location, closed>>,
           \A u \in Made :
              /\ location[u] < sp + One(building'.named)
              /\ \A m \in 1 .. Len(drops') : location[u] = sp - m => drops'[m] = "close"
    PROVE  CellInv'
<1>1. LocalsAreCells'
  BY DEF CellInv, LocalsAreCells
<1>2. CapturesAreCells'
  BY DEF CellInv, CapturesAreCells, Deref
<1>3. OpenWillClose'
  BY DEF CellInv, OpenWillClose, Made
<1>. QED
  BY <1>1, <1>2, <1>3 DEF CellInv

\* The same, when the compiler has dropped nothing.
LEMMA QuietStatement ==
    ASSUME IInv, CellInv, Live' \subseteq Live, Held' \subseteq Held, FramesApart',
           UNCHANGED <<stack, sp, cells, location, closed, drops>>,
           building'.named = building.named
    PROVE  CellInv'
<1>1. \A u \in Made :
        /\ location[u] < sp + One(building'.named)
        /\ \A m \in 1 .. Len(drops') : location[u] = sp - m => drops'[m] = "close"
  BY DEF CellInv, OpenWillClose, Made
<1>. QED
  BY <1>1, QuietKeeps

\* A new variable: a local above all others, whose value is pushed now, or will be
\* once its function is made.
LEMMA GrowKeeps ==
    ASSUME IInv, CellInv, Ready \/ building.on, ~building.named,
           NEW captured \in BOOLEAN, NEW v \in Values,
           Live' \subseteq Live \cup {NewLocal(captured)}, Held' \subseteq Held, FramesApart',
           cells' = Append(cells, v), UNCHANGED <<location, closed, drops>>,
           \/ stack' = [stack EXCEPT ![sp] = v] /\ sp' = sp + 1 /\ sp < StackSize
           \/ UNCHANGED <<stack, sp>> /\ v = Function /\ building'.named
    PROVE  CellInv'
<1>1. /\ Len(cells) \in Nat /\ sp \in Nat /\ cells \in Seq(Values)
      /\ stack \in [0 .. StackSize - 1 -> Values] /\ StackSize \in Nat
      /\ Len(location) \in Nat
      /\ \A u \in Made : location[u] \in Int /\ location[u] < StackSize
  BY CountsAreNaturals, BoundAssumption DEF IInv, TypeOK, Own
<1>2. /\ Len(cells') = Len(cells) + 1
      /\ cells'[Len(cells) + 1] = v
      /\ \A c \in 1 .. Len(cells) : cells'[c] = cells[c]
  BY <1>1, AppendProperties
<1>3. /\ \A a \in Live : a.slot \in Nat /\ a.slot < sp /\ a.cell \in 1 .. Len(cells)
      /\ \A u \in Made : location[u] < sp
      /\ drops = << >> /\ Len(drops) = 0
  <2>1. sp = Top.slots + Len(Top.locals) /\ drops = << >> /\ Len(drops) = 0
    BY <1>1, StackEnds DEF One
  <2>2. \A a \in Live : a.slot \in Nat /\ a.slot < sp
    BY <2>1, LiveFacts DEF IInv, CellInv
  <2>3. \A u \in Made : location[u] < sp + 0
    BY DEF CellInv, OpenWillClose, Made, One
  <2>. QED
    BY <1>1, <2>1, <2>2, <2>3 DEF CellInv, LocalsAreCells
<1>4. \A s \in 0 .. StackSize - 1 : s # sp => stack'[s] = stack[s]
  BY <1>1
<1>5. sp <= sp' /\ sp' \in Nat
  BY <1>1
<1>. DEFINE new == NewLocal(captured)
<1>6. new.slot = sp /\ new.cell = Len(cells) + 1 /\ new \notin Live
  BY <1>1, <1>3 DEF NewLocal
<1>7. cells'[new.cell] = IF new.slot < sp' THEN stack'[new.slot] ELSE Function
  BY <1>1, <1>2, <1>6
<1>. HIDE DEF new
<1>8. \A a \in Live : cells'[a.cell] = IF a.slot < sp' THEN stack'[a.slot] ELSE Function
  <2>. SUFFICES ASSUME NEW a \in Live
                PROVE  cells'[a.cell] = IF a.slot < sp' THEN stack'[a.slot] ELSE Function
    OBVIOUS
  <2>1. a.slot \in Nat /\ a.slot < sp /\ a.cell \in 1 .. Len(cells) /\ sp <= StackSize
    BY <1>3 DEF IInv, TypeOK
  <2>2. cells[a.cell] = stack[a.slot]
    BY <2>1 DEF CellInv, LocalsAreCells
  <2>3. stack'[a.slot] = stack[a.slot] /\ a.slot < sp'
    BY <1>1, <1>4, <1>5, <2>1
  <2>. QED
    BY <1>2, <2>1, <2>2, <2>3
<1>9. LocalsAreCells'
  <2>. SUFFICES ASSUME NEW a \in Live'
                PROVE  /\ a.cell \in 1 .. Len(cells')
                       /\ cells'[a.cell] = IF a.slot < sp' THEN stack'[a.slot] ELSE Function
                       /\ \A b \in Live' : a.cell = b.cell \/ a.slot = b.slot => a = b
    BY DEF LocalsAreCells
  <2>1. a \in Live \/ a = new
    BY DEF new
  <2>2. a.cell \in 1 .. Len(cells')
    BY <1>1, <1>2, <1>3, <1>6, <2>1
  <2>3. cells'[a.cell] = IF a.slot < sp' THEN stack'[a.slot] ELSE Function
    BY <1>7, <1>8, <2>1
  <2>4. ASSUME NEW b \in Live', a.cell = b.cell \/ a.slot = b.slot PROVE a = b
    <3>1. b \in Live \/ b = new
      BY DEF new
    <3>2. CASE a \in Live /\ b \in Live
      BY <2>4, <3>2 DEF CellInv, LocalsAreCells
    <3>3. ~(a \in Live /\ b = new) /\ ~(a = new /\ b \in Live)
      BY <1>1, <1>3, <1>6, <2>4
    <3>. QED
      BY <2>1, <3>1, <3>2, <3>3
  <2>. QED
    BY <2>2, <2>3, <2>4
<1>10. CapturesAreCells'
  <2>. SUFFICES ASSUME NEW p \in Held'
                PROVE  /\ p.cell \in 1 .. Len(cells')
                       /\ location'[p.upvalue] < sp' => Deref(p.upvalue)' = cells'[p.cell]
                       /\ \A q \in Held' : p.cell = q.cell <=> p.upvalue = q.upvalue
                       /\ \A a \in Live' : a.cell = p.cell <=> a.slot = location'[p.upvalue]
    BY DEF CapturesAreCells
  <2>1. /\ p \in Held /\ p.upvalue \in Made
        /\ p.cell \in 1 .. Len(cells)
        /\ \A q \in Held : p.cell = q.cell <=> p.upvalue = q.upvalue
        /\ \A a \in Live : a.cell = p.cell <=> a.slot = location[p.upvalue]
    BY HeldFacts DEF IInv, CellInv, CapturesAreCells
  <2>2. location[p.upvalue] < sp
    BY <1>3, <2>1
  <2>3. Deref(p.upvalue) = cells[p.cell]
    BY <2>1, <2>2 DEF CellInv, CapturesAreCells
  <2>4. Deref(p.upvalue)' = Deref(p.upvalue)
    <3>1. CASE location[p.upvalue] = Own
      BY <3>1 DEF Deref
    <3>2. CASE location[p.upvalue] # Own
      <4>1. location[p.upvalue] \in 0 .. StackSize - 1 /\ location[p.upvalue] # sp
        BY <2>1, <2>2, <3>2, CountsAreNaturals DEF IInv
      <4>. QED
        BY <1>4, <3>2, <4>1 DEF Deref
    <3>. QED
      BY <3>1, <3>2
  <2>5. p.cell \in 1 .. Len(cells') /\ cells'[p.cell] = cells[p.cell]
    BY <1>1, <1>2, <2>1
  <2>6. ASSUME NEW a \in Live' PROVE a.cell = p.cell <=> a.slot = location'[p.upvalue]
    <3>1. CASE a \in Live
      BY <2>1, <3>1
    <3>2. CASE a = new
      BY <1>1, <1>6, <2>1, <2>2, <3>2
    <3>. QED
      BY <3>1, <3>2 DEF new
  <2>. QED
    BY <2>1, <2>3, <2>4, <2>5, <2>6
<1>11. OpenWillClose'
  <2>. SUFFICES ASSUME NEW u \in Made
                PROVE  /\ location[u] < sp' + One(building'.named)
                       /\ \A a \in Live' : a.slot = location[u] => a.captured
    BY <1>3 DEF OpenWillClose, Made
  <2>1. location[u] < sp' + One(building'.named)
    BY <1>1, <1>3, <1>5 DEF One
  <2>2. ASSUME NEW a \in Live', a.slot = location[u] PROVE a.captured
    <3>1. a # new
      BY <1>1, <1>3, <1>6, <2>2
    <3>2. a \in Live
      BY <3>1 DEF new
    <3>. QED
      BY <2>2, <3>2 DEF CellInv, OpenWillClose, Made
  <2>. QED
    BY <2>1, <2>2
<1>. QED
  BY <1>9, <1>10, <1>11 DEF CellInv

\* A push that gives no variable a value but the one that waits for it.
LEMMA PushKeepsCells ==
    ASSUME IInv, CellInv, NEW v \in Values,
           Live' \subseteq Live, Held' \subseteq Held, FramesApart',
           stack' = [stack EXCEPT ![sp] = v], sp' = sp + 1, sp < StackSize,
           UNCHANGED <<cells, location, closed, drops>>, drops = << >>,
           \A a \in Live : a.slot <= sp /\ (a.slot = sp => v = Function),
           \A p \in Held : location[p.upvalue] = sp => cells[p.cell] = v,
           \A u \in Made : location[u] <= sp
    PROVE  CellInv'
<1>1. /\ sp \in Nat /\ stack \in [0 .. StackSize - 1 -> Values] /\ StackSize \in Nat
      /\ Len(location) \in Nat
      /\ \A u \in Made : location[u] \in 0 .. StackSize - 1 \cup {Own}
      /\ \A a \in Live : a.slot \in Nat
  BY CountsAreNaturals, LiveFacts, BoundAssumption DEF IInv, TypeOK, CellInv
<1>2. stack'[sp] = v /\ \A s \in 0 .. StackSize - 1 : s # sp => stack'[s] = stack[s]
  BY <1>1
<1>3. LocalsAreCells'
  <2>. SUFFICES ASSUME NEW a \in Live
                PROVE  cells[a.cell] = IF a.slot < sp' THEN stack'[a.slot] ELSE Function
    BY DEF CellInv, LocalsAreCells
  <2>1. cells[a.cell] = IF a.slot < sp THEN stack[a.slot] ELSE Function
    BY DEF CellInv, LocalsAreCells
  <2>2. a.slot \in Nat /\ a.slot <= sp /\ a.slot < sp'
    BY <1>1
  <2>3. CASE a.slot = sp
    BY <1>1, <1>2, <2>1, <2>2, <2>3
  <2>4. CASE a.slot # sp
    BY <1>1, <1>2, <2>1, <2>2, <2>4
  <2>. QED
    BY <2>3, <2>4
<1>4. CapturesAreCells'
  <2>. SUFFICES ASSUME NEW p \in Held
                PROVE  Deref(p.upvalue)' = cells[p.cell]
    BY DEF CellInv, CapturesAreCells
  <2>1. p.upvalue \in Made
    BY HeldFacts DEF IInv
  <2>2. CASE location[p.upvalue] = sp
    BY <1>1, <1>2, <2>2 DEF Deref, Own
  <2>3. CASE location[p.upvalue] # sp
    <3>1. location[p.upvalue] < sp
      BY <1>1, <2>1, <2>3 DEF Own
    <3>2. Deref(p.upvalue) = cells[p.cell]
      BY <3>1 DEF CellInv, CapturesAreCells
    <3>3. Deref(p.upvalue)' = Deref(p.upvalue)
      BY <1>1, <1>2, <2>1, <2>3 DEF Deref
    <3>. QED
      BY <3>2, <3>3
  <2>. QED
    BY <2>2, <2>3
<1>5. OpenWillClose'
  <2>1. \A u \in Made : location[u] < sp' + One(building'.named)
    BY <1>1 DEF One, Own
  <2>. QED
    BY <2>1 DEF CellInv, OpenWillClose, Made
<1>. QED
  BY <1>3, <1>4, <1>5 DEF CellInv

\* Assigning to the variable c, wherever it lies.
LEMMA WriteCellKeeps ==
    ASSUME IInv, CellInv, NEW c \in 1 .. Len(cells), NEW v \in Values,
           UNCHANGED <<sp, frames, drops, location, building, closures>>,
           cells' = [cells EXCEPT ![c] = v],
           \A a \in Live : a.slot < sp =>
              stack'[a.slot] = IF a.cell = c THEN v ELSE stack[a.slot],
           \A a \in Live : a.cell = c => a.slot < sp,
           \A p \in Held :
              Deref(p.upvalue)' = IF p.cell = c THEN v ELSE Deref(p.upvalue)
    PROVE  CellInv'
<1>1. /\ Len(cells') = Len(cells)
      /\ \A d \in 1 .. Len(cells) : cells'[d] = IF d = c THEN v ELSE cells[d]
  <2>1. cells \in Seq(Values)
    BY DEF IInv, TypeOK
  <2>. QED
    BY <2>1, ExceptSeq
<1>2. Live' = Live /\ Held' = Held /\ FramesApart'
  BY LiveSame, HeldSame DEF CellInv
<1>3. LocalsAreCells'
  BY <1>1, <1>2 DEF CellInv, LocalsAreCells
<1>4. CapturesAreCells'
  BY <1>1, <1>2 DEF CellInv, CapturesAreCells
<1>5. OpenWillClose'
  BY <1>2 DEF CellInv, OpenWillClose
<1>. QED
  BY <1>2, <1>3, <1>4, <1>5 DEF CellInv

\* vm_close_upvalues closes the upvalues at last and above, and no other.
LEMMA ClosingMeans ==
    ASSUME IInv, NEW last \in Nat, NEW n \in 0 .. Len(open), Closing(n, last)
    PROVE  /\ Len(location') = Len(location)
           /\ \A u \in Made :
                /\ location'[u] = IF location[u] >= last THEN Own ELSE location[u]
                /\ closed'[u] = IF location[u] >= last THEN stack[location[u]] ELSE closed[u]
<1>1. /\ Len(location) \in Nat /\ Len(open) \in Nat
      /\ DOMAIN location = Made /\ DOMAIN closed = Made
      /\ \A m \in 1 .. Len(open) : open[m] \in Made /\ location[open[m]] \in Int
      /\ \A u \in Made : location[u] \in 0 .. StackSize - 1 \cup {Own} /\ location[u] \in Int
  BY CountsAreNaturals DEF IInv, Own
<1>. DEFINE closing == {open[m] : m \in 1 .. n}
<1>2. \A u \in Made : u \in closing <=> location[u] >= last
  <2>1. ASSUME NEW u \in Made, u \in closing PROVE location[u] >= last
    BY <2>1 DEF Closing
  <2>2. ASSUME NEW u \in Made, location[u] >= last PROVE u \in closing
    <3>1. location[u] # Own
      BY <1>1, <2>2 DEF Own
    <3>2. PICK m \in 1 .. Len(open) : open[m] = u
      BY <1>1, <3>1 DEF IInv, OpenListed
    <3>3. m <= n
      <4>. SUFFICES ASSUME m > n PROVE FALSE
        BY <1>1
      <4>1. n + 1 \in 1 .. Len(open) /\ n < Len(open) /\ location[open[n + 1]] < last
        BY <1>1 DEF Closing
      <4>2. m = n + 1 \/ location[open[n + 1]] > location[open[m]]
        BY <1>1, <4>1 DEF IInv, OpenSorted
      <4>. QED
        BY <1>1, <2>2, <3>2, <4>1, <4>2
    <3>. QED
      BY <1>1, <3>2, <3>3
  <2>. QED
    BY <2>1, <2>2
<1>3. /\ location' = [u \in Made |-> IF u \in closing THEN Own ELSE location[u]]
      /\ closed' = [u \in Made |-> IF u \in closing THEN stack[location[u]] ELSE closed[u]]
  BY <1>1 DEF Closing
<1>4. Len(location') = Len(location)
  BY ClosingKeepsOrder DEF IInv
<1>. HIDE DEF closing
<1>. QED
  BY <1>2, <1>3, <1>4

\* The slots from last on are given up; what lies there is closed before.
LEMMA CloseKeepsCells ==
    ASSUME IInv, CellInv, NEW last \in Nat,
           Len(location') = Len(location),
           \A u \in Made :
              /\ location'[u] = IF location[u] >= last THEN Own ELSE location[u]
              /\ closed'[u] = IF location[u] >= last THEN stack[location[u]] ELSE closed[u],
           last < sp, ~building.named, ~building'.named, sp' \in Nat, last <= sp',
           Len(drops') \in Nat, Len(drops') <= sp',
           \A a \in Live' : a \in Live /\ a.slot < last,
           Held' \subseteq Held, FramesApart', UNCHANGED cells,
           \A s \in 0 .. last - 1 : stack'[s] = stack[s],
           \A u \in Made : location[u] < last =>
              \A m \in 1 .. Len(drops') : location[u] = sp' - m => drops'[m] = "close"
    PROVE  CellInv'
<1>1. /\ sp \in Nat /\ Len(location) \in Nat
      /\ \A u \in Made : location[u] \in 0 .. StackSize - 1 \cup {Own} /\ location[u] < sp
      /\ \A a \in Live : a.slot \in Nat
  <2>1. \A u \in Made : location[u] < sp + One(building.named)
    BY DEF CellInv, OpenWillClose, Made
  <2>. QED
    BY <2>1, CountsAreNaturals, LiveFacts DEF IInv, CellInv, One
<1>2. /\ Len(location') = Len(location)
      /\ \A u \in Made :
           /\ location'[u] = IF location[u] >= last THEN Own ELSE location[u]
           /\ closed'[u] = IF location[u] >= last THEN stack[location[u]] ELSE closed[u]
  OBVIOUS
<1>3. LocalsAreCells'
  <2>. SUFFICES ASSUME NEW a \in Live'
                PROVE  /\ a.cell \in 1 .. Len(cells)
                       /\ cells[a.cell] = IF a.slot < sp' THEN stack'[a.slot] ELSE Function
                       /\ \A b \in Live' : a.cell = b.cell \/ a.slot = b.slot => a = b
    BY DEF LocalsAreCells
  <2>1. a \in Live /\ a.slot \in 0 .. last - 1 /\ a.slot < sp /\ a.slot < sp'
    BY <1>1
  <2>2. cells[a.cell] = stack[a.slot] /\ a.cell \in 1 .. Len(cells)
    BY <2>1 DEF CellInv, LocalsAreCells
  <2>3. \A b \in Live' : a.cell = b.cell \/ a.slot = b.slot => a = b
    BY <2>1 DEF CellInv, LocalsAreCells
  <2>. QED
    BY <2>1, <2>2, <2>3
<1>4. CapturesAreCells'
  <2>. SUFFICES ASSUME NEW p \in Held'
                PROVE  /\ p.cell \in 1 .. Len(cells)
                       /\ Deref(p.upvalue)' = cells[p.cell]
                       /\ \A q \in Held' : p.cell = q.cell <=> p.upvalue = q.upvalue
                       /\ \A a \in Live' : a.cell = p.cell <=> a.slot = location'[p.upvalue]
    BY DEF CapturesAreCells
  <2>1. /\ p \in Held /\ p.upvalue \in Made /\ p.cell \in 1 .. Len(cells)
        /\ \A q \in Held : p.cell = q.cell <=> p.upvalue = q.upvalue
        /\ \A a \in Live : a.cell = p.cell <=> a.slot = location[p.upvalue]
    BY HeldFacts DEF IInv, CellInv, CapturesAreCells
  <2>2. Deref(p.upvalue) = cells[p.cell]
    BY <1>1, <2>1 DEF CellInv, CapturesAreCells
  <2>3. CASE location[p.upvalue] >= last
    <3>1. location[p.upvalue] # Own /\ location'[p.upvalue] = Own
      BY <1>2, <2>1, <2>3 DEF Own
    <3>2. Deref(p.upvalue)' = Deref(p.upvalue)
      BY <1>2, <2>1, <2>3, <3>1 DEF Deref
    <3>3. \A a \in Live' : a.cell # p.cell /\ a.slot # location'[p.upvalue]
      BY <1>1, <2>1, <2>3, <3>1 DEF Own
    <3>. QED
      BY <2>1, <2>2, <3>2, <3>3
  <2>4. CASE ~(location[p.upvalue] >= last)
    <3>1. location'[p.upvalue] = location[p.upvalue] /\ closed'[p.upvalue] = closed[p.upvalue]
      BY <1>2, <2>1, <2>4
    <3>2. location[p.upvalue] = Own \/ location[p.upvalue] \in 0 .. last - 1
      BY <1>1, <2>1, <2>4
    <3>3. Deref(p.upvalue)' = Deref(p.upvalue)
      BY <3>1, <3>2 DEF Deref
    <3>. QED
      BY <2>1, <2>2, <3>1, <3>3
  <2>. QED
    BY <2>3, <2>4
<1>5. OpenWillClose'
  <2>. SUFFICES ASSUME NEW u \in Made
                PROVE  /\ location'[u] < sp' + One(building'.named)
                       /\ \A a \in Live' : a.slot = location'[u] => a.captured
                       /\ \A m \in 1 .. Len(drops') : location'[u] = sp' - m => drops'[m] = "close"
    BY <1>2 DEF OpenWillClose, Made
  <2>1. location[u] \in 0 .. StackSize - 1 \cup {Own}
    BY <1>1
  <2>2. CASE location[u] >= last
    <3>1. location'[u] = Own
      BY <1>2, <2>2
    <3>2. \A a \in Live' : a.slot # Own
      BY <1>1 DEF Own
    <3>3. \A m \in 1 .. Len(drops') : sp' - m # Own
      BY DEF Own
    <3>4. \A x \in Nat : Own < x + 0
      BY DEF Own
    <3>5. Own < sp' + One(building'.named)
      <4>1. One(building'.named) = 0
        BY DEF One
      <4>. QED
        BY <3>4, <4>1
    <3>. QED
      BY <3>1, <3>2, <3>3, <3>5
  <2>3. CASE ~(location[u] >= last)
    <3>1. location'[u] = location[u] /\ location[u] < last
      BY <1>2, <2>1, <2>3 DEF Own
    <3>2. location'[u] < sp' + One(building'.named)
      BY <2>1, <3>1 DEF One, Own
    <3>3. \A a \in Live' : a.slot = location'[u] => a.captured
      BY <3>1 DEF CellInv, OpenWillClose, Made
    <3>. QED
      BY <3>1, <3>2, <3>3
  <2>. QED
    BY <2>2, <2>3
<1>. QED
  BY <1>3, <1>4, <1>5 DEF CellInv

--------------------------------------------------------------------------------
(* The actions *)

LEMMA ReadKeepsCells ==
    ASSUME IInv, CellInv,
           \/ \E j \in 1 .. Len(Top.locals) : GetLocal(j)
           \/ \E n \in 1 .. Len(Top.upvalues) : GetUpvalue(n)
    PROVE  CellInv'
<1>1. UNCHANGED <<machine, frames, code, heap, building, closures, cells>>
  BY DEF GetLocal, GetUpvalue
<1>2. Live' = Live /\ FramesApart' /\ Held' = Held
  BY <1>1, LiveSame, HeldSame DEF CellInv
<1>. QED
  BY <1>1, <1>2, QuietStatement DEF machine, code, heap

\* The captures of the running function.
LEMMA TopHeld ==
    ASSUME TypeOK, NEW n \in 1 .. Len(Top.upvalues)
    PROVE  Top.upvalues[n] \in Held
<1>1. Len(frames) \in 1 .. Len(frames) /\ frames[Len(frames)] = Top
  BY TopTypes DEF Top, Last
<1>2. Top.upvalues[n] \in Range(Top.upvalues)
  BY TopTypes, LenProperties DEF Range
<1>. QED
  BY <1>1, <1>2, HeldHas

LEMMA SetLocalCells ==
    ASSUME IInv, CellInv, NEW j \in 1 .. Len(Top.locals), NEW v \in Values, SetLocal(j, v)
    PROVE  CellInv'
<1>. DEFINE here == [slot |-> SlotOf(j), cell |-> Top.locals[j].cell,
                     captured |-> Top.locals[j].captured]
            c == Top.locals[j].cell
            s == SlotOf(j)
<1>1. here \in Live /\ here.slot = s /\ here.cell = c
  BY TopLive DEF IInv
<1>2. /\ Ready /\ stack' = [stack EXCEPT ![s] = v] /\ cells' = [cells EXCEPT ![c] = v]
      /\ UNCHANGED <<sp, frames, code, heap, building, closures>>
  BY DEF SetLocal
<1>3. s \in 0 .. StackSize - 1 /\ stack \in [0 .. StackSize - 1 -> Values]
  BY <1>2, SlotOfIsSlot DEF IInv, TypeOK
<1>. HIDE DEF here, c, s
<1>4. \A t \in 0 .. StackSize - 1 : stack'[t] = IF t = s THEN v ELSE stack[t]
  BY <1>2, <1>3
<1>5. c \in 1 .. Len(cells)
  BY <1>1 DEF CellInv, LocalsAreCells
<1>6. \A a \in Live : a.slot \in Nat /\ a.slot < sp /\ sp <= StackSize /\ sp \in Nat
  <2>1. sp + 0 = Top.slots + Len(Top.locals)
    BY <1>2, StackEnds DEF One
  <2>2. sp \in Nat /\ sp <= StackSize
    BY BoundAssumption DEF IInv, TypeOK
  <2>. QED
    BY <2>1, <2>2, LiveFacts DEF IInv, CellInv
<1>7. \A a \in Live : stack'[a.slot] = IF a.cell = c THEN v ELSE stack[a.slot]
  <2>. SUFFICES ASSUME NEW a \in Live
                PROVE  stack'[a.slot] = IF a.cell = c THEN v ELSE stack[a.slot]
    OBVIOUS
  <2>1. a.slot \in 0 .. StackSize - 1
    BY <1>6, BoundAssumption
  <2>2. a.cell = c <=> a.slot = s
    BY <1>1 DEF CellInv, LocalsAreCells
  <2>. QED
    BY <1>4, <2>1, <2>2
<1>8. \A p \in Held : Deref(p.upvalue)' = IF p.cell = c THEN v ELSE Deref(p.upvalue)
  <2>. SUFFICES ASSUME NEW p \in Held
                PROVE  Deref(p.upvalue)' = IF p.cell = c THEN v ELSE Deref(p.upvalue)
    OBVIOUS
  <2>1. c = p.cell <=> s = location[p.upvalue]
    BY <1>1 DEF CellInv, CapturesAreCells
  <2>2. location[p.upvalue] \in 0 .. StackSize - 1 \cup {Own}
    BY HeldFacts, CountsAreNaturals DEF IInv
  <2>3. UNCHANGED <<location, closed>>
    BY <1>2 DEF heap
  <2>4. CASE location[p.upvalue] = Own
    BY <1>3, <2>1, <2>3, <2>4 DEF Deref, Own
  <2>5. CASE location[p.upvalue] # Own
    BY <1>4, <2>1, <2>2, <2>3, <2>5 DEF Deref
  <2>. QED
    BY <2>4, <2>5
<1>. QED
  BY <1>2, <1>5, <1>6, <1>7, <1>8, WriteCellKeeps DEF code, heap

LEMMA SetUpvalueCells ==
    ASSUME IInv, CellInv, NEW n \in 1 .. Len(Top.upvalues), NEW v \in Values,
           SetUpvalue(n, v)
    PROVE  CellInv'
<1>. DEFINE p == Top.upvalues[n]
            u == p.upvalue
            c == p.cell
<1>1. p \in Held /\ u \in Made
  BY TopHeld, HeldFacts DEF IInv
<1>2. /\ Ready /\ cells' = [cells EXCEPT ![c] = v]
      /\ IF location[u] = Own
         THEN closed' = [closed EXCEPT ![u] = v] /\ UNCHANGED stack
         ELSE stack' = [stack EXCEPT ![location[u]] = v] /\ UNCHANGED closed
      /\ UNCHANGED <<sp, frames, code, location, open, building, closures>>
  BY DEF SetUpvalue
<1>. HIDE DEF p
<1>3. /\ location[u] \in 0 .. StackSize - 1 \cup {Own}
      /\ stack \in [0 .. StackSize - 1 -> Values] /\ DOMAIN closed = Made
  BY <1>1, CountsAreNaturals DEF IInv, TypeOK
<1>4. /\ c \in 1 .. Len(cells)
      /\ \A q \in Held : c = q.cell <=> u = q.upvalue
      /\ \A a \in Live : a.cell = c <=> a.slot = location[u]
  BY <1>1 DEF CellInv, CapturesAreCells
<1>5. \A a \in Live : a.slot \in Nat /\ a.slot < sp /\ sp <= StackSize /\ sp \in Nat
  <2>1. sp + 0 = Top.slots + Len(Top.locals)
    BY <1>2, StackEnds DEF One
  <2>2. sp \in Nat /\ sp <= StackSize
    BY BoundAssumption DEF IInv, TypeOK
  <2>. QED
    BY <2>1, <2>2, LiveFacts DEF IInv, CellInv
<1>. HIDE DEF u, c
<1>6. \A a \in Live : stack'[a.slot] = IF a.cell = c THEN v ELSE stack[a.slot]
  <2>. SUFFICES ASSUME NEW a \in Live
                PROVE  stack'[a.slot] = IF a.cell = c THEN v ELSE stack[a.slot]
    OBVIOUS
  <2>1. a.slot \in 0 .. StackSize - 1
    BY <1>5, BoundAssumption
  <2>2. CASE location[u] = Own
    BY <1>2, <1>4, <2>1, <2>2 DEF Own
  <2>3. CASE location[u] # Own
    BY <1>2, <1>3, <1>4, <2>1, <2>3
  <2>. QED
    BY <2>2, <2>3
<1>7. \A q \in Held : Deref(q.upvalue)' = IF q.cell = c THEN v ELSE Deref(q.upvalue)
  <2>. SUFFICES ASSUME NEW q \in Held
                PROVE  Deref(q.upvalue)' = IF q.cell = c THEN v ELSE Deref(q.upvalue)
    OBVIOUS
  <2>1. /\ q.upvalue \in Made
        /\ location[q.upvalue] \in 0 .. StackSize - 1 \cup {Own}
        /\ location' = location
    BY <1>2, HeldFacts, CountsAreNaturals DEF IInv
  <2>2. c = q.cell <=> u = q.upvalue
    BY <1>4
  <2>3. CASE location[u] = Own
    BY <1>1, <1>2, <1>3, <2>1, <2>2, <2>3 DEF Deref
  <2>4. CASE location[u] # Own
    <3>1. location[q.upvalue] = location[u] => q.upvalue = u
      BY <1>1, <2>1, <2>4, OneUpvaluePerSlot
    <3>. QED
      BY <1>2, <1>3, <2>1, <2>2, <2>4, <3>1 DEF Deref
  <2>. QED
    BY <2>3, <2>4
<1>. QED
  BY <1>2, <1>4, <1>5, <1>6, <1>7, WriteCellKeeps DEF code

\* Steps that make no capture and leave those of the frames alone.
LEMMA HeldKept ==
    ASSUME Len(frames) \in Nat, Len(frames') \in Nat, Len(frames') <= Len(frames),
           UNCHANGED <<building, closures>>,
           \A f \in 1 .. Len(frames') : frames'[f].upvalues = frames[f].upvalues
    PROVE  Held' \subseteq Held
<1>1. \A f \in 1 .. Len(frames') : Range(frames'[f].upvalues) \subseteq Held
  <2>. SUFFICES ASSUME NEW f \in 1 .. Len(frames')
                PROVE  Range(frames'[f].upvalues) \subseteq Held
    OBVIOUS
  <2>1. f \in 1 .. Len(frames) /\ frames'[f].upvalues = frames[f].upvalues
    OBVIOUS
  <2>. QED
    BY <2>1, HeldHas
<1>. QED
  BY <1>1, HeldHas, HeldWithin

LEMMA AddLocalHeld ==
    ASSUME IInv, NEW captured \in BOOLEAN, AddLocal(captured)
    PROVE  /\ Len(frames') = Len(frames) /\ Len(frames) \in Nat
           /\ \A f \in 1 .. Len(frames) : frames'[f].upvalues = frames[f].upvalues
<1>. DEFINE local == Local(captured, Len(cells) + 1)
            locals == Append(Top.locals, local)
            f == [Top EXCEPT !.locals = locals]
<1>1. Len(frames) \in Nat \ {0} /\ frames[Len(frames)] = Top
  BY TopTypes DEF IInv, Top, Last
<1>2. local \in Locals
  BY CountsAreNaturals DEF IInv, Local, Locals
<1>. HIDE DEF local
<1>3. locals \in Seq(Locals)
  BY <1>2, TopTypes, AppendProperties DEF IInv
<1>. HIDE DEF locals
<1>4. f \in Frames /\ f.upvalues = Top.upvalues
  BY <1>3, TopTypes, FrameWithLocals DEF IInv
<1>5. SetTop(f)
  BY DEF AddLocal, local, locals
<1>. HIDE DEF f
<1>6. /\ Len(frames') = Len(frames)
      /\ Top' = f
      /\ \A g \in 1 .. Len(frames) : g # Len(frames) => frames'[g] = frames[g]
  BY <1>4, <1>5, SetTopKeeps DEF IInv
<1>7. frames'[Len(frames)] = f
  BY <1>1, <1>6 DEF Top, Last
<1>. QED
  BY <1>1, <1>4, <1>6, <1>7

LEMMA DeclareLocalCells ==
    ASSUME IInv, CellInv, NEW v \in Values, NEW captured \in BOOLEAN,
           DeclareLocal(v, captured)
    PROVE  CellInv'
<1>1. /\ Ready /\ AddLocal(captured) /\ cells' = Append(cells, v)
      /\ stack' = [stack EXCEPT ![sp] = v] /\ sp' = sp + 1 /\ sp < StackSize
      /\ UNCHANGED <<location, closed, drops, building, closures>>
  BY DEF DeclareLocal, Push, code, heap
<1>2. Live' \subseteq Live \cup {NewLocal(captured)} /\ FramesApart'
  BY <1>1, LiveAdded DEF CellInv
<1>3. Held' \subseteq Held
  BY <1>1, AddLocalHeld, HeldKept
<1>4. ~building.named
  BY <1>1, StackEnds
<1>. QED
  BY <1>1, <1>2, <1>3, <1>4, GrowKeeps

LEMMA BeginNamedClosureCells ==
    ASSUME IInv, CellInv, NEW captured \in BOOLEAN, BeginNamedClosure(captured)
    PROVE  CellInv'
<1>1. /\ Ready /\ AddLocal(captured) /\ cells' = Append(cells, Function)
      /\ UNCHANGED <<stack, sp, location, closed, drops, closures>>
      /\ building'.named /\ building'.upvalues = << >>
  BY DEF BeginNamedClosure, NotBuilding, machine, code, heap
<1>2. Live' \subseteq Live \cup {NewLocal(captured)} /\ FramesApart'
  BY <1>1, LiveAdded DEF CellInv
<1>3. Held' \subseteq Held
  <2>1. /\ Len(frames') = Len(frames)
        /\ \A f \in 1 .. Len(frames) : frames'[f].upvalues = frames[f].upvalues
    BY <1>1, AddLocalHeld
  <2>2. \A f \in 1 .. Len(frames') : Range(frames'[f].upvalues) \subseteq Held
    BY <2>1, HeldHas
  <2>3. Range(building'.upvalues) \subseteq Held
    BY <1>1 DEF Range
  <2>. QED
    BY <1>1, <2>2, <2>3, HeldHas, HeldWithin
<1>4. ~building.named
  BY <1>1, StackEnds
<1>. QED
  BY <1>1, <1>2, <1>3, <1>4, ValueAssumption, GrowKeeps

LEMMA BeginClosureCells ==
    ASSUME IInv, CellInv, BeginClosure
    PROVE  CellInv'
<1>1. /\ Ready /\ UNCHANGED <<stack, sp, frames, cells, location, closed, drops, closures>>
      /\ ~building'.named /\ building'.upvalues = << >>
  BY DEF BeginClosure, NotBuilding, Unseen, machine, code, heap
<1>2. Live' = Live /\ FramesApart'
  BY <1>1, LiveSame DEF CellInv
<1>3. Held' \subseteq Held
  <2>1. Range(building'.upvalues) \subseteq Held
    BY <1>1 DEF Range
  <2>. QED
    BY <1>1, <2>1, HeldHas, HeldWithin
<1>4. ~building.named
  BY <1>1, StackEnds
<1>5. \A u \in Made :
        /\ location[u] < sp + One(building'.named)
        /\ \A m \in 1 .. Len(drops') : location[u] = sp - m => drops'[m] = "close"
  BY <1>1, <1>4 DEF CellInv, OpenWillClose, Made, One
<1>. QED
  BY <1>1, <1>2, <1>3, <1>5, QuietKeeps

LEMMA HeldGets ==
    ASSUME IInv, NEW u, NEW cell, Gets(u, cell), UNCHANGED <<frames, closures>>
    PROVE  /\ Held' \subseteq Held \cup {[upvalue |-> u, cell |-> cell]}
           /\ building'.named = building.named
<1>. DEFINE c == [upvalue |-> u, cell |-> cell]
            S == Captures \cup {c}
<1>1. building.upvalues \in Seq(Captures) /\ Seq(Captures) \subseteq Seq(S)
  BY BuildingType, SeqMonotonic DEF IInv
<1>2. /\ building'.upvalues = Append(building.upvalues, c)
      /\ building'.named = building.named
  BY DEF Gets, IInv, TypeOK, Fillings
<1>. HIDE DEF c
<1>3. Range(building'.upvalues) \subseteq Held \cup {c}
  <2>. DEFINE r == Append(building.upvalues, c)
              count == Len(building.upvalues)
  <2>1. /\ r \in Seq(S) /\ Len(r) = count + 1 /\ count \in Nat
        /\ \A m \in 1 .. count : r[m] = building.upvalues[m]
        /\ r[count + 1] = c
    BY <1>1, AppendProperties, LenProperties
  <2>2. DOMAIN r = 1 .. count + 1 /\ DOMAIN building.upvalues = 1 .. count
    BY <1>1, <2>1, LenProperties
  <2>. HIDE DEF r, count
  <2>3. ASSUME NEW m \in 1 .. count + 1 PROVE r[m] \in Held \cup {c}
    <3>1. CASE m = count + 1
      BY <2>1, <3>1
    <3>2. CASE m # count + 1
      <4>1. m \in 1 .. count /\ r[m] = building.upvalues[m]
        BY <2>1, <3>2
      <4>2. r[m] \in Range(building.upvalues)
        BY <2>2, <4>1 DEF Range
      <4>. QED
        BY <4>2, HeldHas
    <3>. QED
      BY <3>1, <3>2
  <2>4. Range(r) \subseteq Held \cup {c}
    BY <2>2, <2>3 DEF Range
  <2>. QED
    BY <1>2, <2>4 DEF r
<1>4. Held' \subseteq Held \cup {c}
  <2>1. /\ \A f \in 1 .. Len(frames') : Range(frames'[f].upvalues) \subseteq Held \cup {c}
        /\ \A k \in 1 .. Len(closures') : Range(closures'[k].upvalues) \subseteq Held \cup {c}
    BY HeldHas
  <2>. QED
    BY <1>3, <2>1, HeldWithin
<1>. QED
  BY <1>2, <1>4 DEF c

\* A closure gets the upvalue of a local: one that points at its slot or a new one.
LEMMA CaptureKeepsCells ==
    ASSUME IInv, CellInv, building.on, NEW j \in 1 .. Len(Top.locals),
           Top.locals[j].captured, NEW u \in 1 .. Len(location'),
           Gets(u, Top.locals[j].cell),
           UNCHANGED <<stack, sp, frames, drops, closures, cells>>,
           Len(location') \in Nat, 1 .. Len(location') \subseteq Made \cup {u},
           Made \subseteq 1 .. Len(location'),
           \A v \in Made : location'[v] = location[v] /\ closed'[v] = closed[v],
           location'[u] = SlotOf(j),
           \A v \in Made : location[v] = SlotOf(j) => v = u
    PROVE  CellInv'
<1>. DEFINE here == [slot |-> SlotOf(j), cell |-> Top.locals[j].cell,
                     captured |-> Top.locals[j].captured]
            c == Top.locals[j].cell
            s == SlotOf(j)
            new == [upvalue |-> u, cell |-> c]
<1>1. here \in Live /\ here.slot = s /\ here.cell = c /\ here.captured
  BY TopLive DEF IInv
<1>2. s \in 0 .. StackSize - 1 /\ s \in Nat
  <2>1. s \in 0 .. StackSize - 1
    BY SlotOfIsSlot DEF IInv
  <2>. QED
    BY <2>1, BoundAssumption
<1>3. Held' \subseteq Held \cup {new} /\ building'.named = building.named
  BY HeldGets
<1>4. new.upvalue = u /\ new.cell = c
  OBVIOUS
<1>5. location'[u] = s /\ \A v \in Made : location[v] = s => v = u
  OBVIOUS
<1>6. sp + One(building.named) = Top.slots + Len(Top.locals) /\ Len(drops) = 0
  BY StackEnds
<1>. HIDE DEF here, c, s, new
<1>7. Live' = Live /\ FramesApart'
  BY LiveSame DEF CellInv
<1>8. LocalsAreCells'
  BY <1>7 DEF CellInv, LocalsAreCells
<1>9. ASSUME NEW q \in Held
      PROVE  /\ q.upvalue \in Made /\ location'[q.upvalue] = location[q.upvalue]
             /\ Deref(q.upvalue)' = Deref(q.upvalue)
             /\ q.cell = c <=> q.upvalue = u
  <2>1. q.upvalue \in Made
    BY HeldFacts DEF IInv
  <2>2. here.cell = q.cell <=> here.slot = location[q.upvalue]
    BY <1>1 DEF CellInv, CapturesAreCells
  <2>3. q.cell = c <=> location[q.upvalue] = s
    BY <1>1, <2>2
  <2>. QED
    BY <1>5, <2>1, <2>3 DEF Deref
<1>10. /\ c \in 1 .. Len(cells)
       /\ s < sp => Deref(u)' = cells[c]
       /\ \A a \in Live : a.cell = c <=> a.slot = s
  <2>1. /\ here.cell \in 1 .. Len(cells)
        /\ cells[here.cell] = IF here.slot < sp THEN stack[here.slot] ELSE Function
        /\ \A a \in Live : here.cell = a.cell \/ here.slot = a.slot => here = a
    BY <1>1 DEF CellInv, LocalsAreCells
  <2>2. Deref(u)' = stack[s]
    BY <1>2, <1>5 DEF Deref, Own
  <2>. QED
    BY <1>1, <2>1, <2>2
<1>11. CapturesAreCells'
  <2>. SUFFICES ASSUME NEW p \in Held'
                PROVE  /\ p.cell \in 1 .. Len(cells)
                       /\ location'[p.upvalue] < sp => Deref(p.upvalue)' = cells[p.cell]
                       /\ \A q \in Held' : p.cell = q.cell <=> p.upvalue = q.upvalue
                       /\ \A a \in Live : a.cell = p.cell <=> a.slot = location'[p.upvalue]
    BY <1>7 DEF CapturesAreCells
  <2>1. CASE p \in Held
    <3>1. /\ p.cell \in 1 .. Len(cells)
          /\ location[p.upvalue] < sp => Deref(p.upvalue) = cells[p.cell]
          /\ \A q \in Held : p.cell = q.cell <=> p.upvalue = q.upvalue
          /\ \A a \in Live : a.cell = p.cell <=> a.slot = location[p.upvalue]
      BY <2>1 DEF CellInv, CapturesAreCells
    <3>2. \A q \in Held' : p.cell = q.cell <=> p.upvalue = q.upvalue
      BY <1>3, <1>4, <1>9, <2>1, <3>1
    <3>. QED
      BY <1>9, <2>1, <3>1, <3>2
  <2>2. CASE p = new
    <3>1. \A q \in Held' : p.cell = q.cell <=> p.upvalue = q.upvalue
      BY <1>3, <1>4, <1>9, <2>2
    <3>. QED
      BY <1>4, <1>5, <1>10, <2>2, <3>1
  <2>. QED
    BY <1>3, <2>1, <2>2
<1>12. OpenWillClose'
  <2>. SUFFICES ASSUME NEW v \in 1 .. Len(location')
                PROVE  /\ location'[v] < sp + One(building.named)
                       /\ \A a \in Live : a.slot = location'[v] => a.captured
    BY <1>3, <1>6, <1>7 DEF OpenWillClose
  <2>1. CASE v \in Made
    BY <2>1 DEF CellInv, OpenWillClose, Made
  <2>2. CASE v = u
    <3>1. s < sp + One(building.named)
      <4>1. here.slot < Top.slots + Len(Top.locals)
        BY <1>1, LiveFacts DEF IInv, CellInv
      <4>. QED
        BY <1>1, <1>6, <4>1
    <3>2. \A a \in Live : a.slot = s => a = here
      BY <1>1 DEF CellInv, LocalsAreCells
    <3>. QED
      BY <1>1, <1>5, <2>2, <3>1, <3>2
  <2>. QED
    BY <2>1, <2>2
<1>. QED
  BY <1>7, <1>8, <1>11, <1>12 DEF CellInv

LEMMA CaptureSharedCells ==
    ASSUME IInv, CellInv, NEW j \in 1 .. Len(Top.locals), NEW n \in 0 .. Len(open),
           CaptureShared(j, n)
    PROVE  CellInv'
<1>. DEFINE u == open[n + 1]
<1>1. /\ building.on /\ Top.locals[j].captured /\ n < Len(open)
      /\ Gets(u, Top.locals[j].cell) /\ location[u] = SlotOf(j)
      /\ UNCHANGED <<stack, sp, frames, drops, closures, cells, location, closed>>
  BY DEF CaptureShared, Wanted, Unseen, machine, code, heap
<1>2. u \in Made /\ Len(location) \in Nat
  <2>1. n + 1 \in 1 .. Len(open)
    BY <1>1, CountsAreNaturals DEF IInv
  <2>. QED
    BY <2>1, CountsAreNaturals DEF IInv
<1>3. SlotOf(j) # Own
  BY <1>1, SlotOfIsSlot, BoundAssumption DEF IInv, Own
<1>. HIDE DEF u
<1>4. \A v \in Made : location[v] = SlotOf(j) => v = u
  BY <1>1, <1>2, <1>3, OneUpvaluePerSlot
<1>5. /\ Len(location') \in Nat /\ u \in 1 .. Len(location') /\ location'[u] = SlotOf(j)
      /\ 1 .. Len(location') \subseteq Made \cup {u} /\ Made \subseteq 1 .. Len(location')
      /\ \A v \in Made : location'[v] = location[v] /\ closed'[v] = closed[v]
  BY <1>1, <1>2 DEF Made
<1>. QED
  BY <1>1, <1>4, <1>5, CaptureKeepsCells

LEMMA CaptureNewCells ==
    ASSUME IInv, CellInv, NEW j \in 1 .. Len(Top.locals), NEW n \in 0 .. Len(open),
           CaptureNew(j, n)
    PROVE  CellInv'
<1>. DEFINE u == Len(location) + 1
            s == SlotOf(j)
<1>1. /\ building.on /\ Top.locals[j].captured
      /\ Gets(u, Top.locals[j].cell) /\ Above(n, s)
      /\ n < Len(open) => location[open[n + 1]] # s
      /\ location' = Append(location, s) /\ closed' = Append(closed, Null)
      /\ UNCHANGED <<stack, sp, frames, drops, closures, cells>>
  BY DEF CaptureNew, Wanted, Unseen, machine, code
<1>2. /\ Len(location) \in Nat /\ Len(open) \in Nat
      /\ \A m \in 1 .. Len(open) : open[m] \in Made
      /\ \A v \in Made : location[v] \in 0 .. StackSize - 1 \cup {Own} /\ location[v] \in Int
  BY CountsAreNaturals DEF IInv, Own
<1>3. s \in 0 .. StackSize - 1 /\ s \in Int /\ s # Own
  BY <1>1, SlotOfIsSlot, BoundAssumption DEF IInv, Own
<1>. HIDE DEF s
<1>4. /\ Len(location') = u /\ location'[u] = s
      /\ \A v \in Made : location'[v] = location[v]
  <2>1. location \in Seq(0 .. StackSize - 1 \cup {Own}) /\ s \in 0 .. StackSize - 1 \cup {Own}
    BY <1>3 DEF IInv, TypeOK
  <2>. QED
    BY <1>1, <2>1, AppendProperties DEF Made
<1>5. \A v \in Made : closed'[v] = closed[v]
  <2>1. closed \in Seq(Values) /\ Len(closed) = Len(location)
    BY DEF IInv, TypeOK
  <2>. QED
    BY <1>1, <2>1, ValueAssumption, AppendProperties DEF Made
<1>6. ASSUME NEW v \in Made, location[v] = s PROVE FALSE
  <2>1. location[v] # Own /\ v \in DOMAIN location
    BY <1>3, <1>6, CountsAreNaturals DEF IInv
  <2>2. PICK m \in 1 .. Len(open) : open[m] = v
    BY <2>1 DEF IInv, OpenListed
  <2>3. CASE m <= n
    BY <1>1, <1>2, <1>6, <2>2, <2>3 DEF Above
  <2>4. CASE m = n + 1
    BY <1>1, <1>2, <1>6, <2>2, <2>4
  <2>5. CASE m > n + 1
    <3>1. n + 1 \in 1 .. Len(open) /\ n < Len(open)
      BY <1>2, <2>5
    <3>2. location[open[n + 1]] <= s
      BY <1>1, <3>1 DEF Above
    <3>3. location[open[n + 1]] > location[open[m]]
      BY <2>5, <3>1 DEF IInv, OpenSorted
    <3>. QED
      BY <1>2, <1>3, <1>6, <2>2, <3>1, <3>2, <3>3
  <2>. QED
    BY <1>2, <2>3, <2>4, <2>5
<1>7. /\ Len(location') \in Nat /\ u \in 1 .. Len(location') /\ location'[u] = SlotOf(j)
      /\ 1 .. Len(location') \subseteq Made \cup {u} /\ Made \subseteq 1 .. Len(location')
  BY <1>2, <1>4 DEF Made, s
<1>8. \A v \in Made : location[v] = SlotOf(j) => v = u
  BY <1>6 DEF s
<1>. HIDE DEF u
<1>. QED
  BY ZenonT(30), <1>1, <1>4, <1>5, <1>7, <1>8, CaptureKeepsCells

LEMMA CaptureUpvalueCells ==
    ASSUME IInv, CellInv, NEW n \in 1 .. Len(Top.upvalues), CaptureUpvalue(n)
    PROVE  CellInv'
<1>. DEFINE p == Top.upvalues[n]
<1>1. /\ Gets(p.upvalue, p.cell)
      /\ UNCHANGED <<stack, sp, frames, drops, closures, cells, location, closed>>
  BY DEF CaptureUpvalue, Unseen, machine, code, heap
<1>2. p \in Held /\ p \in Captures
  BY TopHeld, TopTypes, ElementOfSeq DEF IInv
<1>3. [upvalue |-> p.upvalue, cell |-> p.cell] = p
  BY <1>2 DEF Captures
<1>. HIDE DEF p
<1>4. Held' \subseteq Held \cup {p} /\ building'.named = building.named
  BY <1>1, <1>3, HeldGets
<1>5. Live' = Live /\ FramesApart'
  BY <1>1, LiveSame DEF CellInv
<1>. QED
  BY <1>1, <1>2, <1>4, <1>5, QuietStatement

\* A function with a name waits for the last local of the running function.
NameIsLocal == building.named => Len(Top.locals) > 0

LEMMA NameKept ==
    ASSUME IInv, NameIsLocal, [Next]_vars
    PROVE  NameIsLocal'
<1>1. CASE ~building'.named
  BY <1>1 DEF NameIsLocal
<1>2. CASE UNCHANGED <<building, frames>>
  BY <1>2 DEF NameIsLocal, Top
<1>3. CASE \E u, cell : Gets(u, cell) /\ UNCHANGED frames
  <2>1. building'.named = building.named
    BY <1>3 DEF Gets, IInv, TypeOK, Fillings
  <2>. QED
    BY <1>3, <2>1 DEF NameIsLocal, Top
<1>4. CASE Ready /\ UNCHANGED building
  BY <1>1, <1>4, StackEnds
<1>5. CASE drops # << >> /\ UNCHANGED building
  BY <1>1, <1>5 DEF IInv, Balanced, Pending
<1>6. CASE after # "none" /\ UNCHANGED building
  BY <1>1, <1>6 DEF IInv, Balanced, Pending
<1>7. CASE \E captured \in BOOLEAN : BeginNamedClosure(captured)
  <2>1. PICK captured \in BOOLEAN : BeginNamedClosure(captured)
    BY <1>7
  <2>. DEFINE local == Local(captured, Len(cells) + 1)
              locals == Append(Top.locals, local)
              f == [Top EXCEPT !.locals = locals]
  <2>2. local \in Locals
    BY CountsAreNaturals DEF IInv, Local, Locals
  <2>. HIDE DEF local
  <2>3. locals \in Seq(Locals) /\ Len(locals) = Len(Top.locals) + 1
    BY <2>2, TopTypes, AppendProperties DEF IInv
  <2>. HIDE DEF locals
  <2>4. f \in Frames /\ f.locals = locals
    BY <2>3, TopTypes, FrameWithLocals DEF IInv
  <2>5. SetTop(f)
    BY <2>1 DEF BeginNamedClosure, AddLocal, local, locals
  <2>. HIDE DEF f
  <2>6. Top' = f
    BY <2>4, <2>5, SetTopKeeps DEF IInv
  <2>. QED
    BY <2>3, <2>4, <2>6, TopTypes DEF IInv, NameIsLocal
<1>8. CASE UseVariable
  <2>1. Ready /\ UNCHANGED building
    BY <1>8 DEF UseVariable, DeclareLocal, GetLocal, SetLocal, GetUpvalue, SetUpvalue
  <2>. QED
    BY <1>4, <2>1
<1>9. CASE MakeClosure
  <2>1. CASE BeginClosure
    BY <1>1, <2>1 DEF BeginClosure, NotBuilding
  <2>2. CASE \E j \in 1 .. Len(Top.locals), n \in 0 .. Len(open) :
                CaptureShared(j, n) \/ CaptureNew(j, n)
    BY <1>3, <2>2 DEF CaptureShared, CaptureNew
  <2>3. CASE \E n \in 1 .. Len(Top.upvalues) : CaptureUpvalue(n)
    BY <1>3, <2>3 DEF CaptureUpvalue
  <2>4. CASE \E arity \in 0 .. MaxArity : KeepClosure(arity)
    BY <1>1, <2>4 DEF KeepClosure, NotBuilding
  <2>. QED
    BY <1>7, <1>9, <2>1, <2>2, <2>3, <2>4 DEF MakeClosure
<1>10. CASE CallFunction
  <2>1. CASE CallNew
    BY <1>1, <2>1 DEF CallNew, NotBuilding
  <2>2. CASE ~CallNew
    <3>1. Ready /\ UNCHANGED building
      BY <1>10, <2>2 DEF CallFunction, CallWithoutArgument, CallWithArgument, CallTooDeep
    <3>. QED
      BY <1>4, <3>1
  <2>. QED
    BY <2>1, <2>2
<1>11. CASE Leave
  <2>1. CASE OpenBlock \/ EndBlock \/ Return
    BY <1>4, <2>1 DEF OpenBlock, EndBlock, Return
  <2>2. CASE DoPop \/ \E n \in 0 .. Len(open) : DoClose(n)
    BY <1>5, <2>2 DEF DoPop, DoClose
  <2>3. CASE DoNull \/ \E n \in 0 .. Len(open) : DoReturn(n)
    BY <1>6, <2>3 DEF DoNull, DoReturn
  <2>. QED
    BY <1>11, <2>1, <2>2, <2>3 DEF Leave
<1>. QED
  BY <1>2, <1>8, <1>9, <1>10, <1>11 DEF Next, vars

\* The closure is stored: the captures it was filled with are held by it now.
LEMMA KeepClosureHeld ==
    ASSUME IInv, NEW arity \in 0 .. MaxArity, KeepClosure(arity)
    PROVE  Held' \subseteq Held
<1>. DEFINE c == [upvalues |-> building.upvalues, arity |-> arity]
<1>1. c \in Closures /\ c.upvalues = building.upvalues
  BY BuildingType DEF IInv, Closures
<1>2. closures' = Append(closures, c) /\ frames' = frames /\ building'.upvalues = << >>
  BY DEF KeepClosure, NotBuilding
<1>. HIDE DEF c
<1>3. /\ Len(closures') = Len(closures) + 1 /\ Len(closures) \in Nat
      /\ closures'[Len(closures) + 1] = c
      /\ \A k \in 1 .. Len(closures) : closures'[k] = closures[k]
  BY <1>1, <1>2, CountsAreNaturals, AppendProperties DEF IInv, TypeOK
<1>4. \A k \in 1 .. Len(closures') : Range(closures'[k].upvalues) \subseteq Held
  <2>. SUFFICES ASSUME NEW k \in 1 .. Len(closures')
                PROVE  Range(closures'[k].upvalues) \subseteq Held
    OBVIOUS
  <2>1. CASE k = Len(closures) + 1
    BY <1>1, <1>3, <2>1, HeldHas
  <2>2. CASE k \in 1 .. Len(closures)
    BY <1>3, <2>2, HeldHas
  <2>. QED
    BY <1>3, <2>1, <2>2
<1>5. Range(building'.upvalues) \subseteq Held
  BY <1>2 DEF Range
<1>. QED
  BY <1>2, <1>4, <1>5, HeldHas, HeldWithin

LEMMA KeepClosureCells ==
    ASSUME IInv, CellInv, NameIsLocal, NEW arity \in 0 .. MaxArity, KeepClosure(arity)
    PROVE  CellInv'
<1>1. /\ building.on /\ UNCHANGED <<frames, drops, cells, location, closed>>
      /\ IF building.named THEN Push(Function) ELSE UNCHANGED <<stack, sp>>
      /\ building'.named = FALSE
  BY DEF KeepClosure, NotBuilding, Unseen, machine, code, heap
<1>2. Held' \subseteq Held
  BY KeepClosureHeld
<1>3. Live' = Live /\ FramesApart'
  BY <1>1, LiveSame DEF CellInv
<1>4. CASE ~building.named
  <2>1. building'.named = building.named
    BY <1>1, <1>4 DEF IInv, TypeOK, Fillings
  <2>. QED
    BY <1>1, <1>2, <1>3, <1>4, <2>1, QuietStatement
<1>5. CASE building.named
  <2>1. stack' = [stack EXCEPT ![sp] = Function] /\ sp' = sp + 1 /\ sp < StackSize
    BY <1>1, <1>5 DEF Push
  <2>2. One(building.named) = 1
    BY <1>5 DEF One
  <2>3. /\ sp + 1 = Top.slots + Len(Top.locals) /\ drops = << >>
        /\ sp \in Nat /\ Top.slots \in Nat /\ Len(Top.locals) \in Nat
    BY <1>1, <2>2, StackEnds, CountsAreNaturals, TopTypes DEF IInv
  <2>4. \A a \in Live : a.slot <= sp
    BY <2>3, LiveFacts DEF IInv, CellInv
  <2>5. \A u \in Made : location[u] <= sp
    <3>1. \A u \in Made : location[u] < sp + 1
      BY <2>2 DEF CellInv, OpenWillClose, Made
    <3>2. \A u \in Made : location[u] \in Int
      BY CountsAreNaturals DEF IInv, Own
    <3>. QED
      BY <2>3, <3>1, <3>2
  <2>6. ASSUME NEW p \in Held, location[p.upvalue] = sp PROVE cells[p.cell] = Function
    <3>. DEFINE j == Len(Top.locals)
                a == [slot |-> SlotOf(j), cell |-> Top.locals[j].cell,
                      captured |-> Top.locals[j].captured]
    <3>1. j \in 1 .. Len(Top.locals)
      BY <1>5, <2>3 DEF NameIsLocal
    <3>2. a \in Live
      BY <3>1, TopLive DEF IInv
    <3>3. a.slot = sp
      BY <2>3 DEF SlotOf
    <3>. HIDE DEF a
    <3>4. a.cell = p.cell
      BY <2>6, <3>2, <3>3 DEF CellInv, CapturesAreCells
    <3>5. ~(a.slot < sp)
      BY <2>3, <3>3
    <3>. QED
      BY <3>2, <3>4, <3>5 DEF CellInv, LocalsAreCells
  <2>. QED
    BY <1>1, <1>2, <1>3, <2>1, <2>3, <2>4, <2>5, <2>6, ValueAssumption, PushKeepsCells
<1>. QED
  BY <1>4, <1>5

\* A call takes its captures from a closure.
LEMMA CallHeld ==
    ASSUME IInv, NEW params \in Seq(Locals), NEW upvalues \in Seq(Captures),
           frames' = Append(frames, Frame(sp, params, upvalues)),
           Range(upvalues) \subseteq Held, Range(building'.upvalues) \subseteq Held,
           UNCHANGED closures
    PROVE  Held' \subseteq Held
<1>. DEFINE f == Frame(sp, params, upvalues)
<1>1. f.upvalues = upvalues /\ f \in Frames
  <2>1. Len(params) \in Nat /\ sp \in Nat
    BY LenProperties, CountsAreNaturals DEF IInv
  <2>2. <<Len(params)>> \in Seq(Nat)
    BY <2>1
  <2>. QED
    BY <2>1, <2>2 DEF Frame, Frames
<1>2. frames' = Append(frames, f)
  OBVIOUS
<1>. HIDE DEF f
<1>3. /\ Len(frames') = Len(frames) + 1 /\ Len(frames) \in Nat
      /\ frames'[Len(frames) + 1] = f
      /\ \A g \in 1 .. Len(frames) : frames'[g] = frames[g]
  BY <1>1, <1>2, TopTypes, AppendProperties DEF IInv, TypeOK
<1>4. \A g \in 1 .. Len(frames') : Range(frames'[g].upvalues) \subseteq Held
  <2>. SUFFICES ASSUME NEW g \in 1 .. Len(frames')
                PROVE  Range(frames'[g].upvalues) \subseteq Held
    OBVIOUS
  <2>1. CASE g = Len(frames) + 1
    BY <1>1, <1>3, <2>1
  <2>2. CASE g \in 1 .. Len(frames)
    BY <1>3, <2>2, HeldHas
  <2>. QED
    BY <1>3, <2>1, <2>2
<1>. QED
  BY <1>4, HeldHas, HeldWithin

LEMMA CallNewCells ==
    ASSUME IInv, CellInv, CallNew
    PROVE  CellInv'
<1>1. /\ building.on /\ ~building.named
      /\ frames' = Append(frames, Frame(sp, << >>, building.upvalues))
      /\ building'.named = FALSE /\ building'.upvalues = << >>
      /\ UNCHANGED <<stack, sp, cells, location, closed, drops, closures>>
  BY DEF CallNew, NotBuilding, Unseen, machine, code, heap
<1>2. building.upvalues \in Seq(Captures)
  BY BuildingType DEF IInv
<1>3. Held' \subseteq Held
  <2>1. Range(building'.upvalues) \subseteq Held
    BY <1>1 DEF Range
  <2>. QED
    BY <1>1, <1>2, <2>1, NoParameters, HeldHas, CallHeld
<1>4. Live' \subseteq Live /\ FramesApart'
  BY <1>1, <1>2, NoParameters, LiveCalled DEF CellInv
<1>5. building'.named = building.named
  BY <1>1 DEF IInv, TypeOK, Fillings
<1>. QED
  BY <1>1, <1>3, <1>4, <1>5, QuietStatement

LEMMA CallWithoutArgumentCells ==
    ASSUME IInv, CellInv, NEW k \in 1 .. Len(closures), CallWithoutArgument(k)
    PROVE  CellInv'
<1>1. /\ Ready
      /\ frames' = Append(frames, Frame(sp, << >>, closures[k].upvalues))
      /\ UNCHANGED <<stack, sp, cells, location, closed, drops, closures, building>>
  BY DEF CallWithoutArgument, Unseen, machine, code, heap
<1>2. closures[k].upvalues \in Seq(Captures)
  BY UpvaluesOfClosure DEF IInv
<1>3. Held' \subseteq Held
  BY <1>1, <1>2, NoParameters, HeldHas, CallHeld
<1>4. Live' \subseteq Live /\ FramesApart'
  BY <1>1, <1>2, StackEnds, NoParameters, LiveCalled DEF CellInv
<1>. QED
  BY <1>1, <1>3, <1>4, QuietStatement

LEMMA CallWithArgumentCells ==
    ASSUME IInv, CellInv, NEW k \in 1 .. Len(closures), NEW v \in Values,
           CallWithArgument(k, v)
    PROVE  CellInv'
<1>. DEFINE params == <<Local(TRUE, Len(cells) + 1)>>
<1>1. /\ Ready
      /\ frames' = Append(frames, Frame(sp, params, closures[k].upvalues))
      /\ cells' = Append(cells, v)
      /\ stack' = [stack EXCEPT ![sp] = v] /\ sp' = sp + 1 /\ sp < StackSize
      /\ UNCHANGED <<location, closed, drops, closures, building>>
  BY DEF CallWithArgument, Push, code, heap
<1>2. closures[k].upvalues \in Seq(Captures)
  BY UpvaluesOfClosure DEF IInv
<1>3. params \in Seq(Locals) /\ params # << >>
  <2>1. Local(TRUE, Len(cells) + 1) \in Locals
    BY CountsAreNaturals DEF IInv, Local, Locals
  <2>. QED
    BY <2>1, OneElement
<1>4. params = <<Local(TRUE, Len(cells) + 1)>>
  OBVIOUS
<1>. HIDE DEF params
<1>5. Held' \subseteq Held
  BY <1>1, <1>2, <1>3, HeldHas, CallHeld
<1>6. ~building.named
  BY <1>1, StackEnds
<1>7. Live' \subseteq Live \cup {NewLocal(TRUE)} /\ FramesApart'
  BY <1>1, <1>2, <1>3, <1>4, <1>6, LiveCalled DEF CellInv
<1>. QED
  BY <1>1, <1>5, <1>6, <1>7, GrowKeeps

LEMMA TooDeepOrReturnCells ==
    ASSUME IInv, CellInv, CallTooDeep \/ Return
    PROVE  CellInv'
<1>1. UNCHANGED <<stack, sp, frames, drops, cells, location, closed, building, closures>>
  BY DEF CallTooDeep, Return, Unseen, machine, heap
<1>2. Live' = Live /\ FramesApart' /\ Held' = Held
  BY <1>1, LiveSame, HeldSame DEF CellInv
<1>. QED
  BY <1>1, <1>2, QuietStatement

\* The running function keeps its slots and its captures, and of its locals the first.
LEMMA TopShrinks ==
    ASSUME IInv, IInv', FramesApart, NEW f \in Frames, SetTop(f), f.slots = Top.slots,
           f.upvalues = Top.upvalues, Len(f.locals) <= Len(Top.locals),
           \A j \in 1 .. Len(f.locals) : f.locals[j] = Top.locals[j],
           UNCHANGED <<building, closures>>
    PROVE  Live' \subseteq Live /\ FramesApart' /\ Held' \subseteq Held
<1>1. /\ Len(frames) \in Nat \ {0} /\ Len(frames') = Len(frames)
      /\ frames'[Len(frames)] = f /\ frames[Len(frames)] = Top
      /\ \A g \in 1 .. Len(frames) : g # Len(frames) => frames'[g] = frames[g]
  BY TopTypes, SetTopKeeps DEF IInv, Top, Last
<1>2. \A g \in 1 .. Len(frames') :
        /\ frames'[g].slots = frames[g].slots /\ frames'[g].upvalues = frames[g].upvalues
        /\ Len(frames'[g].locals) <= Len(frames[g].locals)
        /\ \A j \in 1 .. Len(frames'[g].locals) : frames'[g].locals[j] = frames[g].locals[j]
  <2>. SUFFICES ASSUME NEW g \in 1 .. Len(frames)
                PROVE  /\ frames'[g].slots = frames[g].slots
                       /\ frames'[g].upvalues = frames[g].upvalues
                       /\ Len(frames'[g].locals) <= Len(frames[g].locals)
                       /\ \A j \in 1 .. Len(frames'[g].locals) :
                            frames'[g].locals[j] = frames[g].locals[j]
    BY <1>1
  <2>1. CASE g = Len(frames)
    BY <1>1, <2>1
  <2>2. CASE g # Len(frames)
    <3>1. Len(frames[g].locals) \in Nat
      BY FrameTypes DEF IInv
    <3>. QED
      BY <1>1, <2>2, <3>1
  <2>. QED
    BY <2>1, <2>2
<1>3. Live' \subseteq Live /\ FramesApart'
  BY <1>1, <1>2, LiveKept DEF IInv
<1>4. Held' \subseteq Held
  BY <1>1, <1>2, HeldKept
<1>. QED
  BY <1>3, <1>4

LEMMA OpenBlockCells ==
    ASSUME IInv, CellInv, OpenBlock
    PROVE  CellInv'
<1>. DEFINE count == Len(Top.locals)
            f == [Top EXCEPT !.blocks = Append(@, count)]
<1>1. UNCHANGED <<stack, sp, drops, cells, location, closed, building, closures>>
  BY DEF OpenBlock, Unseen, machine, code, heap
<1>2. Append(Top.blocks, count) \in Seq(Nat)
  BY TopTypes, AppendProperties DEF IInv
<1>3. SetTop(f)
  BY DEF OpenBlock
<1>. HIDE DEF count
<1>4. /\ f \in Frames /\ f.slots = Top.slots /\ f.locals = Top.locals
      /\ f.upvalues = Top.upvalues /\ Len(Top.locals) \in Nat
  BY <1>2, TopTypes, FrameWithBlocks DEF IInv
<1>. HIDE DEF f
<1>5. Live' \subseteq Live /\ FramesApart' /\ Held' \subseteq Held
  BY <1>1, <1>3, <1>4, OpenBlockInv, TopShrinks DEF CellInv
<1>. QED
  BY <1>1, <1>5, QuietStatement

LEMMA EndBlockCells ==
    ASSUME IInv, CellInv, EndBlock, MirroredEnds
    PROVE  CellInv'
<1>. DEFINE first == Last(Top.blocks)
            count == Len(Top.locals)
            locals == SubSeq(Top.locals, 1, first)
            f == [Top EXCEPT !.locals = SubSeq(@, 1, first), !.blocks = Front(@)]
<1>1. /\ Ready /\ SetTop(f) /\ drops' = BlockEnd(first) /\ Mirrored(first)
      /\ UNCHANGED <<stack, sp, cells, location, closed, building, closures>>
  BY DEF EndBlock, MirroredEnds, Unseen, machine, heap
<1>2. /\ Len(Top.blocks) \in Nat /\ Len(Top.blocks) > 0 /\ count \in Nat
      /\ Top.locals \in Seq(Locals) /\ Top.slots \in Nat /\ Top \in Frames
  BY TopTypes DEF IInv, EndBlock
<1>3. first \in Nat /\ first <= count /\ first \in 0 .. Len(Top.locals)
  BY <1>2, BlocksOfTop DEF IInv, Balanced, Last
<1>. HIDE DEF first
<1>4. /\ locals \in Seq(Locals) /\ Len(locals) = first
      /\ \A m \in 1 .. first : locals[m] = Top.locals[m]
  BY <1>2, <1>3, TakeFront
<1>5. Front(Top.blocks) \in Seq(Nat)
  <2>1. Len(Top.blocks) - 1 \in 0 .. Len(Top.blocks)
    BY <1>2
  <2>. QED
    BY <2>1, TopTypes, TakeFront DEF IInv, Front
<1>6. /\ f \in Frames /\ f.slots = Top.slots /\ f.upvalues = Top.upvalues
      /\ f.locals = locals
  <2>1. locals \in Seq(Locals)
    BY <1>4
  <2>. QED
    BY <1>2, <1>5, <2>1 DEF Frames
<1>. HIDE DEF f, locals
<1>7. Live' \subseteq Live /\ FramesApart' /\ Held' \subseteq Held
  BY <1>1, <1>3, <1>4, <1>6, EndBlockInv, TopShrinks DEF CellInv
<1>8. /\ Len(drops') = count - first
      /\ \A m \in 1 .. count - first :
           Top.locals[first + m].captured => drops'[m] = "close"
  <2>1. count - first \in Nat
    BY <1>2, <1>3
  <2>2. drops' = [m \in 1 .. count - first |->
                     IF Top.locals[first + m].captured THEN "close" ELSE "pop"]
    BY <1>1 DEF BlockEnd
  <2>3. drops' \in [1 .. count - first -> {"pop", "close"}]
    BY <2>2
  <2>4. Len(drops') = count - first
    BY <2>1, <2>3, FunctionIsSeq
  <2>. QED
    BY <2>2, <2>4
<1>9. ASSUME NEW u \in Made, NEW m \in 1 .. count - first, location[u] = sp - m
      PROVE  drops'[m] = "close"
  <2>. DEFINE j == count + 1 - m
              a == [slot |-> SlotOf(j), cell |-> Top.locals[j].cell,
                    captured |-> Top.locals[j].captured]
  <2>1. sp = Top.slots + count
    BY <1>1, <1>2, StackEnds, CountsAreNaturals DEF One, IInv
  <2>2. j \in first + 1 .. count /\ j \in 1 .. Len(Top.locals) /\ first + 1 + count - j = first + m
    BY <1>2, <1>3
  <2>3. SlotOf(j) = location[u]
    BY <1>2, <1>3, <1>9, <2>1 DEF SlotOf
  <2>. HIDE DEF j
  <2>4. a \in Live
    BY <2>2, TopLive DEF IInv
  <2>5. a.slot = location[u] /\ a.captured = Top.locals[j].captured
    BY <2>3
  <2>. HIDE DEF a
  <2>6. Top.locals[j].captured
    BY <2>4, <2>5 DEF CellInv, OpenWillClose, Made
  <2>7. Top.locals[first + m].captured
    BY <1>1, <2>2, <2>6 DEF Mirrored
  <2>. QED
    BY <1>8, <2>7
<1>10. \A u \in Made :
         /\ location[u] < sp + One(building'.named)
         /\ \A m \in 1 .. Len(drops') : location[u] = sp - m => drops'[m] = "close"
  BY <1>1, <1>8, <1>9 DEF CellInv, OpenWillClose, Made
<1>. QED
  BY <1>1, <1>7, <1>10, QuietKeeps

\* The instruction at the head of drops: the slot it drops is above all locals, and
\* what the next one drops is what the next one in the list is for.
LEMMA DropFacts ==
    ASSUME IInv, CellInv, drops # << >>, drops' = Tail(drops), sp' = sp - 1
    PROVE  /\ sp \in Nat /\ sp' \in Nat /\ sp' < sp /\ ~building.named
           /\ Len(drops') \in Nat /\ Len(drops') <= sp'
           /\ \A a \in Live : a.slot < sp'
           /\ \A u \in Made : location[u] < sp' =>
                \A m \in 1 .. Len(drops') : location[u] = sp' - m => drops'[m] = "close"
           /\ \A u \in Made : location[u] = sp' => Head(drops) = "close"
           /\ \A u \in Made : location[u] \in Int /\ location[u] <= sp'
<1>1. /\ Len(drops') = Len(drops) - 1 /\ Len(drops) \in Nat \ {0}
      /\ \A m \in 1 .. Len(drops) - 1 : drops'[m] = drops[m + 1]
      /\ Head(drops) = drops[1]
  BY HeadTailProperties, EmptySeq DEF IInv, TypeOK
<1>2. ~building.named
  BY DEF IInv, Balanced, Pending
<1>3. /\ sp \in Nat /\ Top.slots \in Nat /\ Len(Top.locals) \in Nat
      /\ One(after = "return") \in Nat
  BY TopTypes, CountsAreNaturals DEF IInv, One
<1>4. sp = Top.slots + Len(Top.locals) + Len(drops) + One(after = "return")
  <2>1. One(building.named) = 0 /\ sp + 0 = sp
    BY <1>2, <1>3 DEF One
  <2>. QED
    BY <2>1 DEF IInv, Balanced, StackAccounted
<1>5. sp' \in Nat /\ sp' < sp /\ Len(drops') \in Nat /\ Len(drops') <= sp'
  BY SMTT(30), <1>1, <1>3, <1>4
<1>6. \A a \in Live : a.slot < sp'
  <2>. SUFFICES ASSUME NEW a \in Live PROVE a.slot < sp'
    OBVIOUS
  <2>1. a.slot \in Nat /\ a.slot < Top.slots + Len(Top.locals)
    BY LiveFacts DEF IInv, CellInv
  <2>. QED
    BY <1>1, <1>3, <1>4, <2>1
<1>7. \A u \in Made : location[u] \in Int /\ location[u] <= sp'
  <2>1. One(building.named) = 0
    BY <1>2 DEF One
  <2>2. \A u \in Made : location[u] < sp + 0
    BY <2>1 DEF CellInv, OpenWillClose, Made
  <2>3. \A u \in Made : location[u] \in Int
    BY CountsAreNaturals DEF IInv, Own
  <2>. QED
    BY <1>3, <2>2, <2>3
<1>8. ASSUME NEW u \in Made, NEW m \in 1 .. Len(drops'), location[u] = sp' - m
      PROVE  drops'[m] = "close"
  <2>1. m + 1 \in 1 .. Len(drops) /\ location[u] = sp - (m + 1) /\ drops'[m] = drops[m + 1]
    BY <1>1, <1>3, <1>8
  <2>. QED
    BY <2>1 DEF CellInv, OpenWillClose, Made
<1>9. ASSUME NEW u \in Made, location[u] = sp' PROVE Head(drops) = "close"
  <2>1. 1 \in 1 .. Len(drops) /\ location[u] = sp - 1
    BY <1>1, <1>9
  <2>. QED
    BY <1>1, <2>1 DEF CellInv, OpenWillClose, Made
<1>. QED
  BY <1>2, <1>3, <1>5, <1>6, <1>7, <1>8, <1>9

LEMMA DoPopCells ==
    ASSUME IInv, CellInv, DoPop
    PROVE  CellInv'
<1>. DEFINE last == sp - 1
<1>1. /\ drops # << >> /\ Head(drops) = "pop" /\ sp' = last /\ drops' = Tail(drops)
      /\ UNCHANGED <<stack, frames, cells, location, closed, building, closures>>
  BY DEF DoPop, Pop, Unseen, heap
<1>2. /\ sp' \in Nat /\ sp' < sp /\ ~building.named
      /\ Len(drops') \in Nat /\ Len(drops') <= sp'
      /\ \A a \in Live : a.slot < sp'
      /\ \A u \in Made : location[u] < sp' =>
           \A m \in 1 .. Len(drops') : location[u] = sp' - m => drops'[m] = "close"
      /\ \A u \in Made : location[u] = sp' => Head(drops) = "close"
      /\ \A u \in Made : location[u] \in Int /\ location[u] <= sp'
  BY <1>1, DropFacts
<1>3. Live' = Live /\ FramesApart' /\ Held' = Held
  BY <1>1, LiveSame, HeldSame DEF CellInv
\* No upvalue is open at the slot: nothing would have to be closed.
<1>4. \A u \in Made : ~(location[u] >= last)
  <2>1. \A u \in Made : location[u] # sp'
    BY <1>1, <1>2
  <2>. QED
    BY <1>1, <1>2, <2>1
<1>5. last \in Nat /\ last < sp /\ last <= sp'
  BY <1>1, <1>2
<1>6. \A a \in Live : a.slot < last
  BY <1>1, <1>2
<1>7. \A u \in Made : location[u] < last =>
        \A m \in 1 .. Len(drops') : location[u] = sp' - m => drops'[m] = "close"
  BY <1>1, <1>2
<1>. HIDE DEF last
<1>. QED
  BY <1>1, <1>2, <1>3, <1>4, <1>5, <1>6, <1>7, CloseKeepsCells

LEMMA DoCloseCells ==
    ASSUME IInv, CellInv, NEW n \in 0 .. Len(open), DoClose(n)
    PROVE  CellInv'
<1>. DEFINE last == sp - 1
<1>1. /\ drops # << >> /\ sp' = last /\ drops' = Tail(drops) /\ Closing(n, last)
      /\ UNCHANGED <<stack, frames, cells, building, closures>>
  BY DEF DoClose, Pop, Unseen
<1>2. /\ sp' \in Nat /\ sp' < sp /\ ~building.named
      /\ Len(drops') \in Nat /\ Len(drops') <= sp'
      /\ \A a \in Live : a.slot < sp'
      /\ \A u \in Made : location[u] < sp' =>
           \A m \in 1 .. Len(drops') : location[u] = sp' - m => drops'[m] = "close"
  BY <1>1, DropFacts
<1>3. Live' = Live /\ FramesApart' /\ Held' = Held
  BY <1>1, LiveSame, HeldSame DEF CellInv
<1>4. last \in Nat /\ last < sp /\ last <= sp'
  BY <1>1, <1>2
<1>5. /\ \A a \in Live : a.slot < last
      /\ \A u \in Made : location[u] < last =>
           \A m \in 1 .. Len(drops') : location[u] = sp' - m => drops'[m] = "close"
  BY <1>1, <1>2
<1>. HIDE DEF last
<1>6. /\ Len(location') = Len(location)
      /\ \A u \in Made :
           /\ location'[u] = IF location[u] >= last THEN Own ELSE location[u]
           /\ closed'[u] = IF location[u] >= last THEN stack[location[u]] ELSE closed[u]
  BY <1>1, <1>4, ClosingMeans
<1>. QED
  BY <1>1, <1>2, <1>3, <1>4, <1>5, <1>6, CloseKeepsCells

LEMMA DoNullCells ==
    ASSUME IInv, CellInv, DoNull
    PROVE  CellInv'
<1>1. /\ drops = << >> /\ after = "null"
      /\ stack' = [stack EXCEPT ![sp] = Null] /\ sp' = sp + 1 /\ sp < StackSize
      /\ UNCHANGED <<frames, drops, cells, location, closed, building, closures>>
  BY DEF DoNull, Push, Unseen, heap
<1>2. ~building.named /\ One(building.named) = 0 /\ One(after = "return") = 0 /\ Len(drops) = 0
  BY <1>1 DEF IInv, Balanced, Pending, One
<1>3. /\ sp \in Nat /\ Top.slots \in Nat /\ Len(Top.locals) \in Nat
      /\ sp = Top.slots + Len(Top.locals)
  <2>1. sp \in Nat /\ Top.slots \in Nat /\ Len(Top.locals) \in Nat
    BY CountsAreNaturals, TopTypes DEF IInv
  <2>. QED
    BY <1>2, <2>1 DEF IInv, Balanced, StackAccounted
<1>4. Live' = Live /\ FramesApart' /\ Held' = Held
  BY <1>1, LiveSame, HeldSame DEF CellInv
<1>5. \A a \in Live : a.slot \in Nat /\ a.slot < sp
  BY <1>3, LiveFacts DEF IInv, CellInv
<1>6. \A u \in Made : location[u] \in Int /\ location[u] < sp + 0
  BY <1>2, CountsAreNaturals DEF IInv, CellInv, OpenWillClose, Made, Own
<1>7. \A p \in Held : p.upvalue \in Made
  BY HeldFacts DEF IInv
<1>8. /\ \A a \in Live : a.slot <= sp /\ a.slot # sp
      /\ \A p \in Held : location[p.upvalue] # sp
      /\ \A u \in Made : location[u] <= sp
  BY <1>3, <1>5, <1>6, <1>7
<1>. QED
  BY <1>1, <1>4, <1>8, ValueAssumption, PushKeepsCells

LEMMA DoReturnCells ==
    ASSUME IInv, CellInv, NEW n \in 0 .. Len(open), DoReturn(n)
    PROVE  CellInv'
<1>. DEFINE N == Len(frames)
            last == Top.slots
<1>1. /\ drops = << >> /\ after = "return" /\ Closing(n, last)
      /\ stack' = [stack EXCEPT ![last] = stack[sp - 1]] /\ sp' = last + 1
      /\ frames' = SubSeq(frames, 1, N - 1) /\ drops' = <<"pop">>
      /\ UNCHANGED <<cells, building, closures>>
  BY DEF DoReturn, Unseen, Front
<1>2. /\ N \in Nat /\ N > 1 /\ last \in Nat /\ Len(Top.locals) \in Nat /\ sp \in Nat
      /\ frames[N] = Top
  BY <1>1, TopTypes, CountsAreNaturals DEF IInv, Balanced, Pending, InFunction, Top, Last
<1>3. ~building.named /\ last < sp
  <2>1. /\ ~building.named /\ One(building.named) = 0
        /\ One(after = "return") = 1 /\ Len(drops) = 0
    BY <1>1 DEF IInv, Balanced, Pending, One
  <2>. QED
    BY <1>2, <2>1 DEF IInv, Balanced, StackAccounted
<1>. HIDE DEF last
<1>4. Len(frames') = N - 1 /\ \A g \in 1 .. N - 1 : frames'[g] = frames[g]
  <2>1. N - 1 \in 0 .. Len(frames) /\ frames \in Seq(Frames)
    BY <1>2 DEF IInv, TypeOK
  <2>. HIDE DEF N
  <2>. QED
    BY <1>1, <2>1, TakeFront
<1>5. \A g \in 1 .. N - 1 : g \in 1 .. Len(frames) /\ g < N
  BY <1>2
<1>6. Live' \subseteq Live /\ FramesApart'
  <2>1. \A g \in 1 .. Len(frames') : Len(frames[g].locals) \in Nat
    BY <1>4, <1>5, FrameTypes DEF IInv
  <2>2. \A g \in 1 .. Len(frames') :
          /\ frames'[g].slots = frames[g].slots
          /\ Len(frames'[g].locals) <= Len(frames[g].locals)
          /\ \A j \in 1 .. Len(frames'[g].locals) : frames'[g].locals[j] = frames[g].locals[j]
    BY <1>4, <2>1
  <2>3. Len(frames') <= Len(frames)
    BY <1>2, <1>4
  <2>. QED
    BY <2>2, <2>3, DoReturnInv, LiveKept DEF IInv, CellInv
<1>7. Held' \subseteq Held
  BY SMTT(30), <1>1, <1>2, <1>4, HeldKept
<1>8. ASSUME NEW a \in Live' PROVE a \in Live /\ a.slot < last
  <2>1. PICK g \in 1 .. Len(frames') : \E j \in 1 .. Len(frames'[g].locals) :
           a = [slot |-> frames'[g].slots + j - 1, cell |-> frames'[g].locals[j].cell,
                captured |-> frames'[g].locals[j].captured]
    BY DEF Live
  <2>2. PICK j \in 1 .. Len(frames'[g].locals) :
           a = [slot |-> frames'[g].slots + j - 1, cell |-> frames'[g].locals[j].cell,
                captured |-> frames'[g].locals[j].captured]
    BY <2>1
  <2>3. g \in 1 .. Len(frames) /\ g < N /\ frames'[g] = frames[g]
    BY <1>4, <1>5
  <2>4. frames[g].slots + Len(frames[g].locals) <= last
    BY <1>2, <2>3 DEF CellInv, FramesApart, last
  <2>5. frames[g].slots \in Nat /\ Len(frames[g].locals) \in Nat
    BY <2>3, FrameTypes DEF IInv
  <2>6. a.slot = frames[g].slots + j - 1 /\ j <= Len(frames[g].locals) /\ j \in Nat
    BY <2>2, <2>3
  <2>. QED
    BY SMTT(30), <1>2, <1>6, <2>4, <2>5, <2>6
<1>9. /\ Len(location') = Len(location)
      /\ \A u \in Made :
           /\ location'[u] = IF location[u] >= last THEN Own ELSE location[u]
           /\ closed'[u] = IF location[u] >= last THEN stack[location[u]] ELSE closed[u]
  BY <1>1, <1>2, ClosingMeans
<1>10. \A s \in 0 .. last - 1 : stack'[s] = stack[s]
  <2>1. stack \in [0 .. StackSize - 1 -> Values] /\ sp <= StackSize /\ StackSize \in Nat
    BY BoundAssumption DEF IInv, TypeOK
  <2>. QED
    BY <1>1, <1>2, <1>3, <2>1
<1>11. /\ sp' \in Nat /\ last <= sp' /\ Len(drops') = 1 /\ Len(drops') <= sp'
  BY <1>1, <1>2
<1>12. \A u \in Made : location[u] < last =>
         \A m \in 1 .. Len(drops') : location[u] = sp' - m => drops'[m] = "close"
  <2>1. \A m \in 1 .. Len(drops') : sp' - m = last
    BY <1>1, <1>2, <1>11
  <2>. QED
    BY <1>2, <2>1
<1>13. ~building'.named
  BY <1>1, <1>3
<1>14. FramesApart'
  BY <1>6
<1>. QED
  BY <1>1, <1>2, <1>3, <1>7, <1>8, <1>9, <1>10, <1>11, <1>12, <1>13, <1>14, CloseKeepsCells

--------------------------------------------------------------------------------
(* The invariant *)

LEMMA InitCells == Init => CellInv /\ NameIsLocal
<1>. SUFFICES ASSUME Init PROVE CellInv /\ NameIsLocal
  OBVIOUS
<1>1. /\ Len(frames) = 1 /\ frames[1].locals = << >> /\ frames[1].upvalues = << >>
      /\ building.upvalues = << >> /\ building.named = FALSE
      /\ closures = << >> /\ location = << >>
  BY DEF Init, NotBuilding
<1>2. Live = {}
  <2>1. Len(frames[1].locals) = 0
    BY <1>1
  <2>. QED
    BY <1>1, <2>1 DEF Live
<1>3. Held = {}
  <2>1. /\ Range(frames[1].upvalues) = {} /\ Range(building.upvalues) = {}
        /\ Len(closures) = 0
    BY <1>1 DEF Range
  <2>2. \A f \in 1 .. Len(frames) : f = 1
    BY <1>1
  <2>. QED
    BY <2>1, <2>2 DEF Held
<1>4. FramesApart
  <2>1. \A f, g \in 1 .. Len(frames) : ~(f < g)
    BY <1>1
  <2>. QED
    BY <2>1 DEF FramesApart
<1>5. Len(location) = 0
  BY <1>1
<1>. QED
  BY <1>1, <1>2, <1>3, <1>4, <1>5
  DEF CellInv, LocalsAreCells, CapturesAreCells, OpenWillClose, NameIsLocal

LEMMA StutterCells ==
    ASSUME IInv, CellInv, UNCHANGED vars
    PROVE  CellInv'
<1>1. UNCHANGED <<stack, sp, frames, drops, cells, location, closed, building, closures>>
  BY DEF vars, machine, code, heap
<1>2. Live' = Live /\ FramesApart' /\ Held' = Held
  BY <1>1, LiveSame, HeldSame DEF CellInv
<1>. QED
  BY <1>1, <1>2, QuietStatement

\* The inductive invariant of MirroredSpec.
CInv == IInv /\ CellInv /\ NameIsLocal

LEMMA NextCells == CInv /\ [Next /\ MirroredEnds]_vars => CInv'
<1>. SUFFICES ASSUME CInv, [Next /\ MirroredEnds]_vars PROVE CInv'
  OBVIOUS
<1>1. IInv /\ CellInv /\ NameIsLocal
  BY DEF CInv
<1>2. IInv' /\ NameIsLocal'
  BY <1>1, NextInv, NameKept
<1>3. CellInv'
  <2>1. CASE UseVariable
    BY <1>1, <2>1, DeclareLocalCells, ReadKeepsCells, SetLocalCells, SetUpvalueCells
    DEF UseVariable
  <2>2. CASE MakeClosure
    BY <1>1, <2>2, BeginClosureCells, BeginNamedClosureCells, CaptureSharedCells,
       CaptureNewCells, CaptureUpvalueCells, KeepClosureCells
    DEF MakeClosure
  <2>3. CASE CallFunction
    BY <1>1, <2>3, CallNewCells, CallWithoutArgumentCells, CallWithArgumentCells,
       TooDeepOrReturnCells
    DEF CallFunction
  <2>4. CASE Leave /\ MirroredEnds
    BY <1>1, <2>4, OpenBlockCells, EndBlockCells, TooDeepOrReturnCells, DoPopCells,
       DoNullCells, DoCloseCells, DoReturnCells
    DEF Leave
  <2>5. CASE UNCHANGED vars
    BY <1>1, <2>5, StutterCells
  <2>. QED
    BY <2>1, <2>2, <2>3, <2>4, <2>5 DEF Next
<1>. QED
  BY <1>2, <1>3 DEF CInv

LEMMA MirroredInvariance == MirroredSpec => []CInv
<1>1. Init => CInv
  BY InitInv, InitCells DEF CInv
<1>. QED
  BY <1>1, NextCells, PTL DEF MirroredSpec

\* CellInv: the slots of the locals, the upvalues and the cells they stand for agree
\* after every step of every program whose blocks end as MirroredEnds says: locals do
\* not share a slot, captures of a variable share its one upvalue, and whatever slot is
\* given up next has been captured by nobody or closes what points at it.
THEOREM CellsAgree == MirroredSpec => []CellInv
<1>1. CInv => CellInv
  BY DEF CInv
<1>. QED
  BY <1>1, MirroredInvariance, PTL

\* NoDangling: no upvalue is left open at a slot that was popped, whatever the stack
\* will hold there next (vm.c:1026, 1387).
THEOREM NothingDangles == MirroredSpec => []NoDangling
<1>1. CInv => NoDangling
  <2>. SUFFICES ASSUME IInv, CellInv, Ready, NEW m \in 1 .. Len(open)
                PROVE  location[open[m]] < sp
    BY DEF CInv, NoDangling
  <2>1. One(building.named) = 0 /\ open[m] \in Made
    BY StackEnds, CountsAreNaturals DEF IInv, One
  <2>2. sp \in Nat /\ location[open[m]] < sp + 0
    BY <2>1, CountsAreNaturals DEF IInv, CellInv, OpenWillClose, Made
  <2>. QED
    BY <2>2
<1>. QED
  BY <1>1, MirroredInvariance, PTL

\* ClosuresSeeVariables: a closure kept anywhere has the current value of every variable
\* it mentions, while the variable is a local and after.
THEOREM ClosuresAlwaysSee == MirroredSpec => []ClosuresSeeVariables
<1>1. CInv => ClosuresSeeVariables
  <2>. SUFFICES ASSUME IInv, CellInv, Ready, NEW k \in DOMAIN closures,
                       NEW n \in DOMAIN closures[k].upvalues
                PROVE  LET captured == closures[k].upvalues[n] IN
                       Deref(captured.upvalue) = cells[captured.cell]
    BY DEF CInv, ClosuresSeeVariables
  <2>. DEFINE p == closures[k].upvalues[n]
  <2>1. k \in 1 .. Len(closures)
    BY LenProperties DEF IInv, TypeOK
  <2>2. p \in Range(closures[k].upvalues)
    BY DEF Range
  <2>3. p \in Held
    BY <2>1, <2>2, HeldHas
  <2>. HIDE DEF p
  <2>4. p.upvalue \in Made
    BY <2>3, HeldFacts DEF IInv
  <2>5. One(building.named) = 0
    BY StackEnds DEF One
  <2>6. location[p.upvalue] < sp
    <3>1. sp \in Nat /\ location[p.upvalue] < sp + 0
      BY <2>4, <2>5, CountsAreNaturals DEF IInv, CellInv, OpenWillClose, Made
    <3>. QED
      BY <3>1
  <2>7. Deref(p.upvalue) = cells[p.cell]
    BY <2>3, <2>6 DEF CellInv, CapturesAreCells
  <2>. QED
    BY <2>7 DEF p
<1>. QED
  BY <1>1, MirroredInvariance, PTL

--------------------------------------------------------------------------------
(* The refinement *)

\* What a statement reads is what the variable's cell has.
LEMMA ReadsTheCell ==
    ASSUME IInv, CellInv, Ready
    PROVE  /\ \A j \in 1 .. Len(Top.locals) :
                /\ Top.locals[j].cell \in DOMAIN cells
                /\ stack[SlotOf(j)] = cells[Top.locals[j].cell]
           /\ \A n \in 1 .. Len(Top.upvalues) :
                /\ Top.upvalues[n].cell \in DOMAIN cells
                /\ Deref(Top.upvalues[n].upvalue) = cells[Top.upvalues[n].cell]
<1>1. /\ sp \in Nat /\ sp = Top.slots + Len(Top.locals) /\ One(building.named) = 0
      /\ DOMAIN cells = 1 .. Len(cells)
  <2>1. One(building.named) = 0 /\ sp \in Nat /\ DOMAIN cells = 1 .. Len(cells)
    BY StackEnds, CountsAreNaturals, LenProperties DEF IInv, TypeOK, One
  <2>. QED
    BY <2>1, StackEnds
<1>2. ASSUME NEW j \in 1 .. Len(Top.locals)
      PROVE  /\ Top.locals[j].cell \in DOMAIN cells
             /\ stack[SlotOf(j)] = cells[Top.locals[j].cell]
  <2>. DEFINE a == [slot |-> SlotOf(j), cell |-> Top.locals[j].cell,
                    captured |-> Top.locals[j].captured]
  <2>1. a \in Live /\ a.slot = SlotOf(j) /\ a.cell = Top.locals[j].cell
    BY TopLive DEF IInv
  <2>. HIDE DEF a
  <2>2. a.slot < sp
    BY <1>1, <2>1, LiveFacts DEF IInv, CellInv
  <2>3. a.cell \in 1 .. Len(cells) /\ cells[a.cell] = stack[a.slot]
    BY <2>1, <2>2 DEF CellInv, LocalsAreCells
  <2>. QED
    BY <1>1, <2>1, <2>3
<1>3. ASSUME NEW n \in 1 .. Len(Top.upvalues)
      PROVE  /\ Top.upvalues[n].cell \in DOMAIN cells
             /\ Deref(Top.upvalues[n].upvalue) = cells[Top.upvalues[n].cell]
  <2>. DEFINE p == Top.upvalues[n]
  <2>1. p \in Held /\ p.upvalue \in Made
    BY TopHeld, HeldFacts DEF IInv
  <2>. HIDE DEF p
  <2>2. location[p.upvalue] < sp
    <3>1. location[p.upvalue] < sp + 0
      BY <1>1, <2>1 DEF CellInv, OpenWillClose, Made
    <3>2. location[p.upvalue] \in Int
      BY <2>1, CountsAreNaturals DEF IInv, Own
    <3>. QED
      BY <1>1, <3>1, <3>2
  <2>3. p.cell \in 1 .. Len(cells) /\ Deref(p.upvalue) = cells[p.cell]
    BY <2>1, <2>2 DEF CellInv, CapturesAreCells
  <2>. QED
    BY <1>1, <2>3 DEF p
<1>. QED
  BY <1>2, <1>3

LEMMA OtherStep ==
    ASSUME Unseen
    PROVE  Variables!Next
BY DEF Unseen, NothingRead, Variables!Next, Variables!Other, Variables!NothingRead

LEMMA UseVariableStep ==
    ASSUME IInv, CellInv, UseVariable
    PROVE  Variables!Next
<1>0. Ready
  BY DEF UseVariable, DeclareLocal, GetLocal, SetLocal, GetUpvalue, SetUpvalue
<1>1. CASE \E v \in Values, captured \in BOOLEAN : DeclareLocal(v, captured)
  <2>1. PICK v \in Values : cells' = Append(cells, v) /\ out' = NothingRead
    BY <1>1 DEF DeclareLocal
  <2>2. Variables!Declare(v)
    BY <2>1 DEF NothingRead, Variables!Declare, Variables!NothingRead
  <2>. QED
    BY <2>2 DEF Variables!Next
<1>2. CASE \E j \in 1 .. Len(Top.locals) : GetLocal(j)
  <2>1. PICK j \in 1 .. Len(Top.locals) : GetLocal(j)
    BY <1>2
  <2>2. Variables!Read(Top.locals[j].cell)
    BY <1>0, <2>1, ReadsTheCell DEF GetLocal, Variables!Read
  <2>. QED
    BY <1>0, <2>2, ReadsTheCell DEF Variables!Next
<1>3. CASE \E j \in 1 .. Len(Top.locals), v \in Values : SetLocal(j, v)
  <2>1. PICK j \in 1 .. Len(Top.locals), v \in Values : SetLocal(j, v)
    BY <1>3
  <2>2. Variables!Write(Top.locals[j].cell, v)
    BY <2>1 DEF SetLocal, NothingRead, Variables!Write, Variables!NothingRead
  <2>. QED
    BY <1>0, <2>2, ReadsTheCell DEF Variables!Next
<1>4. CASE \E n \in 1 .. Len(Top.upvalues) : GetUpvalue(n)
  <2>1. PICK n \in 1 .. Len(Top.upvalues) : GetUpvalue(n)
    BY <1>4
  <2>2. Variables!Read(Top.upvalues[n].cell)
    BY <1>0, <2>1, ReadsTheCell DEF GetUpvalue, Variables!Read
  <2>. QED
    BY <1>0, <2>2, ReadsTheCell DEF Variables!Next
<1>5. CASE \E n \in 1 .. Len(Top.upvalues), v \in Values : SetUpvalue(n, v)
  <2>1. PICK n \in 1 .. Len(Top.upvalues), v \in Values : SetUpvalue(n, v)
    BY <1>5
  <2>2. Variables!Write(Top.upvalues[n].cell, v)
    BY <2>1 DEF SetUpvalue, NothingRead, Variables!Write, Variables!NothingRead
  <2>. QED
    BY <1>0, <2>2, ReadsTheCell DEF Variables!Next
<1>. QED
  BY <1>1, <1>2, <1>3, <1>4, <1>5 DEF UseVariable

LEMMA MakeClosureStep ==
    ASSUME MakeClosure
    PROVE  Variables!Next
<1>1. CASE \E captured \in BOOLEAN : BeginNamedClosure(captured)
  <2>1. cells' = Append(cells, Function) /\ out' = NothingRead
    BY <1>1 DEF BeginNamedClosure
  <2>2. Variables!Declare(Function)
    BY <2>1 DEF NothingRead, Variables!Declare, Variables!NothingRead
  <2>. QED
    BY <2>2, ValueAssumption DEF Variables!Next
<1>2. CASE Unseen
  BY <1>2, OtherStep
<1>. QED
  BY <1>1, <1>2
  DEF MakeClosure, BeginClosure, CaptureShared, CaptureNew, CaptureUpvalue, KeepClosure

LEMMA CallFunctionStep ==
    ASSUME CallFunction
    PROVE  Variables!Next
<1>1. CASE \E k \in 1 .. Len(closures), v \in Values : CallWithArgument(k, v)
  <2>1. PICK v \in Values : cells' = Append(cells, v) /\ out' = NothingRead
    BY <1>1 DEF CallWithArgument
  <2>2. Variables!Declare(v)
    BY <2>1 DEF NothingRead, Variables!Declare, Variables!NothingRead
  <2>. QED
    BY <2>2 DEF Variables!Next
<1>2. CASE Unseen
  BY <1>2, OtherStep
<1>. QED
  BY <1>1, <1>2 DEF CallFunction, CallNew, CallWithoutArgument, CallTooDeep

\* ImplementsCells: stack slots, frames and upvalues together behave as one cell for
\* each variable, shared by all functions that mention it.  Every step of the machine
\* declares, writes or reads one cell or does none of that.
THEOREM MachineImplementsCells == MirroredSpec => ImplementsCells
<1>1. Init => Variables!Init
  BY DEF Init, NothingRead, Variables!Init, Variables!NothingRead
<1>2. CInv /\ [Next /\ MirroredEnds]_vars => [Variables!Next]_(Variables!vars)
  <2>. SUFFICES ASSUME CInv, [Next /\ MirroredEnds]_vars
                PROVE  Variables!Next \/ UNCHANGED Variables!vars
    OBVIOUS
  <2>1. IInv /\ CellInv
    BY DEF CInv
  <2>2. CASE UseVariable
    BY <2>1, <2>2, UseVariableStep
  <2>3. CASE MakeClosure
    BY <2>3, MakeClosureStep
  <2>4. CASE CallFunction
    BY <2>4, CallFunctionStep
  <2>5. CASE Leave
    <3>1. Unseen
      BY <2>5 DEF Leave, OpenBlock, EndBlock, Return, DoPop, DoNull, DoClose, DoReturn
    <3>. QED
      BY <3>1, OtherStep
  <2>6. CASE UNCHANGED vars
    BY <2>6 DEF vars, Variables!vars
  <2>. QED
    BY <2>2, <2>3, <2>4, <2>5, <2>6 DEF Next
<1>. QED
  BY <1>1, <1>2, MirroredInvariance, PTL DEF MirroredSpec, ImplementsCells, Variables!Spec
================================================================================
