----------------------------- MODULE UpvaluesProofs ----------------------------
(***************************************************************************)
(* Proofs about Upvalues, for every stack size, every number of frames,    *)
(* blocks, variables and closures.                                         *)
(***************************************************************************)
EXTENDS Upvalues, SequenceTheorems, TLAPS

\* The upvalues made so far.
Made == 1 .. Len(location)

--------------------------------------------------------------------------------
(* Sequences *)

LEMMA FunctionIsSeq ==
    ASSUME NEW S, NEW n \in Nat, NEW f \in [1 .. n -> S]
    PROVE  f \in Seq(S) /\ Len(f) = n
OBVIOUS

\* What SubSeq keeps when it cuts the first n elements.
LEMMA CutFront ==
    ASSUME NEW S, NEW s \in Seq(S), NEW n \in 0 .. Len(s)
    PROVE  LET r == SubSeq(s, n + 1, Len(s)) IN
           /\ r \in Seq(S) /\ Len(r) = Len(s) - n
           /\ \A m \in 1 .. Len(s) - n : r[m] = s[n + m]
<1>1. Len(s) \in Nat /\ \A m \in 1 .. Len(s) : s[m] \in S
  BY LenProperties, ElementOfSeq
<1>2. n + 1 \in Int /\ Len(s) \in Int /\ \A m \in n + 1 .. Len(s) : s[m] \in S
  BY <1>1
<1>. QED
  BY <1>1, <1>2, SubSeqProperties

\* What SubSeq keeps when it takes the first n elements.
LEMMA TakeFront ==
    ASSUME NEW S, NEW s \in Seq(S), NEW n \in 0 .. Len(s)
    PROVE  LET r == SubSeq(s, 1, n) IN
           /\ r \in Seq(S) /\ Len(r) = n
           /\ \A m \in 1 .. n : r[m] = s[m]
<1>1. Len(s) \in Nat /\ \A m \in 1 .. Len(s) : s[m] \in S
  BY LenProperties, ElementOfSeq
<1>2. 1 \in Int /\ n \in Int /\ \A m \in 1 .. n : s[m] \in S
  BY <1>1
<1>3. \A m \in 1 .. n : SubSeq(s, 1, n)[m] = s[m]
  BY <1>1, <1>2, SubSeqProperties
<1>. QED
  BY <1>1, <1>2, <1>3, SubSeqProperties

LEMMA InsertAtProperties ==
    ASSUME NEW S, NEW s \in Seq(S), NEW e \in S, NEW n \in 0 .. Len(s)
    PROVE  /\ InsertAt(s, n + 1, e) \in Seq(S) /\ Len(InsertAt(s, n + 1, e)) = Len(s) + 1
           /\ \A m \in 1 .. n : InsertAt(s, n + 1, e)[m] = s[m]
           /\ InsertAt(s, n + 1, e)[n + 1] = e
           /\ \A m \in n + 1 .. Len(s) : InsertAt(s, n + 1, e)[m + 1] = s[m]
<1>. DEFINE front == SubSeq(s, 1, n)
            back == SubSeq(s, n + 1, Len(s))
            left == front \o <<e>>
            r == left \o back
<1>1. Len(s) \in Nat /\ n \in Nat
  BY LenProperties
<1>2. front \in Seq(S) /\ Len(front) = n /\ \A m \in 1 .. n : front[m] = s[m]
  BY TakeFront
<1>3. /\ back \in Seq(S) /\ Len(back) = Len(s) - n
      /\ \A m \in 1 .. Len(s) - n : back[m] = s[n + m]
  BY CutFront
<1>4. <<e>> \in Seq(S) /\ Len(<<e>>) = 1 /\ <<e>>[1] = e
  OBVIOUS
<1>. HIDE DEF front, back
<1>5. left \in Seq(S) /\ Len(left) = n + 1
  BY <1>1, <1>2, <1>4, ConcatProperties
<1>6. \A m \in 1 .. n : left[m] = s[m]
  BY <1>1, <1>2, <1>4, ConcatProperties
<1>7. left[n + 1] = e
  <2>1. left[n + 1] = <<e>>[(n + 1) - Len(front)]
    <3>1. n + 1 \in 1 .. Len(front) + Len(<<e>>) /\ ~(n + 1 <= Len(front))
      BY <1>1, <1>2, <1>4
    <3>. HIDE DEF left
    <3>2. left[n + 1] = IF n + 1 <= Len(front) THEN front[n + 1] ELSE <<e>>[(n + 1) - Len(front)]
      BY <1>2, <1>4, <3>1, ConcatProperties DEF left
    <3>. QED
      BY <3>1, <3>2
  <2>. QED
    BY <1>1, <1>2, <1>4, <2>1
<1>. HIDE DEF left
<1>8. /\ r \in Seq(S) /\ Len(r) = Len(s) + 1
      /\ \A m \in 1 .. Len(s) + 1 : r[m] = IF m <= n + 1 THEN left[m] ELSE back[m - (n + 1)]
  BY <1>1, <1>3, <1>5, ConcatProperties
<1>9. ASSUME NEW m \in 1 .. n PROVE r[m] = s[m]
  <2>1. m \in 1 .. Len(s) + 1 /\ m <= n + 1
    BY <1>1
  <2>. QED
    BY <1>6, <1>8, <2>1
<1>10. r[n + 1] = e
  <2>1. n + 1 \in 1 .. Len(s) + 1 /\ n + 1 <= n + 1
    BY <1>1
  <2>. QED
    BY <1>7, <1>8, <2>1
<1>11. ASSUME NEW m \in n + 1 .. Len(s) PROVE r[m + 1] = s[m]
  <2>1. /\ m + 1 \in 1 .. Len(s) + 1 /\ ~(m + 1 <= n + 1)
        /\ m - n \in 1 .. Len(s) - n /\ n + (m - n) = m /\ m + 1 - (n + 1) = m - n
    BY <1>1
  <2>2. r[m + 1] = back[m - n]
    BY <1>8, <2>1
  <2>. QED
    BY <1>3, <2>1, <2>2
<1>. QED
  <2>1. InsertAt(s, n + 1, e) = r
    <3>1. (n + 1) - 1 = n
      BY <1>1
    <3>2. InsertAt(s, n + 1, e)
            = SubSeq(s, 1, (n + 1) - 1) \o <<e>> \o SubSeq(s, n + 1, Len(s))
      BY DEF InsertAt
    <3>. QED
      BY <3>1, <3>2 DEF r, left, front, back
  <2>. HIDE DEF r
  <2>. QED
    BY <1>8, <1>9, <1>10, <1>11, <2>1

--------------------------------------------------------------------------------
(* Facts about the state *)

LEMMA TopTypes ==
    ASSUME TypeOK
    PROVE  /\ Len(frames) \in Nat \ {0} /\ Top \in Frames
           /\ Top.slots \in Nat /\ Top.locals \in Seq(Locals) /\ Len(Top.locals) \in Nat
           /\ Top.blocks \in Seq(Nat) /\ Len(Top.blocks) \in Nat
           /\ Top.upvalues \in Seq(Captures)
<1>1. frames \in Seq(Frames) /\ frames # << >>
  BY DEF TypeOK
<1>2. Len(frames) \in Nat \ {0} /\ Len(frames) \in 1 .. Len(frames)
  BY <1>1, EmptySeq
<1>3. Top \in Frames
  BY <1>1, <1>2, ElementOfSeq DEF Top, Last
<1>. QED
  BY <1>2, <1>3, LenProperties DEF Frames

\* The sets the state ranges over only depend on the upvalues made.
LEMMA TypesKept ==
    ASSUME UNCHANGED location
    PROVE  /\ Captures' = Captures /\ Frames' = Frames
           /\ Fillings' = Fillings /\ Closures' = Closures
BY DEF Captures, Frames, Fillings, Closures

LEMMA CountsAreNaturals ==
    ASSUME TypeOK
    PROVE  /\ Len(location) \in Nat /\ Len(open) \in Nat /\ Len(drops) \in Nat
           /\ Len(closures) \in Nat /\ Len(cells) \in Nat /\ sp \in Nat
           /\ \A m \in 1 .. Len(open) : open[m] \in Made
           /\ \A u \in Made : location[u] \in 0 .. StackSize - 1 \cup {Own}
           /\ DOMAIN location = Made /\ DOMAIN closed = Made
<1>1. Len(location) \in Nat /\ Len(open) \in Nat /\ Len(drops) \in Nat
      /\ Len(closures) \in Nat /\ Len(cells) \in Nat /\ sp \in Nat
  BY LenProperties, BoundAssumption DEF TypeOK
<1>2. \A m \in 1 .. Len(open) : open[m] \in Made
  BY ElementOfSeq DEF TypeOK, Made
<1>3. \A u \in Made : location[u] \in 0 .. StackSize - 1 \cup {Own}
  BY ElementOfSeq DEF TypeOK, Made
<1>4. DOMAIN location = Made /\ DOMAIN closed = Made
  BY LenProperties DEF TypeOK, Made
<1>. QED
  BY <1>1, <1>2, <1>3, <1>4

LEMMA UpvalueOfTop ==
    ASSUME TypeOK, NEW n \in 1 .. Len(Top.upvalues)
    PROVE  Top.upvalues[n].upvalue \in Made /\ Top.upvalues[n].cell \in Nat
<1>1. Top.upvalues[n] \in Captures
  BY TopTypes, ElementOfSeq
<1>. QED
  BY <1>1 DEF Captures, Made

\* A frame with other locals or other blocks.
LEMMA FrameWithLocals ==
    ASSUME NEW t \in Frames, NEW locals \in Seq(Locals)
    PROVE  LET f == [t EXCEPT !.locals = locals] IN
           /\ f \in Frames /\ f.slots = t.slots /\ f.locals = locals
           /\ f.blocks = t.blocks /\ f.upvalues = t.upvalues
BY DEF Frames

LEMMA FrameWithBlocks ==
    ASSUME NEW t \in Frames, NEW blocks \in Seq(Nat)
    PROVE  LET f == [t EXCEPT !.blocks = blocks] IN
           /\ f \in Frames /\ f.slots = t.slots /\ f.locals = t.locals
           /\ f.blocks = blocks /\ f.upvalues = t.upvalues
BY DEF Frames

LEMMA BlocksOfTop ==
    ASSUME TypeOK, BlocksNested
    PROVE  /\ \A m \in 1 .. Len(Top.blocks) :
                Top.blocks[m] \in Nat /\ Top.blocks[m] <= Len(Top.locals)
           /\ \A m \in 1 .. Len(Top.blocks) : \A n \in m .. Len(Top.blocks) :
                Top.blocks[m] <= Top.blocks[n]
<1>1. Len(frames) \in 1 .. Len(frames) /\ frames[Len(frames)] = Top
  BY TopTypes DEF Top, Last
<1>2. \A m \in 1 .. Len(Top.blocks) : Top.blocks[m] \in Nat
  BY TopTypes, ElementOfSeq
<1>. QED
  BY <1>1, <1>2 DEF BlocksNested

\* The running frame is the only one a statement changes.
LEMMA SetTopKeeps ==
    ASSUME TypeOK, NEW f \in Frames, SetTop(f)
    PROVE  /\ frames' \in Seq(Frames) /\ frames' # << >> /\ Len(frames') = Len(frames)
           /\ Top' = f
           /\ \A g \in 1 .. Len(frames) : g # Len(frames) => frames'[g] = frames[g]
<1>1. frames \in Seq(Frames) /\ Len(frames) \in 1 .. Len(frames) /\ Len(frames) \in Nat \ {0}
  BY TopTypes DEF TypeOK
<1>2. /\ frames' \in Seq(Frames) /\ Len(frames') = Len(frames)
      /\ \A g \in 1 .. Len(frames) : frames'[g] = IF g = Len(frames) THEN f ELSE frames[g]
  BY <1>1, ExceptSeq DEF SetTop
<1>3. frames' # << >>
  BY <1>1, <1>2, EmptySeq
<1>4. Top' = f
  BY <1>1, <1>2 DEF Top, Last
<1>. QED
  BY <1>2, <1>3, <1>4

LEMMA PushFrameKeeps ==
    ASSUME TypeOK, NEW f \in Frames, frames' = Append(frames, f)
    PROVE  /\ frames' \in Seq(Frames) /\ frames' # << >> /\ Len(frames') = Len(frames) + 1
           /\ Top' = f
           /\ \A g \in 1 .. Len(frames) : frames'[g] = frames[g]
<1>1. frames \in Seq(Frames) /\ Len(frames) \in Nat \ {0}
  BY TopTypes DEF TypeOK
<1>2. /\ frames' \in Seq(Frames) /\ frames' # << >> /\ Len(frames') = Len(frames) + 1
      /\ \A g \in 1 .. Len(frames) : frames'[g] = frames[g]
      /\ frames'[Len(frames) + 1] = f
  BY <1>1, AppendProperties
<1>3. Top' = f
  BY <1>2 DEF Top, Last
<1>. QED
  BY <1>2, <1>3

LEMMA PushKeeps ==
    ASSUME TypeOK, NEW v \in Values, Push(v)
    PROVE  /\ stack' \in [0 .. StackSize - 1 -> Values] /\ sp' \in 0 .. StackSize
           /\ sp < StackSize /\ sp' = sp + 1
BY BoundAssumption DEF TypeOK, Push

\* A slot has a value, a closed upvalue owns one.
LEMMA DerefIsValue ==
    ASSUME TypeOK, NEW u \in Made
    PROVE  Deref(u) \in Values
<1>1. location[u] \in 0 .. StackSize - 1 \cup {Own} /\ closed[u] \in Values
  BY CountsAreNaturals, ElementOfSeq DEF TypeOK, Made
<1>. QED
  BY <1>1 DEF Deref, TypeOK

\* The slot of a local lies on the stack, pushed or not.
LEMMA SlotOfIsSlot ==
    ASSUME TypeOK, Balanced, Ready \/ building.on, NEW j \in 1 .. Len(Top.locals)
    PROVE  SlotOf(j) \in 0 .. StackSize - 1
<1>1. drops = << >> /\ after = "none"
  BY DEF Ready, Balanced, Pending
<1>2. Len(drops) = 0
  BY <1>1
<1>3. sp + One(building.named) = Top.slots + Len(Top.locals)
  BY <1>1, <1>2, TopTypes DEF Balanced, StackAccounted, One
<1>4. sp + One(building.named) <= StackSize
  BY BoundAssumption DEF TypeOK, Balanced, Pending, One
<1>5. Top.slots \in Nat /\ Len(Top.locals) \in Nat /\ Top.slots + Len(Top.locals) <= StackSize
  BY <1>3, <1>4, TopTypes
<1>. QED
  BY <1>5, BoundAssumption DEF SlotOf

--------------------------------------------------------------------------------
(* The list of open upvalues *)

\* Inserting an upvalue where the walk of vm.c:540 stops.
LEMMA InsertKeepsOrder ==
    ASSUME TypeOK, OpenSorted, OpenListed, Balanced, building.on,
           NEW j \in 1 .. Len(Top.locals), NEW n \in 0 .. Len(open), CaptureNew(j, n)
    PROVE  /\ location' \in Seq(0 .. StackSize - 1 \cup {Own}) /\ closed' \in Seq(Values)
           /\ Len(location') = Len(location) + 1 /\ Len(closed') = Len(location')
           /\ open' \in Seq(1 .. Len(location'))
           /\ OpenSorted' /\ OpenListed'
<1>. DEFINE u == Len(location) + 1
            slot == SlotOf(j)
<1>1. /\ Len(location) \in Nat /\ Len(open) \in Nat /\ n \in Nat /\ u \in Nat
      /\ \A m \in 1 .. Len(open) : open[m] \in 1 .. Len(location)
  BY CountsAreNaturals DEF Made
<1>2. slot \in 0 .. StackSize - 1
  BY SlotOfIsSlot
<1>3. /\ location' \in Seq(0 .. StackSize - 1 \cup {Own}) /\ Len(location') = u
      /\ \A v \in 1 .. Len(location) : location'[v] = location[v]
      /\ location'[u] = slot
  <2>1. location' = Append(location, slot)
    BY DEF CaptureNew
  <2>2. location \in Seq(0 .. StackSize - 1 \cup {Own}) /\ slot \in 0 .. StackSize - 1 \cup {Own}
    BY <1>2 DEF TypeOK
  <2>. HIDE DEF slot
  <2>. QED
    BY <2>1, <2>2, AppendProperties
<1>4. closed' \in Seq(Values) /\ Len(closed') = u
  <2>1. closed \in Seq(Values) /\ Len(closed) = Len(location) /\ Null \in Values
    BY ValueAssumption DEF TypeOK
  <2>2. closed' = Append(closed, Null)
    BY DEF CaptureNew
  <2>. QED
    BY <2>1, <2>2, AppendProperties
<1>5. /\ open' \in Seq(1 .. u) /\ Len(open') = Len(open) + 1
      /\ \A m \in 1 .. n : open'[m] = open[m]
      /\ open'[n + 1] = u
      /\ \A m \in n + 1 .. Len(open) : open'[m + 1] = open[m]
  <2>1. open \in Seq(1 .. u) /\ u \in 1 .. u
    <3>1. 1 .. Len(location) \subseteq 1 .. u
      BY <1>1
    <3>. QED
      BY <1>1, <3>1, SeqMonotonic DEF TypeOK
  <2>2. open' = InsertAt(open, n + 1, u)
    BY DEF CaptureNew
  <2>. DEFINE S == 1 .. u
  <2>3. open \in Seq(S) /\ u \in S
    BY <2>1
  <2>. HIDE DEF u, S
  <2>4. /\ open' \in Seq(S) /\ Len(open') = Len(open) + 1
        /\ \A m \in 1 .. n : open'[m] = open[m]
        /\ open'[n + 1] = u
        /\ \A m \in n + 1 .. Len(open) : open'[m + 1] = open[m]
    <3>1. n \in 0 .. Len(open)
      OBVIOUS
    <3>2. open' \in Seq(S) /\ Len(open') = Len(open) + 1
      BY <2>2, <2>3, <3>1, InsertAtProperties
    <3>3. \A m \in 1 .. n : open'[m] = open[m]
      BY <2>2, <2>3, <3>1, InsertAtProperties
    <3>4. open'[n + 1] = u
      BY <2>2, <2>3, <3>1, InsertAtProperties
    <3>5. \A m \in n + 1 .. Len(open) : open'[m + 1] = open[m]
      <4>1. \A m \in n + 1 .. Len(open) : InsertAt(open, n + 1, u)[m + 1] = open[m]
        BY <2>3, <3>1, InsertAtProperties
      <4>. QED
        BY <2>2, <4>1
    <3>. QED
      BY <3>2, <3>3, <3>4, <3>5
  <2>. QED
    BY <2>4 DEF S
<1>9. \A m \in 1 .. Len(open) :
        location[open[m]] \in Int /\ (m <= n => location[open[m]] > slot)
  BY <1>1, CountsAreNaturals DEF CaptureNew, Above, Made, Own
<1>10. ASSUME NEW m \in n + 1 .. Len(open) PROVE location[open[m]] < slot
  <2>1. n + 1 \in 1 .. Len(open) /\ m \in 1 .. Len(open) /\ n < Len(open)
    BY <1>1
  <2>2. location[open[n + 1]] < slot
    <3>1. location[open[n + 1]] <= slot /\ location[open[n + 1]] # slot
      BY <2>1 DEF CaptureNew, Above
    <3>. QED
      BY <1>2, <1>9, <2>1, <3>1
  <2>3. m = n + 1 \/ location[open[n + 1]] > location[open[m]]
    <3>1. m = n + 1 \/ n + 1 < m
      BY <1>1
    <3>. QED
      BY <2>1, <3>1 DEF OpenSorted
  <2>. QED
    BY <1>2, <1>9, <2>1, <2>2, <2>3
<1>. HIDE DEF slot
\* Where each element of the new list comes from.
<1>11. ASSUME NEW m \in 1 .. Len(open) + 1
       PROVE  \/ m \in 1 .. n /\ open'[m] = open[m]
              \/ m = n + 1 /\ open'[m] = u
              \/ m - 1 \in n + 1 .. Len(open) /\ open'[m] = open[m - 1]
  <2>1. m \in 1 .. n \/ m = n + 1 \/ (m - 1 \in n + 1 .. Len(open) /\ m = (m - 1) + 1)
    BY <1>1
  <2>. QED
    BY <1>5, <2>1
<1>12. \A m \in 1 .. Len(open) : location'[open[m]] = location[open[m]]
  BY <1>1, <1>3
<1>13. OpenSorted'
  <2>. SUFFICES ASSUME NEW m \in 1 .. Len(open) + 1, NEW k \in 1 .. Len(open) + 1, m < k
                PROVE  location'[open'[m]] > location'[open'[k]]
    BY <1>5 DEF OpenSorted
  <2>1. CASE m \in 1 .. n /\ k \in 1 .. n
    <3>1. m \in 1 .. Len(open) /\ k \in 1 .. Len(open)
      BY <1>1, <2>1
    <3>. QED
      <4>1. open'[m] = open[m] /\ open'[k] = open[k]
        BY <1>5, <2>1
      <4>2. location[open[m]] > location[open[k]]
        BY <3>1 DEF OpenSorted
      <4>. QED
        BY <1>12, <3>1, <4>1, <4>2
  <2>2. CASE m \in 1 .. n /\ k = n + 1
    <3>1. m \in 1 .. Len(open) /\ m <= n
      BY <1>1, <2>2
    <3>. QED
      BY <1>3, <1>5, <1>9, <1>12, <2>2, <3>1
  <2>3. CASE m \in 1 .. n /\ k - 1 \in n + 1 .. Len(open)
    <3>1. m \in 1 .. Len(open) /\ k - 1 \in 1 .. Len(open) /\ m < k - 1 /\ k = (k - 1) + 1
      BY <1>1, <2>3
    <3>2. open'[m] = open[m] /\ open'[k] = open[k - 1]
      BY <1>5, <2>3, <3>1
    <3>. QED
      BY <1>12, <3>1, <3>2 DEF OpenSorted
  <2>4. CASE m = n + 1 /\ k - 1 \in n + 1 .. Len(open)
    <3>1. k - 1 \in 1 .. Len(open) /\ k = (k - 1) + 1
      BY <1>1, <2>4
    <3>2. open'[m] = u /\ open'[k] = open[k - 1]
      BY <1>5, <2>4, <3>1
    <3>3. location'[open'[k]] < slot
      BY <1>10, <1>12, <2>4, <3>1, <3>2
    <3>. QED
      BY <1>2, <1>3, <1>9, <1>12, <3>1, <3>2, <3>3
  <2>5. CASE m - 1 \in n + 1 .. Len(open) /\ k - 1 \in n + 1 .. Len(open)
    <3>1. /\ m - 1 \in 1 .. Len(open) /\ k - 1 \in 1 .. Len(open) /\ m - 1 < k - 1
          /\ m = (m - 1) + 1 /\ k = (k - 1) + 1
      BY <1>1, <2>5
    <3>2. open'[m] = open[m - 1] /\ open'[k] = open[k - 1]
      BY <1>5, <2>5, <3>1
    <3>. QED
      BY <1>12, <3>1, <3>2 DEF OpenSorted
  <2>6. /\ m \in 1 .. n \/ m = n + 1 \/ m - 1 \in n + 1 .. Len(open)
        /\ k \in 1 .. n \/ k = n + 1 \/ k - 1 \in n + 1 .. Len(open)
    BY <1>11
  <2>. QED
    BY <1>1, <2>1, <2>2, <2>3, <2>4, <2>5, <2>6
<1>14. OpenListed'
  <2>. SUFFICES ASSUME NEW v \in 1 .. u
                PROVE  location'[v] # Own <=> \E m \in 1 .. Len(open) + 1 : open'[m] = v
    <3>1. DOMAIN location' = 1 .. u
      BY <1>3, LenProperties
    <3>. QED
      BY <1>5, <3>1 DEF OpenListed
  <2>1. CASE v = u
    <3>1. n + 1 \in 1 .. Len(open) + 1 /\ open'[n + 1] = u
      BY <1>1, <1>5
    <3>2. location'[v] # Own
      BY <1>2, <1>3, <2>1 DEF Own
    <3>. QED
      BY <2>1, <3>1, <3>2
  <2>2. CASE v # u
    <3>1. v \in 1 .. Len(location) /\ location'[v] = location[v]
      BY <1>1, <1>3, <2>2
    <3>2. location[v] # Own <=> \E m \in 1 .. Len(open) : open[m] = v
      BY <3>1, CountsAreNaturals DEF OpenListed, Made
    <3>3. ASSUME NEW m \in 1 .. Len(open), open[m] = v
          PROVE  \E k \in 1 .. Len(open) + 1 : open'[k] = v
      <4>1. CASE m \in 1 .. n
        <5>1. m \in 1 .. Len(open) + 1 /\ open'[m] = open[m]
          BY <1>1, <1>5, <4>1
        <5>. QED
          BY <3>3, <5>1
      <4>2. CASE m \in n + 1 .. Len(open)
        <5>1. m + 1 \in 1 .. Len(open) + 1 /\ open'[m + 1] = open[m]
          BY <1>1, <1>5, <4>2
        <5>. QED
          BY <3>3, <5>1
      <4>. QED
        BY <1>1, <4>1, <4>2
    <3>4. ASSUME NEW m \in 1 .. Len(open) + 1, open'[m] = v
          PROVE  \E k \in 1 .. Len(open) : open[k] = v
      <4>1. CASE m \in 1 .. n /\ open'[m] = open[m]
        <5>1. m \in 1 .. Len(open)
          BY <1>1, <4>1
        <5>. QED
          BY <3>4, <4>1, <5>1
      <4>2. CASE m - 1 \in n + 1 .. Len(open) /\ open'[m] = open[m - 1]
        <5>1. m - 1 \in 1 .. Len(open)
          BY <1>1, <4>2
        <5>. QED
          BY <3>4, <4>2, <5>1
      <4>. QED
        BY <1>11, <2>2, <3>4, <4>1, <4>2
    <3>. QED
      BY <3>1, <3>2, <3>3, <3>4
  <2>. QED
    BY <2>1, <2>2
<1>. QED
  BY <1>3, <1>4, <1>5, <1>13, <1>14

\* vm_close_upvalues takes a prefix of the list and closes just that.
LEMMA ClosingKeepsOrder ==
    ASSUME TypeOK, OpenSorted, OpenListed,
           NEW last \in Nat, NEW n \in 0 .. Len(open), Closing(n, last)
    PROVE  /\ location' \in Seq(0 .. StackSize - 1 \cup {Own}) /\ closed' \in Seq(Values)
           /\ Len(location') = Len(location) /\ Len(closed') = Len(location')
           /\ open' \in Seq(1 .. Len(location'))
           /\ OpenSorted' /\ OpenListed'
<1>. DEFINE closing == {open[m] : m \in 1 .. n}
<1>1. /\ Len(location) \in Nat /\ Len(open) \in Nat /\ n \in Nat
      /\ \A m \in 1 .. Len(open) : open[m] \in Made /\ location[open[m]] \in Int
      /\ \A u \in Made : location[u] \in 0 .. StackSize - 1 \cup {Own}
      /\ DOMAIN location = Made /\ DOMAIN closed = Made
  BY CountsAreNaturals DEF Own
<1>2. \A u \in closing : u \in Made /\ location[u] \in 0 .. StackSize - 1
  <2>1. \A m \in 1 .. n : open[m] \in Made /\ location[open[m]] >= last
    BY <1>1 DEF Closing
  <2>. QED
    BY <1>1, <2>1 DEF Own
<1>3. /\ location' = [u \in Made |-> IF u \in closing THEN Own ELSE location[u]]
      /\ closed' = [u \in Made |-> IF u \in closing THEN stack[location[u]] ELSE closed[u]]
      /\ open' = SubSeq(open, n + 1, Len(open))
  BY <1>1 DEF Closing
<1>4. /\ open' \in Seq(Made) /\ Len(open') = Len(open) - n
      /\ \A m \in 1 .. Len(open) - n : open'[m] = open[n + m]
  <2>1. open \in Seq(Made)
    BY DEF TypeOK, Made
  <2>2. LET r == SubSeq(open, n + 1, Len(open)) IN
        /\ r \in Seq(Made) /\ Len(r) = Len(open) - n
        /\ \A m \in 1 .. Len(open) - n : r[m] = open[n + m]
    BY <2>1, CutFront
  <2>. QED
    BY <1>3, <2>2
<1>5. \A u \in Made : location'[u] = IF u \in closing THEN Own ELSE location[u]
  BY <1>3
<1>6. location' \in Seq(0 .. StackSize - 1 \cup {Own}) /\ Len(location') = Len(location)
  <2>1. location' \in [Made -> 0 .. StackSize - 1 \cup {Own}]
    BY <1>1, <1>3
  <2>. QED
    BY <1>1, <2>1, FunctionIsSeq DEF Made
<1>7. closed' \in Seq(Values) /\ Len(closed') = Len(location)
  <2>1. \A u \in Made : closed[u] \in Values
    BY <1>1, ElementOfSeq DEF TypeOK, Made
  <2>2. \A u \in closing : stack[location[u]] \in Values
    BY <1>2 DEF TypeOK
  <2>3. closed' \in [Made -> Values]
    BY <1>3, <2>1, <2>2
  <2>. QED
    BY <1>1, <2>3, FunctionIsSeq DEF Made
<1>8. \A m \in n + 1 .. Len(open) : open[m] \notin closing
  <2>. SUFFICES ASSUME NEW m \in n + 1 .. Len(open), NEW k \in 1 .. n, open[m] = open[k]
                PROVE  FALSE
    OBVIOUS
  <2>1. k \in 1 .. Len(open) /\ m \in 1 .. Len(open) /\ k < m
    BY <1>1
  <2>. QED
    BY <1>1, <2>1 DEF OpenSorted
<1>. HIDE DEF closing
<1>9. OpenSorted'
  <2>. SUFFICES ASSUME NEW m \in 1 .. Len(open) - n, NEW k \in 1 .. Len(open) - n, m < k
                PROVE  location'[open'[m]] > location'[open'[k]]
    BY <1>4 DEF OpenSorted
  <2>1. /\ n + m \in 1 .. Len(open) /\ n + k \in 1 .. Len(open) /\ n + m < n + k
        /\ n + m \in n + 1 .. Len(open) /\ n + k \in n + 1 .. Len(open)
    BY <1>1
  <2>2. location'[open'[m]] = location[open[n + m]] /\ location'[open'[k]] = location[open[n + k]]
    BY <1>1, <1>4, <1>5, <1>8, <2>1
  <2>. QED
    BY <2>1, <2>2 DEF OpenSorted
<1>10. OpenListed'
  <2>. SUFFICES ASSUME NEW u \in Made
                PROVE  location'[u] # Own <=> \E m \in 1 .. Len(open) - n : open'[m] = u
    BY <1>3, <1>4 DEF OpenListed
  <2>1. location[u] # Own <=> \E m \in 1 .. Len(open) : open[m] = u
    BY <1>1 DEF OpenListed
  <2>2. CASE u \in closing
    <3>1. location'[u] = Own
      BY <1>5, <2>2
    <3>2. ASSUME NEW m \in 1 .. Len(open) - n PROVE open'[m] # u
      <4>1. n + m \in n + 1 .. Len(open)
        BY <1>1
      <4>. QED
        BY <1>4, <1>8, <2>2, <4>1
    <3>. QED
      BY <3>1, <3>2
  <2>3. CASE u \notin closing
    <3>1. location'[u] = location[u]
      BY <1>5, <2>3
    <3>2. ASSUME NEW m \in 1 .. Len(open), open[m] = u
          PROVE  \E k \in 1 .. Len(open) - n : open'[k] = u
      <4>1. m > n
        BY <1>1, <2>3, <3>2 DEF closing
      <4>2. m - n \in 1 .. Len(open) - n /\ open'[m - n] = open[m]
        BY <1>1, <1>4, <4>1
      <4>. QED
        BY <3>2, <4>2
    <3>3. ASSUME NEW k \in 1 .. Len(open) - n, open'[k] = u
          PROVE  \E m \in 1 .. Len(open) : open[m] = u
      <4>1. n + k \in 1 .. Len(open) /\ open[n + k] = u
        BY <1>1, <1>4, <3>3
      <4>. QED
        BY <4>1
    <3>. QED
      BY <2>1, <3>1, <3>2, <3>3
  <2>. QED
    BY <2>2, <2>3
<1>. QED
  BY <1>4, <1>6, <1>7, <1>9, <1>10 DEF Made

\* Steps that leave the upvalues alone.
LEMMA OpenKept ==
    ASSUME OpenSorted, OpenListed, UNCHANGED <<location, open>>
    PROVE  OpenSorted' /\ OpenListed'
BY DEF OpenSorted, OpenListed

--------------------------------------------------------------------------------
(* Statements about variables *)

\* Writing to a slot, a closed upvalue or a cell changes no structure.
LEMMA WriteKeeps ==
    ASSUME IInv, UNCHANGED <<sp, frames, code, location, open, building, closures>>,
           stack' \in [0 .. StackSize - 1 -> Values],
           closed' \in Seq(Values), Len(closed') = Len(closed), cells' \in Seq(Values)
    PROVE  IInv'
<1>1. TypeOK'
  BY TypesKept DEF IInv, TypeOK, code
<1>2. OpenSorted' /\ OpenListed'
  BY OpenKept DEF IInv
<1>3. Top' = Top
  BY DEF Top
<1>4. Balanced'
  BY <1>3 DEF IInv, Balanced, FramesStacked, BlocksNested, StackAccounted, Pending,
     InFunction, code
<1>. QED
  BY <1>1, <1>2, <1>4 DEF IInv

LEMMA GetLocalInv ==
    ASSUME IInv, NEW j \in 1 .. Len(Top.locals), GetLocal(j)
    PROVE  IInv'
BY WriteKeeps DEF GetLocal, IInv, TypeOK, machine, code, heap

LEMMA GetUpvalueInv ==
    ASSUME IInv, NEW n \in 1 .. Len(Top.upvalues), GetUpvalue(n)
    PROVE  IInv'
BY WriteKeeps DEF GetUpvalue, IInv, TypeOK, machine, code, heap

LEMMA CellWriteIsTyped ==
    ASSUME TypeOK, NEW c, NEW v \in Values
    PROVE  [cells EXCEPT ![c] = v] \in Seq(Values)
<1>1. Len(cells) \in Nat /\ cells \in [1 .. Len(cells) -> Values]
  BY LenProperties DEF TypeOK
<1>2. [cells EXCEPT ![c] = v] \in [1 .. Len(cells) -> Values]
  BY <1>1
<1>. QED
  BY <1>1, <1>2, FunctionIsSeq

LEMMA SetLocalInv ==
    ASSUME IInv, NEW j \in 1 .. Len(Top.locals), NEW v \in Values, SetLocal(j, v)
    PROVE  IInv'
<1>1. stack' \in [0 .. StackSize - 1 -> Values]
  BY DEF SetLocal, IInv, TypeOK
<1>2. cells' \in Seq(Values)
  BY CellWriteIsTyped DEF SetLocal, IInv
<1>3. closed' \in Seq(Values) /\ Len(closed') = Len(closed)
  BY DEF SetLocal, heap, IInv, TypeOK
<1>. QED
  BY <1>1, <1>2, <1>3, WriteKeeps DEF SetLocal, heap

LEMMA SetUpvalueInv ==
    ASSUME IInv, NEW n \in 1 .. Len(Top.upvalues), NEW v \in Values, SetUpvalue(n, v)
    PROVE  IInv'
<1>. DEFINE u == Top.upvalues[n].upvalue
<1>1. u \in Made
  BY UpvalueOfTop DEF IInv
<1>2. cells' \in Seq(Values)
  BY CellWriteIsTyped DEF SetUpvalue, IInv
<1>3. CASE location[u] = Own
  <2>1. closed' = [closed EXCEPT ![u] = v] /\ UNCHANGED stack
    BY <1>3 DEF SetUpvalue
  <2>2. closed \in Seq(Values) /\ u \in 1 .. Len(closed)
    BY <1>1 DEF IInv, TypeOK, Made
  <2>. HIDE DEF u
  <2>3. closed' \in Seq(Values) /\ Len(closed') = Len(closed)
    BY <2>1, <2>2, ExceptSeq
  <2>4. stack' \in [0 .. StackSize - 1 -> Values]
    BY <2>1 DEF IInv, TypeOK
  <2>. QED
    BY <1>2, <2>3, <2>4, WriteKeeps DEF SetUpvalue
<1>4. CASE location[u] # Own
  <2>1. stack' = [stack EXCEPT ![location[u]] = v] /\ UNCHANGED closed
    BY <1>4 DEF SetUpvalue
  <2>2. stack' \in [0 .. StackSize - 1 -> Values]
    BY <2>1 DEF IInv, TypeOK
  <2>3. closed' \in Seq(Values) /\ Len(closed') = Len(closed)
    BY <2>1 DEF IInv, TypeOK
  <2>. QED
    BY <1>2, <2>2, <2>3, WriteKeeps DEF SetUpvalue
<1>. QED
  BY <1>3, <1>4

\* A new local of the running function; its slot is pushed now or later.
LEMMA AddLocalKeeps ==
    ASSUME TypeOK, FramesStacked, BlocksNested, InFunction,
           NEW captured \in BOOLEAN, AddLocal(captured)
    PROVE  /\ frames' \in Seq(Frames) /\ frames' # << >> /\ Len(frames') = Len(frames)
           /\ Top'.slots = Top.slots /\ Len(Top'.locals) = Len(Top.locals) + 1
           /\ FramesStacked' /\ BlocksNested'
<1>. DEFINE local == Local(captured, Len(cells) + 1)
            f == [Top EXCEPT !.locals = Append(@, local)]
<1>1. local \in Locals
  BY CountsAreNaturals DEF Local, Locals
<1>2. /\ Append(Top.locals, local) \in Seq(Locals)
      /\ Len(Append(Top.locals, local)) = Len(Top.locals) + 1
  <2>. HIDE DEF local
  <2>. QED
    BY <1>1, TopTypes, AppendProperties
<1>3. /\ f \in Frames /\ f.slots = Top.slots /\ f.locals = Append(Top.locals, local)
      /\ f.blocks = Top.blocks /\ f.upvalues = Top.upvalues
  <2>. HIDE DEF local
  <2>. QED
    BY <1>2, TopTypes, FrameWithLocals
<1>4. SetTop(f)
  BY DEF AddLocal
<1>. HIDE DEF local, f
<1>5. /\ frames' \in Seq(Frames) /\ frames' # << >> /\ Len(frames') = Len(frames)
      /\ Top' = f
      /\ \A g \in 1 .. Len(frames) : g # Len(frames) => frames'[g] = frames[g]
  BY <1>3, <1>4, SetTopKeeps
<1>6. Len(frames) \in Nat /\ Len(frames) > 1 /\ Len(Top.locals) \in Nat /\ Len(Top.blocks) \in Nat
  BY TopTypes DEF InFunction
<1>7. frames'[Len(frames)] = f /\ frames[Len(frames)] = Top
  BY <1>5 DEF Top, Last
<1>8. f.slots = Top.slots /\ f.blocks = Top.blocks /\ Len(f.locals) = Len(Top.locals) + 1
  BY <1>2, <1>3
<1>9. FramesStacked'
  <2>1. frames'[1] = frames[1]
    BY <1>5, <1>6
  <2>2. ASSUME NEW g \in 1 .. Len(frames) - 1
        PROVE  frames'[g + 1].slots = frames'[g].slots + Len(frames'[g].locals)
    <3>1. g \in 1 .. Len(frames) /\ g # Len(frames) /\ g + 1 \in 1 .. Len(frames)
      BY <1>6
    <3>2. frames'[g + 1].slots = frames[g + 1].slots
      BY <1>5, <1>7, <1>8, <3>1
    <3>. QED
      BY <1>5, <3>1, <3>2 DEF FramesStacked
  <2>. QED
    BY <1>5, <2>1, <2>2 DEF FramesStacked
<1>10. BlocksNested'
  <2>. SUFFICES ASSUME NEW g \in 1 .. Len(frames), NEW m \in 1 .. Len(frames'[g].blocks)
                PROVE  /\ frames'[g].blocks[m] <= Len(frames'[g].locals)
                       /\ \A n \in m .. Len(frames'[g].blocks) :
                            frames'[g].blocks[m] <= frames'[g].blocks[n]
    BY <1>5 DEF BlocksNested
  <2>1. CASE g # Len(frames)
    BY <1>5, <2>1 DEF BlocksNested
  <2>2. CASE g = Len(frames)
    <3>1. m \in 1 .. Len(frames[g].blocks) /\ frames'[g].blocks = frames[g].blocks
      BY <1>7, <1>8, <2>2
    <3>2. /\ Top.blocks[m] <= Len(Top.locals) /\ Top.blocks[m] \in Nat
          /\ \A n \in m .. Len(Top.blocks) : Top.blocks[m] <= Top.blocks[n]
      BY <1>6, <1>7, <2>2, <3>1, TopTypes, ElementOfSeq DEF BlocksNested
    <3>. QED
      BY <1>6, <1>7, <1>8, <2>2, <3>1, <3>2
  <2>. QED
    BY <2>1, <2>2
<1>. QED
  BY <1>5, <1>8, <1>9, <1>10

LEMMA DeclareLocalInv ==
    ASSUME IInv, NEW v \in Values, NEW captured \in BOOLEAN, DeclareLocal(v, captured)
    PROVE  IInv'
<1>1. TypeOK /\ FramesStacked /\ BlocksNested /\ InFunction
  BY DEF IInv, Balanced, DeclareLocal, RoomForLocal
<1>2. /\ frames' \in Seq(Frames) /\ frames' # << >> /\ Len(frames') = Len(frames)
      /\ Top'.slots = Top.slots /\ Len(Top'.locals) = Len(Top.locals) + 1
      /\ FramesStacked' /\ BlocksNested'
  BY <1>1, AddLocalKeeps DEF DeclareLocal
<1>3. stack' \in [0 .. StackSize - 1 -> Values] /\ sp' \in 0 .. StackSize /\ sp' = sp + 1
  BY <1>1, PushKeeps DEF DeclareLocal
<1>4. cells' \in Seq(Values)
  BY AppendProperties DEF DeclareLocal, IInv, TypeOK
<1>5. TypeOK'
  BY <1>2, <1>3, <1>4, TypesKept DEF IInv, TypeOK, DeclareLocal, code, heap
<1>6. StackAccounted'
  <2>1. Len(drops) = 0 /\ ~building.on /\ after = "none" /\ ~building.named
    BY DEF DeclareLocal, Ready, IInv, Balanced, Pending
  <2>2. sp \in Nat /\ Top.slots \in Nat /\ Len(Top.locals) \in Nat
    BY <1>1, TopTypes, CountsAreNaturals
  <2>3. UNCHANGED <<drops, after, building>>
    BY DEF DeclareLocal, code
  <2>. QED
    BY <1>2, <1>3, <2>1, <2>2, <2>3 DEF IInv, Balanced, StackAccounted, One
<1>7. Pending'
  BY <1>2 DEF IInv, Balanced, Pending, InFunction, DeclareLocal, Ready, code
<1>8. OpenSorted' /\ OpenListed'
  BY OpenKept DEF IInv, DeclareLocal, heap
<1>. QED
  BY <1>2, <1>5, <1>6, <1>7, <1>8 DEF IInv, Balanced

--------------------------------------------------------------------------------
(* OP_MAKE_CLOSURE *)

\* Steps that leave the frames and the height of the stack alone.
LEMMA FramesKept ==
    ASSUME FramesStacked, BlocksNested, UNCHANGED frames
    PROVE  /\ FramesStacked' /\ BlocksNested' /\ Top' = Top
           /\ InFunction' = InFunction
BY DEF FramesStacked, BlocksNested, Top, InFunction

LEMMA BuildingType ==
    ASSUME TypeOK
    PROVE  /\ building.upvalues \in Seq(Captures)
           /\ building.on \in BOOLEAN /\ building.named \in BOOLEAN
BY DEF TypeOK, Fillings

LEMMA BeginClosureInv ==
    ASSUME IInv, BeginClosure
    PROVE  IInv'
<1>1. building' = [on |-> TRUE, named |-> FALSE, upvalues |-> << >>]
  BY DEF BeginClosure, NotBuilding
<1>2. TypeOK'
  <2>1. building' \in Fillings
    BY <1>1 DEF Fillings
  <2>. QED
    BY <2>1, TypesKept DEF IInv, TypeOK, BeginClosure, Unseen, machine, code, heap
<1>3. OpenSorted' /\ OpenListed'
  BY OpenKept DEF IInv, BeginClosure, heap
<1>4. FramesStacked' /\ BlocksNested' /\ Top' = Top /\ InFunction' = InFunction
  BY FramesKept DEF IInv, Balanced, BeginClosure
<1>5. StackAccounted'
  <2>1. ~building.named
    BY DEF BeginClosure, Ready, IInv, Balanced, Pending
  <2>. QED
    BY <1>1, <1>4, <2>1 DEF IInv, Balanced, StackAccounted, One, BeginClosure, machine, code
<1>6. Pending'
  BY <1>1, <1>4 DEF IInv, Balanced, Pending, BeginClosure, Ready, machine, code
<1>. QED
  BY <1>2, <1>3, <1>4, <1>5, <1>6 DEF IInv, Balanced

LEMMA BeginNamedClosureInv ==
    ASSUME IInv, NEW captured \in BOOLEAN, BeginNamedClosure(captured)
    PROVE  IInv'
<1>1. building' = [on |-> TRUE, named |-> TRUE, upvalues |-> << >>]
  BY DEF BeginNamedClosure, NotBuilding
<1>2. TypeOK /\ FramesStacked /\ BlocksNested /\ InFunction
  BY DEF IInv, Balanced, BeginNamedClosure, RoomForLocal
<1>3. /\ frames' \in Seq(Frames) /\ frames' # << >> /\ Len(frames') = Len(frames)
      /\ Top'.slots = Top.slots /\ Len(Top'.locals) = Len(Top.locals) + 1
      /\ FramesStacked' /\ BlocksNested'
  BY <1>2, AddLocalKeeps DEF BeginNamedClosure
<1>4. cells' \in Seq(Values)
  BY AppendProperties, ValueAssumption DEF BeginNamedClosure, IInv, TypeOK
<1>5. TypeOK'
  <2>1. building' \in Fillings
    BY <1>1 DEF Fillings
  <2>. QED
    BY <1>3, <1>4, <2>1, TypesKept DEF IInv, TypeOK, BeginNamedClosure, machine, code, heap
<1>6. StackAccounted'
  <2>1. Len(drops) = 0 /\ after = "none" /\ ~building.named
    BY DEF BeginNamedClosure, Ready, IInv, Balanced, Pending
  <2>2. sp \in Nat /\ Top.slots \in Nat /\ Len(Top.locals) \in Nat
    BY <1>2, TopTypes, CountsAreNaturals
  <2>3. UNCHANGED <<sp, drops, after>>
    BY DEF BeginNamedClosure, machine, code
  <2>4. building'.named
    BY <1>1
  <2>. QED
    BY <1>3, <2>1, <2>2, <2>3, <2>4 DEF IInv, Balanced, StackAccounted, One
<1>7. Pending'
  BY <1>1, <1>3 DEF IInv, Balanced, Pending, InFunction, BeginNamedClosure, Ready, machine, code
<1>8. OpenSorted' /\ OpenListed'
  BY OpenKept DEF IInv, BeginNamedClosure, heap
<1>. QED
  BY <1>3, <1>5, <1>6, <1>7, <1>8 DEF IInv, Balanced

\* A closure that gets one more upvalue is still being filled.
LEMMA GetsKeeps ==
    ASSUME TypeOK, NEW u, NEW cell, Gets(u, cell), NEW S,
           building.upvalues \in Seq(S), [upvalue |-> u, cell |-> cell] \in S
    PROVE  /\ building' \in [on : BOOLEAN, named : BOOLEAN, upvalues : Seq(S)]
           /\ building'.on = building.on /\ building'.named = building.named
<1>. DEFINE c == [upvalue |-> u, cell |-> cell]
<1>1. Append(building.upvalues, c) \in Seq(S)
  BY AppendProperties
<1>2. building \in [on : BOOLEAN, named : BOOLEAN, upvalues : Seq(Captures)]
  BY DEF TypeOK, Fillings
<1>3. building' = [building EXCEPT !.upvalues = Append(@, c)]
  BY DEF Gets
<1>. HIDE DEF c
<1>. QED
  BY <1>1, <1>2, <1>3

\* Filling a closure moves nothing on the stack.
LEMMA FillingKeeps ==
    ASSUME IInv, UNCHANGED <<machine, frames, code>>,
           building'.on = building.on, building'.named = building.named
    PROVE  Balanced'
<1>1. FramesStacked' /\ BlocksNested' /\ Top' = Top /\ InFunction' = InFunction
  BY FramesKept DEF IInv, Balanced
<1>2. StackAccounted'
  BY <1>1 DEF IInv, Balanced, StackAccounted, One, machine, code
<1>3. Pending'
  BY <1>1 DEF IInv, Balanced, Pending, machine, code
<1>. QED
  BY <1>1, <1>2, <1>3 DEF Balanced

LEMMA CellOfLocal ==
    ASSUME TypeOK, NEW j \in 1 .. Len(Top.locals)
    PROVE  Top.locals[j].cell \in Nat
<1>1. Top.locals[j] \in Locals
  BY TopTypes, ElementOfSeq
<1>. QED
  BY <1>1 DEF Locals

\* A closure gets an upvalue that exists.
LEMMA GetsOldInv ==
    ASSUME IInv, NEW u \in Made, NEW cell \in Nat, Gets(u, cell), Unseen,
           UNCHANGED <<machine, frames, code, heap, closures>>
    PROVE  IInv'
<1>1. /\ building' \in [on : BOOLEAN, named : BOOLEAN, upvalues : Seq(Captures)]
      /\ building'.on = building.on /\ building'.named = building.named
  <2>1. [upvalue |-> u, cell |-> cell] \in Captures
    BY DEF Captures, Made
  <2>. QED
    BY <2>1, BuildingType, GetsKeeps DEF IInv
<1>2. TypeOK'
  BY <1>1, TypesKept DEF IInv, TypeOK, Unseen, machine, code, heap, Fillings
<1>3. OpenSorted' /\ OpenListed'
  BY OpenKept DEF IInv, heap
<1>4. Balanced'
  BY <1>1, FillingKeeps
<1>. QED
  BY <1>2, <1>3, <1>4 DEF IInv

LEMMA CaptureSharedInv ==
    ASSUME IInv, NEW j \in 1 .. Len(Top.locals), NEW n \in 0 .. Len(open), CaptureShared(j, n)
    PROVE  IInv'
<1>1. n < Len(open) /\ Gets(open[n + 1], Top.locals[j].cell)
  BY DEF CaptureShared
<1>2. open[n + 1] \in Made
  <2>1. n + 1 \in 1 .. Len(open)
    BY <1>1, CountsAreNaturals DEF IInv
  <2>. QED
    BY <2>1, CountsAreNaturals DEF IInv
<1>3. Top.locals[j].cell \in Nat
  BY CellOfLocal DEF IInv
<1>. QED
  BY <1>1, <1>2, <1>3, GetsOldInv DEF CaptureShared

LEMMA CaptureUpvalueInv ==
    ASSUME IInv, NEW n \in 1 .. Len(Top.upvalues), CaptureUpvalue(n)
    PROVE  IInv'
<1>1. Top.upvalues[n].upvalue \in Made /\ Top.upvalues[n].cell \in Nat
  BY UpvalueOfTop DEF IInv
<1>. QED
  BY <1>1, GetsOldInv DEF CaptureUpvalue

LEMMA CaptureNewInv ==
    ASSUME IInv, NEW j \in 1 .. Len(Top.locals), NEW n \in 0 .. Len(open), CaptureNew(j, n)
    PROVE  IInv'
<1>1. building.on
  BY DEF CaptureNew, Wanted
<1>2. /\ location' \in Seq(0 .. StackSize - 1 \cup {Own}) /\ closed' \in Seq(Values)
      /\ Len(location') = Len(location) + 1 /\ Len(closed') = Len(location')
      /\ open' \in Seq(1 .. Len(location'))
      /\ OpenSorted' /\ OpenListed'
  BY <1>1, InsertKeepsOrder DEF IInv
<1>3. Captures \subseteq Captures'
  BY <1>2, CountsAreNaturals DEF IInv, Captures
<1>4. Seq(Captures) \subseteq Seq(Captures')
  BY <1>3, SeqMonotonic
<1>5. /\ building' \in Fillings'
      /\ building'.on = building.on /\ building'.named = building.named
  <2>1. [upvalue |-> Len(location) + 1, cell |-> Top.locals[j].cell] \in Captures'
    BY <1>2, CellOfLocal, CountsAreNaturals DEF IInv, Captures
  <2>2. building.upvalues \in Seq(Captures')
    BY <1>4, BuildingType DEF IInv
  <2>3. Gets(Len(location) + 1, Top.locals[j].cell)
    BY DEF CaptureNew
  <2>4. /\ building' \in [on : BOOLEAN, named : BOOLEAN, upvalues : Seq(Captures')]
        /\ building'.on = building.on /\ building'.named = building.named
    BY <2>1, <2>2, <2>3, GetsKeeps DEF IInv
  <2>. QED
    BY <2>4 DEF Fillings
<1>6. frames \in Seq(Frames')
  <2>1. Frames \subseteq Frames'
    BY <1>4 DEF Frames
  <2>. QED
    BY <2>1, SeqMonotonic DEF IInv, TypeOK
<1>7. closures \in Seq(Closures')
  <2>1. Closures \subseteq Closures'
    BY <1>4 DEF Closures
  <2>. QED
    BY <2>1, SeqMonotonic DEF IInv, TypeOK
<1>8. TypeOK'
  BY <1>2, <1>5, <1>6, <1>7 DEF IInv, TypeOK, CaptureNew, Unseen, machine, code
<1>9. Balanced'
  BY <1>5, FillingKeeps DEF CaptureNew
<1>. QED
  BY <1>2, <1>8, <1>9 DEF IInv

LEMMA KeepClosureInv ==
    ASSUME IInv, NEW arity \in 0 .. MaxArity, KeepClosure(arity)
    PROVE  IInv'
<1>. DEFINE c == [upvalues |-> building.upvalues, arity |-> arity]
<1>1. closures' \in Seq(Closures)
  <2>1. c \in Closures /\ closures \in Seq(Closures) /\ closures' = Append(closures, c)
    BY BuildingType DEF KeepClosure, IInv, TypeOK, Closures
  <2>. HIDE DEF c
  <2>. QED
    BY <2>1, AppendProperties
<1>2. building' = [on |-> FALSE, named |-> FALSE, upvalues |-> << >>]
  BY DEF KeepClosure, NotBuilding
<1>3. building' \in Fillings
  BY <1>2 DEF Fillings
<1>4. building.on /\ Len(drops) = 0 /\ drops = << >> /\ after = "none"
  BY DEF KeepClosure, IInv, Balanced, Pending
<1>5. /\ stack' \in [0 .. StackSize - 1 -> Values] /\ sp' \in 0 .. StackSize
      /\ sp' = sp + One(building.named)
  <2>1. CASE building.named
    <3>1. Push(Function)
      BY <2>1 DEF KeepClosure
    <3>. QED
      BY <2>1, <3>1, PushKeeps, ValueAssumption DEF IInv, One
  <2>2. CASE ~building.named
    BY <2>2, CountsAreNaturals DEF KeepClosure, machine, IInv, TypeOK, One
  <2>. QED
    BY <2>1, <2>2
<1>6. FramesStacked' /\ BlocksNested' /\ Top' = Top /\ InFunction' = InFunction
  BY FramesKept DEF IInv, Balanced, KeepClosure
<1>7. TypeOK'
  BY <1>1, <1>3, <1>5, TypesKept DEF IInv, TypeOK, KeepClosure, Unseen, code, heap
<1>8. StackAccounted'
  <2>1. sp' = Top.slots + Len(Top.locals) + Len(drops) + One(after = "return")
    BY <1>5 DEF IInv, Balanced, StackAccounted
  <2>2. One(building'.named) = 0 /\ sp' + 0 = sp'
    BY <1>2, <1>5, BoundAssumption DEF One
  <2>3. UNCHANGED <<drops, after>>
    BY DEF KeepClosure, code
  <2>. QED
    BY <1>6, <2>1, <2>2, <2>3 DEF StackAccounted
<1>9. Pending'
  BY <1>2, <1>6 DEF IInv, Balanced, Pending, KeepClosure, code
<1>10. OpenSorted' /\ OpenListed'
  BY OpenKept DEF IInv, KeepClosure, heap
<1>. QED
  BY <1>6, <1>7, <1>8, <1>9, <1>10 DEF IInv, Balanced

--------------------------------------------------------------------------------
(* Calls *)

\* A call stacks a frame right above the caller's locals; its argument, if it has
\* one, is its first local.
LEMMA CallKeeps ==
    ASSUME IInv, ~building.named, drops = << >>, after = "none",
           NEW upvalues \in Seq(Captures), NEW params \in Seq(Locals), Len(params) \in {0, 1},
           frames' = Append(frames, Frame(sp, params, upvalues)),
           stack' \in [0 .. StackSize - 1 -> Values],
           sp' = sp + Len(params), sp' \in 0 .. StackSize,
           cells' \in Seq(Values),
           building' \in {building, NotBuilding}, ~building'.on,
           UNCHANGED <<code, heap, closures>>
    PROVE  IInv'
<1>. DEFINE f == Frame(sp, params, upvalues)
<1>1. sp \in Nat /\ Len(frames) \in Nat \ {0} /\ Len(params) \in Nat
  BY CountsAreNaturals, TopTypes DEF IInv
<1>2. /\ f \in Frames /\ f.slots = sp /\ f.locals = params /\ f.blocks = <<Len(params)>>
  BY <1>1 DEF Frame, Frames
<1>. HIDE DEF f
<1>3. /\ frames' \in Seq(Frames) /\ frames' # << >> /\ Len(frames') = Len(frames) + 1
      /\ Top' = f
      /\ \A g \in 1 .. Len(frames) : frames'[g] = frames[g]
  BY <1>2, PushFrameKeeps DEF IInv, f
<1>4. building' \in Fillings /\ ~building'.named
  <2>1. NotBuilding \in Fillings /\ ~NotBuilding.named
    BY DEF NotBuilding, Fillings
  <2>. QED
    BY <2>1 DEF IInv, TypeOK
<1>5. TypeOK'
  BY <1>3, <1>4, TypesKept DEF IInv, TypeOK, code, heap
<1>6. OpenSorted' /\ OpenListed'
  BY OpenKept DEF IInv, heap
<1>7. /\ Top.slots \in Nat /\ Len(Top.locals) \in Nat
      /\ sp = Top.slots + Len(Top.locals)
  <2>1. Len(drops) = 0
    OBVIOUS
  <2>. QED
    BY <1>1, <2>1, TopTypes DEF IInv, Balanced, StackAccounted, One
<1>8. frames'[Len(frames) + 1] = f /\ frames[Len(frames)] = Top
  BY <1>3 DEF Top, Last
<1>9. FramesStacked'
  <2>1. frames'[1] = frames[1]
    BY <1>1, <1>3
  <2>2. ASSUME NEW g \in 1 .. Len(frames)
        PROVE  frames'[g + 1].slots = frames'[g].slots + Len(frames'[g].locals)
    <3>1. CASE g = Len(frames)
      BY <1>2, <1>3, <1>7, <1>8, <3>1
    <3>2. CASE g # Len(frames)
      <4>1. g \in 1 .. Len(frames) - 1 /\ g + 1 \in 1 .. Len(frames)
        BY <1>1, <3>2
      <4>. QED
        BY <1>3, <4>1 DEF IInv, Balanced, FramesStacked
    <3>. QED
      BY <3>1, <3>2
  <2>3. Len(frames') - 1 = Len(frames)
    BY <1>1, <1>3
  <2>. QED
    BY <2>1, <2>2, <2>3 DEF IInv, Balanced, FramesStacked
<1>10. BlocksNested'
  <2>. SUFFICES ASSUME NEW g \in 1 .. Len(frames) + 1, NEW m \in 1 .. Len(frames'[g].blocks)
                PROVE  /\ frames'[g].blocks[m] <= Len(frames'[g].locals)
                       /\ \A n \in m .. Len(frames'[g].blocks) :
                            frames'[g].blocks[m] <= frames'[g].blocks[n]
    BY <1>3 DEF BlocksNested
  <2>1. CASE g = Len(frames) + 1
    <3>1. frames'[g].blocks = <<Len(params)>> /\ frames'[g].locals = params
      BY <1>2, <1>8, <2>1
    <3>. QED
      BY <1>1, <3>1
  <2>2. CASE g # Len(frames) + 1
    <3>1. g \in 1 .. Len(frames)
      BY <1>1, <2>2
    <3>. QED
      BY <1>3, <3>1 DEF IInv, Balanced, BlocksNested
  <2>. QED
    BY <2>1, <2>2
<1>11. StackAccounted'
  <2>1. Len(drops') = 0 /\ after' = "none"
    BY DEF code
  <2>2. Top'.slots = sp /\ Len(Top'.locals) = Len(params)
    BY <1>2, <1>3
  <2>3. One(building'.named) = 0 /\ One(after' = "return") = 0
    BY <1>4, <2>1 DEF One
  <2>. QED
    BY <1>1, <2>1, <2>2, <2>3 DEF StackAccounted
<1>12. Pending'
  BY <1>4 DEF Pending, code
<1>. QED
  BY <1>5, <1>6, <1>9, <1>10, <1>11, <1>12 DEF IInv, Balanced

LEMMA OneElement ==
    ASSUME NEW S, NEW x \in S
    PROVE  <<x>> \in Seq(S) /\ Len(<<x>>) = 1
OBVIOUS

LEMMA NoParameters == << >> \in Seq(Locals) /\ Len(<< >>) = 0
OBVIOUS

LEMMA CallNewInv ==
    ASSUME IInv, CallNew
    PROVE  IInv'
<1>1. drops = << >> /\ after = "none" /\ ~building.named
  BY DEF CallNew, IInv, Balanced, Pending
<1>2. building.upvalues \in Seq(Captures)
  BY BuildingType DEF IInv
<1>3. building' = NotBuilding /\ ~building'.on
  BY DEF CallNew, NotBuilding
<1>4. /\ stack' \in [0 .. StackSize - 1 -> Values] /\ sp' = sp + 0 /\ sp' \in 0 .. StackSize
      /\ cells' \in Seq(Values)
  BY CountsAreNaturals DEF CallNew, Unseen, machine, IInv, TypeOK
<1>. QED
  BY <1>1, <1>2, <1>3, <1>4, NoParameters, CallKeeps DEF CallNew

LEMMA UpvaluesOfClosure ==
    ASSUME TypeOK, NEW k \in 1 .. Len(closures)
    PROVE  closures[k].upvalues \in Seq(Captures)
<1>1. closures[k] \in Closures
  BY ElementOfSeq DEF TypeOK
<1>. QED
  BY <1>1 DEF Closures

LEMMA CallWithoutArgumentInv ==
    ASSUME IInv, NEW k \in 1 .. Len(closures), CallWithoutArgument(k)
    PROVE  IInv'
<1>1. drops = << >> /\ after = "none" /\ ~building.named /\ ~building.on
  BY DEF CallWithoutArgument, Ready, IInv, Balanced, Pending
<1>2. closures[k].upvalues \in Seq(Captures)
  BY UpvaluesOfClosure DEF IInv
<1>3. building' = building
  BY DEF CallWithoutArgument
<1>4. /\ stack' \in [0 .. StackSize - 1 -> Values] /\ sp' = sp + 0 /\ sp' \in 0 .. StackSize
      /\ cells' \in Seq(Values)
  BY CountsAreNaturals DEF CallWithoutArgument, Unseen, machine, IInv, TypeOK
<1>. QED
  BY <1>1, <1>2, <1>3, <1>4, NoParameters, CallKeeps DEF CallWithoutArgument

LEMMA CallWithArgumentInv ==
    ASSUME IInv, NEW k \in 1 .. Len(closures), NEW v \in Values, CallWithArgument(k, v)
    PROVE  IInv'
<1>. DEFINE params == <<Local(TRUE, Len(cells) + 1)>>
<1>1. drops = << >> /\ after = "none" /\ ~building.named /\ ~building.on
  BY DEF CallWithArgument, Ready, IInv, Balanced, Pending
<1>2. closures[k].upvalues \in Seq(Captures)
  BY UpvaluesOfClosure DEF IInv
<1>3. building' = building
  BY DEF CallWithArgument
<1>4. params \in Seq(Locals) /\ Len(params) = 1
  <2>1. Local(TRUE, Len(cells) + 1) \in Locals
    BY CountsAreNaturals DEF IInv, Local, Locals
  <2>. QED
    BY <2>1, OneElement
<1>5. stack' \in [0 .. StackSize - 1 -> Values] /\ sp' = sp + 1 /\ sp' \in 0 .. StackSize
  BY PushKeeps DEF CallWithArgument, IInv
<1>6. cells' \in Seq(Values)
  BY AppendProperties DEF CallWithArgument, IInv, TypeOK
<1>7. /\ frames' = Append(frames, Frame(sp, params, closures[k].upvalues))
      /\ UNCHANGED <<code, heap, closures>>
  BY DEF CallWithArgument
<1>. HIDE DEF params
<1>. QED
  BY <1>1, <1>2, <1>3, <1>4, <1>5, <1>6, <1>7, CallKeeps

LEMMA CallTooDeepInv ==
    ASSUME IInv, CallTooDeep
    PROVE  IInv'
<1>1. TypeOK'
  BY TypesKept DEF IInv, TypeOK, CallTooDeep, Unseen, machine, heap
<1>2. OpenSorted' /\ OpenListed'
  BY OpenKept DEF IInv, CallTooDeep, heap
<1>3. FramesStacked' /\ BlocksNested' /\ Top' = Top /\ InFunction' = InFunction
  BY FramesKept DEF IInv, Balanced, CallTooDeep
<1>4. StackAccounted' /\ Pending'
  BY <1>3 DEF IInv, Balanced, StackAccounted, Pending, CallTooDeep, Ready, machine, One
<1>. QED
  BY <1>1, <1>2, <1>3, <1>4 DEF IInv, Balanced

--------------------------------------------------------------------------------
(* Blocks and returns *)

LEMMA OpenBlockInv ==
    ASSUME IInv, OpenBlock
    PROVE  IInv'
<1>. DEFINE count == Len(Top.locals)
            f == [Top EXCEPT !.blocks = Append(@, count)]
<1>1. /\ Len(frames) \in Nat /\ Len(frames) > 1 /\ count \in Nat
      /\ Len(Top.blocks) \in Nat /\ Top.slots \in Nat
  BY TopTypes DEF IInv, OpenBlock, InFunction
<1>2. /\ Append(Top.blocks, count) \in Seq(Nat)
      /\ Len(Append(Top.blocks, count)) = Len(Top.blocks) + 1
      /\ \A m \in 1 .. Len(Top.blocks) : Append(Top.blocks, count)[m] = Top.blocks[m]
      /\ Append(Top.blocks, count)[Len(Top.blocks) + 1] = count
  <2>1. Top.blocks \in Seq(Nat) /\ count \in Nat
    BY TopTypes DEF IInv
  <2>. HIDE DEF count
  <2>. QED
    BY <2>1, AppendProperties
<1>3. /\ f \in Frames /\ f.slots = Top.slots /\ f.locals = Top.locals
      /\ f.blocks = Append(Top.blocks, count)
  <2>. HIDE DEF count
  <2>. QED
    BY <1>2, TopTypes, FrameWithBlocks DEF IInv
<1>4. SetTop(f)
  BY DEF OpenBlock
<1>. HIDE DEF f
<1>5. /\ frames' \in Seq(Frames) /\ frames' # << >> /\ Len(frames') = Len(frames)
      /\ Top' = f
      /\ \A g \in 1 .. Len(frames) : g # Len(frames) => frames'[g] = frames[g]
  BY <1>3, <1>4, SetTopKeeps DEF IInv
<1>6. frames'[Len(frames)] = f /\ frames[Len(frames)] = Top
  BY <1>5 DEF Top, Last
<1>7. TypeOK'
  BY <1>5, TypesKept DEF IInv, TypeOK, OpenBlock, Unseen, machine, code, heap
<1>8. OpenSorted' /\ OpenListed'
  BY OpenKept DEF IInv, OpenBlock, heap
<1>9. FramesStacked'
  <2>1. \A g \in 1 .. Len(frames) :
          frames'[g].slots = frames[g].slots /\ frames'[g].locals = frames[g].locals
    BY <1>3, <1>5, <1>6
  <2>2. \A g \in 1 .. Len(frames) - 1 : g \in 1 .. Len(frames) /\ g + 1 \in 1 .. Len(frames)
    BY <1>1
  <2>. QED
    BY <1>1, <1>5, <2>1, <2>2 DEF IInv, Balanced, FramesStacked
<1>10. BlocksNested'
  <2>. SUFFICES ASSUME NEW g \in 1 .. Len(frames), NEW m \in 1 .. Len(frames'[g].blocks)
                PROVE  /\ frames'[g].blocks[m] <= Len(frames'[g].locals)
                       /\ \A n \in m .. Len(frames'[g].blocks) :
                            frames'[g].blocks[m] <= frames'[g].blocks[n]
    BY <1>5 DEF BlocksNested
  <2>1. CASE g # Len(frames)
    BY <1>5, <2>1 DEF IInv, Balanced, BlocksNested
  <2>2. CASE g = Len(frames)
    <3>. DEFINE blocks == Append(Top.blocks, count)
    <3>1. frames'[g].blocks = blocks /\ frames'[g].locals = Top.locals
      BY <1>3, <1>6, <2>2
    <3>2. \A n \in 1 .. Len(Top.blocks) : Top.blocks[n] <= count /\ Top.blocks[n] \in Nat
      BY BlocksOfTop DEF IInv, Balanced
    <3>3. \A k \in 1 .. Len(Top.blocks) : \A n \in k .. Len(Top.blocks) :
            Top.blocks[k] <= Top.blocks[n]
      BY BlocksOfTop DEF IInv, Balanced
    <3>. HIDE DEF blocks
    <3>4. \A n \in 1 .. Len(Top.blocks) : blocks[n] = Top.blocks[n]
      BY <1>2 DEF blocks
    <3>5. blocks[Len(Top.blocks) + 1] = count /\ Len(blocks) = Len(Top.blocks) + 1
      BY <1>2 DEF blocks
    <3>6. m \in 1 .. Len(Top.blocks) + 1
      BY <3>1, <3>5
    <3>7. CASE m = Len(Top.blocks) + 1
      BY <1>1, <3>1, <3>5, <3>7
    <3>8. CASE m \in 1 .. Len(Top.blocks)
      <4>1. blocks[m] <= count
        BY <3>2, <3>4, <3>8
      <4>2. ASSUME NEW n \in m .. Len(Top.blocks) + 1 PROVE blocks[m] <= blocks[n]
        <5>1. CASE n = Len(Top.blocks) + 1
          BY <3>5, <4>1, <5>1
        <5>2. CASE n \in m .. Len(Top.blocks)
          <6>1. n \in 1 .. Len(Top.blocks)
            BY <1>1, <3>8, <5>2
          <6>. QED
            BY <3>3, <3>4, <3>8, <5>2, <6>1
        <5>. QED
          BY <1>1, <3>8, <5>1, <5>2
      <4>. QED
        BY <3>1, <3>5, <4>1, <4>2
    <3>. QED
      <4>1. m = Len(Top.blocks) + 1 \/ m \in 1 .. Len(Top.blocks)
        BY <1>1, <3>6
      <4>. QED
        BY <3>7, <3>8, <4>1
  <2>. QED
    BY <2>1, <2>2
<1>11. StackAccounted'
  BY <1>3, <1>5 DEF IInv, Balanced, StackAccounted, OpenBlock, machine, code
<1>12. Pending'
  BY <1>5 DEF IInv, Balanced, Pending, OpenBlock, Ready, InFunction, machine, code
<1>. QED
  BY <1>7, <1>8, <1>9, <1>10, <1>11, <1>12 DEF IInv, Balanced

LEMMA EndBlockInv ==
    ASSUME IInv, EndBlock
    PROVE  IInv'
<1>. DEFINE first == Last(Top.blocks)
            locals == SubSeq(Top.locals, 1, first)
            blocks == Front(Top.blocks)
            f == [Top EXCEPT !.locals = SubSeq(@, 1, first), !.blocks = Front(@)]
            last == Len(Top.blocks)
<1>1. /\ Len(frames) \in Nat /\ Len(frames) > 1 /\ Len(Top.locals) \in Nat
      /\ Top.slots \in Nat /\ last \in Nat /\ last > 0
      /\ Top.blocks \in Seq(Nat) /\ Top.locals \in Seq(Locals)
  BY TopTypes DEF IInv, EndBlock, InFunction
<1>2. frames[Len(frames)] = Top
  BY DEF Top, Last
<1>3. /\ \A m \in 1 .. last : Top.blocks[m] \in Nat /\ Top.blocks[m] <= Len(Top.locals)
      /\ \A m \in 1 .. last : \A n \in m .. last : Top.blocks[m] <= Top.blocks[n]
  BY BlocksOfTop DEF IInv, Balanced
<1>4. first = Top.blocks[last] /\ first \in Nat /\ first <= Len(Top.locals)
  BY <1>1, <1>3 DEF Last
<1>5. locals \in Seq(Locals) /\ Len(locals) = first
  <2>1. first \in 0 .. Len(Top.locals)
    BY <1>1, <1>4
  <2>. HIDE DEF first
  <2>. QED
    BY <1>1, <2>1, TakeFront
<1>6. /\ blocks \in Seq(Nat) /\ Len(blocks) = last - 1
      /\ \A m \in 1 .. last - 1 : blocks[m] = Top.blocks[m]
  <2>1. last - 1 \in 0 .. Len(Top.blocks)
    BY <1>1
  <2>2. LET r == SubSeq(Top.blocks, 1, last - 1) IN
        /\ r \in Seq(Nat) /\ Len(r) = last - 1
        /\ \A m \in 1 .. last - 1 : r[m] = Top.blocks[m]
    <3>. HIDE DEF last
    <3>. QED
      BY <1>1, <2>1, TakeFront
  <2>. QED
    BY <2>2 DEF Front
<1>. HIDE DEF locals, blocks
<1>7. f \in Frames /\ f.slots = Top.slots /\ f.locals = locals /\ f.blocks = blocks
  <2>1. Top \in Frames
    BY TopTypes DEF IInv
  <2>2. SubSeq(Top.locals, 1, first) \in Seq(Locals) /\ Front(Top.blocks) \in Seq(Nat)
    BY <1>5, <1>6 DEF locals, blocks
  <2>. HIDE DEF first
  <2>3. f \in Frames
    BY <2>1, <2>2 DEF Frames
  <2>4. f.slots = Top.slots /\ f.locals = SubSeq(Top.locals, 1, first)
    BY <2>1 DEF Frames
  <2>5. f.blocks = Front(Top.blocks)
    BY <2>1 DEF Frames
  <2>. QED
    BY <2>3, <2>4, <2>5 DEF locals, blocks
<1>8. SetTop(f) /\ drops' = BlockEnd(first) /\ after' \in {"none", "null"}
  BY DEF EndBlock
<1>. HIDE DEF f, first
<1>9. /\ frames' \in Seq(Frames) /\ frames' # << >> /\ Len(frames') = Len(frames)
      /\ Top' = f
      /\ \A g \in 1 .. Len(frames) : g # Len(frames) => frames'[g] = frames[g]
  BY <1>7, <1>8, SetTopKeeps DEF IInv
<1>10. frames'[Len(frames)] = f
  BY <1>9 DEF Top, Last
<1>11. drops' \in Seq({"pop", "close"}) /\ Len(drops') = Len(Top.locals) - first
  <2>1. Len(Top.locals) - first \in Nat
    BY <1>1, <1>4
  <2>2. drops' \in [1 .. Len(Top.locals) - first -> {"pop", "close"}]
    BY <1>8 DEF BlockEnd
  <2>. QED
    BY <2>1, <2>2, FunctionIsSeq
<1>12. TypeOK'
  BY <1>8, <1>9, <1>11, TypesKept DEF IInv, TypeOK, EndBlock, Unseen, machine, heap
<1>13. OpenSorted' /\ OpenListed'
  BY OpenKept DEF IInv, EndBlock, heap
<1>14. FramesStacked'
  <2>1. frames'[1] = frames[1]
    BY <1>1, <1>9
  <2>2. ASSUME NEW g \in 1 .. Len(frames) - 1
        PROVE  frames'[g + 1].slots = frames'[g].slots + Len(frames'[g].locals)
    <3>1. g \in 1 .. Len(frames) /\ g # Len(frames) /\ g + 1 \in 1 .. Len(frames)
      BY <1>1
    <3>2. frames'[g + 1].slots = frames[g + 1].slots
      BY <1>2, <1>7, <1>9, <1>10, <3>1
    <3>. QED
      BY <1>9, <3>1, <3>2 DEF IInv, Balanced, FramesStacked
  <2>. QED
    BY <1>9, <2>1, <2>2 DEF IInv, Balanced, FramesStacked
<1>15. BlocksNested'
  <2>. SUFFICES ASSUME NEW g \in 1 .. Len(frames), NEW m \in 1 .. Len(frames'[g].blocks)
                PROVE  /\ frames'[g].blocks[m] <= Len(frames'[g].locals)
                       /\ \A n \in m .. Len(frames'[g].blocks) :
                            frames'[g].blocks[m] <= frames'[g].blocks[n]
    BY <1>9 DEF BlocksNested
  <2>1. CASE g # Len(frames)
    BY <1>9, <2>1 DEF IInv, Balanced, BlocksNested
  <2>2. CASE g = Len(frames)
    <3>1. frames'[g].blocks = blocks /\ Len(frames'[g].locals) = first
      BY <1>5, <1>7, <1>10, <2>2
    <3>2. m \in 1 .. last - 1 /\ m \in 1 .. last /\ last \in m .. last
      BY SMTT(30), <1>1, <1>6, <3>1
    <3>3. blocks[m] <= first
      BY <1>3, <1>4, <1>6, <3>2
    <3>4. ASSUME NEW n \in m .. last - 1 PROVE blocks[m] <= blocks[n]
      <4>1. n \in 1 .. last - 1 /\ n \in m .. last
        BY <1>1, <3>2
      <4>. QED
        BY <1>3, <1>6, <3>2, <4>1
    <3>. QED
      BY <1>6, <3>1, <3>3, <3>4
  <2>. QED
    BY <2>1, <2>2
<1>16. StackAccounted'
  <2>1. /\ Len(drops) = 0 /\ One(after = "return") = 0 /\ One(building.named) = 0
    BY DEF EndBlock, Ready, IInv, Balanced, Pending, One
  <2>2. sp = Top.slots + Len(Top.locals) /\ sp \in Nat
    BY <1>1, <2>1, CountsAreNaturals DEF IInv, Balanced, StackAccounted
  <2>3. One(after' = "return") = 0 /\ One(building'.named) = 0 /\ sp' = sp
    BY <1>8, <2>1 DEF EndBlock, machine, One
  <2>4. Top'.slots = Top.slots /\ Len(Top'.locals) = first
    BY <1>5, <1>7, <1>9
  <2>. QED
    BY <1>1, <1>4, <1>11, <2>2, <2>3, <2>4 DEF StackAccounted
<1>17. Pending'
  BY <1>1, <1>9 DEF IInv, Balanced, Pending, EndBlock, Ready, InFunction, machine
<1>. QED
  BY <1>12, <1>13, <1>14, <1>15, <1>16, <1>17 DEF IInv, Balanced

LEMMA ReturnInv ==
    ASSUME IInv, Return
    PROVE  IInv'
<1>1. TypeOK'
  BY TypesKept DEF IInv, TypeOK, Return, Unseen, machine, heap
<1>2. OpenSorted' /\ OpenListed'
  BY OpenKept DEF IInv, Return, heap
<1>3. FramesStacked' /\ BlocksNested' /\ Top' = Top /\ InFunction' = InFunction
  BY FramesKept DEF IInv, Balanced, Return
<1>4. StackAccounted' /\ Pending'
  BY <1>3 DEF IInv, Balanced, StackAccounted, Pending, Return, Ready, machine, One
<1>. QED
  BY <1>1, <1>2, <1>3, <1>4 DEF IInv, Balanced

\* The instruction at the head of drops takes one value off the stack.
LEMMA DropKeeps ==
    ASSUME IInv, drops # << >>, drops' = Tail(drops), sp' = sp - 1,
           UNCHANGED <<stack, frames, after, building>>
    PROVE  Balanced' /\ sp' \in 0 .. StackSize /\ sp \in Nat \ {0}
           /\ drops' \in Seq({"pop", "close"})
<1>1. drops' \in Seq({"pop", "close"}) /\ Len(drops') = Len(drops) - 1 /\ Len(drops) \in Nat \ {0}
  BY HeadTailProperties, EmptySeq DEF IInv, TypeOK
<1>2. FramesStacked' /\ BlocksNested' /\ Top' = Top /\ InFunction' = InFunction
  BY FramesKept DEF IInv, Balanced
<1>3. ~building.on /\ ~building.named
  BY DEF IInv, Balanced, Pending
<1>4. /\ sp \in 0 .. StackSize /\ Top.slots \in Nat /\ Len(Top.locals) \in Nat
      /\ One(after = "return") \in Nat
  BY TopTypes DEF IInv, TypeOK, One
<1>5. sp = Top.slots + Len(Top.locals) + Len(drops) + One(after = "return")
  <2>1. One(building.named) = 0 /\ sp + 0 = sp
    BY <1>3, <1>4, BoundAssumption DEF One
  <2>. QED
    BY <2>1 DEF IInv, Balanced, StackAccounted
<1>6. StackAccounted'
  <2>1. One(building'.named) = 0 /\ (sp - 1) + 0 = sp - 1
    BY <1>3, <1>4, BoundAssumption DEF One
  <2>2. sp - 1 = Top.slots + Len(Top.locals) + (Len(drops) - 1) + One(after = "return")
    BY <1>1, <1>4, <1>5, BoundAssumption
  <2>. QED
    BY <1>1, <1>2, <2>1, <2>2 DEF StackAccounted
<1>7. Pending'
  BY <1>2, <1>3 DEF IInv, Balanced, Pending
<1>8. sp' \in 0 .. StackSize /\ sp \in Nat \ {0}
  BY <1>1, <1>4, <1>5, BoundAssumption
<1>. QED
  BY <1>1, <1>2, <1>6, <1>7, <1>8 DEF Balanced

LEMMA DoPopInv ==
    ASSUME IInv, DoPop
    PROVE  IInv'
<1>1. Balanced' /\ sp' \in 0 .. StackSize /\ drops' \in Seq({"pop", "close"})
  BY DropKeeps DEF DoPop, Pop
<1>2. TypeOK'
  BY <1>1, TypesKept DEF IInv, TypeOK, DoPop, Pop, Unseen, heap
<1>3. OpenSorted' /\ OpenListed'
  BY OpenKept DEF IInv, DoPop, heap
<1>. QED
  BY <1>1, <1>2, <1>3 DEF IInv

\* The frames, closures and the closure being filled only hold numbers of upvalues:
\* closing some changes none of them.
LEMMA SameCount ==
    ASSUME Len(location') = Len(location)
    PROVE  /\ Captures' = Captures /\ Frames' = Frames
           /\ Fillings' = Fillings /\ Closures' = Closures
BY DEF Captures, Frames, Fillings, Closures

LEMMA DoCloseInv ==
    ASSUME IInv, NEW n \in 0 .. Len(open), DoClose(n)
    PROVE  IInv'
<1>1. /\ Balanced' /\ sp' \in 0 .. StackSize /\ sp \in Nat \ {0}
      /\ drops' \in Seq({"pop", "close"})
  BY DropKeeps DEF DoClose, Pop
<1>2. /\ location' \in Seq(0 .. StackSize - 1 \cup {Own}) /\ closed' \in Seq(Values)
      /\ Len(location') = Len(location) /\ Len(closed') = Len(location')
      /\ open' \in Seq(1 .. Len(location'))
      /\ OpenSorted' /\ OpenListed'
  <2>1. sp - 1 \in Nat
    BY <1>1
  <2>. QED
    BY <2>1, ClosingKeepsOrder DEF IInv, DoClose
<1>3. TypeOK'
  BY <1>1, <1>2, SameCount DEF IInv, TypeOK, DoClose, Pop, Unseen
<1>. QED
  BY <1>1, <1>2, <1>3 DEF IInv

LEMMA DoNullInv ==
    ASSUME IInv, DoNull
    PROVE  IInv'
<1>1. stack' \in [0 .. StackSize - 1 -> Values] /\ sp' \in 0 .. StackSize /\ sp' = sp + 1
  BY PushKeeps, ValueAssumption DEF IInv, DoNull
<1>2. TypeOK'
  BY <1>1, TypesKept DEF IInv, TypeOK, DoNull, Unseen, heap
<1>3. OpenSorted' /\ OpenListed'
  BY OpenKept DEF IInv, DoNull, heap
<1>4. FramesStacked' /\ BlocksNested' /\ Top' = Top /\ InFunction' = InFunction
  BY FramesKept DEF IInv, Balanced, DoNull
<1>5. StackAccounted'
  <2>1. ~building.named /\ One(building.named) = 0 /\ One(after = "return") = 0 /\ Len(drops) = 0
    BY DEF IInv, Balanced, Pending, DoNull, One
  <2>2. sp \in Nat /\ Top.slots \in Nat /\ Len(Top.locals) \in Nat
    BY CountsAreNaturals, TopTypes DEF IInv
  <2>3. sp = Top.slots + Len(Top.locals)
    BY <2>1, <2>2 DEF IInv, Balanced, StackAccounted
  <2>4. One(building'.named) = 0 /\ One(after' = "return") = 1 /\ Len(drops') = 0
    BY <2>1 DEF DoNull, One
  <2>. QED
    BY <1>1, <1>4, <2>2, <2>3, <2>4 DEF StackAccounted
<1>6. Pending'
  BY <1>4 DEF IInv, Balanced, Pending, DoNull
<1>. QED
  BY <1>2, <1>3, <1>4, <1>5, <1>6 DEF IInv, Balanced

\* The result takes the first slot of the frame that goes: it is the one above the
\* locals of the caller.
LEMMA DoReturnInv ==
    ASSUME IInv, NEW n \in 0 .. Len(open), DoReturn(n)
    PROVE  IInv'
<1>. DEFINE N == Len(frames)
            caller == frames[N - 1]
<1>1. N \in Nat /\ N > 1 /\ Top.slots \in Nat /\ Len(Top.locals) \in Nat /\ sp \in Nat
  BY TopTypes, CountsAreNaturals DEF IInv, Balanced, Pending, DoReturn, InFunction
<1>2. /\ location' \in Seq(0 .. StackSize - 1 \cup {Own}) /\ closed' \in Seq(Values)
      /\ Len(location') = Len(location) /\ Len(closed') = Len(location')
      /\ open' \in Seq(1 .. Len(location'))
      /\ OpenSorted' /\ OpenListed'
  BY <1>1, ClosingKeepsOrder DEF IInv, DoReturn
<1>3. sp = Top.slots + Len(Top.locals) + 1 /\ ~building.named
  <2>1. /\ ~building.named /\ One(building.named) = 0
        /\ One(after = "return") = 1 /\ Len(drops) = 0
    BY DEF IInv, Balanced, Pending, DoReturn, One
  <2>. QED
    BY <1>1, <2>1 DEF IInv, Balanced, StackAccounted
<1>4. sp' = Top.slots + 1 /\ sp' \in 0 .. StackSize
  <2>1. sp \in 0 .. StackSize /\ StackSize \in Nat
    BY BoundAssumption DEF IInv, TypeOK
  <2>2. sp' = Top.slots + 1
    BY DEF DoReturn
  <2>3. sp <= StackSize
    BY <2>1
  <2>4. Top.slots + 1 <= StackSize
    BY <1>1, <1>3, <2>1, <2>3
  <2>. QED
    BY <1>1, <2>1, <2>2, <2>4
<1>5. stack' \in [0 .. StackSize - 1 -> Values]
  <2>1. sp - 1 \in 0 .. StackSize - 1
    <3>1. sp \in 0 .. StackSize /\ StackSize \in Nat /\ sp > 0
      BY SMTT(30), <1>1, <1>3, BoundAssumption DEF IInv, TypeOK
    <3>. QED
      BY <3>1
  <2>2. stack[sp - 1] \in Values
    BY <2>1 DEF IInv, TypeOK
  <2>. QED
    BY <2>2 DEF IInv, TypeOK, DoReturn
<1>6. /\ frames' \in Seq(Frames) /\ Len(frames') = N - 1
      /\ \A g \in 1 .. N - 1 : frames'[g] = frames[g]
  <2>1. N - 1 \in 0 .. Len(frames) /\ frames \in Seq(Frames)
    BY <1>1 DEF IInv, TypeOK
  <2>2. LET r == SubSeq(frames, 1, N - 1) IN
        /\ r \in Seq(Frames) /\ Len(r) = N - 1
        /\ \A g \in 1 .. N - 1 : r[g] = frames[g]
    <3>. HIDE DEF N
    <3>. QED
      BY <2>1, TakeFront
  <2>. QED
    BY <2>2 DEF DoReturn, Front
<1>7. frames' # << >> /\ Top' = caller
  BY <1>1, <1>6, EmptySeq DEF Top, Last
<1>8. /\ caller \in Frames /\ caller.slots \in Nat /\ Len(caller.locals) \in Nat
      /\ Top.slots = caller.slots + Len(caller.locals)
  <2>1. N - 1 \in 1 .. Len(frames) /\ N - 1 \in 1 .. N - 1 /\ (N - 1) + 1 = N
    BY <1>1
  <2>2. caller \in Frames
    BY <2>1, ElementOfSeq DEF IInv, TypeOK
  <2>3. frames[(N - 1) + 1].slots = caller.slots + Len(caller.locals)
    BY <2>1 DEF IInv, Balanced, FramesStacked
  <2>4. frames[N] = Top
    BY DEF Top, Last
  <2>5. caller.slots \in Nat /\ Len(caller.locals) \in Nat
    BY <2>2, LenProperties DEF Frames
  <2>. QED
    BY <2>1, <2>2, <2>3, <2>4, <2>5
<1>. HIDE DEF caller
<1>9. drops' = <<"pop">> /\ drops' \in Seq({"pop", "close"}) /\ Len(drops') = 1
  BY DEF DoReturn
<1>10. TypeOK'
  BY <1>2, <1>4, <1>5, <1>6, <1>7, <1>9, SameCount DEF IInv, TypeOK, DoReturn, Unseen
<1>11. FramesStacked'
  <2>1. ASSUME NEW g \in 1 .. (N - 1) - 1
        PROVE  frames'[g + 1].slots = frames'[g].slots + Len(frames'[g].locals)
    <3>1. g \in 1 .. N - 1 /\ g + 1 \in 1 .. N - 1
      BY <1>1
    <3>. QED
      BY <1>6, <3>1 DEF IInv, Balanced, FramesStacked
  <2>2. frames'[1] = frames[1]
    BY <1>1, <1>6
  <2>. QED
    BY <1>6, <2>1, <2>2 DEF IInv, Balanced, FramesStacked
<1>12. BlocksNested'
  <2>1. \A g \in 1 .. N - 1 : g \in 1 .. N /\ frames'[g] = frames[g]
    BY <1>1, <1>6
  <2>. QED
    BY <1>6, <2>1 DEF IInv, Balanced, BlocksNested
<1>13. StackAccounted'
  <2>1. One(building'.named) = 0 /\ One(after' = "return") = 0
    BY <1>3 DEF DoReturn, One
  <2>. QED
    BY <1>1, <1>4, <1>7, <1>8, <1>9, <2>1 DEF StackAccounted
<1>14. Pending'
  <2>1. ~building.on /\ building' = building /\ after' = "none"
    BY DEF IInv, Balanced, Pending, DoReturn
  <2>. QED
    BY <1>3, <2>1 DEF Pending
<1>. QED
  BY <1>2, <1>10, <1>11, <1>12, <1>13, <1>14 DEF IInv, Balanced

--------------------------------------------------------------------------------
(* The invariant *)

LEMMA InitInv == Init => IInv
<1>. SUFFICES ASSUME Init PROVE IInv
  OBVIOUS
<1>. DEFINE main == [slots |-> 0, locals |-> << >>, blocks |-> << >>, upvalues |-> << >>]
<1>1. main \in Frames
  BY DEF Frames
<1>2. frames = <<main>>
  BY DEF Init
<1>. HIDE DEF main
<1>3. frames \in Seq(Frames) /\ Len(frames) = 1 /\ frames # << >> /\ frames[1] = main /\ Top = main
  BY <1>1, <1>2, OneElement DEF Top, Last
<1>4. main.slots = 0 /\ main.locals = << >> /\ main.blocks = << >>
  BY DEF main
<1>5. TypeOK
  <2>1. building \in Fillings
    BY DEF Init, NotBuilding, Fillings
  <2>2. /\ stack \in [0 .. StackSize - 1 -> Values] /\ sp \in 0 .. StackSize
    BY ValueAssumption, BoundAssumption DEF Init
  <2>. QED
    BY <1>3, <2>1, <2>2 DEF Init, TypeOK
<1>6. OpenSorted /\ OpenListed
  BY DEF Init, OpenSorted, OpenListed
<1>7. FramesStacked /\ BlocksNested
  BY <1>3, <1>4 DEF FramesStacked, BlocksNested
<1>8. StackAccounted /\ Pending
  BY <1>3, <1>4 DEF Init, StackAccounted, Pending, NotBuilding, One
<1>. QED
  BY <1>5, <1>6, <1>7, <1>8 DEF IInv, Balanced

LEMMA StutterInv ==
    ASSUME IInv, UNCHANGED vars
    PROVE  IInv'
<1>1. TypeOK'
  BY TypesKept DEF IInv, TypeOK, vars, machine, code, heap
<1>2. OpenSorted' /\ OpenListed'
  BY OpenKept DEF IInv, vars, heap
<1>3. FramesStacked' /\ BlocksNested' /\ Top' = Top /\ InFunction' = InFunction
  BY FramesKept DEF IInv, Balanced, vars
<1>4. StackAccounted' /\ Pending'
  BY <1>3 DEF IInv, Balanced, StackAccounted, Pending, vars, machine, code
<1>. QED
  BY <1>1, <1>2, <1>3, <1>4 DEF IInv, Balanced

LEMMA NextInv == IInv /\ [Next]_vars => IInv'
<1>. SUFFICES ASSUME IInv, [Next]_vars PROVE IInv'
  OBVIOUS
<1>1. CASE UseVariable
  BY <1>1, DeclareLocalInv, GetLocalInv, SetLocalInv, GetUpvalueInv, SetUpvalueInv
  DEF UseVariable
<1>2. CASE MakeClosure
  BY <1>2, BeginClosureInv, BeginNamedClosureInv, CaptureSharedInv, CaptureNewInv,
     CaptureUpvalueInv, KeepClosureInv
  DEF MakeClosure
<1>3. CASE CallFunction
  BY <1>3, CallNewInv, CallWithoutArgumentInv, CallWithArgumentInv, CallTooDeepInv
  DEF CallFunction
<1>4. CASE Leave
  BY <1>4, OpenBlockInv, EndBlockInv, ReturnInv, DoPopInv, DoNullInv, DoCloseInv, DoReturnInv
  DEF Leave
<1>5. CASE UNCHANGED vars
  BY <1>5, StutterInv
<1>. QED
  BY <1>1, <1>2, <1>3, <1>4, <1>5 DEF Next

\* The inductive invariant: types, the order of the open upvalues and the account
\* of the stack hold together, for every program the actions can spell.
THEOREM Invariance == Spec => []IInv
BY InitInv, NextInv, PTL DEF Spec

\* TypeOK: every slot, upvalue and frame the VM touches exists; in particular the
\* stack never underflows and a captured slot is one of the stack's.
THEOREM TypeCorrect == Spec => []TypeOK
<1>1. IInv => TypeOK
  BY DEF IInv
<1>. QED
  BY <1>1, Invariance, PTL

\* OpenSorted: the walks of vm.c:540 and vm.c:563 may stop at the first upvalue that
\* lies too low, whatever closures, calls, blocks and returns came before.
THEOREM WalksMayStop == Spec => []OpenSorted
<1>1. IInv => OpenSorted
  BY DEF IInv
<1>. QED
  BY <1>1, Invariance, PTL

\* OpenListed: no open upvalue is ever lost from the list, none stays in it closed.
THEOREM ListIsComplete == Spec => []OpenListed
<1>1. IInv => OpenListed
  BY DEF IInv
<1>. QED
  BY <1>1, Invariance, PTL

\* SlotsAgree: whenever a statement starts, the compiler's numbering of the locals
\* (compiler.c:86-117) and the height of the stack agree.
THEOREM SlotsAlwaysAgree == Spec => []SlotsAgree
<1>1. IInv => SlotsAgree
  <2>. SUFFICES ASSUME IInv, Ready PROVE sp = Top.slots + Len(Top.locals)
    BY DEF SlotsAgree
  <2>1. ~building.named /\ One(building.named) = 0 /\ One(after = "return") = 0 /\ Len(drops) = 0
    BY DEF Ready, IInv, Balanced, Pending, One
  <2>2. sp \in Nat /\ Top.slots \in Nat /\ Len(Top.locals) \in Nat
    BY CountsAreNaturals, TopTypes DEF IInv
  <2>. QED
    BY <2>1, <2>2 DEF IInv, Balanced, StackAccounted
<1>. QED
  BY <1>1, Invariance, PTL

================================================================================
