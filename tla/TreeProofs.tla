------------------------------ MODULE TreeProofs -------------------------------
(***************************************************************************)
(* Proofs about Parser: a program accepted without an error has become its *)
(* tree, the one the precedences give, for any languages and programs of   *)
(* any length.                                                             *)
(***************************************************************************)
EXTENDS ParserProofs, FiniteSetTheorems

--------------------------------------------------------------------------------
(* Lists of nodes *)

\* Names that keep the provers from taking sequences apart where it does not help.
Lists == Seq(Nat)
Woods == Seq(Trees)
Stacks == Seq(Frames)

LEMMA PresentFacts ==
    ASSUME NEW n \in Nat
    PROVE  /\ Present(n) \in Lists
           /\ n = Invalid => Present(n) = <<>> /\ Len(Present(n)) = 0
           /\ n # Invalid => /\ Present(n) = <<n>> /\ Len(Present(n)) = 1 /\ Present(n)[1] = n
                             /\ 1 \in DOMAIN Present(n) /\ 1 \in 1 .. Len(Present(n))
           /\ \A i \in DOMAIN Present(n) : n # Invalid /\ i = 1 /\ Present(n)[i] = n
BY DEF Present, Lists

\* Two lists after one another.
LEMMA Joined ==
    ASSUME NEW a \in Lists, NEW b \in Lists
    PROVE  /\ a \o b \in Lists /\ Len(a \o b) = Len(a) + Len(b)
           /\ Len(a) \in Nat /\ Len(b) \in Nat
           /\ DOMAIN a = 1 .. Len(a) /\ DOMAIN b = 1 .. Len(b)
           /\ DOMAIN (a \o b) = 1 .. (Len(a) + Len(b))
           /\ \A i \in 1 .. Len(a) : (a \o b)[i] = a[i]
           /\ \A i \in 1 .. Len(b) : (a \o b)[Len(a) + i] = b[i]
           /\ \A i \in 1 .. (Len(a) + Len(b)) :
                 i \in 1 .. Len(a) \/ (i - Len(a) \in 1 .. Len(b) /\ (a \o b)[i] = b[i - Len(a)])
BY ConcatProperties DEF Lists

LEMMA JoinedOne ==
    ASSUME NEW a \in Lists, NEW n \in Nat
    PROVE  /\ a \o <<n>> \in Lists /\ Len(a \o <<n>>) = Len(a) + 1
           /\ Len(a) \in Nat /\ DOMAIN a = 1 .. Len(a)
           /\ DOMAIN (a \o <<n>>) = 1 .. (Len(a) + 1)
           /\ \A i \in 1 .. Len(a) : (a \o <<n>>)[i] = a[i]
           /\ (a \o <<n>>)[Len(a) + 1] = n
           /\ \A i \in 1 .. (Len(a) + 1) : i \in 1 .. Len(a) \/ i = Len(a) + 1
BY DEF Lists

LEMMA LengthOf ==
    ASSUME NEW a \in Lists
    PROVE  Len(a) \in Nat /\ DOMAIN a = 1 .. Len(a) /\ \A i \in DOMAIN a : a[i] \in Nat
BY DEF Lists

LEMMA Associates ==
    ASSUME NEW a \in Lists, NEW b \in Lists, NEW c \in Lists
    PROVE  (a \o b) \o c = a \o (b \o c)
BY ConcatAssociative DEF Lists

LEMMA Appends ==
    ASSUME NEW a \in Lists, NEW n \in Nat
    PROVE  /\ Append(a, n) = a \o <<n>> /\ <<n>> \in Lists /\ Append(a, n) \in Lists
           /\ Len(Append(a, n)) = Len(a) + 1
<1>1. a \in Seq(Nat)
  BY DEF Lists
<1>2. Append(a, n) = a \o <<n>>
  BY <1>1, AppendIsConcat
<1>3. Append(a, n) \in Seq(Nat) /\ Len(Append(a, n)) = Len(a) + 1
  BY <1>1
<1>4. <<n>> \in Seq(Nat)
  OBVIOUS
<1>. QED
  BY <1>2, <1>3, <1>4 DEF Lists

LEMMA Odd ==
    ASSUME NEW n \in Nat
    PROVE  (n % 2 = 1 => (n + 1) % 2 = 0) /\ (n % 2 = 0 => (n + 1) % 2 = 1)
OBVIOUS

LEMMA HeldFacts ==
    ASSUME NEW f \in Frames, f.at \in {"colon", "end"} => f.list # <<>>
    PROVE  Held(f) \in Lists
<1>1. f.node \in Nat /\ f.list \in Lists
  BY DEF Frames, Lists
<1>2. Present(f.node) \in Lists
  BY <1>1, PresentFacts
<1>3. f.list # <<>> => f.list[1] \in Nat
  BY <1>1 DEF Lists
<1>4. f.at \in {"colon", "end"} => Present(f.list[1]) \in Lists
  BY <1>3, PresentFacts
<1>5. (IF f.at \in {"colon", "end"} THEN Present(f.list[1]) ELSE f.list) \in Lists
  BY <1>1, <1>4
<1>6. (IF f.at = "arrow" THEN <<>> ELSE Present(f.node)) \in Lists
  BY <1>2 DEF Lists
<1>. HIDE DEF Present
<1>. QED
  BY <1>5, <1>6, Joined DEF Held

--------------------------------------------------------------------------------
(* The running activation and those that wait *)

\* The nodes built, without those who hold them.
Trunk(tree, lists, size) ==
    /\ \A n \in DOMAIN tree :
          Stored(tree[n], lists) /\ tree[n].last < size /\ Family(tree[n], n, tree, lists)
    /\ \A n, p \in DOMAIN tree : \A i \in DOMAIN Kids(tree[n], lists) :
          \A j \in DOMAIN Kids(tree[p], lists) :
             Kids(tree[n], lists)[i] = Kids(tree[p], lists)[j] => n = p

Held1(f, n) == \E i \in DOMAIN Held(f) : Held(f)[i] = n
Waiting(tree, lists, rest, first, given, size) ==
    \A c \in DOMAIN rest :
        /\ Holds(rest[c], tree, lists, size)
        /\ Precedes(rest[c], tree, first)
        /\ \A b \in 1 .. (c - 1) : Precedes(rest[c], tree, rest[b].first)
        /\ given # Invalid => Precedes(rest[c], tree, tree[given].first)

ForestOf(tree, lists, top, rest, given, size) ==
    /\ Trunk(tree, lists, size)
    /\ Holds(top, tree, lists, size)
    /\ given # Invalid => Precedes(top, tree, tree[given].first)
    /\ Waiting(tree, lists, rest, top.first, given, size)
    /\ given # Invalid => given \in DOMAIN tree /\ Root(given, tree, lists)
    /\ \A n \in DOMAIN tree :
          Root(n, tree, lists) =>
             n = given \/ Held1(top, n) \/ \E c \in DOMAIN rest : Held1(rest[c], n)

LEMMA Stacked ==
    ASSUME NEW f \in Frames, NEW rest \in Stacks
    PROVE  /\ <<f>> \o rest \in Stacks /\ <<f>> \o rest # <<>>
           /\ Len(rest) \in Nat /\ DOMAIN rest = 1 .. Len(rest)
           /\ Len(<<f>> \o rest) = Len(rest) + 1
           /\ DOMAIN (<<f>> \o rest) = 1 .. (Len(rest) + 1)
           /\ (<<f>> \o rest)[1] = f
           /\ \A c \in 1 .. Len(rest) : (<<f>> \o rest)[c + 1] = rest[c]
           /\ \A c \in 2 .. (Len(rest) + 1) :
                 c - 1 \in 1 .. Len(rest) /\ (<<f>> \o rest)[c] = rest[c - 1]
<1>1. <<f>> \in Seq(Frames) /\ Len(<<f>>) = 1 /\ <<f>>[1] = f
  OBVIOUS
<1>. HIDE DEF Frames
<1>. QED
  BY <1>1, ConcatProperties DEF Stacks

LEMMA TopOff ==
    ASSUME NEW tree, NEW lists, NEW f \in Frames, NEW rest \in Stacks, NEW given, NEW size
    PROVE  Forest(tree, lists, <<f>> \o rest, given, size)
              <=> ForestOf(tree, lists, f, rest, given, size)
<1>. DEFINE all == <<f>> \o rest
<1>1. /\ Len(rest) \in Nat /\ DOMAIN rest = 1 .. Len(rest)
      /\ DOMAIN all = 1 .. (Len(rest) + 1) /\ all[1] = f
      /\ \A c \in 1 .. Len(rest) : all[c + 1] = rest[c]
      /\ \A c \in 2 .. (Len(rest) + 1) : c - 1 \in 1 .. Len(rest) /\ all[c] = rest[c - 1]
  BY Stacked
<1>. HIDE DEF all
<1>2. ASSUME Forest(tree, lists, all, given, size)
      PROVE  ForestOf(tree, lists, f, rest, given, size)
  <2>1. Trunk(tree, lists, size)
    BY <1>2 DEF Forest, Trunk
  <2>2. ASSUME NEW c \in DOMAIN all
        PROVE  /\ Holds(all[c], tree, lists, size)
               /\ \A b \in 1 .. (c - 1) : Precedes(all[c], tree, all[b].first)
               /\ given # Invalid => Precedes(all[c], tree, tree[given].first)
    BY <1>2 DEF Forest
  <2>3. Holds(f, tree, lists, size) /\ (given # Invalid => Precedes(f, tree, tree[given].first))
    BY <1>1, <2>2
  <2>4. ASSUME NEW c \in DOMAIN rest
        PROVE  /\ Holds(rest[c], tree, lists, size)
               /\ Precedes(rest[c], tree, f.first)
               /\ \A b \in 1 .. (c - 1) : Precedes(rest[c], tree, rest[b].first)
               /\ given # Invalid => Precedes(rest[c], tree, tree[given].first)
    <3>1. c + 1 \in DOMAIN all /\ all[c + 1] = rest[c] /\ 1 \in 1 .. ((c + 1) - 1)
      BY <1>1
    <3>2. Precedes(rest[c], tree, f.first)
      BY <1>1, <2>2, <3>1
    <3>3. ASSUME NEW b \in 1 .. (c - 1) PROVE Precedes(rest[c], tree, rest[b].first)
      <4>1. b + 1 \in 1 .. ((c + 1) - 1) /\ all[b + 1] = rest[b]
        BY <1>1
      <4>. QED
        BY <2>2, <3>1, <4>1
    <3>. QED
      BY <2>2, <3>1, <3>2, <3>3
  <2>5. Waiting(tree, lists, rest, f.first, given, size)
    BY <2>4 DEF Waiting
  <2>6. ASSUME NEW n \in DOMAIN tree, Root(n, tree, lists)
        PROVE  n = given \/ Held1(f, n) \/ \E c \in DOMAIN rest : Held1(rest[c], n)
    <3>1. n = given \/ \E c \in DOMAIN all : Held1(all[c], n)
      BY <1>2, <2>6 DEF Forest, Held1
    <3>2. ASSUME NEW c \in DOMAIN all, Held1(all[c], n)
          PROVE  Held1(f, n) \/ \E d \in DOMAIN rest : Held1(rest[d], n)
      <4>1. CASE c = 1
        BY <1>1, <3>2, <4>1
      <4>2. CASE c # 1
        <5>1. c - 1 \in DOMAIN rest /\ all[c] = rest[c - 1]
          BY <1>1, <4>2
        <5>. QED
          BY <3>2, <5>1
      <4>. QED
        BY <4>1, <4>2
    <3>. QED
      BY <3>1, <3>2
  <2>7. given # Invalid => given \in DOMAIN tree /\ Root(given, tree, lists)
    BY <1>2 DEF Forest
  <2>. QED
    BY <2>1, <2>3, <2>5, <2>6, <2>7 DEF ForestOf
<1>3. ASSUME ForestOf(tree, lists, f, rest, given, size)
      PROVE  Forest(tree, lists, all, given, size)
  <2>1. /\ Trunk(tree, lists, size) /\ Holds(f, tree, lists, size)
        /\ given # Invalid => Precedes(f, tree, tree[given].first)
        /\ Waiting(tree, lists, rest, f.first, given, size)
    BY <1>3 DEF ForestOf
  <2>2. ASSUME NEW c \in DOMAIN all
        PROVE  /\ Holds(all[c], tree, lists, size)
               /\ \A b \in 1 .. (c - 1) : Precedes(all[c], tree, all[b].first)
               /\ given # Invalid => Precedes(all[c], tree, tree[given].first)
    <3>1. CASE c = 1
      BY <1>1, <2>1, <3>1
    <3>2. CASE c # 1
      <4>. DEFINE d == c - 1
      <4>1. d \in DOMAIN rest /\ all[c] = rest[d] /\ d \in Nat /\ c = d + 1
        BY <1>1, <3>2
      <4>. HIDE DEF d
      <4>2. /\ Holds(rest[d], tree, lists, size) /\ Precedes(rest[d], tree, f.first)
            /\ \A b \in 1 .. (d - 1) : Precedes(rest[d], tree, rest[b].first)
            /\ given # Invalid => Precedes(rest[d], tree, tree[given].first)
        BY <2>1, <4>1 DEF Waiting
      <4>3. ASSUME NEW b \in 1 .. (c - 1) PROVE Precedes(all[c], tree, all[b].first)
        <5>1. CASE b = 1
          BY <1>1, <4>1, <4>2, <5>1
        <5>2. CASE b # 1
          <6>1. b - 1 \in 1 .. (d - 1) /\ b \in 2 .. (Len(rest) + 1)
            BY <1>1, <4>1, <5>2
          <6>2. all[b] = rest[b - 1]
            BY <1>1, <6>1
          <6>. QED
            BY <4>1, <4>2, <6>1, <6>2
        <5>. QED
          BY <5>1, <5>2
      <4>. QED
        BY <4>1, <4>2, <4>3
    <3>. QED
      BY <3>1, <3>2
  <2>3. ASSUME NEW n \in DOMAIN tree, Root(n, tree, lists)
        PROVE  n = given \/ \E c \in DOMAIN all : Held1(all[c], n)
    <3>1. n = given \/ Held1(f, n) \/ \E c \in DOMAIN rest : Held1(rest[c], n)
      BY <1>3, <2>3 DEF ForestOf
    <3>2. ASSUME Held1(f, n) PROVE \E c \in DOMAIN all : Held1(all[c], n)
      BY <1>1, <3>2
    <3>3. ASSUME NEW c \in DOMAIN rest, Held1(rest[c], n)
          PROVE  \E d \in DOMAIN all : Held1(all[d], n)
      <4>1. c + 1 \in DOMAIN all /\ all[c + 1] = rest[c]
        BY <1>1
      <4>. QED
        BY <3>3, <4>1
    <3>. QED
      BY <3>1, <3>2, <3>3
  <2>4. given # Invalid => given \in DOMAIN tree /\ Root(given, tree, lists)
    BY <1>3 DEF ForestOf
  <2>. QED
    BY <2>1, <2>2, <2>3, <2>4 DEF Forest, Trunk, Held1
<1>. QED
  BY <1>2, <1>3 DEF all

--------------------------------------------------------------------------------
(* What becomes of the forest when an activation goes on *)

LEMMA ReachIsToken ==
    ASSUME NEW f \in Frames
    PROVE  Reach(f) \in Nat /\ f.first \in Nat /\ f.token \in Nat /\ f.node \in Nat
BY DEF Reach, Frames

LEMMA TreeFacts ==
    ASSUME NEW tree \in Woods
    PROVE  /\ Len(tree) \in Nat /\ DOMAIN tree = 1 .. Len(tree)
           /\ \A n \in DOMAIN tree : tree[n].first \in Nat /\ tree[n].last \in Nat /\ tree[n].source \in Nat
                                     /\ tree[n] \in Trees
<1>1. \A t \in Trees : t.first \in Nat /\ t.last \in Nat /\ t.source \in Nat
  BY DEF Trees
<1>2. \A n \in DOMAIN tree : tree[n] \in Trees
  BY DEF Woods
<1>. HIDE DEF Trees
<1>. QED
  BY <1>1, <1>2 DEF Woods

LEMMA OrderJoins ==
    ASSUME NEW tree, NEW a \in Lists, NEW b \in Lists, InOrder(a, tree), InOrder(b, tree),
           \A i \in DOMAIN a : \A j \in DOMAIN b : tree[a[i]].last < tree[b[j]].first
    PROVE  InOrder(a \o b, tree)
<1>. SUFFICES ASSUME NEW i \in DOMAIN (a \o b), NEW j \in DOMAIN (a \o b), i < j
              PROVE  tree[(a \o b)[i]].last < tree[(a \o b)[j]].first
  BY DEF InOrder
<1>1. /\ DOMAIN a = 1 .. Len(a) /\ DOMAIN b = 1 .. Len(b) /\ Len(a) \in Nat /\ Len(b) \in Nat
      /\ i \in Nat /\ j \in Nat
      /\ i \in DOMAIN a => (a \o b)[i] = a[i]
      /\ j \in DOMAIN a => (a \o b)[j] = a[j]
      /\ i \in DOMAIN a \/ (i - Len(a) \in DOMAIN b /\ (a \o b)[i] = b[i - Len(a)] /\ i > Len(a))
      /\ j \in DOMAIN a \/ (j - Len(a) \in DOMAIN b /\ (a \o b)[j] = b[j - Len(a)] /\ j > Len(a))
  <2>. DEFINE both == a \o b
  <2>1. /\ Len(a) \in Nat /\ Len(b) \in Nat /\ DOMAIN a = 1 .. Len(a) /\ DOMAIN b = 1 .. Len(b)
        /\ DOMAIN both = 1 .. (Len(a) + Len(b))
        /\ \A k \in 1 .. Len(a) : both[k] = a[k]
        /\ \A k \in 1 .. (Len(a) + Len(b)) :
                 k \in 1 .. Len(a) \/ (k - Len(a) \in 1 .. Len(b) /\ both[k] = b[k - Len(a)])
    BY Joined
  <2>2. i \in DOMAIN both /\ j \in DOMAIN both
    OBVIOUS
  <2>. HIDE DEF both
  <2>3. i \in Nat /\ j \in Nat
    BY <2>1, <2>2
  <2>4. i \in DOMAIN a \/ (i - Len(a) \in DOMAIN b /\ both[i] = b[i - Len(a)] /\ i > Len(a))
    BY <2>1, <2>2
  <2>5. j \in DOMAIN a \/ (j - Len(a) \in DOMAIN b /\ both[j] = b[j - Len(a)] /\ j > Len(a))
    BY <2>1, <2>2
  <2>. QED
    BY <2>1, <2>3, <2>4, <2>5 DEF both
<1>2. CASE i \in DOMAIN a /\ j \in DOMAIN a
  BY <1>1, <1>2 DEF InOrder
<1>3. CASE i \in DOMAIN a /\ j \notin DOMAIN a
  BY <1>1, <1>3
<1>4. CASE i \notin DOMAIN a /\ j \notin DOMAIN a
  <2>1. /\ i - Len(a) \in DOMAIN b /\ j - Len(a) \in DOMAIN b /\ i - Len(a) < j - Len(a)
        /\ (a \o b)[i] = b[i - Len(a)] /\ (a \o b)[j] = b[j - Len(a)]
    BY <1>1, <1>4
  <2>. QED
    BY <2>1 DEF InOrder
<1>5. CASE i \notin DOMAIN a /\ j \in DOMAIN a
  BY <1>1, <1>5
<1>. QED
  BY <1>2, <1>3, <1>4, <1>5

LEMMA OrderParts ==
    ASSUME NEW tree, NEW a \in Lists, NEW b \in Lists, InOrder(a \o b, tree)
    PROVE  /\ InOrder(a, tree) /\ InOrder(b, tree)
           /\ \A i \in DOMAIN a : \A j \in DOMAIN b : tree[a[i]].last < tree[b[j]].first
<1>1. /\ DOMAIN a = 1 .. Len(a) /\ DOMAIN b = 1 .. Len(b) /\ Len(a) \in Nat /\ Len(b) \in Nat
      /\ DOMAIN (a \o b) = 1 .. (Len(a) + Len(b))
      /\ \A i \in 1 .. Len(a) : (a \o b)[i] = a[i]
      /\ \A i \in 1 .. Len(b) : (a \o b)[Len(a) + i] = b[i]
  BY Joined
<1>2. ASSUME NEW i \in DOMAIN a, NEW j \in DOMAIN a, i < j
      PROVE  tree[a[i]].last < tree[a[j]].first
  <2>1. i \in DOMAIN (a \o b) /\ j \in DOMAIN (a \o b) /\ (a \o b)[i] = a[i] /\ (a \o b)[j] = a[j]
    BY <1>1
  <2>. QED
    BY <1>2, <2>1 DEF InOrder
<1>3. ASSUME NEW i \in DOMAIN b, NEW j \in DOMAIN b, i < j
      PROVE  tree[b[i]].last < tree[b[j]].first
  <2>1. /\ Len(a) + i \in DOMAIN (a \o b) /\ Len(a) + j \in DOMAIN (a \o b)
        /\ (a \o b)[Len(a) + i] = b[i] /\ (a \o b)[Len(a) + j] = b[j] /\ Len(a) + i < Len(a) + j
    BY <1>1, <1>3
  <2>. QED
    BY <2>1 DEF InOrder
<1>4. ASSUME NEW i \in DOMAIN a, NEW j \in DOMAIN b
      PROVE  tree[a[i]].last < tree[b[j]].first
  <2>1. /\ i \in DOMAIN (a \o b) /\ Len(a) + j \in DOMAIN (a \o b)
        /\ (a \o b)[i] = a[i] /\ (a \o b)[Len(a) + j] = b[j] /\ i < Len(a) + j
    BY <1>1
  <2>. QED
    BY <2>1 DEF InOrder
<1>. QED
  BY <1>2, <1>3, <1>4 DEF InOrder

\* Another token is read.
LEMMA Longer ==
    ASSUME NEW tree \in Woods, NEW lists, NEW frames \in Stacks, NEW given,
           NEW size \in Nat, NEW more \in Nat, size <= more,
           Forest(tree, lists, frames, given, size)
    PROVE  Forest(tree, lists, frames, given, more)
<1>1. \A n \in DOMAIN tree : tree[n].last < more
  BY TreeFacts DEF Forest
<1>2. ASSUME NEW c \in DOMAIN frames
      PROVE  Holds(frames[c], tree, lists, more)
  <2>1. Holds(frames[c], tree, lists, size)
    BY DEF Forest
  <2>2. frames[c] \in Frames
    BY DEF Stacks
  <2>3. Reach(frames[c]) \in Nat
    BY <2>2, ReachIsToken
  <2>. QED
    BY <2>1, <2>3 DEF Holds
<1>. QED
  BY <1>1, <1>2 DEF Forest

\* An activation that holds nothing returns what it was given.
LEMMA Passed ==
    ASSUME NEW tree, NEW lists, NEW f \in Frames, NEW rest \in Stacks, NEW given, NEW size,
           ForestOf(tree, lists, f, rest, given, size), Held(f) = <<>>
    PROVE  Forest(tree, lists, rest, given, size)
<1>1. \A n : ~ Held1(f, n)
  BY DEF Held1
<1>2. \A n \in DOMAIN tree :
         Root(n, tree, lists) => n = given \/ \E c \in DOMAIN rest : Held1(rest[c], n)
  BY <1>1 DEF ForestOf
<1>. QED
  BY <1>2 DEF ForestOf, Forest, Trunk, Waiting, Held1

\* An activation goes on and keeps what it holds.
LEMMA Moved ==
    ASSUME NEW tree, NEW lists, NEW f, NEW rest, NEW given, NEW size, NEW g,
           ForestOf(tree, lists, f, rest, given, size),
           Held(g) = Held(f), g.first = f.first, g.first <= Reach(g), Reach(g) <= size,
           given # Invalid => Reach(g) <= tree[given].first
    PROVE  ForestOf(tree, lists, g, rest, given, size)
<1>1. Holds(g, tree, lists, size) /\ (given # Invalid => Precedes(g, tree, tree[given].first))
  BY DEF ForestOf, Holds, Precedes
<1>2. \A n : Held1(f, n) <=> Held1(g, n)
  BY DEF Held1
<1>. QED
  BY <1>1, <1>2 DEF ForestOf

\* An activation takes the node it was given.
LEMMA Took ==
    ASSUME NEW tree \in Woods, NEW lists, NEW f \in Frames, NEW rest, NEW given \in Nat,
           NEW size, NEW g,
           ForestOf(tree, lists, f, rest, given, size), given # Invalid, Held(f) \in Lists,
           Held(g) = Held(f) \o <<given>>, g.first = f.first, g.first <= Reach(g), Reach(g) <= size
    PROVE  ForestOf(tree, lists, g, rest, Invalid, size)
<1>. DEFINE held == Held(f)
            both == held \o <<given>>
<1>1. /\ Holds(f, tree, lists, size) /\ Precedes(f, tree, tree[given].first)
      /\ given \in DOMAIN tree /\ Root(given, tree, lists)
  BY DEF ForestOf
<1>2. /\ <<given>> \in Lists /\ Len(<<given>>) = 1 /\ <<given>>[1] = given
      /\ DOMAIN <<given>> = {1}
  BY DEF Lists
<1>3. /\ held \in Lists /\ Held(g) = both
      /\ DOMAIN both = 1 .. (Len(held) + 1) /\ DOMAIN held = 1 .. Len(held) /\ Len(held) \in Nat
      /\ \A i \in 1 .. Len(held) : both[i] = held[i]
      /\ \A i \in 1 .. (Len(held) + 1) : i \in 1 .. Len(held) \/ both[i] = given
      /\ both[Len(held) + 1] = given /\ Len(held) + 1 \in 1 .. (Len(held) + 1)
  <2>1. held \in Lists /\ Held(g) = held \o <<given>>
    OBVIOUS
  <2>. HIDE DEF held
  <2>2. /\ DOMAIN both = 1 .. (Len(held) + 1) /\ DOMAIN held = 1 .. Len(held) /\ Len(held) \in Nat
        /\ \A i \in 1 .. Len(held) : both[i] = held[i]
        /\ both[Len(held) + 1] = given
        /\ \A i \in 1 .. (Len(held) + 1) : i \in 1 .. Len(held) \/ i = Len(held) + 1
    BY <2>1, JoinedOne
  <2>. HIDE DEF both
  <2>3. \A i \in 1 .. (Len(held) + 1) : i \in 1 .. Len(held) \/ both[i] = given
    BY <2>2
  <2>4. Len(held) + 1 \in 1 .. (Len(held) + 1)
    BY <2>2
  <2>. QED
    BY <2>1, <2>2, <2>3, <2>4 DEF both
<1>4. InOrder(held, tree) /\ \A i \in DOMAIN held : tree[held[i]].last < tree[given].first
  BY <1>1 DEF Holds, Precedes
<1>5. InOrder(<<given>>, tree)
  BY <1>2 DEF InOrder
<1>. HIDE DEF held
<1>6. InOrder(both, tree)
  BY <1>2, <1>3, <1>4, <1>5, OrderJoins
<1>7. f.first <= tree[given].first
  <2>1. f.first <= Reach(f) /\ Reach(f) <= tree[given].first
    BY <1>1 DEF Holds, Precedes
  <2>. QED
    BY <1>1, <2>1, ReachIsToken, TreeFacts
<1>8. \A i \in DOMAIN held : held[i] \in DOMAIN tree /\ Root(held[i], tree, lists)
                             /\ f.first <= tree[held[i]].first
  BY <1>1 DEF Holds, held
<1>. HIDE DEF both
<1>9. Holds(g, tree, lists, size)
  BY <1>1, <1>3, <1>6, <1>7, <1>8 DEF Holds
<1>10. \A n : Held1(g, n) <=> Held1(f, n) \/ n = given
  <2>1. Held1(g, given)
    BY <1>3 DEF Held1
  <2>2. \A n : Held1(f, n) => Held1(g, n)
    BY <1>3 DEF Held1, held
  <2>3. \A n : Held1(g, n) => Held1(f, n) \/ n = given
    BY <1>3 DEF Held1, held
  <2>. QED
    BY <2>1, <2>2, <2>3
<1>11. Waiting(tree, lists, rest, g.first, Invalid, size)
  BY DEF ForestOf, Waiting
<1>. QED
  BY <1>9, <1>10, <1>11 DEF ForestOf

\* An activation calls a function, which begins at the next token.
LEMMA Called1 ==
    ASSUME NEW tree \in Woods, NEW lists, NEW f \in Frames, NEW rest \in Stacks,
           NEW size \in Nat, NEW k, Held(k) = <<>>, k.first = size, Reach(k) = size,
           ForestOf(tree, lists, f, rest, Invalid, size)
    PROVE  ForestOf(tree, lists, k, <<f>> \o rest, Invalid, size)
<1>. DEFINE all == <<f>> \o rest
<1>1. Forest(tree, lists, all, Invalid, size)
  BY TopOff
<1>2. all \in Stacks
  BY Stacked
<1>. HIDE DEF all
<1>3. Holds(k, tree, lists, size)
  BY DEF Holds, InOrder
<1>4. \A n : ~ Held1(k, n)
  BY DEF Held1
<1>5. \A n \in DOMAIN tree : tree[n].last < size
  BY <1>1 DEF Forest
<1>6. ASSUME NEW c \in DOMAIN all PROVE Precedes(all[c], tree, size)
  BY <1>1, <1>5 DEF Forest, Holds, Precedes
<1>7. Waiting(tree, lists, all, k.first, Invalid, size)
  BY <1>1, <1>6 DEF Waiting, Forest
<1>8. Trunk(tree, lists, size)
  BY <1>1 DEF Forest, Trunk
<1>9. \A n \in DOMAIN tree : Root(n, tree, lists) =>
         n = Invalid \/ \E c \in DOMAIN all : Held1(all[c], n)
  BY <1>1 DEF Forest, Held1
<1>. QED
  BY <1>3, <1>4, <1>7, <1>8, <1>9 DEF ForestOf, all

\* parse_expr hands the left operand to the operator's function.
LEMMA CalledWith ==
    ASSUME NEW tree \in Woods, NEW lists, NEW f \in Frames, NEW rest \in Stacks,
           NEW given \in Nat, NEW size \in Nat, NEW k \in Frames,
           ForestOf(tree, lists, f, rest, given, size), given # Invalid,
           Held(f) = <<>>, Reach(f) = f.first,
           Held(k) = <<given>>, k.first = f.first, Reach(k) = k.first
    PROVE  ForestOf(tree, lists, k, <<f>> \o rest, Invalid, size)
<1>. DEFINE all == <<f>> \o rest
<1>1. /\ Len(rest) \in Nat /\ DOMAIN rest = 1 .. Len(rest) /\ all[1] = f
      /\ DOMAIN all = 1 .. (Len(rest) + 1)
      /\ \A c \in 1 .. Len(rest) : all[c + 1] = rest[c]
      /\ \A c \in 2 .. (Len(rest) + 1) : c - 1 \in 1 .. Len(rest) /\ all[c] = rest[c - 1]
  BY Stacked
<1>2. f.first \in Nat /\ k.first \in Nat
  BY ReachIsToken
<1>3. Held(k) = Held(f) \o <<given>> /\ Held(f) \in Lists
  BY DEF Lists
<1>4. Holds(f, tree, lists, size)
  BY DEF ForestOf
<1>5. ForestOf(tree, lists, k, rest, Invalid, size)
  <2>1. k.first <= Reach(k) /\ Reach(k) <= size
    BY <1>2, <1>4 DEF Holds
  <2>. QED
    BY <1>3, <2>1, Took
<1>. HIDE DEF all
<1>6. Waiting(tree, lists, rest, k.first, Invalid, size)
  BY <1>5 DEF ForestOf
<1>7. Precedes(f, tree, k.first)
  BY <1>2 DEF Precedes
<1>8. ASSUME NEW c \in DOMAIN all
      PROVE  /\ Holds(all[c], tree, lists, size)
             /\ Precedes(all[c], tree, k.first)
             /\ \A b \in 1 .. (c - 1) : Precedes(all[c], tree, all[b].first)
  <2>1. CASE c = 1
    BY <1>1, <1>4, <1>7, <2>1
  <2>2. CASE c # 1
    <3>. DEFINE d == c - 1
    <3>1. d \in DOMAIN rest /\ all[c] = rest[d] /\ d \in Nat /\ c = d + 1
      BY <1>1, <2>2
    <3>. HIDE DEF d
    <3>2. /\ Holds(rest[d], tree, lists, size) /\ Precedes(rest[d], tree, k.first)
          /\ \A b \in 1 .. (d - 1) : Precedes(rest[d], tree, rest[b].first)
      BY <1>6, <3>1 DEF Waiting
    <3>3. ASSUME NEW b \in 1 .. (c - 1) PROVE Precedes(all[c], tree, all[b].first)
      <4>1. CASE b = 1
        BY <1>1, <3>1, <3>2, <4>1
      <4>2. CASE b # 1
        <5>1. b - 1 \in 1 .. (d - 1) /\ b \in 2 .. (Len(rest) + 1)
          BY <1>1, <3>1, <4>2
        <5>2. all[b] = rest[b - 1]
          BY <1>1, <5>1
        <5>. QED
          BY <3>1, <3>2, <5>1, <5>2
      <4>. QED
        BY <4>1, <4>2
    <3>. QED
      BY <3>1, <3>2, <3>3
  <2>. QED
    BY <2>1, <2>2
<1>9. Waiting(tree, lists, all, k.first, Invalid, size)
  BY <1>8 DEF Waiting
<1>10. ASSUME NEW n, NEW c \in DOMAIN rest, Held1(rest[c], n)
       PROVE  \E d \in DOMAIN all : Held1(all[d], n)
  <2>1. c + 1 \in DOMAIN all /\ all[c + 1] = rest[c]
    BY <1>1
  <2>. QED
    BY <1>10, <2>1
<1>. QED
  BY <1>5, <1>9, <1>10 DEF ForestOf, all

--------------------------------------------------------------------------------
(* Payloads *)

LEMMA ListedStays ==
    ASSUME NEW from \in Lists, NEW more \in Lists, NEW start \in Nat \ {0}, NEW count \in Nat,
           start + count <= Len(from) + 1
    PROVE  /\ Listed(from \o more, start, count) = Listed(from, start, count)
           /\ Listed(from, start, count) \in Lists
           /\ Len(Listed(from, start, count)) = count
<1>1. \A i \in 1 .. Len(from) : (from \o more)[i] = from[i] /\ from[i] \in Nat
  BY Joined DEF Lists
<1>2. \A i \in 1 .. count : start + i - 1 \in 1 .. Len(from)
  BY DEF Lists
<1>3. \A i \in 1 .. count : (from \o more)[start + i - 1] = from[start + i - 1]
                            /\ from[start + i - 1] \in Nat
  BY <1>1, <1>2
<1>. QED
  BY <1>3 DEF Listed, Lists

LEMMA CountingStays ==
    ASSUME NEW from \in Lists, NEW more \in Lists, NEW at \in Nat,
           at # Invalid => at <= Len(from) /\ at + from[at] <= Len(from)
    PROVE  /\ Counting(from \o more, at) = Counting(from, at)
           /\ Counting(from, at) \in Lists
           /\ at # Invalid => at <= Len(from \o more) /\ at + (from \o more)[at] <= Len(from \o more)
<1>1. CASE at = Invalid
  BY <1>1 DEF Counting, Lists
<1>2. CASE at # Invalid
  <2>1. at \in 1 .. Len(from) /\ Len(from \o more) >= Len(from)
    BY <1>2, Joined DEF Invalid, Lists
  <2>2. (from \o more)[at] = from[at] /\ from[at] \in Nat
    BY <2>1, Joined DEF Lists
  <2>3. at + 1 \in Nat \ {0} /\ (at + 1) + from[at] <= Len(from) + 1
    BY <1>2, <2>2
  <2>4. /\ Listed(from \o more, at + 1, from[at]) = Listed(from, at + 1, from[at])
        /\ Listed(from, at + 1, from[at]) \in Lists
    BY <2>2, <2>3, ListedStays
  <2>5. /\ at <= Len(from \o more)
        /\ at + (from \o more)[at] <= Len(from \o more)
    <3>1. Len(from \o more) \in Nat /\ Len(from) \in Nat
      BY Joined DEF Lists
    <3>. HIDE DEF Counting
    <3>. QED
      BY <1>2, <2>1, <2>2, <3>1
  <2>. QED
    BY <1>2, <2>2, <2>4, <2>5 DEF Counting
<1>. QED
  BY <1>1, <1>2

LEMMA KidsStay ==
    ASSUME NEW node \in Trees, NEW from \in Lists, NEW more \in Lists, Stored(node, from)
    PROVE  /\ Kids(node, from \o more) = Kids(node, from)
           /\ Stored(node, from \o more)
<1>. DEFINE long == from \o more
<1>1. /\ Len(from) \in Nat /\ Len(long) \in Nat /\ Len(from) <= Len(long)
      /\ \A i \in 1 .. Len(from) : long[i] = from[i]
  BY Joined
<1>2. node.lhs \in Nat /\ node.rhs \in Nat /\ node.tag \in Tags
  BY DEF Trees
<1>. HIDE DEF long
<1>3. CASE node.tag \in {"block", "array"}
  <2>1. Listed(long, node.lhs, node.rhs) = Listed(from, node.lhs, node.rhs)
    BY <1>2, <1>3, ListedStays DEF Stored, long
  <2>. QED
    BY <1>1, <1>2, <1>3, <2>1 DEF Stored, Kids, Operators, long
<1>4. CASE node.tag = "map"
  <2>1. Listed(long, node.lhs, 2 * node.rhs) = Listed(from, node.lhs, 2 * node.rhs)
    BY <1>2, <1>4, ListedStays DEF Stored, long
  <2>. QED
    BY <1>1, <1>2, <1>4, <2>1 DEF Stored, Kids, Operators, long
<1>5. CASE node.tag = "call"
  <2>1. /\ Counting(long, node.rhs) = Counting(from, node.rhs)
        /\ node.rhs # Invalid => node.rhs <= Len(long) /\ node.rhs + long[node.rhs] <= Len(long)
    BY <1>2, <1>5, CountingStays DEF Stored, long
  <2>2. Stored(node, long)
    BY <1>5, <2>1 DEF Stored
  <2>3. Kids(node, long) = Kids(node, from)
    BY <1>5, <2>1 DEF Kids, Operators
  <2>. QED
    BY <2>2, <2>3 DEF long
<1>6. CASE node.tag = "function"
  <2>1. /\ Counting(long, node.lhs) = Counting(from, node.lhs)
        /\ node.lhs # Invalid => node.lhs <= Len(long) /\ node.lhs + long[node.lhs] <= Len(long)
    BY <1>2, <1>6, CountingStays DEF Stored, long
  <2>2. Stored(node, long)
    BY <1>6, <2>1 DEF Stored
  <2>3. Kids(node, long) = Kids(node, from)
    BY <1>6, <2>1 DEF Kids, Operators
  <2>. QED
    BY <2>2, <2>3 DEF long
<1>7. CASE node.tag = "if"
  <2>1. /\ node.rhs > 0 /\ node.rhs < Len(from)
        /\ node.rhs \in 1 .. Len(from) /\ node.rhs + 1 \in 1 .. Len(from)
    BY <1>1, <1>2, <1>7 DEF Stored
  <2>2. long[node.rhs] = from[node.rhs] /\ long[node.rhs + 1] = from[node.rhs + 1]
    BY <1>1, <2>1
  <2>3. Stored(node, long)
    BY <1>1, <1>2, <1>7, <2>1 DEF Stored
  <2>4. Kids(node, long) = Kids(node, from)
    BY <1>7, <2>2 DEF Kids, Operators
  <2>. QED
    BY <2>3, <2>4 DEF long
<1>8. CASE node.tag \notin {"block", "array", "map", "call", "function", "if"}
  <2>1. Stored(node, long)
    BY <1>8 DEF Stored
  <2>2. Kids(node, long) = Kids(node, from)
    BY <1>8 DEF Kids
  <2>. QED
    BY <2>1, <2>2 DEF long
<1>. QED
  BY <1>3, <1>4, <1>5, <1>6, <1>7, <1>8

--------------------------------------------------------------------------------
(* A node is built *)

LEMMA TreeGrows ==
    ASSUME NEW tree \in Woods, NEW new \in Trees
    PROVE  /\ tree \o <<new>> \in Woods /\ Len(tree \o <<new>>) = Len(tree) + 1
           /\ DOMAIN (tree \o <<new>>) = 1 .. (Len(tree) + 1) /\ DOMAIN tree = 1 .. Len(tree)
           /\ Len(tree) \in Nat
           /\ \A n \in DOMAIN tree : (tree \o <<new>>)[n] = tree[n]
           /\ (tree \o <<new>>)[Len(tree) + 1] = new
           /\ \A n \in DOMAIN (tree \o <<new>>) : n \in DOMAIN tree \/ n = Len(tree) + 1
<1>. HIDE DEF Trees
<1>. QED
  BY DEF Woods

LEMMA OrderStays ==
    ASSUME NEW tree, NEW grown, NEW list, InOrder(list, tree),
           \A i \in DOMAIN list : grown[list[i]] = tree[list[i]]
    PROVE  InOrder(list, grown)
BY DEF InOrder

\* What is taken from the forest lies between what is kept and the next token.
Takes(kids, tree, lists, f, g, given, part) ==
    /\ kids \in Lists /\ InOrder(kids, tree) /\ InOrder(Held(g), tree)
    /\ \A i \in DOMAIN kids :
          /\ kids[i] \in DOMAIN tree /\ Root(kids[i], tree, lists)
          /\ (\E j \in DOMAIN part : part[j] = kids[i]) \/ (kids[i] = given /\ given # Invalid)
    /\ \A j \in DOMAIN part : \E i \in DOMAIN kids : kids[i] = part[j]
    /\ given # Invalid => \E i \in DOMAIN kids : kids[i] = given
    /\ \A n : Held1(f, n) => Held1(g, n) \/ \E j \in DOMAIN part : part[j] = n
    /\ \A n : Held1(g, n) => Held1(f, n)
    /\ \A j \in DOMAIN part : Held1(f, part[j])

LEMMA Taken ==
    ASSUME NEW tree \in Woods, NEW lists, NEW f \in Frames, NEW rest, NEW given \in Nat,
           NEW size, NEW g, NEW part \in Lists, Held(g) \in Lists,
           ForestOf(tree, lists, f, rest, given, size), Held(f) = Held(g) \o part
    PROVE  Takes(part \o Present(given), tree, lists, f, g, given, part)
<1>. DEFINE own == Present(given)
            kids == part \o own
            held == Held(g)
<1>1. /\ own \in Lists
      /\ given # Invalid => 1 \in 1 .. Len(own) /\ own[1] = given
      /\ \A i \in DOMAIN own : given # Invalid /\ i = 1 /\ own[i] = given
  BY PresentFacts
<1>2. Holds(f, tree, lists, size) /\ (given # Invalid => Precedes(f, tree, tree[given].first))
      /\ (given # Invalid => given \in DOMAIN tree /\ Root(given, tree, lists))
  BY DEF ForestOf
<1>3. held \in Lists /\ Held(f) = held \o part
  OBVIOUS
<1>. HIDE DEF own, held
<1>4. /\ kids \in Lists /\ DOMAIN kids = 1 .. (Len(part) + Len(own))
      /\ Len(part) \in Nat /\ Len(own) \in Nat
      /\ DOMAIN part = 1 .. Len(part) /\ DOMAIN own = 1 .. Len(own)
      /\ \A i \in 1 .. Len(part) : kids[i] = part[i]
      /\ \A i \in 1 .. Len(own) : kids[Len(part) + i] = own[i]
      /\ \A i \in 1 .. (Len(part) + Len(own)) :
            i \in 1 .. Len(part) \/ (i - Len(part) \in 1 .. Len(own) /\ kids[i] = own[i - Len(part)])
  BY <1>1, Joined
<1>5. /\ DOMAIN Held(f) = 1 .. (Len(held) + Len(part))
      /\ Len(held) \in Nat /\ DOMAIN held = 1 .. Len(held)
      /\ \A i \in 1 .. Len(held) : Held(f)[i] = held[i]
      /\ \A i \in 1 .. Len(part) : Held(f)[Len(held) + i] = part[i]
      /\ \A i \in 1 .. (Len(held) + Len(part)) : i \in 1 .. Len(held) \/
            (i - Len(held) \in 1 .. Len(part) /\ Held(f)[i] = part[i - Len(held)])
  <2>. DEFINE both == held \o part
  <2>1. /\ DOMAIN both = 1 .. (Len(held) + Len(part))
        /\ Len(held) \in Nat /\ DOMAIN held = 1 .. Len(held)
        /\ \A i \in 1 .. Len(held) : both[i] = held[i]
        /\ \A i \in 1 .. Len(part) : both[Len(held) + i] = part[i]
        /\ \A i \in 1 .. (Len(held) + Len(part)) : i \in 1 .. Len(held) \/
              (i - Len(held) \in 1 .. Len(part) /\ both[i] = part[i - Len(held)])
    BY <1>3, Joined
  <2>2. Held(f) = both
    BY <1>3
  <2>. HIDE DEF both
  <2>. QED
    BY <2>1, <2>2
<1>. HIDE DEF kids
<1>6. /\ InOrder(held, tree) /\ InOrder(part, tree)
  <2>1. InOrder(held \o part, tree)
    BY <1>2, <1>3 DEF Holds
  <2>. QED
    BY <1>3, <2>1, OrderParts
<1>7. ASSUME NEW j \in DOMAIN part
      PROVE  /\ Held1(f, part[j]) /\ part[j] \in DOMAIN tree /\ Root(part[j], tree, lists)
             /\ given # Invalid => tree[part[j]].last < tree[given].first
  <2>1. Len(held) + j \in DOMAIN Held(f) /\ Held(f)[Len(held) + j] = part[j]
    BY SMTT(30), <1>4, <1>5
  <2>. QED
    BY <1>2, <2>1 DEF Held1, Holds, Precedes
<1>8. \A n : Held1(g, n) => Held1(f, n)
  BY <1>5 DEF Held1, held
<1>9. \A n : Held1(f, n) => Held1(g, n) \/ \E j \in DOMAIN part : part[j] = n
  BY <1>4, <1>5 DEF Held1, held
<1>10. InOrder(own, tree)
  BY <1>1, <1>4 DEF InOrder
<1>11. \A i \in DOMAIN own : given # Invalid /\ own[i] = given
  BY <1>1, <1>4
<1>12. InOrder(kids, tree)
  <2>1. \A i \in DOMAIN part : \A j \in DOMAIN own : tree[part[i]].last < tree[own[j]].first
    BY <1>7, <1>11
  <2>. QED
    BY <1>1, <1>6, <1>10, <2>1, OrderJoins DEF kids
<1>13. ASSUME NEW i \in DOMAIN kids
       PROVE  /\ kids[i] \in DOMAIN tree /\ Root(kids[i], tree, lists)
              /\ (\E j \in DOMAIN part : part[j] = kids[i]) \/ (kids[i] = given /\ given # Invalid)
  <2>1. CASE i \in 1 .. Len(part)
    BY <1>4, <1>7, <2>1
  <2>2. CASE i \notin 1 .. Len(part)
    <3>1. i - Len(part) \in DOMAIN own /\ kids[i] = own[i - Len(part)]
      BY <1>4, <2>2
    <3>. QED
      BY <1>2, <1>11, <3>1
  <2>. QED
    BY <2>1, <2>2
<1>14. \A j \in DOMAIN part : \E i \in DOMAIN kids : kids[i] = part[j]
  BY <1>4
<1>15. given # Invalid => \E i \in DOMAIN kids : kids[i] = given
  <2>1. ASSUME given # Invalid PROVE Len(part) + 1 \in DOMAIN kids /\ kids[Len(part) + 1] = given
    <3>1. 1 \in 1 .. Len(own) /\ own[1] = given
      BY <1>1, <2>1
    <3>. QED
      BY <1>4, <3>1
  <2>. QED
    BY <2>1
<1>. QED
  BY <1>4, <1>6, <1>7, <1>8, <1>9, <1>12, <1>13, <1>14, <1>15 DEF Takes, kids, own, held

LEMMA Built ==
    ASSUME NEW tree \in Woods, NEW lists \in Lists, NEW more \in Lists,
           NEW f \in Frames, NEW rest \in Stacks, NEW given \in Nat, NEW size \in Nat,
           NEW g \in Frames, NEW new \in Trees, NEW part \in Lists, Held(g) \in Lists,
           ForestOf(tree, lists, f, rest, given, size), Spans(tree, size),
           Held(f) = Held(g) \o part,
           g.first = f.first, g.first <= Reach(g), Reach(g) <= size, Reach(g) <= new.first,
           \A i \in DOMAIN Held(g) : tree[Held(g)[i]].last < new.first,
           \A i \in DOMAIN part : new.first <= tree[part[i]].first,
           given # Invalid => new.first <= tree[given].first,
           Kids(new, lists \o more) = part \o Present(given), Stored(new, lists \o more),
           new.last = size - 1
    PROVE  ForestOf(tree \o <<new>>, lists \o more, g, rest, Len(tree) + 1, size)
<1>. DEFINE grown == tree \o <<new>>
            longer == lists \o more
            last == Len(tree) + 1
            kids == part \o Present(given)
<1>1. /\ grown \in Woods /\ DOMAIN grown = 1 .. last /\ DOMAIN tree = 1 .. Len(tree)
      /\ Len(tree) \in Nat
      /\ \A n \in DOMAIN tree : grown[n] = tree[n] /\ n \in DOMAIN grown /\ n < last
      /\ grown[last] = new /\ last \in DOMAIN grown /\ last \notin DOMAIN tree
      /\ \A n \in DOMAIN grown : n \in DOMAIN tree \/ n = last
      /\ last # Invalid /\ last \in Nat
  <2>1. /\ grown \in Woods /\ DOMAIN grown = 1 .. last /\ DOMAIN tree = 1 .. Len(tree)
        /\ Len(tree) \in Nat
        /\ \A n \in DOMAIN tree : grown[n] = tree[n]
        /\ grown[last] = new
        /\ \A n \in DOMAIN grown : n \in DOMAIN tree \/ n = last
    BY TreeGrows
  <2>. HIDE DEF grown
  <2>2. /\ last # Invalid /\ last \in Nat /\ last \in 1 .. last /\ last \notin 1 .. Len(tree)
        /\ \A n \in 1 .. Len(tree) : n \in 1 .. last /\ n < last
    BY <2>1 DEF Invalid
  <2>. HIDE DEF last
  <2>. QED
    BY <2>1, <2>2
<1>2. /\ Trunk(tree, lists, size) /\ Holds(f, tree, lists, size)
      /\ given # Invalid => Precedes(f, tree, tree[given].first)
      /\ given # Invalid => given \in DOMAIN tree /\ Root(given, tree, lists)
      /\ Waiting(tree, lists, rest, f.first, given, size)
      /\ \A n \in DOMAIN tree : Root(n, tree, lists) =>
            n = given \/ Held1(f, n) \/ \E c \in DOMAIN rest : Held1(rest[c], n)
  BY DEF ForestOf
<1>3. /\ kids \in Lists /\ InOrder(kids, tree) /\ InOrder(Held(g), tree)
      /\ \A i \in DOMAIN kids :
            /\ kids[i] \in DOMAIN tree /\ Root(kids[i], tree, lists)
            /\ (\E j \in DOMAIN part : part[j] = kids[i]) \/ (kids[i] = given /\ given # Invalid)
      /\ \A j \in DOMAIN part : \E i \in DOMAIN kids : kids[i] = part[j]
      /\ given # Invalid => \E i \in DOMAIN kids : kids[i] = given
      /\ \A n : Held1(f, n) => Held1(g, n) \/ \E j \in DOMAIN part : part[j] = n
      /\ \A n : Held1(g, n) => Held1(f, n)
      /\ \A j \in DOMAIN part : Held1(f, part[j])
  <2>1. Takes(part \o Present(given), tree, lists, f, g, given, part)
    BY Taken
  <2>. QED
    BY <2>1 DEF Takes
<1>. HIDE DEF kids, grown, longer, last
<1>4. Kids(new, longer) = kids /\ Stored(new, longer)
  BY DEF kids, longer
<1>5. ASSUME NEW n \in DOMAIN tree
      PROVE  Kids(grown[n], longer) = Kids(tree[n], lists) /\ Stored(grown[n], longer)
  <2>1. tree[n] \in Trees /\ Stored(tree[n], lists)
    BY <1>2, TreeFacts DEF Trunk
  <2>. QED
    BY <1>1, <2>1, KidsStay DEF longer
<1>6. \A n \in DOMAIN tree : /\ tree[n].first \in Nat /\ tree[n].last \in Nat
                             /\ tree[n].first <= tree[n].last
                             /\ tree[n].last < size
  BY <1>2, TreeFacts DEF Spans, Trunk
<1>7. new.first \in Nat /\ new.last \in Nat /\ f.first \in Nat /\ Reach(g) \in Nat
  BY ReachIsToken DEF Trees
<1>8. ASSUME NEW i \in DOMAIN kids
      PROVE  /\ new.first <= tree[kids[i]].first /\ tree[kids[i]].last <= new.last
             /\ kids[i] \in 1 .. (last - 1)
  <2>1. new.first <= tree[kids[i]].first
    BY <1>3
  <2>2. kids[i] \in DOMAIN tree
    BY <1>3
  <2>. QED
    BY <1>1, <1>6, <2>1, <2>2 DEF last
<1>9. InOrder(kids, grown)
  <2>1. \A i \in DOMAIN kids : grown[kids[i]] = tree[kids[i]]
    BY <1>1, <1>3
  <2>. QED
    BY <1>3, <2>1, OrderStays
<1>10. ASSUME NEW n \in DOMAIN tree, NEW i \in DOMAIN Kids(tree[n], lists)
       PROVE  Kids(tree[n], lists)[i] \in DOMAIN tree
  <2>1. Kids(tree[n], lists)[i] \in 1 .. (n - 1)
    BY <1>2 DEF Trunk, Family
  <2>. QED
    BY <1>1, <2>1
<1>11. ASSUME NEW n \in DOMAIN tree
       PROVE  /\ Stored(grown[n], longer) /\ grown[n].last < size
              /\ Family(grown[n], n, grown, longer)
  <2>1. Family(tree[n], n, tree, lists) /\ tree[n].last < size
    BY <1>2 DEF Trunk
  <2>2. \A i \in DOMAIN Kids(tree[n], lists) :
           grown[Kids(tree[n], lists)[i]] = tree[Kids(tree[n], lists)[i]]
    BY <1>1, <1>10
  <2>3. InOrder(Kids(tree[n], lists), grown)
    BY <2>1, <2>2, OrderStays DEF Family
  <2>4. Kids(grown[n], longer) = Kids(tree[n], lists) /\ grown[n] = tree[n]
    BY <1>1, <1>5
  <2>. QED
    BY <1>5, <2>1, <2>2, <2>3, <2>4 DEF Family
<1>12. Family(new, last, grown, longer)
  <2>1. \A i \in DOMAIN kids : grown[kids[i]] = tree[kids[i]]
    BY <1>1, <1>3
  <2>. QED
    BY <1>4, <1>8, <1>9, <2>1 DEF Family
<1>13. ASSUME NEW n \in DOMAIN grown, NEW p \in DOMAIN grown,
              NEW i \in DOMAIN Kids(grown[n], longer), NEW j \in DOMAIN Kids(grown[p], longer),
              Kids(grown[n], longer)[i] = Kids(grown[p], longer)[j]
       PROVE  n = p
  <2>1. CASE n \in DOMAIN tree /\ p \in DOMAIN tree
    BY <1>2, <1>5, <1>13, <2>1 DEF Trunk
  <2>2. CASE n = last /\ p \in DOMAIN tree
    <3>1. i \in DOMAIN kids /\ Root(kids[i], tree, lists) /\ Kids(grown[n], longer) = kids
      BY <1>1, <1>3, <1>4, <2>2
    <3>. QED
      BY <1>5, <1>13, <2>2, <3>1 DEF Root
  <2>3. CASE n \in DOMAIN tree /\ p = last
    <3>1. j \in DOMAIN kids /\ Root(kids[j], tree, lists) /\ Kids(grown[p], longer) = kids
      BY <1>1, <1>3, <1>4, <2>3
    <3>. QED
      BY <1>5, <1>13, <2>3, <3>1 DEF Root
  <2>. QED
    BY <1>1, <2>1, <2>2, <2>3
<1>14. Trunk(grown, longer, size)
  <2>1. \A n \in DOMAIN grown : /\ Stored(grown[n], longer) /\ grown[n].last < size
                                /\ Family(grown[n], n, grown, longer)
    BY <1>1, <1>4, <1>7, <1>11, <1>12
  <2>. QED
    BY <1>13, <2>1 DEF Trunk
<1>15. ASSUME NEW n
       PROVE  Root(n, grown, longer)
                 <=> Root(n, tree, lists) /\ \A i \in DOMAIN kids : kids[i] # n
  BY <1>1, <1>4, <1>5 DEF Root
<1>16. ASSUME NEW h \in DOMAIN tree, tree[h].last < new.first \/ tree[h].last < f.first
       PROVE  \A i \in DOMAIN kids : kids[i] # h \/ (kids[i] = given /\ given # Invalid)
  <2>. SUFFICES ASSUME NEW j \in DOMAIN part, part[j] = h PROVE FALSE
    BY <1>3
  <2>1. new.first <= tree[h].first
    OBVIOUS
  <2>2. f.first <= tree[h].first
    BY <1>2, <1>3 DEF Holds, Held1
  <2>. QED
    BY <1>6, <1>7, <1>16, <2>1, <2>2
<1>17. ASSUME NEW h \in DOMAIN tree, tree[h].last < new.first \/ tree[h].last < f.first,
              given # Invalid => tree[h].last < tree[given].first
       PROVE  \A i \in DOMAIN kids : kids[i] # h
  <2>1. given # Invalid => given # h
    BY <1>2, <1>6, <1>17
  <2>. QED
    BY <1>16, <1>17, <2>1
<1>18. Holds(g, grown, longer, size)
  <2>1. ASSUME NEW i \in DOMAIN Held(g)
        PROVE  /\ Held(g)[i] \in DOMAIN grown /\ Root(Held(g)[i], grown, longer)
               /\ g.first <= grown[Held(g)[i]].first /\ Held(g)[i] \in DOMAIN tree
    <3>. DEFINE h == Held(g)[i]
    <3>1. Held1(f, h)
      BY <1>3 DEF Held1
    <3>2. h \in DOMAIN tree /\ Root(h, tree, lists) /\ f.first <= tree[h].first
          /\ (given # Invalid => tree[h].last < tree[given].first)
      BY <1>2, <3>1 DEF Held1, Holds, Precedes
    <3>3. tree[h].last < new.first
      OBVIOUS
    <3>. HIDE DEF h
    <3>4. Root(h, grown, longer)
      BY <1>15, <1>17, <3>2, <3>3
    <3>. QED
      BY <1>1, <3>2, <3>4 DEF h
  <2>2. \A i \in DOMAIN Held(g) : grown[Held(g)[i]] = tree[Held(g)[i]]
    BY <1>1, <2>1
  <2>3. InOrder(Held(g), grown)
    BY <1>3, <2>2, OrderStays
  <2>. QED
    BY <2>1, <2>3 DEF Holds
<1>19. Precedes(g, grown, grown[last].first)
  <2>1. \A i \in DOMAIN Held(g) : Held(g)[i] \in DOMAIN tree
    <3>1. \A i \in DOMAIN Held(g) : Held1(f, Held(g)[i])
      BY <1>3 DEF Held1
    <3>. QED
      BY <1>2, <3>1 DEF Held1, Holds
  <2>. QED
    BY <1>1, <2>1 DEF Precedes
<1>20. ASSUME NEW c \in DOMAIN rest
       PROVE  /\ Holds(rest[c], grown, longer, size)
              /\ Precedes(rest[c], grown, g.first)
              /\ \A b \in 1 .. (c - 1) : Precedes(rest[c], grown, rest[b].first)
              /\ Precedes(rest[c], grown, grown[last].first)
  <2>. DEFINE r == rest[c]
  <2>1. /\ Holds(r, tree, lists, size) /\ Precedes(r, tree, f.first)
        /\ \A b \in 1 .. (c - 1) : Precedes(r, tree, rest[b].first)
        /\ given # Invalid => Precedes(r, tree, tree[given].first)
    BY <1>2 DEF Waiting
  <2>2. r \in Frames
    BY DEF Stacks
  <2>8. Reach(r) \in Nat
    BY <2>2, ReachIsToken
  <2>. HIDE DEF r
  <2>3. ASSUME NEW i \in DOMAIN Held(r)
        PROVE  /\ Held(r)[i] \in DOMAIN tree /\ Root(Held(r)[i], grown, longer)
               /\ grown[Held(r)[i]] = tree[Held(r)[i]]
    <3>. DEFINE h == Held(r)[i]
    <3>1. /\ h \in DOMAIN tree /\ Root(h, tree, lists) /\ tree[h].last < f.first
          /\ given # Invalid => tree[h].last < tree[given].first
      BY <2>1 DEF Holds, Precedes
    <3>. HIDE DEF h
    <3>2. Root(h, grown, longer)
      BY <1>15, <1>17, <3>1
    <3>. QED
      BY <1>1, <3>1, <3>2 DEF h
  <2>4. InOrder(Held(r), grown)
    BY <2>1, <2>3, OrderStays DEF Holds
  <2>5. Holds(r, grown, longer, size)
    BY <1>1, <2>1, <2>3, <2>4 DEF Holds
  <2>6. \A t : Precedes(r, tree, t) => Precedes(r, grown, t)
    BY <2>3 DEF Precedes
  <2>7. Precedes(r, grown, grown[last].first)
    <3>1. g.first <= new.first /\ f.first = g.first
      BY <1>7
    <3>2. Reach(r) <= new.first
      BY <1>7, <2>1, <2>8, <3>1 DEF Precedes
    <3>3. ASSUME NEW i \in DOMAIN Held(r) PROVE tree[Held(r)[i]].last < new.first
      <4>1. tree[Held(r)[i]].last < f.first /\ tree[Held(r)[i]].last \in Nat
        BY <1>6, <2>1, <2>3 DEF Precedes
      <4>. QED
        BY <1>7, <3>1, <4>1
    <3>. QED
      BY <1>1, <2>3, <3>2, <3>3 DEF Precedes
  <2>. QED
    BY <2>1, <2>5, <2>6, <2>7 DEF r
<1>21. Waiting(grown, longer, rest, g.first, last, size)
  BY <1>20 DEF Waiting
<1>22. Root(last, grown, longer)
  <2>1. \A n \in DOMAIN grown : \A i \in DOMAIN Kids(grown[n], longer) :
           Kids(grown[n], longer)[i] \in DOMAIN tree
    BY <1>1, <1>3, <1>4, <1>5, <1>10
  <2>. QED
    BY <1>1, <2>1 DEF Root
<1>23. ASSUME NEW n \in DOMAIN grown, Root(n, grown, longer)
       PROVE  n = last \/ Held1(g, n) \/ \E c \in DOMAIN rest : Held1(rest[c], n)
  <2>1. CASE n \in DOMAIN tree
    <3>1. Root(n, tree, lists) /\ \A i \in DOMAIN kids : kids[i] # n
      BY <1>15, <1>23
    <3>2. n = given \/ Held1(f, n) \/ \E c \in DOMAIN rest : Held1(rest[c], n)
      BY <1>2, <2>1, <3>1
    <3>3. n # given
      BY <1>1, <1>3, <2>1, <3>1 DEF Invalid
    <3>4. Held1(f, n) => Held1(g, n)
      BY <1>3, <3>1
    <3>. QED
      BY <3>2, <3>3, <3>4
  <2>. QED
    BY <1>1, <2>1
<1>. QED
  BY <1>1, <1>14, <1>18, <1>19, <1>21, <1>22, <1>23 DEF ForestOf, grown, longer, last

--------------------------------------------------------------------------------
(* Tokens are kept *)

\* The token that an activation has begun with.
Own(f) == IF f.at \in Outside THEN {} ELSE {f.token}

LEMMA BegunParts ==
    ASSUME NEW f \in Frames, NEW rest \in Stacks
    PROVE  Begun(<<f>> \o rest) = Own(f) \cup Begun(rest)
<1>. DEFINE all == <<f>> \o rest
<1>1. /\ Len(rest) \in Nat /\ DOMAIN rest = 1 .. Len(rest)
      /\ DOMAIN all = 1 .. (Len(rest) + 1) /\ all[1] = f
      /\ \A c \in 1 .. Len(rest) : all[c + 1] = rest[c]
      /\ \A c \in 2 .. (Len(rest) + 1) : c - 1 \in 1 .. Len(rest) /\ all[c] = rest[c - 1]
  BY Stacked
<1>. HIDE DEF all
<1>2. 1 \in DOMAIN all /\ \A c \in DOMAIN rest : c + 1 \in DOMAIN all /\ all[c + 1] = rest[c]
  BY <1>1
<1>3. \A c \in DOMAIN all : c = 1 \/ (c - 1 \in DOMAIN rest /\ all[c] = rest[c - 1])
  BY <1>1
<1>4. ASSUME NEW t, t \in Begun(all) PROVE t \in Own(f) \cup Begun(rest)
  <2>1. PICK c \in DOMAIN all : all[c].at \notin Outside /\ t = all[c].token
    BY <1>4 DEF Begun
  <2>2. CASE c = 1
    BY <1>1, <2>1, <2>2 DEF Own
  <2>3. CASE c # 1
    BY <1>3, <2>1, <2>3 DEF Begun
  <2>. QED
    BY <2>2, <2>3
<1>5. Own(f) \subseteq Begun(all)
  BY <1>1, <1>2 DEF Begun, Own
<1>6. Begun(rest) \subseteq Begun(all)
  BY <1>2 DEF Begun
<1>. QED
  BY <1>4, <1>5, <1>6 DEF all

\* Another token is read: an activation begins with it, or it says nothing.
LEMMA KeptReads ==
    ASSUME NEW tree, NEW begun, NEW read, NEW more, NEW also, Kept(tree, begun, read),
           Len(read) \in Nat \ {0}, Len(more) = Len(read) + 1,
           \A t \in 1 .. Len(read) : more[t] = read[t],
           \A n \in DOMAIN tree : tree[n].source < Len(read),
           read[Len(read)] \in Known,
           \/ also = begun \cup {Len(read)}
           \/ also = begun /\ read[Len(read)] \in Punctuation
    PROVE  Kept(tree, also, more)
<1>1. \A t \in 1 .. (Len(more) - 1) : t \in 1 .. (Len(read) - 1) \/ t = Len(read)
  OBVIOUS
<1>2. \A t \in 1 .. (Len(more) - 1) : more[t] = read[t]
  OBVIOUS
<1>3. ASSUME NEW t \in 1 .. (Len(more) - 1)
      PROVE  /\ more[t] \in Known
             /\ more[t] \notin Punctuation /\ t \notin also =>
                  \E n \in DOMAIN tree : Represents(tree[n], t, more)
  <2>1. CASE t \in 1 .. (Len(read) - 1)
    BY <1>2, <2>1 DEF Kept, Represents
  <2>2. CASE t = Len(read)
    BY <1>2, <2>2
  <2>. QED
    BY <1>1, <2>1, <2>2
<1>4. ASSUME NEW t \in 1 .. (Len(more) - 1), NEW n \in DOMAIN tree, Represents(tree[n], t, more)
      PROVE  t \notin also /\ \A p \in DOMAIN tree : Represents(tree[p], t, more) => n = p
  <2>1. t # Len(read)
    BY <1>4 DEF Represents
  <2>2. t \in 1 .. (Len(read) - 1) /\ Represents(tree[n], t, read)
    BY <1>1, <1>2, <1>4, <2>1 DEF Represents
  <2>3. t \notin begun /\ \A p \in DOMAIN tree : Represents(tree[p], t, read) => n = p
    BY <2>2 DEF Kept
  <2>. QED
    BY <1>2, <2>1, <2>3 DEF Represents
<1>. QED
  BY <1>3, <1>4 DEF Kept

\* A node is built for the tokens of which activations let go, if they say something.
LEMMA KeptBuilds ==
    ASSUME NEW tree \in Woods, NEW new \in Trees, NEW begun, NEW read, NEW left, Kept(tree, begun, read),
           left \subseteq begun,
           \A t \in begun \ left : read[t] \in Punctuation \/ Represents(new, t, read),
           \A t \in 1 .. (Len(read) - 1) : Represents(new, t, read) => t \in begun \ left
    PROVE  Kept(tree \o <<new>>, left, read)
<1>. DEFINE grown == tree \o <<new>>
            last == Len(tree) + 1
<1>1. /\ DOMAIN grown = 1 .. last /\ DOMAIN tree = 1 .. Len(tree) /\ Len(tree) \in Nat
      /\ \A n \in DOMAIN tree : grown[n] = tree[n]
      /\ grown[last] = new
      /\ \A n \in DOMAIN grown : n \in DOMAIN tree \/ n = last
  BY TreeGrows
<1>. HIDE DEF grown
<1>2. last \in DOMAIN grown /\ \A n \in DOMAIN tree : n \in DOMAIN grown
  BY <1>1
<1>. HIDE DEF last
<1>3. ASSUME NEW t \in 1 .. (Len(read) - 1)
      PROVE  /\ read[t] \in Known
             /\ read[t] \notin Punctuation /\ t \notin left =>
                  \E n \in DOMAIN grown : Represents(grown[n], t, read)
  <2>1. CASE t \in begun
    BY <1>1, <1>2, <2>1 DEF Kept
  <2>2. CASE t \notin begun
    BY <1>1, <1>2, <2>2 DEF Kept
  <2>. QED
    BY <2>1, <2>2
<1>4. ASSUME NEW t \in 1 .. (Len(read) - 1), NEW n \in DOMAIN grown, Represents(grown[n], t, read),
             NEW p \in DOMAIN grown, Represents(grown[p], t, read)
      PROVE  t \notin left /\ n = p
  <2>1. CASE t \in begun
    <3>1. n = last /\ p = last
      BY <1>1, <1>4, <2>1 DEF Kept
    <3>. QED
      BY <1>1, <1>4, <3>1
  <2>2. CASE t \notin begun
    <3>1. n \in DOMAIN tree /\ p \in DOMAIN tree
      BY <1>1, <1>4, <2>2
    <3>. QED
      BY <1>1, <1>4, <2>2, <3>1 DEF Kept
  <2>. QED
    BY <2>1, <2>2
<1>. QED
  BY <1>3, <1>4 DEF Kept, grown

\* A token that says nothing is let go.
LEMMA KeptDrops ==
    ASSUME NEW tree, NEW begun, NEW read, NEW left, Kept(tree, begun, read),
           left \subseteq begun, \A t \in begun \ left : read[t] \in Punctuation
    PROVE  Kept(tree, left, read)
BY DEF Kept

--------------------------------------------------------------------------------
(* What holds of the running activation and of those that wait *)

\* The tokens read, of which later steps read more.
Follows(more, read) ==
    /\ Len(read) \in Nat \ {0} /\ Len(more) \in Nat /\ Len(read) <= Len(more)
    /\ \A t \in 1 .. Len(read) : more[t] = read[t]

LEMMA HoldsParts ==
    ASSUME NEW f \in Frames, NEW tree, NEW lists, NEW size, Holds(f, tree, lists, size),
           f.at \in {"colon", "end"} => Len(f.list) = 1
    PROVE  /\ f.at # "arrow" /\ f.node # Invalid => Held1(f, f.node) /\ f.node \in DOMAIN tree
           /\ f.at \notin {"colon", "end"} =>
                 \A i \in DOMAIN f.list : Held1(f, f.list[i]) /\ f.list[i] \in DOMAIN tree
           /\ f.at \in {"colon", "end"} /\ f.list[1] # Invalid =>
                 Held1(f, f.list[1]) /\ f.list[1] \in DOMAIN tree
<1>. DEFINE a == IF f.at = "arrow" THEN <<>> ELSE Present(f.node)
            b == IF f.at \in {"colon", "end"} THEN Present(f.list[1]) ELSE f.list
<1>1. f.node \in Nat /\ f.list \in Lists
  BY DEF Frames, Lists
<1>2. a \in Lists
  <2>1. <<>> \in Lists
    BY DEF Lists
  <2>. QED
    BY <1>1, <2>1, PresentFacts
<1>3. f.at \in {"colon", "end"} => f.list[1] \in Nat
  BY <1>1 DEF Lists
<1>4. b \in Lists
  BY <1>1, <1>3, PresentFacts
<1>5. f.at # "arrow" /\ f.node # Invalid => 1 \in DOMAIN a /\ a[1] = f.node
  BY <1>1, PresentFacts
<1>6. f.at \notin {"colon", "end"} => b = f.list
  OBVIOUS
<1>7. f.at \in {"colon", "end"} /\ f.list[1] # Invalid => 1 \in DOMAIN b /\ b[1] = f.list[1]
  BY <1>1, <1>3, PresentFacts
<1>8. Held(f) = a \o b
  BY DEF Held
<1>. HIDE DEF a, b
<1>9. /\ DOMAIN Held(f) = 1 .. (Len(a) + Len(b)) /\ Len(a) \in Nat /\ Len(b) \in Nat
      /\ DOMAIN a = 1 .. Len(a) /\ DOMAIN b = 1 .. Len(b)
      /\ \A i \in 1 .. Len(a) : Held(f)[i] = a[i]
      /\ \A i \in 1 .. Len(b) : Held(f)[Len(a) + i] = b[i]
  <2>. DEFINE both == a \o b
  <2>1. /\ DOMAIN both = 1 .. (Len(a) + Len(b)) /\ Len(a) \in Nat /\ Len(b) \in Nat
        /\ DOMAIN a = 1 .. Len(a) /\ DOMAIN b = 1 .. Len(b)
        /\ \A i \in 1 .. Len(a) : both[i] = a[i]
        /\ \A i \in 1 .. Len(b) : both[Len(a) + i] = b[i]
    BY <1>2, <1>4, Joined
  <2>. HIDE DEF both
  <2>. QED
    BY <1>8, <2>1 DEF both
<1>10. \A i \in DOMAIN a : i \in DOMAIN Held(f) /\ Held(f)[i] = a[i]
  BY <1>9
<1>11. \A i \in DOMAIN b : Len(a) + i \in DOMAIN Held(f) /\ Held(f)[Len(a) + i] = b[i]
  BY <1>9
<1>12. \A n : Held1(f, n) => n \in DOMAIN tree
  BY DEF Held1, Holds
<1>13. /\ \A i \in DOMAIN a : Held1(f, a[i])
       /\ \A i \in DOMAIN b : Held1(f, b[i])
  BY <1>10, <1>11 DEF Held1
<1>. QED
  BY <1>5, <1>6, <1>7, <1>12, <1>13

LEMMA FormedStays ==
    ASSUME NEW f \in Frames, NEW tree, NEW lists, NEW size, NEW grown, NEW read, NEW more,
           Holds(f, tree, lists, size), Formed(f, tree, read), Follows(more, read),
           f.first \in 1 .. f.token, \A n \in DOMAIN tree : grown[n] = tree[n]
    PROVE  Formed(f, grown, more)
<1>1. f.at \in {"colon", "end"} => Len(f.list) = 1
  BY DEF Formed
<1>2. f.token \in Nat /\ f.node \in Nat
  BY ReachIsToken
<1>3. /\ f.at # "arrow" /\ f.node # Invalid => grown[f.node] = tree[f.node]
      /\ f.at \notin {"colon", "end"} =>
            \A i \in DOMAIN f.list : grown[f.list[i]] = tree[f.list[i]]
      /\ f.at \in {"colon", "end"} /\ f.list[1] # Invalid => grown[f.list[1]] = tree[f.list[1]]
  BY <1>1, HoldsParts
<1>4. f.at \notin Outside => f.token < Len(more) /\ more[f.token] \in Opener(f.at)
  <2>. SUFFICES ASSUME f.at \notin Outside PROVE f.token < Len(more) /\ more[f.token] \in Opener(f.at)
    OBVIOUS
  <2>1. f.token < Len(read) /\ read[f.token] \in Opener(f.at)
    BY DEF Formed
  <2>2. f.token # 0
    BY <1>2, ReachIsToken
  <2>. QED
    BY <1>2, <2>1, <2>2 DEF Follows
<1>5. f.at = "arrow" =>
         /\ f.token < f.node /\ f.node < Len(more) /\ more[f.node] = "=>"
         /\ \A i \in DOMAIN f.list : grown[f.list[i]].last < f.node
  <2>. SUFFICES ASSUME f.at = "arrow"
                PROVE  /\ f.token < f.node /\ f.node < Len(more) /\ more[f.node] = "=>"
                       /\ \A i \in DOMAIN f.list : grown[f.list[i]].last < f.node
    OBVIOUS
  <2>1. /\ f.token < f.node /\ f.node < Len(read) /\ read[f.node] = "=>"
        /\ \A i \in DOMAIN f.list : tree[f.list[i]].last < f.node
    BY DEF Formed
  <2>2. f.node \in 1 .. Len(read)
    BY <1>2, <2>1 DEF Follows
  <2>. QED
    BY <1>2, <1>3, <2>1, <2>2 DEF Follows
<1>6. f.at \in {"index", "start", "colon", "end"} => f.node # Invalid
  BY DEF Formed
<1>7. f.at \in {"index", "start", "colon", "end"} => grown[f.node].last < f.token
  BY <1>3, <1>6 DEF Formed
<1>8. f.at \in {"colon", "end"} =>
          /\ Len(f.list) = 1
          /\ f.list[1] # Invalid => f.token < grown[f.list[1]].first
  BY <1>3 DEF Formed
<1>. QED
  BY <1>4, <1>5, <1>7, <1>8 DEF Formed

Begins(f) == f \in Frames /\ f.first \in 1 .. f.token
Waits1(f, tree, read) == Begins(f) /\ Formed(f, tree, read) /\ f.at # "parameter"
Waiting1(rest, tree, read) == \A c \in DOMAIN rest : Waits1(rest[c], tree, read)

\* The program is at the bottom of the stack.
Based(rest) == \A c \in DOMAIN rest : rest[c].at = "program" => c = Len(rest)

LEMMA BasedParts ==
    ASSUME NEW f \in Frames, NEW rest \in Stacks
    PROVE  Based(<<f>> \o rest) <=> (f.at = "program" => rest = <<>>) /\ Based(rest)
<1>. DEFINE all == <<f>> \o rest
<1>1. /\ DOMAIN all = 1 .. (Len(rest) + 1) /\ all[1] = f /\ Len(all) = Len(rest) + 1
      /\ DOMAIN rest = 1 .. Len(rest) /\ Len(rest) \in Nat
      /\ \A c \in 1 .. Len(rest) : all[c + 1] = rest[c]
      /\ \A c \in 2 .. (Len(rest) + 1) : c - 1 \in 1 .. Len(rest) /\ all[c] = rest[c - 1]
  BY Stacked
<1>2. Len(rest) = 0 <=> rest = <<>>
  BY DEF Stacks
<1>. HIDE DEF all
<1>3. ASSUME Based(all) PROVE (f.at = "program" => rest = <<>>) /\ Based(rest)
  <2>1. f.at = "program" => rest = <<>>
    BY <1>1, <1>2, <1>3 DEF Based
  <2>2. ASSUME NEW c \in DOMAIN rest, rest[c].at = "program" PROVE c = Len(rest)
    <3>1. c + 1 \in DOMAIN all /\ all[c + 1] = rest[c]
      BY <1>1
    <3>2. c + 1 = Len(rest) + 1
      BY <1>1, <1>3, <2>2, <3>1 DEF Based
    <3>. QED
      BY <1>1, <3>2
  <2>. QED
    BY <2>1, <2>2 DEF Based
<1>4. ASSUME f.at = "program" => rest = <<>>, Based(rest), NEW c \in DOMAIN all, all[c].at = "program"
      PROVE  c = Len(all)
  <2>1. CASE c = 1
    BY <1>1, <1>2, <1>4, <2>1
  <2>2. CASE c # 1
    <3>1. c - 1 \in DOMAIN rest /\ all[c] = rest[c - 1] /\ c \in Nat
      BY <1>1, <2>2
    <3>2. c - 1 = Len(rest)
      BY <1>4, <3>1 DEF Based
    <3>. QED
      BY <1>1, <3>1, <3>2
  <2>. QED
    BY <2>1, <2>2
<1>. QED
  BY <1>3, <1>4 DEF Based, all

\* While the running activation is f and the others are rest.
Rooted(tree, lists, f, rest, given, read) ==
    /\ tree \in Woods /\ lists \in Lists /\ rest \in Stacks /\ given \in Nat
    /\ Len(read) \in Nat \ {0}
    /\ ForestOf(tree, lists, f, rest, given, Len(read)) /\ Spans(tree, Len(read))
    /\ Begins(f)
    /\ Waiting1(rest, tree, read)
    /\ (f.at = "program" => rest = <<>>) /\ Based(rest)
Standing(tree, lists, f, rest, given, read) ==
    /\ Rooted(tree, lists, f, rest, given, read)
    /\ Kept(tree, Own(f) \cup Begun(rest), read)
    /\ Formed(f, tree, read)

\* When an activation has returned to the others.
Left(tree, lists, rest, given, read) ==
    /\ Forest(tree, lists, rest, given, Len(read)) /\ Spans(tree, Len(read))
    /\ Kept(tree, Begun(rest), read)
    /\ Waiting1(rest, tree, read) /\ Based(rest)

LEMMA StackTop ==
    ASSUME NEW frames \in Stacks, frames # <<>>
    PROVE  /\ Head(frames) \in Frames /\ Tail(frames) \in Stacks
           /\ frames = <<Head(frames)>> \o Tail(frames)
<1>. HIDE DEF Frames
<1>1. Head(frames) \in Frames /\ Tail(frames) \in Seq(Frames)
  BY DEF Stacks
<1>2. frames = <<Head(frames)>> \o Tail(frames)
  BY DEF Stacks
<1>. QED
  BY <1>1, <1>2 DEF Stacks

LEMMA StandingNow ==
    ASSUME Reading, Whole, ~reported, calls # <<>>
    PROVE  /\ Standing(nodes, extra, Top, Tail(calls), Given, input)
           /\ result # Invalid
           /\ Top.at = "parameter" => result = Pending /\ nodes # <<>>
<1>1. /\ nodes \in Woods /\ extra \in Lists /\ calls \in Stacks /\ Len(input) \in Nat \ {0}
      /\ result \in Indices \cup {Pending}
      /\ \A c \in DOMAIN calls : Fits(calls[c], input, Len(nodes))
  BY DEF Reading, Woods, Lists, Stacks
<1>2. /\ Top \in Frames /\ Tail(calls) \in Stacks /\ calls = <<Top>> \o Tail(calls)
  BY <1>1, StackTop DEF Top
<1>3. Given \in Nat
  BY <1>1 DEF Given, Indices, Woods, Pending, Invalid
<1>. DEFINE rest == Tail(calls)
            all == <<Top>> \o rest
<1>4. /\ DOMAIN rest = 1 .. Len(rest) /\ Len(rest) \in Nat
      /\ DOMAIN all = 1 .. (Len(rest) + 1) /\ all[1] = Top
      /\ \A c \in 1 .. Len(rest) : all[c + 1] = rest[c]
  BY <1>2, Stacked
<1>5. calls = all
  BY <1>2
<1>6. /\ result # Invalid /\ Forest(nodes, extra, all, Given, Len(input)) /\ Spans(nodes, Len(input))
      /\ Kept(nodes, Begun(all), input)
      /\ \A c \in DOMAIN all : Formed(all[c], nodes, input)
                               /\ (all[c].at = "parameter" => c = 1 /\ result = Pending /\ nodes # <<>>)
      /\ Based(all)
  BY <1>5 DEF Whole, Based
<1>14. (Top.at = "program" => rest = <<>>) /\ Based(rest)
  BY <1>2, <1>6, BasedParts
<1>7. ForestOf(nodes, extra, Top, rest, Given, Len(input))
  BY <1>2, <1>6, TopOff
<1>8. Begun(all) = Own(Top) \cup Begun(rest)
  BY <1>2, BegunParts
<1>9. \A c \in DOMAIN all : Fits(all[c], input, Len(nodes))
  BY <1>1, <1>5
<1>. HIDE DEF all
<1>10. \A c \in DOMAIN all : Begins(all[c])
  BY <1>9 DEF Fits, Begins
<1>. HIDE DEF rest
<1>11. Waiting1(rest, nodes, input)
  <2>. SUFFICES ASSUME NEW c \in DOMAIN rest PROVE Waits1(rest[c], nodes, input)
    BY DEF Waiting1
  <2>1. c + 1 \in DOMAIN all /\ all[c + 1] = rest[c] /\ c + 1 # 1
    BY <1>4
  <2>. QED
    BY <1>6, <1>10, <2>1 DEF Waits1
<1>12. 1 \in DOMAIN all
  BY <1>4
<1>13. Begins(Top) /\ Formed(Top, nodes, input) /\ (Top.at = "parameter" => result = Pending /\ nodes # <<>>)
  BY <1>4, <1>6, <1>10, <1>12
<1>. QED
  BY <1>1, <1>2, <1>3, <1>6, <1>7, <1>8, <1>11, <1>13, <1>14 DEF Standing, Rooted, rest

LEMMA StandingLater ==
    ASSUME NEW g, NEW rest, calls' = <<g>> \o rest, Standing(nodes', extra', g, rest, Given', input'),
           result' # Invalid, g.at = "parameter" => result' = Pending /\ nodes' # <<>>
    PROVE  Whole'
<1>1. g \in Frames /\ rest \in Stacks
  BY DEF Standing, Rooted, Begins
<1>. DEFINE all == <<g>> \o rest
<1>2. /\ DOMAIN all = 1 .. (Len(rest) + 1) /\ all[1] = g /\ all # <<>>
      /\ DOMAIN rest = 1 .. Len(rest) /\ Len(rest) \in Nat
      /\ \A c \in 2 .. (Len(rest) + 1) : c - 1 \in 1 .. Len(rest) /\ all[c] = rest[c - 1]
  BY <1>1, Stacked
<1>3. Forest(nodes', extra', all, Given', Len(input'))
  BY <1>1, TopOff DEF Standing, Rooted
<1>4. Begun(all) = Own(g) \cup Begun(rest)
  BY <1>1, BegunParts
<1>8. Based(all)
  BY <1>1, BasedParts DEF Standing, Rooted
<1>. HIDE DEF all
<1>5. ASSUME NEW c \in DOMAIN all
      PROVE  /\ Formed(all[c], nodes', input')
             /\ all[c].at = "parameter" => c = 1 /\ result' = Pending /\ nodes' # <<>>
  <2>1. CASE c = 1
    BY <1>2, <2>1 DEF Standing, Rooted
  <2>2. CASE c # 1
    <3>1. c - 1 \in DOMAIN rest /\ all[c] = rest[c - 1]
      BY <1>2, <2>2
    <3>. QED
      BY <3>1 DEF Standing, Rooted, Waiting1, Waits1
  <2>. QED
    BY <2>1, <2>2
<1>6. calls' = all
  BY DEF all
<1>7. Kept(nodes', Begun(all), input') /\ Spans(nodes', Len(input'))
  BY <1>4 DEF Standing, Rooted
<1>. QED
  BY <1>3, <1>5, <1>6, <1>7, <1>8 DEF Whole, Based

LEMMA LeftLater ==
    ASSUME NEW rest, calls' = rest, Left(nodes', extra', rest, Given', input'), result' # Invalid
    PROVE  Whole'
<1>1. \A c \in DOMAIN rest : Formed(rest[c], nodes', input') /\ rest[c].at # "parameter"
  BY DEF Left, Waiting1, Waits1
<1>. QED
  BY <1>1 DEF Whole, Left, Based

\* What the running activation is given, later.
LEMMA GivenLater ==
    ASSUME NEW g \in Frames, NEW rest \in Stacks, calls' = <<g>> \o rest, g.at # "parameter"
    PROVE  Given' = IF result' = Pending THEN Invalid ELSE result'
<1>1. calls' # <<>> /\ calls'[1] = g
  BY Stacked
<1>. QED
  BY <1>1 DEF Given, Top

LEMMA GivenLeft ==
    ASSUME NEW rest \in Stacks, NEW tree, NEW read, calls' = rest, Waiting1(rest, tree, read)
    PROVE  Given' = IF result' = Pending THEN Invalid ELSE result'
<1>1. calls' # <<>> => 1 \in DOMAIN rest
  BY DEF Stacks
<1>2. calls' # <<>> => calls'[1].at # "parameter"
  BY <1>1 DEF Waiting1, Waits1
<1>. QED
  BY <1>2 DEF Given, Top

LEMMA FollowsItself ==
    ASSUME NEW read, Len(read) \in Nat \ {0}
    PROVE  Follows(read, read)
BY DEF Follows

LEMMA LongerOf ==
    ASSUME NEW tree \in Woods, NEW lists, NEW f \in Frames, NEW rest \in Stacks, NEW given,
           NEW size \in Nat, NEW more \in Nat, size <= more,
           ForestOf(tree, lists, f, rest, given, size)
    PROVE  ForestOf(tree, lists, f, rest, given, more)
<1>1. Forest(tree, lists, <<f>> \o rest, given, size)
  BY TopOff
<1>2. <<f>> \o rest \in Stacks
  BY Stacked
<1>3. Forest(tree, lists, <<f>> \o rest, given, more)
  BY <1>1, <1>2, Longer
<1>. QED
  BY <1>3, TopOff

LEMMA SpansLonger ==
    ASSUME NEW tree \in Woods, NEW size \in Nat, NEW more \in Nat, size <= more, Spans(tree, size)
    PROVE  Spans(tree, more)
BY TreeFacts DEF Spans

LEMMA WaitingStays ==
    ASSUME NEW tree, NEW lists, NEW f, NEW rest, NEW given, NEW size, NEW grown, NEW read, NEW more,
           ForestOf(tree, lists, f, rest, given, size), Waiting1(rest, tree, read),
           Follows(more, read), \A n \in DOMAIN tree : grown[n] = tree[n]
    PROVE  Waiting1(rest, grown, more)
<1>. SUFFICES ASSUME NEW c \in DOMAIN rest PROVE Waits1(rest[c], grown, more)
  BY DEF Waiting1
<1>. DEFINE r == rest[c]
<1>1. Holds(r, tree, lists, size)
  BY DEF ForestOf, Waiting
<1>2. r \in Frames /\ r.first \in 1 .. r.token /\ Formed(r, tree, read) /\ r.at # "parameter"
  BY DEF Waiting1, Waits1, Begins
<1>. HIDE DEF r
<1>3. Formed(r, grown, more)
  BY <1>1, <1>2, FormedStays
<1>. QED
  BY <1>2, <1>3 DEF Waits1, Begins, r

LEMMA StandingMoves ==
    ASSUME NEW tree, NEW lists, NEW f, NEW rest, NEW given, NEW read, NEW more, NEW g,
           Standing(tree, lists, f, rest, given, read), Follows(more, read),
           Begins(g), g.at # "program" \/ g.at = f.at, Held(g) = Held(f), g.first = f.first,
           g.first <= Reach(g), Reach(g) <= Len(more),
           given # Invalid => Reach(g) <= tree[given].first,
           Formed(g, tree, more), Kept(tree, Own(g) \cup Begun(rest), more)
    PROVE  Standing(tree, lists, g, rest, given, more)
<1>1. /\ tree \in Woods /\ rest \in Stacks /\ f \in Frames
      /\ Len(read) \in Nat \ {0} /\ Len(more) \in Nat \ {0} /\ Len(read) <= Len(more)
      /\ ForestOf(tree, lists, f, rest, given, Len(read)) /\ Spans(tree, Len(read))
      /\ Waiting1(rest, tree, read) /\ (g.at = "program" => rest = <<>>) /\ Based(rest)
  BY DEF Standing, Rooted, Begins, Follows
<1>2. ForestOf(tree, lists, f, rest, given, Len(more))
  BY <1>1, LongerOf
<1>3. ForestOf(tree, lists, g, rest, given, Len(more))
  BY <1>2, Moved
<1>4. Spans(tree, Len(more))
  BY <1>1, SpansLonger
<1>5. Waiting1(rest, tree, more)
  BY <1>1, WaitingStays
<1>. QED
  BY <1>1, <1>3, <1>4, <1>5 DEF Standing, Rooted

LEMMA StandingTakes ==
    ASSUME NEW tree, NEW lists, NEW f, NEW rest, NEW given, NEW read, NEW more, NEW g,
           Standing(tree, lists, f, rest, given, read), Follows(more, read), given # Invalid,
           Begins(g), g.at # "program" \/ g.at = f.at, Held(g) = Held(f) \o <<given>>, g.first = f.first,
           g.first <= Reach(g), Reach(g) <= Len(more),
           Formed(g, tree, more), Kept(tree, Own(g) \cup Begun(rest), more)
    PROVE  Standing(tree, lists, g, rest, Invalid, more)
<1>1. /\ tree \in Woods /\ rest \in Stacks /\ f \in Frames /\ given \in Nat /\ Invalid \in Nat
      /\ Len(read) \in Nat \ {0} /\ Len(more) \in Nat \ {0} /\ Len(read) <= Len(more)
      /\ ForestOf(tree, lists, f, rest, given, Len(read)) /\ Spans(tree, Len(read))
      /\ Waiting1(rest, tree, read) /\ (g.at = "program" => rest = <<>>) /\ Based(rest)
  BY DEF Standing, Rooted, Begins, Follows, Invalid
<1>2. ForestOf(tree, lists, f, rest, given, Len(more))
  BY <1>1, LongerOf
<1>3. Held(f) \in Lists
  <2>1. f.at \in {"colon", "end"} => f.list # <<>>
    BY DEF Standing, Rooted, Formed
  <2>. QED
    BY <1>1, <2>1, HeldFacts
<1>4. ForestOf(tree, lists, g, rest, Invalid, Len(more))
  BY <1>1, <1>2, <1>3, Took
<1>5. Spans(tree, Len(more))
  BY <1>1, SpansLonger
<1>6. Waiting1(rest, tree, more)
  BY <1>1, WaitingStays
<1>. QED
  BY <1>1, <1>4, <1>5, <1>6 DEF Standing, Rooted

LEMMA WaitingCalls ==
    ASSUME NEW f \in Frames, NEW rest \in Stacks, NEW tree, NEW read,
           Waits1(f, tree, read), Waiting1(rest, tree, read)
    PROVE  Waiting1(<<f>> \o rest, tree, read)
<1>. DEFINE all == <<f>> \o rest
<1>1. /\ DOMAIN all = 1 .. (Len(rest) + 1) /\ all[1] = f /\ Len(rest) \in Nat
      /\ DOMAIN rest = 1 .. Len(rest)
      /\ \A c \in 2 .. (Len(rest) + 1) : c - 1 \in 1 .. Len(rest) /\ all[c] = rest[c - 1]
  BY Stacked
<1>. HIDE DEF all
<1>2. \A c \in DOMAIN all : c = 1 \/ (c - 1 \in DOMAIN rest /\ all[c] = rest[c - 1])
  BY <1>1
<1>. QED
  BY <1>1, <1>2 DEF Waiting1, all

LEMMA StandingCalls ==
    ASSUME NEW tree, NEW lists, NEW f, NEW rest, NEW read, NEW k,
           Standing(tree, lists, f, rest, Invalid, read), f.at # "parameter",
           Begins(k), k.at \in Outside \ {"program"}, Held(k) = <<>>, k.first = Len(read), Formed(k, tree, read)
    PROVE  Standing(tree, lists, k, <<f>> \o rest, Invalid, read)
<1>1. /\ tree \in Woods /\ rest \in Stacks /\ f \in Frames /\ Len(read) \in Nat
      /\ ForestOf(tree, lists, f, rest, Invalid, Len(read))
      /\ Waiting1(rest, tree, read) /\ Waits1(f, tree, read)
      /\ Kept(tree, Own(f) \cup Begun(rest), read)
      /\ (f.at = "program" => rest = <<>>) /\ Based(rest)
  BY DEF Standing, Rooted, Begins, Waits1
<1>2. Reach(k) = Len(read)
  BY DEF Reach
<1>3. ForestOf(tree, lists, k, <<f>> \o rest, Invalid, Len(read))
  BY <1>1, <1>2, Called1
<1>4. Waiting1(<<f>> \o rest, tree, read) /\ <<f>> \o rest \in Stacks
  BY <1>1, WaitingCalls, Stacked
<1>5. Own(k) \cup Begun(<<f>> \o rest) = Own(f) \cup Begun(rest)
  BY <1>1, BegunParts DEF Own
<1>6. Based(<<f>> \o rest)
  BY <1>1, BasedParts
<1>. QED
  BY <1>1, <1>3, <1>4, <1>5, <1>6 DEF Standing, Rooted

LEMMA StandingHands ==
    ASSUME NEW tree, NEW lists, NEW f, NEW rest, NEW given, NEW read, NEW k,
           Standing(tree, lists, f, rest, given, read), given # Invalid, f.at = "lhs", Held(f) = <<>>,
           Begins(k), k.at \in Outside \ {"program"}, Held(k) = <<given>>, k.first = f.first, Formed(k, tree, read)
    PROVE  Standing(tree, lists, k, <<f>> \o rest, Invalid, read)
<1>1. /\ tree \in Woods /\ rest \in Stacks /\ f \in Frames /\ k \in Frames /\ Len(read) \in Nat
      /\ given \in Nat /\ Invalid \in Nat
      /\ ForestOf(tree, lists, f, rest, given, Len(read))
      /\ Waiting1(rest, tree, read) /\ Waits1(f, tree, read)
      /\ Kept(tree, Own(f) \cup Begun(rest), read)
      /\ (f.at = "program" => rest = <<>>) /\ Based(rest)
  BY DEF Standing, Rooted, Begins, Waits1, Invalid
<1>2. Reach(k) = k.first /\ Reach(f) = f.first
  BY DEF Reach, Outside
<1>3. ForestOf(tree, lists, k, <<f>> \o rest, Invalid, Len(read))
  BY <1>1, <1>2, CalledWith
<1>4. Waiting1(<<f>> \o rest, tree, read) /\ <<f>> \o rest \in Stacks
  BY <1>1, WaitingCalls, Stacked
<1>5. Own(k) \cup Begun(<<f>> \o rest) = Own(f) \cup Begun(rest)
  BY <1>1, BegunParts DEF Own
<1>6. Based(<<f>> \o rest)
  BY <1>1, BasedParts
<1>. QED
  BY <1>1, <1>3, <1>4, <1>5, <1>6 DEF Standing, Rooted

LEMMA StandingLeaves ==
    ASSUME NEW tree, NEW lists, NEW f, NEW rest, NEW given, NEW read,
           Standing(tree, lists, f, rest, given, read), Held(f) = <<>>, f.at \in Outside
    PROVE  Left(tree, lists, rest, given, read)
<1>1. /\ rest \in Stacks /\ f \in Frames
      /\ ForestOf(tree, lists, f, rest, given, Len(read)) /\ Spans(tree, Len(read))
      /\ Waiting1(rest, tree, read) /\ Based(rest) /\ Own(f) = {} /\ Kept(tree, Own(f) \cup Begun(rest), read)
  BY DEF Standing, Rooted, Begins, Own
<1>2. Forest(tree, lists, rest, given, Len(read))
  BY <1>1, Passed
<1>. QED
  BY <1>1, <1>2 DEF Left

LEMMA StandingBuilds ==
    ASSUME NEW tree, NEW lists, NEW more \in Lists, NEW f, NEW rest, NEW given, NEW read,
           NEW g, NEW new \in Trees, NEW part \in Lists,
           Rooted(tree, lists, f, rest, given, read), Begins(g), g.at # "program",
           Held(f) = Held(g) \o part, g.first = f.first,
           g.first <= Reach(g), Reach(g) <= Len(read), Reach(g) <= new.first,
           \A i \in DOMAIN Held(g) : tree[Held(g)[i]].last < new.first,
           \A i \in DOMAIN part : new.first <= tree[part[i]].first,
           given # Invalid => new.first <= tree[given].first,
           Kids(new, lists \o more) = part \o Present(given), Stored(new, lists \o more),
           new.last = Len(read) - 1, new.first <= new.last, new.source < Len(read),
           Formed(g, tree \o <<new>>, read),
           Kept(tree \o <<new>>, Own(g) \cup Begun(rest), read)
    PROVE  Standing(tree \o <<new>>, lists \o more, g, rest, Len(tree) + 1, read)
<1>. DEFINE grown == tree \o <<new>>
            last == Len(tree) + 1
            longer == lists \o more
<1>1. /\ tree \in Woods /\ lists \in Lists /\ rest \in Stacks /\ f \in Frames /\ given \in Nat
      /\ Len(read) \in Nat \ {0} /\ g \in Frames
      /\ ForestOf(tree, lists, f, rest, given, Len(read)) /\ Spans(tree, Len(read))
      /\ Waiting1(rest, tree, read) /\ Based(rest)
  BY DEF Standing, Rooted, Begins
<1>2. Held(g) \in Lists
  <2>1. g.at \in {"colon", "end"} => g.list # <<>>
    BY DEF Formed
  <2>. QED
    BY <1>1, <2>1, HeldFacts
<1>3. ForestOf(grown, longer, g, rest, last, Len(read))
  BY <1>1, <1>2, Built
<1>4. /\ grown \in Woods /\ Len(tree) \in Nat /\ DOMAIN tree = 1 .. Len(tree)
      /\ \A n \in DOMAIN tree : grown[n] = tree[n]
      /\ grown[last] = new /\ \A n \in DOMAIN grown : n \in DOMAIN tree \/ n = last
  BY <1>1, TreeGrows
<1>. HIDE DEF grown
<1>5. last \in Nat
  BY <1>4
<1>. HIDE DEF last
<1>6. Spans(grown, Len(read))
  BY <1>1, <1>4 DEF Spans
<1>7. Waiting1(rest, grown, read)
  BY <1>1, <1>4, WaitingStays, FollowsItself
<1>8. longer \in Lists
  BY <1>1, Joined
<1>. HIDE DEF longer
<1>9. Formed(g, grown, read) /\ Kept(grown, Own(g) \cup Begun(rest), read)
  BY DEF grown
<1>10. Standing(grown, longer, g, rest, last, read)
  BY <1>1, <1>3, <1>4, <1>5, <1>6, <1>7, <1>8, <1>9 DEF Standing, Rooted
<1>. QED
  BY <1>10 DEF grown, longer, last

LEMMA RootedLonger ==
    ASSUME NEW tree, NEW lists, NEW f, NEW rest, NEW given, NEW read, NEW more,
           Rooted(tree, lists, f, rest, given, read), Follows(more, read)
    PROVE  Rooted(tree, lists, f, rest, given, more)
<1>1. /\ tree \in Woods /\ rest \in Stacks /\ f \in Frames
      /\ Len(read) \in Nat \ {0} /\ Len(more) \in Nat \ {0} /\ Len(read) <= Len(more)
      /\ ForestOf(tree, lists, f, rest, given, Len(read)) /\ Spans(tree, Len(read))
      /\ Waiting1(rest, tree, read) /\ (f.at = "program" => rest = <<>>) /\ Based(rest)
  BY DEF Rooted, Begins, Follows
<1>2. ForestOf(tree, lists, f, rest, given, Len(more)) /\ Spans(tree, Len(more))
  BY <1>1, LongerOf, SpansLonger
<1>3. Waiting1(rest, tree, more)
  BY <1>1, WaitingStays
<1>. QED
  BY <1>1, <1>2, <1>3 DEF Rooted

\* The tokens that begin what waits are read before what runs.
LEMMA OwnApart ==
    ASSUME NEW tree, NEW lists, NEW f, NEW rest, NEW given, NEW read,
           Rooted(tree, lists, f, rest, given, read)
    PROVE  /\ \A t \in Begun(rest) : t < f.first /\ t < Len(read)
           /\ f.token \notin Begun(rest) /\ f.first <= f.token /\ f.token \in Nat /\ f.first \in Nat \ {0}
<1>1. f \in Frames /\ f.first \in 1 .. f.token /\ f.first \in Nat /\ f.token \in Nat
  BY ReachIsToken DEF Rooted, Begins
<1>2. ASSUME NEW c \in DOMAIN rest, rest[c].at \notin Outside
      PROVE  rest[c].token < f.first /\ rest[c].token < Len(read)
  <2>. DEFINE r == rest[c]
  <2>1. /\ Waits1(r, tree, read) /\ Precedes(r, tree, f.first) /\ r.at \notin Outside
    BY <1>2 DEF Rooted, Waiting1, ForestOf, Waiting
  <2>. HIDE DEF r
  <2>2. r \in Frames /\ r.token \in Nat /\ r.node \in Nat /\ Formed(r, tree, read)
    BY <2>1, ReachIsToken DEF Waits1, Begins
  <2>3. Reach(r) > r.token
    BY <2>1, <2>2 DEF Reach, Formed
  <2>4. Reach(r) <= f.first /\ r.token < Len(read) /\ Reach(r) \in Nat
    BY <2>1, <2>2, ReachIsToken DEF Precedes, Formed
  <2>5. r.token < f.first /\ r.token < Len(read)
    BY <1>1, <2>2, <2>3, <2>4
  <2>. QED
    BY <2>5 DEF r
<1>3. ASSUME NEW t \in Begun(rest)
      PROVE  t < f.first /\ t < Len(read)
  <2>1. PICK c \in DOMAIN rest : rest[c].at \notin Outside /\ t = rest[c].token
    BY DEF Begun
  <2>. QED
    BY <1>2, <2>1
<1>4. f.token \notin Begun(rest)
  <2>. SUFFICES ASSUME f.token \in Begun(rest) PROVE FALSE
    OBVIOUS
  <2>. QED
    BY <1>1, <1>3
<1>. QED
  BY <1>1, <1>3, <1>4

LEMMA ReachFormed ==
    ASSUME NEW g, NEW tree, NEW read, Begins(g), Formed(g, tree, read), Len(read) \in Nat, g.at \notin Outside
    PROVE  /\ g.first <= Reach(g) /\ Reach(g) <= Len(read) /\ g.token < Reach(g) /\ g.token < Len(read)
           /\ g.first \in Nat /\ g.token \in Nat /\ g.first <= g.token /\ Reach(g) \in Nat
<1>1. g \in Frames /\ g.first \in 1 .. g.token /\ g.token \in Nat /\ g.node \in Nat /\ g.first \in Nat
      /\ Reach(g) \in Nat
  BY ReachIsToken DEF Begins
<1>. QED
  BY <1>1 DEF Reach, Formed

\* No token is read, or one that says nothing.
Skips(more, read) ==
    \/ more = read
    \/ /\ Len(more) = Len(read) + 1 /\ \A t \in 1 .. Len(read) : more[t] = read[t]
       /\ read[Len(read)] \in Punctuation

LEMMA SkipsFollows ==
    ASSUME NEW read, NEW more, Len(read) \in Nat \ {0}, Skips(more, read)
    PROVE  Follows(more, read)
BY DEF Skips, Follows

LEMMA KeptSkips ==
    ASSUME NEW tree, NEW begun, NEW read, NEW more, Kept(tree, begun, read), Spans(tree, Len(read)),
           Len(read) \in Nat \ {0}, Skips(more, read)
    PROVE  Kept(tree, begun, more)
<1>1. CASE more = read
  BY <1>1
<1>2. CASE /\ Len(more) = Len(read) + 1 /\ \A t \in 1 .. Len(read) : more[t] = read[t]
           /\ read[Len(read)] \in Punctuation
  <2>1. read[Len(read)] \in Known
    BY <1>2 DEF Known
  <2>2. \A n \in DOMAIN tree : tree[n].source < Len(read)
    BY DEF Spans
  <2>. QED
    BY <1>2, <2>1, <2>2, KeptReads
<1>. QED
  BY <1>1, <1>2 DEF Skips

\* An activation goes on in its function.
LEMMA StandingGoes ==
    ASSUME NEW tree, NEW lists, NEW f, NEW rest, NEW read, NEW more, NEW g,
           Standing(tree, lists, f, rest, Invalid, read), Skips(more, read),
           f.at \notin Outside, g.at \notin Outside, Begins(g), g.token = f.token, g.first = f.first,
           Held(g) = Held(f), Formed(g, tree, more)
    PROVE  Standing(tree, lists, g, rest, Invalid, more)
<1>1. Len(read) \in Nat \ {0} /\ Spans(tree, Len(read)) /\ Kept(tree, Own(f) \cup Begun(rest), read)
  BY DEF Standing, Rooted
<1>2. Follows(more, read) /\ Len(more) \in Nat
  BY <1>1, SkipsFollows DEF Follows
<1>3. g.first <= Reach(g) /\ Reach(g) <= Len(more)
  BY <1>2, ReachFormed
<1>4. Own(g) = Own(f)
  BY DEF Own
<1>5. Kept(tree, Own(g) \cup Begun(rest), more)
  BY <1>1, <1>4, KeptSkips
<1>6. g.at # "program"
  BY DEF Outside
<1>. QED
  BY <1>2, <1>3, <1>5, <1>6, StandingMoves

LEMMA StandingKeeps ==
    ASSUME NEW tree, NEW lists, NEW f, NEW rest, NEW given, NEW read, NEW more, NEW g,
           Standing(tree, lists, f, rest, given, read), Skips(more, read), given # Invalid,
           f.at \notin Outside, g.at \notin Outside, Begins(g), g.token = f.token, g.first = f.first,
           Held(g) = Held(f) \o <<given>>, Formed(g, tree, more)
    PROVE  Standing(tree, lists, g, rest, Invalid, more)
<1>1. Len(read) \in Nat \ {0} /\ Spans(tree, Len(read)) /\ Kept(tree, Own(f) \cup Begun(rest), read)
  BY DEF Standing, Rooted
<1>2. Follows(more, read) /\ Len(more) \in Nat
  BY <1>1, SkipsFollows DEF Follows
<1>3. g.first <= Reach(g) /\ Reach(g) <= Len(more)
  BY <1>2, ReachFormed
<1>4. Own(g) = Own(f)
  BY DEF Own
<1>5. Kept(tree, Own(g) \cup Begun(rest), more)
  BY <1>1, <1>4, KeptSkips
<1>6. g.at # "program"
  BY DEF Outside
<1>. QED
  BY <1>2, <1>3, <1>5, <1>6, StandingTakes

--------------------------------------------------------------------------------
(* Frames *)

Same(g, f) == Begins(g) /\ g.token = f.token /\ g.first = f.first /\ g.precedence = f.precedence

LEMMA FrameAt ==
    ASSUME NEW f, Begins(f), NEW a \in Points
    PROVE  /\ Same([f EXCEPT !.at = a], f) /\ [f EXCEPT !.at = a].at = a
           /\ [f EXCEPT !.at = a].node = f.node /\ [f EXCEPT !.at = a].list = f.list
BY DEF Same, Begins, Frames

AtNode(f, a, n) == [f EXCEPT !.at = a, !.node = n]
LEMMA FrameNode ==
    ASSUME NEW f, Begins(f), NEW a \in Points, NEW n \in Nat, NEW g, g = AtNode(f, a, n)
    PROVE  Same(g, f) /\ g.at = a /\ g.node = n /\ g.list = f.list
BY DEF AtNode, Same, Begins, Frames

AtList(f, a, l) == [f EXCEPT !.at = a, !.list = l]
LEMMA FrameList ==
    ASSUME NEW f, Begins(f), NEW a \in Points, NEW l \in Lists, NEW g, g = AtList(f, a, l)
    PROVE  Same(g, f) /\ g.at = a /\ g.node = f.node /\ g.list = l
BY DEF AtList, Same, Begins, Frames, Lists

LEMMA FrameReturning ==
    ASSUME NEW f, Begins(f), NEW g, g = [f EXCEPT !.at = "lhs", !.node = Invalid, !.list = <<>>]
    PROVE  Same(g, f) /\ g.at = "lhs" /\ g.node = Invalid /\ g.list = <<>>
<1>1. "lhs" \in Points /\ Invalid \in Nat /\ <<>> \in Seq(Nat)
  BY DEF Points, Invalid
<1>2. g \in Frames
  BY <1>1 DEF Begins, Frames
<1>3. f \in Frames
  BY DEF Begins
<1>. QED
  BY <1>2, <1>3 DEF Same, Begins, Frames

LEMMA HeldPlain ==
    ASSUME NEW f, f.at \notin {"arrow", "colon", "end"}
    PROVE  Held(f) = Present(f.node) \o f.list
BY DEF Held

LEMMA HeldNothing ==
    ASSUME NEW f, f.at \notin {"arrow", "colon", "end"}, f.node = Invalid, f.list = <<>>
    PROVE  Held(f) = <<>>
<1>1. <<>> \o <<>> = <<>>
  <2>1. <<>> \in Seq(Nat)
    OBVIOUS
  <2>. QED
    BY <2>1, ConcatEmptySeq
<1>. QED
  BY <1>1, HeldPlain DEF Present

LEMMA HeldList ==
    ASSUME NEW f, f.at \notin {"colon", "end"}, f.at = "arrow" \/ f.node = Invalid, f.list \in Lists
    PROVE  Held(f) = f.list
<1>1. <<>> \o f.list = f.list
  BY ConcatEmptySeq DEF Lists
<1>. QED
  BY <1>1 DEF Held, Present

LEMMA HeldNode ==
    ASSUME NEW f, f.at \notin {"arrow", "colon", "end"}, f.node \in Nat, f.node # Invalid, f.list = <<>>
    PROVE  Held(f) = <<f.node>>
<1>1. <<f.node>> \o <<>> = <<f.node>>
  <2>1. <<f.node>> \in Seq(Nat)
    OBVIOUS
  <2>. QED
    BY <2>1, ConcatEmptySeq
<1>. QED
  BY <1>1, HeldPlain DEF Present

LEMMA OpenersKnown ==
    ASSUME NEW at \in Points
    PROVE  Opener(at) \subseteq Known
BY DEF Opener, Known, Points, Operators, Prefixes, Punctuation

\* A function begins with its token.
LEMMA StandingOpens ==
    ASSUME NEW tree, NEW lists, NEW f, NEW rest, NEW read, NEW more, NEW g, NEW to,
           Standing(tree, lists, f, rest, Invalid, read), f.token = Len(read),
           Len(more) = Len(read) + 1, \A t \in 1 .. Len(read) : more[t] = read[t],
           g = [f EXCEPT !.at = to], read[Len(read)] \in Opener(to),
           \/ /\ f.at \in {"stmt", "unary"}
              /\ to \in {"statements", "while", "if", "returned", "parentheses", "array", "pairs",
                         "parameters", "operand"}
           \/ /\ f.at = "binary"
              /\ to \in {"arguments", "assigned", "rhs", "member", "index"}
    PROVE  Standing(tree, lists, g, rest, Invalid, more)
<1>1. /\ Len(read) \in Nat \ {0} /\ Spans(tree, Len(read)) /\ Kept(tree, Own(f) \cup Begun(rest), read)
      /\ Begins(f) /\ Formed(f, tree, read) /\ Invalid \in Nat
      /\ Rooted(tree, lists, f, rest, Invalid, read)
  BY DEF Standing, Rooted
<1>2. to \in Points /\ to \notin Outside
  BY DEF Points, Outside, Starting
<1>3. Same(g, f) /\ g.at = to /\ g.node = f.node /\ g.list = f.list
  BY <1>1, <1>2, FrameAt
<1>4. f.list = <<>> /\ f.at \in Outside
  BY <1>1 DEF Formed, Outside, Starting
<1>5. Held(g) = Held(f)
  BY <1>3, HeldPlain
<1>6. Follows(more, read) /\ Len(more) \in Nat
  BY <1>1 DEF Follows
<1>7. g.token < Len(more) /\ more[g.token] \in Opener(g.at)
  BY <1>1, <1>3
<1>8. f.at = "binary" => f.node \in DOMAIN tree /\ tree[f.node].last < f.token
  <2>1. Holds(f, tree, lists, Len(read)) /\ Trunk(tree, lists, Len(read)) /\ f \in Frames
    BY <1>1 DEF Rooted, ForestOf, Begins
  <2>2. f.at = "binary" => f.node # Invalid
    BY <1>1 DEF Formed
  <2>3. f.at = "binary" => f.node \in DOMAIN tree
    BY <2>1, <2>2, HoldsParts
  <2>. QED
    BY <2>1, <2>3 DEF Trunk
<1>9. (f.at = "binary" <=> f.node # Invalid) /\ (f.at # "binary" => f.token = f.first)
  BY <1>1 DEF Formed
<1>10. Len(<<>>) = 0 /\ 0 % 2 = 0
  OBVIOUS
<1>11. Formed(g, tree, more)
  <2>1. to # "arrow" /\ to \notin {"colon", "end", "else", "otherwise", "value", "loop", "then"}
    OBVIOUS
  <2>2. to = "index" => tree[g.node].last < g.token
    BY <1>3, <1>8
  <2>3. to \in {"pairs", "key"} => Len(g.list) % 2 = 0
    BY <1>3, <1>4, <1>10
  <2>4. to \in {"binary", "arguments", "assigned", "rhs", "member", "index", "start", "colon",
                "end", "loop", "then", "else", "otherwise"} <=> g.node # Invalid
    BY <1>3, <1>9
  <2>5. to \in {"stmt", "expr", "unary", "parentheses"} => g.token = g.first
    BY <1>3, <1>9 DEF Same
  <2>. QED
    BY <1>3, <1>4, <1>7, <2>1, <2>2, <2>3, <2>4, <2>5 DEF Formed
<1>12. Own(f) = {} /\ Own(g) = {Len(read)}
  BY <1>2, <1>3, <1>4 DEF Own, Same
<1>13. Kept(tree, Own(g) \cup Begun(rest), more)
  <2>1. Own(g) \cup Begun(rest) = (Own(f) \cup Begun(rest)) \cup {Len(read)}
    BY <1>12
  <2>2. \A n \in DOMAIN tree : tree[n].source < Len(read)
    BY <1>1 DEF Spans
  <2>3. read[Len(read)] \in Known
    BY <1>2, OpenersKnown
  <2>. HIDE DEF Own, Begun
  <2>. QED
    BY <1>1, <2>1, <2>2, <2>3, KeptReads
<1>14. g.first <= Reach(g) /\ Reach(g) <= Len(more)
  BY <1>2, <1>3, <1>6, <1>11, ReachFormed DEF Same
<1>. QED
  BY <1>1, <1>3, <1>5, <1>6, <1>11, <1>13, <1>14, StandingMoves DEF Same

--------------------------------------------------------------------------------
(* What a step shows of the calls, the result and the nodes *)

LEMMA ErrorLater ==
    ASSUME reported'
    PROVE  Whole'
BY DEF Whole

LEMMA GoesLater ==
    ASSUME NEW g, NEW rest, Standing(nodes', extra', g, rest, Invalid, input'),
           calls' = <<g>> \o rest, result' = Pending, g.at # "parameter"
    PROVE  Whole'
<1>1. g \in Frames /\ rest \in Stacks
  BY DEF Standing, Rooted, Begins
<1>2. Given' = Invalid
  BY <1>1, GivenLater
<1>3. result' # Invalid
  BY DEF Pending, Invalid
<1>. QED
  BY <1>2, <1>3, StandingLater

LEMMA CalleeFormed ==
    ASSUME NEW at \in {"expr", "stmt", "unary"}, NEW p \in Nat, Len(input') \in Nat \ {0}, NEW k,
           k = Called(at, p, Invalid, Len(input'))
    PROVE  /\ k \in Frames /\ k.at = at /\ k.node = Invalid /\ k.list = <<>>
           /\ k.token = Len(input') /\ k.first = Len(input') /\ k.precedence = p
           /\ Begins(k) /\ k.at \in Outside
           /\ \A tree, read : Formed(k, tree, read)
<1>1. /\ k.at = at /\ k.node = Invalid /\ k.list = <<>> /\ k.precedence = p
      /\ k.token = Len(input') /\ k.first = Len(input')
  BY DEF Called
<1>2. at \in Points /\ at \in Outside
  BY DEF Points, Outside, Starting
<1>3. k \in Frames
  <2>1. <<>> \in Seq(Nat)
    OBVIOUS
  <2>. QED
    BY <1>2, <2>1 DEF Called, Frames, Invalid
<1>4. Begins(k)
  BY <1>1, <1>3 DEF Begins
<1>5. \A tree, read : Formed(k, tree, read)
  BY <1>1, <1>2 DEF Formed
<1>. QED
  BY <1>1, <1>2, <1>3, <1>4, <1>5

LEMMA Pair ==
    ASSUME NEW S, NEW a \in S, NEW b \in S
    PROVE  <<a, b>> = <<a>> \o <<b>>
<1>. DEFINE both == <<a>> \o <<b>>
<1>1. Len(both) = 2 /\ both[1] = a /\ both[2] = b /\ both \in Seq(S)
  OBVIOUS
<1>2. <<a, b>> \in Seq(S) /\ Len(<<a, b>>) = 2 /\ <<a, b>>[1] = a /\ <<a, b>>[2] = b
  OBVIOUS
<1>. HIDE DEF both
<1>3. \A i \in 1 .. 2 : i = 1 \/ i = 2
  OBVIOUS
<1>4. both = <<a, b>>
  BY <1>1, <1>2, <1>3, SeqEqual
<1>. QED
  BY <1>4 DEF both

LEMMA TwoOn ==
    ASSUME NEW k \in Frames, NEW g \in Frames, NEW rest \in Stacks
    PROVE  <<k, g>> \o rest = <<k>> \o (<<g>> \o rest)
<1>1. <<k>> \in Seq(Frames) /\ <<g>> \in Seq(Frames) /\ rest \in Seq(Frames)
  BY DEF Stacks
<1>2. <<k, g>> = <<k>> \o <<g>>
  BY Pair
<1>3. (<<k>> \o <<g>>) \o rest = <<k>> \o (<<g>> \o rest)
  BY <1>1, ConcatAssociative
<1>. QED
  BY <1>2, <1>3

LEMMA CallsLater ==
    ASSUME NEW g, NEW rest, Standing(nodes', extra', g, rest, Invalid, input'), g.at # "parameter",
           NEW at \in {"expr", "stmt", "unary"}, NEW p \in Nat, NEW k,
           k = Called(at, p, Invalid, Len(input')),
           calls' = <<k, g>> \o rest, result' = Pending
    PROVE  Whole'
<1>1. g \in Frames /\ rest \in Stacks /\ Len(input') \in Nat \ {0}
  BY DEF Standing, Rooted, Begins
<1>2. /\ k \in Frames /\ k.at = at /\ k.node = Invalid /\ k.list = <<>>
      /\ k.first = Len(input') /\ Begins(k) /\ k.at \in Outside /\ Formed(k, nodes', input')
  BY <1>1, CalleeFormed
<1>3. Held(k) = <<>> /\ k.at # "parameter"
  BY <1>2, HeldNothing
<1>4. Standing(nodes', extra', k, <<g>> \o rest, Invalid, input')
  BY <1>2, <1>3, StandingCalls
<1>5. calls' = <<k>> \o (<<g>> \o rest)
  BY <1>1, <1>2, TwoOn
<1>. QED
  BY <1>3, <1>4, <1>5, GoesLater

LEMMA LeavesLater ==
    ASSUME NEW rest \in Stacks, NEW given \in Nat, Left(nodes', extra', rest, given, input'),
           calls' = rest, result' = given, given # Invalid
    PROVE  Whole'
<1>1. Waiting1(rest, nodes', input')
  BY DEF Left
<1>2. Given' = given
  BY <1>1, GivenLeft DEF Pending
<1>. QED
  BY <1>2, LeftLater

--------------------------------------------------------------------------------
(* An activation returns the node it built *)

LEMMA NodeMade ==
    ASSUME Begins(Top), Len(input') \in Nat \ {0},
           NEW tag \in Tags, NEW lhs \in Nat, NEW rhs \in Nat, NEW new, new = Node(tag, lhs, rhs)
    PROVE  /\ new \in Trees /\ new.tag = tag /\ new.lhs = lhs /\ new.rhs = rhs
           /\ new.source = Top.token /\ new.first = Top.first /\ new.last = Len(input') - 1
<1>1. Top.first \in Nat /\ Top.token \in Nat
  BY DEF Begins, Frames
<1>. QED
  BY <1>1 DEF Node, NodeAt, Trees

LEMMA NodeIs ==
    ASSUME Begins(Top), Len(input') \in Nat \ {0}
    PROVE  \A tag \in Tags, lhs \in Nat, rhs \in Nat :
              /\ Node(tag, lhs, rhs) \in Trees /\ Node(tag, lhs, rhs).tag = tag
              /\ Node(tag, lhs, rhs).lhs = lhs /\ Node(tag, lhs, rhs).rhs = rhs
              /\ Node(tag, lhs, rhs).source = Top.token /\ Node(tag, lhs, rhs).first = Top.first
              /\ Node(tag, lhs, rhs).last = Len(input') - 1
<1>. SUFFICES ASSUME NEW tag \in Tags, NEW lhs \in Nat, NEW rhs \in Nat, NEW new, new = Node(tag, lhs, rhs)
              PROVE  /\ new \in Trees /\ new.tag = tag /\ new.lhs = lhs /\ new.rhs = rhs
                     /\ new.source = Top.token /\ new.first = Top.first /\ new.last = Len(input') - 1
  OBVIOUS
<1>. QED
  BY NodeMade

LEMMA NodeAtIs ==
    ASSUME Len(input') \in Nat \ {0}, NEW token \in Nat,
           NEW tag \in Tags, NEW lhs \in Nat, NEW rhs \in Nat, NEW new, new = NodeAt(token, tag, lhs, rhs)
    PROVE  /\ new \in Trees /\ new.tag = tag /\ new.lhs = lhs /\ new.rhs = rhs
           /\ new.source = token /\ new.first = token /\ new.last = Len(input') - 1
BY DEF NodeAt, Trees

\* The activation's node is the last that it builds.
LEMMA BuildsLast ==
    ASSUME NEW tree, NEW lists, NEW more \in Lists, NEW f, NEW rest, NEW given, NEW read,
           NEW new \in Trees,
           Rooted(tree, lists, f, rest, given, read), f.token < Len(read),
           f.at \in {"colon", "end"} => f.list # <<>>,
           new.first = f.first, new.source = f.token, new.last = Len(read) - 1,
           Kids(new, lists \o more) = Held(f) \o Present(given), Stored(new, lists \o more),
           Kept(tree \o <<new>>, Begun(rest), read)
    PROVE  Left(tree \o <<new>>, lists \o more, rest, Len(tree) + 1, read)
<1>1. /\ f \in Frames /\ Begins(f) /\ Len(read) \in Nat \ {0}
      /\ Holds(f, tree, lists, Len(read)) /\ (given # Invalid => Precedes(f, tree, tree[given].first))
      /\ given # Invalid => given \in DOMAIN tree
      /\ tree \in Woods /\ lists \in Lists /\ rest \in Stacks
  BY DEF Rooted, Begins, ForestOf
<1>. DEFINE g == [f EXCEPT !.at = "lhs", !.node = Invalid, !.list = <<>>]
<1>2. Same(g, f) /\ g.at = "lhs" /\ g.node = Invalid /\ g.list = <<>>
  <2>1. g = [f EXCEPT !.at = "lhs", !.node = Invalid, !.list = <<>>]
    OBVIOUS
  <2>2. Begins(f)
    BY <1>1
  <2>. HIDE DEF g
  <2>. QED
    BY <2>1, <2>2, FrameReturning
<1>. HIDE DEF g
<1>3. Held(g) = <<>>
  BY <1>2, HeldNothing
<1>4. Held(f) \in Lists
  BY <1>1, HeldFacts
<1>5. Held(f) = Held(g) \o Held(f)
  <2>1. Held(f) = <<>> \o Held(f)
    BY <1>4, ConcatEmptySeq DEF Lists
  <2>. QED
    BY <1>3, <2>1
<1>6. /\ f.first \in Nat /\ f.token \in Nat /\ f.first <= f.token /\ f.first # 0
      /\ Reach(f) \in Nat
  BY <1>1, ReachIsToken DEF Begins
<1>7. Begins(g) /\ g.first = f.first /\ Reach(g) = f.first
  BY <1>2 DEF Same, Reach, Outside
<1>8. /\ g.first <= Reach(g) /\ Reach(g) <= Len(read) /\ Reach(g) <= new.first
      /\ new.first <= new.last /\ new.source < Len(read)
  BY <1>1, <1>6, <1>7
<1>9. \A i \in DOMAIN Held(f) : new.first <= tree[Held(f)[i]].first
  BY <1>1 DEF Holds
<1>10. given # Invalid => new.first <= tree[given].first
  <2>. SUFFICES ASSUME given # Invalid PROVE new.first <= tree[given].first
    OBVIOUS
  <2>1. f.first <= Reach(f) /\ Reach(f) <= tree[given].first /\ tree[given].first \in Nat
    BY <1>1, TreeFacts DEF Holds, Precedes
  <2>. QED
    BY <1>6, <2>1
<1>11. \A i \in DOMAIN Held(g) : tree[Held(g)[i]].last < new.first
  BY <1>3
<1>12. Formed(g, tree \o <<new>>, read)
  BY <1>2 DEF Formed, Outside
<1>13. Own(g) \cup Begun(rest) = Begun(rest)
  BY <1>2 DEF Own, Outside
<1>14. Standing(tree \o <<new>>, lists \o more, g, rest, Len(tree) + 1, read)
  <2>. DEFINE part == Held(f)
  <2>1. part \in Lists /\ Held(f) = Held(g) \o part
    BY <1>4, <1>5
  <2>2. Kept(tree \o <<new>>, Own(g) \cup Begun(rest), read)
    BY <1>13
  <2>3. \A i \in DOMAIN part : new.first <= tree[part[i]].first
    BY <1>9
  <2>4. Kids(new, lists \o more) = part \o Present(given)
    OBVIOUS
  <2>. HIDE DEF part
  <2>5. g.at # "program"
    BY <1>2
  <2>. QED
    BY <1>7, <1>8, <1>10, <1>11, <1>12, <2>1, <2>2, <2>3, <2>4, <2>5, StandingBuilds
<1>15. g.at \in Outside
  BY <1>2 DEF Outside
<1>. QED
  BY <1>3, <1>14, <1>15, StandingLeaves

LEMMA KeptCloses ==
    ASSUME NEW tree, NEW lists, NEW f, NEW rest, NEW given, NEW read, NEW new \in Trees,
           Rooted(tree, lists, f, rest, given, read), Kept(tree, Own(f) \cup Begun(rest), read),
           f.at \notin Outside, new.source = f.token,
           new.tag \in TagOf(read[f.token]) \/ read[f.token] \in Punctuation
    PROVE  Kept(tree \o <<new>>, Begun(rest), read)
<1>1. f.token \notin Begun(rest) /\ tree \in Woods
  BY OwnApart DEF Rooted
<1>2. Own(f) = {f.token}
  BY DEF Own
<1>3. \A t \in (Own(f) \cup Begun(rest)) \ Begun(rest) :
         read[t] \in Punctuation \/ Represents(new, t, read)
  BY <1>2 DEF Represents
<1>4. \A t \in 1 .. (Len(read) - 1) :
         Represents(new, t, read) => t \in (Own(f) \cup Begun(rest)) \ Begun(rest)
  BY <1>1, <1>2 DEF Represents
<1>. QED
  BY <1>1, <1>3, <1>4, KeptBuilds

LEMMA KeptAdds ==
    ASSUME NEW tree \in Woods, NEW begun, NEW read, NEW more, NEW new \in Trees,
           Kept(tree, begun, read), Spans(tree, Len(read)), \A t \in begun : t < Len(read),
           Len(read) \in Nat \ {0}, Len(more) = Len(read) + 1, \A t \in 1 .. Len(read) : more[t] = read[t],
           read[Len(read)] \in Known, new.source = Len(read), new.tag \in TagOf(read[Len(read)])
    PROVE  Kept(tree \o <<new>>, begun, more)
<1>. DEFINE also == begun \cup {Len(read)}
<1>1. Kept(tree, also, more)
  <2>1. \A n \in DOMAIN tree : tree[n].source < Len(read)
    BY DEF Spans
  <2>. QED
    BY <2>1, KeptReads
<1>2. Len(read) \notin begun
  OBVIOUS
<1>3. also \ begun = {Len(read)}
  BY <1>2
<1>. HIDE DEF also
<1>4. begun \subseteq also
  BY DEF also
<1>5. \A t \in also \ begun : more[t] \in Punctuation \/ Represents(new, t, more)
  BY <1>3 DEF Represents
<1>6. \A t \in 1 .. (Len(more) - 1) : Represents(new, t, more) => t \in also \ begun
  BY <1>3 DEF Represents
<1>. QED
  BY <1>1, <1>4, <1>5, <1>6, KeptBuilds

\* What happens when an activation returns a node, whatever it is.
LEMMA NodeLater ==
    ASSUME NEW f, f = Top, NEW rest, rest = Tail(calls), NEW given,
           Standing(nodes, extra, f, rest, given, input), Skips(input', input), f.at \notin Outside,
           NEW tag \in Tags, NEW lhs \in Nat, NEW rhs \in Nat, ReturnNode(tag, lhs, rhs),
           NEW more \in Lists, extra' = extra \o more, NEW new, new = Node(tag, lhs, rhs),
           Kids(new, extra') = Held(f) \o Present(given), Stored(new, extra'),
           tag \in TagOf(input[f.token]) \/ input[f.token] \in Punctuation
    PROVE  Whole'
<1>1. /\ Rooted(nodes, extra, f, rest, given, input) /\ Kept(nodes, Own(f) \cup Begun(rest), input)
      /\ Begins(f) /\ Formed(f, nodes, input) /\ Len(input) \in Nat \ {0} /\ Spans(nodes, Len(input))
      /\ rest \in Stacks /\ nodes \in Woods /\ Len(nodes) \in Nat
  BY TreeFacts DEF Standing, Rooted
<1>2. Follows(input', input) /\ Len(input') \in Nat \ {0} /\ Len(input) <= Len(input')
  BY <1>1, SkipsFollows DEF Follows
<1>3. Rooted(nodes, extra, f, rest, given, input')
  BY <1>1, <1>2, RootedLonger
<1>4. Kept(nodes, Own(f) \cup Begun(rest), input')
  BY <1>1, KeptSkips
<1>5. f.token < Len(input) /\ f.token \in 1 .. Len(input)
  <2>1. f.token < Len(input) /\ f.first <= f.token /\ f.token \in Nat /\ f.first \in Nat \ {0}
    BY <1>1, OwnApart DEF Formed
  <2>. QED
    BY <1>1, <2>1
<1>6. f.token < Len(input') /\ input'[f.token] = input[f.token]
  BY <1>1, <1>2, <1>5 DEF Follows
<1>7. /\ new \in Trees /\ new.tag = tag
      /\ new.source = f.token /\ new.first = f.first /\ new.last = Len(input') - 1
  <2>1. Begins(Top)
    BY <1>1
  <2>2. /\ new \in Trees /\ new.tag = tag
        /\ new.source = Top.token /\ new.first = Top.first /\ new.last = Len(input') - 1
    BY <1>2, <2>1, NodeIs
  <2>. QED
    BY <2>2
<1>8. Kept(nodes \o <<new>>, Begun(rest), input')
  BY <1>3, <1>4, <1>6, <1>7, KeptCloses
<1>9. f.at \in {"colon", "end"} => f.list # <<>>
  BY <1>1 DEF Formed
<1>10. Left(nodes \o <<new>>, extra \o more, rest, Len(nodes) + 1, input')
  <2>1. Kids(new, extra \o more) = Held(f) \o Present(given) /\ Stored(new, extra \o more)
    OBVIOUS
  <2>. QED
    BY <1>3, <1>6, <1>7, <1>8, <1>9, <2>1, BuildsLast
<1>11. nodes' = nodes \o <<new>> /\ calls' = rest /\ result' = Len(nodes) + 1
  <2>1. Len(<<new>>) = 1
    OBVIOUS
  <2>. QED
    BY <2>1 DEF ReturnNode, ReturnNodes, Push, Return
<1>12. Len(nodes) + 1 \in Nat /\ Len(nodes) + 1 # Invalid
  BY <1>1 DEF Invalid
<1>. QED
  BY <1>1, <1>10, <1>11, <1>12, LeavesLater

Leaves == {"identifier", "literal", "break"}
LEMMA LeafLater ==
    ASSUME NEW f, f = Top, NEW rest, rest = Tail(calls),
           Standing(nodes, extra, f, rest, Invalid, input), f.at \in {"stmt", "unary"},
           f.token = Len(input), Len(input') = Len(input) + 1,
           \A t \in 1 .. Len(input) : input'[t] = input[t],
           NEW tag \in Leaves, input[Len(input)] = tag, ReturnNode(tag, Invalid, Invalid),
           UNCHANGED extra
    PROVE  Whole'
<1>1. /\ Rooted(nodes, extra, f, rest, Invalid, input) /\ Kept(nodes, Own(f) \cup Begun(rest), input)
      /\ Begins(f) /\ Formed(f, nodes, input) /\ Len(input) \in Nat \ {0} /\ Spans(nodes, Len(input))
      /\ rest \in Stacks /\ nodes \in Woods /\ Len(nodes) \in Nat /\ extra \in Lists
  BY TreeFacts DEF Standing, Rooted
<1>2. Follows(input', input) /\ Len(input') \in Nat \ {0}
  BY <1>1 DEF Follows
<1>3. Rooted(nodes, extra, f, rest, Invalid, input')
  BY <1>1, <1>2, RootedLonger
<1>. DEFINE new == Node(tag, Invalid, Invalid)
<1>4. /\ new \in Trees /\ new.tag = tag
      /\ new.source = f.token /\ new.first = f.first /\ new.last = Len(input') - 1
  <2>1. tag \in Tags /\ Invalid \in Nat
    BY DEF Leaves, Tags, Invalid
  <2>. QED
    BY <1>1, <1>2, <2>1, NodeIs
<1>5. nodes' = nodes \o <<new>> /\ calls' = rest /\ result' = Len(nodes) + 1
  <2>1. Len(<<new>>) = 1
    OBVIOUS
  <2>. QED
    BY <2>1 DEF ReturnNode, ReturnNodes, Push, Return
<1>. HIDE DEF new
<1>6. Own(f) = {}
  BY DEF Own, Outside, Starting
<1>7. tag \in Known /\ tag \in TagOf(tag)
  BY DEF Leaves, Known, TagOf
<1>8. Kept(nodes \o <<new>>, Begun(rest), input')
  <2>1. \A t \in Begun(rest) : t < Len(input)
    BY <1>1, OwnApart
  <2>2. Kept(nodes, Begun(rest), input)
    BY <1>1, <1>6
  <2>. QED
    BY <1>1, <1>4, <1>7, <2>1, <2>2, KeptAdds
<1>9. Kids(new, extra \o <<>>) = <<>> /\ Stored(new, extra \o <<>>)
  BY <1>4 DEF Kids, Stored, Leaves, Operators
<1>10. Held(f) = <<>> /\ Present(Invalid) = <<>> /\ <<>> \o <<>> = <<>>
  <2>1. f.node = Invalid /\ f.list = <<>>
    BY <1>1 DEF Formed
  <2>2. <<>> \in Seq(Nat)
    OBVIOUS
  <2>. QED
    BY <2>1, <2>2, HeldNothing, ConcatEmptySeq DEF Present
<1>11. <<>> \in Lists /\ extra \o <<>> = extra
  BY <1>1, ConcatEmptySeq DEF Lists
<1>12. f.token < Len(input') /\ f.at \notin {"colon", "end"}
  BY <1>1
<1>13. Left(nodes \o <<new>>, extra \o <<>>, rest, Len(nodes) + 1, input')
  BY <1>3, <1>4, <1>8, <1>9, <1>10, <1>11, <1>12, BuildsLast
<1>14. Len(nodes) + 1 \in Nat /\ Len(nodes) + 1 # Invalid
  BY <1>1 DEF Invalid
<1>. QED
  BY <1>1, <1>5, <1>11, <1>13, <1>14, LeavesLater

--------------------------------------------------------------------------------
(* What the children of a new node are *)

LEMMA ListedLast ==
    ASSUME NEW from \in Lists, NEW list \in Lists
    PROVE  /\ Listed(from \o list, Len(from) + 1, Len(list)) = list
           /\ Len(from \o list) = Len(from) + Len(list) /\ Len(from) \in Nat /\ Len(list) \in Nat
<1>1. /\ \A i \in 1 .. Len(list) : (from \o list)[Len(from) + i] = list[i]
      /\ Len(from) \in Nat /\ Len(list) \in Nat /\ Len(from \o list) = Len(from) + Len(list)
  BY Joined
<1>2. \A i \in 1 .. Len(list) : (Len(from) + 1) + i - 1 = Len(from) + i
  BY <1>1
<1>. DEFINE part == Listed(from \o list, Len(from) + 1, Len(list))
<1>3. DOMAIN part = 1 .. Len(list) /\ \A i \in 1 .. Len(list) : part[i] = list[i]
  BY <1>1, <1>2 DEF Listed
<1>4. part = [i \in 1 .. Len(list) |-> list[i]]
  BY <1>1, <1>2 DEF Listed
<1>5. list = [i \in 1 .. Len(list) |-> list[i]]
  BY DEF Lists
<1>. QED
  BY <1>1, <1>4, <1>5

LEMMA CountedLast ==
    ASSUME NEW from \in Lists, NEW list \in Lists
    PROVE  LET long == from \o Counted(list)
               at == Len(from) + 1
           IN  /\ Counting(long, at) = list /\ Counted(list) \in Lists
               /\ at \in Nat /\ at # Invalid /\ at <= Len(long) /\ at + long[at] <= Len(long)
<1>. DEFINE n == Len(list)
            one == from \o <<n>>
            long == from \o Counted(list)
            at == Len(from) + 1
<1>1. n \in Nat /\ Len(from) \in Nat
  BY Joined
<1>. HIDE DEF n
<1>2. <<n>> \in Lists /\ Len(<<n>>) = 1 /\ <<n>>[1] = n
  BY <1>1 DEF Lists
<1>3. one \in Lists /\ Len(one) = at /\ one[at] = n
  BY <1>1, JoinedOne
<1>4. long = one \o list
  <2>1. from \in Seq(Nat) /\ <<n>> \in Seq(Nat) /\ list \in Seq(Nat)
    BY <1>2 DEF Lists
  <2>2. (from \o <<n>>) \o list = from \o (<<n>> \o list)
    BY <2>1, ConcatAssociative
  <2>. QED
    BY <2>2 DEF Counted, n
<1>. HIDE DEF one, long, at
<1>5. Listed(long, at + 1, n) = list /\ Len(long) = at + n
  BY <1>3, <1>4, ListedLast DEF n
<1>6. at \in Nat /\ at # Invalid /\ at \in 1 .. Len(one)
  BY <1>1, <1>3 DEF at, Invalid
<1>7. long[at] = n
  BY <1>3, <1>4, <1>6, Joined
<1>8. Counting(long, at) = list
  BY <1>5, <1>6, <1>7 DEF Counting
<1>9. Counted(list) \in Lists
  BY <1>2, Joined DEF Counted, n
<1>. QED
  BY <1>1, <1>5, <1>6, <1>7, <1>8, <1>9 DEF long, at

LEMMA KidsOfTwo ==
    ASSUME NEW new \in Trees, NEW from, new.tag \in Operators \cup {"member", "subscript", "slice", "while"}
    PROVE  Kids(new, from) = <<new.lhs>> \o <<new.rhs>> /\ Stored(new, from)
<1>1. new.lhs \in Nat /\ new.rhs \in Nat
  BY DEF Trees
<1>2. <<new.lhs, new.rhs>> = <<new.lhs>> \o <<new.rhs>>
  BY <1>1, Pair
<1>3. Kids(new, from) = <<new.lhs, new.rhs>>
  BY DEF Kids, Operators
<1>4. Stored(new, from)
  BY DEF Stored, Operators
<1>. QED
  BY <1>2, <1>3, <1>4

LEMMA KidsOfOne ==
    ASSUME NEW new \in Trees, NEW from, new.tag \in {"neg", "not", "return"}
    PROVE  Kids(new, from) = <<>> \o <<new.rhs>> /\ Stored(new, from)
<1>1. new.rhs \in Nat
  BY DEF Trees
<1>2. <<new.rhs>> \in Seq(Nat)
  BY <1>1
<1>3. <<>> \o <<new.rhs>> = <<new.rhs>>
  BY <1>2, ConcatEmptySeq
<1>4. Kids(new, from) = <<new.rhs>>
  BY DEF Kids, Operators
<1>5. Stored(new, from)
  BY DEF Stored
<1>. QED
  BY <1>3, <1>4, <1>5

--------------------------------------------------------------------------------
(* The running activation at a step *)

Fine == Reading /\ Whole /\ ~reported

LEMMA NowFacts ==
    ASSUME Fine, calls # <<>>
    PROVE  /\ Begins(Top) /\ Formed(Top, nodes, input) /\ Tail(calls) \in Stacks
           /\ Len(input) \in Nat \ {0} /\ nodes \in Woods /\ extra \in Lists /\ Len(nodes) \in Nat
           /\ Top.at \in Starting => Top.token = Len(input)
           /\ Top.list \in Lists /\ Top.node \in Nat
           /\ language \in Languages
<1>1. Standing(nodes, extra, Top, Tail(calls), Given, input)
  BY StandingNow DEF Fine
<1>2. /\ Begins(Top) /\ Formed(Top, nodes, input) /\ Tail(calls) \in Stacks
      /\ Len(input) \in Nat \ {0} /\ nodes \in Woods /\ extra \in Lists
  BY <1>1 DEF Standing, Rooted
<1>3. Top.list \in Lists /\ Top.node \in Nat
  BY <1>2 DEF Begins, Frames, Lists
<1>4. Top.at \in Starting => Top.token = Len(input)
  BY TopFits DEF Fine
<1>. QED
  BY <1>2, <1>3, <1>4, TreeFacts DEF Fine, Reading

LEMMA EnteringNow ==
    ASSUME Fine, NEW at, Entering(at), at # "parameter"
    PROVE  /\ Standing(nodes, extra, Top, Tail(calls), Invalid, input)
           /\ Top.at = at /\ result = Pending /\ calls # <<>>
<1>1. Top.at = at /\ result = Pending /\ calls # <<>>
  BY DEF Entering
<1>2. Given = Invalid
  BY <1>1 DEF Given
<1>3. Standing(nodes, extra, Top, Tail(calls), Given, input)
  BY <1>1, StandingNow DEF Fine
<1>. QED
  BY <1>1, <1>2, <1>3

LEMMA ReturnedNow ==
    ASSUME Fine, NEW at, Returned(at)
    PROVE  /\ Standing(nodes, extra, Top, Tail(calls), result, input)
           /\ Top.at = at /\ result # Pending /\ result # Invalid /\ result \in Nat /\ calls # <<>>
           /\ at # "parameter" /\ at \notin Starting
<1>1. Top.at = at /\ result # Pending /\ calls # <<>>
  BY DEF Returned
<1>2. /\ Standing(nodes, extra, Top, Tail(calls), Given, input)
      /\ result # Invalid /\ Top.at # "parameter"
  BY <1>1, StandingNow DEF Fine
<1>3. Given = result
  BY <1>1, <1>2 DEF Given
<1>4. at \notin Starting
  BY <1>1, TopFits DEF Fine
<1>5. result \in Nat
  BY <1>1, ResultFacts DEF Fine
<1>. QED
  BY <1>1, <1>2, <1>3, <1>4, <1>5

LEMMA AdvancesBy ==
    ASSUME Fine, UNCHANGED language, Advance, Peek # "eof"
    PROVE  /\ Len(input') = Len(input) + 1 /\ \A t \in 1 .. Len(input) : input'[t] = input[t]
           /\ Peek \in Punctuation => Skips(input', input)
<1>1. Reads /\ Len(input') = Len(input) + 1
  BY Advances DEF Fine
<1>2. \A t \in 1 .. Len(input) : input'[t] = input[t]
  BY <1>1 DEF Reads
<1>. QED
  BY <1>1, <1>2 DEF Skips, Peek

LEMMA StillSkips ==
    ASSUME UNCHANGED input
    PROVE  Skips(input', input)
BY DEF Skips

\* An activation goes on or calls, with what it had.
LEMMA EnterGoes ==
    ASSUME Fine, NEW at, Entering(at), at \notin Outside, at # "parameter",
           NEW g, Same(g, Top), g.at \notin Outside, g.at # "parameter",
           Held(g) = Held(Top), Formed(g, nodes, input'), Skips(input', input),
           UNCHANGED <<nodes, extra>>, calls' = <<g>> \o Tail(calls), result' = Pending
    PROVE  Whole'
<1>1. Standing(nodes, extra, Top, Tail(calls), Invalid, input) /\ Top.at = at
  BY EnteringNow
<1>2. Begins(g) /\ g.token = Top.token /\ g.first = Top.first
  BY DEF Same
<1>3. Standing(nodes, extra, g, Tail(calls), Invalid, input')
  BY <1>1, <1>2, StandingGoes
<1>. QED
  BY <1>3, GoesLater

LEMMA EnterCalls ==
    ASSUME Fine, NEW at, Entering(at), at \notin Outside, at # "parameter",
           NEW g, Same(g, Top), g.at \notin Outside, g.at # "parameter",
           Held(g) = Held(Top), Formed(g, nodes, input'), Skips(input', input),
           UNCHANGED <<nodes, extra>>,
           NEW from \in {"expr", "stmt", "unary"}, NEW p \in Nat,
           calls' = <<Called(from, p, Invalid, Len(input')), g>> \o Tail(calls), result' = Pending
    PROVE  Whole'
<1>1. Standing(nodes, extra, Top, Tail(calls), Invalid, input) /\ Top.at = at
  BY EnteringNow
<1>2. Begins(g) /\ g.token = Top.token /\ g.first = Top.first
  BY DEF Same
<1>3. Standing(nodes, extra, g, Tail(calls), Invalid, input')
  BY <1>1, <1>2, StandingGoes
<1>. QED
  BY <1>3, CallsLater

\* An activation takes the result, and goes on or calls.
LEMMA ResumeGoes ==
    ASSUME Fine, NEW at, Returned(at), at \notin Outside,
           NEW g, Same(g, Top), g.at \notin Outside, g.at # "parameter",
           Held(g) = Held(Top) \o <<result>>, Formed(g, nodes, input'), Skips(input', input),
           UNCHANGED <<nodes, extra>>, calls' = <<g>> \o Tail(calls), result' = Pending
    PROVE  Whole'
<1>1. /\ Standing(nodes, extra, Top, Tail(calls), result, input) /\ Top.at = at
      /\ result # Invalid
  BY ReturnedNow
<1>2. Begins(g) /\ g.token = Top.token /\ g.first = Top.first
  BY DEF Same
<1>3. Standing(nodes, extra, g, Tail(calls), Invalid, input')
  BY <1>1, <1>2, StandingKeeps
<1>. QED
  BY <1>3, GoesLater

LEMMA ResumeCalls ==
    ASSUME Fine, NEW at, Returned(at), at \notin Outside,
           NEW g, Same(g, Top), g.at \notin Outside, g.at # "parameter",
           Held(g) = Held(Top) \o <<result>>, Formed(g, nodes, input'), Skips(input', input),
           UNCHANGED <<nodes, extra>>,
           NEW from \in {"expr", "stmt", "unary"}, NEW p \in Nat,
           calls' = <<Called(from, p, Invalid, Len(input')), g>> \o Tail(calls), result' = Pending
    PROVE  Whole'
<1>1. /\ Standing(nodes, extra, Top, Tail(calls), result, input) /\ Top.at = at
      /\ result # Invalid
  BY ReturnedNow
<1>2. Begins(g) /\ g.token = Top.token /\ g.first = Top.first
  BY DEF Same
<1>3. Standing(nodes, extra, g, Tail(calls), Invalid, input')
  BY <1>1, <1>2, StandingKeeps
<1>. QED
  BY <1>3, CallsLater

\* A function begins with its token.
Opens(from, to) ==
    \/ /\ from \in {"stmt", "unary"}
       /\ to \in {"statements", "while", "if", "returned", "parentheses", "array", "pairs",
                  "parameters", "operand"}
    \/ /\ from = "binary"
       /\ to \in {"arguments", "assigned", "rhs", "member", "index"}

LEMMA OpenGoes ==
    ASSUME Fine, NEW from, NEW to, Opens(from, to), Entering(from), Peek \in Opener(to), Peek # "eof",
           Advance, GoesTo(to), Silent, UNCHANGED result
    PROVE  Whole'
<1>1. /\ Standing(nodes, extra, Top, Tail(calls), Invalid, input) /\ Top.at = from
      /\ result = Pending /\ calls # <<>> /\ from \in Starting
  BY EnteringNow DEF Opens, Starting
<1>2. Top.token = Len(input)
  BY <1>1, NowFacts
<1>3. Len(input') = Len(input) + 1 /\ \A t \in 1 .. Len(input) : input'[t] = input[t]
  BY AdvancesBy DEF Silent
<1>. DEFINE g == [Top EXCEPT !.at = to]
<1>4. g = [Top EXCEPT !.at = to]
  OBVIOUS
<1>5. g.at # "parameter"
  BY <1>1, FrameAt, NowFacts DEF Opens, Points
<1>6. calls' = <<g>> \o Tail(calls) /\ UNCHANGED <<nodes, extra>>
  BY DEF GoesTo, Goes, Silent
<1>. HIDE DEF g
<1>7. Standing(nodes, extra, g, Tail(calls), Invalid, input')
  BY <1>1, <1>2, <1>3, <1>4, StandingOpens DEF Opens, Peek
<1>. QED
  BY <1>1, <1>5, <1>6, <1>7, GoesLater

LEMMA OpenCalls ==
    ASSUME Fine, NEW from, NEW to, Opens(from, to), Entering(from), Peek \in Opener(to), Peek # "eof",
           Advance, Silent, NEW p \in Nat, Calls(Expression(p), [Top EXCEPT !.at = to])
    PROVE  Whole'
<1>1. /\ Standing(nodes, extra, Top, Tail(calls), Invalid, input) /\ Top.at = from
      /\ result = Pending /\ calls # <<>> /\ from \in Starting
  BY EnteringNow DEF Opens, Starting
<1>2. Top.token = Len(input)
  BY <1>1, NowFacts
<1>3. Len(input') = Len(input) + 1 /\ \A t \in 1 .. Len(input) : input'[t] = input[t]
  BY AdvancesBy DEF Silent
<1>. DEFINE g == [Top EXCEPT !.at = to]
<1>4. g = [Top EXCEPT !.at = to]
  OBVIOUS
<1>5. g.at # "parameter"
  BY <1>1, FrameAt, NowFacts DEF Opens, Points
<1>6. /\ calls' = <<Called("expr", p, Invalid, Len(input')), g>> \o Tail(calls) /\ result' = Pending
      /\ UNCHANGED <<nodes, extra>>
  BY DEF Calls, Expression, Silent
<1>. HIDE DEF g
<1>7. Standing(nodes, extra, g, Tail(calls), Invalid, input')
  BY <1>1, <1>2, <1>3, <1>4, StandingOpens DEF Opens, Peek
<1>. QED
  BY <1>5, <1>6, <1>7, CallsLater

--------------------------------------------------------------------------------
(* Lists *)

LEMMA SkipsComma1 ==
    ASSUME Fine, UNCHANGED language, SkipComma
    PROVE  Skips(input', input)
<1>1. CASE Peek = ","
  BY <1>1, AdvancesBy DEF SkipComma, Punctuation
<1>2. CASE Peek # ","
  BY <1>2 DEF SkipComma, Skips
<1>. QED
  BY <1>1, <1>2

LEMMA FormedNow ==
    ASSUME Fine, calls # <<>>, Skips(input', input)
    PROVE  Formed(Top, nodes, input')
<1>1. Standing(nodes, extra, Top, Tail(calls), Given, input)
  BY StandingNow DEF Fine
<1>2. /\ Top \in Frames /\ Top.first \in 1 .. Top.token /\ Formed(Top, nodes, input)
      /\ Holds(Top, nodes, extra, Len(input)) /\ Len(input) \in Nat \ {0}
  BY <1>1 DEF Standing, Rooted, ForestOf, Begins
<1>3. Follows(input', input)
  BY <1>2, SkipsFollows
<1>. QED
  BY <1>2, <1>3, FormedStays

LEMMA HeldAppends ==
    ASSUME NEW f \in Frames, NEW g, NEW n \in Nat, f.at \notin {"arrow", "colon", "end"},
           g.at \notin {"arrow", "colon", "end"}, g.node = f.node, g.list = Append(f.list, n)
    PROVE  Held(g) = Held(f) \o <<n>>
<1>1. Present(f.node) \in Lists /\ f.list \in Lists
  BY PresentFacts DEF Frames, Lists
<1>2. Held(f) = Present(f.node) \o f.list /\ Held(g) = Present(f.node) \o Append(f.list, n)
  BY HeldPlain
<1>3. Append(f.list, n) = f.list \o <<n>> /\ <<n>> \in Lists
  BY <1>1, Appends
<1>4. (Present(f.node) \o f.list) \o <<n>> = Present(f.node) \o (f.list \o <<n>>)
  BY <1>1, <1>3, Associates
<1>. QED
  BY <1>2, <1>3, <1>4

LEMMA NextElementWhole ==
    ASSUME Fine, NEW at, Entering(at), at # "parameter", UNCHANGED input, Silent,
           NEW from \in {"expr", "stmt", "unary"}, NEW p \in Nat,
           Calls(Called(from, p, Invalid, Len(input')), Top)
    PROVE  Whole'
<1>1. Standing(nodes, extra, Top, Tail(calls), Invalid, input) /\ Top.at = at
  BY EnteringNow
<1>2. Standing(nodes', extra', Top, Tail(calls), Invalid, input')
  BY <1>1 DEF Silent
<1>. QED
  BY <1>1, <1>2, CallsLater DEF Calls

\* Statements, arguments and elements are kept one after the other, values after their keys.
LEMMA KeepWhole ==
    ASSUME Fine, NEW at, NEW to, Returned(at),
           \/ at \in {"statements", "arguments", "array"} /\ to = at
           \/ at = "value" /\ to = "pairs",
           Skips(input', input), Keep(result, to), ~reported'
    PROVE  Whole'
<1>1. result \in Nat /\ Top.at = at /\ calls # <<>>
  BY ReturnedNow
<1>2. /\ Begins(Top) /\ Top.list \in Lists /\ Top \in Frames
  BY <1>1, NowFacts DEF Begins
<1>. DEFINE more == Append(Top.list, result)
            g == [Top EXCEPT !.at = to, !.list = more]
<1>3. calls' = <<g>> \o Tail(calls) /\ result' = Pending /\ UNCHANGED <<nodes, extra>>
  BY DEF Keep, Goes
<1>4. more \in Lists /\ Len(more) = Len(Top.list) + 1 /\ Len(Top.list) \in Nat
  BY <1>1, <1>2, Appends, LengthOf
<1>5. to \in Points /\ to \notin Outside /\ to \notin {"parameter", "arrow", "colon", "end"}
      /\ at \notin Outside /\ at \notin {"parameter", "arrow", "colon", "end"}
  BY DEF Points, Outside, Starting
<1>6. more = Append(Top.list, result)
  OBVIOUS
<1>. HIDE DEF more
<1>11. g = AtList(Top, to, more)
  BY DEF AtList
<1>. HIDE DEF g
<1>7. Same(g, Top) /\ g.at = to /\ g.node = Top.node /\ g.list = more
  BY <1>2, <1>4, <1>5, <1>11, FrameList
<1>8. Held(g) = Held(Top) \o <<result>>
  BY <1>1, <1>2, <1>5, <1>6, <1>7, HeldAppends
<1>9. Formed(Top, nodes, input')
  BY <1>1, FormedNow
<1>10. Formed(g, nodes, input')
  <2>1. g.token = Top.token /\ g.first = Top.first
    BY <1>7 DEF Same
  <2>2. Opener(to) = Opener(at)
    BY DEF Opener
  <2>3. to = "pairs" => Len(g.list) % 2 = 0
    <3>1. to = "pairs" => Len(Top.list) % 2 = 1
      BY <1>1, <1>9 DEF Formed
    <3>. QED
      BY <1>4, <1>7, <3>1, Odd
  <2>4. g.token < Len(input') /\ input'[g.token] \in Opener(to)
    BY <1>1, <1>5, <1>9, <2>1, <2>2 DEF Formed
  <2>5. to = "arguments" <=> g.node # Invalid
    BY <1>1, <1>5, <1>7, <1>9 DEF Formed
  <2>. QED
    BY <1>7, <2>3, <2>4, <2>5 DEF Formed
<1>. QED
  BY <1>3, <1>5, <1>7, <1>8, <1>10, ResumeGoes

LEMMA ClosingSkips ==
    ASSUME Fine, NEW at, NEW closer, Closing(at, closer), closer \in Punctuation
    PROVE  /\ Skips(input', input) /\ UNCHANGED <<language, reported>> /\ Entering(at)
           /\ Len(input') \in Nat \ {0}
<1>1. Peek # "eof"
  BY DEF Closing, Punctuation
<1>2. Len(input') = Len(input) + 1 /\ Skips(input', input)
  BY <1>1, AdvancesBy DEF Closing
<1>. QED
  BY <1>2, NowFacts DEF Closing, Entering

LEMMA StartIs ==
    ASSUME extra \in Lists
    PROVE  Start = Len(extra) + 1 /\ Start \in Nat /\ Start # Invalid
BY LengthOf DEF Start, Invalid

\* A list is written where it is looked for.
LEMMA KidsOfList ==
    ASSUME NEW from \in Lists, NEW list \in Lists, NEW new \in Trees,
           new.lhs = Len(from) + 1,
           \/ new.tag \in {"block", "array"} /\ new.rhs = Len(list)
           \/ new.tag = "map" /\ 2 * new.rhs = Len(list)
    PROVE  Kids(new, from \o list) = list /\ Stored(new, from \o list)
<1>1. /\ Listed(from \o list, Len(from) + 1, Len(list)) = list
      /\ Len(from \o list) = Len(from) + Len(list) /\ Len(from) \in Nat /\ Len(list) \in Nat
  BY ListedLast
<1>. DEFINE long == from \o list
<1>2. Listed(long, new.lhs, Len(list)) = list /\ new.lhs > 0 /\ new.lhs + Len(list) <= Len(long) + 1
  BY <1>1
<1>. HIDE DEF long
<1>3. Kids(new, long) = list
  BY <1>2 DEF Kids, Operators
<1>4. Stored(new, long)
  BY <1>2 DEF Stored
<1>. QED
  BY <1>3, <1>4 DEF long

Closes(at, closer, tag) == \/ at = "statements" /\ closer = "}" /\ tag = "block"
                           \/ at = "array" /\ closer = "]" /\ tag = "array"
                           \/ at = "pairs" /\ closer = "}" /\ tag = "map"
Counts(n, tag, list) == Len(list) = IF tag = "map" THEN 2 * n ELSE n

LEMMA ListWhole ==
    ASSUME Fine, NEW at, NEW closer, NEW tag, Closes(at, closer, tag), Closing(at, closer),
           NEW n \in Nat, Counts(n, tag, Top.list),
           extra' = extra \o Top.list, ReturnNode(tag, Start, n)
    PROVE  Whole'
<1>1. /\ Skips(input', input) /\ Entering(at) /\ Len(input') \in Nat \ {0}
  <2>1. closer \in Punctuation
    BY DEF Punctuation, Closes
  <2>. QED
    BY <2>1, ClosingSkips
<1>2. /\ Standing(nodes, extra, Top, Tail(calls), Invalid, input) /\ Top.at = at /\ calls # <<>>
  BY <1>1, EnteringNow DEF Closes
<1>3. /\ Begins(Top) /\ Formed(Top, nodes, input) /\ extra \in Lists /\ Top.list \in Lists
      /\ Top.node \in Nat
  BY <1>2, NowFacts
<1>4. at \notin Outside /\ tag \in Tags /\ Start \in Nat
  <2>2. at \notin Outside /\ tag \in Tags
    BY DEF Outside, Starting, Tags, Closes
  <2>3. Start \in Nat
    BY <1>3, StartIs
  <2>. QED
    BY <2>2, <2>3
<1>. DEFINE new == Node(tag, Start, n)
<1>10. new = Node(tag, Start, n)
  OBVIOUS
<1>. HIDE DEF new
<1>5. new \in Trees /\ new.tag = tag /\ new.lhs = Start /\ new.rhs = n
  <2>1. Begins(Top) /\ Len(input') \in Nat \ {0}
    BY <1>1, <1>3
  <2>. QED
    BY <1>4, <1>10, <2>1, NodeIs
<1>6. Kids(new, extra') = Top.list /\ Stored(new, extra')
  <2>1. new.lhs = Len(extra) + 1
    BY <1>5 DEF Start
  <2>2. \/ new.tag \in {"block", "array"} /\ new.rhs = Len(Top.list)
        \/ new.tag = "map" /\ 2 * new.rhs = Len(Top.list)
    BY <1>5 DEF Closes, Counts
  <2>. QED
    BY <1>3, <1>5, <2>1, <2>2, KidsOfList
<1>7. Held(Top) = Top.list
  <2>1. Top.node = Invalid
    BY <1>2, <1>3 DEF Formed, Closes
  <2>. QED
    BY <1>2, <1>3, <2>1, HeldList DEF Closes
<1>8. Kids(new, extra') = Held(Top) \o Present(Invalid)
  <2>1. Top.list \o <<>> = Top.list
    BY <1>3, ConcatEmptySeq DEF Lists
  <2>. QED
    BY <1>6, <1>7, <2>1 DEF Present
<1>9. input[Top.token] \in Punctuation
  BY <1>2, <1>3, <1>4 DEF Formed, Opener, Punctuation, Closes
<1>. QED
  BY <1>1, <1>2, <1>3, <1>4, <1>6, <1>8, <1>9, NodeLater DEF new

--------------------------------------------------------------------------------
(* The operations *)

LEMMA KeepElementWhole ==
    ASSUME Fine, NEW from, NEW at, KeepElement(from, at),
           \/ from \in {"arguments", "array"} /\ at = from
           \/ from = "value" /\ at = "pairs"
    PROVE  Whole'
<1>1. CASE reported'
  BY <1>1, ErrorLater
<1>2. CASE ~reported'
  <2>1. Skips(input', input)
    BY SkipsComma1 DEF KeepElement, Keep
  <2>. QED
    BY <1>2, <2>1, KeepWhole DEF KeepElement, Resuming
<1>. QED
  BY <1>1, <1>2

LEMMA ParseBlockWhole ==
    ASSUME Fine, ParseBlock
    PROVE  Whole'
<1>1. CASE /\ Entering("stmt") /\ Peek = "{"
           /\ Advance /\ GoesTo("statements")
           /\ Silent /\ UNCHANGED result
  <2>1. Peek \in Opener("statements") /\ Peek # "eof" /\ Opens("stmt", "statements")
    BY <1>1 DEF Opener, Opens
  <2>. QED
    BY <1>1, <2>1, OpenGoes
<1>2. CASE NextElement("statements", "}", Statement)
  BY <1>2, NextElementWhole DEF NextElement, Statement, Lowest
<1>3. CASE Resuming("statements") /\ UNCHANGED input /\ Keep(result, "statements")
  <2>1. CASE reported'
    BY <2>1, ErrorLater
  <2>2. CASE ~reported'
    <3>1. Skips(input', input)
      BY <1>3, StillSkips
    <3>. QED
      BY <1>3, <2>2, <3>1, KeepWhole DEF Resuming
  <2>. QED
    BY <2>1, <2>2
<1>4. CASE /\ Closing("statements", "}")
           /\ extra' = extra \o Top.list
           /\ ReturnNode("block", Start, Len(Top.list))
  <2>1. Closes("statements", "}", "block")
    BY DEF Closes
  <2>2. Len(Top.list) \in Nat /\ Counts(Len(Top.list), "block", Top.list)
    BY <1>4, NowFacts, LengthOf DEF Counts, Closing, Entering
  <2>. QED
    BY <1>4, <2>1, <2>2, ListWhole
<1>. QED
  BY <1>1, <1>2, <1>3, <1>4 DEF ParseBlock

LEMMA ParseArrayWhole ==
    ASSUME Fine, ParseArray
    PROVE  Whole'
<1>1. CASE /\ Entering("unary") /\ Peek = "["
           /\ Advance /\ GoesTo("array")
           /\ Silent /\ UNCHANGED result
  <2>1. Peek \in Opener("array") /\ Peek # "eof" /\ Opens("unary", "array")
    BY <1>1 DEF Opener, Opens
  <2>. QED
    BY <1>1, <2>1, OpenGoes
<1>2. CASE NextElement("array", "]", Expression(Lowest))
  BY <1>2, NextElementWhole DEF NextElement, Expression, Lowest
<1>3. CASE KeepElement("array", "array")
  BY <1>3, KeepElementWhole
<1>4. CASE /\ Closing("array", "]")
           /\ extra' = extra \o Top.list
           /\ ReturnNode("array", Start, Len(Top.list))
  <2>1. Closes("array", "]", "array")
    BY DEF Closes
  <2>2. Len(Top.list) \in Nat /\ Counts(Len(Top.list), "array", Top.list)
    BY <1>4, NowFacts, LengthOf DEF Counts, Closing, Entering
  <2>. QED
    BY <1>4, <2>1, <2>2, ListWhole
<1>. QED
  BY <1>1, <1>2, <1>3, <1>4 DEF ParseArray

LEMMA Even ==
    ASSUME NEW n \in Nat, n % 2 = 0
    PROVE  n \div 2 \in Nat /\ n = 2 * (n \div 2)
OBVIOUS

LEMMA ParseMapWhole ==
    ASSUME Fine, ParseMap
    PROVE  Whole'
<1>1. CASE /\ Entering("unary") /\ Peek = "{"
           /\ Advance /\ GoesTo("pairs")
           /\ Silent /\ UNCHANGED result
  <2>1. Peek \in Opener("pairs") /\ Peek # "eof" /\ Opens("unary", "pairs")
    BY <1>1 DEF Opener, Opens
  <2>. QED
    BY <1>1, <2>1, OpenGoes
<1>2. CASE /\ Entering("pairs") /\ Peek # "}"
           /\ UNCHANGED input /\ Silent
           /\ Calls(Expression(Lowest), [Top EXCEPT !.at = "key"])
  <2>. DEFINE g == [Top EXCEPT !.at = "key"]
  <2>1. Top.at = "pairs" /\ calls # <<>> /\ Begins(Top)
    BY <1>2, EnteringNow, NowFacts
  <2>2. /\ calls' = <<Called("expr", Lowest, Invalid, Len(input')), g>> \o Tail(calls)
        /\ result' = Pending /\ UNCHANGED <<nodes, extra>>
    BY <1>2 DEF Calls, Expression, Silent
  <2>3. Same(g, Top) /\ g.at = "key" /\ g.node = Top.node /\ g.list = Top.list
    <3>1. "key" \in Points
      BY DEF Points
    <3>. QED
      BY <2>1, <3>1, FrameAt
  <2>. HIDE DEF g
  <2>4. Held(g) = Held(Top)
    BY <2>1, <2>3, HeldPlain
  <2>5. Skips(input', input)
    BY <1>2, StillSkips
  <2>6. Formed(g, nodes, input')
    <3>1. Formed(Top, nodes, input')
      BY <2>1, <2>5, FormedNow
    <3>2. g.token = Top.token /\ g.first = Top.first
      BY <2>3 DEF Same
    <3>3. Opener("key") = Opener("pairs")
      BY DEF Opener
    <3>. QED
      BY <2>1, <2>3, <3>1, <3>2, <3>3 DEF Formed, Outside, Starting
  <2>7. "key" \notin Outside /\ "pairs" \notin Outside /\ Lowest \in Nat
    BY DEF Outside, Starting, Lowest
  <2>. QED
    BY <1>2, <2>2, <2>3, <2>4, <2>5, <2>6, <2>7, EnterCalls
<1>3. CASE Resuming("key") /\ Peek # ":" /\ Error
  BY <1>3, ErrorLater DEF Error
<1>4. CASE /\ Resuming("key") /\ Peek = ":"
           /\ Advance /\ Silent
           /\ Calls(Expression(Lowest),
                    [Top EXCEPT !.at = "value", !.list = Append(@, result)])
  <2>. DEFINE more == Append(Top.list, result)
              g == [Top EXCEPT !.at = "value", !.list = more]
  <2>1. Top.at = "key" /\ calls # <<>> /\ Begins(Top) /\ Top \in Frames /\ result \in Nat /\ Top.list \in Lists
    BY <1>4, ReturnedNow, NowFacts DEF Resuming, Begins
  <2>2. /\ calls' = <<Called("expr", Lowest, Invalid, Len(input')), g>> \o Tail(calls)
        /\ result' = Pending /\ UNCHANGED <<nodes, extra, language>>
    BY <1>4 DEF Calls, Expression, Silent
  <2>3. more \in Lists /\ Len(more) = Len(Top.list) + 1 /\ Len(Top.list) \in Nat
    BY <2>1, Appends, LengthOf
  <2>4. g = AtList(Top, "value", more) /\ more = Append(Top.list, result)
    BY DEF AtList
  <2>. HIDE DEF g, more
  <2>5. Same(g, Top) /\ g.at = "value" /\ g.node = Top.node /\ g.list = more
    <3>1. "value" \in Points
      BY DEF Points
    <3>2. Begins(Top) /\ more \in Lists
      BY <2>1, <2>3
    <3>3. g = AtList(Top, "value", more)
      BY <2>4
    <3>. QED
      BY <3>1, <3>2, <3>3, FrameList
  <2>6. Held(g) = Held(Top) \o <<result>>
    BY <2>1, <2>4, <2>5, HeldAppends
  <2>7. Skips(input', input)
    <3>1. Peek # "eof" /\ Peek \in Punctuation
      BY <1>4 DEF Punctuation
    <3>. QED
      BY <1>4, <2>2, <3>1, AdvancesBy
  <2>8. Formed(g, nodes, input')
    <3>1. Formed(Top, nodes, input')
      BY <2>1, <2>7, FormedNow
    <3>2. g.token = Top.token /\ g.first = Top.first
      BY <2>5 DEF Same
    <3>3. Opener("key") = Opener("value")
      BY DEF Opener
    <3>4. Len(Top.list) % 2 = 0
      BY <2>1, <3>1 DEF Formed
    <3>5. Len(g.list) % 2 = 1
      BY <2>3, <2>5, <3>4, Odd
    <3>. QED
      BY <2>1, <2>5, <3>1, <3>2, <3>3, <3>5 DEF Formed, Outside, Starting
  <2>9. "key" \notin Outside /\ "value" \notin Outside /\ Lowest \in Nat /\ Returned("key")
    BY <1>4 DEF Outside, Starting, Lowest, Resuming
  <2>. QED
    BY <2>2, <2>5, <2>6, <2>7, <2>8, <2>9, ResumeCalls
<1>5. CASE KeepElement("value", "pairs")
  BY <1>5, KeepElementWhole
<1>6. CASE /\ Closing("pairs", "}")
           /\ extra' = extra \o Top.list
           /\ ReturnNode("map", Start, Len(Top.list) \div 2)
  <2>1. Closes("pairs", "}", "map")
    BY DEF Closes
  <2>2. Top.at = "pairs" /\ calls # <<>>
    BY <1>6 DEF Closing, Entering
  <2>3. Len(Top.list) \in Nat /\ Len(Top.list) % 2 = 0
    <3>1. Formed(Top, nodes, input) /\ Top.list \in Lists
      BY <2>2, NowFacts
    <3>. QED
      BY <2>2, <3>1, LengthOf DEF Formed
  <2>4. Len(Top.list) \div 2 \in Nat /\ Counts(Len(Top.list) \div 2, "map", Top.list)
    BY <2>3, Even DEF Counts
  <2>. QED
    BY <1>6, <2>1, <2>4, ListWhole
<1>. QED
  BY <1>1, <1>2, <1>3, <1>4, <1>5, <1>6 DEF ParseMap

\* A list that may be empty is written with its length.
Written(list, from, more, at) ==
    IF list = <<>> THEN more = <<>> /\ at = Invalid ELSE more = Counted(list) /\ at = Len(from) + 1

Lies(from, at) == at # Invalid => at <= Len(from) /\ at + from[at] <= Len(from)

LEMMA WrittenIs ==
    ASSUME NEW from \in Lists, NEW list \in Lists, NEW more, NEW at, Written(list, from, more, at)
    PROVE  /\ Counting(from \o more, at) = list /\ more \in Lists /\ at \in Nat
           /\ Lies(from \o more, at)
<1>1. CASE list = <<>>
  <2>1. <<>> \in Lists
    BY DEF Lists
  <2>. QED
    BY <1>1, <2>1 DEF Written, Counting, Invalid, Lies
<1>2. CASE list # <<>>
  BY <1>2, CountedLast DEF Written, Lies
<1>. QED
  BY <1>1, <1>2

LEMMA KidsOfCall ==
    ASSUME NEW from \in Lists, NEW list \in Lists, NEW more, NEW new \in Trees, new.tag = "call",
           NEW at, new.rhs = at, Written(list, from, more, at)
    PROVE  Kids(new, from \o more) = <<new.lhs>> \o list /\ Stored(new, from \o more) /\ more \in Lists
<1>. DEFINE long == from \o more
<1>1. /\ Counting(long, at) = list /\ more \in Lists
      /\ Lies(long, at)
  BY WrittenIs
<1>. HIDE DEF long
<1>2. Kids(new, long) = <<new.lhs>> \o Counting(long, new.rhs)
  BY DEF Kids, Operators
<1>3. Stored(new, long)
  BY <1>1 DEF Stored, Lies
<1>. QED
  BY <1>1, <1>2, <1>3 DEF long

LEMMA KidsOfFunction ==
    ASSUME NEW from \in Lists, NEW list \in Lists, NEW more, NEW new \in Trees, new.tag = "function",
           NEW at, new.lhs = at, Written(list, from, more, at)
    PROVE  Kids(new, from \o more) = list \o <<new.rhs>> /\ Stored(new, from \o more) /\ more \in Lists
<1>. DEFINE long == from \o more
<1>1. /\ Counting(long, at) = list /\ more \in Lists
      /\ Lies(long, at)
  BY WrittenIs
<1>. HIDE DEF long
<1>2. Kids(new, long) = Append(Counting(long, new.lhs), new.rhs)
  BY DEF Kids, Operators
<1>3. Stored(new, long)
  BY <1>1 DEF Stored, Lies
<1>4. new.rhs \in Nat
  BY DEF Trees
<1>5. Append(list, new.rhs) = list \o <<new.rhs>>
  BY <1>4, Appends
<1>. QED
  BY <1>1, <1>2, <1>3, <1>5 DEF long

\* A call, whose arguments are written.
CallEnds(list, at) ==
    /\ ReturnNode("call", Top.node, at)
    /\ \E more : Written(list, extra, more, at) /\ extra' = extra \o more

LEMMA CallWhole ==
    ASSUME Fine, Closing("arguments", ")"), NEW at \in Nat, CallEnds(Top.list, at)
    PROVE  Whole'
<1>1. /\ Skips(input', input) /\ Entering("arguments") /\ Len(input') \in Nat \ {0}
  <2>1. ")" \in Punctuation
    BY DEF Punctuation
  <2>. QED
    BY <2>1, ClosingSkips
<1>2. /\ Standing(nodes, extra, Top, Tail(calls), Invalid, input) /\ Top.at = "arguments" /\ calls # <<>>
  BY <1>1, EnteringNow
<1>3. Formed(Top, nodes, input) /\ extra \in Lists /\ Top.list \in Lists
  BY <1>2, NowFacts
<1>4. Begins(Top) /\ Top.node \in Nat
  BY <1>2, NowFacts
<1>5. Top.node # Invalid
  BY <1>2, <1>3 DEF Formed
<1>6. PICK more : Written(Top.list, extra, more, at) /\ extra' = extra \o more
  BY DEF CallEnds
<1>7. "call" \in Tags
  BY DEF Tags
<1>. DEFINE new == Node("call", Top.node, at)
<1>8. new \in Trees /\ new.tag = "call" /\ new.lhs = Top.node /\ new.rhs = at
  BY <1>1, <1>4, <1>7, NodeIs
<1>9. new = Node("call", Top.node, at)
  OBVIOUS
<1>. HIDE DEF new
<1>11. Kids(new, extra') = <<new.lhs>> \o Top.list /\ Stored(new, extra') /\ more \in Lists
  <2>1. extra' = extra \o more
    BY <1>6
  <2>2. Written(Top.list, extra, more, at) /\ extra \in Lists /\ Top.list \in Lists
    BY <1>3, <1>6
  <2>3. new \in Trees /\ new.tag = "call" /\ new.rhs = at
    BY <1>8
  <2>4. Kids(new, extra \o more) = <<new.lhs>> \o Top.list /\ Stored(new, extra \o more) /\ more \in Lists
    BY <2>2, <2>3, KidsOfCall
  <2>. QED
    BY <2>1, <2>4
<1>12. Held(Top) = <<Top.node>> \o Top.list
  BY <1>2, <1>5, HeldPlain DEF Present
<1>13. <<Top.node>> \o Top.list \in Lists
  <2>1. <<Top.node>> \in Lists
    BY <1>4 DEF Lists
  <2>. QED
    BY <1>3, <2>1, Joined
<1>14. Held(Top) \o Present(Invalid) = Held(Top)
  BY <1>12, <1>13, ConcatEmptySeq DEF Lists, Present
<1>15. Kids(new, extra') = Held(Top) \o Present(Invalid)
  BY <1>8, <1>11, <1>12, <1>14
<1>16. input[Top.token] \in Punctuation /\ Top.at \notin Outside
  BY <1>2, <1>3 DEF Formed, Opener, Punctuation, Outside, Starting
<1>17. ReturnNode("call", Top.node, at)
  BY DEF CallEnds
<1>. QED
  BY <1>1, <1>2, <1>4, <1>6, <1>7, <1>9, <1>11, <1>15, <1>16, <1>17, NodeLater

LEMMA ParseCallWhole ==
    ASSUME Fine, ParseCall
    PROVE  Whole'
<1>1. CASE /\ Entering("binary") /\ Peek = "("
           /\ Advance /\ GoesTo("arguments")
           /\ Silent /\ UNCHANGED result
  <2>1. Peek \in Opener("arguments") /\ Peek # "eof" /\ Opens("binary", "arguments")
    BY <1>1 DEF Opener, Opens
  <2>. QED
    BY <1>1, <2>1, OpenGoes
<1>2. CASE NextElement("arguments", ")", Expression(Lowest))
  BY <1>2, NextElementWhole DEF NextElement, Expression, Lowest
<1>3. CASE KeepElement("arguments", "arguments")
  BY <1>3, KeepElementWhole
<1>4. CASE /\ Closing("arguments", ")")
           /\ IF Top.list = <<>>
              THEN UNCHANGED extra /\ ReturnNode("call", Top.node, Invalid)
              ELSE /\ extra' = extra \o Counted(Top.list)
                   /\ ReturnNode("call", Top.node, Start)
  <2>1. extra \in Lists
    BY <1>4, NowFacts DEF Closing, Entering
  <2>2. Start = Len(extra) + 1 /\ Start \in Nat /\ extra \o <<>> = extra /\ Invalid \in Nat
    BY <2>1, StartIs, ConcatEmptySeq DEF Lists, Invalid
  <2>3. CASE Top.list = <<>>
    <3>1. Written(Top.list, extra, <<>>, Invalid) /\ extra' = extra \o <<>>
      BY <1>4, <2>2, <2>3 DEF Written
    <3>2. CallEnds(Top.list, Invalid)
      BY <1>4, <2>3, <3>1 DEF CallEnds
    <3>. QED
      BY <1>4, <2>2, <3>2, CallWhole
  <2>4. CASE Top.list # <<>>
    <3>1. Written(Top.list, extra, Counted(Top.list), Start) /\ extra' = extra \o Counted(Top.list)
      BY <1>4, <2>2, <2>4 DEF Written
    <3>2. CallEnds(Top.list, Start)
      BY <1>4, <2>4, <3>1 DEF CallEnds
    <3>. QED
      BY <1>4, <2>2, <3>2, CallWhole
  <2>. QED
    BY <2>3, <2>4
<1>. QED
  BY <1>1, <1>2, <1>3, <1>4 DEF ParseCall

\* What a function called returned is returned.
LEMMA PassedOn ==
    ASSUME Fine, NEW at \in {"parentheses", "lhs"}, Returned(at), Skips(input', input),
           UNCHANGED <<nodes, extra>>, Return(result)
    PROVE  Whole'
<1>. DEFINE f == Top
            rest == Tail(calls)
            g == [f EXCEPT !.at = "lhs"]
<1>1. /\ Standing(nodes, extra, f, rest, result, input) /\ f.at = at /\ calls # <<>>
      /\ result # Invalid /\ result \in Nat
  BY ReturnedNow
<1>2. calls' = rest /\ result' = result /\ f = Top
  BY DEF Return
<1>. HIDE DEF f, rest
<1>3. /\ Rooted(nodes, extra, f, rest, result, input) /\ Formed(f, nodes, input) /\ Begins(f)
      /\ Len(input) \in Nat \ {0} /\ Spans(nodes, Len(input)) /\ nodes \in Woods /\ rest \in Stacks
      /\ ForestOf(nodes, extra, f, rest, result, Len(input)) /\ f \in Frames
      /\ Kept(nodes, Own(f) \cup Begun(rest), input)
  BY <1>1 DEF Standing, Rooted, Begins
<1>4. Follows(input', input) /\ Len(input') \in Nat /\ Len(input) <= Len(input')
  BY <1>3, SkipsFollows DEF Follows
<1>5. Same(g, f) /\ g.at = "lhs" /\ g.node = f.node /\ g.list = f.list
  <2>1. "lhs" \in Points
    BY DEF Points
  <2>. QED
    BY <1>3, <2>1, FrameAt
<1>6. g = [f EXCEPT !.at = "lhs"]
  OBVIOUS
<1>. HIDE DEF g
<1>7. f.node = Invalid /\ f.list = <<>>
  BY <1>1, <1>3 DEF Formed
<1>8. Held(f) = <<>> /\ Held(g) = <<>>
  BY <1>1, <1>5, <1>7, HeldNothing
<1>9. Begins(g) /\ g.first = f.first /\ g.at \in Outside /\ Reach(g) = f.first
  BY <1>5 DEF Same, Outside, Reach
<1>10. /\ f.first <= Reach(f) /\ Reach(f) <= Len(input) /\ Reach(f) <= nodes[result].first
       /\ Reach(f) \in Nat /\ f.first \in Nat /\ nodes[result].first \in Nat
  BY <1>1, <1>3, TreeFacts, ReachIsToken DEF ForestOf, Holds, Precedes
<1>11. g.first <= Reach(g) /\ Reach(g) <= Len(input') /\ Reach(g) <= nodes[result].first
  BY <1>3, <1>4, <1>9, <1>10
<1>12. Formed(g, nodes, input')
  BY <1>5, <1>7 DEF Formed, Outside
<1>13. Kept(nodes, Own(g) \cup Begun(rest), input')
  <2>. DEFINE begun == Own(f) \cup Begun(rest)
              left == Own(g) \cup Begun(rest)
  <2>1. Kept(nodes, begun, input)
    BY <1>3
  <2>2. left \subseteq begun /\ \A t \in begun \ left : t \in Own(f)
    BY <1>9 DEF Own
  <2>3. \A t \in Own(f) : input[t] \in Punctuation
    BY <1>1, <1>3 DEF Own, Formed, Outside, Opener, Punctuation
  <2>. HIDE DEF begun, left
  <2>4. Kept(nodes, left, input)
    BY <2>1, <2>2, <2>3, KeptDrops
  <2>5. Kept(nodes, left, input')
    BY <1>3, <2>4, KeptSkips
  <2>. QED
    BY <2>5 DEF left
<1>14. Standing(nodes, extra, g, rest, result, input')
  <2>1. g.at # "program"
    BY <1>5
  <2>. QED
    BY <1>1, <1>4, <1>8, <1>9, <1>11, <1>12, <1>13, <2>1, StandingMoves
<1>15. Left(nodes, extra, rest, result, input')
  BY <1>8, <1>9, <1>14, StandingLeaves
<1>. QED
  BY <1>1, <1>2, <1>3, <1>15, LeavesLater

LEMMA ParseIdentifierWhole ==
    ASSUME Fine, ParseIdentifier
    PROVE  Whole'
<1>1. /\ Standing(nodes, extra, Top, Tail(calls), Invalid, input) /\ Top.at = "unary" /\ calls # <<>>
  BY EnteringNow DEF ParseIdentifier
<1>2. Top.token = Len(input)
  BY <1>1, NowFacts DEF Starting
<1>3. Len(input') = Len(input) + 1 /\ \A t \in 1 .. Len(input) : input'[t] = input[t]
  BY AdvancesBy DEF ParseIdentifier, Stays
<1>4. "identifier" \in Leaves /\ input[Len(input)] = "identifier" /\ UNCHANGED extra
      /\ ReturnNode("identifier", Invalid, Invalid)
  BY DEF Leaves, ParseIdentifier, Peek, Stays
<1>. QED
  BY <1>1, <1>2, <1>3, <1>4, LeafLater

LEMMA ParseLiteralWhole ==
    ASSUME Fine, ParseLiteral
    PROVE  Whole'
<1>1. CASE reported'
  BY <1>1, ErrorLater
<1>2. CASE ~reported'
  <2>1. /\ Standing(nodes, extra, Top, Tail(calls), Invalid, input) /\ Top.at = "unary" /\ calls # <<>>
    BY EnteringNow DEF ParseLiteral
  <2>2. Top.token = Len(input)
    BY <2>1, NowFacts DEF Starting
  <2>3. Len(input') = Len(input) + 1 /\ \A t \in 1 .. Len(input) : input'[t] = input[t]
    BY AdvancesBy DEF ParseLiteral
  <2>4. "literal" \in Leaves /\ input[Len(input)] = "literal" /\ UNCHANGED extra
        /\ ReturnNode("literal", Invalid, Invalid)
    BY <1>2 DEF Leaves, ParseLiteral, Peek
  <2>. QED
    BY <2>1, <2>2, <2>3, <2>4, LeafLater
<1>. QED
  BY <1>1, <1>2

LEMMA ParseParenthesesWhole ==
    ASSUME Fine, ParseParentheses
    PROVE  Whole'
<1>1. CASE /\ Entering("unary") /\ Peek = "("
           /\ Advance /\ Silent
           /\ Calls(Expression(Lowest), [Top EXCEPT !.at = "parentheses"])
  <2>1. /\ Peek \in Opener("parentheses") /\ Peek # "eof" /\ Opens("unary", "parentheses")
        /\ Lowest \in Nat
    BY <1>1 DEF Opener, Opens, Lowest
  <2>. QED
    BY <1>1, <2>1, OpenCalls
<1>2. CASE Resuming("parentheses") /\ Peek # ")" /\ Error
  BY <1>2, ErrorLater DEF Error
<1>3. CASE /\ Resuming("parentheses") /\ Peek = ")"
           /\ Advance /\ Silent
           /\ Return(result)
  <2>1. Peek # "eof" /\ Peek \in Punctuation
    BY <1>3 DEF Punctuation
  <2>2. UNCHANGED <<language, nodes, extra>>
    BY <1>3 DEF Silent
  <2>3. Skips(input', input)
    BY <1>3, <2>1, <2>2, AdvancesBy
  <2>. QED
    BY <1>3, <2>2, <2>3, PassedOn DEF Resuming
<1>. QED
  BY <1>1, <1>2, <1>3 DEF ParseParentheses

\* One operator and what it is of.
LEMMA OperandWhole ==
    ASSUME Fine, NEW at \in {"operand", "returned"}, Returned(at), UNCHANGED <<input, extra>>,
           NEW tag \in {"neg", "not", "return"}, ReturnNode(tag, Invalid, result),
           tag \in TagOf(input[Top.token])
    PROVE  Whole'
<1>1. /\ Standing(nodes, extra, Top, Tail(calls), result, input) /\ Top.at = at /\ calls # <<>>
      /\ result # Invalid /\ result \in Nat
  BY ReturnedNow
<1>2. Begins(Top) /\ Len(input') \in Nat \ {0} /\ extra \in Lists
  BY <1>1, NowFacts
<1>3. tag \in Tags /\ Invalid \in Nat
  BY DEF Tags, Invalid
<1>4. Formed(Top, nodes, input)
  BY <1>1, NowFacts
<1>. DEFINE new == Node(tag, Invalid, result)
<1>5. new = Node(tag, Invalid, result)
  OBVIOUS
<1>. HIDE DEF new
<1>6. new \in Trees /\ new.tag = tag /\ new.rhs = result
  BY <1>1, <1>2, <1>3, <1>5, NodeMade
<1>7. Held(Top) = <<>>
  <2>1. at = "operand" \/ at = "returned"
    OBVIOUS
  <2>2. Top.node = Invalid /\ Top.list = <<>>
    BY <1>1, <1>4, <2>1 DEF Formed
  <2>. QED
    BY <1>1, <2>1, <2>2, HeldNothing
<1>8. Kids(new, extra') = Held(Top) \o Present(result) /\ Stored(new, extra')
  BY <1>1, <1>6, <1>7, KidsOfOne DEF Present
<1>9. <<>> \in Lists /\ extra' = extra \o <<>>
  BY <1>2, ConcatEmptySeq DEF Lists
<1>10. Skips(input', input) /\ Top.at \notin Outside
  BY <1>1, StillSkips DEF Outside, Starting
<1>. QED
  BY <1>1, <1>3, <1>5, <1>8, <1>9, <1>10, NodeLater

LEMMA ParseUnaryOpWhole ==
    ASSUME Fine, ParseUnaryOp
    PROVE  Whole'
<1>1. CASE /\ Entering("unary") /\ Peek \in Prefixes
           /\ Advance /\ Silent
           /\ Calls(Expression(Prefix), [Top EXCEPT !.at = "operand"])
  <2>1. /\ Peek \in Opener("operand") /\ Peek # "eof" /\ Opens("unary", "operand")
        /\ Prefix \in Nat
    BY <1>1 DEF Opener, Opens, Prefix, Prefixes
  <2>. QED
    BY <1>1, <2>1, OpenCalls
<1>2. CASE /\ Resuming("operand")
           /\ UNCHANGED input /\ Stays
           /\ ReturnNode(IF input[Top.token] = "-" THEN "neg" ELSE "not", Invalid, result)
  <2>. DEFINE tag == IF input[Top.token] = "-" THEN "neg" ELSE "not"
  <2>1. Returned("operand") /\ Top.at = "operand" /\ calls # <<>>
    BY <1>2 DEF Resuming, Returned
  <2>2. input[Top.token] \in {"-", "!"}
    <3>1. Formed(Top, nodes, input)
      BY <2>1, NowFacts
    <3>. QED
      BY <2>1, <3>1 DEF Formed, Opener, Prefixes, Outside, Starting
  <2>3. tag \in TagOf(input[Top.token]) /\ tag \in {"neg", "not", "return"}
    BY <2>2 DEF TagOf
  <2>4. UNCHANGED <<input, extra>> /\ ReturnNode(tag, Invalid, result)
    BY <1>2 DEF Stays
  <2>. HIDE DEF tag
  <2>. QED
    BY <2>1, <2>3, <2>4, OperandWhole
<1>. QED
  BY <1>1, <1>2 DEF ParseUnaryOp

--------------------------------------------------------------------------------
(* Two nodes in a step *)

LEMMA PushTwo ==
    ASSUME nodes \in Woods, NEW a \in Trees, NEW b \in Trees, ReturnNodes(<<a, b>>)
    PROVE  /\ nodes' = (nodes \o <<a>>) \o <<b>> /\ calls' = Tail(calls)
           /\ result' = Len(nodes \o <<a>>) + 1
           /\ Len(nodes \o <<a>>) = Len(nodes) + 1 /\ Len(nodes) \in Nat /\ nodes \o <<a>> \in Woods
<1>1. <<a>> \in Seq(Trees) /\ <<b>> \in Seq(Trees) /\ nodes \in Seq(Trees)
  BY DEF Woods
<1>2. <<a, b>> = <<a>> \o <<b>> /\ Len(<<a, b>>) = 2 /\ Len(<<a>>) = 1
  BY Pair
<1>3. (nodes \o <<a>>) \o <<b>> = nodes \o (<<a>> \o <<b>>)
  BY <1>1, ConcatAssociative
<1>. HIDE DEF Trees
<1>4. nodes \o <<a>> \in Seq(Trees) /\ Len(nodes \o <<a>>) = Len(nodes) + 1 /\ Len(nodes) \in Nat
  BY <1>1, <1>2, ConcatProperties
<1>5. nodes' = nodes \o <<a, b>> /\ result' = Len(nodes) + Len(<<a, b>>) /\ calls' = Tail(calls)
  BY DEF ReturnNodes, Push, Return
<1>. QED
  BY <1>2, <1>3, <1>4, <1>5 DEF Woods

\* The activation builds its node after another.
LEMMA LastLater ==
    ASSUME NEW tree, NEW g, NEW rest, NEW given, Begins(Top), g.token = Top.token, g.first = Top.first,
           Standing(tree, extra, g, rest, given, input'), g.token < Len(input'),
           NEW tag \in Tags, NEW lhs \in Nat, NEW rhs \in Nat, NEW new, new = Node(tag, lhs, rhs),
           NEW more \in Lists, extra' = extra \o more,
           Kids(new, extra') = Held(g) \o Present(given), Stored(new, extra'),
           Kept(tree \o <<new>>, Begun(rest), input'),
           nodes' = tree \o <<new>>, calls' = rest, result' = Len(tree) + 1
    PROVE  Whole'
<1>1. /\ Rooted(tree, extra, g, rest, given, input') /\ Formed(g, tree, input')
      /\ Len(input') \in Nat \ {0} /\ rest \in Stacks /\ Len(tree) \in Nat
  BY TreeFacts DEF Standing, Rooted
<1>2. /\ new \in Trees /\ new.source = g.token /\ new.first = g.first /\ new.last = Len(input') - 1
  BY <1>1, NodeIs
<1>3. g.at \in {"colon", "end"} => g.list # <<>>
  BY <1>1 DEF Formed
<1>4. Left(tree \o <<new>>, extra \o more, rest, Len(tree) + 1, input')
  <2>1. Kids(new, extra \o more) = Held(g) \o Present(given) /\ Stored(new, extra \o more)
    OBVIOUS
  <2>. QED
    BY <1>1, <1>2, <1>3, <2>1, BuildsLast
<1>5. Len(tree) + 1 \in Nat /\ Len(tree) + 1 # Invalid
  BY <1>1 DEF Invalid
<1>. QED
  BY <1>1, <1>4, <1>5, LeavesLater

\* A name is read and becomes a node, inside an activation.
LEMMA IdentifierStands ==
    ASSUME Fine, NEW at \in {"parameters", "member"}, Entering(at), Peek = "identifier",
           Advance, UNCHANGED language,
           NEW g, Same(g, Top), g.at \notin Outside \cup {"arrow"}, Held(g) = Held(Top),
           NEW new, new = NodeAt(Len(input), "identifier", Invalid, Invalid),
           Formed(Top, nodes \o <<new>>, input') => Formed(g, nodes \o <<new>>, input')
    PROVE  /\ Standing(nodes \o <<new>>, extra, g, Tail(calls), Len(nodes) + 1, input')
           /\ new \in Trees /\ nodes \in Woods
<1>. DEFINE f == Top
            rest == Tail(calls)
<1>1. /\ Standing(nodes, extra, f, rest, Invalid, input) /\ f.at = at /\ calls # <<>>
  BY EnteringNow
<1>2. /\ Rooted(nodes, extra, f, rest, Invalid, input) /\ Formed(f, nodes, input) /\ Begins(f)
      /\ Len(input) \in Nat \ {0} /\ Spans(nodes, Len(input)) /\ nodes \in Woods /\ rest \in Stacks
      /\ ForestOf(nodes, extra, f, rest, Invalid, Len(input)) /\ f \in Frames /\ extra \in Lists
      /\ Kept(nodes, Own(f) \cup Begun(rest), input)
  BY <1>1 DEF Standing, Rooted, Begins
<1>3. Len(input') = Len(input) + 1 /\ \A t \in 1 .. Len(input) : input'[t] = input[t]
  BY AdvancesBy
<1>. HIDE DEF f, rest
<1>4. Follows(input', input) /\ Len(input') \in Nat \ {0}
  BY <1>2, <1>3 DEF Follows
<1>5. Rooted(nodes, extra, f, rest, Invalid, input')
  BY <1>2, <1>4, RootedLonger
<1>6. /\ new \in Trees /\ new.tag = "identifier" /\ new.source = Len(input) /\ new.first = Len(input)
      /\ new.last = Len(input)
  <2>1. "identifier" \in Tags /\ Invalid \in Nat /\ Len(input) \in Nat /\ Len(input') - 1 = Len(input)
    BY <1>2, <1>3 DEF Tags, Invalid
  <2>. QED
    BY SMTT(30), <1>4, <2>1, NodeAtIs
<1>7. Begins(g) /\ g.token = f.token /\ g.first = f.first /\ Held(g) = Held(f) /\ g.at \notin Outside
      /\ g.at # "arrow" /\ f.at \notin Outside /\ f.at \notin {"arrow", "colon", "end"}
  BY <1>1 DEF Same, f, Outside, Starting
<1>8. /\ f.first <= Reach(f) /\ Reach(f) <= Len(input) /\ f.token < Len(input)
      /\ Reach(f) \in Nat /\ f.first \in Nat /\ f.token \in Nat
  BY <1>2, <1>7, ReachFormed
<1>9. Reach(g) = Reach(f)
  BY <1>7 DEF Reach
<1>10. /\ g.first <= Reach(g) /\ Reach(g) <= Len(input') /\ Reach(g) <= new.first
       /\ new.first <= new.last /\ new.source < Len(input') /\ new.last = Len(input') - 1
  BY <1>2, <1>3, <1>6, <1>7, <1>8, <1>9
<1>11. \A i \in DOMAIN Held(g) : nodes[Held(g)[i]].last < new.first
  <2>1. \A i \in DOMAIN Held(f) : Held(f)[i] \in DOMAIN nodes
    BY <1>2 DEF ForestOf, Holds
  <2>2. \A n \in DOMAIN nodes : nodes[n].last < Len(input)
    BY <1>2 DEF ForestOf, Trunk
  <2>. QED
    BY <1>6, <1>7, <2>1, <2>2
<1>12. <<>> \in Lists /\ extra \o <<>> = extra /\ Held(f) = Held(g) \o <<>>
  <2>1. Held(f) \in Lists /\ <<>> \in Lists
    BY <1>2, <1>7, HeldFacts DEF Lists
  <2>. QED
    BY <1>2, <1>7, <2>1, ConcatEmptySeq DEF Lists
<1>13. Kids(new, extra \o <<>>) = <<>> \o Present(Invalid) /\ Stored(new, extra \o <<>>)
  <2>1. <<>> \o <<>> = <<>> /\ Present(Invalid) = <<>>
    BY <1>12, ConcatEmptySeq DEF Lists, Present
  <2>2. Kids(new, extra) = <<>> /\ Stored(new, extra)
    BY <1>6 DEF Kids, Stored, Operators
  <2>. QED
    BY <1>12, <2>1, <2>2
<1>14. Own(g) \cup Begun(rest) = Own(f) \cup Begun(rest)
  BY <1>7 DEF Own
<1>15. Kept(nodes \o <<new>>, Own(g) \cup Begun(rest), input')
  <2>1. \A t \in Own(f) \cup Begun(rest) : t < Len(input)
    BY <1>2, <1>8, OwnApart DEF Own
  <2>2. input[Len(input)] = "identifier" /\ "identifier" \in Known /\ new.tag \in TagOf("identifier")
    BY <1>6 DEF Peek, Known, TagOf
  <2>. DEFINE begun == Own(f) \cup Begun(rest)
  <2>3. /\ Kept(nodes, begun, input) /\ \A t \in begun : t < Len(input)
    BY <1>2, <2>1
  <2>. HIDE DEF begun
  <2>4. Kept(nodes \o <<new>>, begun, input')
    BY <1>2, <1>3, <1>6, <2>2, <2>3, KeptAdds
  <2>. QED
    BY <1>14, <2>4 DEF begun
<1>16. Formed(g, nodes \o <<new>>, input')
  <2>1. \A n \in DOMAIN nodes : (nodes \o <<new>>)[n] = nodes[n]
    BY <1>2, <1>6, TreeGrows
  <2>2. Holds(f, nodes, extra, Len(input)) /\ f.first \in 1 .. f.token
    BY <1>2 DEF ForestOf, Begins
  <2>3. Formed(f, nodes \o <<new>>, input')
    BY <1>2, <1>4, <2>1, <2>2, FormedStays
  <2>. QED
    BY <2>3 DEF f
<1>17. Standing(nodes \o <<new>>, extra \o <<>>, g, rest, Len(nodes) + 1, input')
  <2>1. Invalid # Invalid => new.first <= nodes[Invalid].first
    OBVIOUS
  <2>2. \A i \in DOMAIN <<>> : new.first <= nodes[<<>>[i]].first
    OBVIOUS
  <2>3. g.at # "program"
    BY <1>7 DEF Outside
  <2>. QED
    BY <1>5, <1>6, <1>7, <1>10, <1>11, <1>12, <1>13, <1>15, <1>16, <2>1, <2>2, <2>3, StandingBuilds
<1>. QED
  BY <1>2, <1>6, <1>12, <1>17 DEF rest

--------------------------------------------------------------------------------
(* Functions and members *)

LEMMA AddedParameters ==
    ASSUME extra \in Lists, NEW list \in Lists, AddParameters(list)
    PROVE  \E more \in Lists, at \in Nat :
              /\ Written(list, extra, more, at) /\ extra' = extra \o more
              /\ \A body : FunctionNode(list, body) = Node("function", at, body)
<1>1. Start = Len(extra) + 1 /\ Start \in Nat /\ extra \o <<>> = extra /\ Invalid \in Nat /\ <<>> \in Lists
  BY StartIs, ConcatEmptySeq DEF Lists, Invalid
<1>2. CASE list = <<>>
  <2>1. Written(list, extra, <<>>, Invalid) /\ extra' = extra \o <<>>
    BY <1>1, <1>2 DEF Written, AddParameters
  <2>. QED
    BY <1>1, <1>2, <2>1 DEF FunctionNode
<1>3. CASE list # <<>>
  <2>1. Written(list, extra, Counted(list), Start) /\ extra' = extra \o Counted(list)
    BY <1>1, <1>3 DEF Written, AddParameters
  <2>2. Counted(list) \in Lists
    BY CountedLast
  <2>. QED
    BY <1>1, <1>3, <2>1, <2>2 DEF FunctionNode
<1>. QED
  BY <1>2, <1>3

LEMMA ParameterPushed ==
    ASSUME Fine, Entering("parameters"), Peek = "identifier", Advance, Stays,
           Push(<<NodeAt(Len(input), "identifier", Invalid, Invalid)>>),
           GoesTo("parameter"), UNCHANGED result
    PROVE  Whole'
<1>. DEFINE new == NodeAt(Len(input), "identifier", Invalid, Invalid)
            g == [Top EXCEPT !.at = "parameter"]
<1>1. Top.at = "parameters" /\ calls # <<>> /\ Begins(Top) /\ result = Pending
  BY EnteringNow, NowFacts
<1>2. nodes' = nodes \o <<new>> /\ calls' = <<g>> \o Tail(calls) /\ UNCHANGED <<language, extra>>
  BY DEF Push, GoesTo, Goes, Stays
<1>3. Same(g, Top) /\ g.at = "parameter" /\ g.node = Top.node /\ g.list = Top.list
  <2>1. "parameter" \in Points
    BY DEF Points
  <2>. QED
    BY <1>1, <2>1, FrameAt
<1>4. new = NodeAt(Len(input), "identifier", Invalid, Invalid)
  OBVIOUS
<1>. HIDE DEF new, g
<1>5. Held(g) = Held(Top)
  BY <1>1, <1>3, HeldPlain
<1>6. g.at \notin Outside \cup {"arrow"}
  BY <1>3 DEF Outside, Starting
<1>7. Formed(Top, nodes \o <<new>>, input') => Formed(g, nodes \o <<new>>, input')
  <2>1. g.token = Top.token /\ g.first = Top.first
    BY <1>3 DEF Same
  <2>2. Opener("parameter") = Opener("parameters")
    BY DEF Opener
  <2>. QED
    BY <1>1, <1>3, <2>1, <2>2 DEF Formed, Outside, Starting
<1>8. /\ Standing(nodes \o <<new>>, extra, g, Tail(calls), Len(nodes) + 1, input')
      /\ new \in Trees /\ nodes \in Woods
  <2>1. "parameters" \in {"parameters", "member"} /\ UNCHANGED language
    BY <1>2
  <2>. QED
    BY <1>3, <1>4, <1>5, <1>6, <1>7, <2>1, IdentifierStands
<1>9. Len(nodes') = Len(nodes) + 1 /\ Len(nodes) \in Nat /\ nodes' # <<>>
  <2>1. Len(nodes \o <<new>>) = Len(nodes) + 1 /\ Len(nodes) \in Nat
    BY <1>8, TreeGrows
  <2>. QED
    BY <1>2, <2>1
<1>10. Given' = Len(nodes) + 1
  <2>1. g \in Frames /\ Tail(calls) \in Stacks
    BY <1>3, <1>8 DEF Same, Begins, Standing, Rooted
  <2>2. calls' # <<>> /\ calls'[1] = g
    BY <1>2, <2>1, Stacked
  <2>. QED
    BY <1>3, <1>9, <2>2 DEF Given, Top
<1>11. Standing(nodes', extra', g, Tail(calls), Given', input')
  BY <1>2, <1>8, <1>10
<1>12. result' # Invalid /\ result' = Pending
  BY <1>1 DEF Pending, Invalid
<1>. QED
  BY <1>2, <1>9, <1>11, <1>12, StandingLater

LEMMA ParameterKept ==
    ASSUME Fine, Entering("parameter"), SkipComma, Keep(Len(nodes), "parameters")
    PROVE  Whole'
<1>1. CASE reported'
  BY <1>1, ErrorLater
<1>2. CASE ~reported'
  <2>. DEFINE n == Len(nodes)
              more == Append(Top.list, n)
              g == [Top EXCEPT !.at = "parameters", !.list = more]
  <2>1. Top.at = "parameter" /\ calls # <<>> /\ result = Pending
    BY DEF Entering
  <2>2. Standing(nodes, extra, Top, Tail(calls), Given, input) /\ nodes # <<>>
    BY <2>1, StandingNow DEF Fine
  <2>3. Given = n
    BY <2>1 DEF Given
  <2>4. Begins(Top) /\ Top.list \in Lists /\ Top \in Frames /\ nodes \in Woods /\ n \in Nat
    BY <2>1, NowFacts DEF Begins
  <2>5. n # Invalid
    BY <2>2, <2>4 DEF Woods, Invalid
  <2>6. calls' = <<g>> \o Tail(calls) /\ result' = Pending /\ UNCHANGED <<nodes, extra, language>>
    BY <1>2 DEF Keep, Goes
  <2>7. g = AtList(Top, "parameters", more) /\ more = Append(Top.list, n)
    BY DEF AtList
  <2>. HIDE DEF n, more, g
  <2>8. more \in Lists
    BY <2>4, <2>7, Appends
  <2>9. Same(g, Top) /\ g.at = "parameters" /\ g.node = Top.node /\ g.list = more
    <3>1. "parameters" \in Points
      BY DEF Points
    <3>2. Begins(Top) /\ g = AtList(Top, "parameters", more)
      BY <2>4, <2>7
    <3>. QED
      BY <2>8, <3>1, <3>2, FrameList
  <2>10. Held(g) = Held(Top) \o <<n>>
    BY <2>1, <2>4, <2>7, <2>9, HeldAppends
  <2>11. Skips(input', input)
    BY <2>6, SkipsComma1
  <2>12. Formed(g, nodes, input')
    <3>1. Formed(Top, nodes, input')
      BY <2>1, <2>11, FormedNow
    <3>2. g.token = Top.token /\ g.first = Top.first
      BY <2>9 DEF Same
    <3>3. Opener("parameter") = Opener("parameters")
      BY DEF Opener
    <3>. QED
      BY <2>1, <2>9, <3>1, <3>2, <3>3 DEF Formed, Outside, Starting
  <2>13. Begins(g) /\ g.token = Top.token /\ g.first = Top.first
    BY <2>9 DEF Same
  <2>14. g.at \notin Outside /\ Top.at \notin Outside /\ g.at # "parameter"
    BY <2>1, <2>9 DEF Outside, Starting
  <2>15. Standing(nodes, extra, Top, Tail(calls), n, input)
    BY <2>2, <2>3
  <2>16. Standing(nodes, extra, g, Tail(calls), Invalid, input')
    BY <2>5, <2>10, <2>11, <2>12, <2>13, <2>14, <2>15, StandingKeeps
  <2>. QED
    BY <2>6, <2>14, <2>16, GoesLater
<1>. QED
  BY <1>1, <1>2

LEMMA ArrowBegins ==
    ASSUME Fine, Entering("parameters"), Peek = "=>", Advance, Silent,
           Calls(Expression(Lowest), [Top EXCEPT !.at = "arrow", !.node = Len(input)])
    PROVE  Whole'
<1>. DEFINE t == Len(input)
            g == [Top EXCEPT !.at = "arrow", !.node = t]
<1>1. Top.at = "parameters" /\ calls # <<>> /\ Standing(nodes, extra, Top, Tail(calls), Invalid, input)
  BY EnteringNow
<1>2. /\ calls' = <<Called("expr", Lowest, Invalid, Len(input')), g>> \o Tail(calls)
      /\ result' = Pending /\ UNCHANGED <<nodes, extra, language>>
  BY DEF Calls, Expression, Silent
<1>3. g = AtNode(Top, "arrow", t) /\ t = Len(input) /\ input[t] = "=>"
  BY DEF AtNode, Peek
<1>. HIDE DEF t, g
<1>4. Begins(Top) /\ Top.list \in Lists /\ t \in Nat /\ t # 0
  BY <1>1, <1>3, NowFacts
<1>5. Formed(Top, nodes, input) /\ nodes \in Woods
  BY <1>1, NowFacts
<1>6. Same(g, Top) /\ g.at = "arrow" /\ g.node = t /\ g.list = Top.list
  <2>1. "arrow" \in Points
    BY DEF Points
  <2>2. Begins(Top) /\ t \in Nat /\ g = AtNode(Top, "arrow", t)
    BY <1>3, <1>4
  <2>. QED
    BY <2>1, <2>2, FrameNode
<1>7. Top.node = Invalid
  BY <1>1, <1>5 DEF Formed
<1>8. Held(Top) = Top.list /\ Held(g) = Top.list
  BY <1>1, <1>4, <1>6, <1>7, HeldList
<1>9. Peek # "eof" /\ Peek \in Punctuation
  BY DEF Punctuation
<1>10. Skips(input', input) /\ Len(input') = t + 1 /\ input'[t] = "=>"
  <2>1. /\ Skips(input', input) /\ Len(input') = Len(input) + 1
        /\ \A u \in 1 .. Len(input) : input'[u] = input[u]
    BY <1>2, <1>9, AdvancesBy
  <2>. QED
    BY <1>3, <1>4, <2>1
<1>11. Formed(g, nodes, input')
  <2>1. Formed(Top, nodes, input')
    BY <1>1, <1>10, FormedNow
  <2>2. g.token = Top.token /\ g.first = Top.first
    BY <1>6 DEF Same
  <2>3. Opener("arrow") = Opener("parameters")
    BY DEF Opener
  <2>4. Top.token < t
    BY <1>1, <1>3, <1>5 DEF Formed, Outside, Starting
  <2>5. \A i \in DOMAIN Top.list : nodes[Top.list[i]].last < t
    <3>1. \A i \in DOMAIN Held(Top) : Held(Top)[i] \in DOMAIN nodes
      BY <1>1 DEF Standing, Rooted, ForestOf, Holds
    <3>2. \A n \in DOMAIN nodes : nodes[n].last < Len(input)
      BY <1>1 DEF Standing, Rooted, ForestOf, Trunk
    <3>. QED
      BY <1>3, <1>8, <3>1, <3>2
  <2>6. t < Len(input')
    BY <1>4, <1>10
  <2>. QED
    BY <1>1, <1>6, <1>10, <2>1, <2>2, <2>3, <2>4, <2>5, <2>6 DEF Formed, Outside, Starting
<1>12. "parameters" \notin Outside /\ g.at \notin Outside /\ g.at # "parameter" /\ Lowest \in Nat
  BY <1>6 DEF Outside, Starting, Lowest
<1>. QED
  BY <1>2, <1>6, <1>8, <1>10, <1>11, <1>12, EnterCalls

\* An activation calls what is the rest of it.
LEMMA RestCalled ==
    ASSUME Fine, NEW at, NEW to, Entering(at),
           \/ at = "parameters" /\ to = "body"
           \/ at = "index" /\ to = "start"
           \/ at = "colon" /\ to = "end"
           \/ at = "else" /\ to = "otherwise",
           Skips(input', input), UNCHANGED <<nodes, extra>>,
           NEW from \in {"expr", "stmt"},
           Calls(Called(from, Lowest, Invalid, Len(input')), [Top EXCEPT !.at = to])
    PROVE  Whole'
<1>. DEFINE g == [Top EXCEPT !.at = to]
<1>1. Top.at = at /\ calls # <<>> /\ Begins(Top)
  BY NowFacts DEF Entering
<1>2. /\ calls' = <<Called(from, Lowest, Invalid, Len(input')), g>> \o Tail(calls)
      /\ result' = Pending
  BY DEF Calls
<1>3. Same(g, Top) /\ g.at = to /\ g.node = Top.node /\ g.list = Top.list
  <2>1. to \in Points
    BY DEF Points
  <2>. QED
    BY <1>1, <2>1, FrameAt
<1>. HIDE DEF g
<1>4. Held(g) = Held(Top)
  BY <1>1, <1>3 DEF Held
<1>5. Formed(g, nodes, input')
  <2>1. Formed(Top, nodes, input')
    BY <1>1, FormedNow
  <2>2. g.token = Top.token /\ g.first = Top.first
    BY <1>3 DEF Same
  <2>3. Opener(to) = Opener(at)
    BY DEF Opener
  <2>. QED
    BY <1>1, <1>3, <2>1, <2>2, <2>3 DEF Formed, Outside, Starting
<1>6. at \notin Outside /\ g.at \notin Outside /\ g.at # "parameter" /\ at # "parameter" /\ Lowest \in Nat
  BY <1>3 DEF Outside, Starting, Lowest
<1>. QED
  BY <1>2, <1>3, <1>4, <1>5, <1>6, EnterCalls

LEMMA FunctionReturned ==
    ASSUME Fine, Resuming("body"), UNCHANGED <<language, input, reported>>,
           AddParameters(Top.list), ReturnNodes(<<FunctionNode(Top.list, result)>>)
    PROVE  Whole'
<1>1. /\ Standing(nodes, extra, Top, Tail(calls), result, input) /\ Top.at = "body" /\ calls # <<>>
      /\ result # Invalid /\ result \in Nat
  BY ReturnedNow DEF Resuming
<1>2. extra \in Lists /\ Top.list \in Lists
  BY <1>1, NowFacts
<1>3. Begins(Top) /\ Len(input') \in Nat \ {0}
  BY <1>1, NowFacts
<1>4. Formed(Top, nodes, input)
  BY <1>1, NowFacts
<1>5. PICK more \in Lists, at \in Nat :
         /\ Written(Top.list, extra, more, at) /\ extra' = extra \o more
         /\ \A body : FunctionNode(Top.list, body) = Node("function", at, body)
  BY <1>2, AddedParameters
<1>6. "function" \in Tags
  BY DEF Tags
<1>. DEFINE new == Node("function", at, result)
<1>7. new = Node("function", at, result) /\ ReturnNode("function", at, result)
  BY <1>5 DEF ReturnNode
<1>. HIDE DEF new
<1>8. new \in Trees /\ new.tag = "function" /\ new.lhs = at /\ new.rhs = result
  BY <1>1, <1>3, <1>6, <1>7, NodeMade
<1>9. Held(Top) = Top.list
  <2>1. Top.node = Invalid
    BY <1>1, <1>4 DEF Formed
  <2>. QED
    BY <1>1, <1>2, <2>1, HeldList
<1>10. Kids(new, extra') = Held(Top) \o Present(result) /\ Stored(new, extra')
  <2>1. Kids(new, extra \o more) = Top.list \o <<new.rhs>> /\ Stored(new, extra \o more)
    BY <1>2, <1>5, <1>8, KidsOfFunction
  <2>. QED
    BY <1>1, <1>5, <1>8, <1>9, <2>1 DEF Present
<1>11. Skips(input', input) /\ Top.at \notin Outside
  BY <1>1, StillSkips DEF Outside, Starting
<1>12. "function" \in TagOf(input[Top.token])
  <2>1. input[Top.token] = "fn"
    BY <1>1, <1>4 DEF Formed, Opener, Outside, Starting
  <2>. QED
    BY <2>1 DEF TagOf
<1>. QED
  BY <1>1, <1>5, <1>6, <1>7, <1>10, <1>11, <1>12, NodeLater

LEMMA ArrowReturned ==
    ASSUME Fine, Resuming("arrow"), UNCHANGED <<language, input, reported>>,
           AddParameters(Top.list),
           ReturnNodes(<<NodeAt(Top.node, "return", Invalid, result),
                         FunctionNode(Top.list, Len(nodes) + 1)>>)
    PROVE  Whole'
<1>. DEFINE f == Top
            rest == Tail(calls)
            g == [f EXCEPT !.at = "body", !.node = Invalid]
<1>1. /\ Standing(nodes, extra, f, rest, result, input) /\ f.at = "arrow" /\ calls # <<>>
      /\ result # Invalid /\ result \in Nat
  BY ReturnedNow DEF Resuming
<1>2. /\ Rooted(nodes, extra, f, rest, result, input) /\ Formed(f, nodes, input) /\ Begins(f)
      /\ Len(input) \in Nat \ {0} /\ Spans(nodes, Len(input)) /\ nodes \in Woods /\ rest \in Stacks
      /\ ForestOf(nodes, extra, f, rest, result, Len(input)) /\ f \in Frames
      /\ Kept(nodes, Own(f) \cup Begun(rest), input) /\ extra \in Lists
  BY <1>1 DEF Standing, Rooted, Begins
<1>3. f.list \in Lists /\ f.node \in Nat
  BY <1>1, NowFacts
<1>4. PICK more \in Lists, at \in Nat :
         /\ Written(f.list, extra, more, at) /\ extra' = extra \o more
         /\ \A body : FunctionNode(f.list, body) = Node("function", at, body)
  BY <1>2, <1>3, AddedParameters
<1>5. f = Top /\ rest = Tail(calls) /\ g = AtNode(f, "body", Invalid)
  BY DEF AtNode
<1>. HIDE DEF f, rest, g
<1>. DEFINE one == NodeAt(f.node, "return", Invalid, result)
            last == Len(nodes) + 1
            two == Node("function", at, last)
<1>6. /\ one \in Trees /\ one.tag = "return" /\ one.rhs = result /\ one.source = f.node
      /\ one.first = f.node /\ one.last = Len(input) - 1
  <2>1. "return" \in Tags /\ Invalid \in Nat /\ Len(input') \in Nat \ {0} /\ Len(input') = Len(input)
    BY <1>2 DEF Tags, Invalid
  <2>. QED
    BY <1>1, <1>3, <2>1 DEF NodeAt, Trees
<1>7. last \in Nat
  BY <1>2, TreeFacts
<1>8. /\ two \in Trees /\ two.tag = "function" /\ two.lhs = at /\ two.rhs = last
      /\ two.source = f.token /\ "function" \in Tags
  <2>1. "function" \in Tags /\ Len(input') \in Nat \ {0} /\ Begins(Top) /\ at \in Nat
    BY <1>2, <1>5 DEF Tags
  <2>. QED
    BY <1>5, <1>7, <2>1, NodeIs
<1>9. two = Node("function", at, last) /\ ReturnNodes(<<one, two>>) /\ last = Len(nodes) + 1
  BY <1>4, <1>5
<1>. HIDE DEF one, two, last
<1>10. Same(g, f) /\ g.at = "body" /\ g.node = Invalid /\ g.list = f.list
  <2>1. "body" \in Points /\ Invalid \in Nat
    BY DEF Points, Invalid
  <2>2. Begins(f)
    BY <1>2
  <2>. QED
    BY <1>5, <2>1, <2>2, FrameNode
<1>11. Held(f) = f.list /\ Held(g) = f.list /\ f.list \o <<>> = f.list /\ <<>> \in Lists
       /\ extra \o <<>> = extra
  <2>1. Held(f) = f.list /\ Held(g) = f.list
    BY <1>1, <1>3, <1>10, HeldList
  <2>. QED
    BY <1>2, <1>3, <2>1, ConcatEmptySeq DEF Lists
<1>12. f.token < f.node /\ f.node < Len(input) /\ input[f.node] = "=>"
       /\ \A i \in DOMAIN f.list : nodes[f.list[i]].last < f.node
  BY <1>1, <1>2 DEF Formed
<1>13. Begins(g) /\ g.token = f.token /\ g.first = f.first /\ g.at \notin Outside \cup {"arrow"}
  BY <1>10 DEF Same, Outside, Starting
<1>14. /\ f.first \in Nat /\ f.token \in Nat /\ f.first <= f.token /\ Reach(g) = f.token + 1
  <2>1. f.first \in Nat /\ f.token \in Nat /\ f.first <= f.token
    BY <1>2, OwnApart
  <2>. QED
    BY <1>13, <2>1 DEF Reach
<1>15. /\ g.first <= Reach(g) /\ Reach(g) <= Len(input) /\ Reach(g) <= one.first
       /\ one.last = Len(input) - 1 /\ one.first <= one.last /\ one.source < Len(input)
  BY <1>2, <1>3, <1>6, <1>12, <1>13, <1>14
<1>16. one.first <= nodes[result].first
  <2>1. Reach(f) = f.node + 1
    BY <1>1 DEF Reach, Outside, Starting
  <2>2. Reach(f) <= nodes[result].first /\ result \in DOMAIN nodes
    BY <1>1, <1>2 DEF ForestOf, Precedes
  <2>3. nodes[result].first \in Nat
    BY <1>2, <2>2, TreeFacts
  <2>. QED
    BY <1>3, <1>6, <2>1, <2>2, <2>3
<1>17. Kids(one, extra \o <<>>) = <<>> \o Present(result) /\ Stored(one, extra \o <<>>)
  BY <1>1, <1>6, KidsOfOne DEF Present
<1>18. Formed(g, nodes \o <<one>>, input)
  <2>1. \A n \in DOMAIN nodes : (nodes \o <<one>>)[n] = nodes[n]
    BY <1>2, <1>6, TreeGrows
  <2>2. Holds(f, nodes, extra, Len(input)) /\ f.first \in 1 .. f.token
    BY <1>2 DEF ForestOf, Begins
  <2>3. Follows(input, input)
    BY <1>2, FollowsItself
  <2>4. Formed(f, nodes \o <<one>>, input)
    BY <1>2, <2>1, <2>2, <2>3, FormedStays
  <2>5. Opener("arrow") = Opener("body")
    BY DEF Opener
  <2>. QED
    BY <1>1, <1>10, <1>13, <2>4, <2>5 DEF Formed, Outside, Starting
<1>19. Kept(nodes \o <<one>>, Own(g) \cup Begun(rest), input)
  <2>. DEFINE begun == Own(f) \cup Begun(rest)
  <2>1. Own(g) \cup Begun(rest) = begun
    BY <1>1, <1>13 DEF Own, Outside, Starting
  <2>2. \A t \in 1 .. (Len(input) - 1) : ~ Represents(one, t, input)
    BY <1>6, <1>12 DEF Represents, Punctuation
  <2>3. begun \ begun = {} /\ begun \subseteq begun
    OBVIOUS
  <2>4. Kept(nodes, begun, input)
    BY <1>2
  <2>. HIDE DEF begun
  <2>5. Kept(nodes \o <<one>>, begun, input)
    BY <1>2, <1>6, <2>2, <2>3, <2>4, KeptBuilds
  <2>. QED
    BY <2>1, <2>5
<1>20. \A i \in DOMAIN Held(g) : nodes[Held(g)[i]].last < one.first
  BY <1>6, <1>11, <1>12
<1>21. Held(f) = Held(g) \o <<>>
  BY <1>11
<1>22. \A i \in DOMAIN <<>> : one.first <= nodes[<<>>[i]].first
  OBVIOUS
<1>23. Standing(nodes \o <<one>>, extra \o <<>>, g, rest, last, input)
  <2>1. result # Invalid => one.first <= nodes[result].first
    BY <1>16
  <2>2. Begins(g) /\ g.first = f.first /\ g.at # "program"
    BY <1>10, <1>13
  <2>. QED
    BY <1>2, <1>6, <1>9, <1>11, <1>15, <1>17, <1>18, <1>19, <1>20, <1>21, <1>22, <2>1, <2>2, StandingBuilds
<1>. DEFINE tree == nodes \o <<one>>
<1>24. Standing(tree, extra, g, rest, last, input')
  BY <1>11, <1>23
<1>25. /\ nodes' = tree \o <<two>> /\ calls' = rest /\ result' = Len(tree) + 1 /\ Len(tree) = last
  BY <1>2, <1>5, <1>6, <1>8, <1>9, PushTwo
<1>. HIDE DEF tree
<1>26. Kids(two, extra') = Held(g) \o Present(last) /\ Stored(two, extra')
  <2>1. Kids(two, extra \o more) = f.list \o <<two.rhs>> /\ Stored(two, extra \o more)
    <3>. DEFINE list == f.list
    <3>1. Written(list, extra, more, at) /\ extra \in Lists /\ list \in Lists
      BY <1>2, <1>3, <1>4
    <3>2. two \in Trees /\ two.tag = "function" /\ two.lhs = at
      BY <1>8
    <3>. HIDE DEF list
    <3>3. Kids(two, extra \o more) = list \o <<two.rhs>> /\ Stored(two, extra \o more)
      BY <3>1, <3>2, KidsOfFunction
    <3>. QED
      BY <3>3 DEF list
  <2>2. last # Invalid
    BY <1>2, <1>9, TreeFacts DEF Invalid
  <2>. QED
    BY <1>4, <1>8, <1>11, <2>1, <2>2 DEF Present
<1>27. Kept(tree \o <<two>>, Begun(rest), input')
  <2>1. Rooted(tree, extra, g, rest, last, input') /\ Kept(tree, Own(g) \cup Begun(rest), input')
        /\ Formed(g, tree, input')
    BY <1>24 DEF Standing
  <2>2. input'[g.token] = "fn"
    BY <1>10, <1>13, <2>1 DEF Formed, Opener
  <2>3. two.tag \in TagOf(input'[g.token])
    BY <1>8, <2>2 DEF TagOf
  <2>. QED
    BY <1>8, <1>13, <2>1, <2>3, KeptCloses
<1>28. g.token < Len(input') /\ Begins(Top) /\ g.token = Top.token /\ g.first = Top.first
  <2>1. g.token < Len(input')
    BY <1>13, <1>24 DEF Standing, Formed
  <2>. QED
    BY <1>2, <1>5, <1>13, <2>1
<1>. QED
  BY <1>4, <1>7, <1>8, <1>9, <1>24, <1>25, <1>26, <1>27, <1>28, LastLater

LEMMA ParseFunctionWhole ==
    ASSUME Fine, ParseFunction
    PROVE  Whole'
<1>1. CASE /\ Entering("unary") /\ Peek = "fn"
           /\ Advance /\ GoesTo("parameters")
           /\ Silent /\ UNCHANGED result
  <2>1. Peek \in Opener("parameters") /\ Peek # "eof" /\ Opens("unary", "parameters")
    BY <1>1 DEF Opener, Opens
  <2>. QED
    BY <1>1, <2>1, OpenGoes
<1>2. CASE Entering("parameters") /\ Peek \notin {"=>", "{", "identifier"} /\ Error
  BY <1>2, ErrorLater DEF Error
<1>3. CASE /\ Entering("parameters") /\ Peek = "identifier"
           /\ Advance /\ Stays
           /\ Push(<<NodeAt(Len(input), "identifier", Invalid, Invalid)>>)
           /\ GoesTo("parameter") /\ UNCHANGED result
  BY <1>3, ParameterPushed
<1>4. CASE Entering("parameter") /\ SkipComma /\ Keep(Len(nodes), "parameters")
  BY <1>4, ParameterKept
<1>5. CASE /\ Entering("parameters") /\ Peek = "=>"
           /\ Advance /\ Silent
           /\ Calls(Expression(Lowest), [Top EXCEPT !.at = "arrow", !.node = Len(input)])
  BY <1>5, ArrowBegins
<1>6. CASE /\ Entering("parameters") /\ Peek = "{"
           /\ UNCHANGED input /\ Silent
           /\ Calls(Statement, [Top EXCEPT !.at = "body"])
  <2>1. Skips(input', input) /\ UNCHANGED <<nodes, extra>>
    BY <1>6, StillSkips DEF Silent
  <2>2. Calls(Called("stmt", Lowest, Invalid, Len(input')), [Top EXCEPT !.at = "body"])
    BY <1>6 DEF Statement
  <2>. QED
    BY <1>6, <2>1, <2>2, RestCalled
<1>7. CASE /\ Resuming("arrow")
           /\ UNCHANGED <<language, input, reported>>
           /\ AddParameters(Top.list)
           /\ ReturnNodes(<<NodeAt(Top.node, "return", Invalid, result),
                            FunctionNode(Top.list, Len(nodes) + 1)>>)
  BY <1>7, ArrowReturned
<1>8. CASE /\ Resuming("body")
           /\ UNCHANGED <<language, input, reported>>
           /\ AddParameters(Top.list)
           /\ ReturnNodes(<<FunctionNode(Top.list, result)>>)
  BY <1>8, FunctionReturned
<1>. QED
  BY <1>1, <1>2, <1>3, <1>4, <1>5, <1>6, <1>7, <1>8 DEF ParseFunction

LEMMA ParseUnaryExprWhole ==
    ASSUME Fine, ParseUnaryExpr
    PROVE  Whole'
<1>1. CASE UnknownExpression
  BY <1>1, ErrorLater DEF UnknownExpression, Error
<1>. QED
  BY <1>1, ParseIdentifierWhole, ParseLiteralWhole, ParseParenthesesWhole, ParseFunctionWhole,
     ParseArrayWhole, ParseMapWhole, ParseUnaryOpWhole DEF ParseUnaryExpr

LEMMA MemberReturned ==
    ASSUME Fine, Entering("member"), Peek = "identifier", Advance, Stays,
           ReturnNodes(<<NodeAt(Len(input), "identifier", Invalid, Invalid),
                         Node("member", Top.node, Len(nodes) + 1)>>)
    PROVE  Whole'
<1>. DEFINE f == Top
            rest == Tail(calls)
            one == NodeAt(Len(input), "identifier", Invalid, Invalid)
            last == Len(nodes) + 1
            two == Node("member", f.node, last)
<1>1. f.at = "member" /\ calls # <<>> /\ UNCHANGED <<language, extra>>
  BY EnteringNow DEF Stays
<1>2. Begins(f) /\ f.node \in Nat /\ Len(input) \in Nat \ {0}
  BY <1>1, NowFacts
<1>3. Formed(f, nodes, input) /\ extra \in Lists /\ nodes \in Woods
  BY <1>1, NowFacts
<1>4. Peek # "eof"
  OBVIOUS
<1>5. Len(input') = Len(input) + 1
  BY <1>1, <1>4, AdvancesBy
<1>6. one = NodeAt(Len(input), "identifier", Invalid, Invalid) /\ f = Top /\ rest = Tail(calls)
      /\ last = Len(nodes) + 1 /\ two = Node("member", f.node, last) /\ ReturnNodes(<<one, two>>)
  OBVIOUS
<1>7. last \in Nat /\ last # Invalid
  BY <1>3, TreeFacts DEF Invalid
<1>. HIDE DEF f, rest, one, last
<1>8. /\ two \in Trees /\ two.tag = "member" /\ two.lhs = f.node /\ two.rhs = last
      /\ two.source = f.token /\ "member" \in Tags
  <2>1. "member" \in Tags /\ Len(input') \in Nat \ {0} /\ Begins(Top)
    BY <1>2, <1>5, <1>6 DEF Tags
  <2>. QED
    BY <1>2, <1>6, <1>7, <2>1, NodeIs
<1>. HIDE DEF two
<1>9. f.node # Invalid /\ f.list = <<>>
  BY <1>1, <1>3 DEF Formed
<1>10. Held(f) = <<f.node>>
  BY <1>1, <1>2, <1>9, HeldNode
<1>. DEFINE tree == nodes \o <<one>>
<1>11. Standing(tree, extra, f, rest, last, input') /\ one \in Trees
  <2>1. "member" \in {"parameters", "member"} /\ Entering("member") /\ Peek = "identifier" /\ UNCHANGED language
    BY <1>1
  <2>2. Same(Top, Top) /\ Top.at \notin Outside \cup {"arrow"} /\ Held(Top) = Held(Top)
    BY <1>1, <1>2, <1>6 DEF Same, Outside, Starting
  <2>3. Formed(Top, nodes \o <<one>>, input') => Formed(Top, nodes \o <<one>>, input')
    OBVIOUS
  <2>. QED
    BY <1>6, <2>1, <2>2, <2>3, IdentifierStands
<1>12. /\ nodes' = tree \o <<two>> /\ calls' = rest /\ result' = Len(tree) + 1
  BY <1>3, <1>6, <1>8, <1>11, PushTwo
<1>. HIDE DEF tree
<1>13. Kids(two, extra') = Held(f) \o Present(last) /\ Stored(two, extra')
  BY <1>7, <1>8, <1>10, KidsOfTwo DEF Present
<1>14. <<>> \in Lists /\ extra' = extra \o <<>>
  BY <1>1, <1>3, ConcatEmptySeq DEF Lists
<1>15. Kept(tree \o <<two>>, Begun(rest), input')
  <2>1. Rooted(tree, extra, f, rest, last, input') /\ Kept(tree, Own(f) \cup Begun(rest), input')
        /\ Formed(f, tree, input')
    BY <1>11 DEF Standing
  <2>2. input'[f.token] = "." /\ f.at \notin Outside
    BY <1>1, <2>1 DEF Formed, Opener, Outside, Starting
  <2>3. two.tag \in TagOf(input'[f.token])
    BY <1>8, <2>2 DEF TagOf
  <2>. QED
    BY <1>8, <2>1, <2>2, <2>3, KeptCloses
<1>16. f.token < Len(input') /\ Begins(Top) /\ f.token = Top.token /\ f.first = Top.first
  <2>1. f.token < Len(input')
    BY <1>1, <1>11 DEF Standing, Formed, Outside, Starting
  <2>. QED
    BY <1>2, <1>6, <2>1
<1>. QED
  BY <1>2, <1>6, <1>7, <1>8, <1>11, <1>12, <1>13, <1>14, <1>15, <1>16, LastLater

LEMMA ParseMemberAccessWhole ==
    ASSUME Fine, ParseMemberAccess
    PROVE  Whole'
<1>1. CASE /\ Entering("binary") /\ Peek = "."
           /\ Advance /\ GoesTo("member")
           /\ Silent /\ UNCHANGED result
  <2>1. Peek \in Opener("member") /\ Peek # "eof" /\ Opens("binary", "member")
    BY <1>1 DEF Opener, Opens
  <2>. QED
    BY <1>1, <2>1, OpenGoes
<1>2. CASE Entering("member") /\ Peek # "identifier" /\ Error
  BY <1>2, ErrorLater DEF Error
<1>3. CASE /\ Entering("member") /\ Peek = "identifier"
           /\ Advance /\ Stays
           /\ ReturnNodes(<<NodeAt(Len(input), "identifier", Invalid, Invalid),
                            Node("member", Top.node, Len(nodes) + 1)>>)
  BY <1>3, MemberReturned
<1>. QED
  BY <1>1, <1>2, <1>3 DEF ParseMemberAccess

\* Two nodes become one.
LEMMA PairWhole ==
    ASSUME Fine, NEW at \in {"assigned", "rhs", "start", "loop"}, Returned(at),
           Skips(input', input), UNCHANGED extra,
           NEW tag \in Operators \cup {"subscript", "while"}, ReturnNode(tag, Top.node, result),
           tag \in TagOf(input[Top.token]) \/ input[Top.token] \in Punctuation
    PROVE  Whole'
<1>1. /\ Standing(nodes, extra, Top, Tail(calls), result, input) /\ Top.at = at /\ calls # <<>>
      /\ result # Invalid /\ result \in Nat
  BY ReturnedNow
<1>2. Begins(Top) /\ Top.node \in Nat /\ Len(input) \in Nat \ {0}
  BY <1>1, NowFacts
<1>3. Formed(Top, nodes, input) /\ extra \in Lists
  BY <1>1, NowFacts
<1>4. tag \in Tags /\ at \notin Outside
  BY DEF Tags, Operators, Outside, Starting
<1>5. Len(input') \in Nat \ {0}
  BY <1>2, SkipsFollows DEF Follows
<1>. DEFINE new == Node(tag, Top.node, result)
<1>6. new \in Trees /\ new.tag = tag /\ new.lhs = Top.node /\ new.rhs = result
  <2>1. Begins(Top) /\ Len(input') \in Nat \ {0} /\ Top.node \in Nat /\ result \in Nat /\ tag \in Tags
    BY <1>1, <1>2, <1>4, <1>5
  <2>. QED
    BY <2>1, NodeIs
<1>7. new = Node(tag, Top.node, result)
  OBVIOUS
<1>. HIDE DEF new
<1>8. Held(Top) = <<Top.node>>
  <2>1. at \in {"assigned", "rhs", "start", "loop"}
    OBVIOUS
  <2>2. Top.node # Invalid /\ Top.list = <<>>
    BY <1>1, <1>3, <2>1 DEF Formed
  <2>. QED
    BY <1>1, <1>2, <2>1, <2>2, HeldNode
<1>9. Kids(new, extra') = Held(Top) \o Present(result) /\ Stored(new, extra')
  <2>1. new.tag \in Operators \cup {"member", "subscript", "slice", "while"}
    BY <1>6
  <2>2. Kids(new, extra') = <<new.lhs>> \o <<new.rhs>> /\ Stored(new, extra')
    BY <1>6, <2>1, KidsOfTwo
  <2>. QED
    BY <1>1, <1>6, <1>8, <2>2 DEF Present
<1>10. <<>> \in Lists /\ extra' = extra \o <<>>
  BY <1>3, ConcatEmptySeq DEF Lists
<1>. QED
  BY <1>1, <1>2, <1>4, <1>7, <1>9, <1>10, NodeLater

LEMMA BinaryOpWhole ==
    ASSUME Fine, NEW tokens, NEW at, BinaryOp(tokens, at),
           \/ at = "assigned" /\ tokens = {"="}
           \/ at = "rhs" /\ tokens = Operators \ {"="}
    PROVE  Whole'
<1>1. CASE /\ Entering("binary") /\ Peek \in tokens
           /\ Advance /\ Silent
           /\ Calls(Expression(PrecedenceOf(Peek)), [Top EXCEPT !.at = at])
  <2>1. /\ Peek \in Opener(at) /\ Peek # "eof" /\ Opens("binary", at)
    BY <1>1 DEF Opener, Opens, Operators
  <2>2. PrecedenceOf(Peek) \in Nat
    BY DEF PrecedenceOf, Lowest
  <2>. QED
    BY <1>1, <2>1, <2>2, OpenCalls
<1>2. CASE /\ Resuming(at)
           /\ UNCHANGED input /\ Stays
           /\ ReturnNode(input[Top.token], Top.node, result)
  <2>. DEFINE tag == input[Top.token]
  <2>1. Returned(at) /\ Top.at = at /\ calls # <<>> /\ at \in {"assigned", "rhs", "start", "loop"}
    BY <1>2 DEF Resuming, Returned
  <2>2. tag \in Operators
    <3>1. Formed(Top, nodes, input)
      BY <2>1, NowFacts
    <3>. QED
      BY <2>1, <3>1 DEF Formed, Opener, Operators, Outside, Starting
  <2>3. tag \in TagOf(input[Top.token])
    BY <2>2 DEF TagOf, Operators
  <2>4. UNCHANGED extra /\ ReturnNode(tag, Top.node, result) /\ Skips(input', input)
    BY <1>2, StillSkips DEF Stays
  <2>5. tag \in Operators \cup {"subscript", "while"}
    BY <2>2
  <2>. HIDE DEF tag
  <2>. QED
    BY <2>1, <2>3, <2>4, <2>5, PairWhole
<1>. QED
  BY <1>1, <1>2 DEF BinaryOp

--------------------------------------------------------------------------------
(* Subscripts *)

LEMMA ColonSkips ==
    ASSUME Fine, UNCHANGED language, Advance, Peek \in Punctuation
    PROVE  Skips(input', input) /\ Len(input') = Len(input) + 1
<1>1. Peek # "eof"
  BY DEF Punctuation
<1>. QED
  BY <1>1, AdvancesBy

LEMMA ColonFormed ==
    ASSUME Fine, NEW at \in {"index", "start"}, Top.at = at, calls # <<>>, Skips(input', input),
           NEW g, Same(g, Top), g.at = "colon", g.node = Top.node, NEW n, g.list = <<n>>,
           n # Invalid => Top.token < nodes[n].first
    PROVE  Formed(g, nodes, input')
<1>1. Formed(Top, nodes, input')
  BY FormedNow
<1>2. g.token = Top.token /\ g.first = Top.first
  BY DEF Same
<1>3. Opener("colon") = Opener(at)
  BY DEF Opener
<1>4. Len(g.list) = 1 /\ g.list[1] = n
  OBVIOUS
<1>. QED
  BY <1>1, <1>2, <1>3, <1>4 DEF Formed, Outside, Starting

LEMMA SliceBegins ==
    ASSUME Fine, Peek = ":", Advance, Silent, result' = Pending,
           \/ Entering("index") /\ Goes([Top EXCEPT !.at = "colon", !.list = <<Invalid>>])
           \/ Returned("start") /\ Goes([Top EXCEPT !.at = "colon", !.list = <<result>>])
    PROVE  Whole'
<1>1. Skips(input', input) /\ UNCHANGED <<nodes, extra>>
  <2>1. Peek \in Punctuation /\ UNCHANGED <<language, nodes, extra>>
    BY DEF Punctuation, Silent
  <2>. QED
    BY <2>1, ColonSkips
<1>2. CASE Entering("index") /\ Goes([Top EXCEPT !.at = "colon", !.list = <<Invalid>>])
  <2>. DEFINE g == [Top EXCEPT !.at = "colon", !.list = <<Invalid>>]
  <2>1. Top.at = "index" /\ calls # <<>> /\ calls' = <<g>> \o Tail(calls)
    BY <1>2 DEF Entering, Goes
  <2>2. Begins(Top) /\ Top.list \in Lists /\ Top.node \in Nat
    BY <2>1, NowFacts
  <2>3. g = AtList(Top, "colon", <<Invalid>>)
    BY DEF AtList
  <2>. HIDE DEF g
  <2>4. <<Invalid>> \in Lists /\ "colon" \in Points
    BY DEF Lists, Invalid, Points
  <2>5. Same(g, Top) /\ g.at = "colon" /\ g.node = Top.node /\ g.list = <<Invalid>>
    <3>1. Begins(Top)
      BY <2>2
    <3>. QED
      BY <2>3, <2>4, <3>1, FrameList
  <2>6. Formed(g, nodes, input')
    BY <1>1, <2>1, <2>5, ColonFormed
  <2>7. Held(g) = Held(Top)
    <3>1. Formed(Top, nodes, input)
      BY <2>1, NowFacts
    <3>2. Top.list = <<>>
      BY <2>1, <3>1 DEF Formed
    <3>3. <<Invalid>>[1] = Invalid
      OBVIOUS
    <3>. QED
      BY <2>1, <2>5, <3>2, <3>3 DEF Held, Present
  <2>8. "index" \notin Outside /\ g.at \notin Outside /\ g.at # "parameter"
    BY <2>5 DEF Outside, Starting
  <2>. QED
    BY <1>1, <1>2, <2>1, <2>5, <2>6, <2>7, <2>8, EnterGoes
<1>3. CASE Returned("start") /\ Goes([Top EXCEPT !.at = "colon", !.list = <<result>>])
  <2>. DEFINE g == [Top EXCEPT !.at = "colon", !.list = <<result>>]
  <2>1. calls' = <<g>> \o Tail(calls)
    BY <1>3 DEF Goes
  <2>2. /\ Standing(nodes, extra, Top, Tail(calls), result, input) /\ Top.at = "start" /\ calls # <<>>
        /\ result # Invalid /\ result \in Nat
    BY <1>3, ReturnedNow
  <2>3. Begins(Top) /\ Top.list \in Lists /\ Top.node \in Nat
    BY <2>2, NowFacts
  <2>4. g = AtList(Top, "colon", <<result>>)
    BY DEF AtList
  <2>. HIDE DEF g
  <2>5. <<result>> \in Lists /\ "colon" \in Points
    BY <2>2 DEF Lists, Points
  <2>6. Same(g, Top) /\ g.at = "colon" /\ g.node = Top.node /\ g.list = <<result>>
    <3>1. Begins(Top)
      BY <2>3
    <3>. QED
      BY <2>4, <2>5, <3>1, FrameList
  <2>7. Top.token < nodes[result].first
    <3>1. /\ Reach(Top) <= nodes[result].first /\ result \in DOMAIN nodes /\ nodes \in Woods
          /\ Top \in Frames
      BY <2>2 DEF Standing, Rooted, ForestOf, Precedes, Begins
    <3>2. Reach(Top) = Top.token + 1 /\ Top.token \in Nat /\ nodes[result].first \in Nat
      <4>1. Reach(Top) = Top.token + 1
        BY <2>2 DEF Reach, Outside, Starting
      <4>. QED
        BY <3>1, <4>1, ReachIsToken, TreeFacts
    <3>. QED
      BY <3>1, <3>2
  <2>8. Formed(g, nodes, input')
    BY <1>1, <2>2, <2>6, <2>7, ColonFormed
  <2>9. Held(g) = Held(Top) \o <<result>>
    <3>1. Formed(Top, nodes, input)
      BY <2>2, NowFacts
    <3>2. Top.list = <<>> /\ Top.node # Invalid
      BY <2>2, <3>1 DEF Formed
    <3>3. Held(Top) = <<Top.node>>
      BY <2>2, <2>3, <3>2, HeldNode
    <3>4. <<result>>[1] = result
      OBVIOUS
    <3>. QED
      BY <2>2, <2>6, <3>2, <3>3, <3>4 DEF Held, Present
  <2>10. "start" \notin Outside /\ g.at \notin Outside /\ g.at # "parameter"
    BY <2>6 DEF Outside, Starting
  <2>. QED
    BY <1>1, <1>3, <2>1, <2>6, <2>8, <2>9, <2>10, ResumeGoes
<1>. QED
  BY <1>2, <1>3

LEMMA KidsOfBounds ==
    ASSUME NEW new \in Trees, NEW from, new.tag = "bounds"
    PROVE  Kids(new, from) = Present(new.lhs) \o Present(new.rhs) /\ Stored(new, from)
BY DEF Kids, Stored, Operators

LEMMA SliceEnds ==
    ASSUME Fine, NEW at \in {"colon", "end"}, Top.at = at, calls # <<>>, NEW given \in Nat,
           Standing(nodes, extra, Top, Tail(calls), given, input),
           Peek = "]", Advance, UNCHANGED <<language, extra>>,
           ReturnNodes(SliceNodes(Top.list[1], given))
    PROVE  Whole'
<1>. DEFINE f == Top
            rest == Tail(calls)
            start == f.list[1]
            one == [Node("bounds", start, given) EXCEPT !.first = f.token]
            last == Len(nodes) + 1
            two == Node("slice", f.node, last)
            g == [f EXCEPT !.at = "binary", !.list = <<>>]
<1>1. /\ Rooted(nodes, extra, f, rest, given, input) /\ Formed(f, nodes, input) /\ Begins(f)
      /\ Len(input) \in Nat \ {0} /\ Spans(nodes, Len(input)) /\ nodes \in Woods /\ rest \in Stacks
      /\ f \in Frames /\ Kept(nodes, Own(f) \cup Begun(rest), input) /\ extra \in Lists
  BY DEF Standing, Rooted, Begins
<1>2. Skips(input', input) /\ Len(input') = Len(input) + 1
  <2>1. Peek \in Punctuation
    BY DEF Punctuation
  <2>. QED
    BY <2>1, ColonSkips
<1>3. Follows(input', input) /\ Len(input') \in Nat \ {0}
  BY <1>1, <1>2, SkipsFollows DEF Follows
<1>4. f = Top /\ rest = Tail(calls) /\ start = f.list[1] /\ last = Len(nodes) + 1
      /\ one = [Node("bounds", start, given) EXCEPT !.first = f.token]
      /\ two = Node("slice", f.node, last) /\ g = AtList(f, "binary", <<>>)
      /\ ReturnNodes(<<one, two>>)
  BY DEF AtList, SliceNodes
<1>5. f.node \in Nat /\ f.list \in Lists
  BY NowFacts
<1>6. last \in Nat /\ last # Invalid
  BY <1>1, TreeFacts DEF Invalid
<1>. HIDE DEF f, rest, start, last, two, g
<1>7. Len(f.list) = 1 /\ start \in Nat /\ f.node # Invalid /\ f.at = at
      /\ nodes[f.node].last < f.token /\ (start # Invalid => f.token < nodes[start].first)
  <2>1. Len(f.list) = 1 /\ f.node # Invalid /\ f.at = at
        /\ nodes[f.node].last < f.token /\ (start # Invalid => f.token < nodes[start].first)
    BY <1>1, <1>4 DEF Formed
  <2>2. start \in Nat
    <3>1. 1 \in DOMAIN f.list
      BY <1>5, <2>1, LengthOf
    <3>. QED
      BY <1>4, <1>5, <3>1, LengthOf
  <2>. QED
    BY <2>1, <2>2
<1>8. /\ f.first \in Nat /\ f.token \in Nat /\ f.first <= f.token
      /\ f.token < Len(input) /\ Reach(f) = f.token + 1
  <2>1. f.first \in Nat /\ f.token \in Nat /\ f.first <= f.token
    BY <1>1, OwnApart
  <2>2. f.at \notin Outside /\ f.at # "arrow"
    BY <1>7 DEF Outside, Starting
  <2>. QED
    BY <1>1, <2>1, <2>2 DEF Formed, Reach
<1>9. /\ one \in Trees /\ one.tag = "bounds" /\ one.lhs = start /\ one.rhs = given
      /\ one.source = f.token /\ one.first = f.token /\ one.last = Len(input') - 1
  <2>. DEFINE plain == Node("bounds", start, given)
  <2>1. "bounds" \in Tags /\ Begins(Top) /\ Len(input') \in Nat \ {0} /\ start \in Nat
    BY <1>1, <1>3, <1>4, <1>7 DEF Tags
  <2>2. /\ plain \in Trees /\ plain.tag = "bounds" /\ plain.lhs = start /\ plain.rhs = given
        /\ plain.source = Top.token /\ plain.last = Len(input') - 1
    BY <2>1, NodeIs
  <2>3. one = [plain EXCEPT !.first = f.token]
    BY <1>4
  <2>. HIDE DEF plain, one
  <2>. QED
    BY <1>4, <1>8, <2>2, <2>3 DEF Trees
<1>. HIDE DEF one
<1>10. /\ two \in Trees /\ two.tag = "slice" /\ two.lhs = f.node /\ two.rhs = last
       /\ two.source = f.token /\ "slice" \in Tags
  <2>1. "slice" \in Tags /\ Len(input') \in Nat \ {0} /\ Begins(Top)
    BY <1>1, <1>3, <1>4 DEF Tags
  <2>. QED
    BY <1>4, <1>5, <1>6, <2>1, NodeIs
<1>11. Same(g, f) /\ g.at = "binary" /\ g.node = f.node /\ g.list = <<>>
  <2>1. "binary" \in Points /\ <<>> \in Lists
    BY DEF Points, Lists
  <2>2. Begins(f)
    BY <1>1
  <2>. QED
    BY <1>4, <2>1, <2>2, FrameList
<1>12. Held(g) = <<f.node>> /\ Held(f) = <<f.node>> \o Present(start) /\ Present(start) \in Lists
  <2>1. Held(g) = <<f.node>>
    BY <1>5, <1>7, <1>11, HeldNode
  <2>2. Held(f) = <<f.node>> \o Present(start)
    BY <1>4, <1>7 DEF Held, Present
  <2>. QED
    BY <1>7, <2>1, <2>2, PresentFacts
<1>13. Begins(g) /\ g.token = f.token /\ g.first = f.first /\ g.at \in Outside /\ Reach(g) = f.first
  BY <1>11 DEF Same, Outside, Starting, Reach
<1>14. Rooted(nodes, extra, f, rest, given, input')
  BY <1>1, <1>3, RootedLonger
<1>15. /\ g.first <= Reach(g) /\ Reach(g) <= Len(input') /\ Reach(g) <= one.first
       /\ one.last = Len(input') - 1 /\ one.first <= one.last /\ one.source < Len(input')
  BY <1>1, <1>2, <1>8, <1>9, <1>13
<1>16. \A i \in DOMAIN Held(g) : nodes[Held(g)[i]].last < one.first
  BY <1>7, <1>9, <1>12
<1>17. \A i \in DOMAIN Present(start) : one.first <= nodes[Present(start)[i]].first
  <2>1. start # Invalid => start \in DOMAIN nodes
    <3>1. Holds(f, nodes, extra, Len(input))
      BY <1>1 DEF Rooted, ForestOf
    <3>. QED
      BY <1>1, <1>4, <1>7, <3>1, HoldsParts
  <2>2. start # Invalid => one.first <= nodes[start].first
    BY <1>1, <1>7, <1>8, <1>9, <2>1, TreeFacts
  <2>3. \A i \in DOMAIN Present(start) : start # Invalid /\ Present(start)[i] = start
    BY <1>7, PresentFacts
  <2>. QED
    BY <2>2, <2>3
<1>18. given # Invalid => one.first <= nodes[given].first
  <2>. SUFFICES ASSUME given # Invalid PROVE one.first <= nodes[given].first
    OBVIOUS
  <2>1. Reach(f) <= nodes[given].first /\ given \in DOMAIN nodes
    BY <1>1 DEF Rooted, ForestOf, Precedes
  <2>2. nodes[given].first \in Nat
    BY <1>1, <2>1, TreeFacts
  <2>. QED
    BY <1>8, <1>9, <2>1, <2>2
<1>19. <<>> \in Lists /\ extra \o <<>> = extra
  BY <1>1, ConcatEmptySeq DEF Lists
<1>20. Kids(one, extra \o <<>>) = Present(start) \o Present(given) /\ Stored(one, extra \o <<>>)
  BY <1>9, KidsOfBounds
<1>21. Formed(g, nodes \o <<one>>, input')
  BY <1>7, <1>11 DEF Formed, Outside, Starting
<1>22. Kept(nodes \o <<one>>, Own(g) \cup Begun(rest), input')
  <2>. DEFINE begun == Own(f) \cup Begun(rest)
              left == Begun(rest)
  <2>1. Own(g) \cup Begun(rest) = left /\ left \subseteq begun
    BY <1>13 DEF Own
  <2>2. input[f.token] \in Punctuation /\ f.token \in 1 .. Len(input)
    <3>1. f.at \notin Outside /\ Opener(f.at) = {"["}
      BY <1>7 DEF Outside, Starting, Opener
    <3>2. input[f.token] = "["
      BY <1>1, <3>1 DEF Formed
    <3>3. f.token # 0
      BY <1>1 DEF Begins
    <3>. QED
      BY <1>1, <1>8, <3>2, <3>3 DEF Punctuation
  <2>3. input'[f.token] \in Punctuation
    BY <1>3, <2>2 DEF Follows
  <2>4. \A t \in 1 .. (Len(input') - 1) : ~ Represents(one, t, input')
    BY <1>9, <2>3 DEF Represents
  <2>5. \A t \in begun \ left : input'[t] \in Punctuation
    BY <2>3 DEF Own
  <2>6. Kept(nodes, begun, input')
    BY <1>1, <1>2, KeptSkips
  <2>. HIDE DEF begun, left
  <2>7. Kept(nodes \o <<one>>, left, input')
    BY <1>1, <1>9, <2>1, <2>4, <2>5, <2>6, KeptBuilds
  <2>. QED
    BY <2>1, <2>7
<1>23. Standing(nodes \o <<one>>, extra \o <<>>, g, rest, last, input')
  <2>. DEFINE part == Present(start)
  <2>1. part \in Lists /\ Held(f) = Held(g) \o part
        /\ \A i \in DOMAIN part : one.first <= nodes[part[i]].first
    BY <1>12, <1>17
  <2>2. Kids(one, extra \o <<>>) = part \o Present(given)
    BY <1>20
  <2>. HIDE DEF part
  <2>3. Begins(g) /\ g.first = f.first /\ Stored(one, extra \o <<>>) /\ g.at # "program"
    BY <1>11, <1>13, <1>20
  <2>. QED
    BY <1>4, <1>9, <1>14, <1>15, <1>16, <1>18, <1>19, <1>21, <1>22, <2>1, <2>2, <2>3, StandingBuilds
<1>. DEFINE tree == nodes \o <<one>>
<1>24. Standing(tree, extra, g, rest, last, input')
  BY <1>19, <1>23
<1>25. /\ nodes' = tree \o <<two>> /\ calls' = rest /\ result' = Len(tree) + 1
  BY <1>1, <1>4, <1>9, <1>10, PushTwo
<1>. HIDE DEF tree
<1>26. Kids(two, extra') = Held(g) \o Present(last) /\ Stored(two, extra')
  BY <1>6, <1>10, <1>12, KidsOfTwo DEF Present
<1>27. Kept(tree \o <<two>>, Begun(rest), input')
  <2>. DEFINE left == Begun(rest)
  <2>1. Kept(tree, Own(g) \cup Begun(rest), input') /\ tree \in Woods
    BY <1>24 DEF Standing, Rooted
  <2>2. Own(g) \cup Begun(rest) = left
    BY <1>13 DEF Own
  <2>3. input'[f.token] \in Punctuation
    <3>1. f.at \notin Outside /\ Opener(f.at) = {"["}
      BY <1>7 DEF Outside, Starting, Opener
    <3>2. input[f.token] = "["
      BY <1>1, <3>1 DEF Formed
    <3>3. f.token \in 1 .. Len(input)
      BY <1>1, <1>8 DEF Begins
    <3>. QED
      BY <1>3, <3>2, <3>3 DEF Punctuation, Follows
  <2>4. \A t \in 1 .. (Len(input') - 1) : ~ Represents(two, t, input')
    BY <1>10, <2>3 DEF Represents
  <2>5. Kept(tree, left, input') /\ left \ left = {} /\ left \subseteq left
    BY <2>1, <2>2
  <2>. HIDE DEF left
  <2>6. Kept(tree \o <<two>>, left, input')
    BY <1>10, <2>1, <2>4, <2>5, KeptBuilds
  <2>. QED
    BY <2>6 DEF left
<1>28. g.token < Len(input') /\ Begins(Top) /\ g.token = Top.token /\ g.first = Top.first
  BY <1>1, <1>2, <1>4, <1>8, <1>13
<1>29. extra' = extra \o <<>>
  BY <1>19
<1>. QED
  BY <1>4, <1>5, <1>6, <1>10, <1>19, <1>24, <1>25, <1>26, <1>27, <1>28, <1>29, LastLater

LEMMA SubscriptWhole ==
    ASSUME Fine, Returned("start"), CloseSubscript(<<Node("subscript", Top.node, result)>>)
    PROVE  Whole'
<1>1. CASE Peek # "]"
  BY <1>1, ErrorLater DEF CloseSubscript
<1>2. CASE Peek = "]"
  <2>1. Advance /\ UNCHANGED <<language, extra>> /\ ReturnNode("subscript", Top.node, result)
    BY <1>2 DEF CloseSubscript, ReturnNode
  <2>2. Skips(input', input)
    BY <1>2, <2>1, ColonSkips DEF Punctuation
  <2>3. input[Top.token] \in Punctuation
    <3>1. Top.at = "start" /\ calls # <<>>
      BY DEF Returned
    <3>2. Formed(Top, nodes, input)
      BY <3>1, NowFacts
    <3>. QED
      BY <3>1, <3>2 DEF Formed, Outside, Starting, Opener, Punctuation
  <2>. QED
    BY <2>1, <2>2, <2>3, PairWhole
<1>. QED
  BY <1>1, <1>2

LEMMA SliceWhole ==
    ASSUME Fine, NEW given,
           \/ Entering("colon") /\ given = Invalid
           \/ Returned("end") /\ given = result,
           CloseSubscript(SliceNodes(Top.list[1], given))
    PROVE  Whole'
<1>1. CASE Peek # "]"
  BY <1>1, ErrorLater DEF CloseSubscript
<1>2. CASE Peek = "]"
  <2>1. /\ Standing(nodes, extra, Top, Tail(calls), given, input) /\ given \in Nat
        /\ Top.at \in {"colon", "end"} /\ calls # <<>>
    BY EnteringNow, ReturnedNow DEF Invalid
  <2>2. Advance /\ UNCHANGED <<language, extra>> /\ ReturnNodes(SliceNodes(Top.list[1], given))
    BY <1>2 DEF CloseSubscript
  <2>. QED
    BY <1>2, <2>1, <2>2, SliceEnds
<1>. QED
  BY <1>1, <1>2

LEMMA ParseSubscriptAccessWhole ==
    ASSUME Fine, ParseSubscriptAccess
    PROVE  Whole'
<1>1. CASE /\ Entering("binary") /\ Peek = "["
           /\ Advance /\ GoesTo("index")
           /\ Silent /\ UNCHANGED result
  <2>1. Peek \in Opener("index") /\ Peek # "eof" /\ Opens("binary", "index")
    BY <1>1 DEF Opener, Opens
  <2>. QED
    BY <1>1, <2>1, OpenGoes
<1>2. CASE /\ Entering("index") /\ Peek # ":"
           /\ UNCHANGED input /\ Silent
           /\ Calls(Expression(Lowest), [Top EXCEPT !.at = "start"])
  <2>1. Calls(Called("expr", Lowest, Invalid, Len(input')), [Top EXCEPT !.at = "start"])
    BY <1>2 DEF Expression
  <2>2. Skips(input', input) /\ UNCHANGED <<nodes, extra>>
    BY <1>2, StillSkips DEF Silent
  <2>. QED
    BY <1>2, <2>1, <2>2, RestCalled
<1>3. CASE Returned("start") /\ CloseSubscript(<<Node("subscript", Top.node, result)>>)
  BY <1>3, SubscriptWhole
<1>4. CASE /\ \/ Entering("index") /\ Peek = ":"
                 /\ Goes([Top EXCEPT !.at = "colon", !.list = <<Invalid>>])
              \/ Returned("start") /\ Peek = ":"
                 /\ Goes([Top EXCEPT !.at = "colon", !.list = <<result>>])
           /\ Advance /\ Silent
           /\ result' = Pending
  BY <1>4, SliceBegins
<1>5. CASE /\ Entering("colon") /\ Peek # "]"
           /\ UNCHANGED input /\ Silent
           /\ Calls(Expression(Lowest), [Top EXCEPT !.at = "end"])
  <2>1. Calls(Called("expr", Lowest, Invalid, Len(input')), [Top EXCEPT !.at = "end"])
    BY <1>5 DEF Expression
  <2>2. Skips(input', input) /\ UNCHANGED <<nodes, extra>>
    BY <1>5, StillSkips DEF Silent
  <2>. QED
    BY <1>5, <2>1, <2>2, RestCalled
<1>6. CASE /\ \/ Entering("colon") /\ Peek = "]"
              \/ Returned("end")
           /\ CloseSubscript(SliceNodes(Top.list[1], IF Top.at = "end" THEN result ELSE Invalid))
  <2>1. CASE Entering("colon")
    <3>1. (IF Top.at = "end" THEN result ELSE Invalid) = Invalid
      BY <2>1 DEF Entering
    <3>. QED
      BY <1>6, <2>1, <3>1, SliceWhole
  <2>2. CASE Returned("end")
    <3>1. (IF Top.at = "end" THEN result ELSE Invalid) = result
      BY <2>2 DEF Returned
    <3>. QED
      BY <1>6, <2>2, <3>1, SliceWhole
  <2>. QED
    BY <1>6, <2>1, <2>2
<1>. QED
  BY <1>1, <1>2, <1>3, <1>4, <1>5, <1>6 DEF ParseSubscriptAccess

LEMMA ParseBinaryExprWhole ==
    ASSUME Fine, ParseBinaryExpr
    PROVE  Whole'
<1>1. ParseAssign => Whole'
  BY BinaryOpWhole DEF ParseAssign
<1>2. ParseBinaryOp => Whole'
  BY BinaryOpWhole DEF ParseBinaryOp
<1>. QED
  BY <1>1, <1>2, ParseCallWhole, ParseMemberAccessWhole, ParseSubscriptAccessWhole DEF ParseBinaryExpr

--------------------------------------------------------------------------------
(* Expressions *)

\* An operand is looked for, where what is called begins.
OperandBegins ==
    /\ Entering("expr")
    /\ UNCHANGED input /\ Silent
    /\ Calls(Called("unary", Lowest, Invalid, Len(input')), [Top EXCEPT !.at = "lhs"])

LEMMA OperandBeginsWhole ==
    ASSUME Fine, OperandBegins
    PROVE  Whole'
<1>. DEFINE g == [Top EXCEPT !.at = "lhs"]
            rest == Tail(calls)
<1>1. /\ Standing(nodes, extra, Top, rest, Invalid, input) /\ Top.at = "expr" /\ calls # <<>>
      /\ UNCHANGED <<nodes, extra, input>> /\ result' = Pending
      /\ calls' = <<Called("unary", Lowest, Invalid, Len(input')), g>> \o rest
  BY EnteringNow DEF OperandBegins, Silent, Calls
<1>2. Begins(Top) /\ Top.token = Len(input) /\ Formed(Top, nodes, input) /\ Len(input) \in Nat \ {0}
  BY <1>1, NowFacts DEF Starting
<1>3. Same(g, Top) /\ g.at = "lhs" /\ g.node = Top.node /\ g.list = Top.list
  <2>1. "lhs" \in Points
    BY DEF Points
  <2>. QED
    BY <1>2, <2>1, FrameAt
<1>. HIDE DEF g, rest
<1>4. Top.node = Invalid /\ Top.list = <<>> /\ Top.first \in Nat /\ Top.first <= Len(input)
  <2>1. Top.node = Invalid /\ Top.list = <<>> /\ Top.token = Top.first
    BY <1>1, <1>2 DEF Formed
  <2>. QED
    BY <1>2, <2>1
<1>5. Held(g) = Held(Top)
  <2>1. Held(g) = <<>>
    BY <1>3, <1>4, HeldNothing
  <2>2. Held(Top) = <<>>
    BY <1>1, <1>4, HeldNothing
  <2>. QED
    BY <2>1, <2>2
<1>6. Begins(g) /\ g.first = Top.first /\ Reach(g) = Top.first /\ g.at # "program"
  BY <1>3 DEF Same, Reach, Outside
<1>7. Formed(g, nodes, input)
  BY <1>3, <1>4 DEF Formed, Outside
<1>8. Kept(nodes, Own(g) \cup Begun(rest), input)
  <2>1. Own(g) = {} /\ Own(Top) = {}
    BY <1>1, <1>3 DEF Own, Outside, Starting
  <2>. QED
    BY <1>1, <2>1 DEF Standing
<1>9. Standing(nodes, extra, g, rest, Invalid, input)
  <2>1. g.first <= Reach(g) /\ Reach(g) <= Len(input) /\ Follows(input, input)
    BY <1>2, <1>4, <1>6, FollowsItself
  <2>. QED
    BY <1>1, <1>5, <1>6, <1>7, <1>8, <2>1, StandingMoves
<1>10. Lowest \in Nat /\ g.at # "parameter"
  BY <1>3 DEF Lowest
<1>. QED
  BY <1>1, <1>9, <1>10, CallsLater

\* The operand becomes the left one of an operator, whose function is called.
OperatorBegins ==
    /\ Returned("lhs")
    /\ UNCHANGED input /\ Silent
    /\ Calls(Called("binary", Lowest, result, Top.first), Top)

LEMMA OperatorBeginsWhole ==
    ASSUME Fine, OperatorBegins
    PROVE  Whole'
<1>. DEFINE k == Called("binary", Lowest, result, Top.first)
            rest == Tail(calls)
<1>1. /\ Standing(nodes, extra, Top, rest, result, input) /\ Top.at = "lhs" /\ calls # <<>>
      /\ UNCHANGED <<nodes, extra, input>> /\ result' = Pending
      /\ result # Invalid /\ result \in Nat
      /\ calls' = <<k, Top>> \o rest
  BY ReturnedNow DEF OperatorBegins, Silent, Calls
<1>2. /\ Begins(Top) /\ Formed(Top, nodes, input) /\ Len(input) \in Nat \ {0} /\ Top \in Frames
      /\ Top.first \in 1 .. Top.token /\ rest \in Stacks
  BY <1>1, NowFacts DEF Begins
<1>3. Top.first \in Nat \ {0} /\ Top.first <= Len(input) /\ Top.token \in Nat
  BY <1>1, <1>2, ReachIsToken DEF Standing, Rooted, ForestOf, Holds, Reach, Outside
<1>4. /\ k \in Frames /\ k.at = "binary" /\ k.node = result /\ k.list = <<>>
      /\ k.token = Len(input) /\ k.first = Top.first
  <2>1. "binary" \in Points /\ Lowest \in Nat /\ <<>> \in Seq(Nat)
    BY DEF Points, Lowest
  <2>. QED
    BY <1>1, <1>2, <1>3, <2>1 DEF Called, Frames
<1>. HIDE DEF k, rest
<1>5. Begins(k) /\ k.at \in Outside \ {"program"}
  BY <1>2, <1>3, <1>4 DEF Begins, Outside, Starting
<1>6. Held(Top) = <<>>
  BY <1>1, <1>2, HeldNothing DEF Formed
<1>7. Held(k) = <<result>>
  BY <1>1, <1>4, HeldNode
<1>8. Formed(k, nodes, input)
  BY <1>1, <1>4 DEF Formed, Outside, Starting
<1>9. Standing(nodes, extra, k, <<Top>> \o rest, Invalid, input)
  BY <1>1, <1>4, <1>5, <1>6, <1>7, <1>8, StandingHands
<1>10. calls' = <<k>> \o (<<Top>> \o rest) /\ k.at # "parameter"
  BY <1>1, <1>2, <1>4, TwoOn
<1>. QED
  BY <1>1, <1>9, <1>10, GoesLater

LEMMA ParseExprWhole ==
    ASSUME Fine, ParseExpr
    PROVE  Whole'
<1>1. CASE OperandBegins
  BY <1>1, OperandBeginsWhole
<1>2. CASE OperatorBegins
  BY <1>2, OperatorBeginsWhole
<1>3. CASE Resuming("lhs") /\ UNCHANGED input /\ Silent /\ Return(result)
  <2>1. Returned("lhs") /\ UNCHANGED <<nodes, extra>> /\ Skips(input', input)
    BY <1>3, StillSkips DEF Resuming, Silent
  <2>. QED
    BY <1>3, <2>1, PassedOn
<1>. QED
  BY <1>1, <1>2, <1>3 DEF ParseExpr, OperandBegins, OperatorBegins, Resuming

--------------------------------------------------------------------------------
(* Statements *)

LEMMA BodyCalls ==
    ASSUME Fine, NEW frame, Body(frame)
    PROVE  \/ reported'
           \/ /\ Skips(input', input) /\ UNCHANGED <<nodes, extra>>
              /\ Calls(Called("stmt", Lowest, Invalid, Len(input')), frame)
<1>1. CASE Peek = "=>" /\ Advance /\ Silent /\ Calls(Statement, frame)
  BY <1>1, ColonSkips DEF Silent, Statement, Punctuation
<1>2. CASE Peek = "{" /\ UNCHANGED input /\ Silent /\ Calls(Statement, frame)
  BY <1>2, StillSkips DEF Silent, Statement
<1>3. CASE Peek \notin {"=>", "{"} /\ Error
  BY <1>3 DEF Error
<1>. QED
  BY <1>1, <1>2, <1>3 DEF Body

\* A condition is kept, and what it is of is called.
LEMMA BodyWhole ==
    ASSUME Fine, NEW at, NEW to, Resuming(at),
           \/ at = "while" /\ to = "loop"
           \/ at = "if" /\ to = "then",
           Body([Top EXCEPT !.at = to, !.node = result])
    PROVE  Whole'
<1>. DEFINE g == [Top EXCEPT !.at = to, !.node = result]
<1>1. Returned(at) /\ Top.at = at /\ calls # <<>> /\ result # Invalid /\ result \in Nat
  BY ReturnedNow DEF Resuming
<1>2. CASE reported'
  BY <1>2, ErrorLater
<1>3. CASE /\ Skips(input', input) /\ UNCHANGED <<nodes, extra>>
           /\ Calls(Called("stmt", Lowest, Invalid, Len(input')), g)
  <2>1. Begins(Top) /\ Formed(Top, nodes, input) /\ Formed(Top, nodes, input')
    BY <1>1, <1>3, NowFacts, FormedNow
  <2>2. /\ calls' = <<Called("stmt", Lowest, Invalid, Len(input')), g>> \o Tail(calls)
        /\ result' = Pending
    BY <1>3 DEF Calls
  <2>3. g = AtNode(Top, to, result) /\ to \in Points
    BY DEF AtNode, Points
  <2>. HIDE DEF g
  <2>4. Same(g, Top) /\ g.at = to /\ g.node = result /\ g.list = Top.list
    BY <1>1, <2>1, <2>3, FrameNode
  <2>5. Top.node = Invalid /\ Top.list = <<>>
    BY <1>1, <2>1 DEF Formed
  <2>6. Held(g) = Held(Top) \o <<result>>
    <3>1. Held(g) = <<result>>
      BY <1>1, <2>4, <2>5, HeldNode
    <3>2. Held(Top) = <<>>
      BY <1>1, <2>5, HeldNothing
    <3>3. <<>> \o <<result>> = <<result>>
      OBVIOUS
    <3>. QED
      BY <3>1, <3>2, <3>3
  <2>7. Formed(g, nodes, input')
    <3>1. g.token = Top.token /\ g.first = Top.first
      BY <2>4 DEF Same
    <3>2. Opener(to) = Opener(at)
      BY DEF Opener
    <3>. QED
      BY <1>1, <2>1, <2>4, <2>5, <3>1, <3>2 DEF Formed, Outside, Starting
  <2>8. at \notin Outside /\ g.at \notin Outside /\ g.at # "parameter" /\ Lowest \in Nat
    BY <2>4 DEF Outside, Starting, Lowest
  <2>. QED
    BY <1>1, <1>3, <2>2, <2>4, <2>6, <2>7, <2>8, ResumeCalls
<1>. QED
  BY <1>2, <1>3, BodyCalls

LEMMA ConditionWhole ==
    ASSUME Fine, NEW keyword, NEW at, Condition(keyword, at),
           \/ keyword = "while" /\ at = "while"
           \/ keyword = "if" /\ at = "if"
           \/ keyword = "return" /\ at = "returned"
    PROVE  Whole'
<1>1. Peek \in Opener(at) /\ Peek # "eof" /\ Opens("stmt", at) /\ Lowest \in Nat
  BY DEF Condition, Opener, Opens, Lowest
<1>2. Entering("stmt") /\ Advance /\ Silent /\ Calls(Expression(Lowest), [Top EXCEPT !.at = at])
  BY DEF Condition
<1>. QED
  BY <1>1, <1>2, OpenCalls

LEMMA ParseWhileLoopWhole ==
    ASSUME Fine, ParseWhileLoop
    PROVE  Whole'
<1>1. CASE Condition("while", "while")
  BY <1>1, ConditionWhole
<1>2. CASE Resuming("while") /\ Body([Top EXCEPT !.at = "loop", !.node = result])
  BY <1>2, BodyWhole
<1>3. CASE /\ Resuming("loop")
           /\ UNCHANGED input /\ Stays
           /\ ReturnNode("while", Top.node, result)
  <2>1. Returned("loop") /\ Top.at = "loop" /\ calls # <<>>
    BY <1>3 DEF Resuming, Returned
  <2>2. "while" \in TagOf(input[Top.token])
    <3>1. Formed(Top, nodes, input)
      BY <2>1, NowFacts
    <3>2. input[Top.token] = "while"
      BY <2>1, <3>1 DEF Formed, Outside, Starting, Opener
    <3>. QED
      BY <3>2 DEF TagOf
  <2>3. UNCHANGED extra /\ Skips(input', input)
    BY <1>3, StillSkips DEF Stays
  <2>. QED
    BY <1>3, <2>1, <2>2, <2>3, PairWhole
<1>. QED
  BY <1>1, <1>2, <1>3 DEF ParseWhileLoop

LEMMA ParseReturnWhole ==
    ASSUME Fine, ParseReturn
    PROVE  Whole'
<1>1. CASE Condition("return", "returned")
  BY <1>1, ConditionWhole
<1>2. CASE /\ Resuming("returned")
           /\ UNCHANGED input /\ Stays
           /\ ReturnNode("return", Invalid, result)
  <2>1. Returned("returned") /\ Top.at = "returned" /\ calls # <<>>
    BY <1>2 DEF Resuming, Returned
  <2>2. "return" \in TagOf(input[Top.token])
    <3>1. Formed(Top, nodes, input)
      BY <2>1, NowFacts
    <3>2. input[Top.token] = "return"
      BY <2>1, <3>1 DEF Formed, Outside, Starting, Opener
    <3>. QED
      BY <3>2 DEF TagOf
  <2>3. UNCHANGED <<input, extra>>
    BY <1>2 DEF Stays
  <2>. QED
    BY <1>2, <2>1, <2>2, <2>3, OperandWhole
<1>. QED
  BY <1>1, <1>2 DEF ParseReturn

Cases(more, a, b) == more = <<a, b>>

LEMMA KidsOfIf ==
    ASSUME NEW from \in Lists, NEW a \in Nat, NEW b \in Nat, NEW new \in Trees, new.tag = "if",
           new.rhs = Len(from) + 1, NEW more, Cases(more, a, b)
    PROVE  /\ Kids(new, from \o more) = (<<new.lhs>> \o Present(a)) \o Present(b)
           /\ Stored(new, from \o more) /\ more \in Lists
<1>1. more \in Lists /\ Len(more) = 2 /\ more[1] = a /\ more[2] = b
  BY DEF Lists, Cases
<1>. DEFINE long == from \o more
<1>2. /\ Len(from) \in Nat /\ Len(long) = Len(from) + 2
      /\ long[Len(from) + 1] = a /\ long[Len(from) + 2] = b
  <2>1. 1 \in 1 .. Len(more) /\ 2 \in 1 .. Len(more)
    BY <1>1
  <2>2. /\ Len(long) = Len(from) + Len(more) /\ Len(from) \in Nat
        /\ \A i \in 1 .. Len(more) : long[Len(from) + i] = more[i]
    BY <1>1, Joined
  <2>3. long[Len(from) + 1] = more[1] /\ long[Len(from) + 2] = more[2]
    BY <2>1, <2>2
  <2>. QED
    BY <1>1, <2>2, <2>3
<1>. HIDE DEF long
<1>3. long[new.rhs] = a /\ long[new.rhs + 1] = b /\ new.rhs > 0 /\ new.rhs < Len(long)
  BY <1>2
<1>4. Kids(new, long) = (<<new.lhs>> \o Present(a)) \o Present(b)
  BY <1>3 DEF Kids, Operators
<1>5. Stored(new, long)
  BY <1>3 DEF Stored
<1>. QED
  BY <1>1, <1>4, <1>5 DEF long

\* An if, whose cases are written.
LEMMA IfWhole ==
    ASSUME Fine, NEW at \in {"then", "otherwise"}, Resuming(at),
           NEW a \in Nat, NEW b \in Nat, Conditional(a, b),
           Present(Top.node) \o Present(a) \o Present(b) = Held(Top) \o Present(result)
    PROVE  Whole'
<1>1. /\ Standing(nodes, extra, Top, Tail(calls), result, input) /\ Top.at = at /\ calls # <<>>
      /\ result # Invalid /\ result \in Nat
  BY ReturnedNow DEF Resuming
<1>2. Begins(Top) /\ Top.node \in Nat /\ Len(input) \in Nat \ {0} /\ Formed(Top, nodes, input) /\ extra \in Lists
  BY <1>1, NowFacts
<1>3. UNCHANGED input /\ extra' = extra \o <<a, b>> /\ ReturnNode("if", Top.node, Start)
  BY DEF Conditional
<1>4. Start = Len(extra) + 1 /\ Start \in Nat
  BY <1>2, StartIs
<1>. DEFINE new == Node("if", Top.node, Start)
            more == <<a, b>>
<1>5. new \in Trees /\ new.tag = "if" /\ new.lhs = Top.node /\ new.rhs = Len(extra) + 1
  <2>1. Begins(Top) /\ Len(input') \in Nat \ {0} /\ "if" \in Tags
    BY <1>2, <1>3 DEF Tags
  <2>. QED
    BY <1>2, <1>4, <2>1, NodeIs
<1>6. new = Node("if", Top.node, Start) /\ more = <<a, b>> /\ extra' = extra \o more
  BY <1>3
<1>. HIDE DEF new, more
<1>7. /\ Kids(new, extra \o more) = (<<new.lhs>> \o Present(a)) \o Present(b)
      /\ Stored(new, extra \o more) /\ more \in Lists
  <2>1. extra \in Lists /\ new \in Trees /\ new.tag = "if" /\ new.rhs = Len(extra) + 1
    BY <1>2, <1>5
  <2>2. Cases(more, a, b)
    BY <1>6 DEF Cases
  <2>. QED
    BY <2>1, <2>2, KidsOfIf
<1>8. Top.node # Invalid
  BY <1>1, <1>2 DEF Formed
<1>9. Kids(new, extra') = Held(Top) \o Present(result) /\ Stored(new, extra')
  BY <1>5, <1>6, <1>7, <1>8 DEF Present
<1>10. "if" \in TagOf(input[Top.token])
  <2>1. input[Top.token] = "if"
    BY <1>1, <1>2 DEF Formed, Outside, Starting, Opener
  <2>. QED
    BY <2>1 DEF TagOf
<1>11. Skips(input', input) /\ Top.at \notin Outside /\ "if" \in Tags
  BY <1>1, <1>3, StillSkips DEF Outside, Starting, Tags
<1>. QED
  BY <1>1, <1>2, <1>3, <1>4, <1>6, <1>7, <1>9, <1>10, <1>11, NodeLater

LEMMA ThenReturned ==
    ASSUME Fine, Resuming("then"), Conditional(result, Invalid)
    PROVE  Whole'
<1>1. Top.at = "then" /\ calls # <<>> /\ result \in Nat /\ result # Invalid /\ Invalid \in Nat
  BY ReturnedNow DEF Resuming, Invalid
<1>2. Top.node \in Nat /\ Formed(Top, nodes, input)
  BY <1>1, NowFacts
<1>3. Top.node # Invalid /\ Top.list = <<>>
  BY <1>1, <1>2 DEF Formed
<1>4. Held(Top) = Present(Top.node)
  BY <1>1, <1>2, <1>3, HeldNode DEF Present
<1>5. Present(Top.node) \o Present(result) \o Present(Invalid) = Held(Top) \o Present(result)
  <2>1. Present(Top.node) \in Lists /\ Present(result) \in Lists /\ Present(Invalid) = <<>>
    BY <1>1, <1>2, PresentFacts
  <2>. DEFINE both == Present(Top.node) \o Present(result)
  <2>2. both \in Seq(Nat)
    BY <2>1, Joined DEF Lists
  <2>. HIDE DEF both
  <2>3. both \o <<>> = both
    BY <2>2, ConcatEmptySeq
  <2>. QED
    BY <1>4, <2>1, <2>3 DEF both
<1>. QED
  BY <1>1, <1>5, IfWhole

LEMMA OneIn ==
    ASSUME NEW list \in Lists, Len(list) = 1
    PROVE  list = <<list[1]>> /\ 1 \in DOMAIN list /\ list[1] \in Nat
<1>1. list \in Seq(Nat) /\ DOMAIN list = 1 .. 1 /\ list[1] \in Nat
  BY LengthOf DEF Lists
<1>. DEFINE one == <<list[1]>>
<1>2. one \in Seq(Nat) /\ Len(one) = 1 /\ one[1] = list[1]
  BY <1>1
<1>. HIDE DEF one
<1>3. list = one
  BY <1>1, <1>2, SeqEqual
<1>. QED
  BY <1>1, <1>3 DEF one

LEMMA ElseReturned ==
    ASSUME Fine, Resuming("otherwise"), Conditional(Top.list[1], result)
    PROVE  Whole'
<1>1. /\ Top.at = "otherwise" /\ calls # <<>> /\ result \in Nat /\ result # Invalid
      /\ Standing(nodes, extra, Top, Tail(calls), result, input)
  BY ReturnedNow DEF Resuming
<1>2. /\ Top.node \in Nat /\ Formed(Top, nodes, input) /\ Top.list \in Lists /\ Top \in Frames
      /\ nodes \in Woods
  BY <1>1, NowFacts DEF Begins
<1>3. Len(Top.list) = 1
  BY <1>1, <1>2 DEF Formed
<1>4. Top.list = <<Top.list[1]>> /\ 1 \in DOMAIN Top.list /\ Top.list[1] \in Nat
  BY <1>2, <1>3, OneIn
<1>5. Top.list[1] # Invalid
  <2>1. Holds(Top, nodes, extra, Len(input))
    BY <1>1 DEF Standing, Rooted, ForestOf
  <2>2. Top.list[1] \in DOMAIN nodes
    BY <1>1, <1>2, <1>4, <2>1, HoldsParts
  <2>. QED
    BY <1>2, <2>2, TreeFacts DEF Invalid
<1>6. Present(Top.list[1]) = Top.list
  BY <1>4, <1>5 DEF Present
<1>7. Held(Top) = Present(Top.node) \o Top.list
  BY <1>1, HeldPlain
<1>8. Present(Top.node) \o Present(Top.list[1]) \o Present(result) = Held(Top) \o Present(result)
  BY <1>6, <1>7
<1>. QED
  BY <1>1, <1>4, <1>8, IfWhole

LEMMA ElseBegins ==
    ASSUME Fine, Resuming("then"), Peek = "else", Advance, Silent,
           Goes([Top EXCEPT !.at = "else", !.list = <<result>>]), result' = Pending
    PROVE  Whole'
<1>. DEFINE g == [Top EXCEPT !.at = "else", !.list = <<result>>]
<1>1. /\ Returned("then") /\ Top.at = "then" /\ calls # <<>> /\ result \in Nat /\ result # Invalid
  BY ReturnedNow DEF Resuming
<1>2. Begins(Top) /\ Top.node \in Nat /\ Formed(Top, nodes, input)
  BY <1>1, NowFacts
<1>3. calls' = <<g>> \o Tail(calls) /\ UNCHANGED <<nodes, extra, language>>
  BY DEF Goes, Silent
<1>4. g = AtList(Top, "else", <<result>>) /\ <<result>> \in Lists /\ "else" \in Points
  BY <1>1 DEF AtList, Lists, Points
<1>. HIDE DEF g
<1>5. Same(g, Top) /\ g.at = "else" /\ g.node = Top.node /\ g.list = <<result>>
  <2>. DEFINE list == <<result>>
  <2>1. g = AtList(Top, "else", list) /\ list \in Lists
    BY <1>4
  <2>. HIDE DEF list
  <2>2. Same(g, Top) /\ g.at = "else" /\ g.node = Top.node /\ g.list = list
    BY <1>2, <1>4, <2>1, FrameList
  <2>. QED
    BY <2>2 DEF list
<1>6. Top.node # Invalid /\ Top.list = <<>>
  BY <1>1, <1>2 DEF Formed
<1>7. Held(g) = Held(Top) \o <<result>>
  <2>1. Held(g) = Present(g.node) \o g.list
    BY <1>5, HeldPlain
  <2>2. Held(Top) = <<Top.node>>
    BY <1>1, <1>2, <1>6, HeldNode
  <2>. QED
    BY <1>5, <1>6, <2>1, <2>2 DEF Present
<1>8. Skips(input', input)
  BY <1>3, ColonSkips DEF Punctuation
<1>9. Formed(g, nodes, input')
  <2>1. Formed(Top, nodes, input')
    BY <1>1, <1>8, FormedNow
  <2>2. g.token = Top.token /\ g.first = Top.first
    BY <1>5 DEF Same
  <2>3. Opener("else") = Opener("then") /\ Len(g.list) = 1
    BY <1>5 DEF Opener
  <2>. QED
    BY <1>1, <1>5, <1>6, <2>1, <2>2, <2>3 DEF Formed, Outside, Starting
<1>10. "then" \notin Outside /\ g.at \notin Outside /\ g.at # "parameter"
  BY <1>5 DEF Outside, Starting
<1>. QED
  BY <1>1, <1>3, <1>5, <1>7, <1>8, <1>9, <1>10, ResumeGoes

LEMMA ParseConditionalWhole ==
    ASSUME Fine, ParseConditional
    PROVE  Whole'
<1>1. CASE Condition("if", "if")
  BY <1>1, ConditionWhole
<1>2. CASE Resuming("if") /\ Body([Top EXCEPT !.at = "then", !.node = result])
  BY <1>2, BodyWhole
<1>3. CASE Resuming("then") /\ Conditional(result, Invalid)
  BY <1>3, ThenReturned
<1>4. CASE /\ Resuming("then") /\ Peek = "else"
           /\ Advance /\ Silent
           /\ Goes([Top EXCEPT !.at = "else", !.list = <<result>>])
           /\ result' = Pending
  BY <1>4, ElseBegins
<1>5. CASE Entering("else") /\ Body([Top EXCEPT !.at = "otherwise"])
  <2>. DEFINE frame == [Top EXCEPT !.at = "otherwise"]
  <2>1. \/ reported'
        \/ /\ Skips(input', input) /\ UNCHANGED <<nodes, extra>>
           /\ Calls(Called("stmt", Lowest, Invalid, Len(input')), frame)
    <3>1. Body(frame)
      BY <1>5
    <3>. HIDE DEF frame
    <3>. QED
      BY <3>1, BodyCalls
  <2>. QED
    BY <1>5, <2>1, RestCalled, ErrorLater
<1>6. CASE /\ Entering("else") /\ Peek = "if"
           /\ UNCHANGED input /\ Silent
           /\ Calls(Statement, [Top EXCEPT !.at = "otherwise"])
  <2>1. Calls(Called("stmt", Lowest, Invalid, Len(input')), [Top EXCEPT !.at = "otherwise"])
    BY <1>6 DEF Statement
  <2>2. Skips(input', input) /\ UNCHANGED <<nodes, extra>>
    BY <1>6, StillSkips DEF Silent
  <2>. QED
    BY <1>6, <2>1, <2>2, RestCalled
<1>7. CASE Resuming("otherwise") /\ Conditional(Top.list[1], result)
  BY <1>7, ElseReturned
<1>. QED
  BY <1>1, <1>2, <1>3, <1>4, <1>5, <1>6, <1>7 DEF ParseConditional

\* A statement that is an expression.
LEMMA ExpressionWhole ==
    ASSUME Fine, Entering("stmt"), UNCHANGED input, Silent, Goes(Expression(Lowest)), UNCHANGED result
    PROVE  Whole'
<1>. DEFINE g == Expression(Lowest)
            rest == Tail(calls)
<1>1. /\ Standing(nodes, extra, Top, rest, Invalid, input) /\ Top.at = "stmt" /\ calls # <<>>
      /\ UNCHANGED <<nodes, extra, input>> /\ result' = Pending
      /\ calls' = <<g>> \o rest
  BY EnteringNow DEF Silent, Goes
<1>2. /\ Begins(Top) /\ Top.token = Len(input) /\ Formed(Top, nodes, input) /\ Len(input) \in Nat \ {0}
      /\ Lowest \in Nat
  BY <1>1, NowFacts DEF Starting, Lowest
<1>3. /\ g.at = "expr" /\ g.node = Invalid /\ g.list = <<>> /\ g.first = Len(input)
      /\ Begins(g) /\ Formed(g, nodes, input)
  BY <1>1, <1>2, CalleeFormed DEF Expression
<1>. HIDE DEF g, rest
<1>4. Top.node = Invalid /\ Top.list = <<>> /\ Top.first = Len(input)
  BY <1>1, <1>2 DEF Formed
<1>5. Held(g) = Held(Top)
  <2>1. Held(g) = <<>>
    BY <1>3, HeldNothing
  <2>2. Held(Top) = <<>>
    BY <1>1, <1>4, HeldNothing
  <2>. QED
    BY <2>1, <2>2
<1>6. g.first = Top.first /\ Reach(g) = Len(input) /\ g.at # "program" /\ g.at # "parameter"
  BY <1>3, <1>4 DEF Reach, Outside, Starting
<1>7. Kept(nodes, Own(g) \cup Begun(rest), input)
  <2>1. Own(g) = {} /\ Own(Top) = {}
    BY <1>1, <1>3 DEF Own, Outside, Starting
  <2>. QED
    BY <1>1, <2>1 DEF Standing
<1>8. Standing(nodes, extra, g, rest, Invalid, input)
  <2>1. Len(input) \in Nat /\ g.first = Len(input) /\ Reach(g) = Len(input)
    BY <1>2, <1>3, <1>6
  <2>2. g.first <= Reach(g) /\ Reach(g) <= Len(input)
    BY <2>1
  <2>3. Follows(input, input)
    BY <1>2, FollowsItself
  <2>. QED
    BY <1>1, <1>3, <1>5, <1>6, <1>7, <2>2, <2>3, StandingMoves
<1>. QED
  BY <1>1, <1>6, <1>8, GoesLater

LEMMA ParseStmtWhole ==
    ASSUME Fine, ParseStmt
    PROVE  Whole'
<1>1. CASE /\ Entering("stmt") /\ Peek = "break"
           /\ Advance /\ Stays
           /\ ReturnNode("break", Invalid, Invalid)
  <2>1. /\ Standing(nodes, extra, Top, Tail(calls), Invalid, input) /\ Top.at = "stmt" /\ calls # <<>>
    BY <1>1, EnteringNow
  <2>2. Top.token = Len(input)
    BY <2>1, NowFacts DEF Starting
  <2>3. Len(input') = Len(input) + 1 /\ \A t \in 1 .. Len(input) : input'[t] = input[t]
    BY <1>1, AdvancesBy DEF Stays
  <2>4. "break" \in Leaves /\ input[Len(input)] = "break" /\ UNCHANGED extra
    BY <1>1 DEF Leaves, Peek, Stays
  <2>. QED
    BY <1>1, <2>1, <2>2, <2>3, <2>4, LeafLater
<1>2. CASE /\ Entering("stmt") /\ UNCHANGED input /\ Silent
           /\ Goes(Expression(Lowest)) /\ UNCHANGED result
  BY <1>2, ExpressionWhole
<1>. QED
  BY <1>1, <1>2, ParseBlockWhole, ParseWhileLoopWhole, ParseConditionalWhole, ParseReturnWhole
  DEF ParseStmt

--------------------------------------------------------------------------------
(* The program *)

\* A statement is kept.
LEMMA StatementKept ==
    ASSUME Fine, Resuming("program"), Goes([Top EXCEPT !.list = Append(@, result)]),
           result' = Pending, UNCHANGED input, Silent
    PROVE  Whole'
<1>. DEFINE g == [Top EXCEPT !.list = Append(@, result)]
            f == Top
            rest == Tail(calls)
<1>1. /\ Standing(nodes, extra, f, rest, result, input) /\ f.at = "program" /\ calls # <<>>
      /\ result \in Nat /\ result # Invalid
  BY ReturnedNow DEF Resuming
<1>2. /\ Begins(f) /\ f \in Frames /\ Formed(f, nodes, input) /\ f.list \in Lists
      /\ Len(input) \in Nat \ {0}
  BY <1>1, NowFacts DEF Begins
<1>3. calls' = <<g>> \o rest /\ UNCHANGED <<nodes, extra, input>>
  BY DEF Goes, Silent
<1>4. Append(f.list, result) \in Seq(Nat)
  BY <1>1, <1>2, Appends DEF Lists
<1>5. /\ g \in Frames /\ g.at = "program" /\ g.node = f.node /\ g.list = Append(f.list, result)
      /\ g.token = f.token /\ g.first = f.first
  <2>. DEFINE list == Append(f.list, result)
  <2>1. g = [f EXCEPT !.list = list] /\ list \in Seq(Nat)
    BY <1>4
  <2>. HIDE DEF list, g, f
  <2>2. g \in Frames /\ g.at = f.at /\ g.node = f.node /\ g.list = list /\ g.token = f.token /\ g.first = f.first
    BY <1>2, <2>1 DEF Frames
  <2>. QED
    BY <1>1, <2>2 DEF list
<1>. HIDE DEF g, f, rest
<1>6. Begins(g) /\ Reach(g) = f.first /\ Reach(f) = f.first /\ g.at = f.at
  BY <1>1, <1>2, <1>5 DEF Begins, Reach, Outside
<1>7. Held(g) = Held(f) \o <<result>>
  BY <1>1, <1>2, <1>5, HeldAppends
<1>8. Formed(g, nodes, input)
  BY <1>1, <1>2, <1>5 DEF Formed, Outside
<1>9. Kept(nodes, Own(g) \cup Begun(rest), input)
  <2>1. Own(g) = {} /\ Own(f) = {}
    BY <1>1, <1>5 DEF Own, Outside
  <2>. QED
    BY <1>1, <2>1 DEF Standing
<1>10. Standing(nodes, extra, g, rest, Invalid, input)
  <2>1. g.first <= Reach(g) /\ Reach(g) <= Len(input)
    <3>1. Reach(f) <= Len(input) /\ f.first \in Nat
      BY <1>1, <1>2, ReachIsToken DEF Standing, Rooted, ForestOf, Holds
    <3>. QED
      BY <1>5, <1>6, <3>1
  <2>2. Follows(input, input)
    BY <1>2, FollowsItself
  <2>. QED
    BY <1>1, <1>5, <1>6, <1>7, <1>8, <1>9, <2>1, <2>2, StandingTakes
<1>. QED
  BY <1>3, <1>5, <1>10, GoesLater

\* The program's block says nothing of a token.
LEMMA KeptEnds ==
    ASSUME NEW tree \in Woods, NEW new \in Trees, NEW begun, NEW read, Kept(tree, begun, read),
           new.tag = "block"
    PROVE  Kept(tree \o <<new>>, begun, read)
<1>1. \A t \in 1 .. (Len(read) - 1) : ~ Represents(new, t, read)
  <2>. SUFFICES ASSUME NEW t \in 1 .. (Len(read) - 1) PROVE ~ Represents(new, t, read)
    OBVIOUS
  <2>1. read[t] \in Known
    BY DEF Kept
  <2>. QED
    BY <2>1 DEF Represents, TagOf, Known, Operators, Prefixes, Punctuation
<1>2. begun \ begun = {} /\ begun \subseteq begun
  OBVIOUS
<1>. QED
  BY <1>1, <1>2, KeptBuilds

LEMMA ProgramReturned ==
    ASSUME Fine, Entering("program"), UNCHANGED <<language, input, reported>>,
           extra' = extra \o Top.list, ReturnNode("block", Start, Len(Top.list))
    PROVE  Whole'
<1>. DEFINE f == Top
            list == f.list
            new == Node("block", Start, Len(list))
            g == [f EXCEPT !.at = "lhs", !.node = Invalid, !.list = <<>>]
<1>1. /\ Standing(nodes, extra, f, Tail(calls), Invalid, input) /\ f.at = "program" /\ calls # <<>>
  BY EnteringNow
<1>2. /\ Begins(f) /\ f \in Frames /\ Formed(f, nodes, input) /\ list \in Lists
      /\ Len(input) \in Nat \ {0} /\ extra \in Lists /\ nodes \in Woods /\ Len(nodes) \in Nat
  BY <1>1, NowFacts DEF Begins
<1>3. /\ Tail(calls) = <<>>
      /\ ForestOf(nodes, extra, f, <<>>, Invalid, Len(input)) /\ Spans(nodes, Len(input))
      /\ Kept(nodes, Own(f) \cup Begun(Tail(calls)), input)
  BY <1>1 DEF Standing, Rooted
<1>4. Start = Len(extra) + 1 /\ Start \in Nat /\ Len(list) \in Nat
  BY <1>2, StartIs, LengthOf
<1>5. /\ new \in Trees /\ new.tag = "block" /\ new.lhs = Start /\ new.rhs = Len(list)
      /\ new.first = f.first /\ new.last = Len(input') - 1
  <2>1. Begins(Top) /\ Len(input') \in Nat \ {0} /\ "block" \in Tags
    BY <1>2 DEF Tags
  <2>. QED
    BY <1>4, <2>1, NodeIs
<1>6. nodes' = nodes \o <<new>> /\ calls' = <<>> /\ result' = Len(nodes) + 1
  <2>1. Len(<<new>>) = 1
    OBVIOUS
  <2>. QED
    BY <1>3, <2>1 DEF ReturnNode, ReturnNodes, Push, Return
<1>7. extra' = extra \o list /\ input' = input
  OBVIOUS
<1>8. Same(g, f) /\ g.at = "lhs" /\ g.node = Invalid /\ g.list = <<>>
  <2>1. g = [f EXCEPT !.at = "lhs", !.node = Invalid, !.list = <<>>] /\ Begins(f)
    BY <1>2
  <2>. HIDE DEF g, f
  <2>. QED
    BY <2>1, FrameReturning
<1>. HIDE DEF new, g
<1>9. Held(f) = list
  <2>1. f.node = Invalid
    BY <1>1, <1>2 DEF Formed
  <2>. QED
    BY <1>1, <1>2, <2>1, HeldList
<1>. HIDE DEF list, f
<1>10. Held(g) = <<>> /\ Held(g) \in Lists
  <2>1. <<>> \in Lists
    BY DEF Lists
  <2>2. Held(g) = <<>>
    BY <1>8, HeldNothing
  <2>. QED
    BY <2>1, <2>2
<1>11. Held(f) = Held(g) \o list
  BY <1>2, <1>9, <1>10, ConcatEmptySeq DEF Lists
<1>12. /\ g \in Frames /\ g.first = f.first /\ Reach(g) = f.first /\ f.first \in Nat
       /\ f.first <= Len(input)
  <2>1. f.first \in Nat /\ Reach(f) <= Len(input) /\ Reach(f) = f.first
    BY <1>1, <1>2, <1>3, ReachIsToken DEF ForestOf, Holds, Reach, Outside
  <2>. QED
    BY <1>8, <2>1 DEF Same, Begins, Reach, Outside
<1>13. Kids(new, extra \o list) = list \o Present(Invalid) /\ Stored(new, extra \o list)
  <2>1. Kids(new, extra \o list) = list /\ Stored(new, extra \o list)
    BY <1>2, <1>4, <1>5, KidsOfList
  <2>2. list \o <<>> = list
    BY <1>2, ConcatEmptySeq DEF Lists
  <2>. QED
    BY <2>1, <2>2 DEF Present
<1>14. ForestOf(nodes \o <<new>>, extra \o list, g, <<>>, Len(nodes) + 1, Len(input))
  <2>1. \A i \in DOMAIN Held(g) : nodes[Held(g)[i]].last < new.first
    BY <1>10
  <2>2. \A i \in DOMAIN list : new.first <= nodes[list[i]].first
    BY <1>3, <1>5, <1>9 DEF ForestOf, Holds
  <2>3. <<>> \in Stacks /\ Invalid \in Nat /\ new.last = Len(input) - 1 /\ Len(input) \in Nat
    BY <1>2, <1>5, <1>7 DEF Stacks, Invalid
  <2>4. g.first <= Reach(g) /\ Reach(g) <= Len(input) /\ Reach(g) <= new.first
    BY <1>5, <1>12
  <2>. QED
    BY <1>2, <1>3, <1>5, <1>10, <1>11, <1>12, <1>13, <2>1, <2>2, <2>3, <2>4, Built
<1>15. Forest(nodes', extra', calls', result', Len(input'))
  <2>1. <<>> \in Stacks
    BY DEF Stacks
  <2>2. Forest(nodes \o <<new>>, extra \o list, <<>>, Len(nodes) + 1, Len(input))
    BY <1>10, <1>12, <1>14, <2>1, Passed
  <2>. QED
    BY <1>6, <1>7, <2>2
<1>16. Kept(nodes', Begun(calls'), input')
  <2>1. Own(f) \cup Begun(Tail(calls)) = Begun(calls')
    BY <1>1, <1>3, <1>6 DEF Own, Outside
  <2>2. Kept(nodes, Begun(calls'), input)
    BY <1>3, <2>1
  <2>. DEFINE begun == Begun(calls')
  <2>3. Kept(nodes, begun, input)
    BY <2>2
  <2>. HIDE DEF begun
  <2>4. Kept(nodes \o <<new>>, begun, input)
    BY <1>2, <1>5, <2>3, KeptEnds
  <2>. QED
    BY <1>6, <1>7, <2>4 DEF begun
<1>17. result' # Invalid /\ result' # Pending /\ calls' = <<>>
  BY <1>2, <1>6 DEF Invalid, Pending
<1>18. Given' = result'
  BY <1>17 DEF Given
<1>. QED
  BY <1>15, <1>16, <1>17, <1>18 DEF Whole

LEMMA ParseWhole ==
    ASSUME Fine, Parse
    PROVE  Whole'
<1>1. CASE NextElement("program", "eof", Statement)
  <2>1. /\ Entering("program") /\ UNCHANGED input /\ Silent /\ Lowest \in Nat
        /\ Calls(Called("stmt", Lowest, Invalid, Len(input')), Top)
    BY <1>1 DEF NextElement, Statement, Lowest
  <2>. QED
    BY <2>1, NextElementWhole
<1>2. CASE /\ Resuming("program")
           /\ Goes([Top EXCEPT !.list = Append(@, result)])
           /\ result' = Pending
           /\ UNCHANGED input /\ Silent
  BY <1>2, StatementKept
<1>3. CASE /\ Entering("program") /\ Peek = "eof"
           /\ UNCHANGED <<language, input, reported>>
           /\ extra' = extra \o Top.list
           /\ ReturnNode("block", Start, Len(Top.list))
  BY <1>3, ProgramReturned
<1>. QED
  BY <1>1, <1>2, <1>3 DEF Parse

--------------------------------------------------------------------------------
(* All steps *)

\* An error that was reported stays reported.
Reports == reported' = reported \/ reported' = TRUE

LEMMA Reported ==
    ASSUME Next
    PROVE  Reports
<1>1. NextElement("program", "eof", Statement) \/ Parse => Reports
  BY DEF Parse, NextElement, Silent, Reports
<1>2. \A frame : Body(frame) => Reports
  BY DEF Body, Silent, Error, Reports
<1>3. \A keyword, at : Condition(keyword, at) => Reports
  BY DEF Condition, Silent, Reports
<1>4. \A element, at : Keep(element, at) => Reports
  BY DEF Keep, Reports
<1>5. \A at, closer : Closing(at, closer) => Reports
  BY DEF Closing, Reports
<1>6. ParseBlock => Reports
  BY <1>4, <1>5 DEF ParseBlock, NextElement, Silent, Reports
<1>7. ParseStmt => Reports
  <2>1. ParseWhileLoop => Reports
    BY <1>2, <1>3 DEF ParseWhileLoop, Stays, Reports
  <2>2. ParseConditional => Reports
    BY <1>2, <1>3 DEF ParseConditional, Conditional, Silent, Reports
  <2>3. ParseReturn => Reports
    BY <1>3 DEF ParseReturn, Stays, Reports
  <2>. QED
    BY <1>6, <2>1, <2>2, <2>3 DEF ParseStmt, Stays, Silent, Reports
<1>8. ParseExpr => Reports
  BY DEF ParseExpr, Silent, Reports
<1>9. ParseCall => Reports
  BY <1>4, <1>5 DEF ParseCall, KeepElement, NextElement, Silent, Reports
<1>10. ParseArray => Reports
  BY <1>4, <1>5 DEF ParseArray, KeepElement, NextElement, Silent, Reports
<1>11. ParseMap => Reports
  BY <1>4, <1>5 DEF ParseMap, KeepElement, Error, Silent, Reports
<1>12. ParseFunction => Reports
  BY <1>4 DEF ParseFunction, Error, Silent, Stays, Reports
<1>13. ParseUnaryExpr => Reports
  BY <1>10, <1>11, <1>12 DEF ParseUnaryExpr, ParseIdentifier, ParseLiteral, ParseParentheses,
     ParseUnaryOp, UnknownExpression, Error, Silent, Stays, Reports
<1>14. \A new : CloseSubscript(new) => Reports
  BY DEF CloseSubscript, Reports
<1>15. ParseBinaryExpr => Reports
  <2>1. ParseSubscriptAccess => Reports
    BY <1>14 DEF ParseSubscriptAccess, Silent, Reports
  <2>2. ParseMemberAccess => Reports
    BY DEF ParseMemberAccess, Error, Silent, Stays, Reports
  <2>3. \A tokens, at : BinaryOp(tokens, at) => Reports
    BY DEF BinaryOp, Silent, Stays, Reports
  <2>. QED
    BY <1>9, <2>1, <2>2, <2>3 DEF ParseBinaryExpr, ParseAssign, ParseBinaryOp
<1>16. Fail => Reports
  BY DEF Fail, Silent, Reports
<1>. QED
  BY <1>1, <1>7, <1>8, <1>13, <1>15, <1>16 DEF Next

LEMMA NextWhole ==
    ASSUME Reading, Whole, [Next]_vars
    PROVE  Whole'
<1>1. CASE UNCHANGED vars
  BY <1>1 DEF vars, Whole, Given, Top
<1>2. CASE Next /\ reported
  <2>1. reported'
    BY <1>2, Reported DEF Reports
  <2>. QED
    BY <2>1, ErrorLater
<1>3. CASE Next /\ ~reported
  <2>1. Fine
    BY <1>3 DEF Fine
  <2>2. ~ Fail
    BY <1>3 DEF Fail, Whole
  <2>. QED
    BY <1>3, <2>1, <2>2, ParseWhole, ParseStmtWhole, ParseExprWhole, ParseUnaryExprWhole,
       ParseBinaryExprWhole DEF Next
<1>. QED
  BY <1>1, <1>2, <1>3

LEMMA InitWhole ==
    ASSUME Init
    PROVE  Whole
<1>. DEFINE f == [at |-> "program", precedence |-> Lowest, node |-> Invalid,
                  list |-> <<>>, token |-> 1, first |-> 1]
<1>1. /\ Len(input) = 1 /\ nodes = <<>> /\ extra = <<>> /\ calls = <<f>> /\ result = Pending
      /\ DOMAIN nodes = {} /\ DOMAIN calls = {1} /\ calls[1] = f /\ Len(calls) = 1
  BY DEF Init
<1>2. f \in Frames /\ f.at = "program" /\ f.node = Invalid /\ f.list = <<>> /\ f.first = 1 /\ f.token = 1
  BY DEF Frames, Points, Lowest, Invalid
<1>. HIDE DEF f
<1>3. Held(f) = <<>> /\ Reach(f) = 1
  BY <1>2, HeldNothing DEF Reach, Outside
<1>4. Given = Invalid /\ result # Invalid
  BY <1>1, <1>2 DEF Given, Top, Pending, Invalid
<1>5. Forest(nodes, extra, calls, Given, Len(input))
  BY <1>1, <1>2, <1>3, <1>4 DEF Forest, Holds, InOrder
<1>6. Spans(nodes, Len(input)) /\ Kept(nodes, Begun(calls), input)
  BY <1>1 DEF Spans, Kept
<1>7. Formed(f, nodes, input)
  BY <1>2 DEF Formed, Outside
<1>. QED
  BY <1>1, <1>2, <1>4, <1>5, <1>6, <1>7 DEF Whole

--------------------------------------------------------------------------------
(* Which operators bind *)

\* What OperatorsBind and StatementsMaximal say of one node.
Settled(node, tree, lists, read) ==
    /\ node.tag \in Operators =>
          /\ (/\ node.lhs # Invalid /\ tree[node.lhs].tag \in Operators
              /\ tree[node.lhs].last = node.source - 1)
              => PrecedenceOf(tree[node.lhs].tag) >= PrecedenceOf(node.tag)
          /\ (tree[node.rhs].tag \in Operators /\ tree[node.rhs].first = node.source + 1)
              => \/ PrecedenceOf(tree[node.rhs].tag) > PrecedenceOf(node.tag)
                 \/ node.tag = "=" /\ tree[node.rhs].tag = "="
    /\ node.tag \in {"neg", "not"} =>
          ~ (tree[node.rhs].tag \in Operators /\ tree[node.rhs].first = node.source + 1)
    /\ (node.tag = "if" /\ lists[node.rhs + 1] = Invalid) => read[node.last + 1] # "else"
    /\ node.tag = "block" =>
          \A i \in DOMAIN Kids(node, lists) : Quiet(tree[Kids(node, lists)[i]], read)
Settles(tree, lists, read) == \A n \in DOMAIN tree : Settled(tree[n], tree, lists, read)

\* What an activation has collected binds as it must.
Poised(f, tree, read) ==
    /\ (/\ f.at \in {"binary", "assigned", "rhs"}
        /\ tree[f.node].tag \in Operators /\ tree[f.node].last + 1 = f.token)
        => PrecedenceOf(read[f.token]) <= PrecedenceOf(tree[f.node].tag)
    /\ f.at \in {"program", "statements"} =>
          \A i \in DOMAIN f.list : Quiet(tree[f.list[i]], read)

Chain(frames, tree, read) ==
    /\ frames # <<>> => frames[Len(frames)].at = "program"
    /\ \A c \in DOMAIN frames : /\ c < Len(frames) => Linked(frames[c], frames[c + 1], read)
                                /\ Poised(frames[c], tree, read)

LEMMA BindingNow ==
    ASSUME Binding, ~reported
    PROVE  /\ Settles(nodes, extra, input) /\ Chain(calls, nodes, input)
           /\ calls # <<>> /\ result # Pending => Answers(nodes[result], Top, input)
<1>1. OperatorsBind /\ StatementsMaximal
  BY DEF Binding
<1>2. Settles(nodes, extra, input)
  BY <1>1 DEF Settles, Settled, OperatorsBind, StatementsMaximal, Children, Quiet
<1>3. Chain(calls, nodes, input)
  BY DEF Binding, Chain, Poised
<1>. QED
  BY <1>2, <1>3 DEF Binding

LEMMA BindingLater ==
    ASSUME Settles(nodes', extra', input'), Chain(calls', nodes', input'),
           calls' # <<>> /\ result' # Pending => Answers(nodes'[result'], Head(calls'), input')
    PROVE  Binding'
<1>1. OperatorsBind'
  BY DEF Settles, Settled, OperatorsBind
<1>2. StatementsMaximal'
  BY DEF Settles, Settled, StatementsMaximal, Children, Quiet
<1>. QED
  BY <1>1, <1>2 DEF Binding, Chain, Poised, Top

LEMMA ReportedBinding ==
    ASSUME reported'
    PROVE  Binding'
BY DEF Binding

LEMMA ChainTop ==
    ASSUME NEW f \in Frames, NEW rest \in Stacks, NEW tree, NEW read
    PROVE  Chain(<<f>> \o rest, tree, read)
              <=> /\ rest = <<>> => f.at = "program"
                  /\ rest # <<>> => Linked(f, rest[1], read)
                  /\ Poised(f, tree, read)
                  /\ Chain(rest, tree, read)
<1>. DEFINE all == <<f>> \o rest
<1>1. /\ Len(rest) \in Nat /\ DOMAIN rest = 1 .. Len(rest)
      /\ Len(all) = Len(rest) + 1 /\ DOMAIN all = 1 .. (Len(rest) + 1) /\ all # <<>>
      /\ all[1] = f
      /\ \A c \in 1 .. Len(rest) : all[c + 1] = rest[c]
      /\ \A c \in 2 .. (Len(rest) + 1) : c - 1 \in 1 .. Len(rest) /\ all[c] = rest[c - 1]
  BY Stacked
<1>2. rest = <<>> <=> Len(rest) = 0
  BY DEF Stacks
<1>. HIDE DEF all
<1>3. ASSUME Chain(all, tree, read)
      PROVE  /\ rest = <<>> => f.at = "program"
             /\ rest # <<>> => Linked(f, rest[1], read)
             /\ Poised(f, tree, read)
             /\ Chain(rest, tree, read)
  <2>1. 1 \in DOMAIN all
    BY <1>1
  <2>2. Poised(f, tree, read)
    BY <1>1, <1>3, <2>1 DEF Chain
  <2>3. rest = <<>> => f.at = "program"
    BY <1>1, <1>2, <1>3 DEF Chain
  <2>4. rest # <<>> => Linked(f, rest[1], read)
    <3>. SUFFICES ASSUME rest # <<>> PROVE Linked(f, rest[1], read)
      OBVIOUS
    <3>1. 1 < Len(all) /\ 1 \in 1 .. Len(rest)
      BY <1>1, <1>2
    <3>2. Linked(all[1], all[1 + 1], read)
      BY <1>3, <2>1, <3>1 DEF Chain
    <3>. QED
      BY <1>1, <3>1, <3>2
  <2>5. rest # <<>> => rest[Len(rest)].at = "program"
    <3>. SUFFICES ASSUME rest # <<>> PROVE rest[Len(rest)].at = "program"
      OBVIOUS
    <3>1. Len(rest) \in 1 .. Len(rest)
      BY <1>1, <1>2
    <3>. QED
      BY <1>1, <1>3, <3>1 DEF Chain
  <2>6. ASSUME NEW c \in DOMAIN rest
        PROVE  /\ c < Len(rest) => Linked(rest[c], rest[c + 1], read)
               /\ Poised(rest[c], tree, read)
    <3>1. c + 1 \in DOMAIN all /\ all[c + 1] = rest[c]
      BY <1>1
    <3>2. Poised(rest[c], tree, read)
      BY <1>3, <3>1 DEF Chain
    <3>3. ASSUME c < Len(rest) PROVE Linked(rest[c], rest[c + 1], read)
      <4>1. c + 1 < Len(all) /\ c + 1 \in 1 .. Len(rest)
        BY <1>1, <3>3
      <4>2. Linked(all[c + 1], all[(c + 1) + 1], read)
        BY <1>3, <3>1, <4>1 DEF Chain
      <4>. QED
        BY <1>1, <3>1, <4>1, <4>2
    <3>. QED
      BY <3>2, <3>3
  <2>. QED
    BY <2>2, <2>3, <2>4, <2>5, <2>6 DEF Chain
<1>4. ASSUME rest = <<>> => f.at = "program", rest # <<>> => Linked(f, rest[1], read),
             Poised(f, tree, read), Chain(rest, tree, read)
      PROVE  Chain(all, tree, read)
  <2>1. all[Len(all)].at = "program"
    <3>1. CASE rest = <<>>
      BY <1>1, <1>2, <1>4, <3>1
    <3>2. CASE rest # <<>>
      <4>1. Len(rest) \in 1 .. Len(rest)
        BY <1>1, <1>2, <3>2
      <4>. QED
        BY <1>1, <1>4, <3>2, <4>1 DEF Chain
    <3>. QED
      BY <3>1, <3>2
  <2>2. ASSUME NEW c \in DOMAIN all
        PROVE  /\ c < Len(all) => Linked(all[c], all[c + 1], read)
               /\ Poised(all[c], tree, read)
    <3>1. CASE c = 1
      <4>1. 1 < Len(all) => rest # <<>> /\ 1 \in 1 .. Len(rest)
        BY <1>1, <1>2
      <4>2. 1 < Len(all) => all[1 + 1] = rest[1]
        BY <1>1, <4>1
      <4>. QED
        BY <1>1, <1>4, <3>1, <4>1, <4>2
    <3>2. CASE c # 1
      <4>1. c - 1 \in DOMAIN rest /\ all[c] = rest[c - 1]
        BY <1>1, <3>2
      <4>2. Poised(all[c], tree, read)
        BY <1>4, <4>1 DEF Chain
      <4>3. ASSUME c < Len(all) PROVE Linked(all[c], all[c + 1], read)
        <5>1. c \in 1 .. Len(rest) /\ c - 1 < Len(rest)
          BY <1>1, <3>2, <4>3
        <5>2. Linked(rest[c - 1], rest[(c - 1) + 1], read)
          BY <1>4, <4>1, <5>1 DEF Chain
        <5>3. all[c + 1] = rest[c] /\ (c - 1) + 1 = c
          BY <1>1, <5>1
        <5>. QED
          BY <4>1, <5>2, <5>3
      <4>. QED
        BY <4>2, <4>3
    <3>. QED
      BY <3>1, <3>2
  <2>. QED
    BY <2>1, <2>2 DEF Chain
<1>. QED
  BY <1>3, <1>4 DEF all

--------------------------------------------------------------------------------
(* What binds stays bound *)

Keeps(grown, tree) == \A n \in DOMAIN tree : n \in DOMAIN grown /\ grown[n] = tree[n]
Ends(tree, read) == \A n \in DOMAIN tree : tree[n].last < Len(read)

LEMMA QuietStays ==
    ASSUME NEW node \in Trees, NEW read, NEW more, node.last < Len(read), Follows(more, read)
    PROVE  Quiet(node, read) <=> Quiet(node, more)
<1>1. node.last + 1 \in 1 .. Len(read)
  BY DEF Trees, Follows
<1>2. more[node.last + 1] = read[node.last + 1]
  BY <1>1 DEF Follows
<1>. QED
  BY <1>2 DEF Quiet

LEMMA KidsIn ==
    ASSUME NEW node \in Trees, NEW n, NEW tree, NEW lists, n \in DOMAIN tree, tree \in Woods,
           Family(node, n, tree, lists)
    PROVE  /\ node.tag \in Operators => node.lhs \in DOMAIN tree /\ node.rhs \in DOMAIN tree
           /\ node.tag \in {"neg", "not"} => node.rhs \in DOMAIN tree
           /\ \A i \in DOMAIN Kids(node, lists) : Kids(node, lists)[i] \in DOMAIN tree
<1>1. DOMAIN tree = 1 .. Len(tree) /\ Len(tree) \in Nat
  BY TreeFacts
<1>2. \A i \in DOMAIN Kids(node, lists) : Kids(node, lists)[i] \in DOMAIN tree
  BY <1>1 DEF Family
<1>3. ASSUME node.tag \in Operators PROVE node.lhs \in DOMAIN tree /\ node.rhs \in DOMAIN tree
  <2>1. Kids(node, lists) = <<node.lhs>> \o <<node.rhs>>
    BY <1>3, KidsOfTwo
  <2>2. /\ 1 \in DOMAIN Kids(node, lists) /\ 2 \in DOMAIN Kids(node, lists)
        /\ Kids(node, lists)[1] = node.lhs /\ Kids(node, lists)[2] = node.rhs
    BY <2>1
  <2>. QED
    BY <1>2, <2>1, <2>2
<1>4. ASSUME node.tag \in {"neg", "not"} PROVE node.rhs \in DOMAIN tree
  <2>1. Kids(node, lists) = <<node.rhs>>
    BY <1>4 DEF Kids, Operators
  <2>2. 1 \in DOMAIN Kids(node, lists)
    BY <2>1
  <2>. QED
    BY <1>2, <2>1, <2>2
<1>. QED
  BY <1>2, <1>3, <1>4

LEMMA SettledStays ==
    ASSUME NEW tree \in Woods, NEW grown, NEW lists \in Lists, NEW more \in Lists,
           NEW read, NEW longer, NEW n \in DOMAIN tree,
           Settled(tree[n], tree, lists, read), Family(tree[n], n, tree, lists),
           Stored(tree[n], lists), Ends(tree, read), Keeps(grown, tree), Follows(longer, read)
    PROVE  Settled(grown[n], grown, lists \o more, longer)
<1>. DEFINE node == tree[n]
<1>1. node \in Trees /\ grown[n] = node /\ node.last < Len(read)
  BY TreeFacts DEF Keeps, Ends
<1>2. Kids(node, lists \o more) = Kids(node, lists)
  BY <1>1, KidsStay
<1>3. /\ node.tag \in Operators => node.lhs \in DOMAIN tree /\ node.rhs \in DOMAIN tree
      /\ node.tag \in {"neg", "not"} => node.rhs \in DOMAIN tree
      /\ \A i \in DOMAIN Kids(node, lists) : Kids(node, lists)[i] \in DOMAIN tree
  BY <1>1, KidsIn
<1>4. Settled(node, tree, lists, read) /\ Stored(node, lists)
  OBVIOUS
<1>5. \A p \in DOMAIN tree : grown[p] = tree[p] /\ (Quiet(tree[p], read) => Quiet(grown[p], longer))
  BY TreeFacts, QuietStays DEF Keeps, Ends
<1>. HIDE DEF node
<1>6. node.tag = "if" => (lists \o more)[node.rhs + 1] = lists[node.rhs + 1]
  <2>. SUFFICES ASSUME node.tag = "if" PROVE (lists \o more)[node.rhs + 1] = lists[node.rhs + 1]
    OBVIOUS
  <2>1. node.rhs > 0 /\ node.rhs < Len(lists) /\ node.rhs \in Nat
    BY <1>1, <1>4 DEF Stored, Trees
  <2>2. node.rhs + 1 \in 1 .. Len(lists)
    BY <2>1, LengthOf
  <2>. QED
    BY <2>2, Joined
<1>7. longer[node.last + 1] = read[node.last + 1]
  <2>1. node.last + 1 \in 1 .. Len(read)
    BY <1>1 DEF Trees, Follows
  <2>. QED
    BY <2>1 DEF Follows
<1>8. node.tag \in Operators =>
          /\ (/\ node.lhs # Invalid /\ grown[node.lhs].tag \in Operators
              /\ grown[node.lhs].last = node.source - 1)
              => PrecedenceOf(grown[node.lhs].tag) >= PrecedenceOf(node.tag)
          /\ (grown[node.rhs].tag \in Operators /\ grown[node.rhs].first = node.source + 1)
              => \/ PrecedenceOf(grown[node.rhs].tag) > PrecedenceOf(node.tag)
                 \/ node.tag = "=" /\ grown[node.rhs].tag = "="
  BY <1>3, <1>4, <1>5 DEF Settled
<1>9. node.tag \in {"neg", "not"} =>
          ~ (grown[node.rhs].tag \in Operators /\ grown[node.rhs].first = node.source + 1)
  BY <1>3, <1>4, <1>5 DEF Settled
<1>10. node.tag = "block" =>
          \A i \in DOMAIN Kids(node, lists) : Quiet(grown[Kids(node, lists)[i]], longer)
  BY <1>3, <1>4, <1>5 DEF Settled
<1>11. (node.tag = "if" /\ (lists \o more)[node.rhs + 1] = Invalid) => longer[node.last + 1] # "else"
  BY <1>4, <1>6, <1>7 DEF Settled
<1>. QED
  BY <1>1, <1>2, <1>8, <1>9, <1>10, <1>11 DEF Settled

LEMMA PoisedStays ==
    ASSUME NEW f \in Frames, NEW tree \in Woods, NEW lists, NEW grown, NEW read, NEW more, NEW size,
           Poised(f, tree, read), Holds(f, tree, lists, size), Formed(f, tree, read),
           f.token <= Len(read), f.token # 0, Ends(tree, read), Keeps(grown, tree), Follows(more, read)
    PROVE  Poised(f, grown, more)
<1>1. /\ f.at # "arrow" /\ f.node # Invalid => f.node \in DOMAIN tree
      /\ f.at \notin {"colon", "end"} => \A i \in DOMAIN f.list : f.list[i] \in DOMAIN tree
  BY HoldsParts DEF Formed
<1>2. \A p \in DOMAIN tree : grown[p] = tree[p] /\ (Quiet(tree[p], read) => Quiet(grown[p], more))
  BY TreeFacts, QuietStays DEF Keeps, Ends
<1>3. more[f.token] = read[f.token]
  <2>1. f.token \in 1 .. Len(read)
    BY DEF Frames, Follows
  <2>. QED
    BY <2>1 DEF Follows
<1>4. f.at \in {"binary", "assigned", "rhs"} => f.node \in DOMAIN tree
  BY <1>1 DEF Formed
<1>. QED
  BY <1>1, <1>2, <1>3, <1>4 DEF Poised

LEMMA LinkedStays ==
    ASSUME NEW f \in Frames, NEW b \in Frames, NEW read, NEW more, Linked(f, b, read), Follows(more, read),
           f.token \in 1 .. Len(read), b.token \in 1 .. Len(read)
    PROVE  Linked(f, b, more)
<1>1. more[f.token] = read[f.token] /\ more[b.token] = read[b.token]
  BY DEF Follows
<1>. QED
  BY <1>1 DEF Linked, Rank

\* Nodes are added that bind as they must.
Extends ==
    /\ Follows(input', input) /\ Keeps(nodes', nodes)
    /\ \E more \in Lists : extra' = extra \o more
    /\ \A n \in DOMAIN nodes' : n \in DOMAIN nodes \/ Settled(nodes'[n], nodes', extra', input')

Below == Tail(calls)[1]

LEMMA BindingFacts ==
    ASSUME Fine, Binding, calls # <<>>
    PROVE  /\ Top \in Frames /\ Begins(Top) /\ Tail(calls) \in Stacks /\ calls = <<Top>> \o Tail(calls)
           /\ Formed(Top, nodes, input)
           /\ Settles(nodes, extra, input) /\ Chain(Tail(calls), nodes, input)
           /\ Poised(Top, nodes, input)
           /\ Tail(calls) = <<>> => Top.at = "program"
           /\ Tail(calls) # <<>> => /\ Linked(Top, Below, input) /\ Below \in Frames
                                    /\ Below.token \in 1 .. Len(input)
           /\ Top.token \in 1 .. Len(input) /\ Top.first \in Nat
           /\ Len(input) \in Nat \ {0} /\ nodes \in Woods /\ extra \in Lists
           /\ result # Pending => Answers(nodes[result], Top, input)
<1>1. /\ Begins(Top) /\ Formed(Top, nodes, input) /\ Tail(calls) \in Stacks
      /\ Len(input) \in Nat \ {0} /\ nodes \in Woods /\ extra \in Lists /\ Top \in Frames
  BY NowFacts DEF Begins
<1>2. calls = <<Top>> \o Tail(calls)
  <2>1. calls \in Stacks
    BY DEF Fine, Reading, Stacks
  <2>. QED
    BY <2>1, StackTop DEF Top
<1>3. /\ Settles(nodes, extra, input) /\ Chain(calls, nodes, input)
      /\ result # Pending => Answers(nodes[result], Top, input)
  BY BindingNow DEF Fine
<1>4. /\ Tail(calls) = <<>> => Top.at = "program"
      /\ Tail(calls) # <<>> => Linked(Top, Below, input)
      /\ Poised(Top, nodes, input) /\ Chain(Tail(calls), nodes, input)
  <2>. DEFINE f == Top
              rest == Tail(calls)
  <2>1. Chain(<<f>> \o rest, nodes, input) /\ f \in Frames /\ rest \in Stacks
    BY <1>1, <1>2, <1>3
  <2>. HIDE DEF f, rest
  <2>2. /\ rest = <<>> => f.at = "program"
        /\ rest # <<>> => Linked(f, rest[1], input)
        /\ Poised(f, nodes, input) /\ Chain(rest, nodes, input)
    BY <2>1, ChainTop
  <2>. QED
    BY <2>2 DEF f, rest, Below
<1>5. /\ Top.token \in 1 .. Len(input) /\ Top.first \in Nat
      /\ \A c \in 1 .. Len(Tail(calls)) : Tail(calls)[c] \in Frames /\ Tail(calls)[c].token \in 1 .. Len(input)
  <2>1. /\ Fits(Top, input, Len(nodes))
        /\ \A c \in 1 .. Len(Tail(calls)) : Fits(Tail(calls)[c], input, Len(nodes))
    BY TopFits DEF Fine
  <2>2. \A g : Fits(g, input, Len(nodes)) => g \in Frames /\ g.token \in 1 .. Len(input) /\ g.first \in Nat
    BY <1>1 DEF Fits, Frames
  <2>. QED
    BY <2>1, <2>2
<1>6. Tail(calls) # <<>> => Below \in Frames /\ Below.token \in 1 .. Len(input)
  <2>1. Tail(calls) # <<>> => 1 \in 1 .. Len(Tail(calls))
    BY <1>1 DEF Stacks
  <2>. QED
    BY <1>5, <2>1 DEF Below
<1>. QED
  BY <1>1, <1>2, <1>3, <1>4, <1>5, <1>6

LEMMA EndsNow ==
    ASSUME Fine, calls # <<>>
    PROVE  /\ Ends(nodes, input) /\ Holds(Top, nodes, extra, Len(input))
           /\ \A n \in DOMAIN nodes : Family(nodes[n], n, nodes, extra) /\ Stored(nodes[n], extra)
           /\ \A c \in DOMAIN Tail(calls) : /\ Holds(Tail(calls)[c], nodes, extra, Len(input))
                                            /\ Formed(Tail(calls)[c], nodes, input)
<1>1. Standing(nodes, extra, Top, Tail(calls), Given, input)
  BY StandingNow DEF Fine
<1>2. /\ ForestOf(nodes, extra, Top, Tail(calls), Given, Len(input))
      /\ Waiting1(Tail(calls), nodes, input)
  BY <1>1 DEF Standing, Rooted
<1>3. /\ Trunk(nodes, extra, Len(input)) /\ Holds(Top, nodes, extra, Len(input))
      /\ Waiting(nodes, extra, Tail(calls), Top.first, Given, Len(input))
  BY <1>2 DEF ForestOf
<1>. QED
  BY <1>2, <1>3 DEF Trunk, Waiting, Waiting1, Waits1, Ends

LEMMA RestStays ==
    ASSUME Fine, Binding, calls # <<>>, Extends
    PROVE  Settles(nodes', extra', input') /\ Chain(Tail(calls), nodes', input')
<1>. DEFINE rest == Tail(calls)
<1>1. /\ Settles(nodes, extra, input) /\ Chain(rest, nodes, input) /\ rest \in Stacks
      /\ nodes \in Woods /\ extra \in Lists
  BY BindingFacts
<1>2. /\ Ends(nodes, input)
      /\ \A n \in DOMAIN nodes : Family(nodes[n], n, nodes, extra) /\ Stored(nodes[n], extra)
      /\ \A c \in DOMAIN rest : /\ Holds(rest[c], nodes, extra, Len(input))
                                /\ Formed(rest[c], nodes, input)
  BY EndsNow
<1>3. /\ Follows(input', input) /\ Keeps(nodes', nodes)
      /\ \A n \in DOMAIN nodes' : n \in DOMAIN nodes \/ Settled(nodes'[n], nodes', extra', input')
  BY DEF Extends
<1>4. PICK more \in Lists : extra' = extra \o more
  BY DEF Extends
<1>5. \A c \in DOMAIN rest : rest[c] \in Frames /\ rest[c].token \in 1 .. Len(input)
  <2>1. DOMAIN rest = 1 .. Len(rest)
    BY <1>1 DEF Stacks
  <2>2. \A c \in 1 .. Len(Tail(calls)) : Fits(Tail(calls)[c], input, Len(nodes))
    BY TopFits DEF Fine
  <2>3. \A g : Fits(g, input, Len(nodes)) => g \in Frames /\ g.token \in 1 .. Len(input)
    BY <1>3 DEF Fits, Frames, Follows
  <2>. QED
    BY <2>1, <2>2, <2>3
<1>6. Settles(nodes', extra', input')
  <2>1. ASSUME NEW n \in DOMAIN nodes PROVE Settled(nodes'[n], nodes', extra', input')
    <3>1. Settled(nodes[n], nodes, extra, input)
      BY <1>1 DEF Settles
    <3>2. Settled(nodes'[n], nodes', extra \o more, input')
      BY <1>1, <1>2, <1>3, <3>1, SettledStays
    <3>. QED
      BY <1>4, <3>2
  <2>. QED
    BY <1>3, <2>1 DEF Settles
<1>. HIDE DEF rest
<1>7. Chain(rest, nodes', input')
  <2>1. rest # <<>> => rest[Len(rest)].at = "program"
    BY <1>1 DEF Chain
  <2>2. ASSUME NEW c \in DOMAIN rest
        PROVE  /\ c < Len(rest) => Linked(rest[c], rest[c + 1], input')
               /\ Poised(rest[c], nodes', input')
    <3>1. Poised(rest[c], nodes, input) /\ (c < Len(rest) => Linked(rest[c], rest[c + 1], input))
      BY <1>1 DEF Chain
    <3>2. rest[c].token <= Len(input) /\ rest[c].token # 0
      BY <1>5
    <3>3. Poised(rest[c], nodes', input')
      BY <1>1, <1>2, <1>3, <1>5, <3>1, <3>2, PoisedStays
    <3>4. c < Len(rest) => c + 1 \in DOMAIN rest
      BY <1>1 DEF Stacks
    <3>5. c < Len(rest) => Linked(rest[c], rest[c + 1], input')
      BY <1>3, <1>5, <3>1, <3>4, LinkedStays
    <3>. QED
      BY <3>3, <3>5
  <2>. QED
    BY <2>1, <2>2 DEF Chain
<1>. QED
  BY <1>6, <1>7 DEF rest

--------------------------------------------------------------------------------
(* What a step shows of the calls, and what binds *)

LEMMA BindGoes ==
    ASSUME Fine, Binding, calls # <<>>, Extends, NEW g \in Frames,
           Tail(calls) = <<>> => g.at = "program",
           Tail(calls) # <<>> => Linked(g, Below, input'),
           Poised(g, nodes', input'), calls' = <<g>> \o Tail(calls), result' = Pending
    PROVE  Binding'
<1>. DEFINE rest == Tail(calls)
<1>1. Settles(nodes', extra', input') /\ Chain(rest, nodes', input') /\ rest \in Stacks
  BY RestStays, BindingFacts
<1>2. /\ rest = <<>> => g.at = "program"
      /\ rest # <<>> => Linked(g, rest[1], input')
      /\ calls' = <<g>> \o rest
  BY DEF Below
<1>. HIDE DEF rest
<1>3. Chain(<<g>> \o rest, nodes', input')
  BY <1>1, <1>2, ChainTop
<1>. QED
  BY <1>1, <1>2, <1>3, BindingLater

LEMMA BindCalls ==
    ASSUME Fine, Binding, calls # <<>>, Extends, NEW g \in Frames, NEW k \in Frames,
           Tail(calls) = <<>> => g.at = "program",
           Tail(calls) # <<>> => Linked(g, Below, input'),
           Poised(g, nodes', input'), Linked(k, g, input'), Poised(k, nodes', input'),
           calls' = <<k, g>> \o Tail(calls), result' = Pending
    PROVE  Binding'
<1>. DEFINE rest == Tail(calls)
<1>1. Settles(nodes', extra', input') /\ Chain(rest, nodes', input') /\ rest \in Stacks
  BY RestStays, BindingFacts
<1>2. /\ rest = <<>> => g.at = "program"
      /\ rest # <<>> => Linked(g, rest[1], input')
      /\ calls' = <<k, g>> \o rest
  BY DEF Below
<1>. HIDE DEF rest
<1>3. Chain(<<g>> \o rest, nodes', input')
  BY <1>1, <1>2, ChainTop
<1>. DEFINE more == <<g>> \o rest
<1>4. more \in Stacks /\ more # <<>> /\ more[1] = g
  BY <1>1, Stacked
<1>5. calls' = <<k>> \o more /\ Chain(more, nodes', input')
  BY <1>1, <1>2, <1>3, TwoOn
<1>. HIDE DEF more
<1>6. Chain(<<k>> \o more, nodes', input')
  BY <1>4, <1>5, ChainTop
<1>. QED
  BY <1>1, <1>2, <1>5, <1>6, BindingLater

LEMMA BindReturns ==
    ASSUME Fine, Binding, calls # <<>>, Extends, calls' = Tail(calls),
           Tail(calls) # <<>> => Answers(nodes'[result'], Below, input')
    PROVE  Binding'
<1>1. Settles(nodes', extra', input') /\ Chain(Tail(calls), nodes', input') /\ Tail(calls) \in Stacks
  BY RestStays, BindingFacts
<1>2. Tail(calls) # <<>> => Head(calls') = Below
  BY <1>1 DEF Below, Stacks
<1>. QED
  BY <1>1, <1>2, BindingLater

--------------------------------------------------------------------------------
(* Steps that say nothing of operators *)

\* Points of one kind of function.
Kin(a, b) == /\ a \in Infix <=> b \in Infix
             /\ a \in Unary <=> b \in Unary
             /\ a \in Statements <=> b \in Statements
             /\ a \in {"expr", "lhs"} <=> b \in {"expr", "lhs"}
             /\ a = "program" <=> b = "program"
Plain == Points \ {"program", "statements", "binary", "assigned", "rhs", "lhs", "operand", "returned"}

LEMMA LinkedKin ==
    ASSUME NEW f, NEW g, NEW b, NEW read, Linked(f, b, read), Same(g, f), Kin(g.at, f.at)
    PROVE  Linked(g, b, read)
BY DEF Linked, Same, Kin

LEMMA PlainPoised ==
    ASSUME NEW g, g.at \notin {"program", "statements", "binary", "assigned", "rhs"}, NEW tree, NEW read
    PROVE  Poised(g, tree, read)
BY DEF Poised

LEMMA PlainLinked ==
    ASSUME NEW k, NEW g, g.at \in Plain, k.at \in {"expr", "stmt"}, NEW read
    PROVE  Linked(k, g, read)
BY DEF Linked, Plain, Infix

LEMMA Reads1 ==
    ASSUME Fine, calls # <<>>, UNCHANGED input \/ Advance \/ SkipComma
    PROVE  Follows(input', input) /\ Len(input') \in Nat \ {0}
<1>1. Len(input) \in Nat \ {0} /\ input \in Seq(language.tokens \cup {"eof"})
  BY NowFacts DEF Fine, Reading
<1>2. CASE UNCHANGED input
  BY <1>1, <1>2 DEF Follows
<1>3. CASE Advance
  <2>1. PICK t \in Tokens : input' = Append(input, t)
    BY <1>3 DEF Advance
  <2>2. t \in language.tokens \cup {"eof"}
    BY <2>1 DEF Tokens
  <2>. QED
    BY <1>1, <2>1, <2>2 DEF Follows
<1>. QED
  BY <1>2, <1>3 DEF SkipComma

LEMMA ExtendsNone ==
    ASSUME Fine, calls # <<>>, UNCHANGED <<nodes, extra>>, Follows(input', input)
    PROVE  Extends
<1>1. extra \in Lists /\ <<>> \in Lists
  BY NowFacts DEF Lists
<1>2. extra' = extra \o <<>>
  BY <1>1, ConcatEmptySeq DEF Lists
<1>. QED
  BY <1>1, <1>2 DEF Extends, Keeps

LEMMA ExtendsOne ==
    ASSUME nodes \in Woods, NEW new \in Trees, nodes' = nodes \o <<new>>,
           NEW more \in Lists, extra' = extra \o more, Follows(input', input),
           Settled(new, nodes', extra', input')
    PROVE  Extends /\ nodes'[Len(nodes) + 1] = new /\ Len(nodes) + 1 \in Nat \ {0}
<1>. DEFINE grown == nodes \o <<new>>
            last == Len(nodes) + 1
<1>1. /\ DOMAIN grown = 1 .. last /\ DOMAIN nodes = 1 .. Len(nodes)
      /\ Len(nodes) \in Nat /\ grown[last] = new
      /\ \A n \in DOMAIN nodes : grown[n] = nodes[n]
      /\ \A n \in DOMAIN grown : n \in DOMAIN nodes \/ n = last
  BY TreeGrows
<1>2. nodes' = grown
  OBVIOUS
<1>. HIDE DEF grown
<1>3. Keeps(nodes', nodes)
  BY <1>1, <1>2 DEF Keeps
<1>4. \A n \in DOMAIN nodes' : n \in DOMAIN nodes \/ Settled(nodes'[n], nodes', extra', input')
  BY <1>1, <1>2
<1>5. nodes'[last] = new /\ last \in Nat \ {0}
  BY <1>1, <1>2
<1>6. Extends
  BY <1>3, <1>4 DEF Extends
<1>. QED
  BY <1>5, <1>6

LEMMA ExtendsTwo ==
    ASSUME nodes \in Woods, NEW one \in Trees, NEW new \in Trees, nodes' = (nodes \o <<one>>) \o <<new>>,
           NEW more \in Lists, extra' = extra \o more, Follows(input', input),
           Settled(one, nodes', extra', input'), Settled(new, nodes', extra', input')
    PROVE  Extends /\ nodes'[Len(nodes \o <<one>>) + 1] = new
<1>. DEFINE tree == nodes \o <<one>>
            grown == tree \o <<new>>
<1>1. /\ tree \in Woods /\ DOMAIN tree = 1 .. (Len(nodes) + 1) /\ DOMAIN nodes = 1 .. Len(nodes)
      /\ Len(tree) = Len(nodes) + 1 /\ Len(nodes) \in Nat /\ tree[Len(nodes) + 1] = one
      /\ \A n \in DOMAIN nodes : tree[n] = nodes[n]
      /\ \A n \in DOMAIN tree : n \in DOMAIN nodes \/ n = Len(nodes) + 1
  BY TreeGrows
<1>. HIDE DEF tree
<1>2. /\ DOMAIN grown = 1 .. (Len(tree) + 1) /\ DOMAIN tree = 1 .. Len(tree)
      /\ grown[Len(tree) + 1] = new
      /\ \A n \in DOMAIN tree : grown[n] = tree[n]
      /\ \A n \in DOMAIN grown : n \in DOMAIN tree \/ n = Len(tree) + 1
  BY <1>1, TreeGrows
<1>3. nodes' = grown
  BY DEF tree
<1>. HIDE DEF grown
<1>4. \A n \in DOMAIN nodes : n \in DOMAIN tree
  BY <1>1
<1>5. Keeps(nodes', nodes)
  <2>1. \A n \in DOMAIN tree : n \in DOMAIN grown
    BY <1>1, <1>2
  <2>. QED
    BY <1>1, <1>2, <1>3, <1>4, <2>1 DEF Keeps
<1>6. Len(nodes) + 1 \in DOMAIN tree
  BY <1>1
<1>7. \A n \in DOMAIN nodes' : n \in DOMAIN nodes \/ Settled(nodes'[n], nodes', extra', input')
  BY <1>1, <1>2, <1>3, <1>6
<1>. QED
  BY <1>2, <1>3, <1>5, <1>7 DEF Extends, tree

LEMMA TopOn ==
    ASSUME Fine, Binding, calls # <<>>, Extends, NEW g, Same(g, Top), Kin(g.at, Top.at)
    PROVE  /\ g \in Frames
           /\ Tail(calls) = <<>> => g.at = "program"
           /\ Tail(calls) # <<>> => Linked(g, Below, input')
<1>1. /\ Top \in Frames /\ Top.token \in 1 .. Len(input)
      /\ Tail(calls) = <<>> => Top.at = "program"
      /\ Tail(calls) # <<>> => /\ Linked(Top, Below, input) /\ Below \in Frames
                               /\ Below.token \in 1 .. Len(input)
  BY BindingFacts
<1>2. Tail(calls) # <<>> => Linked(Top, Below, input')
  BY <1>1, LinkedStays DEF Extends
<1>. QED
  BY <1>1, <1>2, LinkedKin DEF Same, Begins, Kin

LEMMA PlainGoes ==
    ASSUME Fine, Binding, calls # <<>>, Extends, NEW g, Same(g, Top), g.at \in Plain,
           Kin(g.at, Top.at), calls' = <<g>> \o Tail(calls), result' = Pending
    PROVE  Binding'
<1>1. Poised(g, nodes', input')
  BY PlainPoised DEF Plain
<1>. QED
  BY <1>1, TopOn, BindGoes

\* What the called function's activation is.
LEMMA CalleeIs ==
    ASSUME NEW from \in {"expr", "stmt", "unary"}, NEW p \in Nat, Len(input') \in Nat \ {0}, NEW k,
           k = Called(from, p, Invalid, Len(input'))
    PROVE  /\ k \in Frames /\ k.at = from /\ k.precedence = p /\ k.first = Len(input')
           /\ k.token = Len(input') /\ \A tree, read : Poised(k, tree, read)
<1>1. /\ k \in Frames /\ k.at = from /\ k.precedence = p /\ k.first = Len(input')
      /\ k.token = Len(input')
  BY CalleeFormed
<1>. QED
  BY <1>1, PlainPoised

LEMMA PlainCalls ==
    ASSUME Fine, Binding, calls # <<>>, Extends, NEW g, Same(g, Top), g.at \in Plain,
           Kin(g.at, Top.at), NEW from \in {"expr", "stmt"}, NEW p \in Nat, NEW k,
           k = Called(from, p, Invalid, Len(input')),
           calls' = <<k, g>> \o Tail(calls), result' = Pending
    PROVE  Binding'
<1>1. Poised(g, nodes', input')
  BY PlainPoised DEF Plain
<1>2. Len(input') \in Nat \ {0}
  BY BindingFacts DEF Extends, Follows
<1>3. k \in Frames /\ k.at = from /\ Poised(k, nodes', input')
  BY <1>2, CalleeIs
<1>4. Linked(k, g, input')
  BY <1>3, PlainLinked
<1>. QED
  BY <1>1, <1>3, <1>4, TopOn, BindCalls

LEMMA OpenBinds ==
    ASSUME Fine, Binding, NEW from, NEW to, Entering(from), Advance, GoesTo(to), Silent,
           UNCHANGED result, to \in Plain, Kin(to, from)
    PROVE  Binding'
<1>. DEFINE g == [Top EXCEPT !.at = to]
<1>1. calls # <<>> /\ Top.at = from /\ calls' = <<g>> \o Tail(calls) /\ result' = Pending
  BY DEF Entering, GoesTo, Goes
<1>2. Extends
  BY <1>1, Reads1, ExtendsNone DEF Silent
<1>3. Same(g, Top) /\ g.at = to
  <2>1. Begins(Top) /\ to \in Points
    BY <1>1, NowFacts DEF Plain
  <2>. QED
    BY <2>1, FrameAt
<1>. HIDE DEF g
<1>. QED
  BY <1>1, <1>2, <1>3, PlainGoes

LEMMA CallsBinds ==
    ASSUME Fine, Binding, calls # <<>>, NEW to \in Plain, Kin(to, Top.at),
           UNCHANGED input \/ Advance \/ SkipComma, UNCHANGED <<nodes, extra>>,
           NEW from \in {"expr", "stmt"}, NEW p \in Nat,
           Calls(Called(from, p, Invalid, Len(input')), [Top EXCEPT !.at = to])
    PROVE  Binding'
<1>. DEFINE g == [Top EXCEPT !.at = to]
            k == Called(from, p, Invalid, Len(input'))
<1>1. calls' = <<k, g>> \o Tail(calls) /\ result' = Pending
  BY DEF Calls
<1>2. Extends
  BY Reads1, ExtendsNone
<1>3. Same(g, Top) /\ g.at = to
  <2>1. Begins(Top) /\ to \in Points
    BY NowFacts DEF Plain
  <2>. QED
    BY <2>1, FrameAt
<1>4. k = Called(from, p, Invalid, Len(input'))
  OBVIOUS
<1>. HIDE DEF g, k
<1>. QED
  BY <1>1, <1>2, <1>3, <1>4, PlainCalls

LEMMA NextBinds ==
    ASSUME Fine, Binding, NEW at, Entering(at), UNCHANGED input, Silent,
           NEW from \in {"expr", "stmt"}, NEW p \in Nat,
           \/ at \in Plain
           \/ at \in {"program", "statements"} /\ from = "stmt",
           Calls(Called(from, p, Invalid, Len(input')), Top)
    PROVE  Binding'
<1>. DEFINE k == Called(from, p, Invalid, Len(input'))
<1>1. /\ calls' = <<k, Top>> \o Tail(calls) /\ result' = Pending /\ calls # <<>> /\ Top.at = at
  BY DEF Calls, Entering
<1>2. k = Called(from, p, Invalid, Len(input'))
  OBVIOUS
<1>. HIDE DEF k
<1>3. Extends
  BY <1>1, Reads1, ExtendsNone DEF Silent
<1>4. Poised(Top, nodes', input') /\ Same(Top, Top) /\ Kin(Top.at, Top.at)
  BY <1>1, BindingFacts DEF Silent, Same, Kin
<1>5. Len(input') \in Nat \ {0}
  BY <1>1, Reads1
<1>6. k \in Frames /\ k.at = from /\ Poised(k, nodes', input')
  BY <1>2, <1>5, CalleeIs
<1>7. Linked(k, Top, input')
  <2>1. CASE at \in Plain
    BY <1>1, <1>6, <2>1, PlainLinked
  <2>2. CASE at \in {"program", "statements"} /\ from = "stmt"
    BY <1>1, <1>6, <2>2 DEF Linked, Infix, Statements
  <2>. QED
    BY <2>1, <2>2
<1>8. /\ Top \in Frames
      /\ Tail(calls) = <<>> => Top.at = "program"
      /\ Tail(calls) # <<>> => Linked(Top, Below, input')
  BY <1>1, <1>3, <1>4, TopOn
<1>. QED
  BY <1>1, <1>3, <1>4, <1>6, <1>7, <1>8, BindCalls

LEMMA KeepBinds ==
    ASSUME Fine, Binding, calls # <<>>, NEW at \in Plain, Kin(at, Top.at),
           UNCHANGED input \/ Advance \/ SkipComma, NEW element \in Nat, Keep(element, at)
    PROVE  Binding'
<1>. DEFINE list == Append(Top.list, element)
            g == [Top EXCEPT !.at = at, !.list = Append(@, element)]
<1>1. CASE reported'
  BY <1>1, ReportedBinding
<1>2. CASE Goes(g) /\ result' = Pending
  <2>1. calls' = <<g>> \o Tail(calls) /\ UNCHANGED <<nodes, extra>>
    BY <1>2 DEF Goes, Keep
  <2>2. Begins(Top) /\ at \in Points /\ list \in Lists
    BY NowFacts, Appends DEF Plain
  <2>3. g = AtList(Top, at, list)
    BY DEF AtList
  <2>. HIDE DEF g, list
  <2>4. Same(g, Top) /\ g.at = at
    BY <2>2, <2>3, FrameList
  <2>5. Extends
    BY <2>1, Reads1, ExtendsNone
  <2>. QED
    BY <1>2, <2>1, <2>4, <2>5, PlainGoes
<1>. QED
  BY <1>1, <1>2 DEF Keep

\* A statement that is kept can not go on.
LEMMA StatementBinds ==
    ASSUME Fine, Binding, NEW at \in {"program", "statements"}, Returned(at),
           UNCHANGED <<nodes, extra, input>>, NEW g, Same(g, Top), g.at = at,
           g.list = Append(Top.list, result), calls' = <<g>> \o Tail(calls), result' = Pending
    PROVE  Binding'
<1>1. Top.at = at /\ calls # <<>> /\ result \in Nat /\ result # Pending /\ result # Invalid
  BY ReturnedNow
<1>2. Poised(Top, nodes, input) /\ Answers(nodes[result], Top, input) /\ Top.list \in Lists
  BY <1>1, BindingFacts, NowFacts
<1>3. Extends
  BY <1>1, Reads1, ExtendsNone
<1>4. Poised(g, nodes', input')
  <2>1. Quiet(nodes[result], input)
    BY <1>1, <1>2 DEF Answers
  <2>2. \A i \in DOMAIN Top.list : Quiet(nodes[Top.list[i]], input)
    BY <1>1, <1>2 DEF Poised
  <2>3. Top.list \in Seq(Nat)
    BY <1>2 DEF Lists
  <2>4. \A i \in DOMAIN g.list : (i \in DOMAIN Top.list /\ g.list[i] = Top.list[i]) \/ g.list[i] = result
    BY <1>1, <2>3
  <2>. QED
    BY <1>1, <2>1, <2>2, <2>4 DEF Poised
<1>5. Kin(g.at, Top.at)
  BY <1>1 DEF Kin
<1>. QED
  BY <1>1, <1>3, <1>4, <1>5, TopOn, BindGoes

--------------------------------------------------------------------------------
(* Nodes that are returned *)

LEMMA NodeBinds ==
    ASSUME Fine, Binding, calls # <<>>, UNCHANGED input \/ Advance \/ SkipComma,
           NEW more \in Lists, extra' = extra \o more,
           NEW tag \in Tags, NEW lhs \in Nat, NEW rhs \in Nat, ReturnNode(tag, lhs, rhs),
           NEW new, new = Node(tag, lhs, rhs),
           Settled(new, nodes', extra', input'), Tail(calls) # <<>> => Answers(new, Below, input')
    PROVE  Binding'
<1>1. nodes \in Woods /\ Begins(Top)
  BY NowFacts
<1>2. Follows(input', input) /\ Len(input') \in Nat \ {0}
  BY Reads1
<1>3. new \in Trees
  BY <1>1, <1>2, NodeMade
<1>4. nodes' = nodes \o <<new>> /\ calls' = Tail(calls) /\ result' = Len(nodes) + 1
  BY DEF ReturnNode, ReturnNodes, Push, Return
<1>5. Extends /\ nodes'[result'] = new
  BY <1>1, <1>2, <1>3, <1>4, ExtendsOne
<1>. QED
  BY <1>4, <1>5, BindReturns

Bare == Tags \ (Operators \cup {"neg", "not", "if", "block"})

LEMMA BareSettled ==
    ASSUME NEW node, node.tag \in Bare, NEW tree, NEW lists, NEW read
    PROVE  Settled(node, tree, lists, read)
BY DEF Settled, Bare

\* An operand or a statement is what its function's caller awaits.
LEMMA OperandAnswers ==
    ASSUME NEW f, NEW b, NEW read, NEW more, Linked(f, b, read), f.at \in Infix \cup Unary,
           NEW node \in Trees, node.tag \notin Operators, node.last = Len(more) - 1, Len(more) \in Nat \ {0}
    PROVE  Answers(node, b, more)
<1>1. node.last + 1 = Len(more)
  OBVIOUS
<1>2. b.at \notin {"assigned", "rhs", "operand", "program", "statements", "returned"}
  BY DEF Linked, Infix, Unary, Statements
<1>. QED
  BY <1>1, <1>2 DEF Answers

LEMMA StatementAnswers ==
    ASSUME NEW f, NEW b, NEW read, NEW more, Linked(f, b, read), f.at \in Statements,
           NEW node \in Trees, Quiet(node, more), node.last = Len(more) - 1, Len(more) \in Nat \ {0}
    PROVE  Answers(node, b, more)
<1>1. node.last + 1 = Len(more)
  OBVIOUS
<1>2. b.at \notin {"lhs", "assigned", "rhs", "operand", "returned"}
  BY DEF Linked, Infix, Unary, Statements
<1>. QED
  BY <1>1, <1>2 DEF Answers

\* A node that no operator is or waits for.
LEMMA BareBinds ==
    ASSUME Fine, Binding, calls # <<>>, UNCHANGED input \/ Advance \/ SkipComma,
           NEW more \in Lists, extra' = extra \o more,
           NEW tag \in Tags, NEW lhs \in Nat, NEW rhs \in Nat, ReturnNode(tag, lhs, rhs),
           \/ Top.at \in Infix \cup Unary /\ tag \in Bare
           \/ Top.at \in Statements /\ tag \in {"while", "break"}
    PROVE  Binding'
<1>. DEFINE new == Node(tag, lhs, rhs)
<1>1. nodes \in Woods /\ Begins(Top)
  BY NowFacts
<1>2. Follows(input', input) /\ Len(input') \in Nat \ {0}
  BY Reads1
<1>3. new = Node(tag, lhs, rhs)
  OBVIOUS
<1>. HIDE DEF new
<1>4. new \in Trees /\ new.tag = tag /\ new.last = Len(input') - 1
  BY <1>1, <1>2, <1>3, NodeMade
<1>5. new.tag \in Bare
  BY <1>4 DEF Bare, Tags, Operators
<1>6. Settled(new, nodes', extra', input')
  BY <1>5, BareSettled
<1>7. Tail(calls) # <<>> => Answers(new, Below, input')
  <2>. SUFFICES ASSUME Tail(calls) # <<>> PROVE Answers(new, Below, input')
    OBVIOUS
  <2>1. Linked(Top, Below, input)
    BY BindingFacts
  <2>2. CASE Top.at \in Infix \cup Unary /\ tag \in Bare
    <3>1. new.tag \notin Operators
      BY <1>5 DEF Bare
    <3>. QED
      BY <1>2, <1>4, <2>1, <2>2, <3>1, OperandAnswers
  <2>3. CASE Top.at \in Statements /\ tag \in {"while", "break"}
    <3>1. Quiet(new, input')
      BY <1>4, <2>3 DEF Quiet
    <3>. QED
      BY <1>2, <1>4, <2>1, <2>3, <3>1, StatementAnswers
  <2>. QED
    BY <2>2, <2>3
<1>. QED
  BY <1>3, <1>6, <1>7, NodeBinds

--------------------------------------------------------------------------------
(* The operations, once more *)

LEMMA NoneWritten ==
    ASSUME Fine, calls # <<>>, UNCHANGED extra
    PROVE  <<>> \in Lists /\ extra' = extra \o <<>>
BY NowFacts, ConcatEmptySeq DEF Lists

LEMMA BareLeaves ==
    ASSUME Fine, Binding, calls # <<>>, UNCHANGED input \/ Advance \/ SkipComma, UNCHANGED extra,
           NEW tag \in Tags, NEW lhs \in Nat, NEW rhs \in Nat, ReturnNode(tag, lhs, rhs),
           \/ Top.at \in Infix \cup Unary /\ tag \in Bare
           \/ Top.at \in Statements /\ tag \in {"while", "break"}
    PROVE  Binding'
<1>1. <<>> \in Lists /\ extra' = extra \o <<>>
  BY NoneWritten
<1>. QED
  BY <1>1, BareBinds

LEMMA KeepElementBinds ==
    ASSUME Fine, Binding, NEW from, NEW at \in Plain, KeepElement(from, at), Kin(at, from)
    PROVE  Binding'
<1>1. Top.at = from /\ calls # <<>> /\ result \in Nat
  BY ReturnedNow DEF KeepElement, Resuming
<1>. QED
  BY <1>1, KeepBinds DEF KeepElement

LEMMA BareList ==
    ASSUME Fine, Binding, NEW at, NEW closer, Closing(at, closer), at \in Infix \cup Unary,
           NEW tag \in Tags \cap Bare, NEW lhs \in Nat, NEW n \in Nat, ReturnNode(tag, lhs, n),
           NEW more \in Lists, extra' = extra \o more
    PROVE  Binding'
<1>1. Top.at = at /\ calls # <<>> /\ Advance
  BY DEF Closing, Entering
<1>. QED
  BY <1>1, BareBinds

LEMMA ParseArrayBinds ==
    ASSUME Fine, Binding, ParseArray
    PROVE  Binding'
<1>1. "array" \in Plain /\ Kin("array", "unary") /\ Kin("array", "array") /\ "array" \in Infix \cup Unary
  BY DEF Plain, Points, Kin, Infix, Unary, Statements
<1>2. CASE /\ Entering("unary") /\ Peek = "["
           /\ Advance /\ GoesTo("array")
           /\ Silent /\ UNCHANGED result
  BY <1>1, <1>2, OpenBinds
<1>3. CASE NextElement("array", "]", Expression(Lowest))
  BY <1>1, <1>3, NextBinds DEF NextElement, Expression, Lowest
<1>4. CASE KeepElement("array", "array")
  BY <1>1, <1>4, KeepElementBinds
<1>5. CASE /\ Closing("array", "]")
           /\ extra' = extra \o Top.list
           /\ ReturnNode("array", Start, Len(Top.list))
  <2>1. extra \in Lists /\ Top.list \in Lists
    BY <1>5, NowFacts DEF Closing, Entering
  <2>2. Len(Top.list) \in Nat /\ Start \in Nat
    BY <2>1, StartIs, LengthOf
  <2>3. "array" \in Tags \cap Bare
    BY DEF Bare, Tags, Operators
  <2>. QED
    BY <1>1, <1>5, <2>1, <2>2, <2>3, BareList
<1>. QED
  BY <1>2, <1>3, <1>4, <1>5 DEF ParseArray

LEMMA ParseCallBinds ==
    ASSUME Fine, Binding, ParseCall
    PROVE  Binding'
<1>1. /\ "arguments" \in Plain /\ Kin("arguments", "binary") /\ Kin("arguments", "arguments")
      /\ "arguments" \in Infix \cup Unary
  BY DEF Plain, Points, Kin, Infix, Unary, Statements
<1>2. CASE /\ Entering("binary") /\ Peek = "("
           /\ Advance /\ GoesTo("arguments")
           /\ Silent /\ UNCHANGED result
  BY <1>1, <1>2, OpenBinds
<1>3. CASE NextElement("arguments", ")", Expression(Lowest))
  BY <1>1, <1>3, NextBinds DEF NextElement, Expression, Lowest
<1>4. CASE KeepElement("arguments", "arguments")
  BY <1>1, <1>4, KeepElementBinds
<1>5. CASE /\ Closing("arguments", ")")
           /\ IF Top.list = <<>>
              THEN UNCHANGED extra /\ ReturnNode("call", Top.node, Invalid)
              ELSE /\ extra' = extra \o Counted(Top.list)
                   /\ ReturnNode("call", Top.node, Start)
  <2>1. extra \in Lists /\ Top.list \in Lists /\ Top.node \in Nat /\ calls # <<>>
    BY <1>5, NowFacts DEF Closing, Entering
  <2>2. Len(Top.list) \in Nat /\ Start \in Nat /\ Invalid \in Nat
    BY <2>1, StartIs, LengthOf DEF Invalid
  <2>3. "call" \in Tags \cap Bare
    BY DEF Bare, Tags, Operators
  <2>4. CASE Top.list = <<>>
    <3>1. <<>> \in Lists /\ extra' = extra \o <<>>
      BY <1>5, <2>1, <2>4, NoneWritten
    <3>2. ReturnNode("call", Top.node, Invalid) /\ Closing("arguments", ")")
      BY <1>5, <2>4
    <3>. QED
      BY <1>1, <2>1, <2>2, <2>3, <3>1, <3>2, BareList
  <2>5. CASE Top.list # <<>>
    <3>1. Counted(Top.list) \in Lists
      BY <2>1, <2>2 DEF Counted, Lists
    <3>2. ReturnNode("call", Top.node, Start) /\ Closing("arguments", ")") /\ extra' = extra \o Counted(Top.list)
      BY <1>5, <2>5
    <3>. QED
      BY <1>1, <2>1, <2>2, <2>3, <3>1, <3>2, BareList
  <2>. QED
    BY <2>4, <2>5
<1>. QED
  BY <1>2, <1>3, <1>4, <1>5 DEF ParseCall

LEMMA ParseMapBinds ==
    ASSUME Fine, Binding, ParseMap
    PROVE  Binding'
<1>1. /\ "pairs" \in Plain /\ "key" \in Plain /\ "value" \in Plain /\ Kin("pairs", "unary")
      /\ Kin("key", "pairs") /\ Kin("value", "key") /\ Kin("pairs", "value")
      /\ "pairs" \in Infix \cup Unary /\ "value" \in Points
  BY DEF Plain, Points, Kin, Infix, Unary, Statements
<1>2. CASE /\ Entering("unary") /\ Peek = "{"
           /\ Advance /\ GoesTo("pairs")
           /\ Silent /\ UNCHANGED result
  BY <1>1, <1>2, OpenBinds
<1>3. CASE /\ Entering("pairs") /\ Peek # "}"
           /\ UNCHANGED input /\ Silent
           /\ Calls(Expression(Lowest), [Top EXCEPT !.at = "key"])
  <2>1. Top.at = "pairs" /\ calls # <<>> /\ UNCHANGED <<nodes, extra>>
    BY <1>3 DEF Entering, Silent
  <2>2. Calls(Called("expr", Lowest, Invalid, Len(input')), [Top EXCEPT !.at = "key"])
    BY <1>3 DEF Expression
  <2>3. Lowest \in Nat
    BY DEF Lowest
  <2>. QED
    BY <1>1, <1>3, <2>1, <2>2, <2>3, CallsBinds
<1>4. CASE Resuming("key") /\ Peek # ":" /\ Error
  BY <1>4, ReportedBinding DEF Error
<1>5. CASE /\ Resuming("key") /\ Peek = ":"
           /\ Advance /\ Silent
           /\ Calls(Expression(Lowest), [Top EXCEPT !.at = "value", !.list = Append(@, result)])
  <2>. DEFINE list == Append(Top.list, result)
              g == [Top EXCEPT !.at = "value", !.list = Append(@, result)]
              k == Called("expr", Lowest, Invalid, Len(input'))
  <2>1. Top.at = "key" /\ calls # <<>> /\ result \in Nat
    BY <1>5, ReturnedNow DEF Resuming
  <2>2. Begins(Top) /\ list \in Lists
    BY <2>1, NowFacts, Appends
  <2>3. g = AtList(Top, "value", list)
    BY DEF AtList
  <2>4. calls' = <<k, g>> \o Tail(calls) /\ result' = Pending /\ UNCHANGED <<nodes, extra>>
    BY <1>5 DEF Calls, Expression, Silent
  <2>5. k = Called("expr", Lowest, Invalid, Len(input')) /\ Lowest \in Nat
    BY DEF Lowest
  <2>. HIDE DEF g, list, k
  <2>6. Same(g, Top) /\ g.at = "value"
    BY <1>1, <2>2, <2>3, FrameList
  <2>7. Extends
    BY <1>5, <2>1, <2>4, Reads1, ExtendsNone
  <2>. QED
    BY <1>1, <2>1, <2>4, <2>5, <2>6, <2>7, PlainCalls
<1>6. CASE KeepElement("value", "pairs")
  BY <1>1, <1>6, KeepElementBinds
<1>7. CASE /\ Closing("pairs", "}")
           /\ extra' = extra \o Top.list
           /\ ReturnNode("map", Start, Len(Top.list) \div 2)
  <2>1. extra \in Lists /\ Top.list \in Lists /\ Formed(Top, nodes, input) /\ Top.at = "pairs"
    BY <1>7, NowFacts DEF Closing, Entering
  <2>2. Len(Top.list) \in Nat /\ Start \in Nat
    BY <2>1, StartIs, LengthOf
  <2>3. Len(Top.list) \div 2 \in Nat
    BY <2>1, <2>2, Even DEF Formed
  <2>4. "map" \in Tags \cap Bare
    BY DEF Bare, Tags, Operators
  <2>. QED
    BY <1>1, <1>7, <2>1, <2>2, <2>3, <2>4, BareList
<1>. QED
  BY <1>2, <1>3, <1>4, <1>5, <1>6, <1>7 DEF ParseMap

LEMMA ParseIdentifierBinds ==
    ASSUME Fine, Binding, ParseIdentifier
    PROVE  Binding'
<1>1. /\ Top.at = "unary" /\ calls # <<>> /\ Advance /\ UNCHANGED extra
      /\ ReturnNode("identifier", Invalid, Invalid)
  BY DEF ParseIdentifier, Entering, Stays
<1>2. "identifier" \in Tags /\ "identifier" \in Bare /\ Top.at \in Infix \cup Unary /\ Invalid \in Nat
  BY <1>1 DEF Bare, Tags, Operators, Unary, Invalid
<1>. QED
  BY <1>1, <1>2, BareLeaves

LEMMA ParseLiteralBinds ==
    ASSUME Fine, Binding, ParseLiteral
    PROVE  Binding'
<1>1. Top.at = "unary" /\ calls # <<>> /\ Advance /\ UNCHANGED extra
  BY DEF ParseLiteral, Entering
<1>2. "literal" \in Tags /\ "literal" \in Bare /\ Top.at \in Infix \cup Unary /\ Invalid \in Nat
  BY <1>1 DEF Bare, Tags, Operators, Unary, Invalid
<1>3. CASE ReturnNode("literal", Invalid, Invalid)
  BY <1>1, <1>2, <1>3, BareLeaves
<1>4. CASE reported' = TRUE
  BY <1>4, ReportedBinding
<1>. QED
  BY <1>3, <1>4 DEF ParseLiteral

\* What was read after the token of the running activation begins after it.
LEMMA ReadAfter ==
    ASSUME Fine, NEW at, Returned(at), at \notin Outside, at # "arrow"
    PROVE  /\ result \in DOMAIN nodes /\ nodes[result] \in Trees
           /\ Top.token + 1 <= nodes[result].first /\ nodes[result].last < Len(input)
           /\ Top.token \in Nat /\ nodes[result].last \in Nat /\ nodes[result].first \in Nat
<1>1. /\ Standing(nodes, extra, Top, Tail(calls), result, input) /\ Top.at = at /\ calls # <<>>
      /\ result # Invalid /\ result \in Nat
  BY ReturnedNow
<1>2. /\ ForestOf(nodes, extra, Top, Tail(calls), result, Len(input)) /\ Top \in Frames
  BY <1>1 DEF Standing, Rooted, Begins
<1>3. result \in DOMAIN nodes /\ Precedes(Top, nodes, nodes[result].first)
  BY <1>1, <1>2 DEF ForestOf
<1>4. Ends(nodes, input) /\ nodes \in Woods
  BY <1>1, EndsNow, NowFacts
<1>5. nodes[result] \in Trees /\ nodes[result].last < Len(input)
  BY <1>3, <1>4, TreeFacts DEF Ends
<1>6. Reach(Top) = Top.token + 1
  BY <1>1 DEF Reach
<1>7. Top.token + 1 <= nodes[result].first
  BY <1>3, <1>6 DEF Precedes
<1>. QED
  BY <1>2, <1>3, <1>5, <1>7 DEF Trees, Frames

LEMMA ParseParenthesesBinds ==
    ASSUME Fine, Binding, ParseParentheses
    PROVE  Binding'
<1>1. /\ "parentheses" \in Plain /\ Kin("parentheses", "unary") /\ Lowest \in Nat
  BY DEF Plain, Points, Kin, Infix, Unary, Statements, Lowest
<1>2. CASE /\ Entering("unary") /\ Peek = "("
           /\ Advance /\ Silent
           /\ Calls(Expression(Lowest), [Top EXCEPT !.at = "parentheses"])
  <2>1. Top.at = "unary" /\ calls # <<>> /\ UNCHANGED <<nodes, extra>>
    BY <1>2 DEF Entering, Silent
  <2>2. Calls(Called("expr", Lowest, Invalid, Len(input')), [Top EXCEPT !.at = "parentheses"])
    BY <1>2 DEF Expression
  <2>. QED
    BY <1>1, <1>2, <2>1, <2>2, CallsBinds
<1>3. CASE Resuming("parentheses") /\ Peek # ")" /\ Error
  BY <1>3, ReportedBinding DEF Error
<1>4. CASE /\ Resuming("parentheses") /\ Peek = ")"
           /\ Advance /\ Silent
           /\ Return(result)
  <2>. DEFINE node == nodes[result]
  <2>1. Top.at = "parentheses" /\ calls # <<>> /\ result # Pending /\ Returned("parentheses")
    BY <1>4 DEF Resuming, Returned
  <2>2. UNCHANGED <<nodes, extra>> /\ calls' = Tail(calls) /\ result' = result /\ Advance
    BY <1>4 DEF Silent, Return
  <2>3. Follows(input', input) /\ Extends
    BY <2>1, <2>2, Reads1, ExtendsNone
  <2>4. /\ node \in Trees /\ Top.token + 1 <= node.first /\ node.last < Len(input)
        /\ Top.token \in Nat /\ node.last \in Nat /\ node.first \in Nat
    BY <2>1, ReadAfter DEF Outside, Starting
  <2>5. /\ Begins(Top) /\ Formed(Top, nodes, input) /\ Answers(nodes[result], Top, input)
        /\ Tail(calls) # <<>> => Linked(Top, Below, input)
    BY <2>1, BindingFacts
  <2>. HIDE DEF node
  <2>6. Answers(node, Top, input)
    BY <2>5 DEF node
  <2>7. input'[node.last + 1] = ")"
    <3>1. node.last + 1 \in 1 .. Len(input)
      BY <2>3, <2>4 DEF Follows
    <3>2. input[node.last + 1] = ")"
      BY <1>4, <2>6 DEF Answers, Peek
    <3>. QED
      BY <2>3, <3>1, <3>2 DEF Follows
  <2>8. Len(input') = Len(input) + 1
    <3>1. UNCHANGED language /\ Peek # "eof"
      BY <1>4 DEF Silent
    <3>. QED
      BY <2>2, <3>1, AdvancesBy
  <2>9. Tail(calls) # <<>> => Answers(node, Below, input')
    <3>. SUFFICES ASSUME Tail(calls) # <<>> PROVE Answers(node, Below, input')
      OBVIOUS
    <3>1. Linked(Top, Below, input)
      BY <2>5
    <3>2. Below.at \notin {"assigned", "rhs", "operand", "program", "statements", "returned"}
      BY <2>1, <3>1 DEF Linked, Infix, Unary, Statements
    <3>3. Below.at = "lhs" => node.first # Below.first
      <4>1. Below.at = "lhs" => Below.first = Top.first
        BY <3>1 DEF Linked
      <4>2. Top.first \in 1 .. Top.token
        BY <2>5 DEF Begins
      <4>. QED
        BY <2>4, <4>1, <4>2
    <3>4. Len(input) \in Nat /\ node.last + 1 # Len(input')
      BY <2>3, <2>4, <2>8 DEF Follows
    <3>. QED
      BY <2>7, <3>2, <3>3, <3>4 DEF Answers
  <2>. QED
    BY <2>1, <2>2, <2>3, <2>9, BindReturns DEF node
<1>. QED
  BY <1>2, <1>3, <1>4 DEF ParseParentheses

\* Two nodes that no operator is or waits for.
LEMMA TwoBind ==
    ASSUME Fine, Binding, calls # <<>>, UNCHANGED input \/ Advance \/ SkipComma,
           NEW more \in Lists, extra' = extra \o more,
           NEW one \in Trees, NEW new \in Trees, ReturnNodes(<<one, new>>),
           one.tag \in Bare, new.tag \in Bare, new.last = Len(input') - 1,
           Top.at \in Infix \cup Unary
    PROVE  Binding'
<1>1. nodes \in Woods
  BY NowFacts
<1>2. Follows(input', input) /\ Len(input') \in Nat \ {0}
  BY Reads1
<1>3. Settled(one, nodes', extra', input') /\ Settled(new, nodes', extra', input')
  BY BareSettled
<1>4. /\ nodes' = (nodes \o <<one>>) \o <<new>> /\ calls' = Tail(calls)
      /\ result' = Len(nodes \o <<one>>) + 1
  BY <1>1, PushTwo
<1>5. Extends /\ nodes'[result'] = new
  BY <1>1, <1>2, <1>3, <1>4, ExtendsTwo
<1>6. Tail(calls) # <<>> => Answers(new, Below, input')
  <2>. SUFFICES ASSUME Tail(calls) # <<>> PROVE Answers(new, Below, input')
    OBVIOUS
  <2>1. Linked(Top, Below, input) /\ new.tag \notin Operators
    BY BindingFacts DEF Bare
  <2>. QED
    BY <1>2, <2>1, OperandAnswers
<1>. QED
  BY <1>4, <1>5, <1>6, BindReturns

LEMMA ParameterBinds ==
    ASSUME Fine, Binding, Entering("parameters"), Advance, Stays,
           Push(<<NodeAt(Len(input), "identifier", Invalid, Invalid)>>),
           GoesTo("parameter"), UNCHANGED result
    PROVE  Binding'
<1>. DEFINE new == NodeAt(Len(input), "identifier", Invalid, Invalid)
            g == [Top EXCEPT !.at = "parameter"]
<1>1. /\ Top.at = "parameters" /\ calls # <<>> /\ result' = Pending /\ UNCHANGED extra
      /\ calls' = <<g>> \o Tail(calls) /\ nodes' = nodes \o <<new>>
  BY DEF Entering, Stays, GoesTo, Goes, Push
<1>2. nodes \in Woods /\ Begins(Top) /\ Len(input) \in Nat
  BY <1>1, NowFacts
<1>3. Follows(input', input) /\ Len(input') \in Nat \ {0}
  BY <1>1, Reads1
<1>4. new = NodeAt(Len(input), "identifier", Invalid, Invalid)
  OBVIOUS
<1>5. "parameter" \in Plain /\ "parameter" \in Points /\ Kin("parameter", "parameters")
      /\ "identifier" \in Tags /\ "identifier" \in Bare /\ Invalid \in Nat
  BY DEF Plain, Points, Kin, Infix, Unary, Statements, Tags, Bare, Operators, Invalid
<1>6. Same(g, Top) /\ g.at = "parameter"
  BY <1>2, <1>5, FrameAt
<1>. HIDE DEF new, g
<1>7. new \in Trees /\ new.tag = "identifier"
  BY <1>2, <1>3, <1>4, <1>5, NodeAtIs
<1>8. Settled(new, nodes', extra', input')
  BY <1>5, <1>7, BareSettled
<1>9. <<>> \in Lists /\ extra' = extra \o <<>>
  BY <1>1, NoneWritten
<1>10. Extends
  BY <1>1, <1>2, <1>3, <1>7, <1>8, <1>9, ExtendsOne
<1>. QED
  BY <1>1, <1>5, <1>6, <1>10, PlainGoes

LEMMA ArrowBinds ==
    ASSUME Fine, Binding, Entering("parameters"), Advance, Silent,
           Calls(Expression(Lowest), [Top EXCEPT !.at = "arrow", !.node = Len(input)])
    PROVE  Binding'
<1>. DEFINE g == [Top EXCEPT !.at = "arrow", !.node = Len(input)]
            k == Called("expr", Lowest, Invalid, Len(input'))
<1>1. /\ Top.at = "parameters" /\ calls # <<>> /\ result' = Pending /\ UNCHANGED <<nodes, extra>>
      /\ calls' = <<k, g>> \o Tail(calls)
  BY DEF Entering, Silent, Calls, Expression
<1>2. Begins(Top) /\ Len(input) \in Nat /\ "arrow" \in Points
  BY <1>1, NowFacts DEF Points
<1>3. g = AtNode(Top, "arrow", Len(input))
  BY DEF AtNode
<1>4. k = Called("expr", Lowest, Invalid, Len(input')) /\ Lowest \in Nat
  BY DEF Lowest
<1>. HIDE DEF g, k
<1>5. Same(g, Top) /\ g.at = "arrow"
  BY <1>2, <1>3, FrameNode
<1>6. "arrow" \in Plain /\ Kin("arrow", "parameters")
  BY DEF Plain, Points, Kin, Infix, Unary, Statements
<1>7. Extends
  BY <1>1, Reads1, ExtendsNone
<1>. QED
  BY <1>1, <1>4, <1>5, <1>6, <1>7, PlainCalls

LEMMA ArrowReturnBinds ==
    ASSUME Fine, Binding, Resuming("arrow"), UNCHANGED <<language, input, reported>>,
           AddParameters(Top.list),
           ReturnNodes(<<NodeAt(Top.node, "return", Invalid, result),
                         FunctionNode(Top.list, Len(nodes) + 1)>>)
    PROVE  Binding'
<1>1. Top.at = "arrow" /\ calls # <<>> /\ result \in Nat
  BY ReturnedNow DEF Resuming
<1>2. /\ Begins(Top) /\ Len(input') \in Nat \ {0} /\ extra \in Lists /\ Top.list \in Lists
      /\ Top.node \in Nat /\ Len(nodes) + 1 \in Nat
  BY <1>1, NowFacts
<1>3. PICK more \in Lists, at \in Nat :
         /\ extra' = extra \o more
         /\ \A body : FunctionNode(Top.list, body) = Node("function", at, body)
  BY <1>2, AddedParameters
<1>. DEFINE one == NodeAt(Top.node, "return", Invalid, result)
            last == Len(nodes) + 1
            new == Node("function", at, last)
<1>4. /\ one = NodeAt(Top.node, "return", Invalid, result) /\ new = Node("function", at, last)
      /\ ReturnNodes(<<one, new>>) /\ last \in Nat
  BY <1>2, <1>3
<1>. HIDE DEF one, new, last
<1>5. /\ "return" \in Tags /\ "function" \in Tags /\ "return" \in Bare /\ "function" \in Bare
      /\ Invalid \in Nat
  BY DEF Tags, Bare, Operators, Invalid
<1>6. one \in Trees /\ one.tag = "return"
  BY <1>1, <1>2, <1>4, <1>5 DEF NodeAt, Trees
<1>7. new \in Trees /\ new.tag = "function" /\ new.last = Len(input') - 1
  BY <1>2, <1>4, <1>5, NodeMade
<1>8. Top.at \in Infix \cup Unary /\ UNCHANGED input
  BY <1>1 DEF Unary
<1>. QED
  BY <1>1, <1>3, <1>4, <1>5, <1>6, <1>7, <1>8, TwoBind

LEMMA ParseFunctionBinds ==
    ASSUME Fine, Binding, ParseFunction
    PROVE  Binding'
<1>1. /\ "parameters" \in Plain /\ "body" \in Plain /\ Kin("parameters", "unary")
      /\ Kin("parameters", "parameter") /\ Kin("body", "parameters") /\ Lowest \in Nat
  BY DEF Plain, Points, Kin, Infix, Unary, Statements, Lowest
<1>2. CASE /\ Entering("unary") /\ Peek = "fn"
           /\ Advance /\ GoesTo("parameters")
           /\ Silent /\ UNCHANGED result
  BY <1>1, <1>2, OpenBinds
<1>3. CASE Entering("parameters") /\ Peek \notin {"=>", "{", "identifier"} /\ Error
  BY <1>3, ReportedBinding DEF Error
<1>4. CASE /\ Entering("parameters") /\ Peek = "identifier"
           /\ Advance /\ Stays
           /\ Push(<<NodeAt(Len(input), "identifier", Invalid, Invalid)>>)
           /\ GoesTo("parameter") /\ UNCHANGED result
  BY <1>4, ParameterBinds
<1>5. CASE Entering("parameter") /\ SkipComma /\ Keep(Len(nodes), "parameters")
  <2>1. Top.at = "parameter" /\ calls # <<>> /\ Len(nodes) \in Nat
    BY <1>5, NowFacts DEF Entering
  <2>. QED
    BY <1>1, <1>5, <2>1, KeepBinds
<1>6. CASE /\ Entering("parameters") /\ Peek = "=>"
           /\ Advance /\ Silent
           /\ Calls(Expression(Lowest), [Top EXCEPT !.at = "arrow", !.node = Len(input)])
  BY <1>6, ArrowBinds
<1>7. CASE /\ Entering("parameters") /\ Peek = "{"
           /\ UNCHANGED input /\ Silent
           /\ Calls(Statement, [Top EXCEPT !.at = "body"])
  <2>1. Top.at = "parameters" /\ calls # <<>> /\ UNCHANGED <<nodes, extra>>
    BY <1>7 DEF Entering, Silent
  <2>2. Calls(Called("stmt", Lowest, Invalid, Len(input')), [Top EXCEPT !.at = "body"])
    BY <1>7 DEF Statement
  <2>. QED
    BY <1>1, <1>7, <2>1, <2>2, CallsBinds
<1>8. CASE /\ Resuming("arrow")
           /\ UNCHANGED <<language, input, reported>>
           /\ AddParameters(Top.list)
           /\ ReturnNodes(<<NodeAt(Top.node, "return", Invalid, result),
                            FunctionNode(Top.list, Len(nodes) + 1)>>)
  BY <1>8, ArrowReturnBinds
<1>9. CASE /\ Resuming("body")
           /\ UNCHANGED <<language, input, reported>>
           /\ AddParameters(Top.list)
           /\ ReturnNodes(<<FunctionNode(Top.list, result)>>)
  <2>1. Top.at = "body" /\ calls # <<>> /\ result \in Nat
    BY <1>9, ReturnedNow DEF Resuming
  <2>2. extra \in Lists /\ Top.list \in Lists
    BY <2>1, NowFacts
  <2>3. PICK more \in Lists, at \in Nat :
           /\ extra' = extra \o more
           /\ \A body : FunctionNode(Top.list, body) = Node("function", at, body)
    BY <1>9, <2>2, AddedParameters
  <2>4. ReturnNode("function", at, result)
    BY <1>9, <2>3 DEF ReturnNode
  <2>5. "function" \in Tags /\ "function" \in Bare /\ Top.at \in Infix \cup Unary
    BY <2>1 DEF Tags, Bare, Operators, Unary
  <2>. QED
    BY <1>9, <2>1, <2>3, <2>4, <2>5, BareBinds
<1>. QED
  BY <1>2, <1>3, <1>4, <1>5, <1>6, <1>7, <1>8, <1>9 DEF ParseFunction

LEMMA ParseMemberAccessBinds ==
    ASSUME Fine, Binding, ParseMemberAccess
    PROVE  Binding'
<1>1. CASE /\ Entering("binary") /\ Peek = "."
           /\ Advance /\ GoesTo("member")
           /\ Silent /\ UNCHANGED result
  <2>1. "member" \in Plain /\ Kin("member", "binary")
    BY DEF Plain, Points, Kin, Infix, Unary, Statements
  <2>. QED
    BY <1>1, <2>1, OpenBinds
<1>2. CASE Entering("member") /\ Peek # "identifier" /\ Error
  BY <1>2, ReportedBinding DEF Error
<1>3. CASE /\ Entering("member") /\ Peek = "identifier"
           /\ Advance /\ Stays
           /\ ReturnNodes(<<NodeAt(Len(input), "identifier", Invalid, Invalid),
                            Node("member", Top.node, Len(nodes) + 1)>>)
  <2>. DEFINE one == NodeAt(Len(input), "identifier", Invalid, Invalid)
              last == Len(nodes) + 1
              new == Node("member", Top.node, last)
  <2>1. Top.at = "member" /\ calls # <<>> /\ Advance /\ UNCHANGED extra
    BY <1>3 DEF Entering, Stays
  <2>2. /\ Begins(Top) /\ Top.node \in Nat /\ last \in Nat /\ Len(input) \in Nat
    BY <2>1, NowFacts
  <2>3. /\ one = NodeAt(Len(input), "identifier", Invalid, Invalid)
        /\ new = Node("member", Top.node, last) /\ ReturnNodes(<<one, new>>)
    BY <1>3
  <2>. HIDE DEF one, new, last
  <2>4. Len(input') \in Nat \ {0}
    BY <2>1, Reads1
  <2>5. /\ "identifier" \in Tags /\ "member" \in Tags /\ "identifier" \in Bare /\ "member" \in Bare
        /\ Invalid \in Nat
    BY DEF Tags, Bare, Operators, Invalid
  <2>6. one \in Trees /\ one.tag = "identifier"
    BY <2>2, <2>3, <2>4, <2>5 DEF NodeAt, Trees
  <2>7. new \in Trees /\ new.tag = "member" /\ new.last = Len(input') - 1
    BY <2>2, <2>3, <2>4, <2>5, NodeMade
  <2>8. Top.at \in Infix \cup Unary /\ <<>> \in Lists /\ extra' = extra \o <<>>
    BY <2>1, NoneWritten DEF Infix
  <2>. QED
    BY <2>1, <2>3, <2>5, <2>6, <2>7, <2>8, TwoBind
<1>. QED
  BY <1>1, <1>2, <1>3 DEF ParseMemberAccess

\* An operator's operand takes in the operators that bind more tightly.
LEMMA OperandCalled ==
    ASSUME Fine, Binding, NEW from, NEW to, Entering(from), Peek # "eof", Advance, Silent,
           \/ from = "unary" /\ to = "operand"
           \/ from = "binary" /\ to \in {"assigned", "rhs"},
           NEW p \in Nat, p = IF to = "operand" THEN Prefix ELSE PrecedenceOf(Peek),
           Calls(Called("expr", p, Invalid, Len(input')), [Top EXCEPT !.at = to])
    PROVE  Binding'
<1>. DEFINE g == [Top EXCEPT !.at = to]
            k == Called("expr", p, Invalid, Len(input'))
<1>1. /\ Top.at = from /\ calls # <<>> /\ calls' = <<k, g>> \o Tail(calls) /\ result' = Pending
      /\ UNCHANGED <<nodes, extra>> /\ UNCHANGED language
  BY DEF Entering, Calls, Silent
<1>2. /\ Begins(Top) /\ Top.token = Len(input) /\ Poised(Top, nodes, input)
      /\ Len(input) \in Nat \ {0}
  BY <1>1, BindingFacts, NowFacts DEF Starting
<1>3. Follows(input', input) /\ Extends
  BY <1>1, Reads1, ExtendsNone
<1>4. Len(input') = Len(input) + 1
  BY <1>1, AdvancesBy
<1>5. k = Called("expr", p, Invalid, Len(input'))
  OBVIOUS
<1>6. to \in Points
  BY DEF Points
<1>7. Same(g, Top) /\ g.at = to /\ g.node = Top.node
  BY <1>2, <1>6, FrameAt
<1>. HIDE DEF g, k
<1>8. Kin(g.at, Top.at)
  BY <1>1, <1>7 DEF Kin, Infix, Unary, Statements
<1>9. input'[Top.token] = Peek /\ input[Top.token] = Peek
  <2>1. Top.token \in 1 .. Len(input)
    BY <1>2
  <2>. QED
    BY <1>2, <1>3, <2>1 DEF Follows, Peek
<1>10. k \in Frames /\ k.at = "expr" /\ k.precedence = p /\ k.first = Len(input') /\ Poised(k, nodes', input')
  <2>1. Len(input') \in Nat \ {0}
    BY <1>2, <1>4
  <2>. QED
    BY <1>5, <2>1, CalleeIs
<1>11. Linked(k, g, input')
  <2>1. p = Rank(g, input')
    BY <1>7, <1>9 DEF Rank, Same
  <2>2. k.first = g.token + 1
    BY <1>2, <1>4, <1>7, <1>10 DEF Same
  <2>. QED
    BY <1>7, <1>10, <2>1, <2>2 DEF Linked, Infix
<1>12. Poised(g, nodes', input')
  <2>1. CASE to = "operand"
    BY <1>7, <2>1 DEF Poised
  <2>2. CASE to \in {"assigned", "rhs"}
    BY <1>1, <1>2, <1>7, <1>9, <2>2 DEF Poised, Same
  <2>. QED
    BY <2>1, <2>2
<1>. QED
  BY <1>1, <1>3, <1>7, <1>8, <1>10, <1>11, <1>12, TopOn, BindCalls

LEMMA Older ==
    ASSUME nodes \in Woods, NEW new \in Trees, nodes' = nodes \o <<new>>
    PROVE  \A n \in DOMAIN nodes : nodes'[n] = nodes[n]
BY TreeGrows

LEMMA ParseUnaryOpBinds ==
    ASSUME Fine, Binding, ParseUnaryOp
    PROVE  Binding'
<1>1. CASE /\ Entering("unary") /\ Peek \in Prefixes
           /\ Advance /\ Silent
           /\ Calls(Expression(Prefix), [Top EXCEPT !.at = "operand"])
  <2>1. Calls(Called("expr", Prefix, Invalid, Len(input')), [Top EXCEPT !.at = "operand"])
    BY <1>1 DEF Expression
  <2>2. Peek # "eof" /\ Prefix \in Nat
    BY <1>1 DEF Prefixes, Prefix
  <2>. QED
    BY <1>1, <2>1, <2>2, OperandCalled
<1>2. CASE /\ Resuming("operand")
           /\ UNCHANGED input /\ Stays
           /\ ReturnNode(IF input[Top.token] = "-" THEN "neg" ELSE "not", Invalid, result)
  <2>. DEFINE tag == IF input[Top.token] = "-" THEN "neg" ELSE "not"
              new == Node(tag, Invalid, result)
  <2>1. /\ Top.at = "operand" /\ calls # <<>> /\ result \in Nat /\ result # Pending
        /\ Returned("operand")
    BY <1>2, ReturnedNow DEF Resuming
  <2>2. /\ Begins(Top) /\ nodes \in Woods /\ Len(input) \in Nat \ {0}
        /\ Answers(nodes[result], Top, input)
        /\ Tail(calls) # <<>> => Linked(Top, Below, input)
    BY <2>1, BindingFacts
  <2>3. result \in DOMAIN nodes
    BY <2>1, ReadAfter DEF Outside, Starting
  <2>4. /\ tag \in {"neg", "not"} /\ new = Node(tag, Invalid, result)
        /\ ReturnNode(tag, Invalid, result) /\ nodes' = nodes \o <<new>>
    BY <1>2 DEF ReturnNode, ReturnNodes, Push
  <2>5. UNCHANGED input /\ UNCHANGED extra
    BY <1>2 DEF Stays
  <2>. HIDE DEF tag, new
  <2>6. tag \in Tags /\ Invalid \in Nat
    BY <2>4 DEF Tags, Invalid
  <2>7. /\ new \in Trees /\ new.tag = tag /\ new.rhs = result /\ new.source = Top.token
        /\ new.last = Len(input') - 1
    BY <2>1, <2>2, <2>4, <2>5, <2>6, NodeMade
  <2>8. nodes'[result] = nodes[result]
    BY <2>2, <2>3, <2>4, <2>7, Older
  <2>9. ~ (nodes[result].tag \in Operators /\ nodes[result].first = Top.token + 1)
    BY <2>1, <2>2 DEF Answers, Rank, PrecedenceOf, Prefix, Operators
  <2>10. new.tag \notin Operators \cup {"if", "block"}
    BY <2>4, <2>7 DEF Operators
  <2>11. Settled(new, nodes', extra', input')
    BY <2>7, <2>8, <2>9, <2>10 DEF Settled
  <2>12. Tail(calls) # <<>> => Answers(new, Below, input')
    <3>. SUFFICES ASSUME Tail(calls) # <<>> PROVE Answers(new, Below, input')
      OBVIOUS
    <3>1. Linked(Top, Below, input) /\ Top.at \in Infix \cup Unary /\ Len(input') \in Nat \ {0}
      BY <2>1, <2>2, <2>5 DEF Unary
    <3>. QED
      BY <2>7, <2>10, <3>1, OperandAnswers
  <2>13. <<>> \in Lists /\ extra' = extra \o <<>>
    BY <2>1, <2>5, NoneWritten
  <2>. QED
    BY <2>1, <2>4, <2>5, <2>6, <2>11, <2>12, <2>13, NodeBinds
<1>. QED
  BY <1>1, <1>2 DEF ParseUnaryOp

LEMMA ParseUnaryExprBinds ==
    ASSUME Fine, Binding, ParseUnaryExpr
    PROVE  Binding'
<1>1. UnknownExpression => Binding'
  BY ReportedBinding DEF UnknownExpression, Error
<1>. QED
  BY <1>1, ParseIdentifierBinds, ParseLiteralBinds, ParseParenthesesBinds, ParseFunctionBinds,
     ParseArrayBinds, ParseMapBinds, ParseUnaryOpBinds DEF ParseUnaryExpr

LEMMA OperatorReturned ==
    ASSUME Fine, Binding, NEW at \in {"assigned", "rhs"}, Resuming(at), UNCHANGED input, Stays,
           ReturnNode(input[Top.token], Top.node, result)
    PROVE  Binding'
<1>. DEFINE tag == input[Top.token]
            new == Node(tag, Top.node, result)
<1>1. /\ Top.at = at /\ calls # <<>> /\ result \in Nat /\ result # Pending
      /\ Returned(at)
  BY ReturnedNow DEF Resuming
<1>2. /\ Begins(Top) /\ nodes \in Woods /\ Len(input) \in Nat \ {0} /\ Formed(Top, nodes, input)
      /\ Answers(nodes[result], Top, input) /\ Poised(Top, nodes, input)
      /\ Tail(calls) # <<>> => Linked(Top, Below, input)
  BY <1>1, BindingFacts
<1>3. result \in DOMAIN nodes /\ Top.token \in Nat
  BY <1>1, ReadAfter DEF Outside, Starting
<1>4. Top.node \in DOMAIN nodes /\ Top.node \in Nat
  <2>1. Holds(Top, nodes, extra, Len(input)) /\ Top \in Frames
    BY <1>1, <1>2, EndsNow DEF Begins
  <2>2. Top.node # Invalid /\ Top.at \notin {"arrow", "colon", "end"}
    BY <1>1, <1>2 DEF Formed
  <2>. QED
    BY <2>1, <2>2, HoldsParts DEF Frames
<1>5. tag \in Operators
  BY <1>1, <1>2 DEF Formed, Opener, Operators, Outside, Starting
<1>6. /\ tag = input[Top.token] /\ new = Node(tag, Top.node, result)
      /\ ReturnNode(tag, Top.node, result) /\ nodes' = nodes \o <<new>>
  BY DEF ReturnNode, ReturnNodes, Push
<1>7. UNCHANGED input /\ UNCHANGED extra
  BY DEF Stays
<1>. HIDE DEF tag, new
<1>8. tag \in Tags
  BY <1>5 DEF Tags
<1>9. /\ new \in Trees /\ new.tag = tag /\ new.lhs = Top.node /\ new.rhs = result
      /\ new.source = Top.token /\ new.first = Top.first /\ new.last = Len(input) - 1
  BY <1>1, <1>2, <1>4, <1>6, <1>7, <1>8, NodeMade
<1>10. nodes'[result] = nodes[result] /\ nodes'[Top.node] = nodes[Top.node]
  BY <1>2, <1>3, <1>4, <1>6, <1>9, Older
<1>11. Rank(Top, input) = PrecedenceOf(tag)
  BY <1>1, <1>6 DEF Rank
<1>12. (nodes[result].tag \in Operators /\ nodes[result].first = Top.token + 1)
        => PrecedenceOf(nodes[result].tag) > PrecedenceOf(tag)
  BY <1>1, <1>2, <1>11 DEF Answers
<1>13. (nodes[Top.node].tag \in Operators /\ nodes[Top.node].last = Top.token - 1)
        => PrecedenceOf(nodes[Top.node].tag) >= PrecedenceOf(tag)
  <2>. SUFFICES ASSUME nodes[Top.node].tag \in Operators, nodes[Top.node].last = Top.token - 1
                PROVE  PrecedenceOf(nodes[Top.node].tag) >= PrecedenceOf(tag)
    OBVIOUS
  <2>1. nodes[Top.node].last + 1 = Top.token
    BY <1>3
  <2>2. PrecedenceOf(input[Top.token]) <= PrecedenceOf(nodes[Top.node].tag)
    BY <1>1, <1>2, <2>1 DEF Poised
  <2>3. \A t : PrecedenceOf(t) \in Nat
    BY DEF PrecedenceOf, Lowest
  <2>. QED
    BY <1>6, <2>2, <2>3
<1>14. new.tag \notin {"neg", "not", "if", "block"}
  BY <1>5, <1>9 DEF Operators
<1>15. Settled(new, nodes', extra', input')
  BY <1>9, <1>10, <1>12, <1>13, <1>14 DEF Settled
<1>16. Tail(calls) # <<>> => Answers(new, Below, input')
  <2>. SUFFICES ASSUME Tail(calls) # <<>> PROVE Answers(new, Below, input')
    OBVIOUS
  <2>1. Linked(Top, Below, input)
    BY <1>2
  <2>2. Below.at = "lhs" /\ PrecedenceOf(tag) > Below.precedence
    BY <1>1, <1>6, <2>1 DEF Linked, Infix
  <2>3. new.last + 1 = Len(input')
    BY <1>2, <1>7, <1>9
  <2>4. PrecedenceOf(input'[Len(input')]) <= PrecedenceOf(tag)
    BY <1>1, <1>2, <1>7, <1>11 DEF Answers
  <2>. QED
    BY <1>9, <2>2, <2>3, <2>4 DEF Answers
<1>17. <<>> \in Lists /\ extra' = extra \o <<>>
  BY <1>1, <1>7, NoneWritten
<1>. QED
  BY <1>1, <1>4, <1>6, <1>7, <1>8, <1>15, <1>16, <1>17, NodeBinds

LEMMA BinaryOpBinds ==
    ASSUME Fine, Binding, NEW tokens, NEW at, BinaryOp(tokens, at), at \in {"assigned", "rhs"},
           tokens \subseteq Operators
    PROVE  Binding'
<1>1. CASE /\ Entering("binary") /\ Peek \in tokens
           /\ Advance /\ Silent
           /\ Calls(Expression(PrecedenceOf(Peek)), [Top EXCEPT !.at = at])
  <2>1. Calls(Called("expr", PrecedenceOf(Peek), Invalid, Len(input')), [Top EXCEPT !.at = at])
    BY <1>1 DEF Expression
  <2>2. Peek # "eof" /\ at # "operand"
    BY <1>1 DEF Operators
  <2>3. PrecedenceOf(Peek) \in Nat
    BY DEF PrecedenceOf, Lowest
  <2>. QED
    BY <1>1, <2>1, <2>2, <2>3, OperandCalled
<1>2. CASE /\ Resuming(at)
           /\ UNCHANGED input /\ Stays
           /\ ReturnNode(input[Top.token], Top.node, result)
  BY <1>2, OperatorReturned
<1>. QED
  BY <1>1, <1>2 DEF BinaryOp

LEMMA SliceBound ==
    ASSUME Fine, Binding, calls # <<>>, Top.at \in {"colon", "end"}, NEW given \in Nat,
           CloseSubscript(SliceNodes(Top.list[1], given))
    PROVE  Binding'
<1>1. CASE Peek # "]"
  BY <1>1, ReportedBinding DEF CloseSubscript
<1>2. CASE Peek = "]"
  <2>. DEFINE start == Top.list[1]
              one == [Node("bounds", start, given) EXCEPT !.first = Top.token]
              last == Len(nodes) + 1
              new == Node("slice", Top.node, last)
  <2>1. Advance /\ ReturnNodes(<<one, new>>) /\ UNCHANGED extra
    BY <1>2 DEF CloseSubscript, SliceNodes
  <2>2. /\ Begins(Top) /\ Formed(Top, nodes, input) /\ Top.list \in Lists /\ Top.node \in Nat
        /\ Len(nodes) \in Nat
    BY NowFacts
  <2>3. start \in Nat
    <3>1. Len(Top.list) = 1 /\ 1 \in DOMAIN Top.list
      BY <2>2, LengthOf DEF Formed
    <3>. QED
      BY <2>2, <3>1, LengthOf
  <2>4. Len(input') \in Nat \ {0}
    BY <2>1, Reads1
  <2>5. one = [Node("bounds", start, given) EXCEPT !.first = Top.token]
        /\ new = Node("slice", Top.node, last) /\ last \in Nat
    BY <2>2
  <2>6. "bounds" \in Tags /\ "slice" \in Tags /\ "bounds" \in Bare /\ "slice" \in Bare
    BY DEF Tags, Bare, Operators
  <2>. HIDE DEF one, start, last, new
  <2>7. new \in Trees /\ new.tag = "slice" /\ new.last = Len(input') - 1
    BY <2>2, <2>4, <2>5, <2>6, NodeMade
  <2>8. one \in Trees /\ one.tag = "bounds"
    <3>. DEFINE plain == Node("bounds", start, given)
    <3>1. plain = Node("bounds", start, given) /\ one = [plain EXCEPT !.first = Top.token]
      BY <2>5
    <3>. HIDE DEF plain
    <3>2. plain \in Trees /\ plain.tag = "bounds"
      BY <2>2, <2>3, <2>4, <2>6, <3>1, NodeMade
    <3>3. Top.token \in Nat
      BY <2>2 DEF Begins, Frames
    <3>. QED
      BY <3>1, <3>2, <3>3 DEF Trees
  <2>9. Top.at \in Infix \cup Unary /\ <<>> \in Lists /\ extra' = extra \o <<>>
    BY <2>1, NoneWritten DEF Infix
  <2>. QED
    BY <2>1, <2>6, <2>7, <2>8, <2>9, TwoBind
<1>. QED
  BY <1>1, <1>2

LEMMA ColonBinds ==
    ASSUME Fine, Binding, calls # <<>>, Top.at \in {"index", "start"}, Advance, Silent, result' = Pending,
           NEW start \in Nat, Goes([Top EXCEPT !.at = "colon", !.list = <<start>>])
    PROVE  Binding'
<1>. DEFINE g == [Top EXCEPT !.at = "colon", !.list = <<start>>]
<1>1. calls' = <<g>> \o Tail(calls) /\ UNCHANGED <<nodes, extra>>
  BY DEF Goes, Silent
<1>2. Begins(Top) /\ "colon" \in Points /\ <<start>> \in Lists
  BY NowFacts DEF Points, Lists
<1>3. g = AtList(Top, "colon", <<start>>)
  BY DEF AtList
<1>. HIDE DEF g
<1>4. Same(g, Top) /\ g.at = "colon"
  BY <1>2, <1>3, FrameList
<1>5. Extends
  BY <1>1, Reads1, ExtendsNone
<1>6. "colon" \in Plain /\ Kin("colon", Top.at)
  BY DEF Plain, Points, Kin, Infix, Unary, Statements
<1>. QED
  BY <1>1, <1>4, <1>5, <1>6, PlainGoes

LEMMA ParseSubscriptAccessBinds ==
    ASSUME Fine, Binding, ParseSubscriptAccess
    PROVE  Binding'
<1>1. /\ "index" \in Plain /\ "start" \in Plain /\ "end" \in Plain /\ Kin("index", "binary")
      /\ Kin("start", "index") /\ Kin("end", "colon") /\ Lowest \in Nat /\ Invalid \in Nat
  BY DEF Plain, Points, Kin, Infix, Unary, Statements, Lowest, Invalid
<1>2. CASE /\ Entering("binary") /\ Peek = "["
           /\ Advance /\ GoesTo("index")
           /\ Silent /\ UNCHANGED result
  BY <1>1, <1>2, OpenBinds
<1>3. CASE /\ Entering("index") /\ Peek # ":"
           /\ UNCHANGED input /\ Silent
           /\ Calls(Expression(Lowest), [Top EXCEPT !.at = "start"])
  <2>1. Top.at = "index" /\ calls # <<>> /\ UNCHANGED <<nodes, extra>>
    BY <1>3 DEF Entering, Silent
  <2>2. Calls(Called("expr", Lowest, Invalid, Len(input')), [Top EXCEPT !.at = "start"])
    BY <1>3 DEF Expression
  <2>. QED
    BY <1>1, <1>3, <2>1, <2>2, CallsBinds
<1>4. CASE Returned("start") /\ CloseSubscript(<<Node("subscript", Top.node, result)>>)
  <2>1. CASE Peek # "]"
    BY <1>4, <2>1, ReportedBinding DEF CloseSubscript
  <2>2. CASE Peek = "]"
    <3>1. Top.at = "start" /\ calls # <<>> /\ result \in Nat
      BY <1>4, ReturnedNow
    <3>2. Advance /\ UNCHANGED extra /\ ReturnNode("subscript", Top.node, result)
      BY <1>4, <2>2 DEF CloseSubscript, ReturnNode
    <3>3. "subscript" \in Tags /\ "subscript" \in Bare /\ Top.at \in Infix \cup Unary /\ Top.node \in Nat
      BY <3>1, NowFacts DEF Tags, Bare, Operators, Infix
    <3>. QED
      BY <3>1, <3>2, <3>3, BareLeaves
  <2>. QED
    BY <2>1, <2>2
<1>5. CASE /\ \/ Entering("index") /\ Peek = ":"
                 /\ Goes([Top EXCEPT !.at = "colon", !.list = <<Invalid>>])
              \/ Returned("start") /\ Peek = ":"
                 /\ Goes([Top EXCEPT !.at = "colon", !.list = <<result>>])
           /\ Advance /\ Silent
           /\ result' = Pending
  <2>1. CASE Entering("index") /\ Goes([Top EXCEPT !.at = "colon", !.list = <<Invalid>>])
    <3>1. Top.at \in {"index", "start"} /\ calls # <<>>
      BY <2>1 DEF Entering
    <3>. QED
      BY <1>1, <1>5, <2>1, <3>1, ColonBinds
  <2>2. CASE Returned("start") /\ Goes([Top EXCEPT !.at = "colon", !.list = <<result>>])
    <3>1. Top.at \in {"index", "start"} /\ calls # <<>> /\ result \in Nat
      BY <2>2, ReturnedNow
    <3>. QED
      BY <1>5, <2>2, <3>1, ColonBinds
  <2>. QED
    BY <1>5, <2>1, <2>2
<1>6. CASE /\ Entering("colon") /\ Peek # "]"
           /\ UNCHANGED input /\ Silent
           /\ Calls(Expression(Lowest), [Top EXCEPT !.at = "end"])
  <2>1. Top.at = "colon" /\ calls # <<>> /\ UNCHANGED <<nodes, extra>>
    BY <1>6 DEF Entering, Silent
  <2>2. Calls(Called("expr", Lowest, Invalid, Len(input')), [Top EXCEPT !.at = "end"])
    BY <1>6 DEF Expression
  <2>. QED
    BY <1>1, <1>6, <2>1, <2>2, CallsBinds
<1>7. CASE /\ \/ Entering("colon") /\ Peek = "]"
              \/ Returned("end")
           /\ CloseSubscript(SliceNodes(Top.list[1], IF Top.at = "end" THEN result ELSE Invalid))
  <2>1. CASE Entering("colon")
    <3>1. (IF Top.at = "end" THEN result ELSE Invalid) = Invalid /\ Top.at \in {"colon", "end"}
          /\ calls # <<>>
      BY <2>1 DEF Entering
    <3>. QED
      BY <1>1, <1>7, <3>1, SliceBound
  <2>2. CASE Returned("end")
    <3>1. (IF Top.at = "end" THEN result ELSE Invalid) = result /\ Top.at \in {"colon", "end"}
          /\ calls # <<>> /\ result \in Nat
      BY <2>2, ReturnedNow
    <3>. QED
      BY <1>7, <3>1, SliceBound
  <2>. QED
    BY <1>7, <2>1, <2>2
<1>. QED
  BY <1>2, <1>3, <1>4, <1>5, <1>6, <1>7 DEF ParseSubscriptAccess

LEMMA ParseBinaryExprBinds ==
    ASSUME Fine, Binding, ParseBinaryExpr
    PROVE  Binding'
<1>1. ParseAssign => Binding'
  <2>1. {"="} \subseteq Operators
    BY DEF Operators
  <2>. QED
    BY <2>1, BinaryOpBinds DEF ParseAssign
<1>2. ParseBinaryOp => Binding'
  BY BinaryOpBinds DEF ParseBinaryOp
<1>. QED
  BY <1>1, <1>2, ParseCallBinds, ParseMemberAccessBinds, ParseSubscriptAccessBinds DEF ParseBinaryExpr

LEMMA Precedences ==
    \A t : PrecedenceOf(t) \in Nat
BY DEF PrecedenceOf, Lowest

LEMMA OperandBeginsBinds ==
    ASSUME Fine, Binding, OperandBegins
    PROVE  Binding'
<1>. DEFINE g == [Top EXCEPT !.at = "lhs"]
            k == Called("unary", Lowest, Invalid, Len(input'))
<1>1. /\ Top.at = "expr" /\ calls # <<>> /\ UNCHANGED <<nodes, extra, input>> /\ result' = Pending
      /\ calls' = <<k, g>> \o Tail(calls)
  BY DEF OperandBegins, Entering, Silent, Calls
<1>2. /\ Begins(Top) /\ Top.token = Len(input) /\ Top.first = Top.token /\ Len(input') \in Nat \ {0}
      /\ "lhs" \in Points /\ Lowest \in Nat
  <2>1. Begins(Top) /\ Top.token = Len(input) /\ Formed(Top, nodes, input) /\ Len(input) \in Nat \ {0}
    BY <1>1, NowFacts DEF Starting
  <2>. QED
    BY <1>1, <2>1 DEF Formed, Points, Lowest
<1>3. k = Called("unary", Lowest, Invalid, Len(input'))
  OBVIOUS
<1>4. Same(g, Top) /\ g.at = "lhs"
  BY <1>2, FrameAt
<1>. HIDE DEF g, k
<1>5. Kin(g.at, Top.at)
  BY <1>1, <1>4 DEF Kin, Infix, Unary, Statements
<1>6. k \in Frames /\ k.at = "unary" /\ k.first = Len(input') /\ Poised(k, nodes', input')
  BY <1>2, <1>3, CalleeIs
<1>7. Linked(k, g, input')
  BY <1>1, <1>2, <1>4, <1>6 DEF Linked, Same, Infix, Unary
<1>8. Poised(g, nodes', input')
  BY <1>4, PlainPoised
<1>9. Extends
  BY <1>1, Reads1, ExtendsNone
<1>. QED
  BY <1>1, <1>4, <1>5, <1>6, <1>7, <1>8, <1>9, TopOn, BindCalls

LEMMA OperatorBeginsBinds ==
    ASSUME Fine, Binding, OperatorBegins, PrecedenceOf(Peek) > Top.precedence
    PROVE  Binding'
<1>. DEFINE k == Called("binary", Lowest, result, Top.first)
<1>1. /\ Top.at = "lhs" /\ calls # <<>> /\ UNCHANGED <<nodes, extra, input>> /\ result' = Pending
      /\ result \in Nat /\ result # Pending /\ calls' = <<k, Top>> \o Tail(calls)
  BY ReturnedNow DEF OperatorBegins, Silent, Calls
<1>2. /\ Begins(Top) /\ Answers(nodes[result], Top, input) /\ Len(input) \in Nat /\ Top.first \in Nat
      /\ Poised(Top, nodes, input)
  BY <1>1, BindingFacts
<1>3. /\ k \in Frames /\ k.at = "binary" /\ k.node = result /\ k.token = Len(input)
      /\ k.first = Top.first
  <2>1. "binary" \in Points /\ Lowest \in Nat /\ <<>> \in Seq(Nat)
    BY DEF Points, Lowest
  <2>. QED
    BY <1>1, <1>2, <2>1 DEF Called, Frames
<1>. HIDE DEF k
<1>4. Linked(k, Top, input')
  BY <1>1, <1>3 DEF Linked, Infix, Peek
<1>5. Poised(k, nodes', input')
  BY <1>1, <1>2, <1>3 DEF Poised, Answers
<1>6. Same(Top, Top) /\ Kin(Top.at, Top.at)
  BY <1>2 DEF Same, Kin
<1>7. Extends
  BY <1>1, Reads1, ExtendsNone
<1>. QED
  BY <1>1, <1>2, <1>3, <1>4, <1>5, <1>6, <1>7, TopOn, BindCalls

\* An expression ends before an operator that binds no more tightly than it must.
LEMMA ExpressionAnswers ==
    ASSUME NEW f \in Frames, NEW b, NEW read, Linked(f, b, read), f.at = "lhs", NEW node,
           Answers(node, f, read), PrecedenceOf(read[Len(read)]) <= f.precedence
    PROVE  Answers(node, b, read)
<1>1. f.precedence \in Nat /\ PrecedenceOf(")") = Lowest /\ \A t : PrecedenceOf(t) \in Nat
  BY Precedences DEF Frames, PrecedenceOf
<1>2. node.last + 1 = Len(read) \/ read[node.last + 1] = ")"
  BY DEF Answers
<1>3. b.at # "lhs"
  BY DEF Linked, Infix, Unary
<1>4. ASSUME b.at \in {"assigned", "rhs", "operand"}
      PROVE  /\ node.tag \in Operators /\ node.first = b.token + 1 =>
                   PrecedenceOf(node.tag) > Rank(b, read)
             /\ PrecedenceOf(read[Len(read)]) <= Rank(b, read)
  <2>1. f.precedence = Rank(b, read) /\ f.first = b.token + 1
    BY <1>4 DEF Linked
  <2>. QED
    BY <2>1 DEF Answers
<1>5. ASSUME b.at \in {"program", "statements", "returned"}
      PROVE  PrecedenceOf(read[Len(read)]) = Lowest
  <2>1. f.precedence = Lowest
    BY <1>5 DEF Linked
  <2>. QED
    BY <1>1, <2>1 DEF Lowest
<1>6. b.at \in {"program", "statements"} => Quiet(node, read)
  BY <1>1, <1>2, <1>5 DEF Quiet
<1>. QED
  BY <1>2, <1>3, <1>4, <1>5, <1>6 DEF Answers

LEMMA ParseExprBinds ==
    ASSUME Fine, Binding, ParseExpr
    PROVE  Binding'
<1>1. CASE OperandBegins
  BY <1>1, OperandBeginsBinds
<1>2. CASE OperatorBegins /\ PrecedenceOf(Peek) > Top.precedence
  BY <1>2, OperatorBeginsBinds
<1>3. CASE /\ Resuming("lhs") /\ PrecedenceOf(Peek) <= Top.precedence
           /\ UNCHANGED input /\ Silent /\ Return(result)
  <2>1. /\ Top.at = "lhs" /\ calls # <<>> /\ result # Pending /\ UNCHANGED <<input, nodes, extra>>
        /\ calls' = Tail(calls) /\ result' = result
    BY <1>3 DEF Resuming, Returned, Silent, Return
  <2>2. Extends
    BY <2>1, Reads1, ExtendsNone
  <2>3. /\ Top \in Frames /\ Answers(nodes[result], Top, input)
        /\ Tail(calls) # <<>> => Linked(Top, Below, input)
    BY <2>1, BindingFacts
  <2>4. Tail(calls) # <<>> => Answers(nodes[result], Below, input)
    BY <1>3, <2>1, <2>3, ExpressionAnswers DEF Peek
  <2>. QED
    BY <2>1, <2>2, <2>4, BindReturns
<1>. QED
  BY <1>1, <1>2, <1>3 DEF ParseExpr, OperandBegins, OperatorBegins, Resuming

--------------------------------------------------------------------------------
(* Statements, once more *)

LEMMA BodyBinds ==
    ASSUME Fine, Binding, calls # <<>>, NEW g, Same(g, Top), g.at \in Plain, Kin(g.at, Top.at), Body(g)
    PROVE  Binding'
<1>1. CASE Peek \notin {"=>", "{"} /\ Error
  BY <1>1, ReportedBinding DEF Error
<1>2. CASE UNCHANGED input \/ Advance
  <2>. SUFFICES ASSUME Silent /\ Calls(Statement, g)
                PROVE  Binding'
    BY <1>1 DEF Body
  <2>. DEFINE k == Called("stmt", Lowest, Invalid, Len(input'))
  <2>1. /\ calls' = <<k, g>> \o Tail(calls) /\ result' = Pending /\ UNCHANGED <<nodes, extra>>
    BY <1>2 DEF Calls, Statement, Silent
  <2>2. k = Called("stmt", Lowest, Invalid, Len(input')) /\ Lowest \in Nat
    BY DEF Lowest
  <2>. HIDE DEF k
  <2>3. Extends
    BY <1>2, <2>1, Reads1, ExtendsNone
  <2>. QED
    BY <2>1, <2>2, <2>3, PlainCalls
<1>. QED
  BY <1>1, <1>2 DEF Body

LEMMA ConditionBinds ==
    ASSUME Fine, Binding, NEW keyword, NEW at, Condition(keyword, at), at \in {"while", "if", "returned"}
    PROVE  Binding'
<1>. DEFINE g == [Top EXCEPT !.at = at]
            k == Called("expr", Lowest, Invalid, Len(input'))
<1>1. /\ Top.at = "stmt" /\ calls # <<>> /\ UNCHANGED <<nodes, extra>> /\ result' = Pending
      /\ calls' = <<k, g>> \o Tail(calls) /\ Advance
  BY DEF Condition, Entering, Silent, Calls, Expression
<1>2. Begins(Top) /\ at \in Points /\ Lowest \in Nat
  BY <1>1, NowFacts DEF Points, Lowest
<1>3. k = Called("expr", Lowest, Invalid, Len(input'))
  OBVIOUS
<1>4. Same(g, Top) /\ g.at = at
  BY <1>2, FrameAt
<1>. HIDE DEF g, k
<1>5. Kin(g.at, Top.at)
  BY <1>1, <1>4 DEF Kin, Infix, Unary, Statements
<1>6. Extends /\ Len(input') \in Nat \ {0}
  BY <1>1, Reads1, ExtendsNone
<1>7. k \in Frames /\ k.at = "expr" /\ k.precedence = Lowest /\ Poised(k, nodes', input')
  BY <1>2, <1>3, <1>6, CalleeIs
<1>8. Linked(k, g, input')
  BY <1>4, <1>7 DEF Linked, Infix
<1>9. Poised(g, nodes', input')
  BY <1>4, PlainPoised
<1>. QED
  BY <1>1, <1>4, <1>5, <1>6, <1>7, <1>8, <1>9, TopOn, BindCalls

LEMMA ParseWhileLoopBinds ==
    ASSUME Fine, Binding, ParseWhileLoop
    PROVE  Binding'
<1>1. CASE Condition("while", "while")
  BY <1>1, ConditionBinds
<1>2. CASE Resuming("while") /\ Body([Top EXCEPT !.at = "loop", !.node = result])
  <2>. DEFINE g == [Top EXCEPT !.at = "loop", !.node = result]
  <2>1. Top.at = "while" /\ calls # <<>> /\ result \in Nat
    BY <1>2, ReturnedNow DEF Resuming
  <2>2. Begins(Top) /\ "loop" \in Points
    BY <2>1, NowFacts DEF Points
  <2>3. g = AtNode(Top, "loop", result) /\ Body(g)
    BY <1>2 DEF AtNode
  <2>. HIDE DEF g
  <2>4. Same(g, Top) /\ g.at = "loop"
    BY <2>1, <2>2, <2>3, FrameNode
  <2>5. "loop" \in Plain /\ Kin("loop", "while")
    BY DEF Plain, Points, Kin, Infix, Unary, Statements
  <2>. QED
    BY <2>1, <2>3, <2>4, <2>5, BodyBinds
<1>3. CASE /\ Resuming("loop")
           /\ UNCHANGED input /\ Stays
           /\ ReturnNode("while", Top.node, result)
  <2>1. Top.at = "loop" /\ calls # <<>> /\ result \in Nat
    BY <1>3, ReturnedNow DEF Resuming
  <2>2. Top.node \in Nat /\ "while" \in Tags /\ Top.at \in Statements /\ UNCHANGED input /\ UNCHANGED extra
    BY <1>3, <2>1, NowFacts DEF Tags, Statements, Stays
  <2>. QED
    BY <1>3, <2>1, <2>2, BareLeaves
<1>. QED
  BY <1>1, <1>2, <1>3 DEF ParseWhileLoop

\* A conditional without an else ends before none.
LEMMA IfBinds ==
    ASSUME Fine, Binding, NEW at \in {"then", "otherwise"}, Resuming(at),
           NEW a \in Nat, NEW b \in Nat, Conditional(a, b), b = Invalid => Peek # "else"
    PROVE  Binding'
<1>. DEFINE new == Node("if", Top.node, Start)
            more == <<a, b>>
<1>1. Top.at = at /\ calls # <<>>
  BY ReturnedNow DEF Resuming
<1>2. /\ Begins(Top) /\ Top.node \in Nat /\ Len(input) \in Nat \ {0} /\ extra \in Lists
      /\ Tail(calls) # <<>> => Linked(Top, Below, input)
  BY <1>1, NowFacts, BindingFacts
<1>3. /\ UNCHANGED input /\ extra' = extra \o more /\ ReturnNode("if", Top.node, Start)
      /\ new = Node("if", Top.node, Start)
  BY DEF Conditional
<1>4. Start = Len(extra) + 1 /\ Start \in Nat /\ "if" \in Tags
  BY <1>2, StartIs DEF Tags
<1>5. Cases(more, a, b)
  BY DEF Cases
<1>. HIDE DEF new, more
<1>6. new \in Trees /\ new.tag = "if" /\ new.rhs = Len(extra) + 1 /\ new.last = Len(input) - 1
  BY <1>2, <1>3, <1>4, NodeMade
<1>7. more \in Lists /\ extra'[new.rhs + 1] = b
  <2>1. more \in Lists /\ Len(more) = 2 /\ more[2] = b
    BY <1>5 DEF Lists, Cases
  <2>2. 2 \in 1 .. Len(more) /\ Len(extra) \in Nat
    BY <1>2, <2>1, LengthOf
  <2>3. extra'[Len(extra) + 2] = more[2]
    BY <1>2, <1>3, <2>1, <2>2, Joined
  <2>4. new.rhs + 1 = Len(extra) + 2
    BY <1>6, <2>2
  <2>. QED
    BY <2>1, <2>3, <2>4
<1>8. new.last + 1 = Len(input)
  BY <1>2, <1>6
<1>9. new.tag \notin Operators \cup {"neg", "not", "block"}
  BY <1>6 DEF Operators
<1>10. Settled(new, nodes', extra', input')
  BY <1>3, <1>7, <1>8, <1>9 DEF Settled, Peek
<1>11. Tail(calls) # <<>> => Answers(new, Below, input')
  <2>. SUFFICES ASSUME Tail(calls) # <<>> PROVE Answers(new, Below, input')
    OBVIOUS
  <2>1. Linked(Top, Below, input) /\ Top.at \in Statements /\ Quiet(new, input')
    BY <1>1, <1>2, <1>6 DEF Statements, Quiet
  <2>. QED
    BY <1>2, <1>3, <1>6, <2>1, StatementAnswers
<1>. QED
  BY <1>1, <1>2, <1>3, <1>4, <1>7, <1>10, <1>11, NodeBinds

LEMMA ParseConditionalBinds ==
    ASSUME Fine, Binding, ParseConditional
    PROVE  Binding'
<1>1. CASE Condition("if", "if")
  BY <1>1, ConditionBinds
<1>2. CASE Resuming("if") /\ Body([Top EXCEPT !.at = "then", !.node = result])
  <2>. DEFINE g == [Top EXCEPT !.at = "then", !.node = result]
  <2>1. Top.at = "if" /\ calls # <<>> /\ result \in Nat
    BY <1>2, ReturnedNow DEF Resuming
  <2>2. Begins(Top) /\ "then" \in Points
    BY <2>1, NowFacts DEF Points
  <2>3. g = AtNode(Top, "then", result) /\ Body(g)
    BY <1>2 DEF AtNode
  <2>. HIDE DEF g
  <2>4. Same(g, Top) /\ g.at = "then"
    BY <2>1, <2>2, <2>3, FrameNode
  <2>5. "then" \in Plain /\ Kin("then", "if")
    BY DEF Plain, Points, Kin, Infix, Unary, Statements
  <2>. QED
    BY <2>1, <2>3, <2>4, <2>5, BodyBinds
<1>3. CASE Resuming("then") /\ Peek # "else" /\ Conditional(result, Invalid)
  <2>1. result \in Nat /\ Invalid \in Nat
    BY <1>3, ReturnedNow DEF Resuming, Invalid
  <2>. QED
    BY <1>3, <2>1, IfBinds
<1>4. CASE /\ Resuming("then") /\ Peek = "else"
           /\ Advance /\ Silent
           /\ Goes([Top EXCEPT !.at = "else", !.list = <<result>>])
           /\ result' = Pending
  <2>. DEFINE list == <<result>>
              g == [Top EXCEPT !.at = "else", !.list = <<result>>]
  <2>1. /\ Top.at = "then" /\ calls # <<>> /\ result \in Nat
    BY <1>4, ReturnedNow DEF Resuming
  <2>2. calls' = <<g>> \o Tail(calls) /\ UNCHANGED <<nodes, extra>>
    BY <1>4 DEF Goes, Silent
  <2>3. Begins(Top) /\ "else" \in Points /\ list \in Lists
    BY <2>1, NowFacts DEF Points, Lists
  <2>4. g = AtList(Top, "else", list)
    BY DEF AtList
  <2>. HIDE DEF g, list
  <2>5. Same(g, Top) /\ g.at = "else"
    BY <2>3, <2>4, FrameList
  <2>6. Extends
    BY <1>4, <2>1, <2>2, Reads1, ExtendsNone
  <2>7. "else" \in Plain /\ Kin("else", "then")
    BY DEF Plain, Points, Kin, Infix, Unary, Statements
  <2>. QED
    BY <1>4, <2>1, <2>2, <2>5, <2>6, <2>7, PlainGoes
<1>5. "otherwise" \in Plain /\ Kin("otherwise", "else") /\ "otherwise" \in Points /\ Lowest \in Nat
  BY DEF Plain, Points, Kin, Infix, Unary, Statements, Lowest
<1>6. CASE Entering("else") /\ Body([Top EXCEPT !.at = "otherwise"])
  <2>. DEFINE g == [Top EXCEPT !.at = "otherwise"]
  <2>1. Top.at = "else" /\ calls # <<>> /\ Body(g)
    BY <1>6 DEF Entering
  <2>2. Same(g, Top) /\ g.at = "otherwise"
    BY <1>5, <2>1, NowFacts, FrameAt
  <2>. HIDE DEF g
  <2>. QED
    BY <1>5, <2>1, <2>2, BodyBinds
<1>7. CASE /\ Entering("else") /\ Peek = "if"
           /\ UNCHANGED input /\ Silent
           /\ Calls(Statement, [Top EXCEPT !.at = "otherwise"])
  <2>1. Top.at = "else" /\ calls # <<>> /\ UNCHANGED <<nodes, extra>>
    BY <1>7 DEF Entering, Silent
  <2>2. Calls(Called("stmt", Lowest, Invalid, Len(input')), [Top EXCEPT !.at = "otherwise"])
    BY <1>7 DEF Statement
  <2>. QED
    BY <1>5, <1>7, <2>1, <2>2, CallsBinds
<1>8. CASE Resuming("otherwise") /\ Conditional(Top.list[1], result)
  <2>1. Top.at = "otherwise" /\ calls # <<>> /\ result \in Nat /\ result # Invalid
    BY <1>8, ReturnedNow DEF Resuming
  <2>2. Top.list \in Lists /\ Len(Top.list) = 1
    BY <2>1, NowFacts DEF Formed
  <2>3. Top.list[1] \in Nat
    BY <2>2, OneIn
  <2>. QED
    BY <1>8, <2>1, <2>3, IfBinds
<1>. QED
  BY <1>1, <1>2, <1>3, <1>4, <1>6, <1>7, <1>8 DEF ParseConditional

LEMMA ParseReturnBinds ==
    ASSUME Fine, Binding, ParseReturn
    PROVE  Binding'
<1>1. CASE Condition("return", "returned")
  BY <1>1, ConditionBinds
<1>2. CASE /\ Resuming("returned")
           /\ UNCHANGED input /\ Stays
           /\ ReturnNode("return", Invalid, result)
  <2>. DEFINE new == Node("return", Invalid, result)
  <2>1. Top.at = "returned" /\ calls # <<>> /\ result \in Nat /\ result # Pending
    BY <1>2, ReturnedNow DEF Resuming
  <2>2. /\ Begins(Top) /\ Len(input) \in Nat \ {0} /\ Answers(nodes[result], Top, input)
        /\ Tail(calls) # <<>> => Linked(Top, Below, input)
    BY <2>1, BindingFacts
  <2>3. UNCHANGED input /\ UNCHANGED extra /\ ReturnNode("return", Invalid, result)
    BY <1>2 DEF Stays
  <2>4. new = Node("return", Invalid, result) /\ "return" \in Tags /\ "return" \in Bare /\ Invalid \in Nat
    BY DEF Tags, Bare, Operators, Invalid
  <2>. HIDE DEF new
  <2>5. new \in Trees /\ new.tag = "return" /\ new.last = Len(input') - 1
    <3>1. Len(input') \in Nat \ {0}
      BY <2>2, <2>3
    <3>. QED
      BY <2>1, <2>2, <2>4, <3>1, NodeMade
  <2>6. Settled(new, nodes', extra', input')
    BY <2>4, <2>5, BareSettled
  <2>7. Quiet(new, input')
    <3>1. new.last + 1 = Len(input)
      BY <2>2, <2>3, <2>5
    <3>2. PrecedenceOf(input[Len(input)]) = Lowest
      BY <2>1, <2>2 DEF Answers
    <3>. QED
      BY <2>3, <3>1, <3>2 DEF Quiet
  <2>8. Tail(calls) # <<>> => Answers(new, Below, input')
    <3>. SUFFICES ASSUME Tail(calls) # <<>> PROVE Answers(new, Below, input')
      OBVIOUS
    <3>1. Linked(Top, Below, input) /\ Top.at \in Statements
      BY <2>1, <2>2 DEF Statements
    <3>. QED
      BY <2>2, <2>3, <2>5, <2>7, <3>1, StatementAnswers
  <2>9. <<>> \in Lists /\ extra' = extra \o <<>>
    BY <2>1, <2>3, NoneWritten
  <2>. QED
    BY <2>1, <2>3, <2>4, <2>6, <2>8, <2>9, NodeBinds
<1>. QED
  BY <1>1, <1>2 DEF ParseReturn

\* A block's statements can not go on.
LEMMA BlockBinds ==
    ASSUME Fine, Binding, calls # <<>>, UNCHANGED input \/ Advance,
           \/ Top.at = "statements"
           \/ Top.at = "program" /\ Tail(calls) = <<>>,
           extra' = extra \o Top.list, ReturnNode("block", Start, Len(Top.list))
    PROVE  Binding'
<1>. DEFINE list == Top.list
            new == Node("block", Start, Len(Top.list))
<1>1. /\ Begins(Top) /\ Formed(Top, nodes, input) /\ list \in Lists /\ extra \in Lists
      /\ nodes \in Woods /\ Top \in Frames
  BY NowFacts DEF Begins
<1>2. Poised(Top, nodes, input) /\ (Tail(calls) # <<>> => Linked(Top, Below, input))
  BY BindingFacts
<1>3. Ends(nodes, input) /\ Holds(Top, nodes, extra, Len(input))
  BY EndsNow
<1>4. Follows(input', input) /\ Len(input') \in Nat \ {0}
  BY Reads1
<1>5. Start = Len(extra) + 1 /\ Start \in Nat /\ Len(list) \in Nat /\ "block" \in Tags
  BY <1>1, StartIs, LengthOf DEF Tags
<1>6. /\ new = Node("block", Start, Len(list)) /\ ReturnNode("block", Start, Len(list))
      /\ nodes' = nodes \o <<new>> /\ extra' = extra \o list
  BY DEF ReturnNode, ReturnNodes, Push
<1>7. \A i \in DOMAIN list : list[i] \in DOMAIN nodes
  BY <1>1, <1>3, HoldsParts
<1>8. \A i \in DOMAIN list : Quiet(nodes[list[i]], input)
  BY <1>2 DEF Poised
<1>. HIDE DEF list, new
<1>9. /\ new \in Trees /\ new.tag = "block" /\ new.lhs = Len(extra) + 1 /\ new.rhs = Len(list)
      /\ new.last = Len(input') - 1
  BY <1>1, <1>4, <1>5, <1>6, NodeMade
<1>10. Kids(new, extra') = list
  BY <1>1, <1>6, <1>9, KidsOfList
<1>11. \A i \in DOMAIN list : Quiet(nodes'[list[i]], input')
  <2>. SUFFICES ASSUME NEW i \in DOMAIN list PROVE Quiet(nodes'[list[i]], input')
    OBVIOUS
  <2>1. nodes'[list[i]] = nodes[list[i]]
    BY <1>1, <1>6, <1>7, <1>9, Older
  <2>2. nodes[list[i]] \in Trees /\ nodes[list[i]].last < Len(input)
    BY <1>1, <1>3, <1>7, TreeFacts DEF Ends
  <2>. QED
    BY <1>4, <1>8, <2>1, <2>2, QuietStays
<1>12. new.tag \notin Operators \cup {"neg", "not", "if"}
  BY <1>9 DEF Operators
<1>13. Settled(new, nodes', extra', input')
  BY <1>9, <1>10, <1>11, <1>12 DEF Settled
<1>14. Tail(calls) # <<>> => Answers(new, Below, input')
  <2>. SUFFICES ASSUME Tail(calls) # <<>> PROVE Answers(new, Below, input')
    OBVIOUS
  <2>1. Linked(Top, Below, input) /\ Top.at \in Statements /\ Quiet(new, input')
    BY <1>2, <1>9 DEF Statements, Quiet
  <2>. QED
    BY <1>4, <1>9, <2>1, StatementAnswers
<1>. QED
  BY <1>1, <1>5, <1>6, <1>13, <1>14, NodeBinds

LEMMA ParseBlockBinds ==
    ASSUME Fine, Binding, ParseBlock
    PROVE  Binding'
<1>1. CASE /\ Entering("stmt") /\ Peek = "{"
           /\ Advance /\ GoesTo("statements")
           /\ Silent /\ UNCHANGED result
  <2>. DEFINE g == [Top EXCEPT !.at = "statements"]
  <2>1. /\ Top.at = "stmt" /\ calls # <<>> /\ calls' = <<g>> \o Tail(calls) /\ result' = Pending
        /\ UNCHANGED <<nodes, extra>>
    BY <1>1 DEF Entering, GoesTo, Goes, Silent
  <2>2. Begins(Top) /\ "statements" \in Points /\ Top.list = <<>>
    BY <2>1, NowFacts DEF Points, Formed
  <2>3. Same(g, Top) /\ g.at = "statements" /\ g.list = <<>>
    BY <2>2, FrameAt
  <2>. HIDE DEF g
  <2>4. Kin(g.at, Top.at)
    BY <2>1, <2>3 DEF Kin, Infix, Unary, Statements
  <2>5. Poised(g, nodes', input')
    BY <2>3 DEF Poised
  <2>6. Extends
    BY <1>1, <2>1, Reads1, ExtendsNone
  <2>. QED
    BY <2>1, <2>3, <2>4, <2>5, <2>6, TopOn, BindGoes
<1>2. CASE NextElement("statements", "}", Statement)
  <2>1. /\ Entering("statements") /\ UNCHANGED input /\ Silent /\ Lowest \in Nat
        /\ Calls(Called("stmt", Lowest, Invalid, Len(input')), Top)
    BY <1>2 DEF NextElement, Statement, Lowest
  <2>. QED
    BY <2>1, NextBinds
<1>3. CASE Resuming("statements") /\ UNCHANGED input /\ Keep(result, "statements")
  <2>. DEFINE list == Append(Top.list, result)
              g == [Top EXCEPT !.at = "statements", !.list = Append(@, result)]
  <2>1. CASE reported'
    BY <2>1, ReportedBinding
  <2>2. CASE Goes(g) /\ result' = Pending
    <3>1. Top.at = "statements" /\ calls # <<>> /\ result \in Nat /\ Returned("statements")
      BY <1>3, ReturnedNow DEF Resuming
    <3>2. calls' = <<g>> \o Tail(calls) /\ UNCHANGED <<nodes, extra, input>>
      BY <1>3, <2>2 DEF Goes, Keep
    <3>3. Begins(Top) /\ "statements" \in Points /\ list \in Lists
      BY <3>1, NowFacts, Appends DEF Points
    <3>4. g = AtList(Top, "statements", list)
      BY DEF AtList
    <3>5. list = Append(Top.list, result)
      OBVIOUS
    <3>. HIDE DEF g, list
    <3>6. Same(g, Top) /\ g.at = "statements" /\ g.list = list
      BY <3>3, <3>4, FrameList
    <3>. QED
      BY <2>2, <3>1, <3>2, <3>5, <3>6, StatementBinds
  <2>. QED
    BY <1>3, <2>1, <2>2 DEF Keep
<1>4. CASE /\ Closing("statements", "}")
           /\ extra' = extra \o Top.list
           /\ ReturnNode("block", Start, Len(Top.list))
  <2>1. Top.at = "statements" /\ calls # <<>> /\ Advance
    BY <1>4 DEF Closing, Entering
  <2>. QED
    BY <1>4, <2>1, BlockBinds
<1>. QED
  BY <1>1, <1>2, <1>3, <1>4 DEF ParseBlock

\* A statement that is an expression takes in every operator.
LEMMA ExpressionBinds ==
    ASSUME Fine, Binding, Entering("stmt"), UNCHANGED input, Silent, Goes(Expression(Lowest)), UNCHANGED result
    PROVE  Binding'
<1>. DEFINE g == Called("expr", Lowest, Invalid, Len(input'))
<1>1. /\ Top.at = "stmt" /\ calls # <<>> /\ UNCHANGED <<nodes, extra, input>> /\ result' = Pending
      /\ calls' = <<g>> \o Tail(calls)
  BY DEF Entering, Silent, Goes, Expression
<1>2. /\ Len(input') \in Nat \ {0} /\ Lowest \in Nat
      /\ Tail(calls) = <<>> => Top.at = "program"
      /\ Tail(calls) # <<>> => Linked(Top, Below, input)
  BY <1>1, BindingFacts DEF Lowest
<1>3. g = Called("expr", Lowest, Invalid, Len(input'))
  OBVIOUS
<1>. HIDE DEF g
<1>4. g \in Frames /\ g.at = "expr" /\ g.precedence = Lowest /\ Poised(g, nodes', input')
  BY <1>2, <1>3, CalleeIs
<1>5. Tail(calls) # <<>> => Linked(g, Below, input')
  <2>. SUFFICES ASSUME Tail(calls) # <<>> PROVE Linked(g, Below, input')
    OBVIOUS
  <2>1. Below.at \notin {"lhs", "assigned", "rhs", "operand"}
    BY <1>1, <1>2 DEF Linked, Infix, Unary
  <2>. QED
    BY <1>4, <2>1 DEF Linked, Infix
<1>6. Extends /\ Tail(calls) # <<>>
  BY <1>1, <1>2, Reads1, ExtendsNone
<1>. QED
  BY <1>1, <1>4, <1>5, <1>6, BindGoes

LEMMA ParseStmtBinds ==
    ASSUME Fine, Binding, ParseStmt
    PROVE  Binding'
<1>1. CASE /\ Entering("stmt") /\ Peek = "break"
           /\ Advance /\ Stays
           /\ ReturnNode("break", Invalid, Invalid)
  <2>1. Top.at = "stmt" /\ calls # <<>> /\ UNCHANGED extra
    BY <1>1 DEF Entering, Stays
  <2>2. "break" \in Tags /\ Top.at \in Statements /\ Invalid \in Nat
    BY <2>1 DEF Tags, Statements, Invalid
  <2>. QED
    BY <1>1, <2>1, <2>2, BareLeaves
<1>2. CASE /\ Entering("stmt") /\ UNCHANGED input /\ Silent
           /\ Goes(Expression(Lowest)) /\ UNCHANGED result
  BY <1>2, ExpressionBinds
<1>. QED
  BY <1>1, <1>2, ParseBlockBinds, ParseWhileLoopBinds, ParseConditionalBinds, ParseReturnBinds
  DEF ParseStmt

LEMMA ParseBinds ==
    ASSUME Fine, Binding, Parse
    PROVE  Binding'
<1>1. CASE NextElement("program", "eof", Statement)
  <2>1. /\ Entering("program") /\ UNCHANGED input /\ Silent /\ Lowest \in Nat
        /\ Calls(Called("stmt", Lowest, Invalid, Len(input')), Top)
    BY <1>1 DEF NextElement, Statement, Lowest
  <2>. QED
    BY <2>1, NextBinds
<1>2. CASE /\ Resuming("program")
           /\ Goes([Top EXCEPT !.list = Append(@, result)])
           /\ result' = Pending
           /\ UNCHANGED input /\ Silent
  <2>. DEFINE list == Append(Top.list, result)
              g == [Top EXCEPT !.list = Append(@, result)]
  <2>1. Top.at = "program" /\ calls # <<>> /\ result \in Nat /\ Returned("program")
    BY <1>2, ReturnedNow DEF Resuming
  <2>2. calls' = <<g>> \o Tail(calls) /\ UNCHANGED <<nodes, extra, input>>
    BY <1>2 DEF Goes, Silent
  <2>3. Begins(Top) /\ "program" \in Points /\ list \in Lists
    BY <2>1, NowFacts, Appends DEF Points
  <2>4. list = Append(Top.list, result) /\ g = [Top EXCEPT !.list = list]
    OBVIOUS
  <2>. HIDE DEF g, list
  <2>5. g = AtList(Top, "program", list)
    BY <2>1, <2>3, <2>4 DEF AtList, Begins, Frames
  <2>6. Same(g, Top) /\ g.at = "program" /\ g.list = list
    BY <2>3, <2>5, FrameList
  <2>. QED
    BY <1>2, <2>1, <2>2, <2>4, <2>6, StatementBinds
<1>3. CASE /\ Entering("program") /\ Peek = "eof"
           /\ UNCHANGED <<language, input, reported>>
           /\ extra' = extra \o Top.list
           /\ ReturnNode("block", Start, Len(Top.list))
  <2>1. /\ Standing(nodes, extra, Top, Tail(calls), Invalid, input) /\ Top.at = "program" /\ calls # <<>>
    BY <1>3, EnteringNow
  <2>2. Tail(calls) = <<>>
    BY <2>1 DEF Standing, Rooted
  <2>. QED
    BY <1>3, <2>1, <2>2, BlockBinds
<1>. QED
  BY <1>1, <1>2, <1>3 DEF Parse

--------------------------------------------------------------------------------
(* All steps bind *)

LEMMA NextBinding ==
    ASSUME Reading, Whole, Binding, [Next]_vars
    PROVE  Binding'
<1>1. CASE UNCHANGED vars
  BY <1>1 DEF vars, Binding, OperatorsBind, StatementsMaximal, Children, Top
<1>2. CASE Next /\ reported
  BY <1>2, Reported, ReportedBinding DEF Reports
<1>3. CASE Next /\ ~reported
  <2>1. Fine
    BY <1>3 DEF Fine
  <2>2. ~ Fail
    BY <1>3 DEF Fail, Whole
  <2>. QED
    BY <1>3, <2>1, <2>2, ParseBinds, ParseStmtBinds, ParseExprBinds, ParseUnaryExprBinds,
       ParseBinaryExprBinds DEF Next
<1>. QED
  BY <1>1, <1>2, <1>3

LEMMA InitBinding ==
    ASSUME Init
    PROVE  Binding
<1>1. /\ nodes = <<>> /\ Len(calls) = 1 /\ DOMAIN nodes = {} /\ DOMAIN calls = {1} /\ result = Pending
      /\ calls[1].at = "program" /\ calls[1].list = <<>>
  BY DEF Init
<1>2. OperatorsBind /\ StatementsMaximal
  BY <1>1 DEF OperatorsBind, StatementsMaximal
<1>. QED
  BY <1>1, <1>2 DEF Binding

\* The inductive invariant: the tokens read (Reading), the forest that is built of them
\* (Whole), and how tightly what was read and what is awaited bind (Binding).
THEOREM TreeInvariance == Spec => []IInv
<1>1. Init => IInv
  BY InitReading, InitWhole, InitBinding DEF IInv
<1>2. IInv /\ [Next]_vars => IInv'
  BY NextReading, NextWhole, NextBinding DEF IInv
<1>. QED
  BY <1>1, <1>2, PTL DEF Spec

--------------------------------------------------------------------------------
(* What it shows of the finished tree *)

LEMMA KidsList ==
    ASSUME NEW node \in Trees, NEW from \in Lists, Stored(node, from)
    PROVE  Kids(node, from) \in Lists
<1>1. node.lhs \in Nat /\ node.rhs \in Nat
  BY DEF Trees
<1>2. CASE node.tag \in Operators \cup {"member", "subscript", "slice", "while"}
  <2>1. Kids(node, from) = <<node.lhs>> \o <<node.rhs>>
    BY <1>2, KidsOfTwo
  <2>. QED
    BY <1>1, <2>1 DEF Lists
<1>3. CASE node.tag \in {"neg", "not", "return"}
  BY <1>1, <1>3 DEF Kids, Operators, Lists
<1>4. CASE node.tag = "bounds"
  <2>1. Kids(node, from) = Present(node.lhs) \o Present(node.rhs)
    BY <1>4 DEF Kids, Operators
  <2>2. Present(node.lhs) \in Lists /\ Present(node.rhs) \in Lists
    BY <1>1, PresentFacts
  <2>. QED
    BY <2>1, <2>2, Joined
<1>5. CASE node.tag \in {"block", "array"}
  <2>1. Kids(node, from) = Listed(from, node.lhs, node.rhs)
    BY <1>5 DEF Kids, Operators
  <2>2. node.lhs \in Nat \ {0} /\ node.lhs + node.rhs <= Len(from) + 1 /\ <<>> \in Lists
    BY <1>1, <1>5 DEF Stored, Lists
  <2>. QED
    BY <1>1, <2>1, <2>2, ListedStays
<1>6. CASE node.tag = "map"
  <2>1. Kids(node, from) = Listed(from, node.lhs, 2 * node.rhs)
    BY <1>6 DEF Kids, Operators
  <2>2. node.lhs \in Nat \ {0} /\ node.lhs + 2 * node.rhs <= Len(from) + 1 /\ <<>> \in Lists
        /\ 2 * node.rhs \in Nat
    BY <1>1, <1>6 DEF Stored, Lists
  <2>. QED
    BY <2>1, <2>2, ListedStays
<1>7. CASE node.tag = "call"
  <2>1. Kids(node, from) = <<node.lhs>> \o Counting(from, node.rhs)
    BY <1>7 DEF Kids, Operators
  <2>2. <<>> \in Lists /\ <<node.lhs>> \in Lists
        /\ (node.rhs # Invalid => node.rhs <= Len(from) /\ node.rhs + from[node.rhs] <= Len(from))
    BY <1>1, <1>7 DEF Stored, Lists
  <2>3. Counting(from, node.rhs) \in Lists
    BY <1>1, <2>2, CountingStays
  <2>. QED
    BY <2>1, <2>2, <2>3, Joined
<1>8. CASE node.tag = "function"
  <2>1. Kids(node, from) = Append(Counting(from, node.lhs), node.rhs)
    BY <1>8 DEF Kids, Operators
  <2>2. <<>> \in Lists
        /\ (node.lhs # Invalid => node.lhs <= Len(from) /\ node.lhs + from[node.lhs] <= Len(from))
    BY <1>1, <1>8 DEF Stored, Lists
  <2>3. Counting(from, node.lhs) \in Lists
    BY <1>1, <2>2, CountingStays
  <2>. QED
    BY <1>1, <2>1, <2>3, Appends
<1>9. CASE node.tag = "if"
  <2>. DEFINE a == Present(from[node.rhs])
              b == Present(from[node.rhs + 1])
  <2>1. Kids(node, from) = (<<node.lhs>> \o a) \o b
    BY <1>9 DEF Kids, Operators
  <2>2. from[node.rhs] \in Nat /\ from[node.rhs + 1] \in Nat
    <3>1. node.rhs \in DOMAIN from /\ node.rhs + 1 \in DOMAIN from
      BY <1>1, <1>9, LengthOf DEF Stored
    <3>. QED
      BY <3>1, LengthOf
  <2>3. a \in Lists /\ b \in Lists /\ <<node.lhs>> \in Lists
    <3>1. <<node.lhs>> \in Lists
      BY <1>1 DEF Lists
    <3>. QED
      BY <2>2, <3>1, PresentFacts
  <2>. HIDE DEF a, b
  <2>4. <<node.lhs>> \o a \in Lists
    BY <2>3, Joined
  <2>. QED
    BY <2>1, <2>3, <2>4, Joined
<1>10. CASE node.tag \notin Operators \cup
             {"member", "subscript", "slice", "while", "neg", "not", "return", "bounds", "block",
              "array", "map", "call", "function", "if"}
  BY <1>10 DEF Kids, Lists
<1>. QED
  BY <1>2, <1>3, <1>4, <1>5, <1>6, <1>7, <1>8, <1>9, <1>10

\* The tree that is left when the parser has returned.
LEMMA Finished ==
    ASSUME Reading, Whole, Accepted
    PROVE  /\ Forest(nodes, extra, <<>>, Given, Len(input)) /\ Kept(nodes, {}, input)
           /\ Given = IF result = Pending THEN Invalid ELSE result
           /\ result \in Indices \cup {Pending} /\ nodes \in Woods /\ extra \in Lists
<1>1. calls = <<>> /\ ~reported
  BY DEF Accepted
<1>2. Begun(calls) = {}
  BY <1>1 DEF Begun
<1>. QED
  BY <1>1, <1>2 DEF Whole, Given, Reading, Woods, Lists

LEMMA FinishedParents ==
    ASSUME Reading, Whole, Accepted
    PROVE  OneParent
<1>1. /\ Forest(nodes, extra, <<>>, Given, Len(input)) /\ nodes \in Woods
      /\ Given = IF result = Pending THEN Invalid ELSE result
  BY Finished
<1>. SUFFICES ASSUME NEW c \in DOMAIN nodes
              PROVE  Cardinality({n \in DOMAIN nodes :
                                     \E i \in DOMAIN Children(n) : Children(n)[i] = c})
                         = IF c = result THEN 0 ELSE 1
  BY DEF OneParent
<1>. DEFINE parents == {n \in DOMAIN nodes : \E i \in DOMAIN Children(n) : Children(n)[i] = c}
<1>2. c \in Nat \ {0}
  BY <1>1, TreeFacts
<1>3. CASE c = result
  <2>1. Given = c /\ Given # Invalid
    BY <1>1, <1>2, <1>3 DEF Pending, Invalid
  <2>2. Root(c, nodes, extra)
    BY <1>1, <2>1 DEF Forest
  <2>3. parents = {}
    BY <2>2 DEF Root, Children
  <2>. QED
    BY <1>3, <2>3, FS_EmptySet
<1>4. CASE c # result
  <2>1. ~ Root(c, nodes, extra)
    BY <1>1, <1>2, <1>4 DEF Forest, Invalid
  <2>2. PICK p \in parents : TRUE
    BY <2>1 DEF Root, Children
  <2>3. \A n \in parents : n = p
    BY <1>1, <2>2 DEF Forest, Children
  <2>4. parents = {p}
    BY <2>2, <2>3
  <2>. QED
    BY <1>4, <2>4, FS_Singleton
<1>. QED
  BY <1>3, <1>4

LEMMA FinishedOrder ==
    ASSUME Reading, Whole, Accepted
    PROVE  ChildrenInOrder
<1>. SUFFICES ASSUME NEW n \in DOMAIN nodes, NEW i \in DOMAIN Children(n)
              PROVE  /\ Children(n)[i] \in 1 .. (n - 1)
                     /\ nodes[n].first <= nodes[Children(n)[i]].first
                     /\ nodes[Children(n)[i]].last <= nodes[n].last
                     /\ i > 1 => nodes[Children(n)[i - 1]].last < nodes[Children(n)[i]].first
  BY DEF ChildrenInOrder
<1>. DEFINE kids == Children(n)
<1>1. /\ Stored(nodes[n], extra) /\ Family(nodes[n], n, nodes, extra) /\ nodes[n] \in Trees
      /\ extra \in Lists
  BY Finished, TreeFacts DEF Forest
<1>2. kids \in Lists
  BY <1>1, KidsList DEF Children
<1>3. DOMAIN kids = 1 .. Len(kids) /\ Len(kids) \in Nat
  BY <1>2, LengthOf
<1>4. /\ InOrder(kids, nodes) /\ kids[i] \in 1 .. (n - 1)
      /\ nodes[n].first <= nodes[kids[i]].first /\ nodes[kids[i]].last <= nodes[n].last
  BY <1>1 DEF Family, Children
<1>. HIDE DEF kids
<1>5. i \in DOMAIN kids
  BY DEF kids
<1>6. i > 1 => nodes[kids[i - 1]].last < nodes[kids[i]].first
  <2>. SUFFICES ASSUME i > 1 PROVE nodes[kids[i - 1]].last < nodes[kids[i]].first
    OBVIOUS
  <2>1. i - 1 \in DOMAIN kids /\ i - 1 < i
    BY <1>3, <1>5
  <2>. QED
    BY <1>4, <1>5, <2>1 DEF InOrder
<1>. QED
  BY <1>4, <1>6 DEF kids

LEMMA FinishedTokens ==
    ASSUME Reading, Whole, Accepted
    PROVE  TokensKept
<1>1. Kept(nodes, {}, input)
  BY Finished
<1>. SUFFICES ASSUME NEW t \in 1 .. (Len(input) - 1), input[t] \notin Punctuation
              PROVE  Cardinality({n \in DOMAIN nodes : /\ nodes[n].source = t
                                                       /\ nodes[n].tag \in TagOf(input[t])}) = 1
  BY DEF TokensKept
<1>. DEFINE those == {n \in DOMAIN nodes : nodes[n].source = t /\ nodes[n].tag \in TagOf(input[t])}
<1>2. \A n \in DOMAIN nodes : n \in those <=> Represents(nodes[n], t, input)
  BY DEF Represents
<1>3. PICK n \in DOMAIN nodes : Represents(nodes[n], t, input)
  BY <1>1 DEF Kept
<1>4. \A p \in DOMAIN nodes : Represents(nodes[p], t, input) => n = p
  BY <1>1, <1>3 DEF Kept
<1>5. those = {n}
  BY <1>2, <1>3, <1>4
<1>. QED
  BY <1>5, FS_Singleton

\* A program that is accepted without an error has become a tree: no node is lost or shared,
\* children are in the order of the source, and every token is represented once.
THEOREM ProgramBecomesTree == Spec => []TreeIsTheProgram
<1>1. IInv => TreeIsTheProgram
  BY FinishedParents, FinishedOrder, FinishedTokens DEF TreeIsTheProgram, IInv
<1>. QED
  BY <1>1, TreeInvariance, PTL

\* The finished tree is the one that the precedences give: operands bind more tightly than
\* their operators or stand in parentheses, operators of one precedence go to the left, no
\* statement ends before an operator that could go on with it, and an else is that of the
\* nearest conditional.
THEOREM TreeFollowsPrecedences == Spec => []TreeFollowsGrammar
<1>1. IInv => TreeFollowsGrammar
  BY DEF IInv, Binding, TreeFollowsGrammar, Accepted
<1>. QED
  BY <1>1, TreeInvariance, PTL
================================================================================
