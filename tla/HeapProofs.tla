------------------------------- MODULE HeapProofs -------------------------------
(*****************************************************************************)
(* Proofs about Heap, for all programs, texts and bounds.                     *)
(*****************************************************************************)
EXTENDS Heap, SequenceTheorems, WellFoundedInduction, TLAPS

(*****************************************************************************)
(* Sequences and what is in them.                                             *)
(*****************************************************************************)
LEMMA ItemsInSet ==
    ASSUME NEW S, NEW s \in Seq(S)
    PROVE  /\ ItemsOf(s) = {s[i] : i \in 1..Len(s)}
           /\ ItemsOf(s) \subseteq S
BY LenProperties, ElementOfSeq DEF ItemsOf

LEMMA SeqOfItems ==
    ASSUME NEW S, NEW T, NEW s \in Seq(S), ItemsOf(s) \subseteq T
    PROVE  s \in Seq(T)
<1>1. Len(s) \in Nat /\ s \in [1..Len(s) -> S]
  BY LenProperties
<1>2. s \in [1..Len(s) -> T]
  BY <1>1 DEF ItemsOf
<1>. QED
  BY <1>1, <1>2

LEMMA ItemsOfEmpty == ItemsOf(<<>>) = {}
BY DEF ItemsOf

LEMMA ItemsOfAppend ==
    ASSUME NEW S, NEW s \in Seq(S), NEW e \in S
    PROVE  ItemsOf(Append(s, e)) = ItemsOf(s) \cup {e}
<1>1. Len(s) \in Nat
  BY LenProperties
<1>2. /\ Append(s, e) \in Seq(S) /\ Len(Append(s, e)) = Len(s) + 1
      /\ \A i \in 1..Len(s) : Append(s, e)[i] = s[i]
      /\ Append(s, e)[Len(s) + 1] = e
  BY AppendProperties
<1>3. /\ ItemsOf(s) = {s[i] : i \in 1..Len(s)}
      /\ ItemsOf(Append(s, e)) = {Append(s, e)[i] : i \in 1..(Len(s) + 1)}
  BY <1>2, ItemsInSet
<1>4. 1..(Len(s) + 1) = 1..Len(s) \cup {Len(s) + 1}
  BY <1>1
<1>. HIDE DEF ItemsOf
<1>. QED
  BY <1>2, <1>3, <1>4

LEMMA ItemsOfConcat ==
    ASSUME NEW S, NEW s \in Seq(S), NEW t \in Seq(S)
    PROVE  ItemsOf(s \o t) = ItemsOf(s) \cup ItemsOf(t)
<1>1. Len(s) \in Nat /\ Len(t) \in Nat
  BY LenProperties
<1>2. /\ s \o t \in Seq(S) /\ Len(s \o t) = Len(s) + Len(t)
      /\ \A i \in 1..(Len(s) + Len(t)) :
            (s \o t)[i] = IF i <= Len(s) THEN s[i] ELSE t[i - Len(s)]
  BY ConcatProperties
<1>3. /\ ItemsOf(s) = {s[i] : i \in 1..Len(s)} /\ ItemsOf(t) = {t[i] : i \in 1..Len(t)}
      /\ ItemsOf(s \o t) = {(s \o t)[i] : i \in 1..(Len(s) + Len(t))}
  BY <1>2, ItemsInSet
<1>4. ASSUME NEW i \in 1..Len(t) PROVE (s \o t)[Len(s) + i] = t[i]
  BY <1>1, <1>2
<1>5. \A i \in 1..Len(t) : Len(s) + i \in 1..(Len(s) + Len(t))
  BY <1>1
<1>6. \A i \in 1..Len(s) : i \in 1..(Len(s) + Len(t)) /\ (s \o t)[i] = s[i]
  BY <1>1, <1>2
<1>7. \A i \in 1..(Len(s) + Len(t)) : i \in 1..Len(s) \/ i - Len(s) \in 1..Len(t)
  BY <1>1
<1>8. \A i \in 1..(Len(s) + Len(t)) : (s \o t)[i] \in ItemsOf(s) \cup ItemsOf(t)
  BY <1>1, <1>2, <1>3, <1>7
<1>. QED
  BY <1>3, <1>4, <1>5, <1>6, <1>8

\* A part of a sequence, from m to n.
LEMMA ItemsOfPart ==
    ASSUME NEW S, NEW s \in Seq(S), NEW m \in Nat \ {0}, NEW n \in Int, n <= Len(s)
    PROVE  SubSeq(s, m, n) \in Seq(S) /\ ItemsOf(SubSeq(s, m, n)) \subseteq ItemsOf(s)
<1>1. Len(s) \in Nat /\ \A i \in m..n : s[i] \in S /\ i \in 1..Len(s)
  BY LenProperties, ElementOfSeq
<1>2. /\ SubSeq(s, m, n) \in Seq(S)
      /\ Len(SubSeq(s, m, n)) = IF m <= n THEN n - m + 1 ELSE 0
      /\ \A i \in 1..(n - m + 1) : SubSeq(s, m, n)[i] = s[m + i - 1]
  BY <1>1, SubSeqProperties
<1>3. /\ ItemsOf(s) = {s[i] : i \in 1..Len(s)}
      /\ ItemsOf(SubSeq(s, m, n))
           = {SubSeq(s, m, n)[i] : i \in 1..Len(SubSeq(s, m, n))}
  BY <1>2, ItemsInSet
<1>4. ASSUME NEW i \in 1..Len(SubSeq(s, m, n)) PROVE SubSeq(s, m, n)[i] \in ItemsOf(s)
  <2>1. i \in 1..(n - m + 1) /\ m + i - 1 \in m..n
    BY <1>1, <1>2
  <2>. QED
    BY <1>1, <1>2, <1>3, <2>1
<1>. QED
  BY <1>2, <1>3, <1>4

LEMMA ItemsOfHeadTail ==
    ASSUME NEW S, NEW s \in Seq(S), s # <<>>
    PROVE  /\ Head(s) \in ItemsOf(s) /\ Tail(s) \in Seq(S)
           /\ ItemsOf(s) = {Head(s)} \cup ItemsOf(Tail(s))
<1>1. /\ Len(s) \in Nat \ {0} /\ Tail(s) \in Seq(S) /\ Len(Tail(s)) = Len(s) - 1
      /\ \A i \in 1..Len(Tail(s)) : Tail(s)[i] = s[i + 1]
      /\ Head(s) = s[1]
  BY EmptySeq, LenProperties, HeadTailProperties
<1>2. /\ ItemsOf(s) = {s[i] : i \in 1..Len(s)}
      /\ ItemsOf(Tail(s)) = {Tail(s)[i] : i \in 1..(Len(s) - 1)}
  BY <1>1, ItemsInSet
<1>3. \A i \in 1..Len(s) : i = 1 \/ i - 1 \in 1..(Len(s) - 1)
  BY <1>1
<1>4. \A i \in 1..(Len(s) - 1) : i + 1 \in 1..Len(s) /\ Tail(s)[i] = s[i + 1]
  BY <1>1
<1>5. \A i \in 1..Len(s) : s[i] \in {Head(s)} \cup ItemsOf(Tail(s))
  <2>. SUFFICES ASSUME NEW i \in 1..Len(s), i # 1 PROVE s[i] \in ItemsOf(Tail(s))
    BY <1>1
  <2>1. i - 1 \in 1..(Len(s) - 1) /\ (i - 1) + 1 = i
    BY <1>1, <1>3
  <2>. QED
    BY <1>2, <1>4, <2>1
<1>. QED
  BY <1>1, <1>2, <1>4, <1>5

\* One item is replaced.
LEMMA ItemsOfSet ==
    ASSUME NEW S, NEW s \in Seq(S), NEW i \in 1..Len(s), NEW e \in S
    PROVE  LET t == [s EXCEPT ![i] = e] IN
           /\ t \in Seq(S) /\ Len(t) = Len(s) /\ ItemsOf(t) \subseteq ItemsOf(s) \cup {e}
<1>. DEFINE t == [s EXCEPT ![i] = e]
<1>1. /\ t \in Seq(S) /\ Len(t) = Len(s) /\ t[i] = e
      /\ \A j \in 1..Len(s) : j # i => t[j] = s[j]
  BY ExceptSeq
<1>. HIDE DEF t
<1>2. /\ ItemsOf(s) = {s[j] : j \in 1..Len(s)} /\ ItemsOf(t) = {t[j] : j \in 1..Len(s)}
  BY <1>1, ItemsInSet
<1>. QED
  BY <1>1, <1>2 DEF t

LEMMA ItemsOfOne == ASSUME NEW e PROVE ItemsOf(<<e>>) = {e}
BY DEF ItemsOf
LEMMA ItemsOfTwo == ASSUME NEW d, NEW e PROVE ItemsOf(<<d, e>>) = {d, e}
BY DEF ItemsOf

(*****************************************************************************)
(* Heaps: what holds of the objects, the list and the table while the program *)
(* runs. Pointers go up to n, the last address.                               *)
(*****************************************************************************)
\* tlapm does not know that a literal is in STRING.
Characters == STRING \cup {".", "/"}
Tags == {"string", "array", "map", "function", "closure", "upvalue"}
Record == [tag : Tags, refs : Seq(Nat), keys : Seq(Nat), text : Seq(Characters),
           hash : Seq(Characters), marked : BOOLEAN, freed : BOOLEAN, hollow : BOOLEAN,
           next : Nat]

\* A string the program has, if it does not use its own path: it is in the table
\* under its text.
Usual(objs, strings, path, s) ==
    \/ PathIsText \/ s \notin DOMAIN objs \/ objs[s].tag # "string"
    \/ s \in strings /\ objs[s].hash = objs[s].text /\ objs[s].text # path

PointersIn(objs, n) ==
    \A o \in DOMAIN objs : /\ ItemsOf(objs[o].refs) \subseteq 1..n
                           /\ ItemsOf(objs[o].keys) \subseteq 1..n
                           /\ objs[o].tag = "closure" => objs[o].refs # <<>>
ListInOrder(objs, first) ==
    first = Len(objs) /\ \A o \in DOMAIN objs : objs[o].next = o - 1
TableOfStrings(objs, strings) ==
    /\ strings \subseteq {s \in DOMAIN objs : objs[s].tag = "string"}
    /\ \A s, t \in strings :
          /\ objs[s].hash = objs[s].text /\ objs[t].hash = objs[t].text
          /\ objs[s].text = objs[t].text
          => s = t
RefsUsual(objs, strings, path) ==
    \A o \in DOMAIN objs : \A r \in ItemsOf(objs[o].refs) : Usual(objs, strings, path, r)

Good(objs, first, strings, n, path) ==
    /\ objs \in Seq(Record) /\ Modules <= Len(objs) /\ objs[Globals].tag = "map"
    /\ PointersIn(objs, n)
    /\ ListInOrder(objs, first)
    /\ TableOfStrings(objs, strings)
    /\ RefsUsual(objs, strings, path)
    /\ \A o \in DOMAIN objs : ~objs[o].marked

IsHeap(h) == h = [objects |-> h.objects, head |-> h.head, table |-> h.table, at |-> h.at]
GoodHeap(h, n, path) == IsHeap(h) /\ Good(h.objects, h.head, h.table, n, path)

LEMMA TextsOf == ASSUME NEW text \in Seq(STRING) PROVE text \in Seq(Characters)
BY SeqMonotonic DEF Characters

LEMMA NewObject ==
    ASSUME NEW tag \in Tags, NEW refs \in Seq(Nat), NEW next \in Nat
    PROVE  LET o == Object(tag, refs, next) IN
           /\ o \in Record /\ o.tag = tag /\ o.refs = refs /\ o.keys = <<>>
           /\ ~o.marked /\ o.next = next
<1>1. <<>> \in Seq(Nat) /\ <<>> \in Seq(Characters)
  OBVIOUS
<1>. QED
  BY <1>1 DEF Object, Record

LEMMA NewString ==
    ASSUME NEW text \in Seq(Characters), NEW next \in Nat
    PROVE  LET o == String(text, next) IN
           /\ o \in Record /\ o.tag = "string" /\ o.refs = <<>> /\ o.keys = <<>>
           /\ o.text = text /\ o.hash = text /\ ~o.marked /\ o.next = next
<1>1. <<>> \in Seq(Nat) /\ <<>> \in Seq(Characters)
  OBVIOUS
<1>. QED
  BY <1>1 DEF String, Object, Record, Tags

LEMMA AllocIs ==
    ASSUME NEW h, IsHeap(h), h.objects \in Seq(Record), NEW object \in Record
    PROVE  LET k == Alloc(h, object) IN
           /\ IsHeap(k) /\ k.objects \in Seq(Record) /\ Len(k.objects) = Len(h.objects) + 1
           /\ k.head = Len(h.objects) + 1 /\ k.at = Len(h.objects) + 1 /\ k.table = h.table
           /\ \A o \in 1..Len(h.objects) : k.objects[o] = h.objects[o]
           /\ k.objects[Len(h.objects) + 1] = object
<1>. DEFINE k == Alloc(h, object)
<1>1. /\ k = [objects |-> Append(h.objects, object), head |-> Len(h.objects) + 1,
              table |-> h.table, at |-> Len(h.objects) + 1]
  <2>. DEFINE objs == h.objects first == h.head strings == h.table at == h.at
  <2>1. h = [objects |-> objs, head |-> first, table |-> strings, at |-> at]
    BY DEF IsHeap
  <2>2. k = [h EXCEPT !.objects = Append(objs, object), !.head = Len(objs) + 1,
                      !.at = Len(objs) + 1]
    BY DEF Alloc
  <2>. HIDE DEF k, objs, first, strings, at
  <2>3. k = [objects |-> Append(objs, object), head |-> Len(objs) + 1,
             table |-> strings, at |-> Len(objs) + 1]
    BY <2>1, <2>2
  <2>. QED
    BY <2>3 DEF objs, strings
<1>. HIDE DEF k
<1>2. IsHeap(k)
  BY <1>1 DEF IsHeap
<1>. QED
  BY <1>1, <1>2, AppendProperties DEF k

\* Everything of one heap is in another, unchanged.
Grows(h, k) == /\ Len(h.objects) <= Len(k.objects) /\ h.table \subseteq k.table
               /\ \A o \in 1..Len(h.objects) : k.objects[o] = h.objects[o]

\* An object is added.
LEMMA AllocGood ==
    ASSUME NEW h, NEW n \in Nat, NEW path, GoodHeap(h, n, path),
           NEW object \in Record, NEW m \in Nat, n <= m, Len(h.objects) + 1 <= m,
           ItemsOf(object.refs) \subseteq 1..m, ItemsOf(object.keys) \subseteq 1..m,
           object.tag = "closure" => object.refs # <<>>,
           object.next = h.head, ~object.marked,
           \A r \in ItemsOf(object.refs) :
                r \in 1..Len(h.objects) => Usual(h.objects, h.table, path, r),
           object.tag # "string"
    PROVE  LET k == Alloc(h, object) IN
           /\ GoodHeap(k, m, path) /\ Grows(h, k)
           /\ k.at = Len(k.objects) /\ Len(k.objects) = Len(h.objects) + 1
           /\ k.objects[k.at] = object
<1>. DEFINE k == Alloc(h, object)
<1>1. /\ IsHeap(h) /\ h.objects \in Seq(Record) /\ Len(h.objects) \in Nat
      /\ DOMAIN h.objects = 1..Len(h.objects)
      /\ Modules <= Len(h.objects)
  BY LenProperties DEF GoodHeap, Good
<1>2. /\ IsHeap(k) /\ k.objects \in Seq(Record) /\ Len(k.objects) = Len(h.objects) + 1
      /\ k.head = Len(h.objects) + 1 /\ k.at = Len(h.objects) + 1 /\ k.table = h.table
      /\ \A o \in 1..Len(h.objects) : k.objects[o] = h.objects[o]
      /\ k.objects[Len(h.objects) + 1] = object
  BY <1>1, AllocIs
<1>. HIDE DEF k
<1>3. DOMAIN k.objects = 1..(Len(h.objects) + 1)
  BY <1>2, LenProperties
<1>4. \A o \in DOMAIN k.objects : o \in 1..Len(h.objects) \/ o = Len(h.objects) + 1
  BY <1>1, <1>3
<1>5. PointersIn(k.objects, m)
  <2>1. 1..n \subseteq 1..m
    OBVIOUS
  <2>2. PointersIn(h.objects, n)
    BY DEF GoodHeap, Good
  <2>. QED
    BY <1>1, <1>2, <1>4, <2>1, <2>2 DEF PointersIn
<1>6. ListInOrder(k.objects, k.head)
  <2>1. ListInOrder(h.objects, h.head)
    BY DEF GoodHeap, Good
  <2>2. object.next = (Len(h.objects) + 1) - 1
    BY <1>1, <2>1 DEF ListInOrder
  <2>3. \A o \in 1..Len(h.objects) : k.objects[o].next = o - 1
    BY <1>1, <1>2, <2>1 DEF ListInOrder
  <2>4. \A o \in DOMAIN k.objects : k.objects[o].next = o - 1
    BY <1>2, <1>4, <2>2, <2>3
  <2>. QED
    BY <1>2, <2>4 DEF ListInOrder
<1>7. TableOfStrings(k.objects, k.table)
  <2>1. TableOfStrings(h.objects, h.table)
    BY DEF GoodHeap, Good
  <2>2. \A s \in h.table : s \in 1..Len(h.objects) /\ s \in DOMAIN k.objects
    BY <1>1, <1>3, <2>1 DEF TableOfStrings
  <2>. QED
    BY <1>1, <1>2, <2>1, <2>2 DEF TableOfStrings
<1>8. RefsUsual(k.objects, k.table, path)
  <2>1. RefsUsual(h.objects, h.table, path)
    BY DEF GoodHeap, Good
  <2>2. ASSUME NEW o \in DOMAIN k.objects, NEW r \in ItemsOf(k.objects[o].refs)
        PROVE  Usual(k.objects, k.table, path, r)
    <3>1. r \in 1..Len(h.objects) => Usual(h.objects, h.table, path, r)
      BY <1>1, <1>2, <1>4, <2>1, <2>2 DEF RefsUsual
    <3>. QED
      BY <1>1, <1>2, <1>4, <3>1 DEF Usual
  <2>. QED
    BY <2>2 DEF RefsUsual
<1>9. \A o \in DOMAIN k.objects : ~k.objects[o].marked
  BY <1>1, <1>2, <1>4 DEF GoodHeap, Good
<1>10. Modules <= Len(k.objects) /\ k.objects[Globals].tag = "map"
  <2>1. Globals \in 1..Len(h.objects) /\ h.objects[Globals].tag = "map"
    BY <1>1 DEF GoodHeap, Good, Globals, Modules
  <2>. QED
    BY <1>1, <1>2, <2>1 DEF Modules
<1>. QED
  BY <1>1, <1>2, <1>5, <1>6, <1>7, <1>8, <1>9, <1>10 DEF GoodHeap, Good, Grows, k

AddsStrings(h, k) ==
    \A o \in 1..Len(k.objects) : o \in 1..Len(h.objects) \/ k.objects[o].tag = "string"

\* A string is found in the table or added to it.
LEMMA InternedGood ==
    ASSUME NEW h, NEW path, GoodHeap(h, Len(h.objects), path), NEW text \in Seq(Characters)
    PROVE  LET k == Interned(h, text) IN
           /\ GoodHeap(k, Len(k.objects), path) /\ Grows(h, k)
           /\ k.at \in k.table /\ k.at \in 1..Len(k.objects)
           /\ k.objects[k.at].text = text /\ k.objects[k.at].hash = text
           /\ k.objects[k.at].tag = "string"
           /\ AddsStrings(h, k)
<1>1. /\ IsHeap(h) /\ h.objects \in Seq(Record) /\ Len(h.objects) \in Nat
      /\ DOMAIN h.objects = 1..Len(h.objects)
      /\ Modules <= Len(h.objects)
  BY LenProperties DEF GoodHeap, Good
<1>2. /\ PointersIn(h.objects, Len(h.objects)) /\ ListInOrder(h.objects, h.head)
      /\ TableOfStrings(h.objects, h.table) /\ RefsUsual(h.objects, h.table, path)
      /\ \A o \in DOMAIN h.objects : ~h.objects[o].marked
  BY DEF GoodHeap, Good
<1>3. CASE Matches(h, text) # {}
  <2>. DEFINE s == CHOOSE s \in Matches(h, text) : TRUE
              k == [h EXCEPT !.at = s]
  <2>1. s \in Matches(h, text)
    BY <1>3
  <2>2. Interned(h, text) = k
    BY ZenonT(30), <1>3 DEF Interned
  <2>. HIDE DEF s
  <2>3. /\ k.objects = h.objects /\ k.head = h.head /\ k.table = h.table /\ k.at = s
        /\ IsHeap(k)
    BY <1>1 DEF IsHeap
  <2>. HIDE DEF k
  <2>4. GoodHeap(k, Len(k.objects), path) /\ Grows(h, k)
    BY <1>1, <2>3 DEF GoodHeap, Grows
  <2>5. /\ s \in h.table /\ h.objects[s].text = text /\ h.objects[s].hash = text
        /\ s \in 1..Len(h.objects) /\ h.objects[s].tag = "string"
    BY <1>1, <1>2, <2>1 DEF Matches, TableOfStrings
  <2>. QED
    BY <2>2, <2>3, <2>4, <2>5 DEF AddsStrings
<1>4. CASE Matches(h, text) = {}
  <2>. DEFINE object == String(text, h.head)
              a == Alloc(h, object)
              k == [a EXCEPT !.table = @ \cup {a.at}]
  <2>1. Interned(h, text) = k
    BY ZenonT(30), <1>4 DEF Interned
  <2>2. h.head \in Nat
    BY <1>1, <1>2 DEF ListInOrder
  <2>3. /\ object \in Record /\ object.tag = "string" /\ object.refs = <<>>
        /\ object.keys = <<>> /\ object.text = text /\ object.hash = text
        /\ ~object.marked /\ object.next = h.head
    BY <2>2, NewString
  <2>. HIDE DEF object
  <2>4. /\ IsHeap(a) /\ a.objects \in Seq(Record) /\ Len(a.objects) = Len(h.objects) + 1
        /\ a.head = Len(h.objects) + 1 /\ a.at = Len(h.objects) + 1 /\ a.table = h.table
        /\ \A o \in 1..Len(h.objects) : a.objects[o] = h.objects[o]
        /\ a.objects[Len(h.objects) + 1] = object
    BY <1>1, <2>3, AllocIs
  <2>. HIDE DEF a
  <2>5. /\ IsHeap(k) /\ k.objects \in Seq(Record) /\ Len(k.objects) = Len(h.objects) + 1
        /\ k.head = Len(h.objects) + 1 /\ k.at = Len(h.objects) + 1
        /\ k.table = h.table \cup {Len(h.objects) + 1}
        /\ \A o \in 1..Len(h.objects) : k.objects[o] = h.objects[o]
        /\ k.objects[Len(h.objects) + 1] = object
    <3>. DEFINE objs == a.objects first == a.head strings == a.table at == a.at
    <3>1. a = [objects |-> objs, head |-> first, table |-> strings, at |-> at]
      BY <2>4 DEF IsHeap
    <3>2. k = [a EXCEPT !.table = strings \cup {at}]
      OBVIOUS
    <3>. HIDE DEF k, objs, first, strings, at
    <3>3. k = [objects |-> objs, head |-> first, table |-> strings \cup {at}, at |-> at]
      BY <3>1, <3>2
    <3>4. IsHeap(k) /\ k.objects = objs /\ k.head = first /\ k.table = strings \cup {at}
          /\ k.at = at
      BY <3>3 DEF IsHeap
    <3>. QED
      BY <2>4, <3>4 DEF objs, first, strings, at
  <2>. HIDE DEF k
  <2>6. /\ DOMAIN k.objects = 1..(Len(h.objects) + 1)
        /\ \A o \in DOMAIN k.objects : o \in 1..Len(h.objects) \/ o = Len(h.objects) + 1
    <3>1. DOMAIN k.objects = 1..(Len(h.objects) + 1)
      BY <2>5, LenProperties
    <3>. QED
      BY <1>1, <3>1
  <2>7. PointersIn(k.objects, Len(k.objects))
    <3>1. 1..Len(h.objects) \subseteq 1..Len(k.objects)
      BY <1>1, <2>5
    <3>. QED
      BY <1>1, <1>2, <2>3, <2>5, <2>6, <3>1, ItemsOfEmpty DEF PointersIn
  <2>8. ListInOrder(k.objects, k.head)
    BY SMTT(30), <1>1, <1>2, <2>3, <2>5, <2>6 DEF ListInOrder
  <2>9. TableOfStrings(k.objects, k.table)
    <3>1. \A s \in h.table : s \in 1..Len(h.objects) /\ h.objects[s].tag = "string"
      BY <1>1, <1>2 DEF TableOfStrings
    <3>2. k.table \subseteq {s \in DOMAIN k.objects : k.objects[s].tag = "string"}
      BY SMTT(30), <1>1, <2>3, <2>5, <2>6, <3>1
    <3>3. \A s \in h.table : ~(h.objects[s].hash = text /\ h.objects[s].text = text)
      BY <1>4 DEF Matches
    <3>4. ASSUME NEW s \in k.table, NEW t \in k.table,
                 k.objects[s].hash = k.objects[s].text, k.objects[t].hash = k.objects[t].text,
                 k.objects[s].text = k.objects[t].text
          PROVE  s = t
      <4>1. CASE s \in h.table /\ t \in h.table
        BY <1>2, <2>5, <3>1, <3>4, <4>1 DEF TableOfStrings
      <4>2. CASE s \in h.table /\ t = Len(h.objects) + 1
        BY <2>3, <2>5, <3>1, <3>3, <3>4, <4>2
      <4>3. CASE s = Len(h.objects) + 1 /\ t \in h.table
        BY <2>3, <2>5, <3>1, <3>3, <3>4, <4>3
      <4>. QED
        BY <2>5, <4>1, <4>2, <4>3
    <3>. QED
      BY <3>2, <3>4 DEF TableOfStrings
  <2>10. RefsUsual(k.objects, k.table, path)
    <3>1. ASSUME NEW o \in DOMAIN k.objects, NEW r \in ItemsOf(k.objects[o].refs)
          PROVE  Usual(k.objects, k.table, path, r)
      <4>1. o \in 1..Len(h.objects) /\ r \in ItemsOf(h.objects[o].refs)
        BY <2>3, <2>5, <2>6, <3>1, ItemsOfEmpty
      <4>2. r \in 1..Len(h.objects) /\ Usual(h.objects, h.table, path, r)
        BY <1>1, <1>2, <4>1 DEF PointersIn, RefsUsual
      <4>. QED
        BY <1>1, <2>5, <4>2 DEF Usual
    <3>. QED
      BY <3>1 DEF RefsUsual
  <2>11. \A o \in DOMAIN k.objects : ~k.objects[o].marked
    BY <1>1, <1>2, <2>3, <2>5, <2>6
  <2>12. Modules <= Len(k.objects) /\ k.objects[Globals].tag = "map"
    <3>1. Globals \in 1..Len(h.objects) /\ h.objects[Globals].tag = "map"
      BY <1>1 DEF GoodHeap, Good, Globals, Modules
    <3>. QED
      BY <1>1, <2>5, <3>1 DEF Modules
  <2>13. GoodHeap(k, Len(k.objects), path) /\ Grows(h, k)
    BY <1>1, <2>5, <2>7, <2>8, <2>9, <2>10, <2>11, <2>12 DEF GoodHeap, Good, Grows
  <2>14. Len(h.objects) + 1 \in 1..Len(k.objects)
    BY <1>1, <2>5
  <2>. QED
    BY <1>1, <2>1, <2>3, <2>5, <2>13, <2>14 DEF AddsStrings
<1>. QED
  BY <1>3, <1>4

\* Pointers of objects are changed, and nothing else of them.
Relinks(objs, new) ==
    /\ new \in Seq(Record) /\ Len(new) = Len(objs)
    /\ \A p \in DOMAIN objs :
          /\ new[p].tag = objs[p].tag /\ new[p].text = objs[p].text
          /\ new[p].hash = objs[p].hash /\ new[p].marked = objs[p].marked
          /\ new[p].next = objs[p].next
LinksFit(objs, strings, n, path, object) ==
    /\ ItemsOf(object.refs) \subseteq 1..n /\ ItemsOf(object.keys) \subseteq 1..n
    /\ object.tag = "closure" => object.refs # <<>>
    /\ \A r \in ItemsOf(object.refs) : Usual(objs, strings, path, r)

LEMMA RelinkedGood ==
    ASSUME NEW objs, NEW first, NEW strings, NEW n \in Nat, NEW path,
           Good(objs, first, strings, n, path), NEW new, Relinks(objs, new),
           \A p \in DOMAIN objs :
                new[p] = objs[p] \/ LinksFit(objs, strings, n, path, new[p])
    PROVE  /\ Good(new, first, strings, n, path)
           /\ \A v : Usual(objs, strings, path, v) <=> Usual(new, strings, path, v)
<1>1. /\ objs \in Seq(Record) /\ PointersIn(objs, n) /\ ListInOrder(objs, first)
      /\ TableOfStrings(objs, strings) /\ RefsUsual(objs, strings, path)
      /\ Modules <= Len(objs) /\ \A p \in DOMAIN objs : ~objs[p].marked
  BY DEF Good
<1>2. DOMAIN new = DOMAIN objs /\ new \in Seq(Record) /\ Len(new) = Len(objs)
  BY <1>1, LenProperties DEF Relinks
<1>3. \A p \in DOMAIN objs : /\ new[p].tag = objs[p].tag /\ new[p].text = objs[p].text
                             /\ new[p].hash = objs[p].hash /\ new[p].next = objs[p].next
                             /\ new[p].marked = objs[p].marked
  BY DEF Relinks
<1>4. \A v : Usual(objs, strings, path, v) <=> Usual(new, strings, path, v)
  BY <1>2, <1>3 DEF Usual
<1>5. PointersIn(new, n)
  BY <1>1, <1>2 DEF PointersIn, LinksFit
<1>6. ListInOrder(new, first)
  BY <1>1, <1>2, <1>3 DEF ListInOrder
<1>7. TableOfStrings(new, strings)
  <2>1. strings \subseteq {s \in DOMAIN new : new[s].tag = "string"}
    BY <1>1, <1>2, <1>3 DEF TableOfStrings
  <2>2. \A s \in strings : s \in DOMAIN objs
    BY <1>2, <2>1
  <2>. QED
    BY <1>1, <1>3, <2>1, <2>2 DEF TableOfStrings
<1>8. RefsUsual(new, strings, path)
  BY <1>1, <1>2, <1>4 DEF RefsUsual, LinksFit
<1>9. new[Globals].tag = "map"
  <2>1. Globals \in DOMAIN objs /\ objs[Globals].tag = "map"
    BY <1>1, LenProperties DEF Good, Globals, Modules
  <2>. QED
    BY <1>3, <2>1
<1>. QED
  BY <1>1, <1>2, <1>3, <1>4, <1>5, <1>6, <1>7, <1>8, <1>9 DEF Good

\* Of one object.
Relinked(objs, new, o) == /\ Relinks(objs, new)
                          /\ \A p \in DOMAIN objs : p # o => new[p] = objs[p]

LEMMA LinkedGood ==
    ASSUME NEW objs, NEW first, NEW strings, NEW n \in Nat, NEW path,
           Good(objs, first, strings, n, path),
           NEW o \in DOMAIN objs, NEW new, Relinked(objs, new, o),
           LinksFit(objs, strings, n, path, new[o])
    PROVE  /\ Good(new, first, strings, n, path)
           /\ \A v : Usual(objs, strings, path, v) <=> Usual(new, strings, path, v)
<1>1. /\ Relinks(objs, new)
      /\ \A p \in DOMAIN objs :
            new[p] = objs[p] \/ LinksFit(objs, strings, n, path, new[p])
  BY DEF Relinked
<1>. QED
  BY <1>1, RelinkedGood

LEMMA ObjectLinked ==
    ASSUME NEW objs \in Seq(Record), NEW o \in 1..Len(objs), NEW new \in Record,
           new.tag = objs[o].tag, new.text = objs[o].text, new.hash = objs[o].hash,
           new.marked = objs[o].marked, new.next = objs[o].next
    PROVE  LET changed == [objs EXCEPT ![o] = new] IN
           Relinked(objs, changed, o) /\ changed[o] = new
<1>. DEFINE changed == [objs EXCEPT ![o] = new]
<1>1. /\ changed \in Seq(Record) /\ Len(changed) = Len(objs)
      /\ \A p \in 1..Len(objs) : p # o => changed[p] = objs[p]
      /\ changed[o] = new
  BY ExceptSeq
<1>. HIDE DEF changed
<1>2. DOMAIN objs = 1..Len(objs)
  BY LenProperties
<1>. QED
  BY <1>1, <1>2 DEF Relinked, Relinks, changed

\* A text has a last slash, or none.
LEMMA DirectoryIsText ==
    ASSUME NEW text \in Seq(Characters)
    PROVE  Directory(text) \in Seq(Characters)
<1>. DEFINE length == Len(text)
            beyond == {n \in 0..length : \A i \in (n + 1)..length : text[i] # "/"}
            IsLast(n) == /\ n > 0 => text[n] = "/"
                         /\ \A i \in (n + 1)..length : text[i] # "/"
<1>1. length \in Nat
  BY LenProperties
<1>2. \E n \in 0..length : IsLast(n)
  <2>1. beyond \subseteq Nat /\ length \in beyond
    BY <1>1
  <2>2. PICK n \in beyond : \A m \in beyond : ~(<<m, n>> \in OpToRel(<, Nat))
    <3>. HIDE DEF beyond
    <3>. QED
      BY <2>1, NatLessThanWellFounded, WFMin
  <2>3. \A m \in beyond : ~(m < n)
    BY <2>1, <2>2 DEF OpToRel
  <2>4. ASSUME n > 0, text[n] # "/" PROVE FALSE
    <3>1. n \in 0..length /\ n - 1 \in 0..length
      BY <1>1, <2>4
    <3>2. \A i \in ((n - 1) + 1)..length : i = n \/ i \in (n + 1)..length
      BY <1>1, <3>1
    <3>3. n - 1 \in beyond
      BY <2>4, <3>1, <3>2
    <3>. QED
      BY <2>3, <3>1, <3>3
  <2>. QED
    BY <2>4
<1>. DEFINE last == CHOOSE n \in 0..length : IsLast(n)
<1>3. last \in 0..length
  <2>. HIDE DEF IsLast, length
  <2>. QED
    BY <1>2
<1>4. Directory(text) = SubSeq(text, 1, last)
  BY DEF Directory
<1>. HIDE DEF last
<1>. QED
  BY <1>1, <1>3, <1>4, ItemsOfPart

(*****************************************************************************)
(* The invariant.                                                             *)
(*****************************************************************************)
Closures == {o \in Addresses : objects[o].tag = "closure"}
Upvalues == {o \in Addresses : objects[o].tag = "upvalue"}
FrameSet == [closure : Closures, slots : Nat]
Entries == [upvalue : Upvalues, slot : Nat \ {0}]

\* Calls of vm_free_object.
Frees(n) == [object : 1..n, entered : BOOLEAN]

StackInv == stack \in Seq(Addresses) /\ sp \in 0..Len(stack)

\* A frame begins where its caller's does, or above.
FramesInv ==
    /\ frames \in Seq(FrameSet) /\ frames # <<>>
    /\ \A i, j \in DOMAIN frames : i <= j => frames[i].slots <= frames[j].slots
    /\ \A i \in DOMAIN frames : frames[i].slots <= sp

\* An upvalue is open once, of a slot that was written or is about to be.
OpenInv ==
    /\ open \in Seq(Entries)
    /\ \A i \in DOMAIN open : \/ open[i].slot <= Len(stack)
                              \/ building # Nil /\ open[i].slot = sp + 1
    /\ \A i, j \in DOMAIN open : open[i].upvalue = open[j].upvalue => i = j

MachineInv == StackInv /\ FramesInv /\ OpenInv /\ building \in Closures \cup {Nil}

TypeInv ==
    /\ program \in Programs
    /\ objects \in Seq(Record) /\ Modules <= Len(objects)
    /\ PointersIn(objects, Len(objects))
    /\ table \subseteq {o \in Addresses : IsString(o)}
    /\ MachineInv /\ (building # Nil => phase = "running")
    /\ phase \in {"running", "stopped", "marking", "cleaning", "sweeping", "corrupt"}
    /\ pending \in Seq(Addresses) /\ freeing \in Seq(Frees(Len(objects)))
    /\ \A o \in Addresses : objects[o].next < o
    /\ head \in 0..Len(objects) /\ prev \in 0..Len(objects) /\ curr \in 0..Len(objects)

\* A closure holds its function and upvalues, and an upvalue that is not open a value.
UpvalueFits(o) ==
    /\ objects[o].tag = "upvalue" => IsOpen(o) \/ objects[o].refs # <<>>
    /\ objects[o].tag = "closure" => ItemsOf(Tail(objects[o].refs)) \subseteq Upvalues

\* Until a collection begins.
RunInv ==
    phase \in {"running", "stopped"} =>
        /\ Good(objects, head, table, Len(objects), program.path)
        /\ \A v \in ItemsOf(stack) : Usual(objects, table, program.path, v)
        /\ \A o \in Addresses : UpvalueFits(o)

Unique == PathIsText \/ StringsUnique

\* No object is behind the marked ones but those that wait; and nothing is marked
\* or waits that could be left out of a set which holds the roots and is closed.
MarkInv ==
    phase \in {"marking", "cleaning"} =>
        /\ ItemsOf(Roots) \subseteq Marks \cup ItemsOf(pending)
        /\ \A o \in Marks : ItemsOf(LeadsTo(o)) \subseteq Marks \cup ItemsOf(pending)
        /\ \A S \in SUBSET Addresses :
              ItemsOf(Roots) \subseteq S /\ Closed(S)
              => Marks \cup ItemsOf(pending) \subseteq S
        /\ phase = "cleaning" => pending = <<>>

\* NoneLost, in any phase.
ListInv ==
    \A o \in Addresses :
        Left(o) => o <= head /\ \A p \in Addresses : p > o => objects[p].next >= o

\* The walk is behind prev, or at the head.
SweepInv == phase = "sweeping" => IF prev = Nil THEN curr = head ELSE curr = objects[prev].next

IInv == TypeInv /\ RunInv /\ Unique /\ MarkInv /\ ListInv /\ SweepInv

LEMMA InvTypes ==
    ASSUME TypeInv
    PROVE  /\ Len(objects) \in Nat /\ Addresses = 1..Len(objects)
           /\ \A o \in Addresses : objects[o] \in Record
           /\ Len(stack) \in Nat /\ sp \in Nat /\ sp <= Len(stack)
           /\ ItemsOf(stack) \subseteq Addresses
<1>1. Len(objects) \in Nat /\ Addresses = 1..Len(objects)
  BY LenProperties DEF TypeInv, Addresses
<1>2. \A o \in Addresses : objects[o] \in Record
  BY <1>1, ElementOfSeq DEF TypeInv
<1>3. Len(stack) \in Nat /\ ItemsOf(stack) \subseteq Addresses
  BY LenProperties, ItemsInSet DEF TypeInv, MachineInv, StackInv
<1>4. sp \in Nat /\ sp <= Len(stack)
  BY <1>3 DEF TypeInv, MachineInv, StackInv
<1>. QED
  BY <1>1, <1>2, <1>3, <1>4

LEMMA FramesAre ==
    ASSUME TypeInv
    PROVE  /\ Len(frames) \in Nat \ {0} /\ DOMAIN frames = 1..Len(frames)
           /\ \A i \in 1..Len(frames) :
                 /\ frames[i].closure \in Closures /\ frames[i].closure \in Addresses
                 /\ frames[i].slots \in 0..sp /\ frames[i].slots <= Frame.slots
           /\ Frame.closure \in Closures /\ Frame.slots \in 0..sp
<1>1. /\ frames \in Seq(FrameSet) /\ frames # <<>>
      /\ \A i, j \in DOMAIN frames : i <= j => frames[i].slots <= frames[j].slots
      /\ \A i \in DOMAIN frames : frames[i].slots <= sp
  BY DEF TypeInv, MachineInv, FramesInv
<1>2. /\ Len(frames) \in Nat \ {0} /\ DOMAIN frames = 1..Len(frames)
      /\ \A i \in 1..Len(frames) : frames[i] \in FrameSet
  BY <1>1, EmptySeq, LenProperties, ElementOfSeq
<1>3. \A i \in 1..Len(frames) : i <= Len(frames) /\ Len(frames) \in 1..Len(frames)
  BY <1>2
<1>4. ASSUME NEW i \in 1..Len(frames)
      PROVE  /\ frames[i].closure \in Closures /\ frames[i].closure \in Addresses
             /\ frames[i].slots \in 0..sp /\ frames[i].slots <= Frame.slots
  <2>1. frames[i].closure \in Closures /\ frames[i].slots \in Nat
    BY <1>2 DEF FrameSet
  <2>2. frames[i].slots <= sp /\ sp \in Nat
    BY <1>1, <1>2, InvTypes
  <2>3. frames[i].slots <= Frame.slots
    BY <1>1, <1>2, <1>3 DEF Frame
  <2>. QED
    BY <2>1, <2>2, <2>3 DEF Closures
<1>5. Frame.closure \in Closures /\ Frame.slots \in 0..sp
  BY <1>2, <1>3, <1>4 DEF Frame
<1>. QED
  BY <1>2, <1>4, <1>5

LEMMA OpenAre ==
    ASSUME TypeInv
    PROVE  /\ Len(open) \in Nat /\ DOMAIN open = 1..Len(open)
           /\ \A i \in 1..Len(open) :
                 /\ open[i].upvalue \in Upvalues /\ open[i].upvalue \in Addresses
                 /\ open[i].slot \in Nat \ {0}
                 /\ building = Nil => open[i].slot \in 1..Len(stack)
<1>1. /\ open \in Seq(Entries)
      /\ \A i \in DOMAIN open : \/ open[i].slot <= Len(stack)
                                \/ building # Nil /\ open[i].slot = sp + 1
  BY DEF TypeInv, MachineInv, OpenInv
<1>2. /\ Len(open) \in Nat /\ DOMAIN open = 1..Len(open)
      /\ \A i \in 1..Len(open) : open[i] \in Entries
  BY <1>1, LenProperties, ElementOfSeq
<1>. QED
  BY <1>1, <1>2, InvTypes DEF Entries, Upvalues

LEMMA InvTypeOK == TypeInv => TypeOK
<1>. SUFFICES ASSUME TypeInv PROVE TypeOK
  OBVIOUS
<1>1. /\ Len(objects) \in Nat /\ Addresses = 1..Len(objects)
      /\ \A o \in Addresses : objects[o] \in Record
      /\ ItemsOf(stack) \subseteq Addresses
  BY InvTypes
<1>2. ItemsOf(pending) \subseteq Addresses
  BY ItemsInSet DEF TypeInv
<1>3. \A o \in Addresses : objects[o].next \in Addresses \cup {Nil}
  <2>1. \A o \in Addresses : objects[o].next \in Nat
    BY <1>1 DEF Record
  <2>. QED
    BY <1>1, <2>1 DEF TypeInv, Nil
<1>4. \A o \in Addresses : /\ ItemsOf(objects[o].refs) \subseteq Addresses
                           /\ ItemsOf(objects[o].keys) \subseteq Addresses
  BY <1>1 DEF TypeInv, PointersIn, Addresses
<1>5. \A i \in DOMAIN frames : /\ frames[i].closure \in Addresses
                               /\ objects[frames[i].closure].tag = "closure"
                               /\ frames[i].slots \in 0..sp
  BY FramesAre DEF Closures
<1>6. {head, prev, curr} \subseteq Addresses \cup {Nil}
  BY <1>1 DEF TypeInv, Nil
<1>7. \A i \in DOMAIN open : /\ open[i].upvalue \in Addresses
                             /\ objects[open[i].upvalue].tag = "upvalue"
                             /\ \/ open[i].slot \in 1..Len(stack)
                                \/ building # Nil /\ open[i].slot = sp + 1
  <2>1. \A i \in DOMAIN open : \/ open[i].slot <= Len(stack)
                               \/ building # Nil /\ open[i].slot = sp + 1
    BY DEF TypeInv, MachineInv, OpenInv
  <2>. QED
    BY <2>1, OpenAre, InvTypes DEF Upvalues
<1>8. sp \in 0..Len(stack) /\ building \in Addresses \cup {Nil}
  BY DEF TypeInv, MachineInv, StackInv, Closures
<1>. QED
  BY <1>1, <1>2, <1>3, <1>4, <1>5, <1>6, <1>7, <1>8 DEF TypeInv, TypeOK

LEMMA InvAtRun ==
    ASSUME IInv, phase = "running"
    PROVE  /\ Good(objects, head, table, Len(objects), program.path)
           /\ \A v \in ItemsOf(stack) : Usual(objects, table, program.path, v)
           /\ \A o \in Addresses : UpvalueFits(o)
           /\ GoodHeap(Now, Len(Now.objects), program.path)
           /\ Now.objects = objects /\ Now.head = head /\ Now.table = table
<1>1. /\ Good(objects, head, table, Len(objects), program.path)
      /\ \A v \in ItemsOf(stack) : Usual(objects, table, program.path, v)
      /\ \A o \in Addresses : UpvalueFits(o)
  BY DEF IInv, RunInv
<1>2. Now.objects = objects /\ Now.head = head /\ Now.table = table /\ IsHeap(Now)
  BY DEF Now, IsHeap
<1>. QED
  BY <1>1, <1>2 DEF GoodHeap

\* Usual strings with one text are one.
AllUsual(objs, strings, path, S) ==
    S \subseteq DOMAIN objs /\ \A v \in S : Usual(objs, strings, path, v)
InUse(objs, S) == S \cup UNION {ItemsOf(objs[o].refs) : o \in DOMAIN objs}

LEMMA UsualUnique ==
    ASSUME NEW objs, NEW first, NEW strings, NEW path, NEW S,
           Good(objs, first, strings, Len(objs), path), ~PathIsText,
           AllUsual(objs, strings, path, S)
    PROVE  \A s, t \in InUse(objs, S) :
               /\ objs[s].tag = "string" /\ objs[t].tag = "string"
               /\ objs[s].text = objs[t].text
               => s = t
<1>1. /\ TableOfStrings(objs, strings) /\ RefsUsual(objs, strings, path)
      /\ PointersIn(objs, Len(objs)) /\ DOMAIN objs = 1..Len(objs)
  BY LenProperties DEF Good
<1>2. \A v \in InUse(objs, S) : v \in DOMAIN objs /\ Usual(objs, strings, path, v)
  BY <1>1 DEF RefsUsual, PointersIn, AllUsual, InUse
<1>3. \A v \in InUse(objs, S) :
        objs[v].tag = "string" => v \in strings /\ objs[v].hash = objs[v].text
  BY <1>2 DEF Usual
<1>. QED
  BY <1>1, <1>3 DEF TableOfStrings

\* Before a collection the invariant comes to this.
RunShape ==
    /\ phase \in {"running", "stopped"} /\ program \in Programs
    /\ Good(objects, head, table, Len(objects), program.path)
    /\ MachineInv /\ (building # Nil => phase = "running")
    /\ \A v \in ItemsOf(stack) : Usual(objects, table, program.path, v)
    /\ \A o \in Addresses : UpvalueFits(o)
    /\ pending \in Seq(Addresses) /\ freeing \in Seq(Frees(Len(objects)))
    /\ prev \in 0..Len(objects) /\ curr \in 0..Len(objects)

LEMMA ShapeIsInv == RunShape => IInv
<1>. SUFFICES ASSUME RunShape PROVE IInv
  OBVIOUS
<1>1. /\ objects \in Seq(Record) /\ PointersIn(objects, Len(objects))
      /\ ListInOrder(objects, head) /\ TableOfStrings(objects, table)
      /\ Modules <= Len(objects)
      /\ Good(objects, head, table, Len(objects), program.path)
  BY DEF RunShape, Good
<1>2. /\ Len(objects) \in Nat /\ DOMAIN objects = 1..Len(objects)
      /\ Addresses = 1..Len(objects)
  BY <1>1, LenProperties DEF Addresses
<1>3. TypeInv
  <2>1. head \in 0..Len(objects) /\ \A o \in Addresses : objects[o].next < o
    <3>1. ASSUME NEW o \in 1..Len(objects) PROVE objects[o].next < o
      <4>1. objects[o].next = o - 1
        BY <1>1, <1>2 DEF ListInOrder
      <4>. QED
        BY <1>2, <4>1
    <3>. QED
      BY <1>1, <1>2, <3>1 DEF ListInOrder
  <2>2. table \subseteq {o \in Addresses : IsString(o)}
    BY <1>1 DEF TableOfStrings, Addresses, IsString
  <2>. QED
    BY <1>1, <2>1, <2>2 DEF RunShape, TypeInv
<1>4. RunInv
  BY DEF RunShape, RunInv
<1>5. Unique
  <2>1. ItemsOf(stack) \subseteq Addresses
    BY ItemsInSet DEF RunShape, MachineInv, StackInv
  <2>. SUFFICES ASSUME ~PathIsText PROVE StringsUnique
    BY DEF Unique
  <2>2. AllUsual(objects, table, program.path, ItemsOf(stack))
    BY <1>2, <2>1 DEF AllUsual, RunShape
  <2>3. \A s, t \in InUse(objects, ItemsOf(stack)) :
            /\ objects[s].tag = "string" /\ objects[t].tag = "string"
            /\ objects[s].text = objects[t].text
            => s = t
    BY <1>1, <2>2, UsualUnique
  <2>. QED
    BY <2>3 DEF StringsUnique, Strings, Values, IsString, Addresses, InUse
<1>6. ListInv
  <2>1. ASSUME NEW o \in 1..Len(objects), NEW p \in 1..Len(objects), p > o
        PROVE  objects[p].next >= o
    <3>1. objects[p].next = p - 1
      BY <1>1, <1>2 DEF ListInOrder
    <3>. QED
      BY <1>2, <2>1, <3>1
  <2>2. \A o \in 1..Len(objects) : o <= head
    BY <1>1, <1>2 DEF ListInOrder
  <2>. QED
    BY <1>2, <2>1, <2>2 DEF ListInv
<1>7. MarkInv /\ SweepInv
  BY DEF RunShape, MarkInv, SweepInv
<1>. QED
  BY <1>3, <1>4, <1>5, <1>6, <1>7 DEF IInv

(*****************************************************************************)
(* Steps.                                                                     *)
(*****************************************************************************)
\* What an instruction has to keep.
LEMMA RunStep ==
    ASSUME IInv, phase = "running", UNCHANGED <<program, collector>>,
           phase' \in {"running", "stopped"},
           Good(objects', head', table', Len(objects'), program.path),
           Len(objects) <= Len(objects'),
           MachineInv', building' # Nil => phase' = "running",
           \A v \in ItemsOf(stack') : Usual(objects', table', program.path, v),
           \A o \in Addresses' : UpvalueFits(o)'
    PROVE  IInv'
<1>1. TypeInv /\ Len(objects) \in Nat /\ Addresses = 1..Len(objects)
  BY InvTypes DEF IInv
<1>2. Len(objects') \in Nat /\ Addresses' = 1..Len(objects')
  BY LenProperties DEF Good, Addresses
<1>3. pending' \in Seq(Addresses')
  <2>1. Addresses \subseteq Addresses'
    BY <1>1, <1>2
  <2>2. pending \in Seq(Addresses) /\ pending' = pending
    BY <1>1 DEF TypeInv, collector
  <2>. HIDE DEF Addresses
  <2>. QED
    BY <2>1, <2>2, SeqMonotonic
<1>4. prev' \in 0..Len(objects') /\ curr' \in 0..Len(objects')
  BY <1>1, <1>2 DEF TypeInv, collector
<1>5. freeing' \in Seq(Frees(Len(objects')))
  <2>1. Frees(Len(objects)) \subseteq Frees(Len(objects'))
    <3>1. 1..Len(objects) \subseteq 1..Len(objects')
      BY <1>1, <1>2
    <3>. QED
      BY <3>1 DEF Frees
  <2>2. freeing \in Seq(Frees(Len(objects))) /\ freeing' = freeing
    BY <1>1 DEF TypeInv, collector
  <2>. QED
    BY <2>1, <2>2, SeqMonotonic
<1>6. RunShape'
  BY <1>1, <1>3, <1>4, <1>5 DEF TypeInv, RunShape
<1>. QED
  BY <1>6, ShapeIsInv, PTL

\* What the heap has to keep: tags, and the strings in use.
Kept ==
    /\ Good(objects', head', table', Len(objects'), program.path)
    /\ Len(objects) <= Len(objects')
    /\ \A o \in Addresses :
          /\ objects'[o].tag = objects[o].tag
          /\ Usual(objects, table, program.path, o) => Usual(objects', table', program.path, o)

LEMMA KeptSets ==
    ASSUME TypeInv, Kept
    PROVE  /\ Len(objects') \in Nat /\ Addresses' = 1..Len(objects')
           /\ Addresses \subseteq Addresses' /\ Closures \subseteq Closures'
           /\ Upvalues \subseteq Upvalues'
           /\ FrameSet \subseteq FrameSet' /\ Entries \subseteq Entries'
           /\ stack \in Seq(Addresses') /\ frames \in Seq(FrameSet')
           /\ open \in Seq(Entries') /\ building \in Closures' \cup {Nil}
<1>1. /\ Len(objects) \in Nat /\ Addresses = 1..Len(objects)
      /\ Len(objects') \in Nat /\ Addresses' = 1..Len(objects')
  BY InvTypes, LenProperties DEF Kept, Good, Addresses
<1>2. Addresses \subseteq Addresses'
  BY <1>1 DEF Kept
<1>3. Closures \subseteq Closures' /\ Upvalues \subseteq Upvalues'
  BY <1>2 DEF Closures, Upvalues, Kept
<1>4. FrameSet \subseteq FrameSet' /\ Entries \subseteq Entries'
  BY <1>3 DEF FrameSet, Entries
<1>5. /\ stack \in Seq(Addresses) /\ frames \in Seq(FrameSet) /\ open \in Seq(Entries)
      /\ building \in Closures \cup {Nil}
  BY DEF TypeInv, MachineInv, StackInv, FramesInv, OpenInv
<1>. HIDE DEF FrameSet, Entries, Addresses
<1>. QED
  BY <1>1, <1>2, <1>3, <1>4, <1>5, SeqMonotonic

LEMMA FramesStay ==
    ASSUME TypeInv, Kept, frames' = frames, sp' \in Nat, Frame.slots <= sp'
    PROVE  FramesInv'
<1>1. /\ frames' \in Seq(FrameSet') /\ frames # <<>>
      /\ \A i, j \in DOMAIN frames : i <= j => frames[i].slots <= frames[j].slots
  BY KeptSets DEF TypeInv, MachineInv, FramesInv
<1>2. \A i \in DOMAIN frames : frames[i].slots <= sp'
  <2>1. /\ sp \in Nat /\ Frame.slots \in Nat
        /\ \A i \in DOMAIN frames : frames[i].slots \in Nat /\ frames[i].slots <= Frame.slots
    BY FramesAre, InvTypes
  <2>. QED
    BY <2>1
<1>. QED
  BY <1>1, <1>2 DEF FramesInv

LEMMA OpenStays ==
    ASSUME TypeInv, Kept, open' = open, Len(stack') \in Nat, Len(stack) <= Len(stack'),
           \/ building = Nil
           \/ building' # Nil /\ sp' = sp
           \/ sp + 1 <= Len(stack')
    PROVE  OpenInv'
<1>1. /\ open' \in Seq(Entries')
      /\ \A i, j \in DOMAIN open : open[i].upvalue = open[j].upvalue => i = j
      /\ \A i \in DOMAIN open : \/ open[i].slot <= Len(stack)
                                \/ building # Nil /\ open[i].slot = sp + 1
  BY KeptSets DEF TypeInv, MachineInv, OpenInv
<1>2. /\ Len(stack) \in Nat /\ \A i \in DOMAIN open : open[i].slot \in Nat
  BY OpenAre, InvTypes
<1>. QED
  BY <1>1, <1>2 DEF OpenInv

\* Closures and upvalues that do not change still fit.
LEMMA FitStay ==
    ASSUME TypeInv, Kept, \A o \in Addresses : UpvalueFits(o),
           \A o \in Addresses' :
              \/ UpvalueFits(o)'
              \/ /\ o \in Addresses /\ objects'[o].refs = objects[o].refs
                 /\ IsOpen(o) => IsOpen(o)'
    PROVE  \A o \in Addresses' : UpvalueFits(o)'
<1>. SUFFICES ASSUME NEW o \in Addresses, objects'[o].refs = objects[o].refs,
                     IsOpen(o) => IsOpen(o)'
              PROVE  UpvalueFits(o)'
  OBVIOUS
<1>1. UpvalueFits(o) /\ objects'[o].tag = objects[o].tag /\ Upvalues \subseteq Upvalues'
  BY KeptSets DEF Kept
<1>. QED
  BY <1>1 DEF UpvalueFits

LEMMA StackAt ==
    ASSUME TypeInv, NEW i \in 1..Len(stack)
    PROVE  stack[i] \in Addresses /\ stack[i] \in ItemsOf(stack)
<1>1. stack \in Seq(Addresses)
  BY DEF TypeInv, MachineInv, StackInv
<1>. QED
  BY <1>1, ElementOfSeq, ItemsInSet

LEMMA HasRoom ==
    ASSUME TypeInv, NEW n \in Nat, Has(n)
    PROVE  /\ sp - n \in Nat /\ Frame.slots \in Nat /\ Frame.slots <= sp - n
           /\ sp \in Nat /\ Len(stack) \in Nat /\ sp <= Len(stack)
           /\ \A i \in (sp - n + 1)..sp : i \in 1..Len(stack) /\ i >= Frame.slots + 1
<1>1. /\ Frame.slots \in Nat /\ sp \in Nat /\ Len(stack) \in Nat /\ sp <= Len(stack)
      /\ sp - Frame.slots >= n
  BY FramesAre, InvTypes DEF Has
<1>. QED
  BY <1>1

LEMMA TopIs ==
    ASSUME TypeInv, Has(1)
    PROVE  Top \in Addresses /\ Top \in ItemsOf(stack)
<1>1. sp \in 1..Len(stack)
  BY HasRoom
<1>. QED
  BY <1>1, StackAt DEF Top

LEMMA WrittenIs ==
    ASSUME TypeInv, NEW S, Addresses \subseteq S, NEW value \in S,
           NEW position \in 1..(Len(stack) + 1)
    PROVE  /\ Written(position, value) \in Seq(S) /\ Len(Written(position, value)) \in Nat
           /\ Len(stack) <= Len(Written(position, value))
           /\ position <= Len(Written(position, value))
           /\ ItemsOf(Written(position, value)) \subseteq ItemsOf(stack) \cup {value}
<1>1. stack \in Seq(S) /\ Len(stack) \in Nat
  BY InvTypes, SeqMonotonic DEF TypeInv, MachineInv, StackInv
<1>2. CASE position <= Len(stack)
  <2>. DEFINE new == [stack EXCEPT ![position] = value]
  <2>1. Written(position, value) = new /\ position \in 1..Len(stack)
    BY <1>1, <1>2 DEF Written
  <2>2. /\ new \in Seq(S) /\ Len(new) = Len(stack)
        /\ ItemsOf(new) \subseteq ItemsOf(stack) \cup {value}
    BY <1>1, <2>1, ItemsOfSet
  <2>. HIDE DEF new
  <2>. QED
    BY <1>1, <1>2, <2>1, <2>2
<1>3. CASE ~(position <= Len(stack))
  <2>. DEFINE new == Append(stack, value)
  <2>1. Written(position, value) = new /\ position = Len(stack) + 1
    BY <1>1, <1>3 DEF Written
  <2>2. /\ new \in Seq(S) /\ Len(new) = Len(stack) + 1
        /\ ItemsOf(new) = ItemsOf(stack) \cup {value}
    BY <1>1, AppendProperties, ItemsOfAppend
  <2>. HIDE DEF new
  <2>. QED
    BY <1>1, <2>1, <2>2
<1>. QED
  BY <1>2, <1>3

LEMMA GrowsKeeps ==
    ASSUME NEW h, NEW k, NEW n, NEW m, NEW path, GoodHeap(h, n, path), GoodHeap(k, m, path),
           Grows(h, k), NEW v, Usual(h.objects, h.table, path, v), v \in 1..Len(h.objects)
    PROVE  Usual(k.objects, k.table, path, v)
<1>1. DOMAIN h.objects = 1..Len(h.objects) /\ DOMAIN k.objects = 1..Len(k.objects)
  BY LenProperties DEF GoodHeap, Good
<1>. QED
  BY <1>1 DEF Usual, Grows

LEMMA GrowsMore ==
    ASSUME NEW h, NEW k, NEW l, h.objects \in Seq(Record), k.objects \in Seq(Record),
           l.objects \in Seq(Record), Grows(h, k), Grows(k, l)
    PROVE  Grows(h, l)
<1>1. Len(h.objects) \in Nat /\ Len(k.objects) \in Nat /\ Len(l.objects) \in Nat
  BY LenProperties
<1>. QED
  BY <1>1 DEF Grows

\* An object is changed where it is.
LEMMA ObjectSet ==
    ASSUME NEW h, IsHeap(h), h.objects \in Seq(Record), NEW o \in 1..Len(h.objects),
           NEW new \in Record
    PROVE  LET k == [h EXCEPT !.objects = [h.objects EXCEPT ![o] = new]] IN
           /\ IsHeap(k) /\ k.objects \in Seq(Record) /\ Len(k.objects) = Len(h.objects)
           /\ k.head = h.head /\ k.table = h.table /\ k.at = h.at
           /\ \A p \in 1..Len(h.objects) : p # o => k.objects[p] = h.objects[p]
           /\ k.objects[o] = new
<1>. DEFINE objs == h.objects first == h.head strings == h.table at == h.at
            changed == [objs EXCEPT ![o] = new]
            k == [h EXCEPT !.objects = changed]
<1>1. h = [objects |-> objs, head |-> first, table |-> strings, at |-> at]
  BY DEF IsHeap
<1>2. objs \in Seq(Record) /\ o \in 1..Len(objs)
  OBVIOUS
<1>. HIDE DEF objs, first, strings, at
<1>3. /\ changed \in Seq(Record) /\ Len(changed) = Len(objs)
      /\ \A p \in 1..Len(objs) : p # o => changed[p] = objs[p]
      /\ changed[o] = new
  BY <1>2, ExceptSeq
<1>. HIDE DEF changed
<1>4. k = [objects |-> changed, head |-> first, table |-> strings, at |-> at]
  BY <1>1
<1>. HIDE DEF k
<1>5. /\ IsHeap(k) /\ k.objects = changed /\ k.head = first /\ k.table = strings
      /\ k.at = at
  BY <1>4 DEF IsHeap
<1>6. /\ IsHeap(k) /\ k.objects \in Seq(Record) /\ Len(k.objects) = Len(h.objects)
      /\ k.head = h.head /\ k.table = h.table /\ k.at = h.at
      /\ \A p \in 1..Len(h.objects) : p # o => k.objects[p] = h.objects[p]
      /\ k.objects[o] = new
  BY <1>3, <1>5 DEF objs, first, strings, at
<1>. QED
  BY <1>6 DEF k, changed, objs

\* What an instruction leaves of the objects: tags, what they lead to, and the
\* strings it may use. It adds neither closures nor upvalues.
Keeps(h, k, path) ==
    /\ Len(h.objects) <= Len(k.objects)
    /\ \A o \in 1..Len(h.objects) :
          /\ k.objects[o].tag = h.objects[o].tag /\ k.objects[o].refs = h.objects[o].refs
          /\ Usual(h.objects, h.table, path, o) => Usual(k.objects, k.table, path, o)
    /\ \A o \in 1..Len(k.objects) :
          o \in 1..Len(h.objects) \/ k.objects[o].tag \notin {"upvalue", "closure"}

LEMMA GrowsIsKeeps ==
    ASSUME NEW h, NEW k, NEW n, NEW m, NEW path, GoodHeap(h, n, path), GoodHeap(k, m, path),
           Grows(h, k),
           \A o \in 1..Len(k.objects) :
              o \in 1..Len(h.objects) \/ k.objects[o].tag \notin {"upvalue", "closure"}
    PROVE  Keeps(h, k, path)
BY GrowsKeeps DEF Keeps, Grows

LEMMA KeepsMore ==
    ASSUME NEW h, NEW k, NEW l, NEW path, h.objects \in Seq(Record), k.objects \in Seq(Record),
           l.objects \in Seq(Record), Keeps(h, k, path), Keeps(k, l, path)
    PROVE  Keeps(h, l, path)
<1>1. Len(h.objects) \in Nat /\ Len(k.objects) \in Nat /\ Len(l.objects) \in Nat
  BY LenProperties
<1>2. ASSUME NEW o \in 1..Len(l.objects)
      PROVE  o \in 1..Len(h.objects) \/ l.objects[o].tag \notin {"upvalue", "closure"}
  BY <1>1 DEF Keeps
<1>. QED
  BY <1>1, <1>2 DEF Keeps

\* The path of the file is cut in place. No value of the program is that string.
LEMMA CutGood ==
    ASSUME NEW h, NEW path \in Seq(Characters), GoodHeap(h, Len(h.objects), path),
           h.at \in 1..Len(h.objects), h.objects[h.at].tag = "string", h.at \in h.table,
           h.objects[h.at].text = path, h.objects[h.at].hash = path
    PROVE  LET k == [h EXCEPT !.objects[h.at].text = Directory(@)] IN
           /\ GoodHeap(k, Len(k.objects), path) /\ Keeps(h, k, path)
           /\ k.at = h.at /\ Len(k.objects) = Len(h.objects)
<1>. DEFINE at == h.at
            new == [h.objects[at] EXCEPT !.text = Directory(path)]
            k == [h EXCEPT !.objects = [h.objects EXCEPT ![at] = new]]
<1>1. /\ IsHeap(h) /\ h.objects \in Seq(Record) /\ Len(h.objects) \in Nat
      /\ DOMAIN h.objects = 1..Len(h.objects) /\ at \in 1..Len(h.objects)
      /\ Good(h.objects, h.head, h.table, Len(h.objects), path)
      /\ h.objects[at] \in Record
  BY LenProperties, ElementOfSeq DEF GoodHeap, Good
<1>2. [h EXCEPT !.objects[h.at].text = Directory(@)] = k
  BY <1>1
<1>3. Directory(path) \in Seq(Characters)
  BY DirectoryIsText
<1>4. /\ new \in Record /\ new.refs = h.objects[at].refs /\ new.keys = h.objects[at].keys
      /\ new.tag = "string" /\ new.text = Directory(path) /\ new.hash = path
      /\ new.marked = h.objects[at].marked /\ new.next = h.objects[at].next
  BY <1>1, <1>3 DEF Record
<1>. HIDE DEF new
<1>5. /\ IsHeap(k) /\ k.objects \in Seq(Record) /\ Len(k.objects) = Len(h.objects)
      /\ k.head = h.head /\ k.table = h.table /\ k.at = h.at
      /\ \A p \in 1..Len(h.objects) : p # at => k.objects[p] = h.objects[p]
      /\ k.objects[at] = new
  BY <1>1, <1>4, ObjectSet
<1>. HIDE DEF k, at
<1>6. h.objects[at].tag = "string" /\ h.objects[at].text = path /\ h.objects[at].hash = path
  BY DEF at
<1>7. /\ DOMAIN k.objects = 1..Len(h.objects)
      /\ \A p \in 1..Len(h.objects) :
            /\ k.objects[p].tag = h.objects[p].tag /\ k.objects[p].refs = h.objects[p].refs
            /\ k.objects[p].keys = h.objects[p].keys /\ k.objects[p].hash = h.objects[p].hash
            /\ k.objects[p].marked = h.objects[p].marked
            /\ k.objects[p].next = h.objects[p].next
  BY <1>4, <1>5, <1>6, LenProperties
<1>8. ASSUME NEW v, Usual(h.objects, h.table, path, v)
      PROVE  Usual(k.objects, k.table, path, v)
  <2>1. CASE v = at
    BY <1>1, <1>6, <1>8, <2>1 DEF Usual
  <2>2. CASE v # at
    BY <1>1, <1>5, <1>7, <1>8, <2>2 DEF Usual
  <2>. QED
    BY <2>1, <2>2
<1>9. TableOfStrings(k.objects, k.table)
  <2>1. TableOfStrings(h.objects, h.table)
    BY <1>1 DEF Good
  <2>2. \A s \in k.table : s \in 1..Len(h.objects)
    BY <1>1, <1>5, <2>1 DEF TableOfStrings
  <2>3. ASSUME NEW s \in k.table, k.objects[s].hash = k.objects[s].text
        PROVE  h.objects[s].text = k.objects[s].text
    BY <1>4, <1>5, <1>6, <1>7, <2>2, <2>3
  <2>4. k.table \subseteq {s \in DOMAIN k.objects : k.objects[s].tag = "string"}
    BY <1>1, <1>5, <1>7, <2>1 DEF TableOfStrings
  <2>5. ASSUME NEW s \in k.table, NEW t \in k.table,
               k.objects[s].hash = k.objects[s].text, k.objects[t].hash = k.objects[t].text,
               k.objects[s].text = k.objects[t].text
        PROVE  s = t
    <3>1. /\ h.objects[s].text = k.objects[s].text /\ h.objects[t].text = k.objects[t].text
          /\ h.objects[s].hash = k.objects[s].hash /\ h.objects[t].hash = k.objects[t].hash
      BY <1>7, <2>2, <2>3, <2>5
    <3>. QED
      BY <1>5, <2>1, <2>5, <3>1 DEF TableOfStrings
  <2>. QED
    BY <2>4, <2>5 DEF TableOfStrings
<1>10. GoodHeap(k, Len(k.objects), path)
  <2>1. PointersIn(k.objects, Len(k.objects))
    BY <1>1, <1>5, <1>7 DEF Good, PointersIn
  <2>2. ListInOrder(k.objects, k.head)
    BY <1>1, <1>5, <1>7 DEF Good, ListInOrder
  <2>3. RefsUsual(k.objects, k.table, path)
    BY <1>1, <1>7, <1>8 DEF Good, RefsUsual
  <2>4. k.objects[Globals].tag = "map"
    <3>1. Globals \in 1..Len(h.objects) /\ h.objects[Globals].tag = "map"
      BY <1>1 DEF Good, Globals, Modules
    <3>. QED
      BY <1>7, <3>1
  <2>5. Modules <= Len(k.objects) /\ \A o \in DOMAIN k.objects : ~k.objects[o].marked
    BY <1>1, <1>5, <1>7 DEF Good
  <2>. QED
    BY <1>5, <1>9, <2>1, <2>2, <2>3, <2>4, <2>5 DEF GoodHeap, Good
<1>11. Keeps(h, k, path)
  BY <1>1, <1>5, <1>7, <1>8 DEF Keeps
<1>. QED
  BY <1>2, <1>5, <1>10, <1>11

\* A map gets a key.
LEMMA KeyedGood ==
    ASSUME NEW h, NEW path, GoodHeap(h, Len(h.objects), path),
           h.at \in 1..Len(h.objects), NEW o \in 1..Len(h.objects)
    PROVE  LET k == [h EXCEPT !.objects[o].keys =
                                 IF h.at \in ItemsOf(@) THEN @ ELSE Append(@, h.at)] IN
           GoodHeap(k, Len(k.objects), path) /\ Keeps(h, k, path)
<1>. DEFINE keys == h.objects[o].keys
            more == IF h.at \in ItemsOf(keys) THEN keys ELSE Append(keys, h.at)
            new == [h.objects[o] EXCEPT !.keys = more]
            k == [h EXCEPT !.objects = [h.objects EXCEPT ![o] = new]]
<1>1. /\ IsHeap(h) /\ h.objects \in Seq(Record) /\ Len(h.objects) \in Nat
      /\ DOMAIN h.objects = 1..Len(h.objects)
      /\ Good(h.objects, h.head, h.table, Len(h.objects), path)
      /\ h.objects[o] \in Record
  BY LenProperties, ElementOfSeq DEF GoodHeap, Good
<1>2. [h EXCEPT !.objects[o].keys = IF h.at \in ItemsOf(@) THEN @ ELSE Append(@, h.at)] = k
  BY <1>1
<1>3. more \in Seq(Nat) /\ ItemsOf(more) \subseteq 1..Len(h.objects)
  <2>1. keys \in Seq(Nat) /\ ItemsOf(keys) \subseteq 1..Len(h.objects) /\ h.at \in Nat
    <3>1. h.objects[o].keys \in Seq(Nat)
      BY <1>1 DEF Record
    <3>2. ItemsOf(h.objects[o].keys) \subseteq 1..Len(h.objects)
      BY <1>1 DEF Good, PointersIn
    <3>. QED
      BY <3>1, <3>2
  <2>. HIDE DEF keys
  <2>2. /\ Append(keys, h.at) \in Seq(Nat)
        /\ ItemsOf(Append(keys, h.at)) = ItemsOf(keys) \cup {h.at}
    BY <2>1, AppendProperties, ItemsOfAppend
  <2>. QED
    BY <2>1, <2>2
<1>. HIDE DEF more
<1>4. /\ new \in Record /\ new.refs = h.objects[o].refs /\ new.keys = more
      /\ new.tag = h.objects[o].tag /\ new.text = h.objects[o].text
      /\ new.hash = h.objects[o].hash /\ new.marked = h.objects[o].marked
      /\ new.next = h.objects[o].next
  BY <1>1, <1>3 DEF Record
<1>. HIDE DEF new
<1>5. /\ IsHeap(k) /\ k.objects \in Seq(Record) /\ Len(k.objects) = Len(h.objects)
      /\ k.head = h.head /\ k.table = h.table
      /\ \A p \in 1..Len(h.objects) : p # o => k.objects[p] = h.objects[p]
      /\ k.objects[o] = new
  BY <1>1, <1>4, ObjectSet
<1>. HIDE DEF k
<1>6. Relinked(h.objects, k.objects, o)
  BY <1>1, <1>4, <1>5 DEF Relinked, Relinks
<1>7. LinksFit(h.objects, h.table, Len(h.objects), path, k.objects[o])
  BY <1>1, <1>3, <1>4, <1>5 DEF LinksFit, Good, PointersIn, RefsUsual
<1>8. /\ Good(k.objects, h.head, h.table, Len(h.objects), path)
      /\ \A v : Usual(h.objects, h.table, path, v) <=> Usual(k.objects, h.table, path, v)
  BY <1>1, <1>6, <1>7, LinkedGood
<1>9. GoodHeap(k, Len(k.objects), path)
  BY <1>5, <1>8 DEF GoodHeap
<1>10. Keeps(h, k, path)
  BY <1>1, <1>4, <1>5, <1>8 DEF Keeps
<1>. QED
  BY <1>2, <1>9, <1>10

(*****************************************************************************)
(* Steps that keep what the objects lead to.                                  *)
(*****************************************************************************)
LEMMA NowKeeps ==
    ASSUME IInv, phase = "running"
    PROVE  GoodHeap(Now, Len(Now.objects), program.path) /\ Keeps(Now, Now, program.path)
<1>1. Len(Now.objects) \in Nat
  BY InvAtRun, InvTypes DEF IInv
<1>. QED
  BY <1>1, InvAtRun DEF Keeps

\* What is on the stack may change, and objects may be added.
LEMMA KeepStep ==
    ASSUME IInv, phase = "running", phase' \in {"running", "stopped"}, building = Nil,
           UNCHANGED <<program, collector, frames, open, building>>,
           NEW h, GoodHeap(h, Len(h.objects), program.path), Keeps(Now, h, program.path),
           objects' = h.objects, head' = h.head, table' = h.table,
           stack' \in Seq(Addresses'), Len(stack) <= Len(stack'), sp' \in 0..Len(stack'),
           Frame.slots <= sp',
           \A v \in ItemsOf(stack') :
              v \in ItemsOf(stack) \/ Usual(h.objects, h.table, program.path, v)
    PROVE  IInv'
<1>1. TypeInv
  BY DEF IInv
<1>2. /\ \A v \in ItemsOf(stack) : Usual(objects, table, program.path, v)
      /\ \A o \in Addresses : UpvalueFits(o)
      /\ Now.objects = objects /\ Now.table = table
  BY InvAtRun
<1>3. /\ Len(objects) \in Nat /\ Addresses = 1..Len(objects)
      /\ ItemsOf(stack) \subseteq Addresses
  BY <1>1, InvTypes
<1>4. Good(objects', head', table', Len(objects'), program.path)
  BY DEF GoodHeap
<1>5. Kept
  BY <1>2, <1>3, <1>4 DEF Keeps, Kept
<1>6. Len(objects') \in Nat /\ Addresses' = 1..Len(objects') /\ building' \in Closures' \cup {Nil}
  BY <1>1, <1>5, KeptSets
<1>7. \A o \in Addresses' : UpvalueFits(o)'
  <2>1. \A o \in Addresses : objects'[o].refs = objects[o].refs
    BY <1>2, <1>3 DEF Keeps
  <2>2. \A o \in Addresses' : o \in Addresses \/ objects'[o].tag \notin {"upvalue", "closure"}
    BY <1>2, <1>3, <1>6 DEF Keeps
  <2>3. \A o : IsOpen(o)' <=> IsOpen(o)
    BY DEF IsOpen
  <2>4. \A o \in Addresses' :
            objects'[o].tag \notin {"upvalue", "closure"} => UpvalueFits(o)'
    BY DEF UpvalueFits
  <2>. QED
    BY <1>1, <1>2, <1>5, <2>1, <2>2, <2>3, <2>4, FitStay
<1>8. Len(stack') \in Nat /\ sp' \in Nat
  BY LenProperties
<1>9. MachineInv'
  <2>1. FramesInv' /\ OpenInv'
    BY <1>1, <1>5, <1>8, FramesStay, OpenStays
  <2>. QED
    BY <1>6, <2>1 DEF MachineInv, StackInv
<1>10. \A v \in ItemsOf(stack') : Usual(objects', table', program.path, v)
  BY <1>2, <1>3, <1>5 DEF Kept
<1>. QED
  BY <1>4, <1>5, <1>7, <1>9, <1>10, RunStep DEF Kept

\* An instruction that adds objects and pushes a value for n others.
LEMMA PushStep ==
    ASSUME IInv, Running, NEW h, GoodHeap(h, Len(h.objects), program.path),
           Keeps(Now, h, program.path),
           objects' = h.objects, head' = h.head, table' = h.table,
           NEW n \in Nat, Has(n), NEW value \in 1..Len(h.objects), Pushes(n, value),
           Usual(h.objects, h.table, program.path, value)
    PROVE  IInv'
<1>1. /\ phase = "running" /\ phase' = "running" /\ UNCHANGED <<program, collector>>
      /\ building = Nil /\ UNCHANGED <<frames, open, building>> /\ TypeInv
      /\ stack' = Written(sp - n + 1, value) /\ sp' = sp - n + 1
  BY DEF Running, Pushes, IInv
<1>2. /\ sp - n \in Nat /\ Frame.slots \in Nat /\ Frame.slots <= sp - n
      /\ sp \in Nat /\ Len(stack) \in Nat /\ sp <= Len(stack)
  BY <1>1, HasRoom
<1>3. sp - n + 1 \in 1..(Len(stack) + 1)
  BY <1>2
<1>4. Addresses \subseteq Addresses' /\ value \in Addresses'
  <2>1. /\ Len(objects) \in Nat /\ Addresses = 1..Len(objects) /\ Now.objects = objects
    BY <1>1, InvTypes, InvAtRun
  <2>2. Addresses' = 1..Len(h.objects) /\ Len(h.objects) \in Nat
    BY LenProperties DEF Addresses, GoodHeap, Good
  <2>. QED
    BY <2>1, <2>2 DEF Keeps
<1>5. /\ stack' \in Seq(Addresses') /\ Len(stack') \in Nat /\ Len(stack) <= Len(stack')
      /\ sp' <= Len(stack') /\ ItemsOf(stack') \subseteq ItemsOf(stack) \cup {value}
  <2>. DEFINE position == sp - n + 1
  <2>1. position \in 1..(Len(stack) + 1) /\ stack' = Written(position, value) /\ sp' = position
    BY <1>1, <1>3
  <2>. HIDE DEF position
  <2>2. /\ Written(position, value) \in Seq(Addresses')
        /\ Len(Written(position, value)) \in Nat
        /\ Len(stack) <= Len(Written(position, value))
        /\ position <= Len(Written(position, value))
        /\ ItemsOf(Written(position, value)) \subseteq ItemsOf(stack) \cup {value}
    BY <1>1, <1>4, <2>1, WrittenIs
  <2>. QED
    BY <2>1, <2>2
<1>6. sp' \in 0..Len(stack') /\ Frame.slots <= sp'
  BY <1>1, <1>2, <1>5
<1>. QED
  BY <1>1, <1>5, <1>6, KeepStep

(*****************************************************************************)
(* Instructions.                                                              *)
(*****************************************************************************)
LEMMA HasNone == ASSUME TypeInv PROVE Has(0)
BY FramesAre, InvTypes DEF Has

LEMMA PushValueInv ==
    ASSUME IInv, Running, NEW v \in Addresses, Usual(objects, table, program.path, v),
           Pushes(0, v), UNCHANGED heap
    PROVE  IInv'
<1>1. phase = "running" /\ TypeInv
  BY DEF Running, IInv
<1>2. /\ GoodHeap(Now, Len(Now.objects), program.path) /\ Keeps(Now, Now, program.path)
      /\ Now.objects = objects /\ Now.head = head /\ Now.table = table
  BY <1>1, NowKeeps, InvAtRun
<1>3. objects' = Now.objects /\ head' = Now.head /\ table' = Now.table
  BY <1>2 DEF heap
<1>4. v \in 1..Len(Now.objects) /\ Usual(Now.objects, Now.table, program.path, v)
  BY <1>1, <1>2, InvTypes
<1>5. Has(0)
  BY <1>1, HasNone
<1>. QED
  BY <1>2, <1>3, <1>4, <1>5, PushStep

\* What an object leads to.
LEMMA RefIsUsual ==
    ASSUME IInv, phase = "running", NEW o \in Addresses, NEW v \in ItemsOf(objects[o].refs)
    PROVE  v \in Addresses /\ Usual(objects, table, program.path, v)
<1>1. Good(objects, head, table, Len(objects), program.path) /\ Addresses = 1..Len(objects)
  BY InvAtRun, InvTypes DEF IInv
<1>. QED
  BY <1>1 DEF Good, PointersIn, RefsUsual, Addresses

LEMMA FixedAddresses ==
    ASSUME TypeInv
    PROVE  Globals \in Addresses /\ Main \in Addresses /\ Modules \in Addresses
BY InvTypes DEF TypeInv, Globals, Main, Modules

LEMMA PushConstantInv == ASSUME IInv, PushConstant PROVE IInv'
<1>1. Running /\ phase = "running" /\ Main \in Addresses /\ UNCHANGED heap
  BY FixedAddresses DEF PushConstant, Running, IInv
<1>2. PICK c \in ItemsOf(objects[Main].refs) : Pushes(0, c)
  BY DEF PushConstant
<1>3. c \in Addresses /\ Usual(objects, table, program.path, c)
  BY <1>1, RefIsUsual
<1>. QED
  BY <1>1, <1>2, <1>3, PushValueInv

LEMMA GetGlobalInv == ASSUME IInv, GetGlobal PROVE IInv'
<1>1. Running /\ phase = "running" /\ Globals \in Addresses /\ UNCHANGED heap
  BY FixedAddresses DEF GetGlobal, Running, IInv
<1>2. PICK c \in ItemsOf(objects[Globals].refs) : Pushes(0, c)
  BY DEF GetGlobal
<1>3. c \in Addresses /\ Usual(objects, table, program.path, c)
  BY <1>1, RefIsUsual
<1>. QED
  BY <1>1, <1>2, <1>3, PushValueInv

LEMMA SlotsAre ==
    ASSUME TypeInv, NEW slot \in Slots
    PROVE  slot \in 1..Len(stack) /\ slot \in 1..sp
BY FramesAre, InvTypes DEF Slots

LEMMA GetLocalInv == ASSUME IInv, GetLocal PROVE IInv'
<1>1. Running /\ phase = "running" /\ TypeInv /\ UNCHANGED heap
  BY DEF GetLocal, Running, IInv
<1>2. PICK slot \in Slots : Pushes(0, stack[slot])
  BY DEF GetLocal
<1>3. stack[slot] \in Addresses /\ stack[slot] \in ItemsOf(stack)
  BY <1>1, SlotsAre, StackAt
<1>. QED
  BY <1>1, <1>2, <1>3, InvAtRun, PushValueInv

\* The place of an open upvalue in the list.
LEMMA PlaceIs ==
    ASSUME TypeInv, NEW o, IsOpen(o)
    PROVE  /\ Place(o) \in 1..Len(open) /\ open[Place(o)].upvalue = o
           /\ \A i \in 1..Len(open) : open[i].upvalue = o => i = Place(o)
<1>1. Place(o) \in DOMAIN open /\ open[Place(o)].upvalue = o
  BY DEF Place, IsOpen
<1>2. \A i, j \in DOMAIN open : open[i].upvalue = open[j].upvalue => i = j
  BY DEF TypeInv, MachineInv, OpenInv
<1>. HIDE DEF Place
<1>. QED
  BY <1>1, <1>2, OpenAre

LEMMA CapturedAre ==
    ASSUME IInv, phase = "running", NEW o \in Captured
    PROVE  o \in Upvalues /\ o \in Addresses /\ UpvalueFits(o)
<1>1. Frame.closure \in Closures /\ Frame.closure \in Addresses
  BY FramesAre DEF IInv, Closures
<1>2. \A a \in Addresses : UpvalueFits(a)
  BY InvAtRun
<1>. QED
  BY <1>1, <1>2 DEF Captured, UpvalueFits, Closures, Upvalues

LEMMA VariableIs ==
    ASSUME IInv, phase = "running", building = Nil, NEW o \in Captured
    PROVE  Variable(o) \in Addresses /\ Usual(objects, table, program.path, Variable(o))
<1>1. TypeInv /\ o \in Addresses /\ objects[o].tag = "upvalue" /\ UpvalueFits(o)
  BY CapturedAre DEF IInv, Upvalues
<1>2. CASE IsOpen(o)
  <2>1. SlotOf(o) \in 1..Len(stack)
    BY <1>1, <1>2, PlaceIs, OpenAre DEF SlotOf
  <2>2. stack[SlotOf(o)] \in Addresses /\ stack[SlotOf(o)] \in ItemsOf(stack)
    BY <1>1, <2>1, StackAt
  <2>. QED
    BY <1>2, <2>2, InvAtRun DEF Variable
<1>3. CASE ~IsOpen(o)
  <2>. DEFINE refs == objects[o].refs
  <2>1. refs # <<>> /\ refs \in Seq(Nat)
    BY <1>1, <1>3, InvTypes DEF UpvalueFits, Record
  <2>. HIDE DEF refs
  <2>2. refs[1] \in ItemsOf(refs)
    <3>1. 1 \in DOMAIN refs
      BY <2>1, EmptySeq
    <3>. QED
      BY <3>1 DEF ItemsOf
  <2>. QED
    BY <1>1, <1>3, <2>2, RefIsUsual DEF Variable, refs
<1>. QED
  BY <1>2, <1>3

LEMMA GetUpvalueInv == ASSUME IInv, GetUpvalue PROVE IInv'
<1>1. Running /\ phase = "running" /\ building = Nil /\ UNCHANGED heap
  BY DEF GetUpvalue, Running
<1>2. PICK upvalue \in Captured : Pushes(0, Variable(upvalue))
  BY DEF GetUpvalue
<1>. QED
  BY <1>1, <1>2, VariableIs, PushValueInv

\* Only the stack changes.
LEMMA StackStep ==
    ASSUME IInv, phase = "running", phase' \in {"running", "stopped"}, building = Nil,
           UNCHANGED <<program, collector, heap, frames, open, building>>,
           stack' \in Seq(Addresses), Len(stack') = Len(stack), sp' \in 0..Len(stack),
           Frame.slots <= sp', ItemsOf(stack') \subseteq ItemsOf(stack)
    PROVE  IInv'
<1>1. /\ GoodHeap(Now, Len(Now.objects), program.path) /\ Keeps(Now, Now, program.path)
      /\ Now.objects = objects /\ Now.head = head /\ Now.table = table
  BY NowKeeps, InvAtRun
<1>2. objects' = Now.objects /\ head' = Now.head /\ table' = Now.table
  BY <1>1 DEF heap
<1>3. Addresses' = Addresses /\ Len(stack) \in Nat
  BY <1>1, <1>2, InvTypes DEF Addresses, IInv
<1>. QED
  BY <1>1, <1>2, <1>3, KeepStep

LEMMA PopInv == ASSUME IInv, Pop PROVE IInv'
<1>1. /\ TypeInv /\ phase = "running" /\ phase' = "running" /\ building = Nil
      /\ UNCHANGED <<program, collector, heap, frames, open, building>>
      /\ stack' = stack /\ sp' = sp - 1 /\ Has(1)
  BY DEF Pop, Running, Drops, IInv
<1>2. sp' \in 0..Len(stack) /\ Frame.slots <= sp'
  BY <1>1, HasRoom
<1>3. stack \in Seq(Addresses)
  BY <1>1 DEF TypeInv, MachineInv, StackInv
<1>. QED
  BY <1>1, <1>2, <1>3, StackStep

LEMMA SetLocalInv == ASSUME IInv, SetLocal PROVE IInv'
<1>1. /\ TypeInv /\ phase = "running" /\ phase' = "running" /\ building = Nil
      /\ UNCHANGED <<program, collector, heap, frames, open, building>>
      /\ sp' = sp /\ Has(1)
  BY DEF SetLocal, Running, IInv
<1>2. PICK slot \in Slots : stack' = [stack EXCEPT ![slot] = Top]
  BY DEF SetLocal
<1>3. sp' \in 0..Len(stack) /\ Frame.slots <= sp'
  BY <1>1, FramesAre, InvTypes
<1>4. stack \in Seq(Addresses) /\ slot \in 1..Len(stack) /\ Top \in Addresses /\ Top \in ItemsOf(stack)
  BY <1>1, SlotsAre, TopIs DEF TypeInv, MachineInv, StackInv
<1>5. /\ stack' \in Seq(Addresses) /\ Len(stack') = Len(stack)
      /\ ItemsOf(stack') \subseteq ItemsOf(stack) \cup {Top}
  <2>. DEFINE value == Top new == [stack EXCEPT ![slot] = value]
  <2>1. value \in Addresses
    BY <1>4
  <2>. HIDE DEF value
  <2>2. /\ new \in Seq(Addresses) /\ Len(new) = Len(stack)
        /\ ItemsOf(new) \subseteq ItemsOf(stack) \cup {value}
    BY <1>4, <2>1, ItemsOfSet
  <2>. QED
    BY <1>2, <2>2 DEF value
<1>. QED
  BY <1>1, <1>3, <1>4, <1>5, StackStep

\* The string of a text that is not the path replaces n values.
LEMMA PushTextInv ==
    ASSUME IInv, Running, NEW text \in Seq(Characters), Usable(text), NEW n \in Nat, Has(n),
           Becomes(Interned(Now, text)), Pushes(n, Interned(Now, text).at)
    PROVE  IInv'
<1>. DEFINE h == Interned(Now, text)
<1>1. GoodHeap(Now, Len(Now.objects), program.path)
  BY InvAtRun DEF Running
<1>2. /\ GoodHeap(h, Len(h.objects), program.path) /\ Keeps(Now, h, program.path)
      /\ h.at \in h.table /\ h.at \in 1..Len(h.objects)
      /\ h.objects[h.at].text = text /\ h.objects[h.at].hash = text
  <2>1. /\ GoodHeap(h, Len(h.objects), program.path) /\ Grows(Now, h)
        /\ h.at \in h.table /\ h.at \in 1..Len(h.objects)
        /\ h.objects[h.at].text = text /\ h.objects[h.at].hash = text
        /\ AddsStrings(Now, h)
    BY <1>1, InternedGood
  <2>. HIDE DEF h
  <2>2. Keeps(Now, h, program.path)
    BY <1>1, <2>1, GrowsIsKeeps DEF AddsStrings
  <2>. QED
    BY <2>1, <2>2
<1>. HIDE DEF h
<1>3. Usual(h.objects, h.table, program.path, h.at)
  BY <1>2 DEF Usual, Usable
<1>4. objects' = h.objects /\ head' = h.head /\ table' = h.table /\ Pushes(n, h.at)
  BY DEF Becomes, h
<1>. QED
  BY <1>2, <1>3, <1>4, PushStep

LEMMA TextIsSeq ==
    ASSUME TypeInv, NEW o \in Addresses
    PROVE  objects[o].text \in Seq(Characters)
BY InvTypes DEF Record

LEMMA SliceInv == ASSUME IInv, Slice PROVE IInv'
<1>. DEFINE whole == objects[Top].text
<1>1. TypeInv /\ Running /\ Has(1)
  BY DEF IInv, Slice
<1>2. whole \in Seq(Characters) /\ Len(whole) \in Nat
  BY <1>1, TopIs, TextIsSeq, LenProperties
<1>3. PICK n \in 0..Len(whole) :
        \E text \in {SubSeq(whole, 1, n), SubSeq(whole, n + 1, Len(whole))} :
            /\ Usable(text) /\ Becomes(Interned(Now, text))
            /\ Pushes(1, Interned(Now, text).at)
  BY DEF Slice
<1>. HIDE DEF whole
<1>4. /\ SubSeq(whole, 1, n) \in Seq(Characters)
      /\ SubSeq(whole, n + 1, Len(whole)) \in Seq(Characters)
  BY <1>2, ItemsOfPart
<1>. QED
  BY <1>1, <1>3, <1>4, PushTextInv

LEMMA ConcatInv == ASSUME IInv, Concat PROVE IInv'
<1>. DEFINE lhs == stack[sp - 1]
            text == objects[lhs].text \o objects[Top].text
<1>1. /\ TypeInv /\ Running /\ Has(2)
      /\ Usable(text) /\ Becomes(Interned(Now, text)) /\ Pushes(2, Interned(Now, text).at)
  BY DEF IInv, Concat
<1>2. lhs \in Addresses /\ Top \in Addresses
  <2>1. sp - 1 \in 1..Len(stack) /\ sp \in 1..Len(stack)
    BY <1>1, HasRoom
  <2>. QED
    BY <1>1, <2>1, StackAt DEF Top
<1>3. text \in Seq(Characters)
  BY <1>1, <1>2, TextIsSeq, ConcatProperties
<1>. HIDE DEF text
<1>. QED
  BY <1>1, <1>3, PushTextInv

LEMMA MakeArrayInv == ASSUME IInv, MakeArray PROVE IInv'
<1>1. TypeInv /\ Running /\ stack \in Seq(Addresses) /\ Len(stack) \in Nat
  BY InvTypes DEF IInv, MakeArray, TypeInv, MachineInv, StackInv
<1>2. PICK n \in 0..MaxItems :
        /\ Has(n)
        /\ LET items == SubSeq(stack, sp - n + 1, sp)
               h == Alloc(Now, Object("array", items, head))
           IN  Becomes(h) /\ Pushes(n, h.at)
  BY DEF MakeArray
<1>. DEFINE items == SubSeq(stack, sp - n + 1, sp)
            object == Object("array", items, head)
            h == Alloc(Now, object)
<1>3. n \in Nat /\ sp - n + 1 \in Nat \ {0} /\ sp \in Int /\ sp <= Len(stack)
  <2>1. n \in Nat
    BY <1>2
  <2>. QED
    BY <1>1, <1>2, <2>1, HasRoom
<1>4. items \in Seq(Addresses) /\ ItemsOf(items) \subseteq ItemsOf(stack)
  BY <1>1, <1>3, ItemsOfPart
<1>. HIDE DEF items
<1>5. /\ GoodHeap(Now, Len(Now.objects), program.path)
      /\ Now.objects = objects /\ Now.head = head /\ Now.table = table
      /\ \A v \in ItemsOf(stack) : Usual(objects, table, program.path, v)
  BY <1>1, InvAtRun DEF Running
<1>6. /\ object \in Record /\ object.tag = "array" /\ object.refs = items
      /\ object.keys = <<>> /\ ~object.marked /\ object.next = head
  <2>1. items \in Seq(Nat) /\ head \in Nat /\ "array" \in Tags
    <3>1. Addresses \subseteq Nat /\ head \in Nat
      BY <1>1, InvTypes DEF TypeInv
    <3>. QED
      BY <1>4, <3>1, SeqMonotonic DEF Tags
  <2>. QED
    BY <2>1, NewObject
<1>. HIDE DEF object
<1>7. /\ Len(objects) \in Nat /\ Addresses = 1..Len(objects)
      /\ ItemsOf(stack) \subseteq Addresses
  BY <1>1, InvTypes
<1>8. /\ GoodHeap(h, Len(objects) + 1, program.path) /\ Grows(Now, h)
      /\ h.at = Len(h.objects) /\ Len(h.objects) = Len(objects) + 1
      /\ h.objects[h.at] = object
  <2>1. /\ Len(Now.objects) \in Nat /\ Len(objects) + 1 \in Nat
        /\ Len(Now.objects) <= Len(objects) + 1 /\ Len(Now.objects) + 1 <= Len(objects) + 1
        /\ ItemsOf(object.refs) \subseteq 1..(Len(objects) + 1)
        /\ ItemsOf(object.keys) \subseteq 1..(Len(objects) + 1)
    BY <1>4, <1>5, <1>6, <1>7, ItemsOfEmpty
  <2>2. \A r \in ItemsOf(object.refs) : Usual(Now.objects, Now.table, program.path, r)
    BY <1>4, <1>5, <1>6
  <2>3. object.tag # "closure" /\ object.tag # "string" /\ object.next = Now.head
    BY <1>5, <1>6
  <2>. QED
    BY <1>5, <1>6, <2>1, <2>2, <2>3, AllocGood
<1>9. Becomes(h) /\ Pushes(n, h.at)
  BY <1>2 DEF h, object, items
<1>. HIDE DEF h
<1>10. /\ objects' = h.objects /\ head' = h.head /\ table' = h.table
       /\ h.at \in 1..Len(h.objects) /\ Usual(h.objects, h.table, program.path, h.at)
  BY <1>6, <1>7, <1>8, <1>9 DEF Becomes, Usual
<1>11. Keeps(Now, h, program.path)
  <2>1. \A o \in 1..Len(h.objects) : o \in 1..Len(Now.objects) \/ h.objects[o].tag = "array"
    BY <1>5, <1>6, <1>7, <1>8
  <2>. QED
    BY <1>5, <1>8, <2>1, GrowsIsKeeps
<1>. QED
  BY <1>1, <1>2, <1>3, <1>8, <1>9, <1>10, <1>11, PushStep

LEMMA ImportInv == ASSUME IInv, Import PROVE IInv'
<1>1. /\ TypeInv /\ phase = "running" /\ UNCHANGED <<program, collector>> /\ Has(1)
      /\ building = Nil /\ UNCHANGED <<frames, open, building>>
      /\ stack' = stack /\ sp' = sp - 1
  BY DEF IInv, Import, DropsArguments, Drops
<1>. DEFINE Goes(h) == /\ GoodHeap(h, Len(h.objects), program.path)
                       /\ Keeps(Now, h, program.path)
                       /\ objects' = h.objects /\ head' = h.head /\ table' = h.table
                       /\ phase' \in {"running", "stopped"}
<1>4. ASSUME NEW h, Goes(h) PROVE IInv'
  <2>1. /\ sp' \in 0..Len(stack') /\ Len(stack) <= Len(stack') /\ Frame.slots <= sp'
    BY <1>1, HasRoom
  <2>2. stack' \in Seq(Addresses')
    <3>1. /\ Len(objects) \in Nat /\ Addresses = 1..Len(objects) /\ Now.objects = objects
      BY <1>1, InvTypes, InvAtRun
    <3>2. Addresses' = 1..Len(h.objects) /\ Len(h.objects) \in Nat
      BY <1>4, LenProperties DEF Addresses, GoodHeap, Good
    <3>3. Addresses \subseteq Addresses'
      BY <1>4, <3>1, <3>2 DEF Keeps
    <3>. HIDE DEF Addresses
    <3>. QED
      BY <1>1, <3>3, SeqMonotonic DEF TypeInv, MachineInv, StackInv
  <2>. QED
    BY <1>1, <1>4, <2>1, <2>2, KeepStep
<1>2. CASE Top \in ItemsOf(objects[Modules].keys)
  <2>1. UNCHANGED heap /\ phase' = "running"
    BY <1>1, <1>2 DEF Import
  <2>. QED
    BY <1>1, <1>4, <2>1, NowKeeps, InvAtRun DEF heap
<1>3. CASE Top \notin ItemsOf(objects[Modules].keys)
  <2>. DEFINE path == program.path
              parent == Interned(Now, path)
              cut == [parent EXCEPT !.objects[parent.at].text = Directory(@)]
              directory == IF cut.objects[cut.at].text = <<>>
                           THEN Interned(cut, <<".", "/">>) ELSE cut
              text == directory.objects[directory.at].text \o directory.objects[Top].text
              file == Interned(directory, text)
              kept == [file EXCEPT !.objects[Modules].keys =
                                   IF file.at \in ItemsOf(@) THEN @ ELSE Append(@, file.at)]
  <2>1. \/ Becomes(kept) /\ phase' = "running"
        \/ Becomes(file) /\ phase' = "stopped"
    BY <1>3 DEF Import
  <2>2. /\ GoodHeap(Now, Len(Now.objects), path) /\ Now.objects = objects
        /\ Top \in 1..Len(Now.objects) /\ path \in Seq(Characters)
    <3>1. path \in Seq(STRING)
      BY <1>1, ProgramsAssumption DEF TypeInv
    <3>2. path \in Seq(Characters)
      BY <3>1, TextsOf
    <3>. QED
      BY <1>1, <3>2, InvAtRun, TopIs, InvTypes
  <2>. HIDE DEF path
  <2>3. /\ GoodHeap(parent, Len(parent.objects), path) /\ Keeps(Now, parent, path)
        /\ parent.at \in parent.table /\ parent.at \in 1..Len(parent.objects)
        /\ parent.objects[parent.at].text = path /\ parent.objects[parent.at].hash = path
        /\ parent.objects[parent.at].tag = "string"
    <3>1. /\ GoodHeap(parent, Len(parent.objects), path) /\ Grows(Now, parent)
          /\ parent.at \in parent.table /\ parent.at \in 1..Len(parent.objects)
          /\ parent.objects[parent.at].text = path /\ parent.objects[parent.at].hash = path
          /\ parent.objects[parent.at].tag = "string"
          /\ AddsStrings(Now, parent)
      BY <2>2, InternedGood
    <3>. HIDE DEF parent
    <3>. QED
      BY <2>2, <3>1, GrowsIsKeeps DEF AddsStrings
  <2>. HIDE DEF parent
  <2>4. /\ GoodHeap(cut, Len(cut.objects), path) /\ Keeps(parent, cut, path)
        /\ cut.at \in 1..Len(cut.objects)
    BY <2>2, <2>3, CutGood
  <2>. HIDE DEF cut
  <2>5. /\ GoodHeap(directory, Len(directory.objects), path) /\ Keeps(cut, directory, path)
        /\ directory.at \in 1..Len(directory.objects)
    <3>. DEFINE here == <<".", "/">>
    <3>1. here \in Seq(Characters)
      BY DEF Characters
    <3>2. Keeps(cut, cut, path)
      <4>1. Len(cut.objects) \in Nat
        BY <2>4, LenProperties DEF GoodHeap, Good
      <4>. QED
        BY <4>1 DEF Keeps
    <3>3. CASE cut.objects[cut.at].text = <<>>
      <4>1. directory = Interned(cut, here)
        BY <3>3
      <4>. HIDE DEF here, directory
      <4>2. /\ GoodHeap(Interned(cut, here), Len(Interned(cut, here).objects), path)
            /\ Grows(cut, Interned(cut, here))
            /\ Interned(cut, here).at \in 1..Len(Interned(cut, here).objects)
            /\ AddsStrings(cut, Interned(cut, here))
        BY <2>4, <3>1, InternedGood
      <4>. QED
        BY <2>4, <4>1, <4>2, GrowsIsKeeps DEF AddsStrings
    <3>4. CASE cut.objects[cut.at].text # <<>>
      BY <2>4, <3>2, <3>4
    <3>. QED
      BY <3>3, <3>4
  <2>. HIDE DEF directory
  <2>6. /\ Now.objects \in Seq(Record) /\ parent.objects \in Seq(Record)
        /\ cut.objects \in Seq(Record) /\ directory.objects \in Seq(Record)
    BY <2>2, <2>3, <2>4, <2>5 DEF GoodHeap, Good
  <2>7. Keeps(Now, directory, path)
    <3>1. Keeps(Now, cut, path)
      BY <2>3, <2>4, <2>6, KeepsMore
    <3>. QED
      BY <2>5, <2>6, <3>1, KeepsMore
  <2>8. text \in Seq(Characters)
    <3>1. Top \in 1..Len(directory.objects)
      BY <2>2, <2>6, <2>7, LenProperties DEF Keeps
    <3>2. directory.objects[directory.at] \in Record /\ directory.objects[Top] \in Record
      BY <2>5, <2>6, <3>1, ElementOfSeq
    <3>3. /\ directory.objects[directory.at].text \in Seq(Characters)
          /\ directory.objects[Top].text \in Seq(Characters)
      BY <3>2 DEF Record
    <3>. QED
      BY <3>3, ConcatProperties
  <2>. HIDE DEF text
  <2>9. /\ GoodHeap(file, Len(file.objects), path) /\ Keeps(directory, file, path)
        /\ file.at \in 1..Len(file.objects) /\ file.objects \in Seq(Record)
    <3>1. /\ GoodHeap(file, Len(file.objects), path) /\ Grows(directory, file)
          /\ file.at \in 1..Len(file.objects)
          /\ AddsStrings(directory, file)
      BY <2>5, <2>8, InternedGood
    <3>. HIDE DEF file
    <3>2. file.objects \in Seq(Record)
      BY <3>1 DEF GoodHeap, Good
    <3>. QED
      BY <2>5, <3>1, <3>2, GrowsIsKeeps DEF AddsStrings
  <2>. HIDE DEF file
  <2>10. Keeps(Now, file, path)
    BY <2>6, <2>7, <2>9, KeepsMore
  <2>11. GoodHeap(kept, Len(kept.objects), path) /\ Keeps(Now, kept, path)
    <3>1. Modules \in 1..Len(file.objects)
      BY <2>9, LenProperties DEF GoodHeap, Good, Modules
    <3>2. GoodHeap(kept, Len(kept.objects), path) /\ Keeps(file, kept, path)
      BY <2>9, <3>1, KeyedGood
    <3>. HIDE DEF kept
    <3>3. kept.objects \in Seq(Record)
      BY <3>2 DEF GoodHeap, Good
    <3>. QED
      BY <2>6, <2>9, <2>10, <3>2, <3>3, KeepsMore
  <2>. HIDE DEF kept
  <2>12. CASE Becomes(kept) /\ phase' = "running"
    <3>1. objects' = kept.objects /\ head' = kept.head /\ table' = kept.table
      BY <2>12 DEF Becomes
    <3>. QED
      BY <1>4, <2>11, <2>12, <3>1 DEF path
  <2>13. CASE Becomes(file) /\ phase' = "stopped"
    <3>1. objects' = file.objects /\ head' = file.head /\ table' = file.table
      BY <2>13 DEF Becomes
    <3>. QED
      BY <1>4, <2>9, <2>10, <2>13, <3>1 DEF path
  <2>. QED
    BY <2>1, <2>12, <2>13
<1>. QED
  BY <1>2, <1>3

(*****************************************************************************)
(* Steps that change what objects lead to.                                    *)
(*****************************************************************************)
LEMMA LinksKept ==
    ASSUME IInv, phase = "running", UNCHANGED <<program, head, table>>,
           Relinks(objects, objects'),
           \A p \in Addresses :
              \/ objects'[p] = objects[p]
              \/ LinksFit(objects, table, Len(objects), program.path, objects'[p])
    PROVE  Kept /\ Addresses' = Addresses
<1>1. /\ Good(objects, head, table, Len(objects), program.path)
      /\ Len(objects) \in Nat /\ Addresses = 1..Len(objects)
  BY InvAtRun, InvTypes DEF IInv
<1>2. /\ objects' \in Seq(Record) /\ Len(objects') = Len(objects) /\ Addresses' = Addresses
      /\ \A p \in Addresses : objects'[p].tag = objects[p].tag
  BY <1>1, LenProperties DEF Relinks, Addresses
<1>3. /\ Good(objects', head, table, Len(objects), program.path)
      /\ \A v : Usual(objects, table, program.path, v)
                <=> Usual(objects', table, program.path, v)
  BY <1>1, RelinkedGood DEF Addresses
<1>. QED
  BY <1>1, <1>2, <1>3 DEF Kept

\* Of one object, while values may be dropped.
LEMMA LinkStep ==
    ASSUME IInv, Running, UNCHANGED <<head, table, stack, frames, open, building>>,
           NEW o \in Addresses, Relinked(objects, objects', o),
           LinksFit(objects, table, Len(objects), program.path, objects'[o]),
           UpvalueFits(o)', sp' \in 0..Len(stack), Frame.slots <= sp'
    PROVE  IInv'
<1>1. /\ phase = "running" /\ phase' = "running" /\ UNCHANGED <<program, collector>>
      /\ building = Nil /\ TypeInv
  BY DEF Running, IInv
<1>2. /\ Relinks(objects, objects')
      /\ \A p \in Addresses : p # o => objects'[p] = objects[p]
  BY DEF Relinked, Addresses
<1>3. Kept /\ Addresses' = Addresses
  BY <1>1, <1>2, LinksKept
<1>4. \A p \in Addresses' : UpvalueFits(p)'
  <2>1. \A p : IsOpen(p)' <=> IsOpen(p)
    BY DEF IsOpen
  <2>. QED
    BY <1>1, <1>2, <1>3, <2>1, InvAtRun, FitStay
<1>5. MachineInv'
  <2>1. stack' \in Seq(Addresses') /\ building' \in Closures' \cup {Nil} /\ Len(stack) \in Nat
    BY <1>1, <1>3, KeptSets, InvTypes
  <2>2. FramesInv' /\ OpenInv'
    BY <1>1, <1>3, <2>1, FramesStay, OpenStays
  <2>. QED
    BY <2>1, <2>2 DEF MachineInv, StackInv
<1>6. \A v \in ItemsOf(stack') : Usual(objects', table', program.path, v)
  BY <1>1, <1>3, InvAtRun, InvTypes DEF Kept
<1>. QED
  BY <1>1, <1>3, <1>4, <1>5, <1>6, RunStep DEF Kept

LEMMA ArrayPushInv == ASSUME IInv, ArrayPush PROVE IInv'
<1>. DEFINE second == stack[sp - 1]
<1>1. /\ TypeInv /\ Running /\ Has(2) /\ objects[second].tag = "array"
      /\ objects' = [objects EXCEPT ![second].refs = Append(@, Top)]
      /\ UNCHANGED <<head, table, stack, frames, open, building>> /\ sp' = sp - 2
  BY DEF ArrayPush, DropsArguments, Drops, IInv
<1>2. /\ Len(objects) \in Nat /\ Addresses = 1..Len(objects) /\ objects \in Seq(Record)
      /\ ItemsOf(stack) \subseteq Addresses
  BY <1>1, InvTypes DEF TypeInv
<1>3. second \in Addresses /\ Top \in Addresses /\ Top \in ItemsOf(stack)
  <2>1. sp - 1 \in 1..Len(stack) /\ sp \in 1..Len(stack)
    BY <1>1, HasRoom
  <2>. QED
    BY <1>1, <2>1, StackAt DEF Top
<1>. PICK array \in Addresses : array = second
  BY <1>3
<1>. HIDE DEF second
<1>4. /\ Good(objects, head, table, Len(objects), program.path)
      /\ \A v \in ItemsOf(stack) : Usual(objects, table, program.path, v)
  BY <1>1, InvAtRun DEF Running
<1>5. /\ objects[array] \in Record /\ objects[array].refs \in Seq(Addresses)
      /\ ItemsOf(objects[array].keys) \subseteq Addresses
      /\ \A r \in ItemsOf(objects[array].refs) : Usual(objects, table, program.path, r)
  <2>1. /\ objects[array] \in Record /\ ItemsOf(objects[array].refs) \subseteq Addresses
        /\ ItemsOf(objects[array].keys) \subseteq Addresses
    BY <1>1, <1>2, <1>3, InvTypes DEF TypeInv, PointersIn, Addresses
  <2>2. objects[array].refs \in Seq(Nat)
    BY <2>1 DEF Record
  <2>. QED
    BY <1>3, <1>4, <2>1, <2>2, SeqOfItems DEF Good, RefsUsual, Addresses
<1>. DEFINE refs == Append(objects[array].refs, Top)
            new == [objects[array] EXCEPT !.refs = refs]
<1>6. refs \in Seq(Addresses) /\ ItemsOf(refs) = ItemsOf(objects[array].refs) \cup {Top}
  BY <1>3, <1>5, AppendProperties, ItemsOfAppend
<1>7. refs \in Seq(Nat)
  <2>1. Addresses \subseteq Nat
    BY <1>2
  <2>. QED
    BY <1>6, <2>1, SeqMonotonic
<1>. HIDE DEF refs
<1>8. /\ new \in Record /\ new.refs = refs /\ new.keys = objects[array].keys
      /\ new.tag = objects[array].tag /\ new.text = objects[array].text
      /\ new.hash = objects[array].hash /\ new.marked = objects[array].marked
      /\ new.next = objects[array].next
  BY <1>5, <1>7 DEF Record
<1>9. objects' = [objects EXCEPT ![array] = new]
  BY <1>1 DEF refs
<1>. HIDE DEF new
<1>10. Relinked(objects, objects', array) /\ objects'[array] = new
  BY <1>2, <1>3, <1>8, <1>9, ObjectLinked
<1>11. LinksFit(objects, table, Len(objects), program.path, objects'[array])
  <2>1. \A r \in ItemsOf(refs) : Usual(objects, table, program.path, r)
    BY <1>3, <1>4, <1>5, <1>6
  <2>2. ItemsOf(refs) \subseteq Addresses
    BY <1>6, ItemsInSet
  <2>. QED
    BY <1>1, <1>2, <1>5, <1>8, <1>10, <2>1, <2>2 DEF LinksFit
<1>12. UpvalueFits(array)'
  BY <1>1, <1>8, <1>10 DEF UpvalueFits
<1>13. sp' \in 0..Len(stack) /\ Frame.slots <= sp'
  BY <1>1, HasRoom
<1>. QED
  BY <1>1, <1>3, <1>10, <1>11, <1>12, <1>13, LinkStep

LEMMA SetGlobalInv == ASSUME IInv, SetGlobal PROVE IInv'
<1>1. PICK name \in ItemsOf(objects[Main].refs) :
        objects' = [objects EXCEPT ![Globals].keys = <<name>>,
                                   ![Globals].refs = Append(@, Top)]
  BY DEF SetGlobal
<1>2. /\ TypeInv /\ Running /\ Has(1) /\ sp' = sp
      /\ UNCHANGED <<head, table, stack, frames, open, building>>
  BY DEF SetGlobal, machine, IInv
<1>3. /\ Len(objects) \in Nat /\ Addresses = 1..Len(objects) /\ objects \in Seq(Record)
      /\ ItemsOf(stack) \subseteq Addresses
  BY <1>2, InvTypes DEF TypeInv
<1>4. /\ Globals \in Addresses /\ Main \in Addresses
      /\ Top \in Addresses /\ Top \in ItemsOf(stack)
  BY <1>2, FixedAddresses, TopIs
<1>5. /\ Good(objects, head, table, Len(objects), program.path)
      /\ \A v \in ItemsOf(stack) : Usual(objects, table, program.path, v)
  BY <1>2, InvAtRun DEF Running
<1>6. /\ objects[Globals] \in Record /\ objects[Globals].refs \in Seq(Addresses)
      /\ \A r \in ItemsOf(objects[Globals].refs) : Usual(objects, table, program.path, r)
      /\ name \in Addresses
      /\ objects[Globals].tag = "map"
  <2>1. /\ objects[Globals] \in Record /\ ItemsOf(objects[Globals].refs) \subseteq Addresses
        /\ name \in Addresses
    BY <1>1, <1>2, <1>3, <1>4, InvTypes DEF TypeInv, PointersIn, Addresses
  <2>2. objects[Globals].refs \in Seq(Nat)
    BY <2>1 DEF Record
  <2>. QED
    BY <1>4, <1>5, <2>1, <2>2, SeqOfItems DEF Good, RefsUsual, Addresses
<1>. DEFINE refs == Append(objects[Globals].refs, Top)
            new == [objects[Globals] EXCEPT !.keys = <<name>>, !.refs = refs]
<1>7. /\ refs \in Seq(Addresses) /\ ItemsOf(refs) = ItemsOf(objects[Globals].refs) \cup {Top}
      /\ refs # <<>>
  BY <1>4, <1>6, AppendProperties, ItemsOfAppend
<1>8. refs \in Seq(Nat) /\ <<name>> \in Seq(Nat)
  <2>. HIDE DEF refs
  <2>1. Addresses \subseteq Nat /\ name \in Nat
    BY <1>3, <1>6
  <2>2. refs \in Seq(Nat)
    BY <1>7, <2>1, SeqMonotonic
  <2>. QED
    BY <2>1, <2>2
<1>9. objects' = [objects EXCEPT ![Globals] = new]
  <2>1. Globals \in DOMAIN objects
    BY <1>4 DEF Addresses
  <2>. QED
    BY <1>1, <2>1
<1>. HIDE DEF refs
<1>10. /\ new \in Record /\ new.refs = refs /\ new.keys = <<name>>
       /\ new.tag = objects[Globals].tag /\ new.text = objects[Globals].text
       /\ new.hash = objects[Globals].hash /\ new.marked = objects[Globals].marked
       /\ new.next = objects[Globals].next
  BY <1>6, <1>8 DEF Record
<1>. HIDE DEF new
<1>11. Relinked(objects, objects', Globals) /\ objects'[Globals] = new
  BY <1>3, <1>4, <1>9, <1>10, ObjectLinked
<1>12. LinksFit(objects, table, Len(objects), program.path, objects'[Globals])
  <2>1. \A r \in ItemsOf(refs) : Usual(objects, table, program.path, r)
    BY <1>4, <1>5, <1>6, <1>7
  <2>2. ItemsOf(refs) \subseteq Addresses /\ ItemsOf(<<name>>) \subseteq Addresses
    BY <1>6, <1>7, ItemsInSet, ItemsOfOne
  <2>. QED
    BY <1>3, <1>7, <1>10, <1>11, <2>1, <2>2 DEF LinksFit
<1>13. UpvalueFits(Globals)'
  BY <1>6, <1>10, <1>11 DEF UpvalueFits
<1>14. sp' \in 0..Len(stack) /\ Frame.slots <= sp'
  BY <1>2, FramesAre, InvTypes
<1>. QED
  BY <1>2, <1>4, <1>11, <1>12, <1>13, <1>14, LinkStep

LEMMA SetUpvalueInv == ASSUME IInv, SetUpvalue PROVE IInv'
<1>1. /\ TypeInv /\ Running /\ phase = "running" /\ phase' = "running" /\ building = Nil
      /\ Has(1) /\ sp' = sp /\ UNCHANGED <<program, collector>>
      /\ UNCHANGED <<head, table, frames, open, building>>
  BY DEF SetUpvalue, Running, IInv
<1>2. PICK o \in Captured :
        IF IsOpen(o) THEN stack' = [stack EXCEPT ![SlotOf(o)] = Top] /\ objects' = objects
                     ELSE objects' = [objects EXCEPT ![o].refs[1] = Top] /\ stack' = stack
  BY DEF SetUpvalue
<1>3. sp' \in 0..Len(stack) /\ Frame.slots <= sp'
  BY <1>1, FramesAre, InvTypes
<1>. DEFINE value == Top
<1>4. /\ value \in Addresses /\ value \in ItemsOf(stack) /\ Usual(objects, table, program.path, value)
      /\ stack \in Seq(Addresses)
  BY <1>1, TopIs, InvAtRun DEF TypeInv, MachineInv, StackInv
<1>5. o \in Addresses /\ objects[o].tag = "upvalue" /\ UpvalueFits(o)
  BY <1>1, CapturedAre DEF Upvalues
<1>6. CASE IsOpen(o)
  <2>. DEFINE slot == SlotOf(o) new == [stack EXCEPT ![slot] = value]
  <2>1. slot \in 1..Len(stack)
    BY <1>1, <1>6, PlaceIs, OpenAre DEF SlotOf
  <2>2. stack' = new /\ UNCHANGED heap
    BY <1>1, <1>2, <1>6 DEF heap
  <2>. HIDE DEF slot, value
  <2>3. /\ new \in Seq(Addresses) /\ Len(new) = Len(stack)
        /\ ItemsOf(new) \subseteq ItemsOf(stack) \cup {value}
    BY <1>4, <2>1, ItemsOfSet
  <2>. QED
    BY <1>1, <1>3, <1>4, <2>2, <2>3, StackStep
<1>7. CASE ~IsOpen(o)
  <2>. DEFINE refs == objects[o].refs
              first == 1
              changed == [refs EXCEPT ![first] = value]
              new == [objects[o] EXCEPT !.refs = changed]
  <2>1. /\ objects[o] \in Record /\ refs \in Seq(Addresses) /\ first \in 1..Len(refs)
        /\ ItemsOf(objects[o].keys) \subseteq Addresses
        /\ Len(objects) \in Nat /\ Addresses = 1..Len(objects) /\ objects \in Seq(Record)
    <3>1. /\ Len(objects) \in Nat /\ Addresses = 1..Len(objects) /\ objects \in Seq(Record)
          /\ objects[o] \in Record /\ ItemsOf(objects[o].refs) \subseteq Addresses
          /\ ItemsOf(objects[o].keys) \subseteq Addresses
      BY <1>1, <1>5, InvTypes DEF TypeInv, PointersIn, Addresses
    <3>2. objects[o].refs \in Seq(Nat) /\ objects[o].refs # <<>>
      BY <1>5, <1>7, <3>1 DEF Record, UpvalueFits
    <3>3. 1 \in 1..Len(objects[o].refs)
      <4>. DEFINE s == objects[o].refs
      <4>1. s \in Seq(Nat) /\ s # <<>>
        BY <3>2
      <4>. HIDE DEF s
      <4>2. Len(s) \in Nat \ {0}
        BY <4>1, EmptySeq
      <4>. QED
        BY <4>2 DEF s
    <3>. QED
      BY <3>1, <3>2, <3>3, SeqOfItems
  <2>2. objects' = [objects EXCEPT ![o] = new] /\ stack' = stack
    BY <1>2, <1>7
  <2>. HIDE DEF refs, value, first
  <2>3. /\ changed \in Seq(Addresses) /\ Len(changed) = Len(refs)
        /\ ItemsOf(changed) \subseteq ItemsOf(refs) \cup {value}
    <3>1. refs \in Seq(Addresses) /\ first \in 1..Len(refs) /\ value \in Addresses
      BY <1>4, <2>1
    <3>. QED
      BY <3>1, ItemsOfSet
  <2>. HIDE DEF changed
  <2>4. changed \in Seq(Nat) /\ changed # <<>>
    <3>1. Addresses \subseteq Nat
      BY <2>1
    <3>. QED
      BY <2>1, <2>3, <3>1, SeqMonotonic
  <2>5. /\ new \in Record /\ new.refs = changed /\ new.keys = objects[o].keys
        /\ new.tag = objects[o].tag /\ new.text = objects[o].text
        /\ new.hash = objects[o].hash /\ new.marked = objects[o].marked
        /\ new.next = objects[o].next
    BY <2>1, <2>4 DEF Record
  <2>. HIDE DEF new
  <2>6. Relinked(objects, objects', o) /\ objects'[o] = new
    BY <1>5, <2>1, <2>2, <2>5, ObjectLinked
  <2>7. LinksFit(objects, table, Len(objects), program.path, objects'[o])
    <3>1. \A r \in ItemsOf(refs) : Usual(objects, table, program.path, r)
      BY <1>1, <1>5, RefIsUsual DEF refs
    <3>2. ItemsOf(changed) \subseteq 1..Len(objects)
      BY <2>1, <2>3, ItemsInSet
    <3>. QED
      BY <1>4, <1>5, <2>1, <2>3, <2>5, <2>6, <3>1, <3>2 DEF LinksFit
  <2>8. UpvalueFits(o)'
    BY <1>5, <2>4, <2>5, <2>6 DEF UpvalueFits
  <2>. QED
    BY <1>1, <1>3, <1>5, <2>2, <2>6, <2>7, <2>8, LinkStep
<1>. QED
  BY <1>6, <1>7

\* A closure is allocated, and its function leads to the globals only.
LEMMA BeginClosureInv == ASSUME IInv, BeginClosure PROVE IInv'
<1>1. PICK fn \in ItemsOf(objects[Main].refs) :
        /\ objects[fn].tag = "function"
        /\ LET h == Alloc([Now EXCEPT !.objects[fn].refs = <<Globals>>],
                          Object("closure", <<fn>>, head))
           IN  Becomes(h) /\ building' = h.at
  BY DEF BeginClosure
<1>. DEFINE n == Len(objects)
            new == [objects[fn] EXCEPT !.refs = <<Globals>>]
            linked == [Now EXCEPT !.objects[fn].refs = <<Globals>>]
            object == Object("closure", <<fn>>, head)
            h == Alloc(linked, object)
<1>2. /\ TypeInv /\ phase = "running" /\ phase' = "running" /\ building = Nil
      /\ UNCHANGED <<program, collector, stack, sp, frames, open>>
      /\ objects' = h.objects /\ head' = h.head /\ table' = h.table /\ building' = h.at
  BY <1>1 DEF BeginClosure, Running, IInv, Becomes
<1>3. /\ n \in Nat /\ Addresses = 1..n /\ objects \in Seq(Record) /\ head \in Nat
      /\ \A o \in Addresses : objects[o] \in Record
      /\ Globals \in Addresses /\ Main \in Addresses
  BY <1>2, InvTypes, FixedAddresses DEF TypeInv
<1>4. /\ Good(objects, head, table, n, program.path) /\ objects[Globals].tag = "map"
      /\ fn \in Addresses
  BY <1>2, <1>3, InvAtRun, RefIsUsual DEF Good
<1>5. linked = [objects |-> [objects EXCEPT ![fn] = new], head |-> head,
                table |-> table, at |-> Nil]
  <2>1. fn \in DOMAIN objects
    BY <1>4 DEF Addresses
  <2>. QED
    BY <2>1 DEF Now
<1>6. /\ new \in Record /\ new.refs = <<Globals>> /\ new.keys = objects[fn].keys
      /\ new.tag = objects[fn].tag /\ new.text = objects[fn].text
      /\ new.hash = objects[fn].hash /\ new.marked = objects[fn].marked
      /\ new.next = objects[fn].next
  <2>1. objects[fn] \in Record /\ <<Globals>> \in Seq(Nat)
    BY <1>3, <1>4 DEF Globals
  <2>. QED
    BY <2>1 DEF Record
<1>. HIDE DEF new, linked
<1>7. /\ IsHeap(linked) /\ linked.objects = [objects EXCEPT ![fn] = new]
      /\ linked.head = head /\ linked.table = table
  BY <1>5 DEF IsHeap
<1>8. Relinked(objects, linked.objects, fn) /\ linked.objects[fn] = new
  BY <1>3, <1>4, <1>6, <1>7, ObjectLinked
<1>9. /\ GoodHeap(linked, n, program.path) /\ Len(linked.objects) = n
      /\ \A p \in Addresses : p # fn => linked.objects[p] = objects[p]
      /\ \A v : Usual(objects, table, program.path, v)
                <=> Usual(linked.objects, table, program.path, v)
  <2>1. LinksFit(objects, table, n, program.path, linked.objects[fn])
    <3>1. ItemsOf(objects[fn].keys) \subseteq 1..n
      BY <1>4 DEF Good, PointersIn, Addresses
    <3>2. Usual(objects, table, program.path, Globals)
      BY <1>4 DEF Usual
    <3>3. ItemsOf(<<Globals>>) = {Globals} /\ Globals \in 1..n
      BY <1>3, ItemsOfOne
    <3>. QED
      BY <1>1, <1>6, <1>8, <3>1, <3>2, <3>3 DEF LinksFit
  <2>2. fn \in DOMAIN objects
    BY <1>4 DEF Addresses
  <2>3. /\ Good(linked.objects, head, table, n, program.path)
        /\ \A v : Usual(objects, table, program.path, v)
                  <=> Usual(linked.objects, table, program.path, v)
    BY <1>3, <1>4, <1>8, <2>1, <2>2, LinkedGood
  <2>. QED
    BY <1>7, <1>8, <2>3 DEF GoodHeap, Relinked, Relinks, Addresses
<1>10. /\ object \in Record /\ object.tag = "closure" /\ object.refs = <<fn>>
       /\ object.keys = <<>> /\ ~object.marked /\ object.next = head
  <2>. DEFINE refs == <<fn>>
              o == Object("closure", refs, head)
  <2>1. refs \in Seq(Nat) /\ "closure" \in Tags
    BY <1>3, <1>4 DEF Tags
  <2>. HIDE DEF refs
  <2>2. /\ o \in Record /\ o.tag = "closure" /\ o.refs = refs
        /\ o.keys = <<>> /\ ~o.marked /\ o.next = head
    BY <1>3, <2>1, NewObject
  <2>. QED
    BY <2>2 DEF refs
<1>. HIDE DEF object
<1>11. /\ GoodHeap(h, Len(h.objects), program.path) /\ Grows(linked, h)
       /\ h.at = Len(h.objects) /\ Len(h.objects) = n + 1
       /\ h.objects[h.at] = object
  <2>. DEFINE m == n + 1
  <2>1. /\ m \in Nat /\ n <= m /\ Len(linked.objects) + 1 <= m
        /\ ItemsOf(object.refs) = {fn} /\ ItemsOf(object.keys) = {}
        /\ object.refs # <<>>
    BY <1>3, <1>9, <1>10, ItemsOfOne, ItemsOfEmpty
  <2>2. ItemsOf(object.refs) \subseteq 1..m /\ ItemsOf(object.keys) \subseteq 1..m
    BY <1>3, <1>4, <2>1
  <2>3. \A r \in ItemsOf(object.refs) : r \in 1..Len(linked.objects) =>
            Usual(linked.objects, linked.table, program.path, r)
    <3>1. Usual(linked.objects, linked.table, program.path, fn)
      BY <1>1, <1>6, <1>8 DEF Usual
    <3>. QED
      BY <2>1, <3>1
  <2>4. /\ object.tag # "string" /\ object.next = linked.head /\ object \in Record
        /\ object.tag = "closure" => object.refs # <<>>
        /\ ~object.marked
    BY <1>7, <1>10, <2>1
  <2>5. m = Len(linked.objects) + 1
    BY <1>9
  <2>6. n \in Nat /\ GoodHeap(linked, n, program.path)
    BY <1>3, <1>9
  <2>7. /\ m \in Nat /\ n <= m /\ Len(linked.objects) + 1 <= m
        /\ ItemsOf(object.refs) \subseteq 1..m /\ ItemsOf(object.keys) \subseteq 1..m
    BY <2>1, <2>2
  <2>. HIDE DEF m, n
  <2>8. /\ GoodHeap(h, m, program.path) /\ Grows(linked, h)
        /\ h.at = Len(h.objects) /\ Len(h.objects) = Len(linked.objects) + 1
        /\ h.objects[h.at] = object
    BY <2>3, <2>4, <2>6, <2>7, AllocGood
  <2>. QED
    BY <1>9, <2>5, <2>8 DEF m, n
<1>. HIDE DEF h
<1>12. /\ Good(objects', head', table', Len(objects'), program.path)
       /\ Len(objects') = n + 1 /\ Addresses' = 1..(n + 1)
       /\ objects'[n + 1] = object /\ building' = n + 1
  BY <1>2, <1>11, LenProperties DEF GoodHeap, Good, Addresses
<1>13. \A o \in Addresses : objects'[o] = linked.objects[o]
  BY <1>2, <1>3, <1>9, <1>11 DEF Grows
<1>14. Kept
  <2>1. ASSUME NEW o \in Addresses
        PROVE  /\ objects'[o].tag = objects[o].tag
               /\ Usual(objects, table, program.path, o)
                  => Usual(objects', table', program.path, o)
    <3>1. objects'[o].tag = objects[o].tag
      BY <1>6, <1>8, <1>9, <1>13
    <3>2. o \in 1..Len(linked.objects)
      BY <1>3, <1>9
    <3>3. Usual(objects, table, program.path, o)
          => Usual(linked.objects, linked.table, program.path, o)
      BY <1>7, <1>9
    <3>. QED
      BY <1>2, <1>9, <1>11, <3>1, <3>2, <3>3, GrowsKeeps
  <2>. QED
    BY <1>3, <1>12, <2>1 DEF Kept
<1>15. \A o \in Addresses' : UpvalueFits(o)'
  <2>1. ASSUME NEW o \in Addresses, o # fn
        PROVE  objects'[o].refs = objects[o].refs /\ (IsOpen(o) => IsOpen(o)')
    BY <1>2, <1>9, <1>13, <2>1 DEF IsOpen
  <2>2. UpvalueFits(fn)'
    BY <1>1, <1>4, <1>14 DEF UpvalueFits, Kept
  <2>3. ASSUME NEW o, o = n + 1 PROVE UpvalueFits(o)'
    <3>1. objects'[o].tag = "closure" /\ objects'[o].refs = <<fn>>
      BY <1>10, <1>12, <2>3
    <3>2. ItemsOf(Tail(<<fn>>)) = {}
      <4>1. Tail(<<fn>>) = <<>>
        OBVIOUS
      <4>. QED
        BY <4>1, ItemsOfEmpty
    <3>. QED
      BY <3>1, <3>2 DEF UpvalueFits
  <2>4. \A o \in Addresses' : o \in Addresses \/ o = n + 1
    BY <1>3, <1>12
  <2>5. \A o \in Addresses : UpvalueFits(o)
    BY <1>2, InvAtRun
  <2>. QED
    BY <1>2, <1>14, <2>1, <2>2, <2>3, <2>4, <2>5, FitStay
<1>16. MachineInv'
  <2>1. /\ stack' \in Seq(Addresses') /\ sp' \in 0..Len(stack') /\ Len(stack') \in Nat
        /\ sp' \in Nat /\ Frame.slots <= sp'
    BY <1>2, <1>14, KeptSets, InvTypes, FramesAre
  <2>2. FramesInv' /\ OpenInv'
    BY <1>2, <1>14, <2>1, InvTypes, FramesStay, OpenStays
  <2>3. building' \in Closures'
    BY <1>3, <1>10, <1>12 DEF Closures
  <2>. QED
    BY <2>1, <2>2, <2>3 DEF MachineInv, StackInv
<1>17. \A v \in ItemsOf(stack') : Usual(objects', table', program.path, v)
  BY <1>2, <1>14, InvAtRun, InvTypes DEF Kept
<1>. QED
  BY <1>2, <1>12, <1>14, <1>15, <1>16, <1>17, RunStep DEF Kept

\* An upvalue is added to the closure at hand.
LEMMA CaptureKept ==
    ASSUME IInv, phase = "running", building # Nil, UNCHANGED program,
           NEW h, GoodHeap(h, Len(h.objects), program.path), Grows(Now, h),
           NEW upvalue \in 1..Len(h.objects), h.objects[upvalue].tag = "upvalue",
           Captures(h, upvalue)
    PROVE  /\ Kept /\ Len(objects') = Len(h.objects) /\ building \in Addresses
           /\ objects[building].tag = "closure"
           /\ \A o \in 1..Len(h.objects) :
                 objects'[o].tag = h.objects[o].tag
                 /\ (o # building => objects'[o] = h.objects[o])
           /\ ItemsOf(Tail(objects'[building].refs))
                 = ItemsOf(Tail(objects[building].refs)) \cup {upvalue}
<1>1. /\ TypeInv /\ building \in Closures /\ Now.objects = objects /\ Now.table = table
      /\ GoodHeap(Now, Len(Now.objects), program.path)
  BY InvAtRun DEF IInv, TypeInv, MachineInv
<1>2. /\ Len(objects) \in Nat /\ Addresses = 1..Len(objects) /\ building \in Addresses
      /\ objects[building].tag = "closure" /\ objects[building] \in Record
      /\ objects[building].refs # <<>> /\ objects[building].refs \in Seq(Nat)
  <2>1. /\ Len(objects) \in Nat /\ Addresses = 1..Len(objects) /\ building \in Addresses
        /\ objects[building].tag = "closure" /\ objects[building] \in Record
    BY <1>1, InvTypes DEF Closures
  <2>. QED
    BY <1>1, <2>1 DEF TypeInv, PointersIn, Addresses, Record
<1>3. /\ h.objects \in Seq(Record) /\ Len(h.objects) \in Nat /\ Len(objects) <= Len(h.objects)
      /\ DOMAIN h.objects = 1..Len(h.objects) /\ building \in 1..Len(h.objects)
      /\ h.objects[building] = objects[building]
      /\ \A o \in Addresses : h.objects[o] = objects[o]
  <2>1. h.objects \in Seq(Record)
    BY DEF GoodHeap, Good
  <2>. QED
    BY <1>1, <1>2, <2>1, LenProperties DEF Grows
<1>. DEFINE old == objects[building].refs
            refs == Append(old, upvalue)
            new == [objects[building] EXCEPT !.refs = refs]
<1>4. /\ refs \in Seq(Nat) /\ ItemsOf(refs) = ItemsOf(old) \cup {upvalue}
      /\ refs # <<>> /\ Tail(refs) = Append(Tail(old), upvalue)
      /\ ItemsOf(Tail(refs)) = ItemsOf(Tail(old)) \cup {upvalue}
  <2>1. old \in Seq(Nat) /\ old # <<>> /\ upvalue \in Nat
    BY <1>2, <1>3
  <2>. HIDE DEF old
  <2>2. /\ refs \in Seq(Nat) /\ ItemsOf(refs) = ItemsOf(old) \cup {upvalue}
        /\ Len(refs) = Len(old) + 1 /\ Len(old) \in Nat \ {0}
        /\ \A i \in 1..Len(old) : refs[i] = old[i]
        /\ refs[Len(old) + 1] = upvalue
    BY <2>1, AppendProperties, ItemsOfAppend, EmptySeq
  <2>3. Tail(old) \in Seq(Nat)
    BY <2>1, ItemsOfHeadTail
  <2>4. Tail(refs) = Append(Tail(old), upvalue)
    BY <2>1, <2>2
  <2>. DEFINE rest == Tail(old)
  <2>5. rest \in Seq(Nat)
    BY <2>3
  <2>. HIDE DEF rest
  <2>6. ItemsOf(Append(rest, upvalue)) = ItemsOf(rest) \cup {upvalue}
    BY <2>1, <2>5, ItemsOfAppend
  <2>7. refs # <<>>
    BY <2>2
  <2>. QED
    BY <2>2, <2>4, <2>6, <2>7 DEF rest
<1>5. objects' = [h.objects EXCEPT ![building] = new] /\ head' = h.head /\ table' = h.table
  <2>. DEFINE objs == h.objects first == h.head strings == h.table at == h.at
              k == [h EXCEPT !.objects[building].refs = Append(@, upvalue)]
  <2>1. Becomes(k)
    BY DEF Captures
  <2>2. h = [objects |-> objs, head |-> first, table |-> strings, at |-> at]
    BY DEF GoodHeap, IsHeap
  <2>. HIDE DEF objs, first, strings, at
  <2>3. /\ k.objects = [objs EXCEPT ![building].refs = Append(@, upvalue)]
        /\ k.head = first /\ k.table = strings
    BY <2>2
  <2>. HIDE DEF k
  <2>4. [objs EXCEPT ![building].refs = Append(@, upvalue)] = [objs EXCEPT ![building] = new]
    BY <1>3 DEF objs
  <2>. QED
    BY <2>1, <2>3, <2>4 DEF Becomes, objs, first, strings
<1>. HIDE DEF refs
<1>6. /\ new \in Record /\ new.refs = refs /\ new.keys = objects[building].keys
      /\ new.tag = objects[building].tag /\ new.text = objects[building].text
      /\ new.hash = objects[building].hash /\ new.marked = objects[building].marked
      /\ new.next = objects[building].next
  BY <1>2, <1>4 DEF Record
<1>. HIDE DEF new
<1>7. Relinked(h.objects, objects', building) /\ objects'[building] = new
  BY <1>3, <1>5, <1>6, ObjectLinked
<1>8. LinksFit(h.objects, h.table, Len(h.objects), program.path, objects'[building])
  <2>1. /\ ItemsOf(h.objects[building].refs) \subseteq 1..Len(h.objects)
        /\ ItemsOf(h.objects[building].keys) \subseteq 1..Len(h.objects)
        /\ \A r \in ItemsOf(h.objects[building].refs) :
              Usual(h.objects, h.table, program.path, r)
    BY <1>3 DEF GoodHeap, Good, PointersIn, RefsUsual
  <2>2. Usual(h.objects, h.table, program.path, upvalue)
    BY DEF Usual
  <2>. QED
    BY <1>3, <1>4, <1>6, <1>7, <2>1, <2>2 DEF LinksFit
<1>9. /\ Good(objects', head', table', Len(h.objects), program.path)
      /\ \A v : Usual(h.objects, h.table, program.path, v)
                <=> Usual(objects', table', program.path, v)
  <2>1. /\ Good(h.objects, h.head, h.table, Len(h.objects), program.path)
        /\ building \in DOMAIN h.objects
    BY <1>3 DEF GoodHeap
  <2>2. /\ Good(objects', h.head, h.table, Len(h.objects), program.path)
        /\ \A v : Usual(h.objects, h.table, program.path, v)
                  <=> Usual(objects', h.table, program.path, v)
    BY <1>3, <1>7, <1>8, <2>1, LinkedGood
  <2>. QED
    BY <1>5, <2>2
<1>10. /\ Len(objects') = Len(h.objects)
       /\ \A o \in 1..Len(h.objects) :
             objects'[o].tag = h.objects[o].tag
             /\ (o # building => objects'[o] = h.objects[o])
  BY <1>3, <1>7 DEF Relinked, Relinks
<1>11. Kept
  <2>1. ASSUME NEW o \in Addresses
        PROVE  /\ objects'[o].tag = objects[o].tag
               /\ Usual(objects, table, program.path, o)
                  => Usual(objects', table', program.path, o)
    <3>1. o \in 1..Len(Now.objects) /\ o \in 1..Len(h.objects)
      BY <1>1, <1>2, <1>3
    <3>2. Usual(objects, table, program.path, o) => Usual(h.objects, h.table, program.path, o)
      BY <1>1, <3>1, GrowsKeeps
    <3>. QED
      BY <1>3, <1>9, <1>10, <3>1, <3>2
  <2>. QED
    BY <1>3, <1>9, <1>10, <2>1 DEF Kept
<1>. QED
  BY <1>2, <1>4, <1>6, <1>7, <1>10, <1>11

LEMMA CaptureStep ==
    ASSUME IInv, Building,
           NEW h, GoodHeap(h, Len(h.objects), program.path), Grows(Now, h),
           NEW upvalue \in 1..Len(h.objects), h.objects[upvalue].tag = "upvalue",
           Captures(h, upvalue), OpenInv', \A o : IsOpen(o) => IsOpen(o)',
           \A o \in 1..Len(h.objects) :
              o \in Addresses \/ (h.objects[o].tag = "upvalue" /\ IsOpen(o)')
    PROVE  IInv'
<1>1. /\ phase = "running" /\ phase' = "running" /\ building # Nil /\ building' = building
      /\ UNCHANGED <<program, collector, frames, stack, sp>> /\ TypeInv
  BY DEF Building, Captures, IInv
<1>2. /\ Kept /\ Len(objects') = Len(h.objects) /\ building \in Addresses
      /\ objects[building].tag = "closure"
      /\ \A o \in 1..Len(h.objects) :
            objects'[o].tag = h.objects[o].tag
            /\ (o # building => objects'[o] = h.objects[o])
      /\ ItemsOf(Tail(objects'[building].refs))
            = ItemsOf(Tail(objects[building].refs)) \cup {upvalue}
  BY <1>1, CaptureKept
<1>3. /\ Len(objects) \in Nat /\ Addresses = 1..Len(objects) /\ Now.objects = objects
      /\ \A o \in Addresses : UpvalueFits(o)
      /\ Addresses' = 1..Len(h.objects) /\ Upvalues \subseteq Upvalues'
      /\ \A o \in Addresses : h.objects[o] = objects[o]
  BY <1>1, <1>2, InvTypes, InvAtRun, KeptSets DEF Grows
<1>4. \A o \in Addresses' : UpvalueFits(o)'
  <2>1. UpvalueFits(building)'
    <3>1. objects'[building].tag = "closure" /\ UpvalueFits(building)
      BY <1>2, <1>3 DEF Kept
    <3>2. upvalue \in Upvalues'
      BY <1>2, <1>3 DEF Upvalues
    <3>3. ItemsOf(Tail(objects'[building].refs)) \subseteq Upvalues'
      BY <1>2, <1>3, <3>1, <3>2 DEF UpvalueFits
    <3>. QED
      BY <1>1, <3>1, <3>3 DEF UpvalueFits
  <2>2. ASSUME NEW o \in Addresses', o # building
        PROVE  \/ UpvalueFits(o)'
               \/ /\ o \in Addresses /\ objects'[o].refs = objects[o].refs
                  /\ IsOpen(o) => IsOpen(o)'
    <3>1. CASE o \in Addresses
      BY <1>2, <1>3, <2>2, <3>1
    <3>2. CASE h.objects[o].tag = "upvalue" /\ IsOpen(o)'
      BY <1>2, <1>3, <2>2, <3>2 DEF UpvalueFits
    <3>. QED
      BY <1>3, <3>1, <3>2
  <2>. QED
    BY <1>1, <1>2, <1>3, <2>1, <2>2, FitStay
<1>5. MachineInv'
  <2>1. /\ stack' \in Seq(Addresses') /\ sp' \in 0..Len(stack') /\ sp' \in Nat
        /\ Frame.slots <= sp' /\ building' \in Closures' \cup {Nil}
    BY <1>1, <1>2, KeptSets, InvTypes, FramesAre
  <2>2. FramesInv'
    BY <1>1, <1>2, <2>1, FramesStay
  <2>. QED
    BY <2>1, <2>2 DEF MachineInv, StackInv
<1>6. \A v \in ItemsOf(stack') : Usual(objects', table', program.path, v)
  BY <1>1, <1>2, InvAtRun, InvTypes DEF Kept
<1>. QED
  <2>1. /\ phase' \in {"running", "stopped"} 
        /\ building' # Nil => phase' = "running"
        /\ Good(objects', head', table', Len(objects'), program.path)
        /\ Len(objects) <= Len(objects')
    BY <1>1, <1>2 DEF Kept
  <2>2. phase = "running" /\ UNCHANGED <<program, collector>>
    BY <1>1
  <2>. QED
    BY <1>4, <1>5, <1>6, <2>1, <2>2, RunStep

\* One that there is already: of the running closure, or open.
LEMMA CaptureKnown ==
    ASSUME IInv, Building, NEW upvalue \in Upvalues, Captures(Now, upvalue), open' = open
    PROVE  IInv'
<1>1. /\ phase = "running" /\ TypeInv /\ building # Nil /\ building' = building /\ UNCHANGED program
      /\ sp' = sp /\ stack' = stack
  BY DEF Building, Captures, IInv
<1>2. /\ GoodHeap(Now, Len(Now.objects), program.path) /\ Now.objects = objects
      /\ Len(objects) \in Nat /\ Addresses = 1..Len(objects)
  BY <1>1, InvAtRun, InvTypes
<1>3. /\ Grows(Now, Now) /\ upvalue \in 1..Len(Now.objects)
      /\ Now.objects[upvalue].tag = "upvalue"
      /\ \A o \in 1..Len(Now.objects) : o \in Addresses
  BY <1>2 DEF Grows, Upvalues
<1>4. Kept
  BY <1>1, <1>2, <1>3, CaptureKept
<1>5. OpenInv'
  BY <1>1, <1>4, InvTypes, OpenStays
<1>6. \A o : IsOpen(o) => IsOpen(o)'
  BY DEF IsOpen
<1>. QED
  BY <1>2, <1>3, <1>5, <1>6, CaptureStep

LEMMA CaptureUpvalueInv == ASSUME IInv, CaptureUpvalue PROVE IInv'
<1>1. PICK upvalue \in Captured : Captures(Now, upvalue)
  BY DEF CaptureUpvalue
<1>2. Building /\ phase = "running" /\ open' = open
  BY DEF CaptureUpvalue, Building
<1>3. upvalue \in Upvalues
  BY <1>2, CapturedAre
<1>. QED
  BY <1>1, <1>2, <1>3, CaptureKnown

\* An item is put behind n others.
Inserted(s, n, e) == SubSeq(s, 1, n) \o <<e>> \o SubSeq(s, n + 1, Len(s))

LEMMA InsertedAt ==
    ASSUME NEW S, NEW s \in Seq(S), NEW n \in 0..Len(s), NEW e \in S
    PROVE  /\ Inserted(s, n, e) \in Seq(S) /\ Len(Inserted(s, n, e)) = Len(s) + 1
           /\ \A i \in 1..(Len(s) + 1) :
                 Inserted(s, n, e)[i] = IF i <= n THEN s[i]
                                        ELSE IF i = n + 1 THEN e ELSE s[i - 1]
<1>. DEFINE front == SubSeq(s, 1, n)
            one == <<e>>
            rest == SubSeq(s, n + 1, Len(s))
            half == front \o one
            t == half \o rest
<1>1. Len(s) \in Nat /\ \A i \in 1..Len(s) : s[i] \in S
  BY LenProperties, ElementOfSeq
<1>2. /\ front \in Seq(S) /\ Len(front) = n
      /\ \A i \in 1..n : front[i] = s[i]
  <2>1. /\ front \in Seq(S) /\ Len(front) = (IF 1 <= n THEN n - 1 + 1 ELSE 0)
        /\ \A i \in 1..(n - 1 + 1) : front[i] = s[1 + i - 1]
    BY <1>1, SubSeqProperties
  <2>. QED
    BY <1>1, <2>1
<1>3. /\ rest \in Seq(S) /\ Len(rest) = Len(s) - n
      /\ \A i \in 1..(Len(s) - n) : rest[i] = s[n + i]
  <2>. DEFINE m == n + 1
  <2>1. m \in Nat \ {0} /\ \A i \in m..Len(s) : s[i] \in S
    BY <1>1
  <2>2. /\ rest \in Seq(S) /\ Len(rest) = (IF m <= Len(s) THEN Len(s) - m + 1 ELSE 0)
        /\ \A i \in 1..(Len(s) - m + 1) : rest[i] = s[m + i - 1]
    <3>. HIDE DEF m
    <3>1. LET r == SubSeq(s, m, Len(s)) IN
          /\ r \in Seq(S) /\ Len(r) = (IF m <= Len(s) THEN Len(s) - m + 1 ELSE 0)
          /\ \A i \in 1..(Len(s) - m + 1) : r[i] = s[m + i - 1]
      BY <1>1, <2>1, SubSeqProperties
    <3>. QED
      BY <3>1 DEF m
  <2>. QED
    BY <1>1, <2>2
<1>4. one \in Seq(S) /\ Len(one) = 1 /\ one[1] = e
  OBVIOUS
<1>. HIDE DEF front, one, rest
<1>5. /\ half \in Seq(S) /\ Len(half) = n + 1
      /\ \A i \in 1..(n + 1) : half[i] = IF i <= n THEN s[i] ELSE e
  <2>1. /\ half \in Seq(S) /\ Len(half) = Len(front) + Len(one)
        /\ \A i \in 1..(Len(front) + Len(one)) :
              half[i] = IF i <= Len(front) THEN front[i] ELSE one[i - Len(front)]
    BY <1>2, <1>4, ConcatProperties
  <2>. HIDE DEF half
  <2>. QED
    BY <1>1, <1>2, <1>4, <2>1
<1>. HIDE DEF half
<1>6. /\ t \in Seq(S) /\ Len(t) = Len(half) + Len(rest)
      /\ \A i \in 1..(Len(half) + Len(rest)) :
            t[i] = IF i <= Len(half) THEN half[i] ELSE rest[i - Len(half)]
  BY <1>3, <1>5, ConcatProperties
<1>. HIDE DEF t
<1>7. Len(t) = Len(s) + 1
  BY <1>1, <1>3, <1>5, <1>6
<1>8. ASSUME NEW i \in 1..(Len(s) + 1)
      PROVE  t[i] = IF i <= n THEN s[i] ELSE IF i = n + 1 THEN e ELSE s[i - 1]
  <2>1. i \in 1..(Len(half) + Len(rest))
    BY <1>1, <1>3, <1>5
  <2>2. CASE i <= n + 1
    BY <1>1, <1>5, <1>6, <2>1, <2>2
  <2>3. CASE ~(i <= n + 1)
    <3>1. i - (n + 1) \in 1..(Len(s) - n) /\ n + (i - (n + 1)) = i - 1
      BY <1>1, <2>3
    <3>. QED
      BY SMTT(30), <1>1, <1>3, <1>5, <1>6, <2>1, <2>3, <3>1
  <2>. QED
    BY <2>2, <2>3
<1>9. /\ t \in Seq(S) /\ Len(t) = Len(s) + 1
      /\ \A i \in 1..(Len(s) + 1) :
            t[i] = IF i <= n THEN s[i] ELSE IF i = n + 1 THEN e ELSE s[i - 1]
  BY <1>6, <1>7, <1>8
<1>. QED
  BY <1>9 DEF Inserted, t, half, front, one, rest


\* A new one is put into the list.
LEMMA OpenedIs ==
    ASSUME TypeInv, Kept, building # Nil, building' = building, stack' = stack, sp' = sp,
           NEW n \in 0..Len(open), NEW entry \in Entries', entry.upvalue \notin Addresses,
           entry.slot <= Len(stack) \/ entry.slot = sp + 1,
           open' = Inserted(open, n, entry)
    PROVE  OpenInv' /\ (\A o : IsOpen(o) => IsOpen(o)') /\ IsOpen(entry.upvalue)'
<1>1. /\ open \in Seq(Entries') /\ Len(open) \in Nat /\ DOMAIN open = 1..Len(open)
      /\ \A i \in 1..Len(open) : open[i].upvalue \in Addresses
      /\ \A i \in 1..Len(open) : \/ open[i].slot <= Len(stack)
                                 \/ open[i].slot = sp + 1
      /\ \A i, j \in 1..Len(open) : open[i].upvalue = open[j].upvalue => i = j
  BY KeptSets, OpenAre DEF TypeInv, MachineInv, OpenInv
<1>. DEFINE S == Entries' old == open new == open'
<1>2. new = Inserted(old, n, entry)
  OBVIOUS
<1>3. old \in Seq(S) /\ n \in 0..Len(old) /\ entry \in S
  BY <1>1
<1>. HIDE DEF S, new, old
<1>4. /\ new \in Seq(S) /\ Len(new) = Len(old) + 1
      /\ \A i \in 1..(Len(old) + 1) :
            new[i] = IF i <= n THEN old[i] ELSE IF i = n + 1 THEN entry ELSE old[i - 1]
  BY <1>2, <1>3, InsertedAt
<1>. USE DEF old
<1>5. DOMAIN new = 1..(Len(old) + 1)
  BY <1>1, <1>4, LenProperties
<1>6. ASSUME NEW i \in 1..(Len(old) + 1)
      PROVE  \/ i <= n /\ i \in 1..Len(old) /\ new[i] = old[i]
             \/ i = n + 1 /\ new[i] = entry
             \/ i > n + 1 /\ i - 1 \in 1..Len(old) /\ new[i] = old[i - 1]
  BY <1>1, <1>4
<1>7. ASSUME NEW i \in 1..(Len(old) + 1), NEW j \in 1..(Len(old) + 1),
             new[i].upvalue = new[j].upvalue
      PROVE  i = j
  <2>1. CASE i = n + 1 \/ j = n + 1
    BY <1>1, <1>6, <1>7, <2>1
  <2>2. CASE i # n + 1 /\ j # n + 1
    <3>. DEFINE at(k) == IF k <= n THEN k ELSE k - 1
    <3>1. /\ at(i) \in 1..Len(old) /\ new[i] = old[at(i)]
          /\ at(j) \in 1..Len(old) /\ new[j] = old[at(j)]
      BY <1>1, <1>6, <2>2
    <3>2. at(i) = at(j)
      <4>. HIDE DEF at
      <4>. QED
        BY <1>1, <1>7, <3>1
    <3>. QED
      BY <1>1, <2>2, <3>2
  <2>. QED
    BY <2>1, <2>2
<1>8. OpenInv'
  <2>1. open' \in Seq(Entries')
    BY <1>4 DEF new, S
  <2>2. \A i \in DOMAIN new : new[i].slot <= Len(stack) \/ new[i].slot = sp + 1
    BY <1>1, <1>5, <1>6
  <2>. QED
    BY <1>5, <1>7, <2>1, <2>2 DEF OpenInv, new
<1>9. ASSUME NEW o, IsOpen(o) PROVE IsOpen(o)'
  <2>1. PICK i \in 1..Len(old) : old[i].upvalue = o
    BY <1>1, <1>9 DEF IsOpen
  <2>. DEFINE k == IF i <= n THEN i ELSE i + 1
  <2>2. k \in 1..(Len(old) + 1) /\ new[k] = old[i]
    BY <1>1, <1>4
  <2>. QED
    BY <1>5, <2>1, <2>2 DEF IsOpen, new
<1>10. IsOpen(entry.upvalue)'
  <2>1. n + 1 \in 1..(Len(old) + 1) /\ new[n + 1] = entry
    BY <1>1, <1>4
  <2>. QED
    BY <1>5, <2>1 DEF IsOpen, new
<1>. QED
  BY <1>8, <1>9, <1>10

LEMMA CaptureLocalInv == ASSUME IInv, CaptureLocal PROVE IInv'
<1>1. PICK slot \in Slots \cup {sp + 1}, n \in 0..Len(open) :
        /\ Walked(n, slot)
        /\ IF n < Len(open) /\ open[n + 1].slot = slot
           THEN Captures(Now, open[n + 1].upvalue) /\ UNCHANGED open
           ELSE LET h == Alloc(Now, Object("upvalue", <<>>, head))
                    entry == [upvalue |-> h.at, slot |-> slot]
                IN  /\ Captures(h, h.at)
                    /\ open' = SubSeq(open, 1, n) \o <<entry>> \o SubSeq(open, n + 1, Len(open))
  BY DEF CaptureLocal
<1>2. /\ Building /\ TypeInv /\ phase = "running" /\ building # Nil /\ UNCHANGED program
      /\ Len(open) \in Nat
  BY OpenAre DEF CaptureLocal, Building, IInv
<1>3. CASE n < Len(open) /\ open[n + 1].slot = slot
  <2>1. n + 1 \in 1..Len(open)
    BY <1>2, <1>3
  <2>2. open[n + 1].upvalue \in Upvalues
    BY <1>2, <2>1, OpenAre
  <2>. QED
    BY <1>1, <1>2, <1>3, <2>2, CaptureKnown
<1>4. CASE ~(n < Len(open) /\ open[n + 1].slot = slot)
  <2>. DEFINE object == Object("upvalue", <<>>, head)
              size == Len(objects)
              m == size + 1
  <2>. PICK h : h = Alloc(Now, object)
    OBVIOUS
  <2>. PICK at : at = h.at
    OBVIOUS
  <2>. PICK entry : entry = [upvalue |-> at, slot |-> slot]
    OBVIOUS
  <2>1. /\ Captures(h, at)
        /\ open' = Inserted(open, n, entry)
    BY <1>1, <1>4 DEF Inserted
  <2>2. /\ size \in Nat /\ Addresses = 1..size /\ head \in Nat
        /\ Now.objects = objects /\ Now.head = head /\ Now.table = table
        /\ GoodHeap(Now, size, program.path)
    BY <1>2, InvTypes, InvAtRun DEF TypeInv
  <2>3. /\ object \in Record /\ object.tag = "upvalue" /\ object.refs = <<>>
        /\ object.keys = <<>> /\ ~object.marked /\ object.next = head
    <3>. DEFINE tag == "upvalue" refs == <<>> o == Object(tag, refs, head)
    <3>1. tag \in Tags /\ refs \in Seq(Nat)
      BY DEF Tags
    <3>. HIDE DEF tag, refs
    <3>2. /\ o \in Record /\ o.tag = tag /\ o.refs = refs
          /\ o.keys = <<>> /\ ~o.marked /\ o.next = head
      BY <2>2, <3>1, NewObject
    <3>. QED
      BY <3>2 DEF tag, refs
  <2>. HIDE DEF object
  <2>4. /\ m \in Nat /\ size <= m /\ Len(Now.objects) + 1 <= m
        /\ ItemsOf(object.refs) = {} /\ ItemsOf(object.keys) = {}
        /\ object.tag # "string" /\ object.tag # "closure" /\ object.next = Now.head
    BY <2>2, <2>3, ItemsOfEmpty
  <2>5. m = size + 1
    OBVIOUS
  <2>. HIDE DEF m, size
  <2>6. /\ GoodHeap(h, m, program.path) /\ Grows(Now, h)
        /\ h.at = Len(h.objects) /\ Len(h.objects) = Len(Now.objects) + 1
        /\ h.objects[h.at] = object
    BY <2>2, <2>3, <2>4, AllocGood
  <2>7. /\ Len(h.objects) = m /\ at = m /\ GoodHeap(h, Len(h.objects), program.path)
        /\ h.objects[at].tag = "upvalue" /\ at \in 1..Len(h.objects) /\ at \notin Addresses
        /\ \A o \in 1..Len(h.objects) : o \in Addresses \/ o = at
    BY <2>2, <2>3, <2>4, <2>5, <2>6 DEF size
  <2>8. /\ Kept /\ Len(objects') = Len(h.objects)
        /\ \A o \in 1..Len(h.objects) : objects'[o].tag = h.objects[o].tag
    BY <1>2, <2>1, <2>6, <2>7, CaptureKept
  <2>9. /\ stack' = stack /\ sp' = sp /\ building' = building
    BY <2>1 DEF Captures
  <2>10. /\ entry \in Entries' /\ entry.upvalue = at
         /\ entry.slot <= Len(stack) \/ entry.slot = sp + 1
    <3>1. at \in Upvalues'
      BY <1>2, <2>7, <2>8, KeptSets DEF Upvalues
    <3>2. slot \in Nat \ {0} /\ (slot <= Len(stack) \/ slot = sp + 1)
      BY <1>2, InvTypes, SlotsAre
    <3>. QED
      BY <3>1, <3>2 DEF Entries
  <2>11. OpenInv' /\ (\A o : IsOpen(o) => IsOpen(o)') /\ IsOpen(entry.upvalue)'
    BY <1>2, <2>1, <2>7, <2>8, <2>9, <2>10, OpenedIs
  <2>12. \A o \in 1..Len(h.objects) :
             o \in Addresses \/ (h.objects[o].tag = "upvalue" /\ IsOpen(o)')
    BY <2>7, <2>10, <2>11
  <2>. QED
    BY <1>2, <2>1, <2>6, <2>7, <2>11, <2>12, CaptureStep
<1>. QED
  BY <1>3, <1>4

LEMMA MakeClosureInv == ASSUME IInv, MakeClosure PROVE IInv'
<1>1. /\ TypeInv /\ phase = "running" /\ phase' = "running" /\ building # Nil
      /\ UNCHANGED <<program, collector>> /\ UNCHANGED <<frames, open>>
      /\ UNCHANGED <<objects, head, table>>
      /\ stack' = Written(sp + 1, building) /\ sp' = sp + 1 /\ building' = Nil
  BY DEF MakeClosure, Building, heap, IInv
<1>2. /\ building \in Closures /\ building \in Addresses /\ objects[building].tag = "closure"
      /\ Len(objects) \in Nat /\ Len(stack) \in Nat /\ sp \in Nat /\ sp <= Len(stack)
      /\ Frame.slots \in 0..sp
  BY <1>1, InvTypes, FramesAre DEF TypeInv, MachineInv, Closures
<1>3. Kept /\ Addresses' = Addresses
  BY <1>1, <1>2, InvAtRun DEF Kept, Addresses
<1>. DEFINE position == sp + 1 value == building
<1>4. /\ position \in 1..(Len(stack) + 1) /\ value \in Addresses /\ Addresses \subseteq Addresses
      /\ stack' = Written(position, value) /\ sp' = position
  BY <1>1, <1>2
<1>. HIDE DEF position, value
<1>5. /\ stack' \in Seq(Addresses) /\ Len(stack') \in Nat /\ Len(stack) <= Len(stack')
      /\ position <= Len(stack') /\ ItemsOf(stack') \subseteq ItemsOf(stack) \cup {value}
  BY <1>1, <1>4, WrittenIs
<1>6. \A o \in Addresses' : UpvalueFits(o)'
  <2>1. \A o : IsOpen(o) => IsOpen(o)'
    BY <1>1 DEF IsOpen
  <2>. QED
    BY <1>1, <1>3, <2>1, InvAtRun, FitStay
<1>7. MachineInv'
  <2>1. sp' \in Nat /\ Frame.slots <= sp' /\ sp' \in 0..Len(stack') /\ sp + 1 <= Len(stack')
    BY <1>1, <1>2, <1>4, <1>5
  <2>2. FramesInv' /\ OpenInv'
    BY <1>1, <1>3, <1>5, <2>1, FramesStay, OpenStays
  <2>. QED
    BY <1>1, <1>3, <1>5, <2>1, <2>2 DEF MachineInv, StackInv
<1>8. \A v \in ItemsOf(stack') : Usual(objects', table', program.path, v)
  <2>1. Usual(objects, table, program.path, value)
    BY <1>2 DEF Usual, value
  <2>. QED
    BY <1>1, <1>5, <2>1, InvAtRun
<1>9. /\ Good(objects', head', table', Len(objects'), program.path)
      /\ Len(objects) <= Len(objects') /\ (building' # Nil => phase' = "running")
  BY <1>1, <1>3 DEF Kept
<1>. QED
  BY <1>1, <1>6, <1>7, <1>8, <1>9, RunStep

(*****************************************************************************)
(* Upvalues are closed.                                                       *)
(*****************************************************************************)
\* What an upvalue holds when it is closed.
LEMMA ClosedIs ==
    ASSUME IInv, phase = "running", building = Nil, NEW o, IsOpen(o)
    PROVE  LET refs == <<stack[SlotOf(o)]>> \o NextOf(o) IN
           /\ o \in Addresses /\ objects[o].tag = "upvalue"
           /\ refs \in Seq(Addresses) /\ refs # <<>>
           /\ \A r \in ItemsOf(refs) : Usual(objects, table, program.path, r)
<1>. DEFINE value == stack[SlotOf(o)] next == NextOf(o) first == <<value>>
            refs == first \o next
<1>1. TypeInv /\ Place(o) \in 1..Len(open) /\ open[Place(o)].upvalue = o /\ Len(open) \in Nat
  BY PlaceIs, OpenAre DEF IInv
<1>2. o \in Addresses /\ objects[o].tag = "upvalue" /\ SlotOf(o) \in 1..Len(stack)
  BY <1>1, OpenAre DEF SlotOf, Upvalues
<1>3. value \in Addresses /\ Usual(objects, table, program.path, value)
  BY <1>1, <1>2, StackAt, InvAtRun
<1>4. /\ next \in Seq(Addresses)
      /\ \A r \in ItemsOf(next) : objects[r].tag = "upvalue"
  <2>1. CASE Place(o) < Len(open)
    <3>. DEFINE u == open[Place(o) + 1].upvalue
    <3>1. Place(o) + 1 \in 1..Len(open)
      BY <1>1, <2>1
    <3>2. u \in Addresses /\ objects[u].tag = "upvalue"
      BY <1>1, <3>1, OpenAre DEF Upvalues
    <3>3. next = <<u>>
      BY <2>1 DEF NextOf
    <3>. HIDE DEF u
    <3>. QED
      BY <3>2, <3>3, ItemsOfOne
  <2>2. CASE ~(Place(o) < Len(open))
    BY <2>2, ItemsOfEmpty DEF NextOf
  <2>. QED
    BY <2>1, <2>2
<1>5. \A r \in ItemsOf(next) : Usual(objects, table, program.path, r)
  BY <1>4 DEF Usual
<1>. HIDE DEF value, next
<1>6. first \in Seq(Addresses) /\ ItemsOf(first) = {value} /\ Len(first) = 1
  BY <1>3, ItemsOfOne
<1>. HIDE DEF first
<1>7. /\ refs \in Seq(Addresses) /\ Len(refs) = Len(first) + Len(next) /\ Len(next) \in Nat
      /\ ItemsOf(refs) = ItemsOf(first) \cup ItemsOf(next)
  <2>1. next \in Seq(Addresses) /\ Len(next) \in Nat /\ Len(first) \in Nat
    BY <1>4, <1>6, LenProperties
  <2>2. refs \in Seq(Addresses) /\ Len(refs) = Len(first) + Len(next)
    BY <1>6, <2>1, ConcatProperties
  <2>3. ItemsOf(refs) = ItemsOf(first) \cup ItemsOf(next)
    BY <1>6, <2>1, ItemsOfConcat
  <2>. QED
    BY <2>1, <2>2, <2>3
<1>8. refs # <<>>
  BY <1>6, <1>7
<1>. HIDE DEF refs
<1>9. \A r \in ItemsOf(refs) : Usual(objects, table, program.path, r)
  BY <1>3, <1>5, <1>6, <1>7
<1>. QED
  BY <1>2, <1>7, <1>8, <1>9 DEF refs, first, value, next

\* Those from a slot on.
LEMMA ClosingKept ==
    ASSUME IInv, Running, UNCHANGED <<head, table, building>>,
           NEW last \in Nat, ClosesFrom(last),
           Len(stack') \in Nat, Len(stack) <= Len(stack')
    PROVE  /\ Kept /\ Addresses' = Addresses /\ OpenInv'
           /\ \A o \in Addresses' : UpvalueFits(o)'
<1>1. PICK n \in 0..Len(open) :
        /\ Walked(n, last - 1)
        /\ objects' = [o \in Addresses |->
              IF \E i \in 1..n : open[i].upvalue = o
              THEN [objects[o] EXCEPT !.refs = <<stack[SlotOf(o)]>> \o NextOf(o)]
              ELSE objects[o]]
        /\ open' = SubSeq(open, n + 1, Len(open))
  BY DEF ClosesFrom
<1>2. /\ TypeInv /\ phase = "running" /\ building = Nil /\ UNCHANGED program
  BY DEF Running, IInv
<1>3. /\ Len(open) \in Nat /\ DOMAIN open = 1..Len(open) /\ open \in Seq(Entries)
      /\ \A i \in 1..Len(open) : open[i].slot \in 1..Len(stack)
      /\ \A i, j \in 1..Len(open) : open[i].upvalue = open[j].upvalue => i = j
      /\ Len(objects) \in Nat /\ Addresses = 1..Len(objects)
      /\ \A o \in Addresses : objects[o] \in Record
  BY <1>2, OpenAre, InvTypes DEF TypeInv, MachineInv, OpenInv
<1>. DEFINE Closes(o) == \E i \in 1..n : open[i].upvalue = o
            Refs(o) == <<stack[SlotOf(o)]>> \o NextOf(o)
<1>4. \A o : Closes(o) => IsOpen(o)
  BY <1>3 DEF IsOpen
<1>5. ASSUME NEW o \in Addresses, Closes(o)
      PROVE  /\ objects[o].tag = "upvalue" /\ Refs(o) \in Seq(Nat)
             /\ ItemsOf(Refs(o)) \subseteq Addresses /\ Refs(o) # <<>>
             /\ \A r \in ItemsOf(Refs(o)) : Usual(objects, table, program.path, r)
  <2>1. /\ objects[o].tag = "upvalue" /\ Refs(o) \in Seq(Addresses) /\ Refs(o) # <<>>
        /\ \A r \in ItemsOf(Refs(o)) : Usual(objects, table, program.path, r)
    BY <1>2, <1>4, <1>5, ClosedIs
  <2>2. Addresses \subseteq Nat
    BY <1>3
  <2>. HIDE DEF Refs
  <2>3. Refs(o) \in Seq(Nat) /\ ItemsOf(Refs(o)) \subseteq Addresses
    BY <2>1, <2>2, SeqMonotonic, ItemsInSet
  <2>. QED
    BY <2>1, <2>3
<1>6. \A o \in Addresses :
         objects'[o] = IF Closes(o) THEN [objects[o] EXCEPT !.refs = Refs(o)] ELSE objects[o]
  BY <1>1
<1>7. DOMAIN objects' = 1..Len(objects)
  BY <1>1, <1>3
<1>. HIDE DEF Closes, Refs
<1>8. ASSUME NEW o \in Addresses
      PROVE  /\ objects'[o] \in Record /\ objects'[o].tag = objects[o].tag
             /\ objects'[o].text = objects[o].text /\ objects'[o].hash = objects[o].hash
             /\ objects'[o].marked = objects[o].marked /\ objects'[o].next = objects[o].next
             /\ objects'[o].keys = objects[o].keys
             /\ Closes(o) => objects'[o].refs = Refs(o)
             /\ ~Closes(o) => objects'[o] = objects[o]
  <2>1. CASE Closes(o)
    <3>. DEFINE old == objects[o] refs == Refs(o) new == [old EXCEPT !.refs = refs]
    <3>1. old \in Record /\ refs \in Seq(Nat) /\ objects'[o] = new
      BY <1>3, <1>5, <1>6, <2>1
    <3>. HIDE DEF old, refs
    <3>2. /\ new \in Record /\ new.tag = old.tag /\ new.text = old.text
          /\ new.hash = old.hash /\ new.marked = old.marked /\ new.next = old.next
          /\ new.keys = old.keys /\ new.refs = refs
      BY <3>1 DEF Record
    <3>. QED
      BY <2>1, <3>1, <3>2 DEF old, refs
  <2>2. CASE ~Closes(o)
    BY <1>3, <1>6, <2>2
  <2>. QED
    BY <2>1, <2>2
<1>9. objects' \in Seq(Record) /\ Len(objects') = Len(objects)
  <2>1. objects' = [o \in 1..Len(objects) |-> objects'[o]]
    BY <1>1, <1>3
  <2>. DEFINE size == Len(objects) Item(o) == objects'[o]
  <2>2. /\ size \in Nat /\ objects' = [o \in 1..size |-> Item(o)]
        /\ \A o \in 1..size : Item(o) \in Record
    BY <1>3, <1>8, <2>1
  <2>. HIDE DEF size, Item
  <2>3. objects' \in Seq(Record) /\ Len(objects') = size
    BY <2>2
  <2>. QED
    BY <2>3 DEF size
<1>10. Relinks(objects, objects')
  BY <1>3, <1>8, <1>9 DEF Relinks, Addresses
<1>11. \A o \in Addresses :
           \/ objects'[o] = objects[o]
           \/ LinksFit(objects, table, Len(objects), program.path, objects'[o])
  <2>. SUFFICES ASSUME NEW o \in Addresses, Closes(o)
                PROVE  LinksFit(objects, table, Len(objects), program.path, objects'[o])
    BY <1>8
  <2>1. ItemsOf(objects[o].keys) \subseteq 1..Len(objects)
    BY <1>2 DEF TypeInv, PointersIn, Addresses
  <2>. QED
    BY <1>3, <1>5, <1>8, <2>1 DEF LinksFit
<1>12. Kept /\ Addresses' = Addresses
  BY <1>2, <1>10, <1>11, LinksKept
<1>0. n \in Nat /\ n <= Len(open)
  BY <1>1, <1>3
<1>. PICK m : m = n + 1
  OBVIOUS
<1>. PICK rest : rest = SubSeq(open, m, Len(open))
  OBVIOUS
<1>13. /\ rest \in Seq(Entries) /\ DOMAIN rest = 1..(Len(open) - n)
       /\ \A i \in 1..(Len(open) - n) : rest[i] = open[n + i] /\ n + i \in 1..Len(open)
  <2>1. m \in Nat \ {0} /\ \A i \in m..Len(open) : open[i] \in Entries
    BY <1>3, ElementOfSeq
  <2>2. /\ rest \in Seq(Entries)
        /\ Len(rest) = (IF m <= Len(open) THEN Len(open) - m + 1 ELSE 0)
        /\ \A i \in 1..(Len(open) - m + 1) : rest[i] = open[m + i - 1]
    <3>1. Len(open) \in Int
      BY <1>3
    <3>. QED
      BY <2>1, <3>1, SubSeqProperties
  <2>3. Len(rest) = Len(open) - n /\ DOMAIN rest = 1..Len(rest)
    <3>1. Len(rest) = IF m <= Len(open) THEN Len(open) - m + 1 ELSE 0
      BY <2>2
    <3>2. Len(rest) = Len(open) - n
      <4>1. n \in Nat /\ n <= Len(open) /\ Len(open) \in Nat /\ m = n + 1
        BY <1>0, <1>3
      <4>. QED
        BY <3>1, <4>1
    <3>. QED
      BY <2>2, <3>2, LenProperties
  <2>4. \A i \in 1..(Len(open) - n) : rest[i] = open[n + i] /\ n + i \in 1..Len(open)
    BY <1>3, <2>2
  <2>. QED
    BY <2>2, <2>3, <2>4
<1>14. open' = rest
  BY <1>1
<1>15. OpenInv'
  <2>1. open' \in Seq(Entries')
    <3>1. Entries \subseteq Entries'
      BY <1>2, <1>12, KeptSets
    <3>. QED
      BY <1>13, <1>14, <3>1, SeqMonotonic
  <2>2. \A i \in DOMAIN open' : open'[i].slot <= Len(stack')
    BY SMTT(30), <1>3, <1>13, <1>14
  <2>3. ASSUME NEW i \in DOMAIN open', NEW j \in DOMAIN open',
               open'[i].upvalue = open'[j].upvalue
        PROVE  i = j
    <3>1. /\ i \in 1..(Len(open) - n) /\ j \in 1..(Len(open) - n)
          /\ rest[i].upvalue = rest[j].upvalue
      BY <1>13, <1>14, <2>3
    <3>2. /\ rest[i] = open[n + i] /\ n + i \in 1..Len(open)
          /\ rest[j] = open[n + j] /\ n + j \in 1..Len(open)
      BY <1>13, <3>1
    <3>3. n + i = n + j
      BY <1>3, <3>1, <3>2
    <3>. QED
      BY <1>0, <1>3, <3>1, <3>3
  <2>. QED
    BY <2>1, <2>2, <2>3 DEF OpenInv
<1>16. ASSUME NEW o, IsOpen(o), ~Closes(o) PROVE IsOpen(o)'
  <2>1. PICK i \in 1..Len(open) : open[i].upvalue = o
    BY <1>3, <1>16 DEF IsOpen
  <2>2. i - n \in 1..(Len(open) - n) /\ n + (i - n) = i
    BY <1>3, <1>16, <2>1 DEF Closes
  <2>3. rest[i - n].upvalue = o /\ i - n \in DOMAIN rest
    BY <1>13, <2>1, <2>2
  <2>. QED
    BY <1>14, <2>3 DEF IsOpen
<1>17. \A o \in Addresses' : UpvalueFits(o)'
  <2>1. ASSUME NEW o \in Addresses, Closes(o) PROVE UpvalueFits(o)'
    <3>1. objects'[o].tag = "upvalue" /\ objects'[o].refs # <<>>
      BY <1>5, <1>8, <2>1
    <3>. QED
      BY <3>1 DEF UpvalueFits
  <2>2. ASSUME NEW o \in Addresses, ~Closes(o)
        PROVE  objects'[o].refs = objects[o].refs /\ (IsOpen(o) => IsOpen(o)')
    BY <1>8, <1>16, <2>2
  <2>3. \A o \in Addresses : UpvalueFits(o)
    BY <1>2, InvAtRun
  <2>. QED
    BY <1>2, <1>12, <2>1, <2>2, <2>3, FitStay
<1>. QED
  BY <1>12, <1>15, <1>17

LEMMA CloseInv == ASSUME IInv, Close PROVE IInv'
<1>1. /\ Running /\ TypeInv /\ phase = "running" /\ phase' = "running"
      /\ UNCHANGED <<program, collector>> /\ Has(1)
      /\ UNCHANGED <<head, table, stack, frames, building>>
      /\ ClosesFrom(sp) /\ sp' = sp - 1
  BY DEF Close, Running, IInv
<1>2. /\ sp \in Nat /\ Len(stack) \in Nat /\ sp - 1 \in Nat /\ Frame.slots <= sp - 1
      /\ sp <= Len(stack)
  BY <1>1, HasRoom
<1>3. /\ Kept /\ Addresses' = Addresses /\ OpenInv' /\ \A o \in Addresses' : UpvalueFits(o)'
  BY <1>1, <1>2, ClosingKept
<1>4. MachineInv'
  <2>1. stack' \in Seq(Addresses') /\ building' \in Closures' \cup {Nil}
    BY <1>1, <1>3, KeptSets
  <2>2. FramesInv'
    BY <1>1, <1>2, <1>3, FramesStay
  <2>. QED
    BY <1>1, <1>2, <1>3, <2>1, <2>2 DEF MachineInv, StackInv
<1>5. \A v \in ItemsOf(stack') : Usual(objects', table', program.path, v)
  BY <1>1, <1>3, InvAtRun, InvTypes DEF Kept
<1>6. /\ Good(objects', head', table', Len(objects'), program.path)
      /\ Len(objects) <= Len(objects') /\ (building' # Nil => phase' = "running")
  BY <1>1, <1>3 DEF Kept
<1>. QED
  BY <1>1, <1>3, <1>4, <1>5, <1>6, RunStep

LEMMA CallInv == ASSUME IInv, Call PROVE IInv'
<1>1. /\ Running /\ TypeInv /\ phase = "running" /\ phase' = "running" /\ building = Nil
      /\ UNCHANGED <<program, collector>> /\ Has(1) /\ objects[Top].tag = "closure"
      /\ UNCHANGED <<objects, head, table, stack, open, building>> /\ sp' = sp - 1
  BY DEF Call, Running, IInv, heap
<1>2. PICK arity \in 0..(sp - 1 - Frame.slots) :
        frames' = Append(frames, [closure |-> Top, slots |-> sp - 1 - arity])
  BY DEF Call
<1>3. /\ sp \in Nat /\ Len(stack) \in Nat /\ sp - 1 \in Nat /\ Frame.slots <= sp - 1
      /\ sp <= Len(stack) /\ Frame.slots \in Nat /\ Top \in Addresses
      /\ Len(objects) \in Nat
  BY <1>1, HasRoom, TopIs, InvTypes
<1>4. Kept /\ Addresses' = Addresses
  BY <1>1, <1>3, InvAtRun DEF Kept, Addresses
<1>. DEFINE frame == [closure |-> Top, slots |-> sp - 1 - arity]
<1>5. /\ frame \in FrameSet' /\ frame.slots <= sp - 1 /\ Frame.slots <= frame.slots
      /\ frame.slots \in Nat
  <2>1. Top \in Closures'
    BY <1>1, <1>3, <1>4, KeptSets DEF Closures
  <2>2. sp - 1 - arity \in Nat /\ sp - 1 - arity <= sp - 1 /\ Frame.slots <= sp - 1 - arity
    BY <1>3
  <2>. QED
    BY <2>1, <2>2 DEF FrameSet
<1>6. FramesInv'
  <2>1. /\ frames \in Seq(FrameSet') /\ Len(frames) \in Nat /\ DOMAIN frames = 1..Len(frames)
        /\ \A i, j \in 1..Len(frames) : i <= j => frames[i].slots <= frames[j].slots
        /\ \A i \in 1..Len(frames) : frames[i].slots \in Nat /\ frames[i].slots <= Frame.slots
    <3>1. /\ frames \in Seq(FrameSet)
          /\ \A i, j \in DOMAIN frames : i <= j => frames[i].slots <= frames[j].slots
      BY <1>1 DEF TypeInv, MachineInv, FramesInv
    <3>2. frames \in Seq(FrameSet')
      BY <1>1, <1>4, <3>1, KeptSets
    <3>3. /\ Len(frames) \in Nat /\ DOMAIN frames = 1..Len(frames)
          /\ \A i \in 1..Len(frames) :
                frames[i].slots \in Nat /\ frames[i].slots <= Frame.slots
      BY <1>1, <1>3, FramesAre
    <3>. QED
      BY <3>1, <3>2, <3>3
  <2>. PICK one : one = frame
    OBVIOUS
  <2>. PICK new : new = Append(frames, one)
    OBVIOUS
  <2>2. one \in FrameSet' /\ frames' = new
    BY <1>2, <1>5
  <2>3. /\ one.slots <= sp - 1 /\ Frame.slots <= one.slots /\ one.slots \in Nat
    BY <1>5
  <2>. HIDE DEF frame
  <2>4. /\ new \in Seq(FrameSet') /\ Len(new) = Len(frames) + 1
        /\ \A i \in 1..Len(frames) : new[i] = frames[i]
        /\ new[Len(frames) + 1] = one
    BY <2>1, <2>2, AppendProperties
  <2>5. DOMAIN new = 1..(Len(frames) + 1) /\ new # <<>>
    BY <2>1, <2>4, LenProperties
  <2>6. \A i \in 1..(Len(frames) + 1) :
            \/ i \in 1..Len(frames) /\ new[i] = frames[i]
            \/ i = Len(frames) + 1 /\ new[i] = one
    BY <2>1, <2>4
  <2>7. \A i \in 1..(Len(frames) + 1) : new[i].slots <= sp - 1
    BY <1>3, <2>1, <2>3, <2>6
  <2>8. ASSUME NEW i \in 1..(Len(frames) + 1), NEW j \in 1..(Len(frames) + 1), i <= j
        PROVE  new[i].slots <= new[j].slots
    <3>1. CASE j \in 1..Len(frames)
      <4>1. i \in 1..Len(frames)
        BY <2>1, <2>8, <3>1
      <4>. QED
        BY <2>1, <2>4, <2>8, <3>1, <4>1
    <3>2. CASE j = Len(frames) + 1
      BY <1>3, <2>1, <2>3, <2>4, <2>6, <3>2
    <3>. QED
      BY <2>6, <3>1, <3>2
  <2>. QED
    BY <1>1, <2>2, <2>4, <2>5, <2>7, <2>8 DEF FramesInv
<1>7. OpenInv' /\ stack' \in Seq(Addresses') /\ building' \in Closures' \cup {Nil}
  BY <1>1, <1>3, <1>4, OpenStays, KeptSets
<1>8. MachineInv'
  BY <1>1, <1>3, <1>6, <1>7 DEF MachineInv, StackInv
<1>9. \A o \in Addresses' : UpvalueFits(o)'
  <2>1. \A o : IsOpen(o) => IsOpen(o)'
    BY <1>1 DEF IsOpen
  <2>. QED
    BY <1>1, <1>4, <2>1, InvAtRun, FitStay
<1>10. \A v \in ItemsOf(stack') : Usual(objects', table', program.path, v)
  BY <1>1, InvAtRun
<1>11. /\ Good(objects', head', table', Len(objects'), program.path)
       /\ Len(objects) <= Len(objects') /\ (building' # Nil => phase' = "running")
  BY <1>1, <1>4 DEF Kept
<1>. QED
  BY <1>1, <1>8, <1>9, <1>10, <1>11, RunStep

LEMMA AtMost ==
    ASSUME NEW a \in Nat, NEW b \in Nat, NEW c \in Nat, a <= b, b <= c PROVE a <= c
OBVIOUS

LEMMA ReturnInv == ASSUME IInv, Return PROVE IInv'
<1>1. /\ Running /\ TypeInv /\ phase = "running" /\ phase' = "running"
      /\ UNCHANGED <<program, collector>> /\ InFunction
      /\ UNCHANGED <<head, table, building>> /\ building = Nil
      /\ ClosesFrom(Frame.slots + 1)
      /\ frames' = SubSeq(frames, 1, Len(frames) - 1)
      /\ \/ /\ Has(1) /\ sp' = Frame.slots + 1
            /\ stack' = Written(Frame.slots + 1, Top)
         \/ sp' = Frame.slots /\ stack' = stack
  BY DEF Return, Running, IInv
<1>2. /\ Frame.slots \in Nat /\ Frame.slots <= sp /\ sp \in Nat /\ sp <= Len(stack)
      /\ Len(stack) \in Nat /\ Frame.slots + 1 \in Nat
  BY <1>1, FramesAre, InvTypes
<1>3. /\ stack' \in Seq(Addresses) /\ Len(stack') \in Nat /\ Len(stack) <= Len(stack')
      /\ sp' \in 0..Len(stack') /\ Frame.slots <= sp' /\ sp' \in Nat
      /\ ItemsOf(stack') \subseteq ItemsOf(stack)
  <2>1. CASE Has(1) /\ sp' = Frame.slots + 1 /\ stack' = Written(Frame.slots + 1, Top)
    <3>. DEFINE position == Frame.slots + 1 value == Top
    <3>1. /\ value \in Addresses /\ value \in ItemsOf(stack) /\ Addresses \subseteq Addresses
          /\ position \in 1..(Len(stack) + 1) /\ stack' = Written(position, value)
          /\ sp' = position
      BY <1>1, <1>2, <2>1, TopIs
    <3>. HIDE DEF position, value
    <3>2. /\ stack' \in Seq(Addresses) /\ Len(stack') \in Nat /\ Len(stack) <= Len(stack')
          /\ position <= Len(stack') /\ ItemsOf(stack') \subseteq ItemsOf(stack) \cup {value}
      BY <1>1, <3>1, WrittenIs
    <3>. QED
      BY <1>2, <3>1, <3>2 DEF position
  <2>2. CASE sp' = Frame.slots /\ stack' = stack
    BY <1>1, <1>2, <2>2 DEF TypeInv, MachineInv, StackInv
  <2>. QED
    BY <1>1, <2>1, <2>2
<1>4. /\ Kept /\ Addresses' = Addresses /\ OpenInv' /\ \A o \in Addresses' : UpvalueFits(o)'
  <2>. PICK last : last = Frame.slots + 1
    OBVIOUS
  <2>1. last \in Nat /\ ClosesFrom(last)
    BY <1>1, <1>2
  <2>. QED
    BY <1>1, <1>3, <2>1, ClosingKept
<1>5. FramesInv'
  <2>. DEFINE n == Len(frames) - 1
  <2>1. /\ frames \in Seq(FrameSet') /\ Len(frames) \in Nat /\ Len(frames) > 1
        /\ \A i, j \in 1..Len(frames) : i <= j => frames[i].slots <= frames[j].slots
        /\ \A i \in 1..Len(frames) : /\ frames[i].slots \in Nat
                                      /\ frames[i].slots <= Frame.slots
    <3>1. Len(frames) \in Nat /\ DOMAIN frames = 1..Len(frames) /\ Len(frames) > 1
      BY <1>1, FramesAre DEF InFunction
    <3>2. \A i, j \in DOMAIN frames : i <= j => frames[i].slots <= frames[j].slots
      BY <1>1 DEF TypeInv, MachineInv, FramesInv
    <3>3. \A i \in 1..Len(frames) : /\ frames[i].slots \in Nat
                                    /\ frames[i].slots <= Frame.slots
      BY <1>1, <1>2, FramesAre
    <3>4. frames \in Seq(FrameSet')
      BY <1>1, <1>4, KeptSets
    <3>. QED
      BY <3>1, <3>2, <3>3, <3>4
  <2>2. /\ n \in Nat \ {0} /\ n <= Len(frames) /\ \A i \in 1..n : i \in 1..Len(frames)
    BY <2>1
  <2>3. \A i \in 1..n : frames[i] \in FrameSet'
    BY <2>1, <2>2, ElementOfSeq
  <2>4. frames' = SubSeq(frames, 1, n)
    BY <1>1
  <2>. HIDE DEF n
  <2>. PICK new : new = SubSeq(frames, 1, n)
    OBVIOUS
  <2>5. /\ new \in Seq(FrameSet') /\ Len(new) = (IF 1 <= n THEN n - 1 + 1 ELSE 0)
        /\ \A i \in 1..(n - 1 + 1) : new[i] = frames[1 + i - 1]
    BY <2>2, <2>3, SubSeqProperties
  <2>6. DOMAIN new = 1..n /\ new # <<>> /\ \A i \in 1..n : new[i] = frames[i]
    BY <2>2, <2>5, LenProperties
  <2>7. /\ \A i, j \in 1..n : i <= j => new[i].slots <= new[j].slots
        /\ \A i \in 1..n : new[i].slots <= sp'
    <3>1. \A i, j \in 1..n : i <= j => new[i].slots <= new[j].slots
      BY <2>1, <2>2, <2>6
    <3>2. \A i \in 1..n : new[i].slots \in Nat /\ new[i].slots <= Frame.slots
      BY <2>1, <2>2, <2>6
    <3>3. Frame.slots \in Nat /\ sp' \in Nat /\ Frame.slots <= sp'
      BY <1>2, <1>3
    <3>4. ASSUME NEW i \in 1..n PROVE new[i].slots <= sp'
      BY <3>2, <3>3, AtMost
    <3>. QED
      BY <3>1, <3>4
  <2>. QED
    BY <2>4, <2>5, <2>6, <2>7 DEF FramesInv
<1>6. MachineInv'
  <2>1. building' \in Closures' \cup {Nil}
    BY <1>1
  <2>. QED
    BY <1>3, <1>4, <1>5, <2>1 DEF MachineInv, StackInv
<1>7. \A v \in ItemsOf(stack') : Usual(objects', table', program.path, v)
  BY <1>1, <1>3, <1>4, InvAtRun, InvTypes DEF Kept
<1>8. /\ Good(objects', head', table', Len(objects'), program.path)
      /\ Len(objects) <= Len(objects') /\ (building' # Nil => phase' = "running")
  BY <1>1, <1>4 DEF Kept
<1>. QED
  BY <1>1, <1>4, <1>6, <1>7, <1>8, RunStep

(*****************************************************************************)
(* The first state.                                                           *)
(*****************************************************************************)
LEMMA InitInv == Init => IInv
<1>. SUFFICES ASSUME Init PROVE RunShape
  BY ShapeIsInv
<1>. DEFINE texts == program.literals
            count == Len(texts)
            last == count + FirstLiteral - 1
            inner == IF program.hasFunction THEN <<last + 1>> ELSE <<>>
            literals == [i \in DOMAIN texts |-> i + FirstLiteral - 1]
            refs == Append(literals \o inner, Globals)
            o1 == Object("map", <<>>, Nil)
            o2 == Object("map", <<Modules>>, InternTable)
            o3 == Object("function", refs, Globals)
            o4 == Object("closure", <<Main>>, Main)
            o5 == Object("map", <<>>, MainClosure)
            f1 == Object("function", <<>>, last)
            f2 == Object("closure", inner, last + 1)
            fixed == <<o1, o2, o3, o4, o5>>
            strings == [i \in DOMAIN texts |-> String(texts[i], i + FirstLiteral - 2)]
            functions == IF program.hasFunction THEN <<f1, f2>> ELSE <<>>
            n == Len(objects)
<1>1. /\ program \in Programs
      /\ PathIsText \/ program.path \notin ItemsOf(texts)
      /\ objects = fixed \o strings \o functions
      /\ head = n /\ table = FirstLiteral..last
      /\ stack = <<>> /\ sp = 0 /\ open = <<>> /\ building = Nil
      /\ frames = << [closure |-> MainClosure, slots |-> 0] >> /\ phase = "running"
      /\ pending = <<>> /\ freeing = <<>> /\ prev = Nil /\ curr = Nil
  BY DEF Init
<1>2. /\ texts \in Seq(Seq(STRING)) /\ count \in Nat /\ DOMAIN texts = 1..count
      /\ \A i, j \in 1..count : texts[i] = texts[j] => i = j
      /\ \A i \in 1..count : texts[i] \in Seq(Characters)
      /\ last = count + 5
  <2>1. /\ texts \in Seq(Seq(STRING))
        /\ \A i, j \in DOMAIN texts : texts[i] = texts[j] => i = j
    BY <1>1, ProgramsAssumption
  <2>. HIDE DEF texts
  <2>2. count \in Nat /\ DOMAIN texts = 1..count
    BY <2>1, LenProperties
  <2>3. \A i \in 1..count : texts[i] \in Seq(STRING)
    BY <2>1, ElementOfSeq
  <2>4. \A i \in 1..count : texts[i] \in Seq(Characters)
    BY <2>3, TextsOf
  <2>5. last = count + 5
    BY <2>2 DEF FirstLiteral
  <2>. QED
    BY <2>1, <2>2, <2>4, <2>5
<1>. HIDE DEF texts, last, count
<1>3. /\ literals \in Seq(Nat) /\ Len(literals) = count
      /\ \A r \in ItemsOf(literals) : r \in 6..(count + 5)
  <2>1. literals = [i \in 1..count |-> i + 5]
    BY <1>2 DEF FirstLiteral
  <2>2. literals \in Seq(Nat) /\ Len(literals) = count
    BY <1>2, <2>1
  <2>. QED
    BY <1>2, <2>1, <2>2 DEF ItemsOf
<1>. HIDE DEF literals
<1>4. /\ inner \in Seq(Nat)
      /\ \A r \in ItemsOf(inner) : program.hasFunction /\ r = count + 6
      /\ program.hasFunction => inner # <<>>
  <2>1. CASE program.hasFunction
    BY <1>2, <2>1, ItemsOfOne
  <2>2. CASE ~program.hasFunction
    BY <1>2, <2>2, ItemsOfEmpty
  <2>. QED
    BY <2>1, <2>2
<1>. HIDE DEF inner
<1>5. /\ refs \in Seq(Nat)
      /\ \A r \in ItemsOf(refs) : \/ r \in 6..(count + 5)
                                  \/ program.hasFunction /\ r = count + 6
                                  \/ r = Globals
  <2>1. literals \o inner \in Seq(Nat) /\ Globals \in Nat
    BY <1>3, <1>4, ConcatProperties DEF Globals
  <2>2. ItemsOf(literals \o inner) = ItemsOf(literals) \cup ItemsOf(inner)
    BY <1>3, <1>4, ItemsOfConcat
  <2>. DEFINE front == literals \o inner
  <2>3. front \in Seq(Nat) /\ Globals \in Nat
    BY <2>1
  <2>. HIDE DEF front
  <2>4. /\ Append(front, Globals) \in Seq(Nat)
        /\ ItemsOf(Append(front, Globals)) = ItemsOf(front) \cup {Globals}
    BY <2>3, AppendProperties, ItemsOfAppend
  <2>5. refs = Append(front, Globals)
    BY DEF front
  <2>. HIDE DEF refs
  <2>. QED
    BY <1>3, <1>4, <2>2, <2>4, <2>5 DEF front
<1>. HIDE DEF refs
<1>6. /\ o1 \in Record /\ o1.tag = "map" /\ o1.refs = <<>> /\ o1.keys = <<>>
      /\ ~o1.marked /\ o1.next = 0
      /\ o2 \in Record /\ o2.tag = "map" /\ o2.refs = <<5>> /\ o2.keys = <<>>
      /\ ~o2.marked /\ o2.next = 1
      /\ o3 \in Record /\ o3.tag = "function" /\ o3.refs = refs /\ o3.keys = <<>>
      /\ ~o3.marked /\ o3.next = 2
      /\ o4 \in Record /\ o4.tag = "closure" /\ o4.refs = <<3>> /\ o4.keys = <<>>
      /\ ~o4.marked /\ o4.next = 3
      /\ o5 \in Record /\ o5.tag = "map" /\ o5.refs = <<>> /\ o5.keys = <<>>
      /\ ~o5.marked /\ o5.next = 4
  <2>1. /\ <<>> \in Seq(Nat) /\ <<>> \in Seq(Characters) /\ <<5>> \in Seq(Nat)
        /\ <<3>> \in Seq(Nat)
    OBVIOUS
  <2>2. /\ o1 \in Record /\ o1.tag = "map" /\ o1.refs = <<>> /\ o1.keys = <<>>
        /\ ~o1.marked /\ o1.next = 0
    BY <2>1 DEF Object, Record, Tags, Nil
  <2>3. /\ o2 \in Record /\ o2.tag = "map" /\ o2.refs = <<5>> /\ o2.keys = <<>>
        /\ ~o2.marked /\ o2.next = 1
    BY <2>1 DEF Object, Record, Tags, Modules, InternTable
  <2>4. /\ o3 \in Record /\ o3.tag = "function" /\ o3.refs = refs /\ o3.keys = <<>>
        /\ ~o3.marked /\ o3.next = 2
    BY <1>5, <2>1 DEF Object, Record, Tags, Globals
  <2>5. /\ o4 \in Record /\ o4.tag = "closure" /\ o4.refs = <<3>> /\ o4.keys = <<>>
        /\ ~o4.marked /\ o4.next = 3
    BY <2>1 DEF Object, Record, Tags, Main
  <2>6. /\ o5 \in Record /\ o5.tag = "map" /\ o5.refs = <<>> /\ o5.keys = <<>>
        /\ ~o5.marked /\ o5.next = 4
    BY <2>1 DEF Object, Record, Tags, MainClosure
  <2>. QED
    BY <2>2, <2>3, <2>4, <2>5, <2>6
<1>7. /\ f1 \in Record /\ f1.tag = "function" /\ f1.refs = <<>> /\ f1.keys = <<>>
      /\ ~f1.marked /\ f1.next = count + 5
      /\ f2 \in Record /\ f2.tag = "closure" /\ f2.refs = inner /\ f2.keys = <<>>
      /\ ~f2.marked /\ f2.next = count + 6
  <2>1. <<>> \in Seq(Nat) /\ <<>> \in Seq(Characters) /\ last \in Nat /\ last + 1 \in Nat
    BY <1>2
  <2>2. /\ f1 \in Record /\ f1.tag = "function" /\ f1.refs = <<>> /\ f1.keys = <<>>
        /\ ~f1.marked /\ f1.next = count + 5
    BY <1>2, <2>1 DEF Object, Record, Tags
  <2>3. /\ f2 \in Record /\ f2.tag = "closure" /\ f2.refs = inner /\ f2.keys = <<>>
        /\ ~f2.marked /\ f2.next = count + 6
    BY <1>2, <1>4, <2>1 DEF Object, Record, Tags
  <2>. QED
    BY <2>2, <2>3
<1>. HIDE DEF o1, o2, o3, o4, o5, f1, f2
<1>8. /\ fixed \in Seq(Record) /\ Len(fixed) = 5
      /\ fixed[1] = o1 /\ fixed[2] = o2 /\ fixed[3] = o3 /\ fixed[4] = o4 /\ fixed[5] = o5
  BY <1>6
<1>9. /\ strings \in Seq(Record) /\ Len(strings) = count
      /\ \A i \in 1..count :
            /\ strings[i] \in Record /\ strings[i].tag = "string" /\ strings[i].refs = <<>>
            /\ strings[i].keys = <<>> /\ strings[i].text = texts[i]
            /\ strings[i].hash = texts[i] /\ ~strings[i].marked /\ strings[i].next = i + 4
  <2>1. \A i \in 1..count : strings[i] = String(texts[i], i + 4)
    BY <1>2 DEF FirstLiteral
  <2>2. \A i \in 1..count :
            /\ strings[i] \in Record /\ strings[i].tag = "string" /\ strings[i].refs = <<>>
            /\ strings[i].keys = <<>> /\ strings[i].text = texts[i]
            /\ strings[i].hash = texts[i] /\ ~strings[i].marked /\ strings[i].next = i + 4
    <3>1. ASSUME NEW i \in 1..count
          PROVE  LET s == String(texts[i], i + 4) IN
                 /\ s \in Record /\ s.tag = "string" /\ s.refs = <<>>
                 /\ s.keys = <<>> /\ s.text = texts[i]
                 /\ s.hash = texts[i] /\ ~s.marked /\ s.next = i + 4
      <4>. DEFINE text == texts[i] next == i + 4 s == String(text, next)
      <4>1. text \in Seq(Characters) /\ next \in Nat
        BY <1>2
      <4>. HIDE DEF text, next
      <4>2. /\ s \in Record /\ s.tag = "string" /\ s.refs = <<>>
            /\ s.keys = <<>> /\ s.text = text
            /\ s.hash = text /\ ~s.marked /\ s.next = next
        BY <4>1, NewString
      <4>. QED
        BY <4>2 DEF text, next
    <3>. QED
      BY <2>1, <3>1
  <2>3. DOMAIN strings = 1..count
    BY <1>2
  <2>. QED
    BY <1>2, <2>2, <2>3
<1>10. /\ functions \in Seq(Record)
       /\ program.hasFunction => /\ Len(functions) = 2
                                 /\ functions[1] = f1 /\ functions[2] = f2
       /\ ~program.hasFunction => Len(functions) = 0
  BY <1>7
<1>. HIDE DEF fixed, strings, functions
<1>11. /\ objects \in Seq(Record) /\ n = count + 5 + Len(functions)
       /\ objects[1] = o1 /\ objects[2] = o2 /\ objects[3] = o3 /\ objects[4] = o4
       /\ objects[5] = o5
       /\ \A i \in 1..count : objects[i + 5] = strings[i]
       /\ program.hasFunction => objects[count + 6] = f1 /\ objects[count + 7] = f2
  <2>. DEFINE front == fixed \o strings
  <2>1. /\ front \in Seq(Record) /\ Len(front) = count + 5
        /\ \A i \in 1..(count + 5) : front[i] = IF i <= 5 THEN fixed[i] ELSE strings[i - 5]
    <3>1. /\ front \in Seq(Record) /\ Len(front) = Len(fixed) + Len(strings)
          /\ \A i \in 1..(Len(fixed) + Len(strings)) :
                front[i] = IF i <= Len(fixed) THEN fixed[i] ELSE strings[i - Len(fixed)]
      BY <1>8, <1>9, ConcatProperties
    <3>2. Len(fixed) + Len(strings) = count + 5
      BY <1>2, <1>8, <1>9
    <3>. QED
      BY <1>8, <3>1, <3>2
  <2>2. objects = front \o functions
    BY <1>1
  <2>. HIDE DEF front
  <2>3. /\ objects \in Seq(Record) /\ n = (count + 5) + Len(functions)
        /\ \A i \in 1..((count + 5) + Len(functions)) :
              objects[i] = IF i <= count + 5 THEN front[i] ELSE functions[i - (count + 5)]
    BY <1>10, <2>1, <2>2, ConcatProperties
  <2>4. Len(functions) \in Nat
    BY <1>10
  <2>5. \A i \in 1..(count + 5) : objects[i] = IF i <= 5 THEN fixed[i] ELSE strings[i - 5]
    BY <1>2, <2>1, <2>3, <2>4
  <2>6. \A i \in 1..5 : objects[i] = fixed[i]
    BY <1>2, <2>5
  <2>7. ASSUME NEW i \in 1..count PROVE objects[i + 5] = strings[i]
    <3>1. i + 5 \in 1..(count + 5) /\ ~(i + 5 <= 5) /\ (i + 5) - 5 = i
      BY <1>2
    <3>. QED
      BY <2>5, <3>1
  <2>8. ASSUME program.hasFunction
        PROVE  objects[count + 6] = f1 /\ objects[count + 7] = f2
    <3>1. Len(functions) = 2 /\ functions[1] = f1 /\ functions[2] = f2
      BY <1>10, <2>8
    <3>2. /\ count + 6 \in 1..((count + 5) + 2)
          /\ count + 7 \in 1..((count + 5) + 2)
          /\ ~(count + 6 <= count + 5) /\ ~(count + 7 <= count + 5)
          /\ (count + 6) - (count + 5) = 1 /\ (count + 7) - (count + 5) = 2
      BY <1>2
    <3>. QED
      BY <2>3, <3>1, <3>2
  <2>. QED
    BY <1>8, <2>3, <2>6, <2>7, <2>8
<1>12. /\ n \in Nat /\ count + 5 <= n /\ DOMAIN objects = 1..n
       /\ program.hasFunction => n = count + 7
       /\ \A o \in 1..n : \/ o \in 1..5
                          \/ o - 5 \in 1..count /\ (o - 5) + 5 = o
                          \/ program.hasFunction /\ o \in {count + 6, count + 7}
  <2>1. n \in Nat /\ DOMAIN objects = 1..n /\ n = (count + 5) + Len(functions)
    BY <1>11, LenProperties
  <2>. HIDE DEF n
  <2>2. CASE program.hasFunction
    <3>1. n = count + 7
      <4>1. Len(functions) = 2
        BY <1>10, <2>2
      <4>. QED
        BY <1>2, <2>1, <4>1
    <3>2. \A o \in 1..(count + 7) : \/ o \in 1..5
                                    \/ o - 5 \in 1..count /\ (o - 5) + 5 = o
                                    \/ o \in {count + 6, count + 7}
      BY <1>2
    <3>. QED
      BY <1>2, <2>1, <2>2, <3>1, <3>2
  <2>3. CASE ~program.hasFunction
    <3>1. n = count + 5
      <4>1. Len(functions) = 0
        BY <1>10, <2>3
      <4>. QED
        BY <1>2, <2>1, <4>1
    <3>2. \A o \in 1..(count + 5) : \/ o \in 1..5
                                    \/ o - 5 \in 1..count /\ (o - 5) + 5 = o
      BY <1>2
    <3>. QED
      BY <1>2, <2>1, <2>3, <3>1, <3>2
  <2>. QED
    BY <2>2, <2>3
<1>. HIDE DEF n
<1>. DEFINE Known(o) == \/ o = 1 /\ objects[o] = o1
                        \/ o = 2 /\ objects[o] = o2
                        \/ o = 3 /\ objects[o] = o3
                        \/ o = 4 /\ objects[o] = o4
                        \/ o = 5 /\ objects[o] = o5
                        \/ o - 5 \in 1..count /\ objects[o] = strings[o - 5]
                        \/ program.hasFunction /\ o = count + 6 /\ objects[o] = f1
                        \/ program.hasFunction /\ o = count + 7 /\ objects[o] = f2
<1>13. ASSUME NEW o \in 1..n PROVE Known(o)
  <2>1. CASE o \in 1..5
    BY <1>11, <2>1
  <2>2. CASE o - 5 \in 1..count /\ (o - 5) + 5 = o
    BY <1>11, <2>2
  <2>3. CASE program.hasFunction /\ o \in {count + 6, count + 7}
    BY <1>11, <2>3
  <2>. QED
    BY <1>12, <2>1, <2>2, <2>3
<1>14. table = 6..(count + 5)
  BY <1>1, <1>2 DEF FirstLiteral
<1>15. ASSUME NEW s \in table
       PROVE  /\ s - 5 \in 1..count /\ s \in 1..n
              /\ objects[s].tag = "string" /\ objects[s].hash = texts[s - 5]
              /\ objects[s].text = texts[s - 5]
  <2>1. s - 5 \in 1..count /\ (s - 5) + 5 = s /\ s \in 1..n
    BY <1>2, <1>12, <1>14
  <2>2. objects[s] = strings[s - 5]
    BY <1>11, <2>1
  <2>. QED
    BY <1>9, <2>1, <2>2
<1>16. \A o \in 1..n : ~objects[o].marked /\ objects[o].next = o - 1
  <2>1. ASSUME NEW o \in 1..n, o - 5 \in 1..count, objects[o] = strings[o - 5]
        PROVE  ~objects[o].marked /\ objects[o].next = o - 1
    <3>1. (o - 5) + 4 = o - 1
      BY <1>12
    <3>. QED
      BY <1>9, <2>1, <3>1
  <2>2. ASSUME NEW o \in 1..n, o \in 1..5 PROVE ~objects[o].marked /\ objects[o].next = o - 1
    BY <1>6, <1>11, <2>2
  <2>3. ASSUME program.hasFunction, NEW o \in {count + 6, count + 7}
        PROVE  ~objects[o].marked /\ objects[o].next = o - 1
    BY <1>2, <1>7, <1>11, <2>3
  <2>. QED
    BY <1>11, <1>12, <2>1, <2>2, <2>3
<1>17. TableOfStrings(objects, table)
  <2>1. table \subseteq {s \in DOMAIN objects : objects[s].tag = "string"}
    BY <1>12, <1>15
  <2>2. ASSUME NEW s \in table, NEW t \in table, objects[s].text = objects[t].text
        PROVE  s = t
    <3>1. s - 5 = t - 5
      BY <1>2, <1>15, <2>2
    <3>2. s \in Int /\ t \in Int
      BY <1>12, <1>15
    <3>. QED
      BY <3>1, <3>2
  <2>. QED
    BY <2>1, <2>2 DEF TableOfStrings
<1>. DEFINE Fits(r) == r \in 1..n /\ Usual(objects, table, program.path, r)
<1>18. /\ \A s \in table : Fits(s)
       /\ Fits(2) /\ Fits(3) /\ Fits(5)
       /\ program.hasFunction => Fits(count + 6)
  <2>1. ASSUME NEW s \in table PROVE Fits(s)
    <3>1. PathIsText \/ texts[s - 5] # program.path
      BY <1>1, <1>2, <1>15 DEF ItemsOf
    <3>. QED
      BY <1>15, <3>1 DEF Usual
  <2>2. Fits(2) /\ Fits(3) /\ Fits(5)
    <3>1. 2 \in 1..n /\ 3 \in 1..n /\ 5 \in 1..n
      BY <1>2, <1>12
    <3>. QED
      BY <1>6, <1>11, <3>1 DEF Usual
  <2>3. ASSUME program.hasFunction PROVE Fits(count + 6)
    <3>1. count + 6 \in 1..n
      BY <1>2, <1>12, <2>3
    <3>. QED
      BY <1>7, <1>11, <2>3, <3>1 DEF Usual
  <2>. QED
    BY <2>1, <2>2, <2>3
<1>19. ASSUME NEW o \in 1..n, NEW r \in ItemsOf(objects[o].refs) PROVE Fits(r)
  <2>. HIDE DEF Fits
  <2>1. CASE objects[o].refs = <<>>
    BY <1>19, <2>1, ItemsOfEmpty
  <2>2. CASE objects[o].refs = <<5>> \/ objects[o].refs = <<3>>
    BY <1>18, <1>19, <2>2, ItemsOfOne
  <2>3. CASE objects[o].refs = refs
    BY <1>5, <1>14, <1>18, <1>19, <2>3 DEF Globals
  <2>4. CASE objects[o].refs = inner
    BY <1>4, <1>18, <1>19, <2>4
  <2>. QED
    BY <1>6, <1>7, <1>9, <1>13, <2>1, <2>2, <2>3, <2>4
<1>20. ASSUME NEW o \in 1..n
       PROVE  /\ objects[o].keys = <<>>
              /\ objects[o].tag = "closure" => objects[o].refs # <<>>
  <2>1. CASE o - 5 \in 1..count /\ objects[o] = strings[o - 5]
    BY <1>9, <2>1
  <2>2. CASE program.hasFunction /\ objects[o] = f2
    BY <1>4, <1>7, <2>2
  <2>3. CASE objects[o] = o4
    <3>1. <<3>> # <<>>
      OBVIOUS
    <3>. QED
      BY <1>6, <2>3, <3>1
  <2>4. CASE objects[o] \in {o1, o2, o3, o5, f1}
    BY <1>6, <1>7, <2>4
  <2>. QED
    BY <1>13, <2>1, <2>2, <2>3, <2>4
<1>21. Good(objects, head, table, n, program.path)
  <2>1. PointersIn(objects, n)
    BY <1>12, <1>19, <1>20, ItemsOfEmpty DEF PointersIn
  <2>2. ListInOrder(objects, head)
    BY <1>1, <1>12, <1>16 DEF ListInOrder, n
  <2>3. RefsUsual(objects, table, program.path)
    BY <1>12, <1>19 DEF RefsUsual
  <2>4. Modules <= n /\ objects[Globals].tag = "map"
    BY <1>2, <1>6, <1>11, <1>12 DEF Modules, Globals
  <2>. QED
    BY <1>11, <1>12, <1>16, <1>17, <2>1, <2>2, <2>3, <2>4 DEF Good
<1>22. /\ stack \in Seq(Addresses) /\ pending \in Seq(Addresses)
       /\ freeing \in Seq(Frees(Len(objects))) /\ ItemsOf(stack) = {}
  BY <1>1, ItemsOfEmpty
<1>23. FramesInv
  <2>1. MainClosure \in Closures
    <3>1. 4 \in 1..n
      BY <1>2, <1>12
    <3>. QED
      BY <1>6, <1>11, <1>12, <3>1 DEF Closures, Addresses, MainClosure
  <2>. DEFINE frame == [closure |-> MainClosure, slots |-> 0]
  <2>2. frame \in FrameSet /\ frame.slots = 0
    BY <2>1 DEF FrameSet
  <2>. HIDE DEF frame
  <2>3. frames \in Seq(FrameSet) /\ frames # <<>> /\ DOMAIN frames = {1} /\ frames[1] = frame
    BY <1>1, <2>2 DEF frame
  <2>. QED
    BY <1>1, <2>2, <2>3 DEF FramesInv
<1>24. MachineInv
  <2>1. OpenInv
    BY <1>1 DEF OpenInv
  <2>2. StackInv
    BY <1>1, <1>22 DEF StackInv
  <2>. QED
    BY <1>1, <1>23, <2>1, <2>2 DEF MachineInv
<1>25. ASSUME NEW o \in 1..n PROVE UpvalueFits(o)
  <2>1. CASE o - 5 \in 1..count /\ objects[o] = strings[o - 5]
    BY <1>9, <2>1 DEF UpvalueFits
  <2>2. CASE program.hasFunction /\ objects[o] = f2
    <3>1. Tail(inner) = <<>>
      BY <2>2 DEF inner
    <3>. QED
      BY <1>7, <2>2, <3>1, ItemsOfEmpty DEF UpvalueFits
  <2>3. CASE objects[o] = o4
    <3>1. Tail(<<3>>) = <<>>
      OBVIOUS
    <3>. QED
      BY <1>6, <2>3, <3>1, ItemsOfEmpty DEF UpvalueFits
  <2>4. CASE objects[o] \in {o1, o2, o3, o5, f1}
    BY <1>6, <1>7, <2>4 DEF UpvalueFits
  <2>. QED
    BY <1>13, <2>1, <2>2, <2>3, <2>4
<1>26. \A o \in Addresses : UpvalueFits(o)
  BY <1>12, <1>25 DEF Addresses
<1>. QED
  BY <1>1, <1>12, <1>21, <1>22, <1>24, <1>26 DEF RunShape, Nil, n

(*****************************************************************************)
(* A collection.                                                              *)
(*****************************************************************************)
\* A collection changes no pointer but those of the list, and no text.
Sames(objs, new) ==
    /\ new \in Seq(Record) /\ Len(new) = Len(objs)
    /\ \A o \in DOMAIN objs :
          /\ new[o].tag = objs[o].tag /\ new[o].refs = objs[o].refs
          /\ new[o].keys = objs[o].keys /\ new[o].text = objs[o].text

LEMMA RootsKept ==
    ASSUME TypeInv, UNCHANGED machine, Sames(objects, objects')
    PROVE  Roots' = Roots
<1>1. UNCHANGED <<stack, sp, frames>>
  BY DEF machine
<1>2. \A i \in DOMAIN frames :
         FunctionOf(frames[i].closure)' = FunctionOf(frames[i].closure)
  BY <1>1, FramesAre DEF FunctionOf, Sames, Addresses
<1>. QED
  BY <1>1, <1>2 DEF Roots, OnStack

LEMMA RootsAreObjects == ASSUME TypeInv PROVE Roots \in Seq(Addresses)
<1>1. /\ Len(frames) \in Nat /\ DOMAIN frames = 1..Len(frames)
      /\ \A i \in 1..Len(frames) : frames[i].closure \in Closures
  BY FramesAre
<1>2. ASSUME NEW c \in Closures PROVE FunctionOf(c) \in Addresses
  <2>1. /\ c \in Addresses /\ objects[c] \in Record /\ objects[c].refs # <<>>
        /\ ItemsOf(objects[c].refs) \subseteq Addresses
    BY InvTypes DEF TypeInv, PointersIn, Closures, Addresses
  <2>2. objects[c].refs \in Seq(Nat)
    BY <2>1 DEF Record
  <2>3. 1 \in DOMAIN objects[c].refs
    BY <2>1, <2>2, EmptySeq
  <2>. QED
    BY <2>1, <2>3 DEF ItemsOf, FunctionOf
<1>. DEFINE functions == [i \in DOMAIN frames |-> FunctionOf(frames[i].closure)]
<1>3. functions \in Seq(Addresses)
  <2>1. \A i \in 1..Len(frames) : functions[i] \in Addresses
    BY <1>1, <1>2
  <2>2. functions = [i \in 1..Len(frames) |-> functions[i]]
    BY <1>1
  <2>. HIDE DEF functions
  <2>. QED
    BY <1>1, <2>1, <2>2
<1>. HIDE DEF functions
<1>4. OnStack \in Seq(Addresses)
  <2>. PICK below : below = sp
    OBVIOUS
  <2>1. /\ below \in Int /\ below <= Len(stack) /\ stack \in Seq(Addresses)
        /\ 1 \in Nat \ {0}
    BY InvTypes DEF TypeInv, MachineInv, StackInv
  <2>2. SubSeq(stack, 1, below) \in Seq(Addresses)
    BY <2>1, ItemsOfPart
  <2>. QED
    BY <2>2 DEF OnStack
<1>5. OnStack \o functions \in Seq(Addresses)
  <2>. DEFINE first == OnStack
  <2>. HIDE DEF first
  <2>1. first \in Seq(Addresses)
    BY <1>4 DEF first
  <2>2. first \o functions \in Seq(Addresses)
    BY <1>3, <2>1, ConcatProperties
  <2>. QED
    BY <2>2 DEF first
<1>. QED
  BY <1>5 DEF Roots, functions

\* Of two sequences of addresses.
LEMMA ItemsOfBoth ==
    ASSUME NEW s \in Seq(Addresses), NEW t \in Seq(Addresses)
    PROVE  s \o t \in Seq(Addresses) /\ ItemsOf(s \o t) = ItemsOf(s) \cup ItemsOf(t)
<1>1. s \o t \in Seq(Addresses)
  BY ConcatProperties
<1>2. ItemsOf(s \o t) = ItemsOf(s) \cup ItemsOf(t)
  BY ItemsOfConcat
<1>. QED
  BY <1>1, <1>2

\* What an open upvalue leads to.
Ahead(o) == IF IsOpen(o) THEN <<stack[SlotOf(o)]>> \o NextOf(o) ELSE <<>>

LEMMA AheadIs ==
    ASSUME TypeInv, building = Nil, NEW o
    PROVE  /\ Ahead(o) \in Seq(Addresses)
           /\ ~IsOpen(o) => ItemsOf(Ahead(o)) = {}
           /\ IsOpen(o) => ItemsOf(Ahead(o)) = {stack[open[Place(o)].slot]} \cup
                   (IF Place(o) < Len(open) THEN {open[Place(o) + 1].upvalue} ELSE {})
<1>1. CASE IsOpen(o)
  <2>. PICK i : i = Place(o)
    OBVIOUS
  <2>. PICK value, next : value = stack[open[i].slot] /\ next = NextOf(o)
    OBVIOUS
  <2>1. i \in 1..Len(open) /\ Len(open) \in Nat
    BY <1>1, PlaceIs, OpenAre
  <2>2. value \in Addresses
    <3>1. open[i].slot \in 1..Len(stack)
      BY <2>1, OpenAre
    <3>. QED
      BY <3>1, StackAt
  <2>3. /\ next \in Seq(Addresses)
        /\ ItemsOf(next) = IF i < Len(open) THEN {open[i + 1].upvalue} ELSE {}
    <3>1. CASE i < Len(open)
      <4>. PICK u : u = open[i + 1].upvalue
        OBVIOUS
      <4>1. u \in Addresses
        <5>1. i + 1 \in 1..Len(open)
          BY <2>1, <3>1
        <5>. QED
          BY <5>1, OpenAre
      <4>2. next = <<u>>
        BY <3>1 DEF NextOf
      <4>. QED
        BY <3>1, <4>1, <4>2, ItemsOfOne
    <3>2. CASE ~(i < Len(open))
      BY <3>2, ItemsOfEmpty DEF NextOf
    <3>. QED
      BY <3>1, <3>2
  <2>. PICK first : first = <<value>>
    OBVIOUS
  <2>4. first \in Seq(Addresses) /\ ItemsOf(first) = {value}
    BY <2>2, ItemsOfOne
  <2>5. /\ first \o next \in Seq(Addresses)
        /\ ItemsOf(first \o next) = ItemsOf(first) \cup ItemsOf(next)
    BY <2>3, <2>4, ItemsOfBoth
  <2>6. Ahead(o) = first \o next
    BY <1>1 DEF Ahead, SlotOf
  <2>. QED
    BY <1>1, <2>3, <2>4, <2>5, <2>6
<1>2. CASE ~IsOpen(o)
  BY <1>2, ItemsOfEmpty DEF Ahead
<1>. QED
  BY <1>1, <1>2

LEMMA LeadsToIs ==
    ASSUME TypeInv, building = Nil, NEW o \in Addresses
    PROVE  /\ LeadsTo(o) \in Seq(Addresses)
           /\ ItemsOf(LeadsTo(o)) = ItemsOf(objects[o].keys) \cup ItemsOf(objects[o].refs)
                                       \cup ItemsOf(Ahead(o))
<1>. PICK keys, refs, ahead :
       keys = objects[o].keys /\ refs = objects[o].refs /\ ahead = Ahead(o)
  OBVIOUS
<1>1. keys \in Seq(Addresses) /\ refs \in Seq(Addresses)
  <2>1. /\ refs \in Seq(Nat) /\ keys \in Seq(Nat)
        /\ ItemsOf(refs) \subseteq Addresses /\ ItemsOf(keys) \subseteq Addresses
    BY InvTypes DEF Record, TypeInv, PointersIn, Addresses
  <2>. QED
    BY <2>1, SeqOfItems
<1>2. ahead \in Seq(Addresses)
  BY AheadIs
<1>3. keys \o refs \in Seq(Addresses) /\ ItemsOf(keys \o refs) = ItemsOf(keys) \cup ItemsOf(refs)
  BY <1>1, ItemsOfBoth
<1>. PICK half : half = keys \o refs
  OBVIOUS
<1>4. /\ half \o ahead \in Seq(Addresses)
      /\ ItemsOf(half \o ahead) = ItemsOf(half) \cup ItemsOf(ahead)
  BY <1>2, <1>3, ItemsOfBoth
<1>5. LeadsTo(o) = half \o ahead
  BY DEF LeadsTo, Ahead
<1>. QED
  BY <1>3, <1>4, <1>5

LEMMA LeadsToKept ==
    ASSUME UNCHANGED machine, Sames(objects, objects'), NEW o \in Addresses
    PROVE  LeadsTo(o)' = LeadsTo(o)
<1>1. open' = open /\ stack' = stack
  BY DEF machine
<1>2. objects'[o].keys = objects[o].keys /\ objects'[o].refs = objects[o].refs
  BY DEF Sames, Addresses
<1>. QED
  BY <1>1, <1>2 DEF LeadsTo, IsOpen, SlotOf, NextOf, Place

\* Sets that nothing leads out of.
LEMMA LeadsToIn ==
    ASSUME TypeInv, building = Nil, NEW S, Closed(S), NEW o \in Addresses, o \in S
    PROVE  ItemsOf(LeadsTo(o)) \subseteq S
<1>1. ItemsOf(objects[o].refs) \cup ItemsOf(objects[o].keys) \subseteq S
  BY DEF Closed
<1>2. ItemsOf(Ahead(o)) \subseteq S
  <2>1. CASE IsOpen(o)
    <3>. PICK i : i = Place(o)
      OBVIOUS
    <3>1. i \in DOMAIN open /\ open[i].upvalue = o
      BY <2>1, PlaceIs, OpenAre
    <3>2. stack[open[i].slot] \in S /\ (i < Len(open) => open[i + 1].upvalue \in S)
      BY <3>1 DEF Closed
    <3>. QED
      BY <2>1, <3>2, AheadIs
  <2>. QED
    BY <2>1, AheadIs
<1>. QED
  BY <1>1, <1>2, LeadsToIs

LEMMA ClosedByLeads ==
    ASSUME TypeInv, building = Nil, NEW S \in SUBSET Addresses,
           \A o \in S : ItemsOf(LeadsTo(o)) \subseteq S
    PROVE  Closed(S)
<1>1. \A o \in S : ItemsOf(objects[o].refs) \cup ItemsOf(objects[o].keys) \subseteq S
  BY LeadsToIs
<1>2. ASSUME NEW i \in DOMAIN open, open[i].upvalue \in S
      PROVE  stack[open[i].slot] \in S /\ (i < Len(open) => open[i + 1].upvalue \in S)
  <2>. PICK o : o = open[i].upvalue
    OBVIOUS
  <2>1. IsOpen(o) /\ o \in S /\ o \in Addresses
    BY <1>2 DEF IsOpen
  <2>2. Place(o) = i
    BY <1>2, <2>1, PlaceIs, OpenAre
  <2>3. ItemsOf(Ahead(o)) \subseteq S
    BY <2>1, LeadsToIs
  <2>. QED
    BY <2>1, <2>2, <2>3, AheadIs
<1>. QED
  BY <1>1, <1>2 DEF Closed

LEMMA ClosedKept ==
    ASSUME UNCHANGED machine, Sames(objects, objects'), NEW S \in SUBSET Addresses
    PROVE  Closed(S)' <=> Closed(S)
<1>1. open' = open /\ stack' = stack
  BY DEF machine
<1>2. \A o \in S : objects'[o].keys = objects[o].keys /\ objects'[o].refs = objects[o].refs
  BY DEF Sames, Addresses
<1>. QED
  BY <1>1, <1>2 DEF Closed

\* What a step of a collection has to keep.
LEMMA CollectStep ==
    ASSUME IInv, building = Nil, UNCHANGED <<program, machine>>, Sames(objects, objects'),
           table' \subseteq table, phase' \in {"marking", "cleaning", "sweeping", "corrupt"},
           pending' \in Seq(Addresses), freeing' \in Seq(Frees(Len(objects))),
           \A o \in Addresses : objects'[o].next < o,
           head' \in 0..Len(objects), prev' \in 0..Len(objects), curr' \in 0..Len(objects),
           MarkInv', ListInv', SweepInv'
    PROVE  IInv'
<1>1. TypeInv /\ Unique
  BY DEF IInv
<1>2. /\ objects \in Seq(Record) /\ Len(objects) \in Nat /\ Addresses = 1..Len(objects)
      /\ objects' \in Seq(Record) /\ Len(objects') = Len(objects) /\ Addresses' = Addresses
  BY <1>1, InvTypes, LenProperties DEF TypeInv, Sames, Addresses
<1>3. \A o \in Addresses :
        /\ objects'[o].tag = objects[o].tag /\ objects'[o].refs = objects[o].refs
        /\ objects'[o].keys = objects[o].keys /\ objects'[o].text = objects[o].text
  BY DEF Sames, Addresses
<1>4. Closures' = Closures /\ Upvalues' = Upvalues
  BY <1>2, <1>3 DEF Closures, Upvalues
<1>5. PointersIn(objects', Len(objects'))
  BY <1>1, <1>2, <1>3 DEF TypeInv, PointersIn, Addresses
<1>6. TypeInv'
  <2>1. table' \subseteq {o \in Addresses' : IsString(o)'}
    BY <1>1, <1>2, <1>3 DEF TypeInv, IsString
  <2>2. program' \in Programs /\ Modules <= Len(objects') /\ building' = Nil
    BY <1>1, <1>2 DEF TypeInv, machine
  <2>3. MachineInv'
    <3>1. UNCHANGED <<stack, sp, frames, open, building>>
      BY DEF machine
    <3>2. Entries' = Entries /\ FrameSet' = FrameSet
      BY <1>4 DEF Entries, FrameSet
    <3>3. StackInv' /\ FramesInv' /\ OpenInv'
      BY <1>1, <1>2, <3>1, <3>2 DEF TypeInv, MachineInv, StackInv, FramesInv, OpenInv
    <3>. QED
      BY <2>2, <3>3 DEF MachineInv
  <2>. QED
    BY <1>2, <1>5, <2>1, <2>2, <2>3 DEF TypeInv
<1>7. Unique'
  <2>. SUFFICES ASSUME ~PathIsText PROVE StringsUnique'
    BY DEF Unique
  <2>1. Values' = Values
    BY <1>2, <1>3 DEF Values, machine
  <2>2. Values \subseteq Addresses
    BY <1>1, <1>2, InvTypes DEF TypeInv, PointersIn, Values, Addresses
  <2>3. \A o \in Values : IsString(o)' <=> IsString(o)
    BY <1>3, <2>2 DEF IsString
  <2>4. Strings' = Strings
    BY <2>1, <2>3 DEF Strings
  <2>. QED
    BY <1>1, <1>3, <2>2, <2>4 DEF Unique, StringsUnique, Strings
<1>8. RunInv'
  BY DEF RunInv
<1>. QED
  BY <1>6, <1>7, <1>8 DEF IInv

LEMMA ListKept ==
    ASSUME ListInv, Addresses' = Addresses, head' = head,
           \A o \in Addresses : objects'[o].next = objects[o].next,
           \A o \in Addresses : Left(o)' => Left(o)
    PROVE  ListInv'
BY DEF ListInv

\* Everything but the phase stays.
LEMMA StillStep ==
    ASSUME IInv, building = Nil,
           UNCHANGED <<program, objects, head, machine, pending, freeing>>,
           table' \subseteq table, phase' \in {"marking", "cleaning", "sweeping", "corrupt"},
           prev' \in 0..Len(objects), curr' \in 0..Len(objects), MarkInv', SweepInv'
    PROVE  IInv'
<1>1. TypeInv /\ ListInv /\ objects \in Seq(Record)
  BY DEF IInv, TypeInv
<1>2. ListInv'
  BY <1>1, ListKept DEF Addresses, Left
<1>3. Sames(objects, objects')
  BY <1>1 DEF Sames
<1>. QED
  BY <1>1, <1>2, <1>3, CollectStep DEF TypeInv

LEMMA CollectInv == ASSUME IInv, Collect PROVE IInv'
<1>1. /\ phase = "running" /\ phase' = "marking" /\ pending' = Roots
      /\ UNCHANGED <<program, heap, machine, freeing, prev, curr>> /\ TypeInv
      /\ UNCHANGED <<objects, head, table>> /\ building = Nil
  BY DEF Collect, IInv, heap
<1>2. /\ objects \in Seq(Record) /\ \A o \in Addresses : objects[o].next < o
      /\ head \in 0..Len(objects) /\ prev \in 0..Len(objects) /\ curr \in 0..Len(objects)
      /\ freeing \in Seq(Frees(Len(objects)))
  BY <1>1 DEF TypeInv
<1>3. Sames(objects, objects')
  BY <1>1, <1>2 DEF Sames
<1>4. ListInv'
  BY <1>1, ListKept DEF Addresses, Left, IInv
<1>5. Marks = {} /\ Marks' = {}
  <2>1. \A o \in Addresses : ~objects[o].marked
    BY <1>1, InvAtRun DEF Good, Addresses
  <2>. QED
    BY <1>1, <2>1 DEF Marks, Addresses
<1>6. Roots' = Roots /\ Roots \in Seq(Addresses)
  BY <1>1, <1>3, RootsKept, RootsAreObjects
<1>7. MarkInv'
  BY <1>1, <1>5, <1>6 DEF MarkInv
<1>8. SweepInv'
  BY <1>1 DEF SweepInv
<1>. QED
  BY <1>1, <1>2, <1>3, <1>4, <1>6, <1>7, <1>8, CollectStep

\* What runs after it does so between two instructions.
LEMMA NotBuilding == ASSUME TypeInv, phase # "running" PROVE building = Nil
BY DEF TypeInv

\* Of an object that waits, what it leads to comes to wait.
LEMMA MarkingKept ==
    ASSUME IInv, Mark
    PROVE  /\ pending' \in Seq(Addresses) /\ Sames(objects, objects') /\ MarkInv'
           /\ \A o \in Addresses : /\ objects'[o].next = objects[o].next
                                   /\ objects'[o].freed = objects[o].freed
<1>. DEFINE o == Head(pending)
<1>1. /\ TypeInv /\ phase = "marking" /\ phase' = "marking" /\ pending # <<>>
      /\ UNCHANGED <<program, head, table, machine>>
      /\ IF objects[o].marked THEN pending' = Tail(pending) /\ objects' = objects
         ELSE /\ objects' = [objects EXCEPT ![o].marked = TRUE]
              /\ pending' = LeadsTo(o) \o Tail(pending)
  BY DEF IInv, Mark, Marking
<1>2. /\ objects \in Seq(Record) /\ Len(objects) \in Nat /\ Addresses = 1..Len(objects)
      /\ \A a \in Addresses : objects[a] \in Record
      /\ pending \in Seq(Addresses)
  BY <1>1, InvTypes DEF TypeInv
<1>3. /\ o \in Addresses /\ Tail(pending) \in Seq(Addresses)
      /\ ItemsOf(pending) = {o} \cup ItemsOf(Tail(pending))
  BY <1>1, <1>2, ItemsOfHeadTail
<1>4. /\ ItemsOf(Roots) \subseteq Marks \cup ItemsOf(pending)
      /\ \A a \in Marks : ItemsOf(LeadsTo(a)) \subseteq Marks \cup ItemsOf(pending)
      /\ \A S \in SUBSET Addresses :
            ItemsOf(Roots) \subseteq S /\ Closed(S) => Marks \cup ItemsOf(pending) \subseteq S
      /\ building = Nil /\ Marks \subseteq Addresses
  BY <1>1, NotBuilding DEF IInv, MarkInv, Marks
<1>. HIDE DEF o
<1>5. CASE objects[o].marked
  <2>1. pending' = Tail(pending) /\ objects' = objects
    BY <1>1, <1>5
  <2>2. Sames(objects, objects')
    BY <1>2, <2>1 DEF Sames
  <2>3. Roots' = Roots
    BY <1>1, <2>2, RootsKept
  <2>4. Marks' = Marks /\ o \in Marks /\ Addresses' = Addresses
    BY <1>3, <1>5, <2>1 DEF Marks, Addresses
  <2>5. \A S \in SUBSET Addresses : Closed(S)' <=> Closed(S)
    BY <1>1, <2>2, ClosedKept
  <2>6. \A a \in Marks : LeadsTo(a)' = LeadsTo(a)
    BY <1>1, <1>4, <2>2, LeadsToKept
  <2>7. MarkInv'
    BY <1>1, <1>3, <1>4, <2>1, <2>3, <2>4, <2>5, <2>6 DEF MarkInv
  <2>. QED
    BY <1>3, <2>1, <2>2, <2>7
<1>6. CASE ~objects[o].marked
  <2>. DEFINE new == [objects[o] EXCEPT !.marked = TRUE]
  <2>1. objects' = [objects EXCEPT ![o] = new] /\ pending' = LeadsTo(o) \o Tail(pending)
    BY <1>1, <1>6
  <2>2. /\ new \in Record /\ new.refs = objects[o].refs /\ new.keys = objects[o].keys
        /\ new.tag = objects[o].tag /\ new.text = objects[o].text
        /\ new.next = objects[o].next /\ new.freed = objects[o].freed /\ new.marked
    BY <1>2, <1>3 DEF Record
  <2>. HIDE DEF new
  <2>3. /\ objects' \in Seq(Record) /\ Len(objects') = Len(objects)
        /\ \A p \in Addresses : p # o => objects'[p] = objects[p]
        /\ objects'[o] = new /\ Addresses' = Addresses
    <3>1. /\ objects' \in Seq(Record) /\ Len(objects') = Len(objects)
          /\ \A p \in Addresses : p # o => objects'[p] = objects[p]
          /\ objects'[o] = new
      BY <1>2, <1>3, <2>1, <2>2, ExceptSeq
    <3>. QED
      BY <1>2, <3>1, LenProperties DEF Addresses
  <2>4. /\ Sames(objects, objects')
        /\ \A a \in Addresses : /\ objects'[a].next = objects[a].next
                                /\ objects'[a].freed = objects[a].freed
                                /\ objects'[a].refs = objects[a].refs
                                /\ objects'[a].keys = objects[a].keys
    BY <2>2, <2>3 DEF Sames, Addresses
  <2>5. LeadsTo(o) \in Seq(Addresses)
    BY <1>1, <1>3, <1>4, LeadsToIs
  <2>6. /\ pending' \in Seq(Addresses)
        /\ ItemsOf(pending') = ItemsOf(LeadsTo(o)) \cup ItemsOf(Tail(pending))
    <3>. DEFINE first == LeadsTo(o) rest == Tail(pending)
    <3>1. first \in Seq(Addresses) /\ rest \in Seq(Addresses) /\ pending' = first \o rest
      BY <1>3, <2>1, <2>5
    <3>. HIDE DEF first, rest
    <3>2. pending' \in Seq(Addresses) /\ ItemsOf(pending') = ItemsOf(first) \cup ItemsOf(rest)
      BY <3>1, ItemsOfConcat, ConcatProperties
    <3>. QED
      BY <3>2 DEF first, rest
  <2>7. Roots' = Roots
    BY <1>1, <2>4, RootsKept
  <2>8. Marks' = Marks \cup {o}
    BY <1>2, <1>3, <2>2, <2>3 DEF Marks
  <2>9. MarkInv'
    <3>1. ItemsOf(Roots') \subseteq Marks' \cup ItemsOf(pending')
      BY <1>3, <1>4, <2>6, <2>7, <2>8
    <3>2. ASSUME NEW a \in Marks'
          PROVE  ItemsOf(LeadsTo(a)') \subseteq Marks' \cup ItemsOf(pending')
      <4>1. a \in Marks \cup {o} /\ a \in Addresses
        BY <1>3, <1>4, <2>8
      <4>2. LeadsTo(a)' = LeadsTo(a)
        BY <1>1, <2>4, <4>1, LeadsToKept
      <4>3. ItemsOf(LeadsTo(a)) \subseteq Marks' \cup ItemsOf(pending')
        BY <1>3, <1>4, <2>6, <2>8, <4>1
      <4>. QED
        BY <4>2, <4>3
    <3>3. ASSUME NEW S \in SUBSET Addresses', ItemsOf(Roots') \subseteq S, Closed(S)'
          PROVE  Marks' \cup ItemsOf(pending') \subseteq S
      <4>1. Closed(S)
        BY <1>1, <2>3, <2>4, <3>3, ClosedKept
      <4>2. Marks \cup ItemsOf(pending) \subseteq S
        BY <1>4, <2>3, <2>7, <3>3, <4>1
      <4>3. ItemsOf(LeadsTo(o)) \subseteq S
        BY <1>1, <1>3, <1>4, <4>1, <4>2, LeadsToIn
      <4>. QED
        BY <1>3, <2>6, <2>8, <4>2, <4>3
    <3>4. \A a \in Marks' : ItemsOf(LeadsTo(a)') \subseteq Marks' \cup ItemsOf(pending')
      BY <3>2
    <3>. QED
      BY <1>1, <3>1, <3>3, <3>4 DEF MarkInv
  <2>. QED
    BY <2>4, <2>6, <2>9
<1>. QED
  BY <1>5, <1>6

LEMMA MarkStepInv == ASSUME IInv, Mark PROVE IInv'
<1>1. /\ pending' \in Seq(Addresses) /\ Sames(objects, objects') /\ MarkInv'
      /\ \A o \in Addresses : /\ objects'[o].next = objects[o].next
                              /\ objects'[o].freed = objects[o].freed
  BY MarkingKept
<1>2. /\ TypeInv /\ ListInv /\ phase' = "marking"
      /\ UNCHANGED <<program, head, table, machine, freeing, prev, curr>> /\ building = Nil
  BY NotBuilding DEF IInv, Mark, Marking
<1>3. Addresses' = Addresses
  BY <1>1, <1>2, InvTypes, LenProperties DEF Sames, Addresses
<1>4. ListInv'
  BY <1>1, <1>2, <1>3, ListKept DEF Left
<1>5. SweepInv'
  BY <1>2 DEF SweepInv
<1>. QED
  BY <1>1, <1>2, <1>4, <1>5, CollectStep DEF TypeInv

LEMMA MarkedInv == ASSUME IInv, Marked PROVE IInv'
<1>1. /\ phase = "marking" /\ phase' = "cleaning" /\ pending = <<>> /\ TypeInv
      /\ UNCHANGED <<program, objects, head, table, machine, freeing, prev, curr, pending>>
      /\ building = Nil
  BY NotBuilding DEF IInv, Marked, Marking
<1>2. MarkInv'
  <2>1. UNCHANGED <<stack, sp, frames, open>>
    BY <1>1 DEF machine
  <2>2. Roots' = Roots /\ Marks' = Marks /\ Addresses' = Addresses
    BY <1>1, <2>1 DEF Roots, OnStack, FunctionOf, Marks, Addresses
  <2>3. \A o : LeadsTo(o)' = LeadsTo(o)
    BY <1>1, <2>1 DEF LeadsTo, IsOpen, SlotOf, NextOf, Place
  <2>4. \A S : Closed(S)' <=> Closed(S)
    BY <1>1, <2>1 DEF Closed
  <2>. QED
    BY <1>1, <2>2, <2>3, <2>4 DEF IInv, MarkInv
<1>3. SweepInv'
  BY <1>1 DEF SweepInv
<1>. QED
  BY <1>1, <1>2, <1>3, StillStep DEF TypeInv

LEMMA DeleteWhiteStringsInv == ASSUME IInv, DeleteWhiteStrings PROVE IInv'
<1>1. /\ phase' = "sweeping" /\ prev' = Nil /\ curr' = head /\ TypeInv
      /\ table' \subseteq table
      /\ UNCHANGED <<program, objects, head, machine, pending, freeing>> /\ building = Nil
  BY NotBuilding DEF IInv, DeleteWhiteStrings
<1>2. MarkInv' /\ SweepInv'
  BY <1>1 DEF MarkInv, SweepInv
<1>3. prev' \in 0..Len(objects) /\ curr' \in 0..Len(objects)
  BY <1>1, InvTypes DEF TypeInv, Nil
<1>. QED
  BY <1>1, <1>2, <1>3, StillStep

LEMMA SweepMarkedInv == ASSUME IInv, SweepMarked PROVE IInv'
<1>1. /\ TypeInv /\ ListInv /\ phase' = "sweeping" /\ curr # Nil
      /\ objects' = [objects EXCEPT ![curr].marked = FALSE]
      /\ prev' = curr /\ curr' = objects[curr].next
      /\ UNCHANGED <<program, head, table, machine, pending, freeing>> /\ building = Nil
  BY NotBuilding DEF IInv, SweepMarked, Sweeping
<1>2. /\ objects \in Seq(Record) /\ Len(objects) \in Nat /\ Addresses = 1..Len(objects)
      /\ \A a \in Addresses : objects[a] \in Record
      /\ curr \in Addresses
  BY <1>1, InvTypes DEF TypeInv, Nil
<1>. DEFINE new == [objects[curr] EXCEPT !.marked = FALSE]
<1>3. /\ new \in Record /\ new.refs = objects[curr].refs /\ new.keys = objects[curr].keys
      /\ new.tag = objects[curr].tag /\ new.text = objects[curr].text
      /\ new.next = objects[curr].next /\ new.freed = objects[curr].freed
  BY <1>2 DEF Record
<1>4. objects' = [objects EXCEPT ![curr] = new]
  BY <1>1
<1>. HIDE DEF new
<1>5. /\ objects' \in Seq(Record) /\ Len(objects') = Len(objects)
      /\ \A p \in Addresses : p # curr => objects'[p] = objects[p]
      /\ objects'[curr] = new
  BY <1>2, <1>3, <1>4, ExceptSeq
<1>6. /\ Sames(objects, objects') /\ Addresses' = Addresses
      /\ \A a \in Addresses : /\ objects'[a].next = objects[a].next
                              /\ objects'[a].freed = objects[a].freed
  BY <1>2, <1>3, <1>5, LenProperties DEF Sames, Addresses
<1>7. ListInv'
  BY <1>1, <1>6, ListKept DEF Left
<1>8. MarkInv' /\ SweepInv'
  BY <1>1, <1>2, <1>6 DEF MarkInv, SweepInv, Nil
<1>9. curr' \in 0..Len(objects)
  <2>1. objects[curr].next \in Nat /\ objects[curr].next < curr
    BY <1>1, <1>2 DEF TypeInv, Record
  <2>. QED
    BY <1>1, <1>2, <2>1
<1>. QED
  BY <1>1, <1>2, <1>6, <1>7, <1>8, <1>9, CollectStep DEF TypeInv

\* The object that is unlinked is the one the walk is at, which comes after prev.
LEMMA UnlinkInv == ASSUME IInv, Unlink PROVE IInv'
<1>1. /\ TypeInv /\ ListInv /\ SweepInv /\ phase = "sweeping" /\ phase' = "sweeping"
      /\ freeing = <<>> /\ curr # Nil
      /\ IF prev = Nil THEN head' = objects[curr].next /\ objects' = objects
         ELSE /\ objects' = [objects EXCEPT ![prev].next = objects[curr].next]
              /\ head' = head
      /\ curr' = objects[curr].next /\ freeing' = <<[object |-> curr, entered |-> FALSE]>>
      /\ UNCHANGED <<program, table, machine, pending, prev>> /\ building = Nil
  BY NotBuilding DEF IInv, Unlink, Sweeping
<1>2. /\ objects \in Seq(Record) /\ Len(objects) \in Nat /\ Addresses = 1..Len(objects)
      /\ \A a \in Addresses : objects[a] \in Record
      /\ curr \in Addresses /\ head \in 0..Len(objects) /\ prev \in 0..Len(objects)
      /\ prev # Nil => prev \in Addresses
  BY <1>1, InvTypes DEF TypeInv, Nil
<1>3. \A a \in Addresses : objects[a].next \in Nat /\ objects[a].next < a
  BY <1>1, <1>2 DEF TypeInv, Record
<1>4. curr' \in 0..Len(objects) /\ curr' < curr /\ curr' \in Nat
  BY <1>1, <1>2, <1>3
<1>5. freeing' \in Seq(Frees(Len(objects)))
  BY <1>1, <1>2 DEF Frees
<1>6. ASSUME NEW o \in Addresses, ~objects[o].freed,
             \A i \in DOMAIN freeing' : freeing'[i].object # o
      PROVE  o # curr /\ o <= head /\ \A p \in Addresses : p > o => objects[p].next >= o
  <2>1. o # curr
    BY <1>1, <1>6
  <2>2. Left(o)
    BY <1>1, <1>6 DEF Left
  <2>. QED
    BY <1>1, <2>1, <2>2 DEF ListInv
<1>7. MarkInv'
  BY <1>1 DEF MarkInv
<1>8. CASE prev = Nil
  <2>1. /\ head' = objects[curr].next /\ objects' = objects /\ Addresses' = Addresses
        /\ curr = head /\ prev' = Nil
    BY <1>1, <1>8 DEF SweepInv, Addresses
  <2>2. ListInv'
    <3>1. ASSUME NEW o \in Addresses', Left(o)'
          PROVE  o <= head' /\ \A p \in Addresses' : p > o => objects'[p].next >= o
      <4>1. o # curr /\ o <= head /\ \A p \in Addresses : p > o => objects[p].next >= o
        BY <1>6, <2>1, <3>1 DEF Left
      <4>2. curr > o
        BY <1>2, <2>1, <4>1
      <4>. QED
        BY <1>2, <2>1, <4>1, <4>2
    <3>. QED
      BY <3>1 DEF ListInv
  <2>3. SweepInv'
    BY <1>1, <2>1 DEF SweepInv
  <2>4. Sames(objects, objects')
    BY <1>2, <2>1 DEF Sames
  <2>5. \A o \in Addresses : objects'[o].next < o
    BY <1>3, <2>1
  <2>6. head' \in 0..Len(objects) /\ prev' \in 0..Len(objects)
    BY <1>1, <1>2, <1>4, <2>1
  <2>. QED
    BY <1>1, <1>4, <1>5, <1>7, <2>2, <2>3, <2>4, <2>5, <2>6, CollectStep DEF TypeInv
<1>9. CASE prev # Nil
  <2>. DEFINE new == [objects[prev] EXCEPT !.next = objects[curr].next]
  <2>1. /\ objects' = [objects EXCEPT ![prev] = new] /\ head' = head /\ prev' = prev
        /\ prev \in Addresses /\ curr = objects[prev].next
    BY <1>1, <1>2, <1>9 DEF SweepInv
  <2>2. /\ new \in Record /\ new.refs = objects[prev].refs /\ new.keys = objects[prev].keys
        /\ new.tag = objects[prev].tag /\ new.text = objects[prev].text
        /\ new.next = objects[curr].next /\ new.freed = objects[prev].freed
    BY <1>2, <1>3, <2>1 DEF Record
  <2>. HIDE DEF new
  <2>3. /\ objects' \in Seq(Record) /\ Len(objects') = Len(objects)
        /\ \A p \in Addresses : p # prev => objects'[p] = objects[p]
        /\ objects'[prev] = new
    BY <1>2, <2>1, <2>2, ExceptSeq
  <2>4. /\ Sames(objects, objects') /\ Addresses' = Addresses
        /\ \A a \in Addresses : objects'[a].freed = objects[a].freed
    BY <1>2, <2>2, <2>3, LenProperties DEF Sames, Addresses
  <2>5. /\ curr < prev /\ objects'[prev].next = objects[curr].next
        /\ \A o \in Addresses : objects'[o].next < o
    BY <1>2, <1>3, <2>1, <2>2, <2>3
  <2>6. ListInv'
    <3>1. ASSUME NEW o \in Addresses', Left(o)'
          PROVE  o <= head' /\ \A p \in Addresses' : p > o => objects'[p].next >= o
      <4>1. o # curr /\ o <= head /\ \A p \in Addresses : p > o => objects[p].next >= o
        BY <1>6, <2>4, <3>1 DEF Left
      <4>2. ASSUME NEW p \in Addresses, p > o PROVE objects'[p].next >= o
        <5>1. CASE p # prev
          BY <2>3, <4>1, <4>2, <5>1
        <5>2. CASE p = prev
          <6>1. curr >= o
            BY <2>1, <4>1, <4>2, <5>2
          <6>2. curr > o
            BY <1>2, <2>4, <4>1, <6>1
          <6>. QED
            BY <1>2, <2>5, <4>1, <5>2, <6>2
        <5>. QED
          BY <5>1, <5>2
      <4>. QED
        BY <2>1, <2>4, <4>1, <4>2
    <3>. QED
      BY <3>1 DEF ListInv
  <2>7. SweepInv'
    BY <1>1, <1>9, <2>1, <2>5 DEF SweepInv
  <2>8. head' \in 0..Len(objects) /\ prev' \in 0..Len(objects)
    BY <1>2, <2>1
  <2>. QED
    BY <1>1, <1>4, <1>5, <1>7, <2>4, <2>5, <2>6, <2>7, <2>8, CollectStep DEF TypeInv
<1>. QED
  BY <1>8, <1>9

LEMMA CorruptInv ==
    ASSUME IInv, phase = "sweeping", Corrupts,
           UNCHANGED <<program, table, machine, pending>>
    PROVE  IInv'
<1>1. /\ phase' = "corrupt" /\ UNCHANGED <<objects, head, freeing, prev, curr>> /\ TypeInv
      /\ building = Nil
  BY NotBuilding DEF Corrupts, IInv
<1>2. MarkInv' /\ SweepInv'
  BY <1>1 DEF MarkInv, SweepInv
<1>. QED
  BY <1>1, <1>2, StillStep DEF TypeInv

LEMMA SweepFreedInv == ASSUME IInv, SweepFreed PROVE IInv'
BY CorruptInv DEF SweepFreed, Sweeping

FrontOf(s) == SubSeq(s, 1, Len(s) - 1)
Turned(s) == Append(Tail(s), Head(s))

LEMMA FrontIsSeq == ASSUME NEW S, NEW s \in Seq(S) PROVE FrontOf(s) \in Seq(S)
<1>1. Len(s) - 1 \in Int /\ Len(s) - 1 <= Len(s) /\ 1 \in Nat \ {0}
  BY LenProperties
<1>. QED
  BY <1>1, ItemsOfPart DEF FrontOf

LEMMA TurnedIsSeq == ASSUME NEW S, NEW s \in Seq(S), s # <<>> PROVE Turned(s) \in Seq(S)
<1>. DEFINE rest == Tail(s) first == Head(s)
<1>1. rest \in Seq(S) /\ first \in S
  BY ItemsOfHeadTail
<1>. HIDE DEF rest, first
<1>2. Append(rest, first) \in Seq(S)
  BY <1>1, AppendProperties
<1>. QED
  BY <1>2 DEF rest, first, Turned

LEMMA FreedWithObjects ==
    ASSUME TypeInv, NEW o \in Addresses
    PROVE  FreedWith(o) \in Seq(Addresses)
<1>. DEFINE refs == objects[o].refs
<1>1. /\ refs \in Seq(Addresses)
      /\ objects[o].tag = "closure" => refs # <<>>
  <2>1. /\ objects[o].refs \in Seq(Nat) /\ ItemsOf(objects[o].refs) \subseteq Addresses
        /\ objects[o].tag = "closure" => objects[o].refs # <<>>
    BY InvTypes DEF Record, TypeInv, PointersIn, Addresses
  <2>. QED
    BY <2>1, SeqOfItems
<1>2. FreedWith(o) = CASE objects[o].tag = "upvalue"  -> <<>>
                       [] objects[o].tag = "function" -> FrontOf(refs)
                       [] objects[o].tag = "closure"  -> Turned(refs)
                       [] OTHER                       -> refs
  BY DEF FreedWith, FrontOf, Turned
<1>. HIDE DEF refs
<1>3. FrontOf(refs) \in Seq(Addresses)
  BY <1>1, FrontIsSeq
<1>4. objects[o].tag = "closure" => Turned(refs) \in Seq(Addresses)
  BY <1>1, TurnedIsSeq
<1>5. <<>> \in Seq(Addresses)
  OBVIOUS
<1>6. CASE objects[o].tag = "upvalue"
  BY <1>2, <1>5, <1>6
<1>7. CASE objects[o].tag = "function"
  BY <1>2, <1>3, <1>7
<1>8. CASE objects[o].tag = "closure"
  BY <1>2, <1>4, <1>8
<1>9. CASE /\ objects[o].tag # "upvalue" /\ objects[o].tag # "function"
           /\ objects[o].tag # "closure"
  <2>1. FreedWith(o) = refs
    BY <1>2, <1>9
  <2>. QED
    BY <1>1, <2>1
<1>. QED
  BY <1>6, <1>7, <1>8, <1>9

\* An object that is being freed is, until it is freed.
LEMMA FreeEnterInv == ASSUME IInv, FreeEnter PROVE IInv'
<1>. DEFINE o == Head(freeing).object
            CallOn(r) == [object |-> r, entered |-> FALSE]
            rest == Tail(freeing)
            entered == [object |-> o, entered |-> TRUE]
            calls == [i \in DOMAIN FreedWith(o) |-> CallOn(FreedWith(o)[i])]
<1>1. /\ TypeInv /\ ListInv /\ SweepInv /\ phase = "sweeping" /\ freeing # <<>>
      /\ UNCHANGED <<program, table, machine, pending>> /\ building = Nil
      /\ \/ Corrupts
         \/ /\ objects' = [a \in Addresses |->
                              [objects[a] EXCEPT !.hollow = @ \/ a \in KeysOf(o)]]
            /\ freeing' = calls \o <<entered>> \o rest
            /\ UNCHANGED <<head, prev, curr, phase>>
  BY NotBuilding DEF IInv, FreeEnter, Sweeping
<1>2. CASE Corrupts
  BY <1>1, <1>2, CorruptInv
<1>3. CASE /\ objects' = [a \in Addresses |->
                            [objects[a] EXCEPT !.hollow = @ \/ a \in KeysOf(o)]]
           /\ freeing' = calls \o <<entered>> \o rest
           /\ UNCHANGED <<head, prev, curr, phase>>
  <2>. DEFINE Calls == Frees(Len(objects))
  <2>1. /\ objects \in Seq(Record) /\ Len(objects) \in Nat /\ Addresses = 1..Len(objects)
        /\ \A a \in Addresses : objects[a] \in Record
        /\ freeing \in Seq(Calls)
    BY <1>1, InvTypes DEF TypeInv
  <2>2. /\ Head(freeing) \in Calls /\ rest \in Seq(Calls)
        /\ ItemsOf(freeing) = {Head(freeing)} \cup ItemsOf(rest)
    BY <1>1, <2>1, ItemsOfHeadTail
  <2>3. o \in Addresses /\ entered \in Calls
    BY <2>1, <2>2 DEF Frees
  <2>4. calls \in Seq(Calls)
    <3>1. FreedWith(o) \in Seq(Addresses)
      BY <1>1, <2>3, FreedWithObjects
    <3>. DEFINE with == FreedWith(o)
    <3>2. /\ Len(with) \in Nat /\ DOMAIN with = 1..Len(with)
          /\ \A i \in 1..Len(with) : with[i] \in Addresses
      BY <3>1, LenProperties, ElementOfSeq
    <3>3. \A i \in 1..Len(with) : CallOn(with[i]) \in Calls
      BY <2>1, <3>2 DEF Frees
    <3>4. calls = [i \in 1..Len(with) |-> CallOn(with[i])]
      BY <3>2
    <3>. HIDE DEF with, Calls, CallOn
    <3>. QED
      BY <3>2, <3>3, <3>4
  <2>. HIDE DEF calls, entered, rest, Calls
  <2>5. /\ freeing' \in Seq(Calls)
        /\ ItemsOf(freeing') = ItemsOf(calls) \cup {entered} \cup ItemsOf(rest)
    <3>1. <<entered>> \in Seq(Calls) /\ ItemsOf(<<entered>>) = {entered}
      BY <2>3, ItemsOfOne
    <3>. DEFINE one == <<entered>>
    <3>. HIDE DEF one
    <3>2. /\ calls \o one \in Seq(Calls)
          /\ ItemsOf(calls \o one) = ItemsOf(calls) \cup ItemsOf(one)
      BY ZenonT(30), <2>4, <3>1, ItemsOfConcat, ConcatProperties DEF one
    <3>. DEFINE front == calls \o one
    <3>3. /\ front \in Seq(Calls) /\ ItemsOf(front) = ItemsOf(calls) \cup {entered}
          /\ freeing' = front \o rest
      BY <1>3, <3>1, <3>2 DEF one
    <3>. HIDE DEF front
    <3>4. /\ front \o rest \in Seq(Calls)
          /\ ItemsOf(front \o rest) = ItemsOf(front) \cup ItemsOf(rest)
      BY <2>2, <3>3, ItemsOfConcat, ConcatProperties
    <3>. QED
      BY <3>3, <3>4
  <2>6. /\ objects' \in Seq(Record) /\ Len(objects') = Len(objects) /\ Addresses' = Addresses
        /\ Sames(objects, objects')
        /\ \A a \in Addresses : /\ objects'[a].next = objects[a].next
                                /\ objects'[a].freed = objects[a].freed
    <3>. DEFINE new(a) == [objects[a] EXCEPT !.hollow = @ \/ a \in KeysOf(o)]
    <3>1. ASSUME NEW a \in Addresses
          PROVE  /\ new(a) \in Record /\ new(a).refs = objects[a].refs
                 /\ new(a).keys = objects[a].keys /\ new(a).tag = objects[a].tag
                 /\ new(a).text = objects[a].text /\ new(a).next = objects[a].next
                 /\ new(a).freed = objects[a].freed
      <4>. DEFINE hollow == objects[a].hollow \/ a \in KeysOf(o)
      <4>1. hollow \in BOOLEAN
        OBVIOUS
      <4>2. new(a) = [objects[a] EXCEPT !.hollow = hollow]
        OBVIOUS
      <4>. HIDE DEF hollow, new
      <4>. QED
        BY <2>1, <4>1, <4>2 DEF Record
    <3>2. objects' = [a \in 1..Len(objects) |-> new(a)]
      BY <1>3, <2>1
    <3>. HIDE DEF new
    <3>3. /\ objects' \in Seq(Record) /\ Len(objects') = Len(objects)
          /\ \A a \in Addresses : objects'[a] = new(a)
      BY <2>1, <3>1, <3>2
    <3>4. Addresses' = Addresses
      BY <2>1, <3>3, LenProperties DEF Addresses
    <3>. QED
      BY <3>1, <3>3, <3>4 DEF Sames, Addresses
  <2>7. ASSUME NEW a \in Addresses, Left(a)' PROVE Left(a)
    <3>1. \A c \in ItemsOf(freeing') : c.object # a
      BY <2>7 DEF Left, ItemsOf
    <3>2. entered.object = Head(freeing).object
      BY DEF entered
    <3>3. \A c \in ItemsOf(freeing) : c.object # a
      BY <2>2, <2>5, <3>1, <3>2
    <3>. QED
      BY <2>6, <2>7, <3>3 DEF Left, ItemsOf
  <2>8. ListInv'
    BY <1>1, <1>3, <2>6, <2>7, ListKept
  <2>9. MarkInv' /\ SweepInv'
    BY <1>1, <1>3, <2>1, <2>6 DEF MarkInv, SweepInv, TypeInv, Nil
  <2>10. /\ UNCHANGED <<program, machine>> /\ building = Nil /\ table' = table /\ phase' = "sweeping"
         /\ pending' \in Seq(Addresses)
         /\ \A a \in Addresses : objects'[a].next < a
         /\ head' \in 0..Len(objects) /\ prev' \in 0..Len(objects)
         /\ curr' \in 0..Len(objects)
    BY <1>1, <1>3, <2>6 DEF TypeInv
  <2>. QED
    BY <2>5, <2>6, <2>8, <2>9, <2>10, CollectStep DEF Calls
<1>. QED
  BY <1>1, <1>2, <1>3

LEMMA FreeLeaveInv == ASSUME IInv, FreeLeave PROVE IInv'
<1>. DEFINE o == Head(freeing).object
            rest == Tail(freeing)
            Calls == Frees(Len(objects))
            new == [objects[o] EXCEPT !.freed = TRUE]
<1>1. /\ TypeInv /\ ListInv /\ SweepInv /\ phase = "sweeping" /\ freeing # <<>>
      /\ objects' = [objects EXCEPT ![o].freed = TRUE] /\ freeing' = rest
      /\ UNCHANGED <<program, head, table, machine, pending, prev, curr, phase>>
      /\ building = Nil
  BY NotBuilding DEF IInv, FreeLeave, Sweeping
<1>2. /\ objects \in Seq(Record) /\ Len(objects) \in Nat /\ Addresses = 1..Len(objects)
      /\ \A a \in Addresses : objects[a] \in Record
      /\ freeing \in Seq(Calls)
  BY <1>1, InvTypes DEF TypeInv
<1>3. /\ Head(freeing) \in Calls /\ rest \in Seq(Calls)
      /\ ItemsOf(freeing) = {Head(freeing)} \cup ItemsOf(rest)
  BY <1>1, <1>2, ItemsOfHeadTail
<1>4. o \in Addresses
  BY <1>2, <1>3 DEF Frees
<1>5. objects' = [objects EXCEPT ![o] = new]
  BY <1>1
<1>. HIDE DEF o, rest, Calls
<1>6. /\ new \in Record /\ new.refs = objects[o].refs /\ new.keys = objects[o].keys
      /\ new.tag = objects[o].tag /\ new.text = objects[o].text
      /\ new.next = objects[o].next /\ new.freed
  BY <1>2, <1>4 DEF Record
<1>. HIDE DEF new
<1>7. /\ objects' \in Seq(Record) /\ Len(objects') = Len(objects)
      /\ \A p \in Addresses : p # o => objects'[p] = objects[p]
      /\ objects'[o] = new
  BY <1>2, <1>4, <1>5, <1>6, ExceptSeq
<1>8. /\ Sames(objects, objects') /\ Addresses' = Addresses
      /\ \A a \in Addresses : objects'[a].next = objects[a].next
  BY <1>2, <1>6, <1>7, LenProperties DEF Sames, Addresses
<1>9. ASSUME NEW a \in Addresses, Left(a)' PROVE Left(a)
  <2>1. ~objects'[a].freed /\ \A c \in ItemsOf(rest) : c.object # a
    BY <1>1, <1>9 DEF Left, ItemsOf
  <2>2. a # o /\ ~objects[a].freed
    BY <1>6, <1>7, <2>1
  <2>3. \A c \in ItemsOf(freeing) : c.object # a
    BY <1>3, <2>1, <2>2 DEF o
  <2>. QED
    BY <2>2, <2>3 DEF Left, ItemsOf
<1>10. ListInv'
  BY <1>1, <1>8, <1>9, ListKept
<1>11. MarkInv' /\ SweepInv'
  BY <1>1, <1>2, <1>8 DEF MarkInv, SweepInv, TypeInv, Nil
<1>12. /\ UNCHANGED <<program, machine>> /\ building = Nil /\ table' = table /\ phase' = "sweeping"
       /\ pending' \in Seq(Addresses) /\ freeing' \in Seq(Calls)
       /\ \A a \in Addresses : objects'[a].next < a
       /\ head' \in 0..Len(objects) /\ prev' \in 0..Len(objects) /\ curr' \in 0..Len(objects)
  BY <1>1, <1>3, <1>8 DEF TypeInv
<1>. QED
  BY <1>8, <1>10, <1>11, <1>12, CollectStep DEF Calls

(*****************************************************************************)
(* Theorems.                                                                  *)
(*****************************************************************************)
LEMMA NextInv == ASSUME IInv, [Next]_vars PROVE IInv'
<1>1. CASE Mutate
  BY <1>1, PushConstantInv, PopInv, SliceInv, ConcatInv, MakeArrayInv, ArrayPushInv,
     SetGlobalInv, GetGlobalInv, GetLocalInv, SetLocalInv, GetUpvalueInv, SetUpvalueInv,
     BeginClosureInv, CaptureLocalInv, CaptureUpvalueInv, MakeClosureInv, CloseInv, CallInv,
     ReturnInv, ImportInv DEF Mutate
<1>2. CASE Collect
  BY <1>2, CollectInv
<1>3. CASE Collection
  BY <1>3, MarkStepInv, MarkedInv, DeleteWhiteStringsInv, SweepMarkedInv, UnlinkInv,
     SweepFreedInv, FreeEnterInv, FreeLeaveInv DEF Collection
<1>4. CASE UNCHANGED vars
  <2>1. UNCHANGED <<program, objects, head, table, stack, sp, frames, open, building, phase,
                    pending, freeing, prev, curr>>
    BY <1>4 DEF vars, heap, machine, collector
  <2>2. TypeInv'
    <3>1. Addresses' = Addresses /\ Closures' = Closures /\ Upvalues' = Upvalues
      BY <2>1 DEF Addresses, Closures, Upvalues
    <3>2. MachineInv'
      BY <2>1, <3>1 DEF IInv, TypeInv, MachineInv, StackInv, FramesInv, OpenInv, FrameSet, Entries
    <3>. QED
      BY <2>1, <3>1, <3>2 DEF IInv, TypeInv, IsString
  <2>3. RunInv'
    <3>1. \A o : UpvalueFits(o)' <=> UpvalueFits(o)
      BY <2>1 DEF UpvalueFits, IsOpen, Upvalues, Addresses
    <3>. QED
      BY <2>1, <3>1 DEF IInv, RunInv, Addresses
  <2>4. Unique'
    BY <2>1 DEF IInv, Unique, StringsUnique, Strings, Values, IsString, Addresses
  <2>5. MarkInv'
    <3>1. Roots' = Roots /\ Marks' = Marks /\ Addresses' = Addresses
      BY <2>1 DEF Roots, OnStack, Marks, FunctionOf, Addresses
    <3>2. \A S : Closed(S)' <=> Closed(S)
      BY <2>1 DEF Closed
    <3>3. \A o : LeadsTo(o)' = LeadsTo(o)
      BY <2>1 DEF LeadsTo, IsOpen, SlotOf, NextOf, Place
    <3>. QED
      BY <2>1, <3>1, <3>2, <3>3 DEF IInv, MarkInv
  <2>6. ListInv' /\ SweepInv'
    BY <2>1 DEF IInv, ListInv, SweepInv, Left, Addresses
  <2>. QED
    BY <2>2, <2>3, <2>4, <2>5, <2>6 DEF IInv
<1>. QED
  BY <1>1, <1>2, <1>3, <1>4 DEF Next

LEMMA Invariance == Spec => []IInv
<1>1. Init => IInv
  BY InitInv
<1>2. IInv /\ [Next]_vars => IInv'
  BY NextInv
<1>. QED
  BY <1>1, <1>2, PTL DEF Spec

\* Every pointer of every object, and of the VM, is to an object; frames hold
\* closures and the table holds strings (vm.h, vm_value.h), freed or not.
THEOREM TypeCorrect == Spec => []TypeOK
<1>1. IInv => TypeOK
  BY InvTypeOK DEF IInv
<1>. QED
  BY <1>1, Invariance, PTL

\* As long as a program does not use the path of its file as a string, which
\* import cuts in place (vm_builtins.c:377), no two strings it has are equal, in
\* any phase (vm_copy_string, vm_concat_strings, vm_find_string).
THEOREM EqualStringsAreOne == ASSUME ~PathIsText PROVE Spec => []StringsUnique
<1>1. IInv => StringsUnique
  BY DEF IInv, Unique
<1>. QED
  BY <1>1, Invariance, PTL

\* vm_mark_object marks what the roots lead to and nothing else, whatever cycles
\* there are and whichever closures share their variables. The pointer of an upvalue
\* to the next one counts, open or not (vm_gc.c:90).
THEOREM MarkingIsExact == Spec => []MarkingExact
<1>1. IInv => MarkingExact
  <2>. SUFFICES ASSUME IInv, phase = "cleaning"
                PROVE  /\ ItemsOf(Roots) \subseteq Marks /\ Closed(Marks)
                       /\ \A garbage \in SUBSET (Marks \ ItemsOf(Roots)) :
                              Closed(Marks \ garbage) => garbage = {}
    BY DEF MarkingExact
  <2>1. /\ pending = <<>> /\ ItemsOf(pending) = {}
        /\ ItemsOf(Roots) \subseteq Marks \cup ItemsOf(pending)
        /\ \A o \in Marks : ItemsOf(LeadsTo(o)) \subseteq Marks \cup ItemsOf(pending)
        /\ \A S \in SUBSET Addresses :
              ItemsOf(Roots) \subseteq S /\ Closed(S) => Marks \cup ItemsOf(pending) \subseteq S
    BY ItemsOfEmpty DEF IInv, MarkInv
  <2>2. ItemsOf(Roots) \subseteq Marks /\ Closed(Marks)
    <3>1. TypeInv /\ building = Nil /\ Marks \in SUBSET Addresses
      BY NotBuilding DEF IInv, Marks
    <3>. QED
      BY <2>1, <3>1, ClosedByLeads
  <2>3. ASSUME NEW garbage \in SUBSET (Marks \ ItemsOf(Roots)), Closed(Marks \ garbage)
        PROVE  garbage = {}
    <3>1. /\ Marks \ garbage \in SUBSET Addresses
          /\ ItemsOf(Roots) \subseteq Marks \ garbage
      BY <2>2, <2>3 DEF Marks
    <3>2. Marks \subseteq Marks \ garbage
      BY <2>1, <2>3, <3>1
    <3>. QED
      BY <2>3, <3>2
  <2>. QED
    BY <2>2, <2>3
<1>. QED
  BY <1>1, Invariance, PTL

\* vm_sweep_objects unlinks every object it frees, and no other: what is left can
\* be reached from vm.objects all through the sweep.
THEOREM NothingLost == Spec => []NoneLost
<1>1. IInv => NoneLost
  BY DEF IInv, TypeInv, ListInv, NoneLost
<1>. QED
  BY <1>1, Invariance, PTL
=================================================================================
