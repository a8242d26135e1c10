------------------------------ MODULE ObjMapProofs -----------------------------
(***************************************************************************)
(* Proofs about ObjMap, for every set of keys and values, every hash       *)
(* function and every initial capacity.                                    *)
(***************************************************************************)
EXTENDS ObjMap, FiniteSetTheorems, TLAPS

--------------------------------------------------------------------------------
(* Slots: the probe starts at home and wraps around *)

\* The masked hash is an index into the table (vm_map.c:8).
LEMMA HomeInSlots ==
    ASSUME NEW c \in Nat \ {0}, NEW k \in Keys
    PROVE  Home(k, c) \in Slots(c)
<1>1. Hash[k] \in Nat
  BY KeyAssumption
<1>. QED
  BY <1>1 DEF Home, Slots

\* A probe that starts has passed nothing; one that moves on has passed the slot
\* it leaves and what it had passed before (vm_map.c:25).
LEMMA FollowingSlot ==
    ASSUME NEW c \in Nat \ {0}, NEW h \in Slots(c), NEW s \in Slots(c)
    PROVE  /\ Following(s, c) \in Slots(c)
           /\ Passed(h, Following(s, c), c) \subseteq Passed(h, s, c) \cup {s}
           /\ Passed(h, h, c) = {}
<1>1. Following(s, c) = IF s + 1 = c THEN 0 ELSE s + 1
  BY DEF Following, Slots
<1>. QED
  BY <1>1 DEF Passed, Slots

\* Of two slots, one is passed before the other on the way from h.
LEMMA PassedTrichotomy ==
    ASSUME NEW c \in Nat \ {0}, NEW h \in Slots(c), NEW s1 \in Slots(c), NEW s2 \in Slots(c)
    PROVE  s1 = s2 \/ s1 \in Passed(h, s2, c) \/ s2 \in Passed(h, s1, c)
BY DEF Passed, Slots

--------------------------------------------------------------------------------
(* Tables: what the probe's answer means, and what writing to it keeps *)

\* A probe that meets a vacant entry proves the key absent: this is what makes
\* vm_map.c:15-17 right, and why a deleted entry may not become vacant.
LEMMA VacantMeansAbsent ==
    ASSUME NEW c \in Nat \ {0}, NEW t, Table(t, c), Chained(t, c), NEW k \in Keys,
           NEW s, NEW ts, Probing(t, c, k, s, ts), IsVacant(t[s])
    PROVE  \A j \in Slots(c) : t[j].key # k
<1>. SUFFICES ASSUME NEW j \in Slots(c), t[j].key = k
              PROVE  FALSE
  OBVIOUS
<1>1. s \in Slots(c) /\ Home(k, c) \in Slots(c)
  BY HomeInSlots DEF Probing
<1>2. j \in LiveSlots(t, c)
  BY KeyAssumption DEF LiveSlots, IsLive
<1>3. s \notin Passed(Home(k, c), j, c)
  BY <1>2 DEF Chained
<1>4. j \notin Passed(Home(k, c), s, c)
  BY DEF Probing
<1>5. j # s
  BY KeyAssumption DEF IsVacant
<1>. QED
  BY <1>1, <1>3, <1>4, <1>5, PassedTrichotomy

\* Writing key k to an entry that holds k, or to a free one within reach when k
\* is absent, keeps every chain and stores no key twice.
LEMMA StoreKeeps ==
    ASSUME NEW c \in Nat \ {0}, NEW t, Table(t, c), Chained(t, c), Unique(t, c),
           NEW s \in Slots(c), NEW e \in Entry, IsLive(e),
           \A j \in Passed(Home(e.key, c), s, c) : ~IsVacant(t[j]),
           t[s].key = e.key \/ (\A j \in Slots(c) : t[j].key # e.key)
    PROVE  /\ Table([t EXCEPT ![s] = e], c)
           /\ Chained([t EXCEPT ![s] = e], c)
           /\ Unique([t EXCEPT ![s] = e], c)
<1>. DEFINE u == [t EXCEPT ![s] = e]
<1>1. \A j \in Slots(c) : u[j] = IF j = s THEN e ELSE t[j]
  BY DEF Table
<1>2. Table(u, c)
  BY DEF Table
<1>3. \A j \in Slots(c) : ~IsVacant(t[j]) => ~IsVacant(u[j])
  BY <1>1 DEF IsVacant, IsLive
<1>4. Chained(u, c)
  <2>. SUFFICES ASSUME NEW r \in LiveSlots(u, c), NEW j \in Passed(Home(u[r].key, c), r, c)
                PROVE  ~IsVacant(u[j])
    BY DEF Chained
  <2>1. r \in Slots(c) /\ j \in Slots(c)
    BY DEF LiveSlots, Passed
  <2>2. CASE r = s
    BY <1>1, <1>3, <2>1, <2>2
  <2>3. CASE r # s
    <3>1. u[r] = t[r] /\ r \in LiveSlots(t, c)
      BY <1>1, <2>1, <2>3 DEF LiveSlots
    <3>2. ~IsVacant(t[j])
      BY <3>1 DEF Chained
    <3>. QED
      BY <1>3, <2>1, <3>2
  <2>. QED
    BY <2>2, <2>3
<1>5. Unique(u, c)
  <2>. SUFFICES ASSUME NEW s1 \in LiveSlots(u, c), NEW s2 \in LiveSlots(u, c),
                       u[s1].key = u[s2].key
                PROVE  s1 = s2
    BY DEF Unique
  <2>1. s1 \in Slots(c) /\ s2 \in Slots(c) /\ IsLive(u[s1]) /\ IsLive(u[s2])
    BY DEF LiveSlots
  <2>2. CASE s1 # s /\ s2 # s
    <3>1. s1 \in LiveSlots(t, c) /\ s2 \in LiveSlots(t, c) /\ t[s1].key = t[s2].key
      BY <1>1, <2>1, <2>2 DEF LiveSlots
    <3>. QED
      BY <3>1 DEF Unique
  <2>3. ASSUME NEW r \in LiveSlots(u, c), r # s, u[r].key = e.key PROVE FALSE
    <3>1. r \in LiveSlots(t, c) /\ t[r].key = e.key
      BY <1>1, <2>3 DEF LiveSlots
    <3>2. t[s].key = e.key /\ s \in LiveSlots(t, c)
      BY <3>1 DEF LiveSlots, IsLive
    <3>. QED
      BY <3>1, <3>2, <2>3 DEF Unique
  <2>. QED
    BY <1>1, <2>1, <2>2, <2>3
<1>. QED
  BY <1>2, <1>4, <1>5

\* Turning an entry into a tombstone keeps every chain (vm_map.c:139-140).
LEMMA TombstoneKeeps ==
    ASSUME NEW c \in Nat, NEW t, Table(t, c), Chained(t, c), Unique(t, c), NEW s \in Slots(c)
    PROVE  /\ Table([t EXCEPT ![s] = Tombstone], c)
           /\ Chained([t EXCEPT ![s] = Tombstone], c)
           /\ Unique([t EXCEPT ![s] = Tombstone], c)
<1>. DEFINE u == [t EXCEPT ![s] = Tombstone]
<1>1. \A j \in Slots(c) : u[j] = IF j = s THEN Tombstone ELSE t[j]
  BY DEF Table
<1>2. Tombstone \in Entry /\ ~IsVacant(Tombstone) /\ ~IsLive(Tombstone)
  BY ValueAssumption DEF Entry, Tombstone, IsVacant, IsLive
<1>3. LiveSlots(u, c) \subseteq LiveSlots(t, c)
  BY <1>1, <1>2 DEF LiveSlots
<1>4. \A j \in Slots(c) : ~IsVacant(t[j]) => ~IsVacant(u[j])
  BY <1>1, <1>2
<1>5. \A j \in LiveSlots(u, c) : u[j] = t[j]
  BY <1>1, <1>2 DEF LiveSlots
<1>6. Table(u, c)
  BY <1>2 DEF Table
<1>7. Chained(u, c)
  BY <1>3, <1>4, <1>5 DEF Chained, Passed
<1>8. Unique(u, c)
  BY <1>3, <1>5 DEF Unique
<1>. QED
  BY <1>6, <1>7, <1>8

\* The table a resize starts from is vacant everywhere (vm_map.c:78-81).
LEMMA VacantTableIsFine ==
    ASSUME NEW c \in Nat
    PROVE  /\ Table(VacantTable(c), c)
           /\ Chained(VacantTable(c), c)
           /\ Unique(VacantTable(c), c)
           /\ LiveSlots(VacantTable(c), c) = {}
BY ValueAssumption DEF Table, VacantTable, Chained, Unique, LiveSlots, IsLive, Vacant, Entry

--------------------------------------------------------------------------------
(* The probe loop *)

\* A probe starts at home, having passed nothing.
LEMMA ProbeStarts ==
    ASSUME NEW c \in Nat \ {0}, NEW t, NEW k \in Keys
    PROVE  Probing(t, c, k, Home(k, c), NoSlot)
BY HomeInSlots, FollowingSlot DEF Probing

\* One more turn of the loop (vm_map.c:18-25).
LEMMA ProbeMoves ==
    ASSUME NEW c \in Nat \ {0}, NEW t, NEW k \in Keys, NEW s, NEW ts,
           Probing(t, c, k, s, ts), ~IsVacant(t[s]), t[s].key # k
    PROVE  Probing(t, c, k, Following(s, c),
                   IF ts = NoSlot /\ IsTombstone(t[s]) THEN s ELSE ts)
<1>1. s \in Slots(c) /\ Home(k, c) \in Slots(c)
  BY HomeInSlots DEF Probing
<1>2. /\ Following(s, c) \in Slots(c)
      /\ Passed(Home(k, c), Following(s, c), c) \subseteq Passed(Home(k, c), s, c) \cup {s}
  BY <1>1, FollowingSlot
<1>. QED
  BY <1>1, <1>2 DEF Probing

\* What the loop returns (vm_map.c:17 and 22): the entry of k, or a free entry
\* that k can be reached at, and then k is nowhere in the table.
LEMMA ProbeFinds ==
    ASSUME NEW c \in Nat \ {0}, NEW t, Table(t, c), Chained(t, c), NEW k \in Keys,
           NEW s, NEW ts, Probing(t, c, k, s, ts), IsVacant(t[s]) \/ t[s].key = k,
           NEW f, f = IF t[s].key # k /\ ts # NoSlot THEN ts ELSE s
    PROVE  /\ f \in Slots(c)
           /\ \A j \in Passed(Home(k, c), f, c) : ~IsVacant(t[j])
           /\ \/ t[f].key = k /\ IsLive(t[f])
              \/ ~IsLive(t[f]) /\ \A j \in Slots(c) : t[j].key # k
<1>1. CASE t[s].key = k
  BY <1>1, KeyAssumption DEF Probing, IsLive
<1>2. CASE t[s].key # k
  <2>1. \A j \in Slots(c) : t[j].key # k
    BY <1>2, VacantMeansAbsent
  <2>. QED
    BY <1>2, <2>1 DEF Probing, IsLive, IsVacant, IsTombstone
<1>. QED
  BY <1>1, <1>2

--------------------------------------------------------------------------------
(* The inductive invariant *)

LEMMA GrownCapacity ==
    ASSUME NEW c \in Nat
    PROVE  Grown(c) \in Nat \ {0}
BY CapacityAssumption DEF Grown

LEMMA CallTypes ==
    ASSUME NEW r \in Calls
    PROVE  /\ r.op \in {"insert", "lookup", "delete"}
           /\ r.key \in Keys
           /\ r.op = "insert" => r.value \in Values
           /\ r # NoCall
<1>1. \/ r \in [op : {"insert"}, key : Keys, value : Values]
      \/ r \in [op : {"lookup", "delete"}, key : Keys]
  BY DEF Calls
<1>. QED
  BY <1>1 DEF NoCall

LEMMA InitInv == Init => IInv
<1>. SUFFICES ASSUME Init PROVE IInv
  OBVIOUS
<1>1. TypeOK
  BY VacantTableIsFine DEF Init, TypeOK
<1>. QED
  BY <1>1, VacantTableIsFine
  DEF Init, IInv, ProbeChain, UniqueKeys, InCall, Moved

(* One lemma per action, or per group of actions that disturb the same state *)

LEMMA CallInv ==
    ASSUME IInv, NEW r \in Calls, Call(r)
    PROVE  IInv'
<1>1. TypeOK'
  BY CallTypes DEF IInv, TypeOK, Call, map, probe, rehash, Table
<1>. QED
  BY <1>1 DEF IInv, ProbeChain, UniqueKeys, InCall, Moved, Call, map, probe, rehash

LEMMA BeginProbeInv ==
    ASSUME IInv, BeginProbe
    PROVE  IInv'
<1>. USE DEF IInv
<1>1. call \in Calls /\ call.key \in Keys
  BY CallTypes DEF TypeOK, BeginProbe
<1>2. capacity \in Nat \ {0}
  BY DEF TypeOK, InCall, BeginProbe, Overloaded
<1>3. Home(call.key, capacity) \in Slots(capacity)
  BY <1>1, <1>2, HomeInSlots
<1>4. TypeOK'
  BY <1>3 DEF TypeOK, BeginProbe, ProbeFrom, map, rehash, Table, Slots
<1>5. Probing(entries, capacity, call.key, index', tombstone')
  BY <1>1, <1>2, ProbeStarts DEF BeginProbe, ProbeFrom
<1>6. InCall'
  BY <1>5 DEF InCall, BeginProbe, map, rehash
<1>. QED
  BY <1>4, <1>6 DEF ProbeChain, UniqueKeys, Moved, BeginProbe, map, rehash

LEMMA ProbeStepInv ==
    ASSUME IInv, ProbeStep
    PROVE  IInv'
<1>. USE DEF IInv
<1>1. call \in Calls /\ call.key \in Keys
  BY CallTypes DEF TypeOK, ProbeStep
<1>2. capacity \in Nat \ {0} /\ index \in Slots(capacity)
  BY DEF TypeOK, InCall, ProbeStep, Probing, Slots
<1>3. Probing(entries, capacity, call.key, index', tombstone')
  BY <1>1, <1>2, ProbeMoves DEF InCall, ProbeStep, ProbeOn, ProbeEnds
<1>4. TypeOK'
  BY <1>2, <1>3 DEF TypeOK, ProbeStep, ProbeOn, map, rehash, Table, Slots, Probing
<1>5. InCall'
  BY <1>3 DEF InCall, ProbeStep, map, rehash
<1>. QED
  BY <1>4, <1>5 DEF ProbeChain, UniqueKeys, Moved, ProbeStep, map, rehash

LEMMA GrowInv ==
    ASSUME IInv, Grow
    PROVE  IInv'
<1>. USE DEF IInv
<1>1. freshCapacity' \in Nat \ {0} /\ fresh' = VacantTable(freshCapacity')
  BY GrownCapacity DEF TypeOK, Grow
<1>2. /\ Table(fresh', freshCapacity')
      /\ Chained(fresh', freshCapacity')
      /\ Unique(fresh', freshCapacity')
      /\ LiveSlots(fresh', freshCapacity') = {}
  BY <1>1, VacantTableIsFine
<1>3. TypeOK'
  BY <1>1, <1>2 DEF TypeOK, Grow, probe, Table
<1>4. Moved'
  BY <1>2 DEF Moved, Grow, Slots
<1>. QED
  BY <1>1, <1>2, <1>3, <1>4 DEF ProbeChain, UniqueKeys, InCall, Grow, probe

LEMMA RehashSkipInv ==
    ASSUME IInv, RehashSkip
    PROVE  IInv'
<1>. USE DEF IInv
<1>1. i \in Nat /\ i < capacity /\ i' = i + 1 /\ ~IsLive(entries[i])
  BY DEF TypeOK, RehashSkip
<1>2. TypeOK'
  BY <1>1 DEF TypeOK, RehashSkip, map, probe, Table
<1>3. Slots(i') = Slots(i) \cup {i}
  BY <1>1 DEF Slots
<1>4. Moved'
  BY <1>1, <1>3 DEF Moved, RehashSkip, map
<1>. QED
  BY <1>2, <1>4 DEF ProbeChain, UniqueKeys, InCall, RehashSkip, map, probe

LEMMA RehashEntryInv ==
    ASSUME IInv, RehashEntry
    PROVE  IInv'
<1>. USE DEF IInv
<1>1. i \in Slots(capacity) /\ entries[i].key \in Keys
  BY DEF TypeOK, RehashEntry, Slots, Table, IsLive, Entry
<1>2. freshCapacity \in Nat \ {0}
  BY DEF TypeOK, InCall, RehashEntry
<1>3. Home(entries[i].key, freshCapacity) \in Slots(freshCapacity)
  BY <1>1, <1>2, HomeInSlots
<1>4. TypeOK'
  BY <1>1, <1>3 DEF TypeOK, RehashEntry, ProbeFrom, map, rehash, Table, Slots
<1>5. Probing(fresh, freshCapacity, entries[i].key, index', tombstone')
  BY <1>1, <1>2, ProbeStarts DEF RehashEntry, ProbeFrom
<1>6. InCall'
  BY <1>5 DEF InCall, RehashEntry, map, rehash
<1>. QED
  BY <1>4, <1>6 DEF ProbeChain, UniqueKeys, Moved, RehashEntry, map, rehash

LEMMA RehashProbeStepInv ==
    ASSUME IInv, RehashProbeStep
    PROVE  IInv'
<1>. USE DEF IInv
<1>1. i \in Slots(capacity) /\ entries[i].key \in Keys
  BY DEF TypeOK, InCall, RehashProbeStep, Slots, Table, IsLive, Entry
<1>2. freshCapacity \in Nat \ {0} /\ index \in Slots(freshCapacity)
  BY DEF TypeOK, InCall, RehashProbeStep, Probing
<1>3. Probing(fresh, freshCapacity, entries[i].key, index', tombstone')
  BY <1>1, <1>2, ProbeMoves DEF InCall, RehashProbeStep, ProbeOn, ProbeEnds
<1>4. TypeOK'
  BY <1>2, <1>3 DEF TypeOK, RehashProbeStep, ProbeOn, map, rehash, Table, Slots, Probing
<1>5. InCall'
  BY <1>3 DEF InCall, RehashProbeStep, map, rehash
<1>. QED
  BY <1>4, <1>5 DEF ProbeChain, UniqueKeys, Moved, RehashProbeStep, map, rehash

\* The entry that RehashStore writes to is free: the key it moves is in no other
\* entry of the old table, so it is not in the new one yet.
LEMMA RehashFinds ==
    ASSUME IInv, RehashStore
    PROVE  LET f == Found(fresh, entries[i].key) IN
           /\ i \in Slots(capacity) /\ entries[i] \in Entry /\ IsLive(entries[i])
           /\ freshCapacity \in Nat \ {0}
           /\ f \in Slots(freshCapacity) /\ ~IsLive(fresh[f])
           /\ \A j \in Passed(Home(entries[i].key, freshCapacity), f, freshCapacity) :
                ~IsVacant(fresh[j])
           /\ \A j \in Slots(freshCapacity) : fresh[j].key # entries[i].key
<1>. USE DEF IInv
<1>. DEFINE k == entries[i].key
            f == Found(fresh, k)
<1>1. /\ i \in Slots(capacity) /\ entries[i] \in Entry /\ IsLive(entries[i])
      /\ k \in Keys
  BY DEF TypeOK, InCall, RehashStore, Slots, Table, IsLive, Entry
<1>2. freshCapacity \in Nat \ {0}
  BY DEF TypeOK, InCall, RehashStore
<1>3. /\ Table(fresh, freshCapacity) /\ Chained(fresh, freshCapacity)
      /\ Probing(fresh, freshCapacity, k, index, tombstone)
      /\ IsVacant(fresh[index]) \/ fresh[index].key = k
  BY DEF TypeOK, ProbeChain, InCall, RehashStore, ProbeEnds
<1>4. f = IF fresh[index].key # k /\ tombstone # NoSlot THEN tombstone ELSE index
  BY DEF Found
<1>5. /\ f \in Slots(freshCapacity)
      /\ \A j \in Passed(Home(k, freshCapacity), f, freshCapacity) : ~IsVacant(fresh[j])
      /\ \/ fresh[f].key = k /\ IsLive(fresh[f])
         \/ ~IsLive(fresh[f]) /\ \A j \in Slots(freshCapacity) : fresh[j].key # k
  BY <1>1, <1>2, <1>3, <1>4, ProbeFinds
<1>6. ~(fresh[f].key = k /\ IsLive(fresh[f]))
  <2>. SUFFICES ASSUME fresh[f].key = k, IsLive(fresh[f]) PROVE FALSE
    OBVIOUS
  <2>1. PICK j \in Slots(i) : entries[j] = fresh[f]
    BY <1>5 DEF Moved, RehashStore, LiveSlots
  <2>2. j \in LiveSlots(entries, capacity) /\ i \in LiveSlots(entries, capacity) /\ j # i
    BY <1>1, <2>1 DEF Slots, LiveSlots, TypeOK
  <2>. QED
    BY <2>1, <2>2 DEF UniqueKeys, Unique
<1>. QED
  BY <1>1, <1>2, <1>5, <1>6

LEMMA RehashStoreInv ==
    ASSUME IInv, RehashStore
    PROVE  IInv'
<1>. USE DEF IInv
<1>. DEFINE f == Found(fresh, entries[i].key)
<1>1. /\ i \in Slots(capacity) /\ entries[i] \in Entry /\ IsLive(entries[i])
      /\ freshCapacity \in Nat \ {0}
      /\ f \in Slots(freshCapacity) /\ ~IsLive(fresh[f])
      /\ \A j \in Passed(Home(entries[i].key, freshCapacity), f, freshCapacity) :
           ~IsVacant(fresh[j])
      /\ \A j \in Slots(freshCapacity) : fresh[j].key # entries[i].key
  BY RehashFinds
<1>2. fresh' = [fresh EXCEPT ![f] = entries[i]]
  BY DEF RehashStore
<1>3. /\ Table(fresh, freshCapacity) /\ Chained(fresh, freshCapacity)
      /\ Unique(fresh, freshCapacity)
  BY DEF TypeOK, ProbeChain, UniqueKeys
<1>4. /\ Table(fresh', freshCapacity)
      /\ Chained(fresh', freshCapacity)
      /\ Unique(fresh', freshCapacity)
  <2>. HIDE DEF f
  <2>. QED
    BY <1>1, <1>2, <1>3, StoreKeeps
<1>5. i' = i + 1 /\ Slots(i') = Slots(i) \cup {i}
  BY <1>1 DEF RehashStore, Slots
<1>6. TypeOK'
  BY <1>1, <1>4, <1>5 DEF TypeOK, RehashStore, ProbeOver, Table, Slots
<1>7. Moved'
  <2>1. \A s \in Slots(freshCapacity) : fresh'[s] = IF s = f THEN entries[i] ELSE fresh[s]
    BY <1>2, <1>3 DEF Table
  <2>2. /\ \A s \in LiveSlots(fresh, freshCapacity) : \E j \in Slots(i) : entries[j] = fresh[s]
        /\ \A j \in Slots(i) : IsLive(entries[j]) =>
              \E s \in Slots(freshCapacity) : fresh[s] = entries[j]
    BY DEF Moved, RehashStore
  <2>3. \A s \in LiveSlots(fresh', freshCapacity) : \E j \in Slots(i') : entries[j] = fresh'[s]
    BY <1>5, <2>1, <2>2 DEF LiveSlots
  <2>4. ASSUME NEW j \in Slots(i'), IsLive(entries[j])
        PROVE  \E s \in Slots(freshCapacity) : fresh'[s] = entries[j]
    <3>1. CASE j = i
      BY <1>1, <2>1, <3>1
    <3>2. CASE j # i
      <4>1. PICK s \in Slots(freshCapacity) : fresh[s] = entries[j]
        BY <1>5, <2>2, <2>4, <3>2
      <4>2. s # f
        BY <1>1, <2>4, <4>1
      <4>. QED
        BY <2>1, <4>1, <4>2
    <3>. QED
      BY <3>1, <3>2
  <2>5. entries' = entries /\ freshCapacity' = freshCapacity
    BY DEF RehashStore
  <2>. HIDE DEF f
  <2>. QED
    BY <2>3, <2>4, <2>5 DEF Moved
<1>8. InCall'
  BY <1>1 DEF InCall, RehashStore, Slots
<1>. QED
  BY <1>4, <1>6, <1>7, <1>8 DEF ProbeChain, UniqueKeys, RehashStore

LEMMA SwapInv ==
    ASSUME IInv, Swap
    PROVE  IInv'
<1>. USE DEF IInv
<1>1. call \in Calls /\ call.key \in Keys
  BY CallTypes DEF TypeOK, Swap
<1>2. /\ freshCapacity \in Nat \ {0} /\ call.op = "insert"
      /\ capacity' = freshCapacity /\ entries' = fresh
  BY DEF TypeOK, InCall, Swap
<1>3. Home(call.key, freshCapacity) \in Slots(freshCapacity)
  BY <1>1, <1>2, HomeInSlots
<1>4. TypeOK'
  BY <1>2, <1>3, VacantTableIsFine DEF TypeOK, Swap, ProbeFrom, Slots
<1>5. Probing(fresh, freshCapacity, call.key, index', tombstone')
  BY <1>1, <1>2, ProbeStarts DEF Swap, ProbeFrom
<1>6. InCall'
  BY <1>2, <1>5 DEF InCall, Swap
<1>. QED
  BY <1>4, <1>6, VacantTableIsFine DEF ProbeChain, UniqueKeys, Moved, Swap

\* The entry a probe in the table itself returns.
LEMMA CallFinds ==
    ASSUME IInv, pc = "probe", ProbeEnds(entries, call.key)
    PROVE  LET f == Found(entries, call.key) IN
           /\ call \in Calls /\ call.key \in Keys
           /\ capacity \in Nat \ {0}
           /\ f \in Slots(capacity)
           /\ \A j \in Passed(Home(call.key, capacity), f, capacity) : ~IsVacant(entries[j])
           /\ \/ entries[f].key = call.key /\ IsLive(entries[f])
              \/ ~IsLive(entries[f]) /\ \A j \in Slots(capacity) : entries[j].key # call.key
<1>. USE DEF IInv
<1>. DEFINE f == Found(entries, call.key)
<1>1. call \in Calls /\ call.key \in Keys
  BY CallTypes DEF TypeOK
<1>2. capacity \in Nat \ {0}
  BY DEF TypeOK, InCall, Probing, Slots
<1>3. /\ Table(entries, capacity) /\ Chained(entries, capacity)
      /\ Probing(entries, capacity, call.key, index, tombstone)
      /\ IsVacant(entries[index]) \/ entries[index].key = call.key
  BY DEF TypeOK, ProbeChain, InCall, ProbeEnds
<1>4. f = IF entries[index].key # call.key /\ tombstone # NoSlot THEN tombstone ELSE index
  BY DEF Found
<1>. HIDE DEF f
<1>. QED
  BY <1>1, <1>2, <1>3, <1>4, ProbeFinds DEF f

LEMMA InsertStoreInv ==
    ASSUME IInv, InsertStore
    PROVE  IInv'
<1>. USE DEF IInv
<1>. DEFINE f == Found(entries, call.key)
            e == [key |-> call.key, value |-> call.value]
<1>1. /\ call \in Calls /\ call.key \in Keys
      /\ capacity \in Nat \ {0}
      /\ f \in Slots(capacity)
      /\ \A j \in Passed(Home(call.key, capacity), f, capacity) : ~IsVacant(entries[j])
      /\ \/ entries[f].key = call.key
         \/ \A j \in Slots(capacity) : entries[j].key # call.key
  BY CallFinds DEF InsertStore
<1>2. e \in Entry /\ IsLive(e) /\ e.key = call.key
  BY <1>1, CallTypes, KeyAssumption DEF InsertStore, Entry, IsLive
<1>3. entries' = [entries EXCEPT ![f] = e]
  BY DEF InsertStore
<1>4. /\ Table(entries, capacity) /\ Chained(entries, capacity) /\ Unique(entries, capacity)
  BY DEF TypeOK, ProbeChain, UniqueKeys
<1>5. /\ Table(entries', capacity) /\ Chained(entries', capacity) /\ Unique(entries', capacity)
  <2>. HIDE DEF f, e
  <2>. QED
    BY <1>1, <1>2, <1>3, <1>4, StoreKeeps
<1>6. TypeOK'
  BY <1>5 DEF TypeOK, InsertStore, Return, ProbeOver, rehash
<1>7. InCall'
  BY <1>1 DEF InCall, InsertStore, Return, rehash
<1>. QED
  BY <1>5, <1>6, <1>7 DEF ProbeChain, UniqueKeys, Moved, InsertStore, Return, rehash

LEMMA DeleteStoreInv ==
    ASSUME IInv, DeleteStore
    PROVE  IInv'
<1>. USE DEF IInv
<1>. DEFINE f == Found(entries, call.key)
<1>1. capacity \in Nat \ {0} /\ f \in Slots(capacity)
  BY CallFinds DEF DeleteStore
<1>2. /\ Table(entries, capacity) /\ Chained(entries, capacity) /\ Unique(entries, capacity)
  BY DEF TypeOK, ProbeChain, UniqueKeys
<1>3. entries' = [entries EXCEPT ![f] = Tombstone]
  BY DEF DeleteStore
<1>4. /\ Table(entries', capacity) /\ Chained(entries', capacity) /\ Unique(entries', capacity)
  <2>. HIDE DEF f
  <2>. QED
    BY <1>1, <1>2, <1>3, TombstoneKeeps
<1>5. count \in Nat \ {0}
  BY DEF TypeOK, InCall, DeleteStore
<1>6. TypeOK'
  BY <1>4, <1>5 DEF TypeOK, DeleteStore, Return, ProbeOver, rehash
<1>7. InCall'
  BY <1>1 DEF InCall, DeleteStore, Return, rehash
<1>. QED
  BY <1>4, <1>6, <1>7 DEF ProbeChain, UniqueKeys, Moved, DeleteStore, Return, rehash

\* Calls that only answer.
LEMMA AnswerInv ==
    ASSUME IInv, CountIsZero \/ LookupReply \/ DeleteMiss
    PROVE  IInv'
<1>. USE DEF IInv
<1>1. /\ UNCHANGED <<entries, capacity, count, fresh, freshCapacity, i>>
      /\ pc' = "idle" /\ call' = NoCall /\ index' = 0 /\ tombstone' = NoSlot
      /\ pc \in {"called", "probe"}
  BY DEF CountIsZero, LookupReply, DeleteMiss, Return, ProbeOver, map, rehash
<1>2. reply' \in [ok : BOOLEAN, value : Values \cup {NoValue}]
  <2>1. CASE CountIsZero \/ DeleteMiss
    <3>1. reply' = [ok |-> FALSE, value |-> NoValue]
      BY <2>1 DEF CountIsZero, DeleteMiss, Return
    <3>. QED
      BY <3>1
  <2>2. CASE LookupReply
    <3>1. Found(entries, call.key) \in Slots(capacity)
      BY <2>2, CallFinds DEF LookupReply
    <3>2. entries[Found(entries, call.key)].value \in Values
      BY <3>1 DEF TypeOK, Table, Entry
    <3>3. \/ reply' = [ok |-> TRUE, value |-> entries[Found(entries, call.key)].value]
          \/ reply' = [ok |-> FALSE, value |-> NoValue]
      BY <2>2 DEF LookupReply, Return
    <3>4. [ok |-> TRUE, value |-> entries[Found(entries, call.key)].value]
             \in [ok : BOOLEAN, value : Values \cup {NoValue}]
      BY <3>2
    <3>5. [ok |-> FALSE, value |-> NoValue] \in [ok : BOOLEAN, value : Values \cup {NoValue}]
      OBVIOUS
    <3>. QED
      BY <3>3, <3>4, <3>5
  <2>. QED
    BY <2>1, <2>2
<1>3. TypeOK'
  BY <1>1, <1>2 DEF TypeOK, Table
<1>. QED
  BY <1>1, <1>3 DEF ProbeChain, UniqueKeys, InCall, Moved

LEMMA StutterInv ==
    ASSUME IInv, UNCHANGED vars
    PROVE  IInv'
BY DEF vars, map, probe, rehash, IInv, TypeOK, ProbeChain, UniqueKeys, InCall, Moved

LEMMA NextInv ==
    ASSUME IInv, [Next]_vars
    PROVE  IInv'
<1>1. ASSUME NEW r \in Calls, Call(r) PROVE IInv'
  BY <1>1, CallInv
<1>2. CASE CountIsZero \/ LookupReply \/ DeleteMiss
  BY <1>2, AnswerInv
<1>3. CASE BeginProbe
  BY <1>3, BeginProbeInv
<1>4. CASE ProbeStep
  BY <1>4, ProbeStepInv
<1>5. CASE Adjust
  BY <1>5, GrowInv, RehashSkipInv, RehashEntryInv, RehashProbeStepInv, RehashStoreInv, SwapInv
  DEF Adjust
<1>6. CASE InsertStore
  BY <1>6, InsertStoreInv
<1>7. CASE DeleteStore
  BY <1>7, DeleteStoreInv
<1>8. CASE UNCHANGED vars
  BY <1>8, StutterInv
<1>. QED
  BY <1>1, <1>2, <1>3, <1>4, <1>5, <1>6, <1>7, <1>8 DEF Next, Step

\* The inductive invariant holds of every execution, deletions included.
THEOREM Invariance == Spec => []IInv
<1>. QED
  BY InitInv, NextInv, PTL DEF Spec

\* TypeOK: the locals of the loops never leave the table they index.
THEOREM TypeCorrect == Spec => []TypeOK
BY Invariance, PTL DEF IInv

\* ProbeChain: whatever is inserted, overwritten, deleted or moved by a resize,
\* a key that is stored can be reached by the probe of vm_map.c:6-27.
THEOREM KeysReachable == Spec => []ProbeChain
BY Invariance, PTL DEF IInv

\* UniqueKeys: no key is stored twice (vm_map.c:116-125).
THEOREM KeysUnique == Spec => []UniqueKeys
BY Invariance, PTL DEF IInv

--------------------------------------------------------------------------------
(* Counting, when nothing is deleted *)

LEMMA SlotsFinite ==
    ASSUME NEW c \in Nat
    PROVE  IsFiniteSet(Slots(c)) /\ Cardinality(Slots(c)) = c
BY FS_Interval DEF Slots

LEMMA LiveSlotsFinite ==
    ASSUME NEW c \in Nat, NEW t
    PROVE  /\ IsFiniteSet(LiveSlots(t, c))
           /\ Cardinality(LiveSlots(t, c)) \in Nat
           /\ Cardinality(LiveSlots(t, c)) <= c
<1>1. LiveSlots(t, c) \subseteq Slots(c)
  BY DEF LiveSlots
<1>. QED
  BY <1>1, SlotsFinite, FS_Subset, FS_CardinalityType

\* A table without tombstones that is not full has a vacant entry.
LEMMA NotFullHasVacancy ==
    ASSUME NEW c \in Nat, NEW t, \A s \in Slots(c) : ~IsTombstone(t[s]),
           Cardinality(LiveSlots(t, c)) < c
    PROVE  \E s \in Slots(c) : IsVacant(t[s])
<1>1. LiveSlots(t, c) \subseteq Slots(c)
  BY DEF LiveSlots
<1>2. LiveSlots(t, c) # Slots(c)
  BY SlotsFinite, LiveSlotsFinite
<1>3. PICK s \in Slots(c) : s \notin LiveSlots(t, c)
  BY <1>1, <1>2
<1>. QED
  BY <1>3 DEF LiveSlots, IsLive, IsVacant, IsTombstone

\* Writing a live entry to a free slot adds one to the number of live slots.
LEMMA StoreCounts ==
    ASSUME NEW c \in Nat, NEW t, Table(t, c), NEW s \in Slots(c), NEW e, IsLive(e),
           \A j \in Slots(c) : ~IsTombstone(t[j])
    PROVE  LET u == [t EXCEPT ![s] = e] IN
           /\ \A j \in Slots(c) : ~IsTombstone(u[j])
           /\ IsLive(t[s]) => LiveSlots(u, c) = LiveSlots(t, c)
           /\ ~IsLive(t[s]) =>
                Cardinality(LiveSlots(u, c)) = Cardinality(LiveSlots(t, c)) + 1
<1>. DEFINE u == [t EXCEPT ![s] = e]
<1>1. \A j \in Slots(c) : u[j] = IF j = s THEN e ELSE t[j]
  BY DEF Table
<1>2. \A j \in Slots(c) : ~IsTombstone(u[j])
  BY <1>1 DEF IsTombstone, IsLive
<1>3. LiveSlots(u, c) = LiveSlots(t, c) \cup {s}
  BY <1>1 DEF LiveSlots
<1>4. IsLive(t[s]) => s \in LiveSlots(t, c)
  BY DEF LiveSlots
<1>5. ~IsLive(t[s]) => s \notin LiveSlots(t, c)
  BY DEF LiveSlots
<1>6. Cardinality(LiveSlots(t, c) \cup {s}) =
        IF s \in LiveSlots(t, c) THEN Cardinality(LiveSlots(t, c))
        ELSE Cardinality(LiveSlots(t, c)) + 1
  BY LiveSlotsFinite, FS_AddElement
<1>. QED
  BY <1>2, <1>3, <1>4, <1>5, <1>6

LEMMA InitCounted == Init => CountExact
<1>. SUFFICES ASSUME Init PROVE CountExact
  OBVIOUS
<1>1. LiveSlots(entries, capacity) = {}
  BY VacantTableIsFine DEF Init
<1>2. Slots(capacity) = {} /\ Slots(freshCapacity) = {}
  BY DEF Init, Slots
<1>3. Cardinality(LiveSlots(entries, capacity)) = 0
  BY <1>1, FS_EmptySet
<1>. QED
  BY <1>2, <1>3 DEF Init, CountExact

\* Steps that write to no table.
LEMMA QuietCounted ==
    ASSUME IInv, CountExact, UNCHANGED <<entries, capacity, fresh, freshCapacity>>,
           \/ \E r \in Calls : Call(r)
           \/ CountIsZero \/ BeginProbe \/ ProbeStep \/ LookupReply \/ DeleteMiss
           \/ RehashEntry \/ RehashProbeStep
           \/ UNCHANGED vars
    PROVE  CountExact'
<1>. DEFINE live == Cardinality(LiveSlots(entries, capacity))
<1>1. live' = live
  OBVIOUS
<1>2. live \in Nat /\ count \in Nat /\ capacity \in Nat
  BY LiveSlotsFinite DEF IInv, TypeOK
<1>3. ASSUME pc \in {"idle", "called", "probe"}, pc' \in {"idle", "called", "probe"},
             count' = count,
             pc' = "probe" /\ call'.op = "insert" => 4 * (live + 1) <= 3 * capacity
      PROVE  CountExact'
  BY <1>1, <1>3 DEF CountExact
<1>4. ASSUME pc \in {"rehash", "rehash_probe"}, pc' \in {"rehash", "rehash_probe"},
             count' = count, i' = i
      PROVE  CountExact'
  BY <1>1, <1>4 DEF CountExact
<1>5. CASE \E r \in Calls : Call(r)
  BY <1>3, <1>5 DEF Call, map
<1>6. CASE CountIsZero \/ LookupReply \/ DeleteMiss
  BY <1>3, <1>6 DEF CountIsZero, LookupReply, DeleteMiss, Return, map
<1>7. CASE BeginProbe
  <2>1. call.op = "insert" => 4 * (live + 1) <= 3 * capacity
    BY <1>2, <1>7 DEF BeginProbe, Overloaded, CountExact
  <2>. QED
    BY <1>3, <1>7, <2>1 DEF BeginProbe, map
<1>8. CASE ProbeStep
  BY <1>3, <1>8 DEF ProbeStep, map, CountExact
<1>9. CASE RehashEntry \/ RehashProbeStep
  BY <1>4, <1>9 DEF RehashEntry, RehashProbeStep, map, rehash
<1>10. CASE UNCHANGED vars
  BY <1>10 DEF vars, map, rehash, CountExact
<1>. QED
  BY <1>5, <1>6, <1>7, <1>8, <1>9, <1>10

LEMMA GrowCounted ==
    ASSUME IInv, CountExact, Grow
    PROVE  CountExact'
<1>. DEFINE live == Cardinality(LiveSlots(entries, capacity))
<1>1. live \in Nat /\ capacity \in Nat /\ live' = live
  BY LiveSlotsFinite DEF IInv, TypeOK, Grow
<1>2. /\ freshCapacity' = Grown(capacity) /\ fresh' = VacantTable(Grown(capacity))
      /\ i' = 0 /\ count' = 0 /\ pc' = "rehash"
      /\ entries' = entries /\ capacity' = capacity
  BY DEF Grow
<1>3. Grown(capacity) \in Nat
  BY <1>1, GrownCapacity
<1>4. LiveSlots(fresh', freshCapacity') = {} /\ LiveSlots(entries', i') = {}
  BY <1>2, <1>3, VacantTableIsFine DEF LiveSlots, Slots
<1>5. 4 * (live + 1) <= 3 * Grown(capacity)
  BY <1>1, CapacityAssumption DEF CountExact, Grown
<1>6. \A s \in Slots(freshCapacity') : ~IsTombstone(fresh'[s])
  BY <1>2 DEF VacantTable, Vacant, IsTombstone
<1>7. Cardinality({}) = 0
  BY FS_EmptySet
<1>. QED
  BY <1>1, <1>2, <1>4, <1>5, <1>6, <1>7 DEF CountExact

\* The rehash loop passes one entry.
LEMMA OneMoreSlot ==
    ASSUME NEW n \in Nat, NEW t
    PROVE  Cardinality(LiveSlots(t, n + 1)) =
             IF IsLive(t[n]) THEN Cardinality(LiveSlots(t, n)) + 1
             ELSE Cardinality(LiveSlots(t, n))
<1>1. Slots(n + 1) = Slots(n) \cup {n} /\ n \notin Slots(n)
  BY DEF Slots
<1>2. LiveSlots(t, n + 1) = IF IsLive(t[n]) THEN LiveSlots(t, n) \cup {n} ELSE LiveSlots(t, n)
  BY <1>1 DEF LiveSlots
<1>3. n \notin LiveSlots(t, n)
  BY <1>1 DEF LiveSlots
<1>. QED
  BY <1>2, <1>3, LiveSlotsFinite, FS_AddElement

LEMMA RehashCounted ==
    ASSUME IInv, CountExact, RehashSkip \/ RehashStore
    PROVE  CountExact'
<1>1. i \in Nat /\ i' = i + 1 /\ pc' = "rehash" /\ pc \in {"rehash", "rehash_probe"}
      /\ entries' = entries /\ capacity' = capacity /\ freshCapacity' = freshCapacity
  BY DEF IInv, TypeOK, RehashSkip, RehashStore, map
<1>2. Cardinality(LiveSlots(entries, i')) =
        IF IsLive(entries[i]) THEN Cardinality(LiveSlots(entries, i)) + 1
        ELSE Cardinality(LiveSlots(entries, i))
  BY <1>1, OneMoreSlot
<1>3. CASE RehashSkip
  <2>1. ~IsLive(entries[i]) /\ count' = count /\ fresh' = fresh
    BY <1>3 DEF RehashSkip, map
  <2>. QED
    BY <1>1, <1>2, <2>1 DEF CountExact
<1>4. CASE RehashStore
  <2>. DEFINE f == Found(fresh, entries[i].key)
  <2>1. /\ IsLive(entries[i]) /\ freshCapacity \in Nat
        /\ f \in Slots(freshCapacity) /\ ~IsLive(fresh[f])
    BY <1>4, RehashFinds
  <2>2. fresh' = [fresh EXCEPT ![f] = entries[i]] /\ count' = count + 1
    BY <1>4 DEF RehashStore
  <2>3. Table(fresh, freshCapacity) /\ \A s \in Slots(freshCapacity) : ~IsTombstone(fresh[s])
    BY DEF IInv, TypeOK, CountExact
  <2>4. /\ Cardinality(LiveSlots(fresh', freshCapacity))
             = Cardinality(LiveSlots(fresh, freshCapacity)) + 1
        /\ \A s \in Slots(freshCapacity) : ~IsTombstone(fresh'[s])
    <3>. HIDE DEF f
    <3>. QED
      BY <2>1, <2>2, <2>3, StoreCounts
  <2>. HIDE DEF f
  <2>. QED
    BY <1>1, <1>2, <2>1, <2>2, <2>4 DEF CountExact
<1>. QED
  BY <1>3, <1>4

LEMMA SwapCounted ==
    ASSUME IInv, CountExact, Swap
    PROVE  CountExact'
<1>1. /\ entries' = fresh /\ capacity' = freshCapacity /\ freshCapacity' = 0
      /\ pc' = "probe" /\ pc = "rehash" /\ i = capacity /\ count' = count
  BY DEF Swap
<1>2. Slots(freshCapacity') = {}
  BY <1>1 DEF Slots
<1>3. freshCapacity \in Nat /\ count \in Nat
  BY DEF IInv, TypeOK
<1>. QED
  BY <1>1, <1>2, <1>3 DEF CountExact

LEMMA InsertCounted ==
    ASSUME IInv, CountExact, InsertStore
    PROVE  CountExact'
<1>. DEFINE f == Found(entries, call.key)
            e == [key |-> call.key, value |-> call.value]
            live == Cardinality(LiveSlots(entries, capacity))
<1>1. call.key \in Keys /\ capacity \in Nat /\ f \in Slots(capacity)
  BY CallFinds DEF InsertStore
<1>2. IsLive(e)
  BY <1>1, KeyAssumption DEF IsLive
<1>3. /\ entries' = [entries EXCEPT ![f] = e]
      /\ count' = IF IsVacant(entries[f]) THEN count + 1 ELSE count
      /\ capacity' = capacity /\ freshCapacity' = freshCapacity /\ fresh' = fresh
      /\ pc' = "idle" /\ pc = "probe" /\ call.op = "insert"
  BY DEF InsertStore, Return, rehash
<1>4. Table(entries, capacity) /\ \A s \in Slots(capacity) : ~IsTombstone(entries[s])
  BY DEF IInv, TypeOK, CountExact
<1>5. IsVacant(entries[f]) <=> ~IsLive(entries[f])
  BY <1>1, <1>4 DEF IsVacant, IsLive, IsTombstone
<1>6. live \in Nat /\ count = live /\ 4 * (live + 1) <= 3 * capacity
  BY <1>1, <1>3, LiveSlotsFinite DEF CountExact
<1>7. /\ \A j \in Slots(capacity) : ~IsTombstone(entries'[j])
      /\ IsLive(entries[f]) => Cardinality(LiveSlots(entries', capacity)) = live
      /\ ~IsLive(entries[f]) => Cardinality(LiveSlots(entries', capacity)) = live + 1
  <2>. HIDE DEF f, e
  <2>. QED
    BY <1>1, <1>2, <1>3, <1>4, StoreCounts
<1>8. Cardinality(LiveSlots(entries', capacity)) = count'
  BY <1>3, <1>5, <1>6, <1>7
<1>9. 4 * Cardinality(LiveSlots(entries', capacity)) <= 3 * capacity
  BY <1>1, <1>6, <1>7
<1>. QED
  BY <1>3, <1>7, <1>8, <1>9 DEF CountExact

\* Deletions are asked of the intern table only.
Asked == call.op = "delete" => interns

LEMMA AskedHolds == Spec => []Asked
<1>1. Init => Asked
  BY DEF Init, Asked, NoCall
<1>2. ASSUME Asked, [Next]_vars
      PROVE  Asked'
  <2>1. CASE \E r \in Calls : Call(r) /\ UNCHANGED interns
    BY <2>1 DEF Call, Asked
  <2>2. CASE Step
    <3>1. UNCHANGED interns
      BY <2>2 DEF Step
    <3>2. call' = call \/ call' = NoCall
      BY <2>2 DEF Step, Adjust, CountIsZero, BeginProbe, ProbeStep, Grow, RehashSkip, RehashEntry,
         RehashProbeStep, RehashStore, Swap, InsertStore, LookupReply, DeleteMiss, DeleteStore, Return
    <3>. QED
      BY <1>2, <3>1, <3>2 DEF Asked, NoCall
  <2>3. CASE UNCHANGED vars
    BY <1>2, <2>3 DEF vars, Asked
  <2>. QED
    BY <1>2, <2>1, <2>2, <2>3 DEF Next
<1>. QED
  BY <1>1, <1>2, PTL DEF Spec

LEMMA NextCounted ==
    ASSUME IInv, Asked, Counted, [Next]_vars
    PROVE  Counted'
<1>1. UNCHANGED interns
  BY DEF Next, Step, vars
<1>. SUFFICES ASSUME ~interns PROVE CountExact'
  BY <1>1 DEF Counted
<1>2. CountExact /\ ~DeleteStore
  BY DEF Counted, Asked, DeleteStore
<1>3. CASE \/ \E r \in Calls : Call(r)
           \/ CountIsZero \/ BeginProbe \/ ProbeStep \/ LookupReply \/ DeleteMiss
           \/ RehashEntry \/ RehashProbeStep
           \/ UNCHANGED vars
  <2>1. UNCHANGED <<entries, capacity, fresh, freshCapacity>>
    BY <1>3 DEF Call, CountIsZero, BeginProbe, ProbeStep, LookupReply, DeleteMiss,
       RehashEntry, RehashProbeStep, vars, map, rehash
  <2>. QED
    BY <1>2, <1>3, <2>1, QuietCounted
<1>4. CASE Grow
  BY <1>2, <1>4, GrowCounted
<1>5. CASE RehashSkip \/ RehashStore
  BY <1>2, <1>5, RehashCounted
<1>6. CASE Swap
  BY <1>2, <1>6, SwapCounted
<1>7. CASE InsertStore
  BY <1>2, <1>7, InsertCounted
<1>. QED
  BY <1>2, <1>3, <1>4, <1>5, <1>6, <1>7 DEF Next, Step, Adjust

\* Counted: the count of a map other than the intern table is the number of its
\* live entries, at every call.
THEOREM CountInvariance == Spec => []Counted
<1>1. Init => Counted
  BY InitCounted DEF Counted
<1>2. IInv /\ Asked /\ Counted /\ [Next]_vars => Counted'
  BY NextCounted
<1>. QED
  BY <1>1, <1>2, AskedHolds, Invariance, PTL DEF Spec

LEMMA CountedHasVacancy ==
    ASSUME IInv, CountExact
    PROVE  VacancyLeft
<1>. DEFINE live == Cardinality(LiveSlots(entries, capacity))
<1>1. capacity \in Nat /\ freshCapacity \in Nat /\ live \in Nat
  BY LiveSlotsFinite DEF IInv, TypeOK
<1>2. ASSUME capacity # 0 PROVE \E s \in Slots(capacity) : IsVacant(entries[s])
  BY <1>1, <1>2, NotFullHasVacancy DEF CountExact
<1>3. ASSUME pc \in {"rehash", "rehash_probe"}
      PROVE  \E s \in Slots(freshCapacity) : IsVacant(fresh[s])
  <2>1. Slots(i) \subseteq Slots(capacity) /\ i \in Nat
    BY <1>1 DEF IInv, TypeOK, Slots
  <2>2. LiveSlots(entries, i) \subseteq LiveSlots(entries, capacity)
    BY <2>1 DEF LiveSlots
  <2>3. Cardinality(LiveSlots(entries, i)) <= live /\ Cardinality(LiveSlots(entries, i)) \in Nat
    BY <1>1, <2>1, <2>2, LiveSlotsFinite, FS_Subset
  <2>4. Cardinality(LiveSlots(fresh, freshCapacity)) < freshCapacity
    BY <1>1, <1>3, <2>3 DEF CountExact
  <2>. QED
    BY <1>1, <2>4, NotFullHasVacancy DEF CountExact
<1>. QED
  BY <1>2, <1>3 DEF VacancyLeft

\* VacancyLeft: the loops of vm_map.c:12 and 91, which have no other exit for a
\* missing key, always have a vacant entry to stop at, but in the intern table.
THEOREM ProbeCanStop == Spec => []VacancyLeft
<1>1. IInv /\ Counted => VacancyLeft
  BY CountedHasVacancy DEF Counted, VacancyLeft
<1>. QED
  BY <1>1, Invariance, CountInvariance, PTL

--------------------------------------------------------------------------------
(* Refinement: the table behaves as the key/value store of MapSpec *)

LEMMA SlotOfLive ==
    ASSUME NEW c \in Nat, NEW t, Unique(t, c), NEW s \in LiveSlots(t, c)
    PROVE  SlotOf(t, c, t[s].key) = s
<1>. DEFINE P(x) == x \in Slots(c) /\ t[x].key = t[s].key
            r == CHOOSE x \in Slots(c) : t[x].key = t[s].key
<1>1. s \in Slots(c)
  BY DEF LiveSlots
<1>2. r \in Slots(c) /\ t[r].key = t[s].key
  BY <1>1
<1>3. r \in LiveSlots(t, c)
  BY <1>2 DEF LiveSlots, IsLive
<1>4. r = s
  BY <1>2, <1>3 DEF Unique
<1>. QED
  BY <1>4 DEF SlotOf

\* A live entry binds its key to its value.
LEMMA ContentsOfLive ==
    ASSUME NEW c \in Nat, NEW t, Unique(t, c), NEW s \in LiveSlots(t, c)
    PROVE  /\ t[s].key \in DOMAIN Contents(t, c)
           /\ Contents(t, c)[t[s].key] = t[s].value
BY SlotOfLive DEF Contents, BoundKeys

\* Two tables with the same live entries have the same contents.
LEMMA SameEntriesSameContents ==
    ASSUME NEW c \in Nat, NEW t, Unique(t, c), NEW d \in Nat, NEW u, Unique(u, d),
           \A s \in LiveSlots(t, c) : \E r \in LiveSlots(u, d) : u[r] = t[s],
           \A r \in LiveSlots(u, d) : \E s \in LiveSlots(t, c) : u[r] = t[s]
    PROVE  Contents(t, c) = Contents(u, d)
<1>1. BoundKeys(t, c) = BoundKeys(u, d)
  BY DEF BoundKeys
<1>2. ASSUME NEW k \in BoundKeys(t, c)
      PROVE  t[SlotOf(t, c, k)].value = u[SlotOf(u, d, k)].value
  <2>1. PICK s \in LiveSlots(t, c) : t[s].key = k
    BY DEF BoundKeys
  <2>2. PICK r \in LiveSlots(u, d) : u[r] = t[s]
    OBVIOUS
  <2>. QED
    BY <2>1, <2>2, SlotOfLive
<1>. QED
  BY <1>1, <1>2 DEF Contents

\* What vm_map_insert does to the contents (vm_map.c:116-125).
LEMMA ContentsOfStore ==
    ASSUME NEW c \in Nat \ {0}, NEW t, Table(t, c), Unique(t, c),
           NEW s \in Slots(c), NEW e, IsLive(e),
           Unique([t EXCEPT ![s] = e], c),
           \/ t[s].key = e.key
           \/ ~IsLive(t[s]) /\ \A j \in Slots(c) : t[j].key # e.key
    PROVE  /\ Contents([t EXCEPT ![s] = e], c) = Store!Bind(Contents(t, c), e.key, e.value)
           /\ IsLive(t[s]) <=> e.key \in DOMAIN Contents(t, c)
<1>. DEFINE u == [t EXCEPT ![s] = e]
<1>1. \A j \in Slots(c) : u[j] = IF j = s THEN e ELSE t[j]
  BY DEF Table
<1>2. s \in LiveSlots(u, c) /\ u[s] = e
  BY <1>1 DEF LiveSlots
<1>3. LiveSlots(u, c) = LiveSlots(t, c) \cup {s}
  BY <1>1, <1>2 DEF LiveSlots
<1>4. IsLive(t[s]) => t[s].key = e.key
  OBVIOUS
<1>5. BoundKeys(u, c) = BoundKeys(t, c) \cup {e.key}
  <2>1. ASSUME NEW k \in BoundKeys(u, c) PROVE k \in BoundKeys(t, c) \cup {e.key}
    <3>1. PICK r \in LiveSlots(u, c) : u[r].key = k
      BY DEF BoundKeys
    <3>2. CASE r = s
      BY <1>2, <3>1, <3>2
    <3>3. CASE r # s
      <4>1. r \in LiveSlots(t, c) /\ t[r] = u[r]
        BY <1>1, <1>3, <3>3 DEF LiveSlots
      <4>. QED
        BY <3>1, <4>1 DEF BoundKeys
    <3>. QED
      BY <3>2, <3>3
  <2>2. ASSUME NEW k \in BoundKeys(t, c) PROVE k \in BoundKeys(u, c)
    <3>1. PICK r \in LiveSlots(t, c) : t[r].key = k
      BY DEF BoundKeys
    <3>2. r \in LiveSlots(u, c) /\ r \in Slots(c)
      BY <1>3 DEF LiveSlots
    <3>3. u[r].key = k
      <4>1. CASE r = s
        BY <1>2, <1>4, <3>1, <4>1 DEF LiveSlots
      <4>2. CASE r # s
        BY <1>1, <3>1, <3>2, <4>2
      <4>. QED
        BY <4>1, <4>2
    <3>. QED
      BY <3>2, <3>3 DEF BoundKeys
  <2>3. e.key \in BoundKeys(u, c)
    BY <1>2 DEF BoundKeys
  <2>. QED
    BY <2>1, <2>2, <2>3
<1>6. u[SlotOf(u, c, e.key)].value = e.value
  BY <1>2, SlotOfLive
<1>7. ASSUME NEW k \in BoundKeys(t, c), k # e.key
      PROVE  u[SlotOf(u, c, k)].value = t[SlotOf(t, c, k)].value
  <2>1. PICK r \in LiveSlots(t, c) : t[r].key = k
    BY DEF BoundKeys
  <2>2. r # s /\ r \in Slots(c)
    BY <1>4, <1>7, <2>1 DEF LiveSlots
  <2>3. r \in LiveSlots(u, c) /\ u[r] = t[r]
    BY <1>1, <1>3, <2>2
  <2>. QED
    BY <2>1, <2>3, SlotOfLive
<1>8. IsLive(t[s]) <=> e.key \in BoundKeys(t, c)
  <2>1. IsLive(t[s]) => s \in LiveSlots(t, c)
    BY DEF LiveSlots
  <2>2. ASSUME e.key \in BoundKeys(t, c) PROVE IsLive(t[s])
    <3>1. PICK r \in LiveSlots(t, c) : t[r].key = e.key
      BY <2>2 DEF BoundKeys
    <3>2. t[s].key = e.key
      BY <3>1 DEF LiveSlots
    <3>. QED
      BY <3>2 DEF IsLive
  <2>. QED
    BY <1>4, <2>1, <2>2 DEF BoundKeys
<1>. DEFINE m == Contents(t, c)
<1>9. DOMAIN m = BoundKeys(t, c) /\ \A k \in BoundKeys(t, c) : m[k] = t[SlotOf(t, c, k)].value
  BY DEF Contents
<1>10. Contents(u, c) = [k \in BoundKeys(u, c) |-> u[SlotOf(u, c, k)].value]
  BY DEF Contents
<1>11. Store!Bind(m, e.key, e.value)
         = [x \in DOMAIN m \cup {e.key} |-> IF x = e.key THEN e.value ELSE m[x]]
  BY DEF Store!Bind
<1>12. \A k \in BoundKeys(u, c) :
         u[SlotOf(u, c, k)].value = IF k = e.key THEN e.value ELSE m[k]
  BY <1>5, <1>6, <1>7, <1>9
<1>. HIDE DEF m, u
<1>13. Contents(u, c) = Store!Bind(m, e.key, e.value)
  BY <1>5, <1>9, <1>10, <1>11, <1>12
<1>. QED
  BY <1>8, <1>9, <1>13 DEF m, u

LEMMA RequestsAreCalls ==
    ASSUME NEW r \in Calls, r.op # "delete"
    PROVE  r \in Store!Requests
<1>1. CASE r \in [op : {"insert"}, key : Keys, value : Values]
  BY <1>1 DEF Store!Requests, Store!InsertRequests
<1>2. CASE r \in [op : {"lookup", "delete"}, key : Keys]
  <2>1. r = [op |-> "lookup", key |-> r.key] /\ r.key \in Keys
    BY <1>2
  <2>. QED
    BY <1>2, <2>1 DEF Store!Requests, Store!LookupRequests
<1>. QED
  BY <1>1, <1>2 DEF Calls

LEMMA InitRefines == Init => Store!Init
<1>. SUFFICES ASSUME Init PROVE Store!Init
  OBVIOUS
<1>1. LiveSlots(entries, capacity) = {}
  BY VacantTableIsFine DEF Init
<1>2. BoundKeys(entries, capacity) = {}
  BY <1>1 DEF BoundKeys
<1>. QED
  BY <1>2 DEF Init, Store!Init, Contents, Store!NoRequest, NoCall

\* The caller's view of the state.
view == <<Contents(entries, capacity), call, reply>>

LEMMA ViewStutters ==
    ASSUME UNCHANGED view
    PROVE  [Store!Next]_(Store!vars)
BY DEF view, Store!vars

\* A call that answers nothing yet is not seen by the caller.
LEMMA HiddenRefines ==
    ASSUME IInv, \/ BeginProbe \/ ProbeStep
                 \/ Grow \/ RehashSkip \/ RehashEntry \/ RehashProbeStep \/ RehashStore
                 \/ UNCHANGED vars
    PROVE  UNCHANGED view
<1>1. UNCHANGED <<entries, capacity, call, reply>>
  BY DEF BeginProbe, ProbeStep, Grow, RehashSkip, RehashEntry, RehashProbeStep,
     RehashStore, vars, map, probe, rehash
<1>. QED
  BY <1>1 DEF view

\* Nor is a resize: the new table has the contents of the old one.
LEMMA SwapRefines ==
    ASSUME IInv, Swap
    PROVE  UNCHANGED view
<1>1. /\ capacity \in Nat /\ freshCapacity \in Nat
      /\ Unique(entries, capacity) /\ Unique(fresh, freshCapacity)
  BY DEF IInv, TypeOK, UniqueKeys
<1>2. /\ \A s \in LiveSlots(fresh, freshCapacity) : \E j \in Slots(capacity) : entries[j] = fresh[s]
      /\ \A j \in Slots(capacity) : IsLive(entries[j]) =>
           \E s \in Slots(freshCapacity) : fresh[s] = entries[j]
  BY DEF IInv, Moved, Swap
<1>3. \A s \in LiveSlots(fresh, freshCapacity) :
        \E j \in LiveSlots(entries, capacity) : entries[j] = fresh[s]
  BY <1>2 DEF LiveSlots
<1>4. \A j \in LiveSlots(entries, capacity) :
        \E s \in LiveSlots(fresh, freshCapacity) : entries[j] = fresh[s]
  BY <1>2 DEF LiveSlots
<1>5. Contents(fresh, freshCapacity) = Contents(entries, capacity)
  BY <1>1, <1>3, <1>4, SameEntriesSameContents
<1>6. entries' = fresh /\ capacity' = freshCapacity /\ UNCHANGED <<call, reply>>
  BY DEF Swap
<1>. QED
  BY <1>5, <1>6 DEF view

LEMMA CallRefines ==
    ASSUME IInv, ~interns, NEW r \in Calls, Call(r)
    PROVE  Store!Next
<1>1. r \in Store!Requests
  BY RequestsAreCalls DEF Call
<1>2. call = NoCall
  BY DEF IInv, TypeOK, Call
<1>3. UNCHANGED <<entries, capacity, reply>> /\ call' = r
  BY DEF Call, map
<1>4. Store!Ask(r)
  BY <1>2, <1>3 DEF Store!Ask, Store!NoRequest, NoCall
<1>. QED
  BY <1>1, <1>4 DEF Store!Next

\* A map whose count is zero is empty, so giving up at once is right.
LEMMA CountIsZeroRefines ==
    ASSUME IInv, CountExact, ~interns, Asked, CountIsZero
    PROVE  Store!Next
<1>1. Cardinality(LiveSlots(entries, capacity)) = 0
  BY DEF CountExact, CountIsZero
<1>2. LiveSlots(entries, capacity) = {}
  BY <1>1, LiveSlotsFinite, FS_EmptySet DEF IInv, TypeOK
<1>3. DOMAIN Contents(entries, capacity) = {}
  BY <1>2 DEF Contents, BoundKeys
<1>4. call.op = "lookup"
  BY DEF Asked, CountIsZero
<1>5. /\ UNCHANGED <<entries, capacity>> /\ call' = NoCall
      /\ reply' = [ok |-> FALSE, value |-> NoValue]
  BY DEF CountIsZero, Return, map
<1>6. Store!AnswerLookup
  BY <1>3, <1>4, <1>5 DEF Store!AnswerLookup, Store!NoRequest, NoCall
<1>. QED
  BY <1>6 DEF Store!Next

LEMMA LookupRefines ==
    ASSUME IInv, LookupReply
    PROVE  Store!Next
<1>. DEFINE f == Found(entries, call.key)
            m == Contents(entries, capacity)
<1>1. /\ call.key \in Keys /\ capacity \in Nat /\ f \in Slots(capacity)
      /\ \/ entries[f].key = call.key /\ IsLive(entries[f])
         \/ ~IsLive(entries[f]) /\ \A j \in Slots(capacity) : entries[j].key # call.key
  BY CallFinds DEF LookupReply
<1>2. Unique(entries, capacity)
  BY DEF IInv, UniqueKeys
<1>3. UNCHANGED <<entries, capacity>> /\ call' = NoCall /\ call.op = "lookup"
  BY DEF LookupReply, Return, map
<1>4. reply' = IF IsLive(entries[f]) THEN [ok |-> TRUE, value |-> entries[f].value]
               ELSE [ok |-> FALSE, value |-> NoValue]
  BY DEF LookupReply, Return
<1>5. IsLive(entries[f]) => call.key \in DOMAIN m /\ m[call.key] = entries[f].value
  <2>. SUFFICES ASSUME IsLive(entries[f])
                PROVE  call.key \in DOMAIN m /\ m[call.key] = entries[f].value
    OBVIOUS
  <2>1. f \in LiveSlots(entries, capacity) /\ entries[f].key = call.key
    BY <1>1 DEF LiveSlots
  <2>. HIDE DEF f
  <2>. QED
    BY <1>1, <1>2, <2>1, ContentsOfLive
<1>6. ~IsLive(entries[f]) => call.key \notin DOMAIN m
  BY <1>1 DEF Contents, BoundKeys, LiveSlots
<1>7. m' = m
  BY <1>3
<1>8. reply' = IF call.key \in DOMAIN m THEN [ok |-> TRUE, value |-> m[call.key]]
               ELSE [ok |-> FALSE, value |-> NoValue]
  BY <1>4, <1>5, <1>6
<1>9. Store!AnswerLookup
  BY <1>3, <1>7, <1>8 DEF Store!AnswerLookup, Store!NoRequest, NoCall
<1>. QED
  BY <1>9 DEF Store!Next

LEMMA InsertRefines ==
    ASSUME IInv, InsertStore
    PROVE  Store!Next
<1>. DEFINE f == Found(entries, call.key)
            e == [key |-> call.key, value |-> call.value]
            m == Contents(entries, capacity)
<1>1. /\ call.key \in Keys /\ capacity \in Nat \ {0} /\ f \in Slots(capacity)
      /\ \/ entries[f].key = call.key
         \/ ~IsLive(entries[f]) /\ \A j \in Slots(capacity) : entries[j].key # call.key
  BY CallFinds DEF InsertStore
<1>2. IsLive(e) /\ e.key = call.key /\ e.value = call.value
  BY <1>1, KeyAssumption DEF IsLive
<1>3. /\ entries' = [entries EXCEPT ![f] = e] /\ capacity' = capacity
      /\ call' = NoCall /\ call.op = "insert"
      /\ reply' = [ok |-> ~IsLive(entries[f]), value |-> NoValue]
  BY DEF InsertStore, Return
<1>4. Table(entries, capacity) /\ Unique(entries, capacity)
  BY DEF IInv, TypeOK, UniqueKeys
<1>5. Unique(entries', capacity)
  BY InsertStoreInv, <1>3 DEF IInv, UniqueKeys
<1>6. /\ Contents(entries', capacity) = Store!Bind(m, call.key, call.value)
      /\ IsLive(entries[f]) <=> call.key \in DOMAIN m
  <2>1. \/ entries[f].key = e.key
        \/ ~IsLive(entries[f]) /\ \A j \in Slots(capacity) : entries[j].key # e.key
    BY <1>1, <1>2
  <2>2. Unique([entries EXCEPT ![f] = e], capacity)
    BY <1>3, <1>5
  <2>3. /\ Contents([entries EXCEPT ![f] = e], capacity)
             = Store!Bind(Contents(entries, capacity), e.key, e.value)
        /\ IsLive(entries[f]) <=> e.key \in DOMAIN Contents(entries, capacity)
    <3>. HIDE DEF f, e
    <3>. QED
      BY <1>1, <1>2, <1>4, <2>1, <2>2, ContentsOfStore
  <2>. QED
    BY <1>2, <1>3, <2>3
<1>7. m' = Store!Bind(m, call.key, call.value)
  BY <1>3, <1>6
<1>8. reply' = [ok |-> call.key \notin DOMAIN m, value |-> NoValue]
  <2>1. IsLive(entries[f]) = (call.key \in DOMAIN m)
    BY <1>6 DEF IsLive
  <2>. QED
    BY <1>3, <2>1
<1>9. Store!AnswerInsert
  BY <1>3, <1>7, <1>8 DEF Store!AnswerInsert, Store!NoRequest, NoCall
<1>. QED
  BY <1>9 DEF Store!Next

LEMMA StepRefines ==
    ASSUME IInv, Asked, Counted, [Next]_vars
    PROVE  [~interns => Store!Next]_(Store!vars)
<1>. SUFFICES ASSUME ~interns PROVE [Store!Next]_(Store!vars)
  OBVIOUS
<1>1. CountExact /\ ~(DeleteStore \/ DeleteMiss)
  BY DEF Counted, Asked, DeleteStore, DeleteMiss
<1>2. ASSUME NEW r \in Calls, Call(r) PROVE Store!Next
  BY <1>2, CallRefines
<1>3. CASE \/ BeginProbe \/ ProbeStep
           \/ Grow \/ RehashSkip \/ RehashEntry \/ RehashProbeStep \/ RehashStore
           \/ UNCHANGED vars
  BY <1>3, HiddenRefines, ViewStutters
<1>4. CASE Swap
  BY <1>4, SwapRefines, ViewStutters
<1>5. CASE CountIsZero
  BY <1>1, <1>5, CountIsZeroRefines
<1>6. CASE LookupReply
  BY <1>6, LookupRefines
<1>7. CASE InsertStore
  BY <1>7, InsertRefines
<1>. QED
  BY <1>1, <1>2, <1>3, <1>4, <1>5, <1>6, <1>7 DEF Next, Step, Adjust

\* ImplementsMapSpec: with insertions and lookups only, what a caller of vm_map.c
\* sees is a partial function from keys to values, whatever the probing, the
\* collisions and the resizes.
THEOREM MapImplementsStore == Spec => ImplementsMapSpec
<1>1. Init => (~interns => Store!Init)
  BY InitRefines
<1>2. IInv /\ Asked /\ Counted /\ [Next]_vars => [~interns => Store!Next]_(Store!vars)
  BY StepRefines
<1>. QED
  BY <1>1, <1>2, Invariance, AskedHolds, CountInvariance, PTL DEF Spec, ImplementsMapSpec

--------------------------------------------------------------------------------
(* What a call does to other keys *)

\* A step that writes to one slot, where nothing lies but key x, keeps all other bindings.
LEMMA OtherBindingStays ==
    ASSUME NEW c \in Nat, NEW t, Unique(t, c), NEW u, Unique(u, c), NEW s \in Slots(c), NEW x,
           \A j \in Slots(c) : j # s => u[j] = t[j],
           IsLive(t[s]) => t[s].key = x,
           NEW k \in BoundKeys(t, c), k # x
    PROVE  /\ k \in DOMAIN Contents(t, c) /\ k \in DOMAIN Contents(u, c)
           /\ Contents(u, c)[k] = Contents(t, c)[k]
<1>1. PICK r \in LiveSlots(t, c) : t[r].key = k
  BY DEF BoundKeys
<1>2. r # s /\ r \in Slots(c)
  BY <1>1 DEF LiveSlots
<1>3. r \in LiveSlots(u, c) /\ u[r] = t[r]
  BY <1>2 DEF LiveSlots
<1>. QED
  BY <1>1, <1>3, ContentsOfLive

\* A store and a deletion write to one slot, that of their key or one without a key.
LEMMA OneSlotWritten ==
    ASSUME IInv, InsertStore \/ DeleteStore
    PROVE  /\ capacity \in Nat /\ capacity' = capacity /\ pc = "probe"
           /\ Unique(entries, capacity) /\ Unique(entries', capacity)
           /\ \E s \in Slots(capacity) :
                /\ \A j \in Slots(capacity) : j # s => entries'[j] = entries[j]
                /\ IsLive(entries[s]) => entries[s].key = call.key
                /\ IsLive(entries'[s]) => entries'[s].key = call.key
<1>. DEFINE f == Found(entries, call.key)
            e == IF call.op = "insert" THEN [key |-> call.key, value |-> call.value] ELSE Tombstone
<1>1. /\ capacity \in Nat \ {0} /\ f \in Slots(capacity)
      /\ IsLive(entries[f]) => entries[f].key = call.key
  BY CallFinds DEF InsertStore, DeleteStore
<1>2. /\ entries' = [entries EXCEPT ![f] = e] /\ capacity' = capacity
      /\ pc = "probe"
  BY DEF InsertStore, DeleteStore
<1>3. Table(entries, capacity) /\ Unique(entries, capacity)
  BY DEF IInv, TypeOK, UniqueKeys
<1>4. Unique(entries', capacity)
  BY InsertStoreInv, DeleteStoreInv, <1>2 DEF IInv, UniqueKeys
<1>5. IsLive(e) => e.key = call.key
  BY DEF IsLive, Tombstone
<1>. HIDE DEF f, e
<1>6. \A j \in Slots(capacity) : entries'[j] = IF j = f THEN e ELSE entries[j]
  BY <1>1, <1>2, <1>3 DEF Table
<1>. QED
  BY <1>1, <1>2, <1>3, <1>4, <1>5, <1>6

LEMMA StoreKeepsOthers ==
    ASSUME IInv, InsertStore \/ DeleteStore
    PROVE  OwnBindingOnly
<1>1. /\ capacity \in Nat /\ capacity' = capacity /\ pc = "probe"
      /\ Unique(entries, capacity) /\ Unique(entries', capacity)
  BY OneSlotWritten
<1>2. PICK s \in Slots(capacity) :
        /\ \A j \in Slots(capacity) : j # s => entries'[j] = entries[j]
        /\ IsLive(entries[s]) => entries[s].key = call.key
        /\ IsLive(entries'[s]) => entries'[s].key = call.key
  BY OneSlotWritten
<1>. DEFINE m == Contents(entries, capacity)
            n == Contents(entries', capacity)
<1>3. ASSUME NEW k \in (DOMAIN m) \cup (DOMAIN n), k # call.key
      PROVE  k \in DOMAIN m /\ k \in DOMAIN n /\ n[k] = m[k]
  <2>1. k \in BoundKeys(entries, capacity) \/ k \in BoundKeys(entries', capacity)
    BY <1>3 DEF Contents
  <2>2. CASE k \in BoundKeys(entries, capacity)
    BY <1>1, <1>2, <1>3, <2>2, OtherBindingStays
  <2>3. CASE k \in BoundKeys(entries', capacity)
    <3>1. \A j \in Slots(capacity) : j # s => entries[j] = entries'[j]
      BY <1>2
    <3>. QED
      BY <1>1, <1>2, <1>3, <2>3, <3>1, OtherBindingStays
  <2>. QED
    BY <2>1, <2>2, <2>3
<1>4. Contents(entries, capacity)' = n
  BY <1>1
<1>. HIDE DEF n
<1>. QED
  BY <1>1, <1>3, <1>4 DEF OwnBindingOnly

LEMMA NextKeepsOthers ==
    ASSUME IInv, [Next]_vars
    PROVE  [OwnBindingOnly]_vars
<1>1. CASE InsertStore \/ DeleteStore
  BY <1>1, StoreKeepsOthers
<1>2. CASE Swap
  BY <1>2, SwapRefines DEF view, OwnBindingOnly
<1>3. CASE UNCHANGED <<entries, capacity>>
  BY <1>3 DEF OwnBindingOnly
<1>4. InsertStore \/ DeleteStore \/ Swap \/ UNCHANGED <<entries, capacity>>
  BY DEF Next, Step, Adjust, Call, CountIsZero, BeginProbe, ProbeStep, Grow, RehashSkip,
     RehashEntry, RehashProbeStep, RehashStore, LookupReply, DeleteMiss, vars, map
<1>. QED
  BY <1>1, <1>2, <1>3, <1>4

\* OthersKept: with deletions and resizes, a call of vm_map.c changes the binding of its
\* own key and of no other.
THEOREM OthersAreKept == Spec => OthersKept
<1>. QED
  BY Invariance, NextKeepsOthers, PTL DEF Spec, OthersKept

================================================================================
