--------------------------------- MODULE ObjMap --------------------------------
(***************************************************************************)
(* The hash map of vm_map.c: open addressing, linear probing, tombstones,  *)
(* doubling at a load of 3/4.  One caller at a time makes one call; every  *)
(* turn of the probe loop and every turn of the rehash loop is a step, so  *)
(* that the loops, which carry no bound in the code, are verified and not  *)
(* assumed.                                                                *)
(*                                                                         *)
(* Globals, map values and the module cache are only inserted into and     *)
(* looked up; vm_map_delete has one caller, the collector, on the intern   *)
(* table.  The variable interns says which of the two kinds the map is.    *)
(***************************************************************************)
EXTENDS Integers, FiniteSets

CONSTANTS
    Keys,          \* interned strings; keys are compared by identity
    Hash,          \* Hash[k]: the hash field of the string k
    Values,        \* Nur values
    Null,          \* NULL_VAL, a legal value of a key
    True,          \* BOOL_VAL(true), which marks a tombstone
    NoKey,         \* the NULL pointer
    NoValue,       \* an out-parameter that was not written
    InitCapacity   \* the first capacity; 8 in the code

ASSUME KeyAssumption == NoKey \notin Keys /\ Hash \in [Keys -> Nat]
ASSUME ValueAssumption == Null \in Values /\ True \in Values /\ Null # True

\* A capacity is a power of two, so that hash & (capacity - 1) is hash % capacity.
ASSUME CapacityAssumption ==
    /\ InitCapacity \in Nat
    /\ InitCapacity >= 2
    /\ \E n \in 1..31 : InitCapacity = 2^n

VARIABLES
    interns,                    \* the map is the intern table
    entries, capacity, count,   \* the fields of the ObjMap
    pc,                         \* where the call is
    call,                       \* the call being executed
    index, tombstone,           \* the locals of vm_map_find_entry
    fresh, freshCapacity, i,    \* the locals of vm_map_adjust_capacity
    reply                       \* what the last call returned

map == <<entries, capacity, count>>
probe == <<index, tombstone>>
rehash == <<fresh, freshCapacity, i>>
vars == <<interns, map, pc, call, probe, rehash, reply>>

--------------------------------------------------------------------------------
(* Entries and slots *)

Entry == [key : Keys \cup {NoKey}, value : Values]
Vacant == [key |-> NoKey, value |-> Null]
\* Mutant: deleting leaves the entry as if it had never been used.
TombstoneVacant == [key |-> NoKey, value |-> Null]
Tombstone == [key |-> NoKey, value |-> True]
IsLive(e) == e.key # NoKey
IsVacant(e) == e.key = NoKey /\ e.value = Null
IsTombstone(e) == e.key = NoKey /\ e.value # Null

NoSlot == -1
Slots(c) == 0 .. c - 1
VacantTable(c) == [s \in Slots(c) |-> Vacant]
Home(k, c) == Hash[k] % c
\* Mutant: the probe does not wrap around.
FollowingStuck(s, c) == IF s + 1 = c THEN s ELSE s + 1
Following(s, c) == (s + 1) % c

\* Mutant: a table may be filled to the last entry.
OverloadedWhenFull(n, c) == n + 1 > c
\* count + 1 > capacity * VM_MAP_MAX_LOAD
Overloaded(n, c) == 4 * (n + 1) > 3 * c
Grown(c) == IF c = 0 THEN InitCapacity ELSE 2 * c

NoCall == [op |-> "none"]
Calls ==
    [op : {"insert"}, key : Keys, value : Values]
        \cup [op : {"lookup", "delete"}, key : Keys]

--------------------------------------------------------------------------------
(* vm_map_find_entry: one turn of its loop over table t for key k *)

\* Mutant: keys are compared by hash.
ProbeEndsAtHash(t, k) ==
    IsVacant(t[index]) \/ (IsLive(t[index]) /\ Hash[t[index].key] = Hash[k])
\* Mutant: the probe stops at the first tombstone.
ProbeEndsAtTombstone(t, k) == ~IsLive(t[index]) \/ t[index].key = k
\* The loop returns: at the key, or at a vacant entry.
ProbeEnds(t, k) == IsVacant(t[index]) \/ t[index].key = k

\* The entry it returns: the first tombstone met is reused for a missing key.
Found(t, k) ==
    IF t[index].key # k /\ tombstone # NoSlot THEN tombstone ELSE index

ProbeFrom(k, c) == index' = Home(k, c) /\ tombstone' = NoSlot

\* The locals of vm_map_find_entry are dead once it returned.
ProbeOver == index' = 0 /\ tombstone' = NoSlot

ProbeOn(t, c) ==
    /\ tombstone' = IF tombstone = NoSlot /\ IsTombstone(t[index])
                    THEN index ELSE tombstone
    /\ index' = Following(index, c)

--------------------------------------------------------------------------------
Init ==
    /\ interns \in BOOLEAN
    /\ entries = VacantTable(0) /\ capacity = 0 /\ count = 0
    /\ pc = "idle" /\ call = NoCall
    /\ index = 0 /\ tombstone = NoSlot
    /\ fresh = VacantTable(0) /\ freshCapacity = 0 /\ i = 0
    /\ reply = [ok |-> FALSE, value |-> NoValue]

Call(r) ==
    /\ pc = "idle"
    /\ r.op = "delete" => interns
    /\ pc' = "called"
    /\ call' = r
    /\ UNCHANGED <<map, probe, rehash, reply>>

Return(ok, v) ==
    /\ reply' = [ok |-> ok, value |-> v]
    /\ pc' = "idle"
    /\ call' = NoCall
    /\ ProbeOver

\* Lookup and delete give up at once on a map whose count is zero.
CountIsZero ==
    /\ pc = "called"
    /\ call.op \in {"lookup", "delete"}
    /\ count = 0
    /\ Return(FALSE, NoValue)
    /\ UNCHANGED <<map, rehash>>

BeginProbe ==
    /\ pc = "called"
    /\ IF call.op = "insert" THEN ~Overloaded(count, capacity) ELSE count # 0
    /\ pc' = "probe"
    /\ ProbeFrom(call.key, capacity)
    /\ UNCHANGED <<map, call, rehash, reply>>

ProbeStep ==
    /\ pc = "probe"
    /\ ~ProbeEnds(entries, call.key)
    /\ ProbeOn(entries, capacity)
    /\ UNCHANGED <<map, pc, call, rehash, reply>>

--------------------------------------------------------------------------------
(* vm_map_adjust_capacity.  The table is grown before the key is looked    *)
(* for, so overwriting a key may grow it too.                              *)

Grow ==
    /\ pc = "called"
    /\ call.op = "insert"
    /\ Overloaded(count, capacity)
    /\ freshCapacity' = Grown(capacity)
    /\ fresh' = VacantTable(Grown(capacity))
    /\ i' = 0
    /\ count' = 0
    /\ pc' = "rehash"
    /\ UNCHANGED <<entries, capacity, call, probe, reply>>

\* Mutant: an entry may be skipped that holds a key.
RehashSkipLive ==
    /\ pc = "rehash"
    /\ i < capacity
    /\ i' = i + 1
    /\ UNCHANGED <<map, pc, call, probe, fresh, freshCapacity, reply>>

RehashSkip ==
    /\ pc = "rehash"
    /\ i < capacity
    /\ ~IsLive(entries[i])
    /\ i' = i + 1
    /\ UNCHANGED <<map, pc, call, probe, fresh, freshCapacity, reply>>

\* Mutant: entries are moved to their home in the old table.
RehashEntryOldHome ==
    /\ pc = "rehash"
    /\ i < capacity
    /\ IsLive(entries[i])
    /\ pc' = "rehash_probe"
    /\ ProbeFrom(entries[i].key, capacity)
    /\ UNCHANGED <<map, call, rehash, reply>>

RehashEntry ==
    /\ pc = "rehash"
    /\ i < capacity
    /\ IsLive(entries[i])
    /\ pc' = "rehash_probe"
    /\ ProbeFrom(entries[i].key, freshCapacity)
    /\ UNCHANGED <<map, call, rehash, reply>>

RehashProbeStep ==
    /\ pc = "rehash_probe"
    /\ ~ProbeEnds(fresh, entries[i].key)
    /\ ProbeOn(fresh, freshCapacity)
    /\ UNCHANGED <<map, pc, call, rehash, reply>>

RehashStore ==
    /\ pc = "rehash_probe"
    /\ ProbeEnds(fresh, entries[i].key)
    /\ fresh' = [fresh EXCEPT ![Found(fresh, entries[i].key)] = entries[i]]
    /\ count' = count + 1
    /\ i' = i + 1
    /\ pc' = "rehash"
    /\ ProbeOver
    /\ UNCHANGED <<entries, capacity, call, freshCapacity, reply>>

\* Mutant: the old entries stay.
SwapCapacityOnly ==
    /\ pc = "rehash"
    /\ i = capacity
    /\ capacity' = freshCapacity
    /\ fresh' = VacantTable(0) /\ freshCapacity' = 0 /\ i' = 0
    /\ pc' = "probe"
    /\ ProbeFrom(call.key, freshCapacity)
    /\ UNCHANGED <<entries, count, call, reply>>

Swap ==
    /\ pc = "rehash"
    /\ i = capacity
    /\ entries' = fresh
    /\ capacity' = freshCapacity
    /\ fresh' = VacantTable(0) /\ freshCapacity' = 0 /\ i' = 0
    /\ pc' = "probe"
    /\ ProbeFrom(call.key, freshCapacity)
    /\ UNCHANGED <<count, call, reply>>

--------------------------------------------------------------------------------
(* What each call does with the entry the probe found *)

\* Mutant: overwriting a key counts it again.
InsertStoreCounts ==
    /\ pc = "probe"
    /\ call.op = "insert"
    /\ ProbeEnds(entries, call.key)
    /\ LET s == Found(entries, call.key) IN
        /\ entries' = [entries EXCEPT ![s] = [key |-> call.key, value |-> call.value]]
        /\ Return(~IsLive(entries[s]), NoValue)
    /\ count' = count + 1
    /\ UNCHANGED <<capacity, rehash>>

\* A tombstone that is reused is not counted.
InsertStore ==
    /\ pc = "probe"
    /\ call.op = "insert"
    /\ ProbeEnds(entries, call.key)
    /\ LET s == Found(entries, call.key) IN
        /\ entries' = [entries EXCEPT ![s] = [key |-> call.key, value |-> call.value]]
        /\ count' = IF IsVacant(entries[s]) THEN count + 1 ELSE count
        /\ Return(~IsLive(entries[s]), NoValue)
    /\ UNCHANGED <<capacity, rehash>>

LookupReply ==
    /\ pc = "probe"
    /\ call.op = "lookup"
    /\ ProbeEnds(entries, call.key)
    /\ LET e == entries[Found(entries, call.key)] IN
        IF IsLive(e) THEN Return(TRUE, e.value) ELSE Return(FALSE, NoValue)
    /\ UNCHANGED <<map, rehash>>

DeleteMiss ==
    /\ pc = "probe"
    /\ call.op = "delete"
    /\ ProbeEnds(entries, call.key)
    /\ ~IsLive(entries[Found(entries, call.key)])
    /\ Return(FALSE, NoValue)
    /\ UNCHANGED <<map, rehash>>

DeleteStore ==
    /\ pc = "probe"
    /\ call.op = "delete"
    /\ ProbeEnds(entries, call.key)
    /\ LET s == Found(entries, call.key) IN
        /\ IsLive(entries[s])
        /\ entries' = [entries EXCEPT ![s] = Tombstone]
    /\ count' = count - 1
    /\ Return(TRUE, NoValue)
    /\ UNCHANGED <<capacity, rehash>>

Adjust == Grow \/ RehashSkip \/ RehashEntry \/ RehashProbeStep \/ RehashStore \/ Swap

Step ==
    /\ UNCHANGED interns
    /\ \/ CountIsZero \/ BeginProbe \/ ProbeStep
       \/ Adjust
       \/ InsertStore \/ LookupReply \/ DeleteMiss \/ DeleteStore

Next == (UNCHANGED interns /\ \E r \in Calls : Call(r)) \/ Step

Spec == Init /\ [][Next]_vars

\* A call that was made runs on: the program has one thread and nothing blocks.
FairSpec == Spec /\ WF_vars(Step)

--------------------------------------------------------------------------------
(* Properties *)

LiveSlots(t, c) == {s \in Slots(c) : IsLive(t[s])}
BoundKeys(t, c) == {t[s].key : s \in LiveSlots(t, c)}
SlotOf(t, c, k) == CHOOSE s \in Slots(c) : t[s].key = k
Contents(t, c) == [k \in BoundKeys(t, c) |-> t[SlotOf(t, c, k)].value]

Table(t, c) == t \in [Slots(c) -> Entry]

\* The slots a probe that starts at h visits before it reaches s.
Passed(h, s, c) ==
    {j \in Slots(c) : IF h <= s THEN h <= j /\ j < s ELSE h <= j \/ j < s}

\* No vacant entry lies between the home of a live key and its slot.
Chained(t, c) ==
    \A s \in LiveSlots(t, c) : \A j \in Passed(Home(t[s].key, c), s, c) : ~IsVacant(t[j])

Unique(t, c) ==
    \A s1, s2 \in LiveSlots(t, c) : t[s1].key = t[s2].key => s1 = s2

\* A probe for k in t that stands at slot s and remembers tombstone ts (or none)
\* has passed no vacant entry and not k, and the tombstone is one it could reach.
Probing(t, c, k, s, ts) ==
    /\ s \in Slots(c)
    /\ \A j \in Passed(Home(k, c), s, c) : ~IsVacant(t[j]) /\ t[j].key # k
    /\ ts # NoSlot =>
        /\ ts \in Slots(c)
        /\ IsTombstone(t[ts])
        /\ \A j \in Passed(Home(k, c), ts, c) : ~IsVacant(t[j])

\* Every variable has its type; the locals of a call are only meaningful in it.
TypeOK ==
    /\ capacity \in Nat /\ Table(entries, capacity)
    /\ count \in Nat
    /\ pc \in {"idle", "called", "rehash", "rehash_probe", "probe"}
    /\ call \in Calls \cup {NoCall}
    /\ index \in Nat /\ tombstone \in Nat \cup {NoSlot}
    /\ freshCapacity \in Nat /\ Table(fresh, freshCapacity)
    /\ i \in 0 .. capacity
    /\ reply \in [ok : BOOLEAN, value : Values \cup {NoValue}]
    /\ call = NoCall <=> pc = "idle"
    /\ pc = "rehash_probe" => i < capacity

\* vm_map.c:6-27 stops at the first vacant entry: every key that is stored can
\* be reached from its home, in the table and in the one a resize is filling,
\* whatever was deleted, overwritten or moved before.
ProbeChain == Chained(entries, capacity) /\ Chained(fresh, freshCapacity)

\* vm_map.c:116-125 writes to the entry the probe found: a key is never stored
\* twice, so that an old value can never come back.
UniqueKeys == Unique(entries, capacity) /\ Unique(fresh, freshCapacity)

\* The binding of a key other than the one a store is for is there after the step
\* exactly if it was before, and the same.
OwnBindingOnly ==
    LET Binding == Contents(entries, capacity) IN
    \A k \in Keys :
        (Binding' # Binding /\ k \in (DOMAIN Binding) \cup (DOMAIN Binding)')
        => \/ pc = "probe" /\ k = call.key
           \/ /\ k \in (DOMAIN Binding) \cap (DOMAIN Binding)'
              /\ Binding'[k] = Binding[k]

\* vm_map.c:109-145: a call changes the binding of its own key and of no other,
\* and a resize (vm_map.c:85-104) changes none at all.
OthersKept == [][OwnBindingOnly]_vars

\* vm_map.c:12 and 37 loop for ever on a table with no vacant entry.  The load
\* check keeps one in every table that is probed and never deleted from.
VacancyLeft ==
    ~interns =>
        /\ pc \in {"called", "probe"} /\ capacity # 0 =>
            \E s \in Slots(capacity) : IsVacant(entries[s])
        /\ pc \in {"rehash", "rehash_probe"} =>
            \E s \in Slots(freshCapacity) : IsVacant(fresh[s])

\* What holds inside a call: an insertion reaches its probe through the load
\* check, the others only with a count that is not zero; a probe has covered the
\* way to where it stands.
InCall ==
    /\ capacity = 0 => count = 0
    /\ pc = "probe" =>
        /\ call.op # "insert" => count # 0
        /\ Probing(entries, capacity, call.key, index, tombstone)
    /\ pc \in {"rehash", "rehash_probe"} => call.op = "insert" /\ freshCapacity # 0
    /\ pc = "rehash_probe" =>
        /\ IsLive(entries[i])
        /\ Probing(fresh, freshCapacity, entries[i].key, index, tombstone)

\* The entries of the old table that the rehash loop has passed, and no others,
\* are in the new one (vm_map.c:85-97).
Moved ==
    pc \in {"rehash", "rehash_probe"} =>
        /\ \A s \in LiveSlots(fresh, freshCapacity) : \E j \in Slots(i) : entries[j] = fresh[s]
        /\ \A j \in Slots(i) : IsLive(entries[j]) =>
              \E s \in Slots(freshCapacity) : fresh[s] = entries[j]

IInv == TypeOK /\ ProbeChain /\ UniqueKeys /\ InCall /\ Moved

\* Without deletions there are no tombstones, count is the number of live
\* entries (of those already moved, during a resize), and the load is bounded.
CountExact ==
    LET live == Cardinality(LiveSlots(entries, capacity)) IN
    /\ \A s \in Slots(capacity) : ~IsTombstone(entries[s])
    /\ \A s \in Slots(freshCapacity) : ~IsTombstone(fresh[s])
    /\ 4 * live <= 3 * capacity
    /\ pc \in {"idle", "called", "probe"} => count = live
    /\ pc = "probe" /\ call.op = "insert" => 4 * (live + 1) <= 3 * capacity
    /\ pc \in {"rehash", "rehash_probe"} =>
        /\ count = Cardinality(LiveSlots(fresh, freshCapacity))
        /\ count = Cardinality(LiveSlots(entries, i))
        /\ 4 * (live + 1) <= 3 * freshCapacity

\* vm_map.c:109-125 counts a new key, and 85-97 count the moved ones anew: the
\* count that the load check and len rely on is exact in a map other than the
\* intern table, through overwrites and resizes.
Counted == ~interns => CountExact

\* Every call returns: the probe and the rehash loops terminate.
CallsReturn == ~interns /\ pc # "idle" ~> pc = "idle"

\* What a caller sees is a key/value store answering one request at a time, if the
\* map is not the intern table.
Store == INSTANCE MapSpec WITH
    contents <- Contents(entries, capacity),
    pending <- call,
    reply <- reply

ImplementsMapSpec == (~interns => Store!Init) /\ [][~interns => Store!Next]_(Store!vars)

================================================================================
