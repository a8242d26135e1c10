---------------------------- MODULE ContainerSpec ----------------------------
(* What arrays, strings and maps are to a program: sequences and functions. A
   string is a sequence of characters and immutable; arrays and maps are shared
   by reference, and change only where an instruction says so. What the built-ins
   answer is what docs/builtins/global.md promises. *)
EXTENDS Values, FiniteSets

VARIABLES
    x,            \* the value of the last expression
    y,            \* a variable of the program
    objects,      \* arrays ([items]) and maps ([bindings]), by address
    status,       \* "running", or "error": the VM has refused and stopped
    instruction   \* the last one executed, [op, args]

vars == <<x, y, objects, status, instruction>>

IsArray(v) == IsObject(v) /\ "items" \in DOMAIN objects[v.object]
IsMap(v) == IsObject(v) /\ "bindings" \in DOMAIN objects[v.object]
IsSequence(v) == IsText(v) \/ IsArray(v)

\* Texts that differ are different values: a character is compared by its bytes.
Elements(v) == IF IsText(v) THEN v.text ELSE objects[v.object].items
Bindings(v) == objects[v.object].bindings
Size(v) == IF IsMap(v) THEN Cardinality(DOMAIN Bindings(v)) ELSE Len(Elements(v))

Answers(v) == x' = v /\ status' = "running" /\ UNCHANGED <<y, objects>>
Creates(object) == /\ objects' = Append(objects, object)
                   /\ x' = Object(Len(objects) + 1)
                   /\ status' = "running" /\ UNCHANGED y
Changes(v, object) == /\ objects' = [objects EXCEPT ![v.object] = object]
                      /\ status' = "running" /\ UNCHANGED y
Refuses == status' = "error" /\ UNCHANGED <<x, y, objects>>

\* A new sequence of the kind of v.
Makes(v, elements) == IF IsText(v) THEN Answers(Text(elements))
                                   ELSE Creates([items |-> elements])

Argument(i) == instruction'.args[i]

\* The place a number names in a sequence: negative numbers count from the end.
PlaceIn(v, n) == IF n.number < 0 THEN n.number + 2 * Size(v) ELSE n.number
Names(v, n, places) == IsNumber(n) /\ \E p \in places : PlaceIn(v, n) = 2 * p
Place(v, n) == PlaceIn(v, n) \div 2

Init == /\ ~IsObject(x) /\ ~IsObject(y) /\ objects = <<>> /\ status = "running"
        /\ instruction = [op |-> "none", args |-> <<>>]

Load == Answers(Argument(1))
Keep == y' = x /\ UNCHANGED <<x, objects, status>>

MakeArray == Creates([items |-> instruction'.args])

MakeMap ==
    LET args == instruction'.args
        keys == {args[i] : i \in {j \in DOMAIN args : j % 2 = 1}}
        Last(k) == CHOOSE i \in DOMAIN args :
                        /\ i % 2 = 0 /\ args[i - 1] = k
                        /\ \A j \in DOMAIN args : j % 2 = 0 /\ args[j - 1] = k => j <= i
    IN  IF \A k \in keys : IsText(k)
        THEN Creates([bindings |-> [t \in {k.text : k \in keys} |-> args[Last(Text(t))]]])
        ELSE Refuses

Get ==
    \E target \in {Argument(1)}, index \in {Argument(2)} :
        IF IsSequence(target) /\ Names(target, index, 0..(Size(target) - 1))
        THEN LET element == Elements(target)[Place(target, index) + 1]
             IN  Answers(IF IsText(target) THEN Text(<<element>>) ELSE element)
        ELSE IF IsMap(target) /\ IsText(index) /\ index.text \in DOMAIN Bindings(target)
        THEN Answers(Bindings(target)[index.text])
        ELSE Refuses

Bound(bindings, key, v) ==
    [k \in DOMAIN bindings \cup {key} |-> IF k = key THEN v ELSE bindings[k]]

Put(target, index, v) ==
    IF IsArray(target) /\ Names(target, index, 0..(Size(target) - 1))
    THEN Changes(target, [items |->
            [Elements(target) EXCEPT ![Place(target, index) + 1] = v]])
    ELSE IF IsMap(target) /\ IsText(index)
    THEN Changes(target, [bindings |-> Bound(Bindings(target), index.text, v)])
    ELSE Refuses

Set == Put(Argument(1), Argument(2), Argument(3)) /\ (status' = "running" => x' = Argument(3))

\* start is a place of the sequence, so that nothing can be cut from an empty one
\* unless start is left out; end may lie just behind it.
Slice ==
    \E target \in {Argument(1)}, start \in {Argument(2)}, end \in {Argument(3)} :
        IF /\ IsSequence(target)
           /\ Names(target, start, 0..(Size(target) - 1))
           /\ Names(target, end, Place(target, start)..Size(target))
        THEN Makes(target, SubSeq(Elements(target), Place(target, start) + 1,
                                  Place(target, end)))
        ELSE Refuses

SliceUnder ==
    \E target \in {Argument(1)}, end \in {Argument(2)} :
        IF IsSequence(target) /\ Names(target, end, 0..Size(target))
        THEN Makes(target, SubSeq(Elements(target), 1, Place(target, end)))
        ELSE Refuses

SliceAbove ==
    \E target \in {Argument(1)}, start \in {Argument(2)} :
        IF IsSequence(target) /\ Names(target, start, 0..(Size(target) - 1))
        THEN Makes(target, SubSeq(Elements(target), Place(target, start) + 1, Size(target)))
        ELSE Refuses

Copy ==
    \E target \in {Argument(1)} :
        IF IsSequence(target) THEN Makes(target, Elements(target)) ELSE Refuses

Spelled(v) == IF IsText(v) THEN v.text
              ELSE [i \in DOMAIN Spelling(v) |-> <<Spelling(v)[i]>>]

Add ==
    \E lhs \in {Argument(1)}, rhs \in {Argument(2)} :
        IF IsNumber(lhs) /\ IsNumber(rhs) THEN Answers(Number(lhs.number + rhs.number))
        ELSE IF (IsText(lhs) \/ IsText(rhs)) /\ ~IsObject(lhs) /\ ~IsObject(rhs)
        THEN Answers(Text(Spelled(lhs) \o Spelled(rhs)))
        ELSE IF IsArray(lhs) /\ IsArray(rhs)
        THEN Creates([items |-> Elements(lhs) \o Elements(rhs)])
        ELSE Refuses

\* The contents of values. Values that are the same are equal, and values that
\* are equal differ in their maps at most, which are only sure to have as many
\* keys (exact) or the same bindings.
RECURSIVE Same(_, _, _)
Same(v, w, exact) ==
    \/ v = w
    \/ /\ IsArray(v) /\ IsArray(w) /\ Size(v) = Size(w)
       /\ \A i \in 1..Size(v) : Same(Elements(v)[i], Elements(w)[i], exact)
    \/ /\ IsMap(v) /\ IsMap(w) /\ Size(v) = Size(w)
       /\ exact => /\ DOMAIN Bindings(v) = DOMAIN Bindings(w)
                   /\ \A k \in DOMAIN Bindings(v) :
                         Same(Bindings(v)[k], Bindings(w)[k], exact)

Equal == \E b \in BOOLEAN :
            /\ Answers(Bool(b))
            /\ IF b THEN Same(Argument(1), Argument(2), FALSE)
                    ELSE ~Same(Argument(1), Argument(2), TRUE)

Holds(v, w, exact) == \E i \in 1..Size(v) : Same(w, Elements(v)[i], exact)

\* v stands somewhere in w.
Occurs(v, w) == \E start \in 0..(Size(w) - Size(v)) :
                    SubSeq(w.text, start + 1, start + Size(v)) = v.text

Contains ==
    \E target \in {Argument(1)}, v \in {Argument(2)} :
        IF IsArray(target)
        THEN \E b \in BOOLEAN : /\ Answers(Bool(b))
                                /\ IF b THEN Holds(target, v, FALSE)
                                        ELSE ~Holds(target, v, TRUE)
        ELSE IF IsMap(target) /\ IsText(v)
        THEN Answers(Bool(v.text \in DOMAIN Bindings(target)))
        ELSE IF IsText(target) /\ IsText(v) THEN Answers(Bool(Occurs(v, target)))
        ELSE IF IsMap(target) \/ IsText(target) THEN Refuses
        ELSE Answers(Null)

Falsey(v) == \/ v \in {Null, Bool(FALSE), Whole(0)}
             \/ (IsText(v) \/ IsObject(v)) /\ Size(v) = 0
Not == Answers(Bool(Falsey(Argument(1))))

Length == Answers(IF IsText(Argument(1)) \/ IsObject(Argument(1))
                  THEN Whole(Size(Argument(1))) ELSE Null)

Push ==
    \E array \in {Argument(1)} :
        IF IsArray(array)
        THEN /\ Changes(array, [items |-> Append(Elements(array), Argument(2))])
             /\ x' = Null
        ELSE Refuses

Pop ==
    \E array \in {Argument(1)} :
        IF IsArray(array) /\ Elements(array) = <<>> THEN Answers(Null)
        ELSE IF IsArray(array)
        THEN /\ Changes(array, [items |-> SubSeq(Elements(array), 1, Size(array) - 1)])
             /\ x' = Elements(array)[Size(array)]
        ELSE Refuses

Next ==
    /\ status = "running"
    /\ CASE instruction'.op = "load"     -> Load
         [] instruction'.op = "keep"     -> Keep
         [] instruction'.op = "array"    -> MakeArray
         [] instruction'.op = "map"      -> MakeMap
         [] instruction'.op = "get"      -> Get
         [] instruction'.op = "set"      -> Set
         [] instruction'.op = "slice"    -> Slice
         [] instruction'.op = "under"    -> SliceUnder
         [] instruction'.op = "above"    -> SliceAbove
         [] instruction'.op = "copy"     -> Copy
         [] instruction'.op = "add"      -> Add
         [] instruction'.op = "equal"    -> Equal
         [] instruction'.op = "not"      -> Not
         [] instruction'.op = "len"      -> Length
         [] instruction'.op = "push"     -> Push
         [] instruction'.op = "pop"      -> Pop
         [] instruction'.op = "contains" -> Contains

Spec == Init /\ [][Next]_vars
===============================================================================
