------------------------------ MODULE Containers ------------------------------
(*****************************************************************************)
(* Subscripts, slices, addition, equality and the built-ins on arrays, strings *)
(* and maps: vm.c, vm_util.c, vm_builtins.c. A string is a sequence of bytes,  *)
(* whose characters are found by walking over it.                              *)
(*                                                                             *)
(* One step executes one instruction (or calls one built-in) on operands that  *)
(* are the value of the last expression, a variable, or literals. What a table *)
(* of a map does is in ObjMap; interning, by which equal strings are one       *)
(* object, is in Heap: here a string is its bytes.                             *)
(*****************************************************************************)
EXTENDS Values, FiniteSets

CONSTANTS
    Programs,   \* [ops, literals, indexes, bytes, items, objects]: what a program
                \* does, the values it writes, the numbers it uses as indexes; how
                \* long its strings and arrays and how many its objects get
    Careful     \* programs keep to where the code does as documented: they use no
                \* index below the first element, ask neither for the length nor for
                \* the contents of what the built-ins refuse, and pop no empty array

VARIABLES program, x, y, objects, status, instruction

vars == <<program, x, y, objects, status, instruction>>

IsArray(v) == IsObject(v) /\ "items" \in DOMAIN objects[v.object]
IsMap(v) == IsObject(v) /\ "bindings" \in DOMAIN objects[v.object]
Items(v) == objects[v.object].items
Bindings(v) == objects[v.object].bindings

(*****************************************************************************)
(* Bytes and characters. Positions count from 0, as pointers into the text.   *)
(*****************************************************************************)
\* string_utf8_skip_character by the first byte; a byte that begins no character
\* is not skipped.
Skip(bytes, position) ==
    LET byte == bytes[position + 1]
    IN  position + CASE byte < 128 -> 1
                     [] byte \in 192..223 -> 2
                     [] byte \in 224..239 -> 3
                     [] byte \in 240..247 -> 4
                     [] OTHER -> 0

RECURSIVE CountFrom(_, _)
CountFrom(bytes, position) ==
    IF position < Len(bytes) THEN 1 + CountFrom(bytes, Skip(bytes, position)) ELSE 0

Count(v) == IF IsText(v) THEN CountFrom(v.text, 0)
            ELSE IF IsArray(v) THEN Len(Items(v))
            ELSE Cardinality(DOMAIN Bindings(v))

\* Mutant: positions are bytes.
AfterBytes(bytes, position, characters) == position + characters

\* The position that many characters further on.
RECURSIVE After(_, _, _)
After(bytes, position, characters) ==
    IF characters = 0 THEN position
    ELSE After(bytes, Skip(bytes, position), characters - 1)

From(bytes, start, end) == SubSeq(bytes, start + 1, end)

(*****************************************************************************)
(* Instructions.                                                              *)
(*****************************************************************************)
Operands == {x, y} \cup program.literals
Indexes == {x, y} \cup {Number(n) : n \in program.indexes}

Executes(op, args) ==
    /\ status = "running" /\ op \in program.ops
    /\ instruction' = [op |-> op, args |-> args]
    /\ UNCHANGED program

Fits(v) == /\ IsText(v) => Len(v.text) <= program.bytes
           /\ IsNumber(v) => Magnitude(v.number) <= program.numbers
Answers(v) == Fits(v) /\ x' = v /\ UNCHANGED <<y, objects, status>>

\* Mutant: the new object is not added to the list.
CreatesBehind(object) == /\ Len(objects) < program.objects
                         /\ x' = Object(Len(objects) + 1)
                         /\ UNCHANGED <<objects, y, status>>

Creates(object) == /\ Len(objects) < program.objects
                   /\ objects' = Append(objects, object)
                   /\ x' = Object(Len(objects) + 1)
                   /\ UNCHANGED <<y, status>>

CreatesArray(items) == Len(items) <= program.items /\ Creates([items |-> items])
Changes(v, object, answer) == /\ objects' = [objects EXCEPT ![v.object] = object]
                              /\ x' = answer /\ UNCHANGED <<y, status>>
Stops(how) == status' = how /\ UNCHANGED <<x, y, objects>>
Refuses == Stops("error")

Init ==
    /\ program \in Programs
    /\ x \in program.literals /\ y \in program.literals
    /\ objects = <<>> /\ status = "running"
    /\ instruction = [op |-> "none", args |-> <<>>]

Load == \E v \in Operands : Executes("load", <<v>>) /\ Answers(v)
Keep == Executes("keep", <<>>) /\ y' = x /\ UNCHANGED <<x, objects, status>>

\* OP_MAKE_ARRAY and OP_MAKE_MAP of as many elements as the runs use.
MakeArray == \E n \in 0..2 : \E args \in [1..n -> Operands] :
    Executes("array", args) /\ CreatesArray(args)

Put(bindings, key, v) ==
    [k \in DOMAIN bindings \cup {key} |-> IF k = key THEN v ELSE bindings[k]]

NoBindings == [k \in {} |-> Null]

MakeMap ==
    \/ Executes("map", <<>>) /\ Creates([bindings |-> NoBindings])
    \/ \E k, l \in {x} \cup program.literals, v \in {x, y}, w \in {y} :
          /\ Executes("map", <<k, v, l, w>>)
          /\ IF IsText(k) /\ IsText(l)
             THEN Creates([bindings |-> Put(Put(NoBindings, k.text, v), l.text, w)])
             ELSE Refuses

\* Where a number points to, in halves: below zero if it is too small.
Resolved(n, count) == IF n.number < 0 THEN n.number + 2 * count ELSE n.number
IsInteger(i) == i % 2 = 0
Position(i) == i \div 2

OutOfBounds(i, count) == i >= 2 * count \/ ~IsInteger(i)

Admitted(target, index) ==
    IsNumber(index) /\ Careful => Resolved(index, Count(target)) >= 0

IsContainer(v) == IsText(v) \/ IsObject(v)

\* Neither reading nor writing an array asks whether the index is below zero: the
\* memory before the elements is used. A walk over a string does no step then,
\* and returns its first character.
Get == \E target \in {x}, index \in Indexes :
    /\ Executes("get", <<target, index>>)
    /\ IF IsText(target) \/ IsArray(target)
       THEN /\ Admitted(target, index)
            /\ IF ~IsNumber(index) THEN Refuses
               ELSE LET i == Resolved(index, Count(target))
                        start == After(target.text, 0, IF i < 0 THEN 0 ELSE Position(i))
                    IN  IF OutOfBounds(i, Count(target)) THEN Refuses
                        ELSE IF i < 0 /\ (IsArray(target) \/ target.text = <<>>)
                        THEN Stops("undefined")
                        ELSE Answers(IF IsArray(target) THEN Items(target)[Position(i) + 1]
                                     ELSE Text(From(target.text, start,
                                                    Skip(target.text, start))))
       ELSE IF IsMap(target) /\ IsText(index) /\ index.text \in DOMAIN Bindings(target)
       THEN Answers(Bindings(target)[index.text])
       ELSE Refuses

\* Containers that contain themselves are left out: to compare two of them does
\* not return.
RECURSIVE Reaches(_, _)
Reaches(v, address) ==
    IsObject(v) /\ (\/ v.object = address
                    \/ IsArray(v) /\ \E i \in DOMAIN Items(v) : Reaches(Items(v)[i], address)
                    \/ IsMap(v) /\ \E k \in DOMAIN Bindings(v) : Reaches(Bindings(v)[k], address))
MayHold(container, v) == IsObject(container) => ~Reaches(v, container.object)

Set == \E target \in {x, y}, index \in Indexes, v \in Operands :
    /\ Executes("set", <<target, index, v>>)
    /\ MayHold(target, v)
    /\ IF IsArray(target) /\ IsNumber(index)
       THEN LET i == Resolved(index, Count(target))
            IN  /\ Admitted(target, index)
                /\ IF OutOfBounds(i, Count(target)) THEN Refuses
                   ELSE IF i < 0 THEN Stops("undefined")
                   ELSE Changes(target, [items |->
                          [Items(target) EXCEPT ![Position(i) + 1] = v]], v)
       ELSE IF IsMap(target) /\ IsText(index)
       THEN Changes(target, [bindings |-> Put(Bindings(target), index.text, v)], v)
       ELSE Refuses

BadStart(i, count) == i < 0 \/ i >= 2 * count \/ ~IsInteger(i)
BadEnd(i, count) == i < 0 \/ i > 2 * count \/ ~IsInteger(i)

\* What the slices have in common once their bounds are good: the elements from
\* start are skipped, then those up to end.
Cut(target, start, end) ==
    IF IsArray(target) THEN CreatesArray(From(Items(target), start, end))
    ELSE LET low == After(target.text, 0, start)
         IN  Answers(Text(From(target.text, low,
                               After(target.text, low, end - start))))

Slice == \E target \in {x}, start, end \in Indexes :
    /\ Executes("slice", <<target, start, end>>)
    /\ IF ~IsNumber(start) \/ ~IsNumber(end) \/ ~(IsText(target) \/ IsArray(target))
       THEN Refuses
       ELSE LET s == Resolved(start, Count(target))
                e == Resolved(end, Count(target))
            IN  IF BadStart(s, Count(target)) \/ BadEnd(e, Count(target)) \/ s > e
                THEN Refuses
                ELSE Cut(target, Position(s), Position(e))

SliceUnder == \E target \in {x}, end \in Indexes :
    /\ Executes("under", <<target, end>>)
    /\ IF ~IsNumber(end) \/ ~(IsText(target) \/ IsArray(target)) THEN Refuses
       ELSE LET e == Resolved(end, Count(target))
            IN  IF BadEnd(e, Count(target)) THEN Refuses
                ELSE Cut(target, 0, Position(e))

\* The rest of a string is all its bytes behind start.
SliceAbove == \E target \in {x}, start \in Indexes :
    /\ Executes("above", <<target, start>>)
    /\ IF ~IsNumber(start) \/ ~(IsText(target) \/ IsArray(target)) THEN Refuses
       ELSE LET s == Resolved(start, Count(target))
            IN  IF BadStart(s, Count(target)) THEN Refuses
                ELSE IF IsArray(target) THEN Cut(target, Position(s), Count(target))
                ELSE Answers(Text(From(target.text, After(target.text, 0, Position(s)),
                                       Len(target.text))))

\* Mutant: an array is not copied.
CopyShared == \E target \in {x} :
    /\ Executes("copy", <<target>>)
    /\ IF IsText(target) \/ IsArray(target) THEN Answers(target) ELSE Refuses

Copy == \E target \in {x} :
    /\ Executes("copy", <<target>>)
    /\ IF IsText(target) THEN Answers(target)
       ELSE IF IsArray(target) THEN CreatesArray(Items(target))
       ELSE Refuses

BytesOf(v) == IF IsText(v) THEN v.text ELSE Spelling(v)

\* An object beside a string ends the program at once (exit), the other
\* refusals are returned.
Add == \E lhs, rhs \in Operands :
    /\ Executes("add", <<lhs, rhs>>)
    /\ IF IsNumber(lhs) /\ IsNumber(rhs) THEN Answers(Number(lhs.number + rhs.number))
       ELSE IF IsText(lhs) \/ IsText(rhs)
       THEN IF IsObject(lhs) \/ IsObject(rhs) THEN Refuses
            ELSE Answers(Text(BytesOf(lhs) \o BytesOf(rhs)))
       ELSE IF IsArray(lhs) /\ IsArray(rhs) THEN CreatesArray(Items(lhs) \o Items(rhs))
       ELSE Refuses

\* values_equal and objects_equal. The loop over a map's entries goes to count,
\* not to capacity: only the keys that lie there, seen, are compared.
RECURSIVE Equals(_, _, _)
Equals(v, w, seen) ==
    \/ v = w
    \/ /\ IsArray(v) /\ IsArray(w) /\ Count(v) = Count(w)
       /\ \A i \in 1..Count(v) : Equals(Items(v)[i], Items(w)[i], seen)
    \/ /\ IsMap(v) /\ IsMap(w) /\ Count(v) = Count(w)
       /\ \A k \in DOMAIN Bindings(v) \cap seen :
             k \in DOMAIN Bindings(w) /\ Equals(Bindings(v)[k], Bindings(w)[k], seen)

\* Where the keys lie depends on their hashes: any of them may be seen.
Keys == UNION {DOMAIN objects[o].bindings :
                  o \in {p \in DOMAIN objects : "bindings" \in DOMAIN objects[p]}}

Equal == \E v \in {x}, w \in Operands, seen \in SUBSET Keys :
    Executes("equal", <<v, w>>) /\ Answers(Bool(Equals(v, w, seen)))

Falsey(v) == \/ IsNull(v)
             \/ IsBool(v) /\ ~v.truth
             \/ IsNumber(v) /\ v.number = 0
             \/ IsText(v) /\ v.text = <<>>
             \/ IsObject(v) /\ Count(v) = 0

Not == \E v \in {x} : Executes("not", <<v>>) /\ Answers(Bool(Falsey(v)))

Length == \E v \in {x} :
    /\ Executes("len", <<v>>)
    /\ Careful => IsContainer(v)
    /\ IF IsContainer(v) THEN Answers(Whole(Count(v))) ELSE Refuses

Push == \E array \in {x, y}, v \in Operands :
    /\ Executes("push", <<array, v>>)
    /\ MayHold(array, v)
    /\ IF IsArray(array)
       THEN /\ Count(array) < program.items
            /\ Changes(array, [items |-> Append(Items(array), v)], Null)
       ELSE Refuses

\* On an empty array count wraps, and the memory far behind the elements is read.
Pop == \E array \in {x, y} :
    /\ Executes("pop", <<array>>)
    /\ Careful /\ IsArray(array) => Items(array) # <<>>
    /\ IF IsArray(array) /\ Items(array) = <<>> THEN Stops("undefined")
       ELSE IF IsArray(array)
       THEN Changes(array, [items |-> From(Items(array), 0, Count(array) - 1)],
                    Items(array)[Count(array)])
       ELSE Refuses

Contains == \E container \in {x}, v \in Operands, seen \in SUBSET Keys :
    /\ Executes("contains", <<container, v>>)
    /\ Careful => IsObject(container)
    /\ IF IsArray(container)
       THEN Answers(Bool(\E i \in 1..Count(container) : Equals(v, Items(container)[i], seen)))
       ELSE IF IsMap(container) /\ IsText(v)
       THEN Answers(Bool(v.text \in DOMAIN Bindings(container)))
       ELSE Refuses

Next ==
    \/ Load \/ Keep \/ MakeArray \/ MakeMap
    \/ Get \/ Set \/ Slice \/ SliceUnder \/ SliceAbove \/ Copy
    \/ Add \/ Equal \/ Not \/ Length \/ Push \/ Pop \/ Contains

Spec == Init /\ [][Next]_vars

(*****************************************************************************)
(* Properties.                                                                *)
(*****************************************************************************)
\* The values in use: the operands and what the objects hold.
Held == {x, y} \cup UNION {IF "items" \in DOMAIN objects[o]
                           THEN {objects[o].items[i] : i \in DOMAIN objects[o].items}
                           ELSE {objects[o].bindings[k] : k \in DOMAIN objects[o].bindings} :
                              o \in DOMAIN objects}

TypeOK ==
    /\ program \in Programs
    /\ status \in {"running", "error", "undefined"}
    /\ \A v \in Held : /\ DOMAIN v \in {{"null"}, {"truth"}, {"number"}, {"text"}, {"object"}}
                       /\ IsNumber(v) => v.number \in Int
                       /\ IsText(v) => v.text \in Seq(0..255)
                       /\ IsObject(v) => v.object \in DOMAIN objects

\* The characters of a text, told from the bytes that continue one alone.
Continues(byte) == byte \in 128..191
EndOf(bytes, start) ==
    CHOOSE n \in (start + 1)..Len(bytes) :
        /\ n = Len(bytes) \/ ~Continues(bytes[n + 1])
        /\ \A i \in (start + 2)..n : Continues(bytes[i])
Characters(bytes) ==
    LET Behind[start \in 0..Len(bytes)] ==
            IF start = Len(bytes) THEN <<>>
            ELSE <<From(bytes, start, EndOf(bytes, start))>> \o Behind[EndOf(bytes, start)]
    IN  Behind[0]

WholeCharacter(bytes) ==
    Len(bytes) = CASE bytes[1] < 128 -> 1 [] bytes[1] \in 192..223 -> 2
                   [] bytes[1] \in 224..239 -> 3 [] bytes[1] \in 240..247 -> 4
                   [] OTHER -> 0

\* No slice, index or concatenation cuts a character of a string in two.
CharactersWhole ==
    \A v \in Held : IsText(v) => \A i \in DOMAIN Characters(v.text) :
                                    WholeCharacter(Characters(v.text)[i])

\* The same values with strings as sequences of characters.
Meaning(v) == IF IsText(v) THEN Text(Characters(v.text)) ELSE v
AllMeaning(values) == [i \in DOMAIN values |-> Meaning(values[i])]
ObjectMeaning(object) ==
    IF "items" \in DOMAIN object THEN [items |-> AllMeaning(object.items)]
    ELSE [bindings |->
            [k \in {Characters(t) : t \in DOMAIN object.bindings} |->
                Meaning(object.bindings[CHOOSE t \in DOMAIN object.bindings :
                                           Characters(t) = k])]]

Meant == INSTANCE ContainerSpec WITH
    x <- Meaning(x), y <- Meaning(y),
    objects <- [o \in DOMAIN objects |-> ObjectMeaning(objects[o])],
    instruction <- [instruction EXCEPT !.args = AllMeaning(@)]

\* Arrays, strings and maps are what ContainerSpec says: sequences of elements
\* and of characters, shared or copied, compared by their contents.
ImplementsContainerSpec == Meant!Spec

(* What the documents say of the calls that careful programs do not make. *)

\* An index outside is refused: "arr[-7] # error: index out of bounds"
\* (docs/syntax.md:49).
IndexesChecked ==
    (/\ instruction.op \in {"get", "set"}
     /\ LET target == instruction.args[1] index == instruction.args[2]
        IN  /\ IsText(target) \/ IsArray(target)
            /\ IsNumber(index) /\ Resolved(index, Count(target)) < 0)
        => status = "error"

\* What is no container has no length: "len(89) # null"
\* (docs/builtins/global.md:265).
LengthAnswers ==
    instruction.op = "len" /\ ~IsContainer(instruction.args[1])
        => status = "running" /\ x = Null

\* A string contains the strings that occur in it, "contains(str, "cd") # false",
\* "contains(str, "ab") # true", and what is no container nothing,
\* "contains(4, "ab") # null" (docs/builtins/global.md:285-288).
Occurs(bytes, within) == \E start \in 0..Len(within) : \E end \in start..Len(within) :
                            From(within, start, end) = bytes
ContainsAnswers ==
    instruction.op = "contains" =>
        LET container == instruction.args[1] v == instruction.args[2]
        IN  /\ IsText(container) /\ IsText(v) =>
                  status = "running" /\ x = Bool(Occurs(v.text, container.text))
            /\ ~IsContainer(container) => status = "running" /\ x = Null

\* An array can be popped as often as one likes: "arr = [5]", "array_pop(arr) # 5",
\* "array_pop(arr) # null" (docs/builtins/global.md:123-126).
PopAnswers ==
    instruction.op = "pop" /\ IsArray(instruction.args[1]) => status = "running"

\* The four together.
AsDocumented == IndexesChecked /\ LengthAnswers /\ ContainsAnswers /\ PopAnswers
===============================================================================
