--------------------------------- MODULE Heap ---------------------------------
(*****************************************************************************)
(* The objects of a VM: vm_gc.c, the intern table of vm_map.c, and import, of  *)
(* vm_builtins.c, which works on interned strings.                             *)
(*                                                                             *)
(* The program allocates and links objects; any allocation may start a         *)
(* collection (bytes are not counted), which marks from the roots, drops the   *)
(* strings left unmarked from the intern table, and sweeps the list of all     *)
(* objects. A collection is taken apart into the steps of its recursions and   *)
(* of its walk. The first step that would use freed memory ends the behaviour: *)
(* nothing can be said of the program from there on.                           *)
(*                                                                             *)
(* Values that are no objects, natives and numbers of bytes are left out; the  *)
(* null of a call that is a statement is dropped with the call. One function   *)
(* stands for all of the file: its arity and what its closures capture are     *)
(* chosen when they are needed.                                                *)
(*****************************************************************************)
EXTENDS Integers, Sequences

CONSTANTS
    Programs,     \* the path of the file, its string literals, whether it has a
                  \* function, and how many objects there may be while it runs.
                  \* A text is a sequence of characters
    PathIsText,   \* the program may also use a string that is its file's path
    MaxText, MaxStack, MaxItems, MaxFrames, MaxUpvalues

\* A literal is a string of the table: there is one of each text.
ASSUME ProgramsAssumption ==
    \A p \in Programs :
        /\ p.path \in Seq(STRING) /\ p.literals \in Seq(Seq(STRING))
        /\ \A i, j \in DOMAIN p.literals : p.literals[i] = p.literals[j] => i = j

VARIABLES
    program,   \* what the running chunk was compiled from
    objects,   \* by address, in the order they were allocated
    head,      \* vm.objects
    table,     \* addresses in vm.strings
    stack,     \* the stack's memory: what was popped stays where it was
    sp,        \* how many objects of it are on the stack
    frames,    \* [closure, slots]: slots is how many objects lie below its first
    open,      \* vm.open_upvalues, [upvalue, slot] by the pointers next of the list
    building,  \* the closure whose upvalues OP_MAKE_CLOSURE is gathering, or Nil
    phase,
    pending,   \* objects that vm_mark_object is about to be called with
    freeing,   \* calls of vm_free_object, the running one first
    prev, curr \* locals of vm_sweep_objects

heap == <<objects, head, table>>
machine == <<stack, sp, frames, open, building>>
collector == <<pending, freeing, prev, curr>>
vars == <<program, heap, machine, phase, collector>>

Nil == 0

\* What vm_load_file has allocated before the program runs, in its order. The
\* table of interned strings is an object like any other.
InternTable == 1
Globals == 2
Main == 3
MainClosure == 4
Modules == 5
FirstLiteral == 6

Addresses == DOMAIN objects

\* refs: what a value or a pointer in the object leads to. keys: of a map; hash:
\* the text a string was hashed with (no two texts of the runs collide); hollow:
\* the items of a string have been freed without it. The refs of an upvalue are its
\* closed value, and the neighbour it had in the list: next is never reset. While
\* it is open it has none, see LeadsTo.
Object(tag, refs, next) ==
    [tag |-> tag, refs |-> refs, keys |-> <<>>, text |-> <<>>, hash |-> <<>>,
     marked |-> FALSE, freed |-> FALSE, hollow |-> FALSE, next |-> next]
String(text, next) == [Object("string", <<>>, next) EXCEPT !.text = text, !.hash = text]

IsString(o) == objects[o].tag = "string"
ItemsOf(list) == {list[i] : i \in DOMAIN list}

(*****************************************************************************)
(* Strings. h is the heap in the middle of a step, h.at the object at hand.   *)
(*****************************************************************************)
Now == [objects |-> objects, head |-> head, table |-> table, at |-> Nil]

Alloc(h, object) ==
    [h EXCEPT !.objects = Append(@, object), !.head = Len(h.objects) + 1,
              !.at = Len(h.objects) + 1]

\* vm_find_string.
Matches(h, text) == {s \in h.table : h.objects[s].hash = text /\ h.objects[s].text = text}

\* Mutant: a string is copied without a look at the table.
Copied(h, text) == LET new == Alloc(h, String(text, h.head))
                   IN  [new EXCEPT !.table = @ \cup {new.at}]

\* vm_copy_string and the end of vm_concat_strings.
Interned(h, text) ==
    IF Matches(h, text) # {} THEN [h EXCEPT !.at = CHOOSE s \in Matches(h, text) : TRUE]
    ELSE LET new == Alloc(h, String(text, h.head))
         IN  [new EXCEPT !.table = @ \cup {new.at}]

\* The text up to its last slash.
Directory(text) ==
    SubSeq(text, 1, CHOOSE n \in 0..Len(text) :
                        /\ n > 0 => text[n] = "/"
                        /\ \A i \in (n + 1)..Len(text) : text[i] # "/")

Becomes(h) == /\ objects' = h.objects /\ head' = h.head /\ table' = h.table
              /\ Len(h.objects) <= program.maxObjects

(*****************************************************************************)
(* The program.                                                               *)
(*****************************************************************************)
FunctionOf(closure) == objects[closure].refs[1]
Frame == frames[Len(frames)]
Top == stack[sp]
Has(n) == sp - Frame.slots >= n
OnStack == SubSeq(stack, 1, sp)

Running == phase = "running" /\ building = Nil /\ UNCHANGED <<program, phase, collector>>

Written(position, value) == IF position <= Len(stack) THEN [stack EXCEPT ![position] = value]
                                                      ELSE Append(stack, value)
Drops(n) == sp' = sp - n /\ UNCHANGED <<stack, frames, open, building>>
Pushes(n, value) == /\ stack' = Written(sp - n + 1, value)
                    /\ sp' = sp - n + 1 /\ sp' <= MaxStack
                    /\ UNCHANGED <<frames, open, building>>

\* A native's null is written over its first argument, in a slot that is no variable.
DropsArguments(n) == Drops(n) /\ \A i \in DOMAIN open : open[i].slot # sp - n + 1

Init ==
    /\ program \in Programs
    /\ LET texts == program.literals
           last == Len(texts) + FirstLiteral - 1
           inner == IF program.hasFunction THEN <<last + 1>> ELSE <<>>
           constants == [i \in DOMAIN texts |-> i + FirstLiteral - 1] \o inner
        IN  /\ PathIsText \/ program.path \notin ItemsOf(texts)
            /\ objects =
                 << Object("map", <<>>, Nil), Object("map", <<Modules>>, InternTable),
                    Object("function", Append(constants, Globals), Globals),
                    Object("closure", <<Main>>, Main), Object("map", <<>>, MainClosure) >>
                 \o [i \in DOMAIN texts |-> String(texts[i], i + FirstLiteral - 2)]
                 \o (IF program.hasFunction
                     THEN << Object("function", <<>>, last), Object("closure", inner, last + 1) >>
                     ELSE <<>>)
            /\ head = Len(objects)
            /\ table = FirstLiteral..last
            /\ stack = <<>> /\ sp = 0 /\ open = <<>> /\ building = Nil
            /\ frames = << [closure |-> MainClosure, slots |-> 0] >>
            /\ phase = "running"
            /\ pending = <<>> /\ freeing = <<>> /\ prev = Nil /\ curr = Nil

Usable(text) == Len(text) <= MaxText /\ (text # program.path \/ PathIsText)

PushConstant ==
    /\ Running
    /\ \E c \in ItemsOf(objects[Main].refs) :
          IsString(c) /\ Usable(objects[c].text) /\ Pushes(0, c)
    /\ UNCHANGED heap

\* Also of a variable that was captured, if the compiler mixed it up with another:
\* see Upvalues.
Pop == Running /\ Has(1) /\ Drops(1) /\ UNCHANGED heap

\* A slice, from the beginning or up to the end.
Slice ==
    /\ Running /\ Has(1) /\ IsString(Top)
    /\ \E n \in 0..Len(objects[Top].text) :
       \E text \in {SubSeq(objects[Top].text, 1, n),
                    SubSeq(objects[Top].text, n + 1, Len(objects[Top].text))} :
          LET h == Interned(Now, text)
          IN  Usable(text) /\ Becomes(h) /\ Pushes(1, h.at)

Concat ==
    /\ Running /\ Has(2)
    /\ LET lhs == stack[sp - 1]
           text == objects[lhs].text \o objects[Top].text
           h == Interned(Now, text)
       IN  /\ IsString(lhs) /\ IsString(Top) /\ Usable(text)
           /\ Becomes(h) /\ Pushes(2, h.at)

MakeArray ==
    /\ Running
    /\ \E n \in 0..MaxItems :
          /\ Has(n)
          /\ LET items == SubSeq(stack, sp - n + 1, sp)
                 h == Alloc(Now, Object("array", items, head))
             IN  Becomes(h) /\ Pushes(n, h.at)

\* array_push, also of an array to itself.
ArrayPush ==
    /\ Running /\ Has(2)
    /\ LET array == stack[sp - 1]
       IN  /\ objects[array].tag = "array" /\ Len(objects[array].refs) < MaxItems
           /\ objects' = [objects EXCEPT ![array].refs = Append(@, Top)]
    /\ DropsArguments(2) /\ UNCHANGED <<head, table>>

SetGlobal ==
    /\ Running /\ Has(1)
    /\ \E name \in ItemsOf(objects[Main].refs) :
          /\ IsString(name) /\ objects[Globals].keys = <<>>
          /\ objects' = [objects EXCEPT ![Globals].keys = <<name>>,
                                        ![Globals].refs = Append(@, Top)]
    /\ UNCHANGED <<head, table, machine>>

GetGlobal ==
    /\ Running
    /\ \E value \in ItemsOf(objects[Globals].refs) \ {Modules} : Pushes(0, value)
    /\ UNCHANGED heap

(*****************************************************************************)
(* Variables and closures. The file's variables are globals: only functions    *)
(* have local ones.                                                            *)
(*****************************************************************************)
Slots == (Frame.slots + 1)..sp
InFunction == Len(frames) > 1

GetLocal ==
    /\ Running /\ InFunction
    /\ \E slot \in Slots : Pushes(0, stack[slot])
    /\ UNCHANGED heap

SetLocal ==
    /\ Running /\ InFunction /\ Has(1)
    /\ \E slot \in Slots : stack' = [stack EXCEPT ![slot] = Top]
    /\ UNCHANGED <<heap, sp, frames, open, building>>

IsOpen(o) == \E i \in DOMAIN open : open[i].upvalue = o
Place(o) == CHOOSE i \in DOMAIN open : open[i].upvalue = o
SlotOf(o) == open[Place(o)].slot
NextOf(o) == IF Place(o) < Len(open) THEN <<open[Place(o) + 1].upvalue>> ELSE <<>>

\* The upvalues of the running closure, and the variable of one.
Captured == ItemsOf(Tail(objects[Frame.closure].refs))
Variable(o) == IF IsOpen(o) THEN stack[SlotOf(o)] ELSE objects[o].refs[1]

GetUpvalue ==
    /\ Running
    /\ \E upvalue \in Captured : Pushes(0, Variable(upvalue))
    /\ UNCHANGED heap

SetUpvalue ==
    /\ Running /\ Has(1)
    /\ \E upvalue \in Captured :
          IF IsOpen(upvalue)
          THEN stack' = [stack EXCEPT ![SlotOf(upvalue)] = Top] /\ UNCHANGED objects
          ELSE objects' = [objects EXCEPT ![upvalue].refs[1] = Top] /\ UNCHANGED stack
    /\ UNCHANGED <<head, table, sp, frames, open, building>>

\* OP_MAKE_CLOSURE: the closure is allocated, its upvalues are gathered one by one,
\* and it is pushed.
BeginClosure ==
    /\ Running /\ sp < MaxStack
    /\ \E fn \in ItemsOf(objects[Main].refs) :
          /\ objects[fn].tag = "function"
          /\ LET h == Alloc([Now EXCEPT !.objects[fn].refs = <<Globals>>],
                            Object("closure", <<fn>>, head))
             IN  Becomes(h) /\ building' = h.at
    /\ UNCHANGED <<stack, sp, frames, open>>

Building == /\ phase = "running" /\ building # Nil
            /\ UNCHANGED <<program, phase, collector, frames>>

\* A function lists no variable twice (compiler.c:131).
Captures(h, upvalue) ==
    /\ Len(objects[building].refs) <= MaxUpvalues
    /\ upvalue \notin ItemsOf(objects[building].refs)
    /\ Becomes([h EXCEPT !.objects[building].refs = Append(@, upvalue)])
    /\ UNCHANGED <<stack, sp, building>>

\* The walk down the list ends behind n upvalues, at the first not above slot.
Walked(n, slot) == /\ \A i \in 1..n : open[i].slot > slot
                   /\ n < Len(open) => open[n + 1].slot <= slot

\* vm_capture_upvalue, of a slot of the running function or of the one that the
\* closure is about to be pushed to.
CaptureLocal ==
    /\ Building /\ InFunction
    /\ \E slot \in Slots \cup {sp + 1}, n \in 0..Len(open) :
          /\ Walked(n, slot)
          /\ IF n < Len(open) /\ open[n + 1].slot = slot
             THEN Captures(Now, open[n + 1].upvalue) /\ UNCHANGED open
             ELSE LET h == Alloc(Now, Object("upvalue", <<>>, head))
                      entry == [upvalue |-> h.at, slot |-> slot]
                  IN  /\ Captures(h, h.at)
                      /\ open' = SubSeq(open, 1, n) \o <<entry>> \o SubSeq(open, n + 1, Len(open))

CaptureUpvalue ==
    /\ Building
    /\ \E upvalue \in Captured : Captures(Now, upvalue)
    /\ UNCHANGED open

MakeClosure ==
    /\ Building
    /\ stack' = Written(sp + 1, building) /\ sp' = sp + 1 /\ building' = Nil
    /\ UNCHANGED <<heap, open>>

\* vm_close_upvalues: the slots from last on are about to go.
ClosesFrom(last) ==
    \E n \in 0..Len(open) :
       /\ Walked(n, last - 1)
       /\ objects' = [o \in Addresses |->
             IF \E i \in 1..n : open[i].upvalue = o
             THEN [objects[o] EXCEPT !.refs = <<stack[SlotOf(o)]>> \o NextOf(o)]
             ELSE objects[o]]
       /\ open' = SubSeq(open, n + 1, Len(open))

\* OP_CLOSE_UPVALUE.
Close ==
    /\ Running /\ InFunction /\ Has(1)
    /\ ClosesFrom(sp) /\ sp' = sp - 1
    /\ UNCHANGED <<head, table, stack, frames, building>>

\* Mutant: whatever is on top of the stack is called.
CallAnything ==
    /\ Running /\ Has(1) /\ Len(frames) < MaxFrames
    /\ \E arity \in 0..(sp - 1 - Frame.slots) :
          frames' = Append(frames, [closure |-> Top, slots |-> sp - 1 - arity])
    /\ sp' = sp - 1 /\ UNCHANGED <<heap, stack, open, building>>

\* The callee is popped: from here on only the frame refers to it.
Call ==
    /\ Running /\ Has(1) /\ objects[Top].tag = "closure" /\ Len(frames) < MaxFrames
    /\ \E arity \in 0..(sp - 1 - Frame.slots) :
          frames' = Append(frames, [closure |-> Top, slots |-> sp - 1 - arity])
    /\ sp' = sp - 1 /\ UNCHANGED <<heap, stack, open, building>>

\* With a value, or with null, which is dropped by the statement that called.
Return ==
    /\ Running /\ InFunction
    /\ ClosesFrom(Frame.slots + 1)
    /\ frames' = SubSeq(frames, 1, Len(frames) - 1)
    /\ \/ /\ Has(1) /\ sp' = Frame.slots + 1
          /\ stack' = Written(Frame.slots + 1, Top)
       \/ sp' = Frame.slots /\ UNCHANGED stack
    /\ UNCHANGED <<head, table, building>>

\* A module is looked for by the name it is imported with, and kept by the path
\* of its file. Its value is null here. The string that holds the path of the
\* importing file is cut where it is.
Import ==
    /\ phase = "running" /\ building = Nil /\ UNCHANGED <<program, collector>>
    /\ Has(1) /\ IsString(Top)
    /\ DropsArguments(1)
    /\ IF Top \in ItemsOf(objects[Modules].keys)
       THEN UNCHANGED <<heap, phase>>
       ELSE LET parent == Interned(Now, program.path)
                cut == [parent EXCEPT !.objects[parent.at].text = Directory(@)]
                directory == IF cut.objects[cut.at].text = <<>>
                             THEN Interned(cut, <<".", "/">>) ELSE cut
                file == Interned(directory, directory.objects[directory.at].text
                                              \o directory.objects[Top].text)
            IN  \/ /\ Becomes([file EXCEPT !.objects[Modules].keys =
                                           IF file.at \in ItemsOf(@) THEN @ ELSE Append(@, file.at)])
                   /\ phase' = "running"
                \/ Becomes(file) /\ phase' = "stopped"    \* there is no such file

(*****************************************************************************)
(* A collection.                                                              *)
(*****************************************************************************)
\* The running functions are roots, their closures are not.
Roots == OnStack \o [i \in DOMAIN frames |-> FunctionOf(frames[i].closure)]

\* Mutant: a marked upvalue does not lead to the next one.
LeadsToOwn(o) == objects[o].keys \o objects[o].refs
                     \o (IF IsOpen(o) THEN <<stack[SlotOf(o)]>> ELSE <<>>)

\* What vm_mark_object goes on to from an object.
LeadsTo(o) == objects[o].keys \o objects[o].refs
                  \o (IF IsOpen(o) THEN <<stack[SlotOf(o)]>> \o NextOf(o) ELSE <<>>)

Collect ==
    /\ phase = "running" /\ building = Nil /\ phase' = "marking"
    /\ pending' = Roots
    /\ UNCHANGED <<program, heap, machine, freeing, prev, curr>>

Marking == phase = "marking" /\ UNCHANGED <<program, head, table, machine,
                                            freeing, prev, curr>>

\* Mutant: an array is not marked, only what is in it.
MarkPastArrays ==
    /\ Marking /\ pending # <<>>
    /\ LET o == Head(pending)
       IN  IF objects[o].marked THEN pending' = Tail(pending) /\ UNCHANGED objects
           ELSE /\ objects' = [objects EXCEPT ![o].marked = objects[o].tag # "array"]
                /\ pending' = LeadsTo(o) \o Tail(pending)
    /\ UNCHANGED phase

Mark ==
    /\ Marking /\ pending # <<>>
    /\ LET o == Head(pending)
       IN  IF objects[o].marked THEN pending' = Tail(pending) /\ UNCHANGED objects
           ELSE /\ objects' = [objects EXCEPT ![o].marked = TRUE]
                /\ pending' = LeadsTo(o) \o Tail(pending)
    /\ UNCHANGED phase

Marked == Marking /\ pending = <<>> /\ phase' = "cleaning" /\ UNCHANGED <<objects, pending>>

DeleteWhiteStrings ==
    /\ phase = "cleaning" /\ phase' = "sweeping"
    /\ table' = {s \in table : objects[s].marked}
    /\ prev' = Nil /\ curr' = head
    /\ UNCHANGED <<program, objects, head, machine, pending, freeing>>

Sweeping == phase = "sweeping" /\ UNCHANGED <<program, table, machine, pending>>

Corrupts == phase' = "corrupt" /\ UNCHANGED <<objects, head, freeing, prev, curr>>

\* Mutant: an object that stays does not become the previous one.
SweepMarkedForgetting ==
    /\ Sweeping /\ freeing = <<>> /\ curr # Nil
    /\ ~objects[curr].freed /\ objects[curr].marked
    /\ objects' = [objects EXCEPT ![curr].marked = FALSE]
    /\ curr' = objects[curr].next
    /\ UNCHANGED <<head, freeing, phase, prev>>

SweepMarked ==
    /\ Sweeping /\ freeing = <<>> /\ curr # Nil
    /\ ~objects[curr].freed /\ objects[curr].marked
    /\ objects' = [objects EXCEPT ![curr].marked = FALSE]
    /\ prev' = curr /\ curr' = objects[curr].next
    /\ UNCHANGED <<head, freeing, phase>>

Unlink ==
    /\ Sweeping /\ freeing = <<>> /\ curr # Nil
    /\ ~objects[curr].freed /\ ~objects[curr].marked
    /\ prev # Nil => ~objects[prev].freed
    /\ IF prev = Nil THEN head' = objects[curr].next /\ UNCHANGED objects
                     ELSE /\ objects' = [objects EXCEPT ![prev].next = objects[curr].next]
                          /\ UNCHANGED head
    /\ curr' = objects[curr].next /\ freeing' = <<[object |-> curr, entered |-> FALSE]>>
    /\ UNCHANGED <<prev, phase>>

\* The walk goes on through an object that another one's end has freed.
\* It always comes to one: see CollectionEnds.
SweepFreed ==
    /\ Sweeping /\ freeing = <<>> /\ curr # Nil
    /\ ~objects[curr].freed => ~objects[curr].marked /\ prev # Nil /\ objects[prev].freed
    /\ Corrupts

\* What vm_free_object frees with an object, whoever else refers to it: all that
\* it leads to but the globals of a function, its last pointer, and the value of a
\* variable.
FreedWith(o) ==
    LET refs == objects[o].refs
    IN  CASE objects[o].tag = "upvalue"  -> <<>>
          [] objects[o].tag = "function" -> SubSeq(refs, 1, Len(refs) - 1)
          [] objects[o].tag = "closure"  -> Append(Tail(refs), Head(refs))
          [] OTHER                       -> refs

KeysOf(o) == IF o = InternTable THEN table ELSE ItemsOf(objects[o].keys)

\* The items of a map's keys are freed with the map, the keys are not.
FreeEnter ==
    /\ Sweeping /\ freeing # <<>> /\ ~Head(freeing).entered
    /\ LET o == Head(freeing).object
           CallOn(r) == [object |-> r, entered |-> FALSE]
           again == \E i \in 2..Len(freeing) : freeing[i].object = o /\ freeing[i].entered
       IN  IF \/ objects[o].freed \/ objects[o].hollow \/ again
              \/ \E k \in KeysOf(o) : objects[k].freed \/ objects[k].hollow
           THEN Corrupts
           ELSE /\ objects' = [a \in Addresses |->
                        [objects[a] EXCEPT !.hollow = @ \/ a \in KeysOf(o)]]
                /\ freeing' = [i \in DOMAIN FreedWith(o) |-> CallOn(FreedWith(o)[i])]
                                \o <<[object |-> o, entered |-> TRUE]>> \o Tail(freeing)
                /\ UNCHANGED <<head, prev, curr, phase>>

FreeLeave ==
    /\ Sweeping /\ freeing # <<>> /\ Head(freeing).entered
    /\ objects' = [objects EXCEPT ![Head(freeing).object].freed = TRUE]
    /\ freeing' = Tail(freeing)
    /\ UNCHANGED <<head, prev, curr, phase>>

Mutate ==
    \/ PushConstant \/ Pop \/ Slice \/ Concat \/ MakeArray \/ ArrayPush
    \/ SetGlobal \/ GetGlobal \/ GetLocal \/ SetLocal \/ GetUpvalue \/ SetUpvalue
    \/ BeginClosure \/ CaptureLocal \/ CaptureUpvalue \/ MakeClosure
    \/ Close \/ Call \/ Return \/ Import

Collection ==
    \/ Mark \/ Marked \/ DeleteWhiteStrings
    \/ SweepMarked \/ Unlink \/ SweepFreed \/ FreeEnter \/ FreeLeave

Next == Mutate \/ Collect \/ Collection

\* A collection runs to its end: the program waits for it.
Spec == Init /\ [][Next]_vars /\ WF_vars(Collection)

(*****************************************************************************)
(* Properties.                                                                *)
(*****************************************************************************)
TypeOK ==
    /\ \A o \in Addresses :
          /\ ItemsOf(objects[o].refs) \subseteq Addresses
          /\ ItemsOf(objects[o].keys) \subseteq Addresses
          /\ objects[o].next \in Addresses \cup {Nil}
    /\ head \in Addresses \cup {Nil}
    /\ table \subseteq {o \in Addresses : IsString(o)}
    /\ ItemsOf(stack) \subseteq Addresses /\ sp \in 0..Len(stack)
    /\ \A i \in DOMAIN frames : /\ frames[i].closure \in Addresses
                                /\ objects[frames[i].closure].tag = "closure"
                                /\ frames[i].slots \in 0..sp
    /\ \A i \in DOMAIN open : /\ open[i].upvalue \in Addresses
                              /\ objects[open[i].upvalue].tag = "upvalue"
                              /\ \/ open[i].slot \in 1..Len(stack)
                                 \/ building # Nil /\ open[i].slot = sp + 1
    /\ building \in Addresses \cup {Nil}
    /\ phase \in {"running", "stopped", "marking", "cleaning", "sweeping", "corrupt"}
    /\ ItemsOf(pending) \subseteq Addresses
    /\ {prev, curr} \subseteq Addresses \cup {Nil}

\* The strings of the program: on the stack, or left there, and in its objects.
Values == ItemsOf(stack) \cup UNION {ItemsOf(objects[o].refs) : o \in Addresses}
Strings == {o \in Values : IsString(o)}

\* "a == b must be true if they were equal strings" (vm_util.c:37): no two
\* strings of the program have the same text, although strings are edited.
StringsUnique == \A s, t \in Strings : objects[s].text = objects[t].text => s = t

\* "An immutable list of characters" (docs/data-types.md:34).
StringsKept == [][\A s \in Strings : objects'[s].text = objects[s].text]_vars

\* Nothing in S leads out of it: neither what its objects refer to nor, if one is an
\* open upvalue, its variable and the next open upvalue.
Closed(S) ==
    /\ \A o \in S : ItemsOf(objects[o].refs) \cup ItemsOf(objects[o].keys) \subseteq S
    /\ \A i \in DOMAIN open : open[i].upvalue \in S =>
          /\ stack[open[i].slot] \in S
          /\ i < Len(open) => open[i + 1].upvalue \in S

\* The marked objects are the ones that the roots lead to, and no others: they
\* are the smallest set that the roots are in and no pointer leaves. The pointers
\* from an upvalue to its neighbour in the list count (vm_gc.c:90), also after both
\* are closed: more is kept than the program can use.
Marks == {o \in Addresses : objects[o].marked}
MarkingExact ==
    phase = "cleaning" =>
        /\ ItemsOf(Roots) \subseteq Marks /\ Closed(Marks)
        /\ \A garbage \in SUBSET (Marks \ ItemsOf(Roots)) :
               Closed(Marks \ garbage) => garbage = {}

\* Whatever the sweep unlinks and frees on its way, the list leads to every
\* object that is left: it goes from the younger to the older, and neither its head
\* nor any pointer of it passes one.
Left(o) == ~objects[o].freed /\ \A i \in DOMAIN freeing : freeing[i].object # o
NoneLost ==
    phase # "corrupt" =>
        \A o \in Addresses :
           /\ objects[o].next < o
           /\ Left(o) => o <= head /\ \A p \in Addresses : p > o => objects[p].next >= o

\* A collection does not go round the cycles that the objects form. It comes to
\* an end at the closure of the file, or before: no root leads to that one, and
\* with it goes the function of the file, which the sweep still has before it.
CollectionEnds == (phase = "marking") ~> (phase = "corrupt")
===============================================================================
