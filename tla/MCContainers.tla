----------------------------- MODULE MCContainers -----------------------------
(* The programs of the Containers runs. *)
EXTENDS Containers

A == Text(<<97>>)
Acute == Text(<<195, 169>>)
Euro == Text(<<226, 130, 172>>)
Clef == Text(<<240, 157, 132, 158>>)
Empty == Text(<<>>)

Reading == {"load", "keep", "get", "slice", "under", "above", "copy"}

Program(ops, literals, indexes, bounds) ==
    [ops |-> ops, literals |-> literals, indexes |-> indexes, bytes |-> bounds[1],
     numbers |-> bounds[2], items |-> bounds[3], objects |-> bounds[4]]

MCPrograms == {
    \* Strings of characters of one to four bytes.
    Program(Reading \cup {"add"}, {Empty, A, Acute, Euro}, {-4, -3, -2, 0, 2, 4, 6}, <<5, 0, 0, 0>>),
    Program(Reading \cup {"add"}, {A, Clef}, {-4, -2, 0, 2, 4}, <<6, 0, 0, 0>>),
    \* Strings and the values they are joined with.
    Program({"load", "add", "equal", "not", "len"},
            {Empty, Acute, Null, Bool(FALSE), Number(-1)}, {}, <<5, 10, 0, 0>>),
    \* Two arrays, shared, sliced and changed.
    Program(Reading \cup {"array", "set", "push", "pop"}, {Whole(1)},
            {-4, -2, 0, 1, 2, 4}, <<0, 2, 2, 2>>),
    Program({"load", "keep", "array", "add", "set", "len"}, {Whole(1)}, {0}, <<0, 4, 3, 2>>),
    \* Arrays in arrays, compared.
    Program({"load", "keep", "array", "set", "push", "equal", "contains", "not"},
            {Whole(1)}, {0, 2}, <<0, 2, 2, 2>>),
    \* Maps, compared.
    Program({"load", "keep", "map", "equal"}, {A, Acute}, {}, <<2, 0, 0, 2>>),
    Program({"load", "keep", "map", "get", "set", "contains", "len", "not"},
            {A, Acute}, {0}, <<2, 4, 0, 1>>) }

\* instruction says what the last step was and decides nothing.
View == <<program, x, y, objects, status>>
===============================================================================
