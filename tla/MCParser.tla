------------------------------- MODULE MCParser --------------------------------
(* The languages of the Parser runs: parts of the syntax, each with the length
   its constructs need to meet one another. *)
EXTENDS Parser

Name == "identifier"
Written(tokens, max) == [tokens |-> tokens, max |-> max]

MCLanguages == {
    \* Three precedences and parentheses, then the others with the prefixes.
    Written({Name, "=", "==", "+", "(", ")"}, 6),
    Written({Name, "-", "*", "**", "!"}, 6),
    \* Calls, members, subscripts and slices of each other.
    Written({Name, "(", ")", "[", "]", ".", ",", ":"}, 6),
    \* Arrays and maps; a brace begins a block or a map.
    Written({Name, "[", "]", "{", "}", ":", ","}, 6),
    \* Conditionals with blocks, and one in another without.
    Written({Name, "if", "else", "{", "}"}, 7),
    Written({Name, "if", "else", "=>"}, 10),
    \* Loops and what leaves them.
    Written({Name, "while", "return", "break", "=>", "{", "}"}, 6),
    \* Functions with parameters, called, and among the elements of an array.
    Written({Name, "fn", ",", "=>", "{", "}", "("}, 6),
    Written({Name, "fn", "=>", "[", "]", ",", "-"}, 6),
    \* Tokens the parser refuses.
    Written({"literal", "invalid", "return", "break", "[", "]", "-"}, 5) }
================================================================================
