-------------------------------- MODULE Parser --------------------------------
(*****************************************************************************)
(* The parser: parser.c, reading the tokens of lexer.c one ahead.             *)
(*                                                                            *)
(* The parser is a recursive descent; calls is its C stack, the running       *)
(* function first. An activation waits at a point of its function (at) for    *)
(* the value its callee returns; parse_stmt and parse_unary_expr only choose  *)
(* a function by the next token, which is then entered directly.              *)
(*                                                                            *)
(* The program is chosen while it is read: what the lexer returns next is any *)
(* token of the language of the run. Tokens of equal standing are one token   *)
(* here: "=" stands for all assignment operators, "==" for all comparisons,   *)
(* "*" for * / %, "literal" for numbers and strings, "break" for break and    *)
(* continue. The text of identifiers and literals is left out.                *)
(*****************************************************************************)
EXTENDS Integers, Sequences, FiniteSets

CONSTANT
    Languages   \* [tokens, max]: what programs are written in, their length

VARIABLES
    language,   \* the one this run uses
    input,      \* tokens read so far; the last one is parser.next_token
    nodes,      \* parser.ast.nodes
    extra,      \* parser.ast.extra
    calls,      \* activations of the parser's functions
    result,     \* what the last function returned
    reported    \* parser_error has been called

vars == <<language, input, nodes, extra, calls, result, reported>>

Invalid == 0    \* INVALID_NODE_IDX, INVALID_EXTRA_IDX; indices are from 1 here
Pending == -1   \* no function has returned since the running one went on

Operators == {"=", "==", "+", "-", "*", "**"}
Prefixes == {"-", "!"}

Lowest == 0
Prefix == 6
PrecedenceOf(token) ==
    CASE token = "="             -> 1
      [] token = "=="            -> 2
      [] token \in {"+", "-"}    -> 3
      [] token = "*"             -> 4
      [] token = "**"            -> 5
      [] token \in {"(", "[", "."} -> 7
      [] OTHER                   -> Lowest

(*****************************************************************************)
(* Tokens, nodes and the stack of calls.                                      *)
(*****************************************************************************)
Peek == input[Len(input)]

Tokens == IF Len(input) < language.max THEN language.tokens \cup {"eof"}
                                       ELSE {"eof"}

\* parser_advance: the token that was next is consumed, t is next.
Advance == \E t \in Tokens : input' = Append(input, t)

Top == Head(calls)
Entering(at) == calls # <<>> /\ Top.at = at /\ result = Pending
Returned(at) == calls # <<>> /\ Top.at = at /\ result # Pending
Resuming(at) == Returned(at) /\ result # Invalid

\* token is the next token when the function is called, which is the one its
\* first parser_advance returns. first (history) is where the expression in
\* progress began.
Called(at, precedence, node, first) ==
    [at |-> at, precedence |-> precedence, node |-> node, list |-> <<>>,
     token |-> Len(input'), first |-> first]
Expression(precedence) == Called("expr", precedence, Invalid, Len(input'))
Statement == Called("stmt", Lowest, Invalid, Len(input'))

Goes(frame) == calls' = <<frame>> \o Tail(calls)
GoesTo(at) == Goes([Top EXCEPT !.at = at])
Calls(callee, frame) == calls' = <<callee, frame>> \o Tail(calls) /\ result' = Pending
Return(value) == calls' = Tail(calls) /\ result' = value

\* ast_push. first and last (history) are the tokens of the construct.
NodeAt(token, tag, lhs, rhs) ==
    [tag |-> tag, lhs |-> lhs, rhs |-> rhs, source |-> token,
     first |-> token, last |-> Len(input') - 1]
Node(tag, lhs, rhs) ==
    [NodeAt(Top.token, tag, lhs, rhs) EXCEPT !.first = Top.first]
Push(new) == nodes' = nodes \o new
ReturnNodes(new) == Push(new) /\ Return(Len(nodes) + Len(new))
ReturnNode(tag, lhs, rhs) == ReturnNodes(<<Node(tag, lhs, rhs)>>)

\* Where the list added to extra by this step begins.
Start == Len(extra) + 1
Counted(list) == <<Len(list)>> \o list

Error == /\ reported' = TRUE
         /\ Return(Invalid)
         /\ UNCHANGED <<language, input, nodes, extra>>

Stays == UNCHANGED <<language, extra, reported>>
Silent == UNCHANGED <<language, nodes, extra, reported>>

\* Mutant: a block goes on with the next statement after one that failed.
FailRecovering ==
    /\ calls # <<>> /\ result = Invalid
    /\ Top.at \notin {"start", "end"}
    /\ IF Top.at = "statements" THEN result' = Pending /\ UNCHANGED calls
                                ELSE Return(Invalid)
    /\ Silent /\ UNCHANGED input

\* "if (x == INVALID_NODE_IDX) return INVALID_NODE_IDX", which every caller
\* does but parse_subscript_access.
Fail ==
    /\ calls # <<>> /\ result = Invalid
    /\ Top.at \notin {"start", "end"}
    /\ Return(Invalid)
    /\ Silent /\ UNCHANGED input

Init ==
    /\ language \in Languages
    /\ \E t \in language.tokens \cup {"eof"} : input = <<t>>
    /\ nodes = <<>> /\ extra = <<>>
    /\ calls = <<[at |-> "program", precedence |-> Lowest, node |-> Invalid,
                  list |-> <<>>, token |-> 1, first |-> 1]>>
    /\ result = Pending
    /\ reported = FALSE
(*****************************************************************************)
(* Lists: the loops of parse, parse_block, parse_call, parse_array, parse_map *)
(* and parse_function.                                                        *)
(*****************************************************************************)
NextElement(at, closer, Callee) ==
    /\ Entering(at) /\ Peek # closer
    /\ UNCHANGED input /\ Silent
    /\ Calls(Callee, Top)

\* Mutant: an element counts only if a comma follows.
KeepSeparated(element, at) ==
    /\ UNCHANGED <<language, nodes, extra>>
    /\ IF input'[Len(input')] = "eof"
       THEN reported' = TRUE /\ Return(Invalid)
       ELSE /\ Goes([Top EXCEPT !.at = at,
                                !.list = IF input' = input THEN @ ELSE Append(@, element)])
            /\ result' = Pending /\ UNCHANGED reported

\* A comma after an element may be left out.
SkipComma == IF Peek = "," THEN Advance ELSE UNCHANGED input

\* The element goes to the list, unless the program ends first.
Keep(element, at) ==
    /\ UNCHANGED <<language, nodes, extra>>
    /\ IF input'[Len(input')] = "eof"
       THEN reported' = TRUE /\ Return(Invalid)
       ELSE /\ Goes([Top EXCEPT !.at = at, !.list = Append(@, element)])
            /\ result' = Pending /\ UNCHANGED reported

KeepElement(from, at) == Resuming(from) /\ SkipComma /\ Keep(result, at)

Closing(at, closer) ==
    /\ Entering(at) /\ Peek = closer
    /\ Advance
    /\ UNCHANGED <<language, reported>>

ParseBlock ==
    \/ /\ Entering("stmt") /\ Peek = "{"
       /\ Advance /\ GoesTo("statements")
       /\ Silent /\ UNCHANGED result
    \/ NextElement("statements", "}", Statement)
    \/ Resuming("statements") /\ UNCHANGED input /\ Keep(result, "statements")
    \/ /\ Closing("statements", "}")
       /\ extra' = extra \o Top.list
       /\ ReturnNode("block", Start, Len(Top.list))

ParseCall ==
    \/ /\ Entering("binary") /\ Peek = "("
       /\ Advance /\ GoesTo("arguments")
       /\ Silent /\ UNCHANGED result
    \/ NextElement("arguments", ")", Expression(Lowest))
    \/ KeepElement("arguments", "arguments")
    \/ /\ Closing("arguments", ")")
       /\ IF Top.list = <<>>
          THEN UNCHANGED extra /\ ReturnNode("call", Top.node, Invalid)
          ELSE /\ extra' = extra \o Counted(Top.list)
               /\ ReturnNode("call", Top.node, Start)

ParseArray ==
    \/ /\ Entering("unary") /\ Peek = "["
       /\ Advance /\ GoesTo("array")
       /\ Silent /\ UNCHANGED result
    \/ NextElement("array", "]", Expression(Lowest))
    \/ KeepElement("array", "array")
    \/ /\ Closing("array", "]")
       /\ extra' = extra \o Top.list
       /\ ReturnNode("array", Start, Len(Top.list))

ParseMap ==
    \/ /\ Entering("unary") /\ Peek = "{"
       /\ Advance /\ GoesTo("pairs")
       /\ Silent /\ UNCHANGED result
    \/ /\ Entering("pairs") /\ Peek # "}"
       /\ UNCHANGED input /\ Silent
       /\ Calls(Expression(Lowest), [Top EXCEPT !.at = "key"])
    \/ Resuming("key") /\ Peek # ":" /\ Error
    \/ /\ Resuming("key") /\ Peek = ":"
       /\ Advance /\ Silent
       /\ Calls(Expression(Lowest),
                [Top EXCEPT !.at = "value", !.list = Append(@, result)])
    \/ KeepElement("value", "pairs")
    \/ /\ Closing("pairs", "}")
       /\ extra' = extra \o Top.list
       /\ ReturnNode("map", Start, Len(Top.list) \div 2)
(*****************************************************************************)
(* Expressions.                                                               *)
(*****************************************************************************)
ParseIdentifier ==
    /\ Entering("unary") /\ Peek = "identifier"
    /\ Advance /\ Stays
    /\ ReturnNode("identifier", Invalid, Invalid)

\* Strings, integers and floating-point numbers; the text may be refused: an
\* unknown escape, a digit that is none, a number too big.
ParseLiteral ==
    /\ Entering("unary") /\ Peek = "literal"
    /\ Advance
    /\ UNCHANGED <<language, extra>>
    /\ \/ ReturnNode("literal", Invalid, Invalid) /\ UNCHANGED reported
       \/ Return(Invalid) /\ reported' = TRUE /\ UNCHANGED nodes

ParseParentheses ==
    \/ /\ Entering("unary") /\ Peek = "("
       /\ Advance /\ Silent
       /\ Calls(Expression(Lowest), [Top EXCEPT !.at = "parentheses"])
    \/ Resuming("parentheses") /\ Peek # ")" /\ Error
    \/ /\ Resuming("parentheses") /\ Peek = ")"
       /\ Advance /\ Silent
       /\ Return(result)

FunctionNode(list, body) ==
    Node("function", IF list = <<>> THEN Invalid ELSE Start, body)
AddParameters(list) ==
    extra' = IF list = <<>> THEN extra ELSE extra \o Counted(list)

ParseFunction ==
    \/ /\ Entering("unary") /\ Peek = "fn"
       /\ Advance /\ GoesTo("parameters")
       /\ Silent /\ UNCHANGED result
    \/ Entering("parameters") /\ Peek \notin {"=>", "{", "identifier"} /\ Error
    \/ /\ Entering("parameters") /\ Peek = "identifier"
       /\ Advance /\ Stays
       /\ Push(<<NodeAt(Len(input), "identifier", Invalid, Invalid)>>)
       /\ GoesTo("parameter") /\ UNCHANGED result
    \/ Entering("parameter") /\ SkipComma /\ Keep(Len(nodes), "parameters")
    \/ /\ Entering("parameters") /\ Peek = "=>"
       /\ Advance /\ Silent
       /\ Calls(Expression(Lowest),
                [Top EXCEPT !.at = "arrow", !.node = Len(input)])
    \/ /\ Entering("parameters") /\ Peek = "{"
       /\ UNCHANGED input /\ Silent
       /\ Calls(Statement, [Top EXCEPT !.at = "body"])
    \/ /\ Resuming("arrow")
       /\ UNCHANGED <<language, input, reported>>
       /\ AddParameters(Top.list)
       /\ ReturnNodes(<<NodeAt(Top.node, "return", Invalid, result),
                        FunctionNode(Top.list, Len(nodes) + 1)>>)
    \/ /\ Resuming("body")
       /\ UNCHANGED <<language, input, reported>>
       /\ AddParameters(Top.list)
       /\ ReturnNodes(<<FunctionNode(Top.list, result)>>)

\* Mutant: the operand takes all operators that follow.
ParseUnaryOpLoose ==
    \/ /\ Entering("unary") /\ Peek \in Prefixes
       /\ Advance /\ Silent
       /\ Calls(Expression(Lowest), [Top EXCEPT !.at = "operand"])
    \/ /\ Resuming("operand")
       /\ UNCHANGED input /\ Stays
       /\ ReturnNode(IF input[Top.token] = "-" THEN "neg" ELSE "not", Invalid, result)

ParseUnaryOp ==
    \/ /\ Entering("unary") /\ Peek \in Prefixes
       /\ Advance /\ Silent
       /\ Calls(Expression(Prefix), [Top EXCEPT !.at = "operand"])
    \/ /\ Resuming("operand")
       /\ UNCHANGED input /\ Stays
       /\ ReturnNode(IF input[Top.token] = "-" THEN "neg" ELSE "not", Invalid, result)

\* Mutant: the token that begins no expression is skipped.
UnknownExpressionSkipped ==
    /\ Entering("unary")
    /\ Peek \notin {"identifier", "literal", "(", "fn", "[", "{"} \cup Prefixes
    /\ Advance
    /\ reported' = TRUE /\ Return(Invalid)
    /\ UNCHANGED <<language, nodes, extra>>

UnknownExpression ==
    /\ Entering("unary")
    /\ Peek \notin {"identifier", "literal", "(", "fn", "[", "{"} \cup Prefixes
    /\ Error

ParseUnaryExpr ==
    \/ ParseIdentifier \/ ParseLiteral \/ ParseParentheses \/ ParseFunction
    \/ ParseArray \/ ParseMap \/ ParseUnaryOp \/ UnknownExpression

\* Mutant: the right operand takes in operators of the same precedence too.
BinaryOpRightward(tokens, at) ==
    \/ /\ Entering("binary") /\ Peek \in tokens
       /\ Advance /\ Silent
       /\ Calls(Expression(PrecedenceOf(Peek) - 1), [Top EXCEPT !.at = at])
    \/ /\ Resuming(at)
       /\ UNCHANGED input /\ Stays
       /\ ReturnNode(input[Top.token], Top.node, result)

\* parse_assign and parse_binary_op: the right operand takes in the operators
\* that bind more tightly.
BinaryOp(tokens, at) ==
    \/ /\ Entering("binary") /\ Peek \in tokens
       /\ Advance /\ Silent
       /\ Calls(Expression(PrecedenceOf(Peek)), [Top EXCEPT !.at = at])
    \/ /\ Resuming(at)
       /\ UNCHANGED input /\ Stays
       /\ ReturnNode(input[Top.token], Top.node, result)

ParseAssign == BinaryOp({"="}, "assigned")
ParseBinaryOp == BinaryOp(Operators \ {"="}, "rhs")

ParseMemberAccess ==
    \/ /\ Entering("binary") /\ Peek = "."
       /\ Advance /\ GoesTo("member")
       /\ Silent /\ UNCHANGED result
    \/ Entering("member") /\ Peek # "identifier" /\ Error
    \/ /\ Entering("member") /\ Peek = "identifier"
       /\ Advance /\ Stays
       /\ ReturnNodes(<<NodeAt(Len(input), "identifier", Invalid, Invalid),
                        Node("member", Top.node, Len(nodes) + 1)>>)

\* The nodes are pushed before the bracket is looked for.
CloseSubscript(new) ==
    /\ UNCHANGED <<language, extra>>
    /\ IF Peek = "]"
       THEN Advance /\ ReturnNodes(new) /\ UNCHANGED reported
       ELSE UNCHANGED input /\ Push(new) /\ Return(Invalid) /\ reported' = TRUE

SliceNodes(start, end) ==
    <<[Node("bounds", start, end) EXCEPT !.first = Top.token],
      Node("slice", Top.node, Len(nodes) + 1)>>

\* list holds the start of a slice. What the index and the two ends are is not
\* looked at: they may be invalid.
ParseSubscriptAccess ==
    \/ /\ Entering("binary") /\ Peek = "["
       /\ Advance /\ GoesTo("index")
       /\ Silent /\ UNCHANGED result
    \/ /\ Entering("index") /\ Peek # ":"
       /\ UNCHANGED input /\ Silent
       /\ Calls(Expression(Lowest), [Top EXCEPT !.at = "start"])
    \/ Returned("start") /\ Peek # ":"
       /\ CloseSubscript(<<Node("subscript", Top.node, result)>>)
    \/ /\ \/ Entering("index") /\ Peek = ":"
             /\ Goes([Top EXCEPT !.at = "colon", !.list = <<Invalid>>])
          \/ Returned("start") /\ Peek = ":"
             /\ Goes([Top EXCEPT !.at = "colon", !.list = <<result>>])
       /\ Advance /\ Silent
       /\ result' = Pending
    \/ /\ Entering("colon") /\ Peek # "]"
       /\ UNCHANGED input /\ Silent
       /\ Calls(Expression(Lowest), [Top EXCEPT !.at = "end"])
    \/ /\ \/ Entering("colon") /\ Peek = "]"
          \/ Returned("end")
       /\ CloseSubscript(SliceNodes(Top.list[1], IF Top.at = "end" THEN result ELSE Invalid))

ParseBinaryExpr ==
    ParseAssign \/ ParseCall \/ ParseMemberAccess \/ ParseSubscriptAccess \/ ParseBinaryOp

ParseExpr ==
    \/ /\ Entering("expr")
       /\ UNCHANGED input /\ Silent
       /\ Calls(Called("unary", Lowest, Invalid, Len(input')), [Top EXCEPT !.at = "lhs"])
    \/ /\ Resuming("lhs") /\ PrecedenceOf(Peek) > Top.precedence
       /\ UNCHANGED input /\ Silent
       /\ Calls(Called("binary", Lowest, result, Top.first), Top)
    \/ /\ Resuming("lhs") /\ PrecedenceOf(Peek) <= Top.precedence
       /\ UNCHANGED input /\ Silent
       /\ Return(result)
(*****************************************************************************)
(* Statements. parse_block and parse_conditional are called by others only    *)
(* when the next token is theirs, as parse_stmt does.                         *)
(*****************************************************************************)
\* keyword condition: the loop or the conditional waits for its condition.
Condition(keyword, at) ==
    /\ Entering("stmt") /\ Peek = keyword
    /\ Advance /\ Silent
    /\ Calls(Expression(Lowest), [Top EXCEPT !.at = at])

\* "=> statement" or a block.
Body(frame) ==
    \/ Peek = "=>" /\ Advance /\ Silent /\ Calls(Statement, frame)
    \/ Peek = "{" /\ UNCHANGED input /\ Silent /\ Calls(Statement, frame)
    \/ Peek \notin {"=>", "{"} /\ Error

ParseWhileLoop ==
    \/ Condition("while", "while")
    \/ Resuming("while") /\ Body([Top EXCEPT !.at = "loop", !.node = result])
    \/ /\ Resuming("loop")
       /\ UNCHANGED input /\ Stays
       /\ ReturnNode("while", Top.node, result)

Conditional(trueCase, falseCase) ==
    /\ UNCHANGED <<language, input, reported>>
    /\ extra' = extra \o <<trueCase, falseCase>>
    /\ ReturnNode("if", Top.node, Start)

ParseConditional ==
    \/ Condition("if", "if")
    \/ Resuming("if") /\ Body([Top EXCEPT !.at = "then", !.node = result])
    \/ Resuming("then") /\ Peek # "else" /\ Conditional(result, Invalid)
    \/ /\ Resuming("then") /\ Peek = "else"
       /\ Advance /\ Silent
       /\ Goes([Top EXCEPT !.at = "else", !.list = <<result>>])
       /\ result' = Pending
    \/ Entering("else") /\ Peek # "if" /\ Body([Top EXCEPT !.at = "otherwise"])
    \/ /\ Entering("else") /\ Peek = "if"
       /\ UNCHANGED input /\ Silent
       /\ Calls(Statement, [Top EXCEPT !.at = "otherwise"])
    \/ Resuming("otherwise") /\ Conditional(Top.list[1], result)

ParseReturn ==
    \/ Condition("return", "returned")
    \/ /\ Resuming("returned")
       /\ UNCHANGED input /\ Stays
       /\ ReturnNode("return", Invalid, result)

ParseStmt ==
    \/ ParseBlock \/ ParseWhileLoop \/ ParseConditional \/ ParseReturn
    \/ /\ Entering("stmt") /\ Peek = "break"
       /\ Advance /\ Stays
       /\ ReturnNode("break", Invalid, Invalid)
    \/ /\ Entering("stmt") /\ Peek \notin {"{", "while", "if", "return", "break"}
       /\ UNCHANGED input /\ Silent
       /\ Goes(Expression(Lowest)) /\ UNCHANGED result

Parse ==
    \/ NextElement("program", "eof", Statement)
    \/ /\ Resuming("program")
       /\ Goes([Top EXCEPT !.list = Append(@, result)])
       /\ result' = Pending
       /\ UNCHANGED input /\ Silent
    \/ /\ Entering("program") /\ Peek = "eof"
       /\ UNCHANGED <<language, input, reported>>
       /\ extra' = extra \o Top.list
       /\ ReturnNode("block", Start, Len(Top.list))

Next == Parse \/ ParseStmt \/ ParseExpr \/ ParseUnaryExpr \/ ParseBinaryExpr \/ Fail

Spec == Init /\ [][Next]_vars

\* The parser runs in one thread and waits for nothing.
FairSpec == Spec /\ WF_vars(Next)

(*****************************************************************************)
(* Properties.                                                                *)
(*****************************************************************************)
Tags == Operators \cup
    {"neg", "not", "identifier", "literal", "block", "call", "array", "map",
     "function", "return", "break", "while", "if", "member", "subscript",
     "slice", "bounds"}

Indices == 0..Len(nodes)

\* The tree's arrays are of the shape ast.h describes, and every activation
\* belongs to tokens already read.
TypeOK ==
    /\ language \in Languages
    /\ input \in Seq(language.tokens \cup {"eof"}) /\ input # <<>>
    /\ \A n \in DOMAIN nodes :
          /\ nodes[n].tag \in Tags
          /\ nodes[n].first <= nodes[n].source /\ nodes[n].source <= Len(input)
    /\ extra \in Seq(Nat)
    /\ \A c \in DOMAIN calls :
          /\ calls[c].node \in Nat
          /\ calls[c].list \in Seq(Indices)
          /\ calls[c].first <= calls[c].token /\ calls[c].token <= Len(input)
    /\ result \in Indices \cup {Pending}
    /\ reported \in BOOLEAN

\* A program without an error.
Accepted == calls = <<>> /\ result # Invalid /\ ~reported

\* The children of a node in the order of the source, as the compiler reads
\* them from its payload.
Present(n) == IF n = Invalid THEN <<>> ELSE <<n>>
Listed(from, start, count) == [i \in 1..count |-> from[start + i - 1]]
Counting(from, at) == IF at = Invalid THEN <<>> ELSE Listed(from, at + 1, from[at])
Kids(node, from) ==
    CASE node.tag \in Operators \cup {"member", "subscript", "slice", "while"}
            -> <<node.lhs, node.rhs>>
      [] node.tag \in {"neg", "not", "return"} -> <<node.rhs>>
      [] node.tag = "bounds"             -> Present(node.lhs) \o Present(node.rhs)
      [] node.tag \in {"block", "array"} -> Listed(from, node.lhs, node.rhs)
      [] node.tag = "map"                -> Listed(from, node.lhs, 2 * node.rhs)
      [] node.tag = "call"               -> <<node.lhs>> \o Counting(from, node.rhs)
      [] node.tag = "function"           -> Append(Counting(from, node.lhs), node.rhs)
      [] node.tag = "if"  -> <<node.lhs>> \o Present(from[node.rhs]) \o Present(from[node.rhs + 1])
      [] OTHER            -> <<>>
Children(n) == Kids(nodes[n], extra)

\* Everybody but the program has one parent, and children lie inside their
\* parent's tokens, one after the other.
OneParent ==
    \A c \in DOMAIN nodes :
        Cardinality({n \in DOMAIN nodes :
                        \E i \in DOMAIN Children(n) : Children(n)[i] = c})
            = IF c = result THEN 0 ELSE 1
ChildrenInOrder ==
    \A n \in DOMAIN nodes : LET children == Children(n) IN
        \A i \in DOMAIN children :
            /\ children[i] \in 1..(n - 1)
            /\ nodes[n].first <= nodes[children[i]].first
            /\ nodes[children[i]].last <= nodes[n].last
            /\ i > 1 => nodes[children[i - 1]].last < nodes[children[i]].first

\* The tokens that say something, and the node each becomes.
TagOf(token) == CASE token = "fn" -> {"function"}
                  [] token = "." -> {"member"}
                  [] token = "!" -> {"not"}
                  [] token = "-" -> {"neg", "-"}
                  [] OTHER       -> {token}
Punctuation == {"(", ")", "[", "]", "{", "}", ",", ":", "=>", "else"}
TokensKept ==
    \A t \in 1..(Len(input) - 1) :
        input[t] \notin Punctuation =>
            Cardinality({n \in DOMAIN nodes : /\ nodes[n].source = t
                                              /\ nodes[n].tag \in TagOf(input[t])}) = 1

\* A program that is accepted without an error has become a tree: no node is
\* lost or shared, none of the lists that the parser collects while others are
\* collected overlap in extra, and every token is represented once.
TreeIsTheProgram == Accepted => OneParent /\ ChildrenInOrder /\ TokensKept

\* An operand that is not in parentheses binds more tightly than its operator;
\* operators of equal precedence associate to the left, exponentiation included.
\* Of assignments to assignments nothing is said here (AssignmentsChain).
OperatorsBind ==
    \A n \in DOMAIN nodes :
        LET node == nodes[n]
            operator(c) == nodes[c].tag \in Operators
        IN  /\ node.tag \in Operators =>
                 /\ (/\ node.lhs # Invalid /\ operator(node.lhs)
                     /\ nodes[node.lhs].last = node.source - 1)
                     => PrecedenceOf(nodes[node.lhs].tag) >= PrecedenceOf(node.tag)
                 /\ (operator(node.rhs) /\ nodes[node.rhs].first = node.source + 1)
                     => \/ PrecedenceOf(nodes[node.rhs].tag) > PrecedenceOf(node.tag)
                        \/ node.tag = "=" /\ nodes[node.rhs].tag = "="
            /\ node.tag \in {"neg", "not"} =>
                 ~ (operator(node.rhs) /\ nodes[node.rhs].first = node.source + 1)

\* Ends of lines do not count: an expression goes on as long as the tokens
\* allow it, and an else belongs to the nearest if. Only a break, which takes
\* nothing, and what ends with a body do not look at the next token.
StatementsMaximal ==
    \A n \in DOMAIN nodes :
        LET follower == input[nodes[n].last + 1]
        IN  /\ (nodes[n].tag = "if" /\ extra[nodes[n].rhs + 1] = Invalid)
                 => follower # "else"
            /\ nodes[n].tag = "block" =>
                 \A i \in DOMAIN Children(n) : LET s == nodes[Children(n)[i]] IN
                    s.tag \notin {"block", "if", "while", "break"} =>
                        PrecedenceOf(input[s.last + 1]) = Lowest

\* The tree is the one the precedence table gives.
TreeFollowsGrammar == Accepted => OperatorsBind /\ StatementsMaximal

\* Assignments can be chained: "name = arr[0] = map["name"] = "yhya"" assigns one
\* value to the three (docs/syntax.md:80-88), so that the target of an assignment
\* is no assignment.
AssignmentsChain ==
    Accepted =>
        \A n \in DOMAIN nodes :
            LET target == nodes[nodes[n].lhs]
            IN  nodes[n].tag = "=" /\ target.last = nodes[n].source - 1
                    => target.tag # "="

\* The lexer is never asked for a token after the end of the file: it would
\* read past the terminating null character.
NeverPastEnd == \A i \in 1..(Len(input) - 1) : input[i] # "eof"

(*****************************************************************************)
(* The inductive invariant of ParserProofs.                                   *)
(*****************************************************************************)
Points == {"program", "stmt", "statements", "while", "loop", "if", "then", "else", "otherwise",
           "returned", "expr", "lhs", "unary", "parentheses", "array", "pairs", "key", "value",
           "parameters", "parameter", "arrow", "body", "operand", "binary", "assigned", "rhs",
           "arguments", "member", "index", "start", "colon", "end"}
Starting == {"stmt", "expr", "unary", "binary"}
Frames == [at : Points, precedence : Nat, node : Nat, list : Seq(Nat), token : Nat, first : Nat]
Trees == [tag : Tags, lhs : Nat, rhs : Nat, source : Nat, first : Nat, last : Nat]

\* What an activation has noted is of the tokens read, and of as many nodes as were built.
Fits(frame, read, built) ==
    /\ frame \in Frames
    /\ \A i \in DOMAIN frame.list : frame.list[i] \in 0 .. built
    /\ frame.first \in 1 .. frame.token /\ frame.token <= Len(read)
    /\ frame.at = "arrow" => frame.node \in 1 .. Len(read)
    /\ frame.at \in {"assigned", "rhs"} => read[frame.token] \in Operators
    /\ frame.at \in {"else", "otherwise", "colon", "end"} => frame.list # <<>>

\* A token is asked for only when the next one is known not to be the last: when the
\* parser has seen what it is (parser.c:66-74).
Reading ==
    /\ language \in Languages
    /\ input \in Seq(language.tokens \cup {"eof"}) /\ input # <<>>
    /\ NeverPastEnd
    /\ nodes \in Seq(Trees)
    /\ \A n \in DOMAIN nodes :
          nodes[n].first <= nodes[n].source /\ nodes[n].source <= Len(input)
    /\ extra \in Seq(Nat)
    /\ calls \in Seq(Frames)
    /\ \A c \in DOMAIN calls :
          /\ Fits(calls[c], input, Len(nodes))
          /\ calls[c].at \in Starting =>
                c = 1 /\ result = Pending /\ calls[c].token = Len(input)
    /\ result \in Indices \cup {Pending}
    /\ reported \in BOOLEAN

(* What there is of the tree before it is finished, as long as no error was reported. *)

\* The nodes an activation has collected, and the one it is about to.
Held(frame) ==
    (IF frame.at = "arrow" THEN <<>> ELSE Present(frame.node))
        \o (IF frame.at \in {"colon", "end"} THEN Present(frame.list[1]) ELSE frame.list)
Given == IF calls # <<>> /\ Top.at = "parameter" THEN Len(nodes)
         ELSE IF result = Pending THEN Invalid ELSE result

\* The first token that is left to the functions an activation calls.
Outside == {"program", "lhs"} \cup Starting
Reach(frame) == IF frame.at \in Outside THEN frame.first
                ELSE IF frame.at = "arrow" THEN frame.node + 1 ELSE frame.token + 1

\* A node's payload is written.
Stored(node, from) ==
    /\ node.tag \in {"block", "array"} => node.lhs > 0 /\ node.lhs + node.rhs <= Len(from) + 1
    /\ node.tag = "map" => node.lhs > 0 /\ node.lhs + 2 * node.rhs <= Len(from) + 1
    /\ node.tag = "call" /\ node.rhs # Invalid =>
          node.rhs <= Len(from) /\ node.rhs + from[node.rhs] <= Len(from)
    /\ node.tag = "function" /\ node.lhs # Invalid =>
          node.lhs <= Len(from) /\ node.lhs + from[node.lhs] <= Len(from)
    /\ node.tag = "if" => node.rhs > 0 /\ node.rhs < Len(from)

\* list is in the order of the source.
InOrder(list, tree) ==
    \A i, j \in DOMAIN list : i < j => tree[list[i]].last < tree[list[j]].first

\* Nobody's child.
Root(n, tree, lists) == \A p \in DOMAIN tree : \A i \in DOMAIN Kids(tree[p], lists) :
                            Kids(tree[p], lists)[i] # n

\* A node's children are older, lie inside its tokens, and follow one another.
Family(node, n, tree, lists) ==
    LET kids == Kids(node, lists)
    IN  /\ InOrder(kids, tree)
        /\ \A i \in DOMAIN kids : /\ kids[i] \in 1 .. (n - 1)
                                  /\ node.first <= tree[kids[i]].first
                                  /\ tree[kids[i]].last <= node.last

\* An activation holds roots, in order and not before its first token.
Holds(frame, tree, lists, size) ==
    /\ frame.first <= Reach(frame) /\ Reach(frame) <= size
    /\ InOrder(Held(frame), tree)
    /\ \A i \in DOMAIN Held(frame) : /\ Held(frame)[i] \in DOMAIN tree
                                     /\ Root(Held(frame)[i], tree, lists)
                                     /\ frame.first <= tree[Held(frame)[i]].first

\* What an activation has read ends before a token.
Precedes(frame, tree, t) ==
    Reach(frame) <= t /\ \A i \in DOMAIN Held(frame) : tree[Held(frame)[i]].last < t

\* Nodes have one parent and one place, and those of which the parser has let go have a parent.
Forest(tree, lists, frames, given, size) ==
    /\ \A n \in DOMAIN tree :
          Stored(tree[n], lists) /\ tree[n].last < size /\ Family(tree[n], n, tree, lists)
    /\ \A n, p \in DOMAIN tree : \A i \in DOMAIN Kids(tree[n], lists) :
          \A j \in DOMAIN Kids(tree[p], lists) :
             Kids(tree[n], lists)[i] = Kids(tree[p], lists)[j] => n = p
    /\ \A c \in DOMAIN frames :
          /\ Holds(frames[c], tree, lists, size)
          /\ \A b \in 1 .. (c - 1) : Precedes(frames[c], tree, frames[b].first)
          /\ given # Invalid => Precedes(frames[c], tree, tree[given].first)
    /\ given # Invalid => given \in DOMAIN tree /\ Root(given, tree, lists)
    /\ \A n \in DOMAIN tree :
          Root(n, tree, lists) =>
             \/ n = given
             \/ \E c \in DOMAIN frames : \E i \in DOMAIN Held(frames[c]) : Held(frames[c])[i] = n

\* The tokens of every node are read.
Spans(tree, size) == \A n \in DOMAIN tree : tree[n].first <= tree[n].last /\ tree[n].source < size

\* The token that an activation's function began with.
Opener(at) ==
    CASE at \in {"statements", "pairs", "key", "value"}           -> {"{"}
      [] at \in {"arguments", "parentheses"}                      -> {"("}
      [] at \in {"array", "index", "start", "colon", "end"}       -> {"["}
      [] at \in {"while", "loop"}                                 -> {"while"}
      [] at \in {"if", "then", "else", "otherwise"}               -> {"if"}
      [] at \in {"parameters", "parameter", "arrow", "body"}      -> {"fn"}
      [] at = "returned" -> {"return"}
      [] at = "operand"  -> Prefixes
      [] at = "member"   -> {"."}
      [] at = "assigned" -> {"="}
      [] at = "rhs"      -> Operators \ {"="}
      [] OTHER           -> {}

\* What an activation holds is what its function has at this point.
Formed(frame, tree, read) ==
    /\ frame.at \notin Outside => frame.token < Len(read) /\ read[frame.token] \in Opener(frame.at)
    /\ frame.at = "arrow" =>
          /\ frame.token < frame.node /\ frame.node < Len(read) /\ read[frame.node] = "=>"
          /\ \A i \in DOMAIN frame.list : tree[frame.list[i]].last < frame.node
    /\ frame.at \in {"index", "start", "colon", "end"} => tree[frame.node].last < frame.token
    /\ frame.at \in {"colon", "end"} =>
          /\ Len(frame.list) = 1
          /\ frame.list[1] # Invalid => frame.token < tree[frame.list[1]].first
    /\ frame.at \in {"else", "otherwise"} => Len(frame.list) = 1
    /\ frame.at \in {"stmt", "expr", "lhs", "unary", "while", "if", "returned", "parentheses",
                     "operand", "binary", "assigned", "rhs", "member", "index", "start", "loop",
                     "then"} => frame.list = <<>>
    /\ frame.at \in {"binary", "arguments", "assigned", "rhs", "member", "index", "start", "colon",
                     "end", "loop", "then", "else", "otherwise"} <=> frame.node # Invalid /\ frame.at # "arrow"
    /\ frame.at \in {"stmt", "expr", "unary", "parentheses"} => frame.token = frame.first
    /\ frame.at \in {"pairs", "key"} => Len(frame.list) % 2 = 0
    /\ frame.at = "value" => Len(frame.list) % 2 = 1

\* Every token that says something and was read is that of one node, or of one of the
\* activations whose first tokens are begun.
Represents(node, t, read) ==
    node.source = t /\ node.tag \in TagOf(read[t]) /\ read[t] \notin Punctuation
Known == Operators \cup Prefixes \cup Punctuation
             \cup {"identifier", "literal", "fn", "if", "while", "return", "break", "."}
Begun(frames) == {frames[c].token : c \in {c \in DOMAIN frames : frames[c].at \notin Outside}}
Kept(tree, begun, read) ==
    /\ \A t \in 1 .. (Len(read) - 1) :
          /\ read[t] \in Known
          /\ read[t] \notin Punctuation /\ t \notin begun =>
                \E n \in DOMAIN tree : Represents(tree[n], t, read)
    /\ \A t \in 1 .. (Len(read) - 1) : \A n \in DOMAIN tree : Represents(tree[n], t, read) =>
          t \notin begun /\ \A p \in DOMAIN tree : Represents(tree[p], t, read) => n = p

Whole ==
    ~reported =>
        /\ result # Invalid
        /\ Forest(nodes, extra, calls, Given, Len(input))
        /\ calls # <<>> => Spans(nodes, Len(input))
        /\ Kept(nodes, Begun(calls), input)
        /\ \A c \in DOMAIN calls :
              /\ Formed(calls[c], nodes, input)
              /\ calls[c].at = "parameter" => c = 1 /\ result = Pending /\ nodes # <<>>
              /\ calls[c].at = "program" => c = Len(calls)

(* Which operators the activations wait for. *)

Infix == {"binary", "arguments", "assigned", "rhs", "member", "index", "start", "colon", "end"}
Unary == {"unary", "parentheses", "array", "pairs", "key", "value", "parameters", "parameter",
          "arrow", "body", "operand"}
Statements == {"stmt", "statements", "while", "loop", "if", "then", "else", "otherwise", "returned"}

\* How tightly an operand's operators must bind.
Rank(frame, read) == IF frame.at = "operand" THEN Prefix ELSE PrecedenceOf(read[frame.token])

\* An activation and the one that called it.
Linked(above, below, read) ==
    /\ above.at \in Infix =>
          below.at = "lhs" /\ PrecedenceOf(read[above.token]) > below.precedence
    /\ below.at = "lhs" => above.at \in Infix \cup Unary /\ above.first = below.first
    /\ below.at \in {"assigned", "rhs", "operand"} =>
          /\ above.at \in {"expr", "lhs"}
          /\ above.precedence = Rank(below, read) /\ above.first = below.token + 1
    /\ below.at \in {"program", "statements"} =>
          above.at \in Statements \cup {"expr", "lhs"}
    /\ below.at = "returned" => above.at \in {"expr", "lhs"}
    /\ below.at \in {"program", "statements", "returned"} /\ above.at \in {"expr", "lhs"} =>
          above.precedence = Lowest

\* No operator can go on with a statement that ended.
Quiet(node, read) ==
    node.tag \notin {"block", "if", "while", "break"} =>
        PrecedenceOf(read[node.last + 1]) = Lowest

\* A node that is returned to an activation.
Answers(node, frame, read) ==
    LET next == PrecedenceOf(read[Len(read)])
    IN  /\ node.last + 1 = Len(read) \/ read[node.last + 1] = ")"
        /\ frame.at = "lhs" /\ node.tag \in Operators =>
              /\ node.first = frame.first => PrecedenceOf(node.tag) > frame.precedence
              /\ node.last + 1 = Len(read) => next <= PrecedenceOf(node.tag)
        /\ frame.at \in {"assigned", "rhs", "operand"} =>
              /\ node.tag \in Operators /\ node.first = frame.token + 1 =>
                    PrecedenceOf(node.tag) > Rank(frame, read)
              /\ next <= Rank(frame, read)
        /\ frame.at \in {"program", "statements"} => Quiet(node, read)
        /\ frame.at = "returned" => next = Lowest

Binding ==
    ~reported =>
        /\ OperatorsBind /\ StatementsMaximal
        /\ calls # <<>> => calls[Len(calls)].at = "program"
        /\ calls # <<>> /\ result # Pending => Answers(nodes[result], Top, input)
        /\ \A c \in DOMAIN calls :
              /\ c < Len(calls) => Linked(calls[c], calls[c + 1], input)
              /\ (/\ calls[c].at \in {"binary", "assigned", "rhs"}
                  /\ nodes[calls[c].node].tag \in Operators
                  /\ nodes[calls[c].node].last + 1 = calls[c].token)
                  => PrecedenceOf(input[calls[c].token])
                       <= PrecedenceOf(nodes[calls[c].node].tag)
              /\ calls[c].at \in {"program", "statements"} =>
                    \A i \in DOMAIN calls[c].list : Quiet(nodes[calls[c].list[i]], input)

\* The inductive invariant of the two.
IInv == Reading /\ Whole /\ Binding

\* The parser comes to an end with every program.
ParseEnds == <>(calls = <<>>)

===============================================================================
