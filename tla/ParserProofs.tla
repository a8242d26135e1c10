----------------------------- MODULE ParserProofs ------------------------------
(***************************************************************************)
(* Proofs about Parser, for any languages and programs of any length.      *)
(***************************************************************************)
EXTENDS Parser, SequenceTheorems, TLAPS

--------------------------------------------------------------------------------
(* What a step may do to the tokens, the nodes and the calls *)

\* The tokens read stay, and none follows the last.
Reads ==
    /\ language' \in Languages /\ language' = language
    /\ input' \in Seq(language.tokens \cup {"eof"}) /\ input' # <<>>
    /\ Len(input) \in Nat \ {0} /\ Len(input') \in Nat /\ Len(input) <= Len(input')
    /\ \A i \in 1 .. Len(input) : input'[i] = input[i]
    /\ NeverPastEnd'

\* The nodes stay.
Grows ==
    /\ nodes' \in Seq(Trees)
    /\ Len(nodes) \in Nat /\ Len(nodes') \in Nat /\ Len(nodes) <= Len(nodes')
    /\ \A n \in DOMAIN nodes' :
          nodes'[n].first <= nodes'[n].source /\ nodes'[n].source <= Len(input')
    /\ extra' \in Seq(Nat)
    /\ reported' \in BOOLEAN

LEMMA Waits ==
    ASSUME Reading, UNCHANGED <<language, input>>
    PROVE  Reads
BY DEF Reading, Reads, NeverPastEnd

LEMMA Advances ==
    ASSUME Reading, UNCHANGED language, Peek # "eof", Advance
    PROVE  Reads /\ Len(input') = Len(input) + 1
<1>1. PICK t \in language.tokens \cup {"eof"} : input' = Append(input, t)
  BY DEF Advance, Tokens
<1>2. /\ input \in Seq(language.tokens \cup {"eof"}) /\ input # <<>>
      /\ language \in Languages
      /\ \A i \in 1 .. (Len(input) - 1) : input[i] # "eof"
  BY DEF Reading, NeverPastEnd
<1>3. /\ input' \in Seq(language.tokens \cup {"eof"}) /\ input' # <<>>
      /\ Len(input) \in Nat \ {0} /\ Len(input') = Len(input) + 1
      /\ \A i \in 1 .. Len(input) : input'[i] = input[i]
  BY <1>1, <1>2
<1>4. \A i \in 1 .. Len(input) : input[i] # "eof"
  BY <1>2, <1>3 DEF Peek
<1>5. NeverPastEnd'
  BY <1>3, <1>4 DEF NeverPastEnd
<1>. QED
  BY <1>2, <1>3, <1>5 DEF Reads

LEMMA SkipsComma ==
    ASSUME Reading, UNCHANGED language, SkipComma
    PROVE  Reads
<1>1. CASE Peek = ","
  BY <1>1, Advances DEF SkipComma
<1>2. CASE Peek # ","
  BY <1>2, Waits DEF SkipComma
<1>. QED
  BY <1>1, <1>2

LEMMA NodeFacts ==
    ASSUME Reading
    PROVE  /\ nodes \in Seq(Trees) /\ Len(nodes) \in Nat
           /\ \A n \in 1 .. Len(nodes) :
                 /\ nodes[n].first <= nodes[n].source /\ nodes[n].source <= Len(input)
                 /\ nodes[n].first \in Nat /\ nodes[n].source \in Nat
<1>1. /\ nodes \in Seq(Trees)
      /\ \A n \in DOMAIN nodes :
            nodes[n].first <= nodes[n].source /\ nodes[n].source <= Len(input)
  BY DEF Reading
<1>2. \A n \in 1 .. Len(nodes) : nodes[n] \in Trees
  BY <1>1
<1>3. \A t \in Trees : t.first \in Nat /\ t.source \in Nat
  BY DEF Trees
<1>. QED
  BY <1>1, <1>2, <1>3

LEMMA BuildsNothing ==
    ASSUME Reading, Reads, UNCHANGED <<nodes, extra>>, reported' \in BOOLEAN
    PROVE  Grows
<1>1. extra \in Seq(Nat)
  BY DEF Reading
<1>. QED
  BY <1>1, NodeFacts DEF Reads, Grows

LEMMA Builds ==
    ASSUME Reading, Reads, NEW new \in Seq(Trees), Push(new),
           \A i \in 1 .. Len(new) :
              new[i].first <= new[i].source /\ new[i].source <= Len(input'),
           extra' \in Seq(Nat), reported' \in BOOLEAN
    PROVE  Grows /\ Len(nodes') = Len(nodes) + Len(new)
<1>1. nodes \in Seq(Trees) /\ Len(nodes) \in Nat /\ nodes' = nodes \o new
  BY DEF Reading, Push
<1>2. \A n \in 1 .. Len(nodes) :
          /\ nodes[n].first <= nodes[n].source /\ nodes[n].source <= Len(input)
          /\ nodes[n].first \in Nat /\ nodes[n].source \in Nat
  BY NodeFacts
<1>3. /\ nodes' \in Seq(Trees) /\ Len(nodes') = Len(nodes) + Len(new)
      /\ \A n \in 1 .. Len(nodes') : nodes'[n] = IF n <= Len(nodes) THEN nodes[n]
                                                                   ELSE new[n - Len(nodes)]
  BY <1>1, ConcatProperties
<1>4. ASSUME NEW n \in DOMAIN nodes'
      PROVE  nodes'[n].first <= nodes'[n].source /\ nodes'[n].source <= Len(input')
  <2>1. CASE n <= Len(nodes)
    BY <1>1, <1>2, <1>3, <1>4, <2>1 DEF Reads
  <2>2. CASE n > Len(nodes)
    BY <1>1, <1>3, <1>4, <2>2
  <2>. QED
    BY <1>1, <1>3, <1>4, <2>1, <2>2
<1>. QED
  BY <1>1, <1>3, <1>4 DEF Grows

\* An activation that waits still fits.
LEMMA FitsOn ==
    ASSUME Reading, Reads, Grows, NEW f, Fits(f, input, Len(nodes))
    PROVE  Fits(f, input', Len(nodes'))
<1>1. f \in Frames
  BY DEF Fits
<1>2. \A i \in DOMAIN f.list : f.list[i] \in 0 .. Len(nodes')
  BY DEF Fits, Grows
<1>3. f.first \in 1 .. f.token /\ f.token <= Len(input') /\ f.token \in 1 .. Len(input)
  BY <1>1 DEF Fits, Reads, Frames
<1>4. f.at = "arrow" => f.node \in 1 .. Len(input')
  BY <1>1 DEF Fits, Reads, Frames
<1>5. f.at \in {"assigned", "rhs"} => input'[f.token] \in Operators
  BY <1>3 DEF Fits, Reads
<1>. QED
  BY <1>1, <1>2, <1>3, <1>4, <1>5 DEF Fits

LEMMA TopFits ==
    ASSUME Reading, calls # <<>>
    PROVE  /\ Top \in Frames /\ Fits(Top, input, Len(nodes))
           /\ Top.at \in Starting => result = Pending /\ Top.token = Len(input)
           /\ Tail(calls) \in Seq(Frames)
           /\ \A c \in 1 .. Len(Tail(calls)) :
                 Fits(Tail(calls)[c], input, Len(nodes)) /\ Tail(calls)[c].at \notin Starting
<1>1. /\ calls \in Seq(Frames) /\ Len(calls) \in Nat \ {0}
      /\ \A c \in 1 .. Len(calls) :
            /\ Fits(calls[c], input, Len(nodes))
            /\ calls[c].at \in Starting =>
                  c = 1 /\ result = Pending /\ calls[c].token = Len(input)
  BY DEF Reading
<1>2. Tail(calls) \in Seq(Frames) /\ Len(Tail(calls)) = Len(calls) - 1
      /\ \A c \in 1 .. Len(Tail(calls)) : Tail(calls)[c] = calls[c + 1]
  BY <1>1
<1>3. Top = calls[1]
  BY <1>1 DEF Top
<1>4. \A c \in 1 .. Len(Tail(calls)) : c + 1 \in 1 .. Len(calls) /\ c + 1 # 1
  BY <1>1, <1>2
<1>. QED
  BY <1>1, <1>2, <1>3, <1>4 DEF Fits

\* The three ways to go on.
LEMMA GoingOn ==
    ASSUME Reading, Reads, Grows, calls # <<>>, NEW new \in Seq(Frames), calls' = new \o Tail(calls),
           \A c \in 1 .. Len(new) :
              /\ Fits(new[c], input', Len(nodes'))
              /\ new[c].at \in Starting =>
                    c = 1 /\ result' = Pending /\ new[c].token = Len(input'),
           result' \in Indices' \cup {Pending}
    PROVE  Reading'
<1>1. /\ Tail(calls) \in Seq(Frames)
      /\ \A c \in 1 .. Len(Tail(calls)) :
            Fits(Tail(calls)[c], input', Len(nodes')) /\ Tail(calls)[c].at \notin Starting
  BY TopFits, FitsOn
<1>2. /\ calls' \in Seq(Frames) /\ Len(calls') = Len(new) + Len(Tail(calls))
      /\ Len(new) \in Nat /\ Len(Tail(calls)) \in Nat
      /\ \A c \in 1 .. Len(calls') :
            calls'[c] = IF c <= Len(new) THEN new[c] ELSE Tail(calls)[c - Len(new)]
  BY <1>1, ConcatProperties
<1>3. ASSUME NEW c \in DOMAIN calls'
      PROVE  /\ Fits(calls'[c], input', Len(nodes'))
             /\ calls'[c].at \in Starting =>
                   c = 1 /\ result' = Pending /\ calls'[c].token = Len(input')
  <2>1. CASE c <= Len(new)
    BY <1>2, <1>3, <2>1
  <2>2. CASE c > Len(new)
    <3>1. c - Len(new) \in 1 .. Len(Tail(calls)) /\ calls'[c] = Tail(calls)[c - Len(new)]
      BY <1>2, <1>3, <2>2
    <3>. QED
      BY <1>1, <3>1
  <2>. QED
    BY <1>2, <1>3, <2>1, <2>2
<1>. QED
  BY <1>2, <1>3 DEF Reading, Reads, Grows

LEMMA Returning ==
    ASSUME Reading, Reads, Grows, calls # <<>>, NEW v \in 0 .. Len(nodes'), Return(v)
    PROVE  Reading'
<1>1. calls' = <<>> \o Tail(calls) /\ <<>> \in Seq(Frames)
  BY TopFits DEF Return
<1>2. result' \in Indices'
  BY DEF Return, Indices
<1>3. 1 .. Len(<<>>) = {}
  OBVIOUS
<1>. QED
  BY <1>1, <1>2, <1>3, GoingOn

LEMMA Going ==
    ASSUME Reading, Reads, Grows, calls # <<>>, NEW f, Goes(f), Fits(f, input', Len(nodes')),
           f.at \in Starting => result' = Pending /\ f.token = Len(input'),
           result' = result \/ result' = Pending
    PROVE  Reading'
<1>1. <<f>> \in Seq(Frames) /\ Len(<<f>>) = 1 /\ <<f>>[1] = f
  BY DEF Fits
<1>2. result' \in Indices' \cup {Pending}
  BY DEF Reading, Indices, Grows, Pending
<1>3. calls' = <<f>> \o Tail(calls)
  BY DEF Goes
<1>4. \A c \in 1 .. Len(<<f>>) :
         /\ Fits(<<f>>[c], input', Len(nodes'))
         /\ <<f>>[c].at \in Starting =>
               c = 1 /\ result' = Pending /\ <<f>>[c].token = Len(input')
  BY <1>1
<1>. QED
  BY <1>1, <1>2, <1>3, <1>4, GoingOn

LEMMA Calling ==
    ASSUME Reading, Reads, Grows, calls # <<>>, NEW g, NEW f, Calls(g, f),
           Fits(f, input', Len(nodes')), f.at \notin Starting,
           Fits(g, input', Len(nodes')), g.token = Len(input')
    PROVE  Reading'
<1>1. /\ <<g, f>> \in Seq(Frames) /\ Len(<<g, f>>) = 2
      /\ <<g, f>>[1] = g /\ <<g, f>>[2] = f
  BY DEF Fits
<1>2. result' = Pending /\ calls' = <<g, f>> \o Tail(calls)
  BY DEF Calls
<1>3. \A c \in 1 .. Len(<<g, f>>) :
         /\ Fits(<<g, f>>[c], input', Len(nodes'))
         /\ <<g, f>>[c].at \in Starting =>
               c = 1 /\ result' = Pending /\ <<g, f>>[c].token = Len(input')
  BY <1>1, <1>2
<1>. QED
  BY <1>1, <1>2, <1>3, GoingOn

LEMMA ReturningNodes ==
    ASSUME Reading, Reads, calls # <<>>, NEW new \in Seq(Trees), ReturnNodes(new),
           \A i \in 1 .. Len(new) :
              new[i].first <= new[i].source /\ new[i].source <= Len(input'),
           extra' \in Seq(Nat), reported' \in BOOLEAN
    PROVE  Reading'
<1>1. Grows /\ Len(nodes') = Len(nodes) + Len(new)
  BY Builds DEF ReturnNodes
<1>2. Return(Len(nodes) + Len(new)) /\ Len(nodes) + Len(new) \in 0 .. Len(nodes')
  BY <1>1 DEF ReturnNodes, Grows
<1>. QED
  BY <1>1, <1>2, Returning

LEMMA NodeFits ==
    ASSUME Reading, Reads, calls # <<>>, NEW tag \in Tags, NEW lhs \in Nat, NEW rhs \in Nat
    PROVE  /\ Node(tag, lhs, rhs) \in Trees
           /\ Node(tag, lhs, rhs).first = Top.first /\ Node(tag, lhs, rhs).source = Top.token
           /\ Top.first <= Top.token /\ Top.token <= Len(input')
<1>1. /\ Top \in Frames /\ Top.first \in 1 .. Top.token /\ Top.token <= Len(input)
  BY TopFits DEF Fits
<1>2. Top.first \in Nat /\ Top.token \in Nat
  BY <1>1 DEF Frames
<1>3. Top.first <= Top.token /\ Top.token <= Len(input')
  BY <1>1, <1>2 DEF Reads
<1>4. Len(input') - 1 \in Nat
  BY DEF Reads
<1>. QED
  BY <1>2, <1>3, <1>4 DEF Node, NodeAt, Trees

LEMMA NodeAtFits ==
    ASSUME Reading, Reads, NEW token \in 1 .. Len(input), NEW tag \in Tags, NEW lhs \in Nat, NEW rhs \in Nat
    PROVE  /\ NodeAt(token, tag, lhs, rhs) \in Trees
           /\ NodeAt(token, tag, lhs, rhs).first = token
           /\ NodeAt(token, tag, lhs, rhs).source = token
           /\ token <= Len(input')
BY DEF NodeAt, Trees, Reads

LEMMA ReturningNode ==
    ASSUME Reading, Reads, calls # <<>>, NEW tag \in Tags, NEW lhs \in Nat, NEW rhs \in Nat,
           ReturnNode(tag, lhs, rhs), extra' \in Seq(Nat), reported' \in BOOLEAN
    PROVE  Reading'
<1>. DEFINE node == Node(tag, lhs, rhs)
<1>1. /\ node \in Trees /\ node.first = Top.first /\ node.source = Top.token
      /\ Top.first <= Top.token /\ Top.token <= Len(input')
  BY NodeFits
<1>2. ReturnNodes(<<node>>)
  BY DEF ReturnNode
<1>. HIDE DEF node
<1>3. <<node>> \in Seq(Trees) /\ Len(<<node>>) = 1 /\ <<node>>[1] = node
  BY <1>1
<1>4. \A i \in 1 .. Len(<<node>>) :
         <<node>>[i].first <= <<node>>[i].source /\ <<node>>[i].source <= Len(input')
  BY <1>1, <1>3
<1>. QED
  BY <1>2, <1>3, <1>4, ReturningNodes

LEMMA CalleeFits ==
    ASSUME Reads, Grows, NEW at \in {"expr", "stmt", "unary", "binary"}, NEW p \in Nat,
           NEW n \in Nat, NEW t \in 1 .. Len(input')
    PROVE  Fits(Called(at, p, n, t), input', Len(nodes')) /\ Called(at, p, n, t).token = Len(input')
<1>1. /\ at \in Points /\ at \notin {"arrow", "assigned", "rhs", "else", "otherwise", "colon", "end"}
      /\ Len(input') \in Nat /\ t \in Nat
  BY DEF Points, Reads
<1>2. Called(at, p, n, t) \in Frames
  BY <1>1 DEF Called, Frames
<1>. QED
  BY <1>1, <1>2 DEF Called, Fits

LEMMA ExpressionFits ==
    ASSUME Reads, Grows, NEW p \in Nat
    PROVE  Fits(Expression(p), input', Len(nodes')) /\ Expression(p).token = Len(input')
BY CalleeFits DEF Expression, Invalid, Reads

LEMMA StatementFits ==
    ASSUME Reads, Grows
    PROVE  Fits(Statement, input', Len(nodes')) /\ Statement.token = Len(input')
BY CalleeFits DEF Statement, Invalid, Lowest, Reads

Special == {"arrow", "assigned", "rhs", "else", "otherwise", "colon", "end"} \cup Starting

\* The changes that an activation makes to itself.
LEMMA MovedFits ==
    ASSUME Reading, Reads, Grows, calls # <<>>, NEW at \in Points \ Special
    PROVE  /\ Fits([Top EXCEPT !.at = at], input', Len(nodes'))
           /\ [Top EXCEPT !.at = at].at \notin Starting
<1>1. Top \in Frames /\ Fits(Top, input', Len(nodes'))
  BY TopFits, FitsOn
<1>. QED
  BY <1>1 DEF Fits, Frames, Special

LEMMA HoldingFits ==
    ASSUME Reading, Reads, Grows, calls # <<>>, NEW at \in Points \ Special, NEW n \in Nat
    PROVE  /\ Fits([Top EXCEPT !.at = at, !.node = n], input', Len(nodes'))
           /\ [Top EXCEPT !.at = at, !.node = n].at \notin Starting
<1>1. Top \in Frames /\ Fits(Top, input', Len(nodes'))
  BY TopFits, FitsOn
<1>. QED
  BY <1>1 DEF Fits, Frames, Special

LEMMA ListingFits ==
    ASSUME Reading, Reads, Grows, calls # <<>>, NEW at \in Points \ Special,
           NEW v \in 0 .. Len(nodes')
    PROVE  /\ Fits([Top EXCEPT !.at = at, !.list = Append(@, v)], input', Len(nodes'))
           /\ [Top EXCEPT !.at = at, !.list = Append(@, v)].at \notin Starting
<1>1. Top \in Frames /\ Fits(Top, input', Len(nodes')) /\ v \in Nat
  BY TopFits, FitsOn DEF Grows
<1>2. Top.list \in Seq(Nat) /\ \A i \in DOMAIN Top.list : Top.list[i] \in 0 .. Len(nodes')
  BY <1>1 DEF Fits, Frames
<1>3. /\ Append(Top.list, v) \in Seq(Nat)
      /\ \A i \in DOMAIN Append(Top.list, v) : Append(Top.list, v)[i] \in 0 .. Len(nodes')
  BY <1>1, <1>2
<1>. QED
  BY <1>1, <1>3 DEF Fits, Frames, Special

LEMMA ResultFacts ==
    ASSUME Reading
    PROVE  /\ Len(nodes) \in Nat /\ extra \in Seq(Nat) /\ reported \in BOOLEAN
           /\ result # Pending => result \in 0 .. Len(nodes) /\ result \in Nat
BY DEF Reading, Indices, Pending

LEMMA ListFacts ==
    ASSUME Reading, calls # <<>>
    PROVE  /\ Top.list \in Seq(Nat) /\ Len(Top.list) \in Nat /\ Top.node \in Nat
           /\ Len(extra) \in Nat /\ Start \in Nat
           /\ extra \o Top.list \in Seq(Nat)
           /\ extra \o Counted(Top.list) \in Seq(Nat)
<1>1. Top \in Frames /\ extra \in Seq(Nat)
  BY TopFits, ResultFacts
<1>2. Top.list \in Seq(Nat) /\ Top.node \in Nat
  BY <1>1 DEF Frames
<1>. QED
  BY <1>1, <1>2 DEF Start, Counted

--------------------------------------------------------------------------------
(* Lists *)

LEMMA NextElementStep ==
    ASSUME Reading, NEW at, NEW closer, NEW Callee, NextElement(at, closer, Callee),
           Reads /\ Grows => Fits(Callee, input', Len(nodes')) /\ Callee.token = Len(input'),
           at \notin Starting
    PROVE  Reading'
<1>1. Reads /\ calls # <<>> /\ Calls(Callee, Top)
  BY Waits DEF NextElement, Entering, Silent
<1>2. Grows
  BY <1>1, BuildsNothing, ResultFacts DEF NextElement, Silent
<1>3. Fits(Top, input', Len(nodes')) /\ Top.at \notin Starting
  BY <1>1, <1>2, TopFits, FitsOn DEF NextElement, Entering
<1>. QED
  BY <1>1, <1>2, <1>3, Calling

LEMMA KeepStep ==
    ASSUME Reading, Reads, calls # <<>>, NEW at \in Points \ Special,
           NEW element \in 0 .. Len(nodes), Keep(element, at)
    PROVE  Reading'
<1>1. Grows
  BY BuildsNothing, ResultFacts DEF Keep
<1>2. CASE input'[Len(input')] = "eof"
  BY <1>1, <1>2, Returning DEF Keep, Grows, Invalid
<1>3. CASE input'[Len(input')] # "eof"
  <2>1. element \in 0 .. Len(nodes')
    BY <1>1 DEF Grows
  <2>2. /\ Fits([Top EXCEPT !.at = at, !.list = Append(@, element)], input', Len(nodes'))
        /\ [Top EXCEPT !.at = at, !.list = Append(@, element)].at \notin Starting
    BY <1>1, <2>1, ListingFits
  <2>. QED
    BY <1>1, <1>3, <2>2, Going DEF Keep
<1>. QED
  BY <1>2, <1>3

LEMMA KeepElementStep ==
    ASSUME Reading, NEW from, NEW at \in Points \ Special, KeepElement(from, at)
    PROVE  Reading'
<1>1. calls # <<>> /\ result \in 0 .. Len(nodes)
  BY ResultFacts DEF KeepElement, Resuming, Returned
<1>2. Reads
  BY SkipsComma DEF KeepElement, Keep
<1>. QED
  BY <1>1, <1>2, KeepStep DEF KeepElement

\* The token that a function began with is consumed.
LEMMA OpeningStep ==
    ASSUME Reading, calls # <<>>, Peek # "eof", Advance, NEW at \in Points \ Special, GoesTo(at),
           Silent, UNCHANGED result
    PROVE  Reading'
<1>1. Reads
  BY Advances DEF Silent
<1>2. Grows
  BY <1>1, BuildsNothing, ResultFacts DEF Silent
<1>3. /\ Fits([Top EXCEPT !.at = at], input', Len(nodes'))
      /\ [Top EXCEPT !.at = at].at \notin Starting
  BY <1>1, <1>2, MovedFits
<1>. QED
  BY <1>1, <1>2, <1>3, Going DEF GoesTo

\* The closing token is consumed, and the list is a node's.
LEMMA ClosingStep ==
    ASSUME Reading, NEW at, NEW closer, closer # "eof", Closing(at, closer),
           extra' = extra \o Top.list \/ extra' = extra \o Counted(Top.list) \/ extra' = extra,
           NEW tag \in Tags, NEW lhs \in Nat, NEW rhs \in Nat, ReturnNode(tag, lhs, rhs)
    PROVE  Reading'
<1>1. calls # <<>> /\ Reads
  BY Advances DEF Closing, Entering
<1>2. extra' \in Seq(Nat) /\ reported' \in BOOLEAN
  BY <1>1, ListFacts, ResultFacts DEF Closing
<1>. QED
  BY <1>1, <1>2, ReturningNode

LEMMA ErrorStep ==
    ASSUME Reading, calls # <<>>, Error
    PROVE  Reading'
<1>1. Reads
  BY Waits DEF Error
<1>2. Grows
  BY <1>1, BuildsNothing DEF Error
<1>. QED
  BY <1>1, <1>2, Returning DEF Error, Invalid, Grows

\* A callee is entered, after a token or before it.
LEMMA CallingStep ==
    ASSUME Reading, calls # <<>>, UNCHANGED input \/ (Peek # "eof" /\ Advance), Silent,
           NEW g, NEW f, Calls(g, f),
           Reads /\ Grows => /\ Fits(g, input', Len(nodes')) /\ g.token = Len(input')
                             /\ Fits(f, input', Len(nodes')) /\ f.at \notin Starting
    PROVE  Reading'
<1>1. Reads
  BY Waits, Advances DEF Silent
<1>2. Grows
  BY <1>1, BuildsNothing, ResultFacts DEF Silent
<1>. QED
  BY <1>1, <1>2, Calling

LEMMA WaitingKeepStep ==
    ASSUME Reading, NEW from, Resuming(from), UNCHANGED input, NEW at \in Points \ Special,
           Keep(result, at)
    PROVE  Reading'
<1>1. calls # <<>> /\ result \in 0 .. Len(nodes)
  BY ResultFacts DEF Resuming, Returned
<1>2. Reads
  BY Waits DEF Keep
<1>. QED
  BY <1>1, <1>2, KeepStep

LEMMA PlainPoints ==
    {"statements", "arguments", "array", "pairs", "key", "value", "parentheses", "parameters",
     "parameter", "body", "operand", "member", "index", "start", "lhs", "while", "loop", "if",
     "then", "returned"} \subseteq Points \ Special
BY DEF Points, Special, Starting

LEMMA ParseBlockStep ==
    ASSUME Reading, ParseBlock
    PROVE  Reading'
<1>1. CASE /\ Entering("stmt") /\ Peek = "{"
           /\ Advance /\ GoesTo("statements")
           /\ Silent /\ UNCHANGED result
  BY <1>1, OpeningStep, PlainPoints DEF Entering
<1>2. CASE NextElement("statements", "}", Statement)
  BY <1>2, NextElementStep, StatementFits DEF Starting
<1>3. CASE Resuming("statements") /\ UNCHANGED input /\ Keep(result, "statements")
  BY <1>3, WaitingKeepStep, PlainPoints
<1>4. CASE /\ Closing("statements", "}")
           /\ extra' = extra \o Top.list
           /\ ReturnNode("block", Start, Len(Top.list))
  <2>1. calls # <<>> /\ "block" \in Tags
    BY <1>4 DEF Closing, Entering, Tags
  <2>. QED
    BY <1>4, <2>1, ClosingStep, ListFacts
<1>. QED
  BY <1>1, <1>2, <1>3, <1>4 DEF ParseBlock

LEMMA ParseCallStep ==
    ASSUME Reading, ParseCall
    PROVE  Reading'
<1>1. CASE /\ Entering("binary") /\ Peek = "("
           /\ Advance /\ GoesTo("arguments")
           /\ Silent /\ UNCHANGED result
  BY <1>1, OpeningStep, PlainPoints DEF Entering
<1>2. CASE NextElement("arguments", ")", Expression(Lowest))
  BY <1>2, NextElementStep, ExpressionFits DEF Lowest, Starting
<1>3. CASE KeepElement("arguments", "arguments")
  BY <1>3, KeepElementStep, PlainPoints
<1>4. CASE /\ Closing("arguments", ")")
           /\ IF Top.list = <<>>
              THEN UNCHANGED extra /\ ReturnNode("call", Top.node, Invalid)
              ELSE /\ extra' = extra \o Counted(Top.list)
                   /\ ReturnNode("call", Top.node, Start)
  <2>1. calls # <<>> /\ "call" \in Tags /\ Invalid \in Nat
    BY <1>4 DEF Closing, Entering, Tags, Invalid
  <2>. QED
    BY <1>4, <2>1, ClosingStep, ListFacts
<1>. QED
  BY <1>1, <1>2, <1>3, <1>4 DEF ParseCall

LEMMA ParseArrayStep ==
    ASSUME Reading, ParseArray
    PROVE  Reading'
<1>1. CASE /\ Entering("unary") /\ Peek = "["
           /\ Advance /\ GoesTo("array")
           /\ Silent /\ UNCHANGED result
  BY <1>1, OpeningStep, PlainPoints DEF Entering
<1>2. CASE NextElement("array", "]", Expression(Lowest))
  BY <1>2, NextElementStep, ExpressionFits DEF Lowest, Starting
<1>3. CASE KeepElement("array", "array")
  BY <1>3, KeepElementStep, PlainPoints
<1>4. CASE /\ Closing("array", "]")
           /\ extra' = extra \o Top.list
           /\ ReturnNode("array", Start, Len(Top.list))
  <2>1. calls # <<>> /\ "array" \in Tags
    BY <1>4 DEF Closing, Entering, Tags
  <2>. QED
    BY <1>4, <2>1, ClosingStep, ListFacts
<1>. QED
  BY <1>1, <1>2, <1>3, <1>4 DEF ParseArray

LEMMA ParseMapStep ==
    ASSUME Reading, ParseMap
    PROVE  Reading'
<1>1. CASE /\ Entering("unary") /\ Peek = "{"
           /\ Advance /\ GoesTo("pairs")
           /\ Silent /\ UNCHANGED result
  BY <1>1, OpeningStep, PlainPoints DEF Entering
<1>2. CASE /\ Entering("pairs") /\ Peek # "}"
           /\ UNCHANGED input /\ Silent
           /\ Calls(Expression(Lowest), [Top EXCEPT !.at = "key"])
  BY <1>2, CallingStep, ExpressionFits, MovedFits, PlainPoints DEF Entering, Lowest
<1>3. CASE Resuming("key") /\ Peek # ":" /\ Error
  BY <1>3, ErrorStep DEF Resuming, Returned
<1>4. CASE /\ Resuming("key") /\ Peek = ":"
           /\ Advance /\ Silent
           /\ Calls(Expression(Lowest),
                    [Top EXCEPT !.at = "value", !.list = Append(@, result)])
  <2>1. calls # <<>> /\ result \in 0 .. Len(nodes)
    BY <1>4, ResultFacts DEF Resuming, Returned
  <2>2. Reads /\ Grows => result \in 0 .. Len(nodes')
    BY <2>1 DEF Grows
  <2>. QED
    BY <1>4, <2>1, <2>2, CallingStep, ExpressionFits, ListingFits, PlainPoints DEF Lowest
<1>5. CASE KeepElement("value", "pairs")
  BY <1>5, KeepElementStep, PlainPoints
<1>6. CASE /\ Closing("pairs", "}")
           /\ extra' = extra \o Top.list
           /\ ReturnNode("map", Start, Len(Top.list) \div 2)
  <2>1. calls # <<>> /\ "map" \in Tags
    BY <1>6 DEF Closing, Entering, Tags
  <2>2. Len(Top.list) \div 2 \in Nat
    <3>1. \A k \in Nat : k \div 2 \in Nat
      OBVIOUS
    <3>. QED
      BY <2>1, <3>1, ListFacts
  <2>. QED
    BY <1>6, <2>1, <2>2, ClosingStep, ListFacts
<1>. QED
  BY <1>1, <1>2, <1>3, <1>4, <1>5, <1>6 DEF ParseMap

--------------------------------------------------------------------------------
(* Expressions *)

LEMMA ParseIdentifierStep ==
    ASSUME Reading, ParseIdentifier
    PROVE  Reading'
<1>1. calls # <<>> /\ Reads /\ extra' \in Seq(Nat) /\ reported' \in BOOLEAN
  BY Advances, ResultFacts DEF ParseIdentifier, Entering, Stays
<1>2. "identifier" \in Tags /\ Invalid \in Nat
  BY DEF Tags, Invalid
<1>. QED
  BY <1>1, <1>2, ReturningNode DEF ParseIdentifier

LEMMA ParseLiteralStep ==
    ASSUME Reading, ParseLiteral
    PROVE  Reading'
<1>1. calls # <<>> /\ Reads /\ extra' \in Seq(Nat)
  BY Advances, ResultFacts DEF ParseLiteral, Entering
<1>2. "literal" \in Tags /\ Invalid \in Nat
  BY DEF Tags, Invalid
<1>3. CASE ReturnNode("literal", Invalid, Invalid) /\ UNCHANGED reported
  BY <1>1, <1>2, <1>3, ReturningNode, ResultFacts
<1>4. CASE Return(Invalid) /\ reported' = TRUE /\ UNCHANGED nodes
  <2>1. Grows
    BY <1>1, <1>4, BuildsNothing DEF ParseLiteral
  <2>. QED
    BY <1>1, <1>4, <2>1, Returning DEF Invalid, Grows
<1>. QED
  BY <1>3, <1>4 DEF ParseLiteral

LEMMA ParseParenthesesStep ==
    ASSUME Reading, ParseParentheses
    PROVE  Reading'
<1>1. CASE /\ Entering("unary") /\ Peek = "("
           /\ Advance /\ Silent
           /\ Calls(Expression(Lowest), [Top EXCEPT !.at = "parentheses"])
  BY <1>1, CallingStep, ExpressionFits, MovedFits, PlainPoints DEF Entering, Lowest
<1>2. CASE Resuming("parentheses") /\ Peek # ")" /\ Error
  BY <1>2, ErrorStep DEF Resuming, Returned
<1>3. CASE /\ Resuming("parentheses") /\ Peek = ")"
           /\ Advance /\ Silent
           /\ Return(result)
  <2>1. calls # <<>> /\ Reads /\ result \in 0 .. Len(nodes)
    BY <1>3, Advances, ResultFacts DEF Resuming, Returned, Silent
  <2>2. Grows
    BY <1>3, <2>1, BuildsNothing, ResultFacts DEF Silent
  <2>. QED
    BY <1>3, <2>1, <2>2, Returning DEF Grows
<1>. QED
  BY <1>1, <1>2, <1>3 DEF ParseParentheses

LEMMA ParametersKept ==
    ASSUME Reading, calls # <<>>, AddParameters(Top.list)
    PROVE  extra' \in Seq(Nat)
BY ListFacts, ResultFacts DEF AddParameters

LEMMA FunctionNodeFits ==
    ASSUME Reading, Reads, calls # <<>>, NEW body \in Nat
    PROVE  /\ FunctionNode(Top.list, body) \in Trees
           /\ FunctionNode(Top.list, body).first <= FunctionNode(Top.list, body).source
           /\ FunctionNode(Top.list, body).source <= Len(input')
<1>1. (IF Top.list = <<>> THEN Invalid ELSE Start) \in Nat /\ "function" \in Tags
  BY ListFacts DEF Invalid, Tags
<1>. QED
  BY <1>1, NodeFits DEF FunctionNode

LEMMA ParseFunctionStep ==
    ASSUME Reading, ParseFunction
    PROVE  Reading'
<1>1. CASE /\ Entering("unary") /\ Peek = "fn"
           /\ Advance /\ GoesTo("parameters")
           /\ Silent /\ UNCHANGED result
  BY <1>1, OpeningStep, PlainPoints DEF Entering
<1>2. CASE Entering("parameters") /\ Peek \notin {"=>", "{", "identifier"} /\ Error
  BY <1>2, ErrorStep DEF Entering
<1>3. CASE /\ Entering("parameters") /\ Peek = "identifier"
           /\ Advance /\ Stays
           /\ Push(<<NodeAt(Len(input), "identifier", Invalid, Invalid)>>)
           /\ GoesTo("parameter") /\ UNCHANGED result
  <2>. DEFINE node == NodeAt(Len(input), "identifier", Invalid, Invalid)
  <2>1. calls # <<>> /\ Reads /\ extra' \in Seq(Nat) /\ reported' \in BOOLEAN
    BY <1>3, Advances, ResultFacts DEF Entering, Stays
  <2>2. node \in Trees /\ node.first <= node.source /\ node.source <= Len(input')
    <3>1. "identifier" \in Tags /\ Invalid \in Nat /\ Len(input) \in 1 .. Len(input)
      BY <2>1 DEF Tags, Invalid, Reads
    <3>. QED
      BY <2>1, <3>1, NodeAtFits
  <2>3. Push(<<node>>)
    BY <1>3
  <2>. HIDE DEF node
  <2>4. <<node>> \in Seq(Trees) /\ Len(<<node>>) = 1 /\ <<node>>[1] = node
    BY <2>2
  <2>5. \A i \in 1 .. Len(<<node>>) :
           <<node>>[i].first <= <<node>>[i].source /\ <<node>>[i].source <= Len(input')
    BY <2>2, <2>4
  <2>6. Grows
    BY <2>1, <2>3, <2>4, <2>5, Builds
  <2>. QED
    BY <1>3, <2>1, <2>6, Going, MovedFits, PlainPoints DEF GoesTo
<1>4. CASE Entering("parameter") /\ SkipComma /\ Keep(Len(nodes), "parameters")
  <2>1. calls # <<>> /\ Reads /\ Len(nodes) \in 0 .. Len(nodes)
    BY <1>4, SkipsComma, ResultFacts DEF Entering, Keep
  <2>. QED
    BY <1>4, <2>1, KeepStep, PlainPoints
<1>5. CASE /\ Entering("parameters") /\ Peek = "=>"
           /\ Advance /\ Silent
           /\ Calls(Expression(Lowest),
                    [Top EXCEPT !.at = "arrow", !.node = Len(input)])
  <2>1. ASSUME Reads, Grows
        PROVE  /\ Fits([Top EXCEPT !.at = "arrow", !.node = Len(input)], input', Len(nodes'))
               /\ [Top EXCEPT !.at = "arrow", !.node = Len(input)].at \notin Starting
    <3>1. Top \in Frames /\ Fits(Top, input', Len(nodes'))
      BY <1>5, <2>1, TopFits, FitsOn DEF Entering
    <3>2. Len(input) \in 1 .. Len(input') /\ Len(input) \in Nat
      BY <2>1 DEF Reads
    <3>. QED
      BY <3>1, <3>2 DEF Fits, Frames, Points, Starting
  <2>. QED
    BY <1>5, <2>1, CallingStep, ExpressionFits DEF Entering, Lowest
<1>6. CASE /\ Entering("parameters") /\ Peek = "{"
           /\ UNCHANGED input /\ Silent
           /\ Calls(Statement, [Top EXCEPT !.at = "body"])
  BY <1>6, CallingStep, StatementFits, MovedFits, PlainPoints DEF Entering
<1>7. CASE /\ Resuming("arrow")
           /\ UNCHANGED <<language, input, reported>>
           /\ AddParameters(Top.list)
           /\ ReturnNodes(<<NodeAt(Top.node, "return", Invalid, result),
                            FunctionNode(Top.list, Len(nodes) + 1)>>)
  <2>. DEFINE inner == NodeAt(Top.node, "return", Invalid, result)
              outer == FunctionNode(Top.list, Len(nodes) + 1)
  <2>1. /\ calls # <<>> /\ Reads /\ extra' \in Seq(Nat) /\ reported' \in BOOLEAN
        /\ result \in Nat /\ Len(nodes) + 1 \in Nat
    BY <1>7, Waits, ParametersKept, ResultFacts DEF Resuming, Returned
  <2>2. inner \in Trees /\ inner.first <= inner.source /\ inner.source <= Len(input')
    <3>1. Top.node \in 1 .. Len(input) /\ "return" \in Tags /\ Invalid \in Nat
      BY <1>7, <2>1, TopFits DEF Fits, Resuming, Returned, Tags, Invalid
    <3>2. inner.first = Top.node /\ inner.source = Top.node /\ Top.node <= Len(input')
      BY <2>1, <3>1, NodeAtFits
    <3>. QED
      BY <2>1, <3>1, <3>2, NodeAtFits
  <2>3. outer \in Trees /\ outer.first <= outer.source /\ outer.source <= Len(input')
    BY <2>1, FunctionNodeFits
  <2>4. ReturnNodes(<<inner, outer>>)
    BY <1>7
  <2>. HIDE DEF inner, outer
  <2>5. /\ <<inner, outer>> \in Seq(Trees) /\ Len(<<inner, outer>>) = 2
        /\ \A i \in 1 .. 2 : <<inner, outer>>[i].first <= <<inner, outer>>[i].source
                             /\ <<inner, outer>>[i].source <= Len(input')
    BY <2>2, <2>3
  <2>. QED
    BY <2>1, <2>4, <2>5, ReturningNodes
<1>8. CASE /\ Resuming("body")
           /\ UNCHANGED <<language, input, reported>>
           /\ AddParameters(Top.list)
           /\ ReturnNodes(<<FunctionNode(Top.list, result)>>)
  <2>. DEFINE outer == FunctionNode(Top.list, result)
  <2>1. /\ calls # <<>> /\ Reads /\ extra' \in Seq(Nat) /\ reported' \in BOOLEAN
        /\ result \in Nat
    BY <1>8, Waits, ParametersKept, ResultFacts DEF Resuming, Returned
  <2>2. outer \in Trees /\ outer.first <= outer.source /\ outer.source <= Len(input')
    BY <2>1, FunctionNodeFits
  <2>3. ReturnNodes(<<outer>>)
    BY <1>8
  <2>. HIDE DEF outer
  <2>4. /\ <<outer>> \in Seq(Trees) /\ Len(<<outer>>) = 1 /\ <<outer>>[1] = outer
    BY <2>2
  <2>5. \A i \in 1 .. Len(<<outer>>) :
           <<outer>>[i].first <= <<outer>>[i].source /\ <<outer>>[i].source <= Len(input')
    BY <2>2, <2>4
  <2>. QED
    BY <2>1, <2>3, <2>4, <2>5, ReturningNodes
<1>. QED
  BY <1>1, <1>2, <1>3, <1>4, <1>5, <1>6, <1>7, <1>8 DEF ParseFunction

LEMMA ParseUnaryOpStep ==
    ASSUME Reading, ParseUnaryOp
    PROVE  Reading'
<1>1. CASE /\ Entering("unary") /\ Peek \in Prefixes
           /\ Advance /\ Silent
           /\ Calls(Expression(Prefix), [Top EXCEPT !.at = "operand"])
  <2>1. Peek # "eof" /\ Prefix \in Nat
    BY <1>1 DEF Prefixes, Prefix
  <2>. QED
    BY <1>1, <2>1, CallingStep, ExpressionFits, MovedFits, PlainPoints DEF Entering
<1>2. CASE /\ Resuming("operand")
           /\ UNCHANGED input /\ Stays
           /\ ReturnNode(IF input[Top.token] = "-" THEN "neg" ELSE "not", Invalid, result)
  <2>1. /\ calls # <<>> /\ Reads /\ extra' \in Seq(Nat) /\ reported' \in BOOLEAN
        /\ result \in Nat
    BY <1>2, Waits, ResultFacts DEF Resuming, Returned, Stays
  <2>2. (IF input[Top.token] = "-" THEN "neg" ELSE "not") \in Tags /\ Invalid \in Nat
    BY DEF Tags, Invalid
  <2>. QED
    BY <1>2, <2>1, <2>2, ReturningNode
<1>. QED
  BY <1>1, <1>2 DEF ParseUnaryOp

LEMMA ParseUnaryExprStep ==
    ASSUME Reading, ParseUnaryExpr
    PROVE  Reading'
BY ParseIdentifierStep, ParseLiteralStep, ParseParenthesesStep, ParseFunctionStep,
   ParseArrayStep, ParseMapStep, ParseUnaryOpStep, ErrorStep
   DEF ParseUnaryExpr, UnknownExpression, Entering

LEMMA BinaryOpStep ==
    ASSUME Reading, NEW tokens \in SUBSET Operators, NEW at \in {"assigned", "rhs"},
           BinaryOp(tokens, at)
    PROVE  Reading'
<1>1. CASE /\ Entering("binary") /\ Peek \in tokens
           /\ Advance /\ Silent
           /\ Calls(Expression(PrecedenceOf(Peek)), [Top EXCEPT !.at = at])
  <2>1. Peek # "eof" /\ PrecedenceOf(Peek) \in Nat
    BY <1>1 DEF Operators, PrecedenceOf, Lowest
  <2>2. ASSUME Reads, Grows
        PROVE  /\ Fits([Top EXCEPT !.at = at], input', Len(nodes'))
               /\ [Top EXCEPT !.at = at].at \notin Starting
    <3>1. Top \in Frames /\ Fits(Top, input', Len(nodes'))
      BY <1>1, <2>2, TopFits, FitsOn DEF Entering
    <3>2. input'[Top.token] \in Operators
      <4>1. Top.token = Len(input) /\ input[Len(input)] \in Operators
        BY <1>1, TopFits DEF Entering, Starting, Peek
      <4>. QED
        BY <2>2, <4>1 DEF Reads
    <3>. QED
      BY <3>1, <3>2 DEF Fits, Frames, Points, Starting
  <2>. QED
    BY <1>1, <2>1, <2>2, CallingStep, ExpressionFits DEF Entering
<1>2. CASE /\ Resuming(at)
           /\ UNCHANGED input /\ Stays
           /\ ReturnNode(input[Top.token], Top.node, result)
  <2>1. /\ calls # <<>> /\ Reads /\ extra' \in Seq(Nat) /\ reported' \in BOOLEAN
        /\ result \in Nat
    BY <1>2, Waits, ResultFacts DEF Resuming, Returned, Stays
  <2>2. input[Top.token] \in Tags /\ Top.node \in Nat
    BY <1>2, <2>1, TopFits, ListFacts DEF Fits, Tags, Resuming, Returned
  <2>. QED
    BY <1>2, <2>1, <2>2, ReturningNode
<1>. QED
  BY <1>1, <1>2 DEF BinaryOp

LEMMA ParseMemberAccessStep ==
    ASSUME Reading, ParseMemberAccess
    PROVE  Reading'
<1>1. CASE /\ Entering("binary") /\ Peek = "."
           /\ Advance /\ GoesTo("member")
           /\ Silent /\ UNCHANGED result
  BY <1>1, OpeningStep, PlainPoints DEF Entering
<1>2. CASE Entering("member") /\ Peek # "identifier" /\ Error
  BY <1>2, ErrorStep DEF Entering
<1>3. CASE /\ Entering("member") /\ Peek = "identifier"
           /\ Advance /\ Stays
           /\ ReturnNodes(<<NodeAt(Len(input), "identifier", Invalid, Invalid),
                            Node("member", Top.node, Len(nodes) + 1)>>)
  <2>. DEFINE name == NodeAt(Len(input), "identifier", Invalid, Invalid)
              node == Node("member", Top.node, Len(nodes) + 1)
  <2>1. /\ calls # <<>> /\ Reads /\ extra' \in Seq(Nat) /\ reported' \in BOOLEAN
        /\ Len(nodes) + 1 \in Nat
    BY <1>3, Advances, ResultFacts DEF Entering, Stays
  <2>2. name \in Trees /\ name.first <= name.source /\ name.source <= Len(input')
    <3>1. "identifier" \in Tags /\ Invalid \in Nat /\ Len(input) \in 1 .. Len(input)
      BY <2>1 DEF Tags, Invalid, Reads
    <3>. QED
      BY <2>1, <3>1, NodeAtFits
  <2>3. node \in Trees /\ node.first <= node.source /\ node.source <= Len(input')
    <3>1. "member" \in Tags /\ Top.node \in Nat
      BY <2>1, ListFacts DEF Tags
    <3>. QED
      BY <2>1, <3>1, NodeFits
  <2>4. ReturnNodes(<<name, node>>)
    BY <1>3
  <2>. HIDE DEF name, node
  <2>5. /\ <<name, node>> \in Seq(Trees) /\ Len(<<name, node>>) = 2
        /\ \A i \in 1 .. 2 : <<name, node>>[i].first <= <<name, node>>[i].source
                             /\ <<name, node>>[i].source <= Len(input')
    BY <2>2, <2>3
  <2>. QED
    BY <2>1, <2>4, <2>5, ReturningNodes
<1>. QED
  BY <1>1, <1>2, <1>3 DEF ParseMemberAccess

LEMMA CloseSubscriptStep ==
    ASSUME Reading, calls # <<>>, NEW new \in Seq(Trees), CloseSubscript(new),
           Reads => \A i \in 1 .. Len(new) :
                       new[i].first <= new[i].source /\ new[i].source <= Len(input')
    PROVE  Reading'
<1>1. Reads /\ extra' \in Seq(Nat)
  BY Advances, Waits, ResultFacts DEF CloseSubscript
<1>2. CASE Peek = "]"
  BY <1>1, <1>2, ReturningNodes, ResultFacts DEF CloseSubscript
<1>3. CASE Peek # "]"
  <2>1. Grows
    BY <1>1, <1>3, Builds DEF CloseSubscript
  <2>. QED
    BY <1>1, <1>3, <2>1, Returning DEF CloseSubscript, Invalid, Grows
<1>. QED
  BY <1>2, <1>3

LEMMA SliceNodesFit ==
    ASSUME Reading, Reads, calls # <<>>, NEW start \in Nat, NEW end \in Nat
    PROVE  /\ SliceNodes(start, end) \in Seq(Trees)
           /\ \A i \in 1 .. Len(SliceNodes(start, end)) :
                 /\ SliceNodes(start, end)[i].first <= SliceNodes(start, end)[i].source
                 /\ SliceNodes(start, end)[i].source <= Len(input')
<1>. DEFINE plain == Node("bounds", start, end)
            bounds == [plain EXCEPT !.first = Top.token]
            slice == Node("slice", Top.node, Len(nodes) + 1)
<1>1. "bounds" \in Tags /\ "slice" \in Tags /\ Top.node \in Nat /\ Len(nodes) + 1 \in Nat
  BY ListFacts, ResultFacts DEF Tags
<1>2. /\ plain \in Trees /\ plain.source = Top.token
      /\ slice \in Trees /\ slice.first = Top.first /\ slice.source = Top.token
      /\ Top.first <= Top.token /\ Top.token <= Len(input') /\ Top.token \in Nat
  BY ZenonT(30), <1>1, NodeFits, TopFits DEF Frames
<1>3. SliceNodes(start, end) = <<bounds, slice>>
  BY DEF SliceNodes
<1>. HIDE DEF plain, slice
<1>4. bounds \in Trees /\ bounds.first = Top.token /\ bounds.source = Top.token
  BY <1>2 DEF Trees
<1>. HIDE DEF bounds
<1>. QED
  BY <1>2, <1>3, <1>4

LEMMA ParseSubscriptAccessStep ==
    ASSUME Reading, ParseSubscriptAccess
    PROVE  Reading'
<1>1. CASE /\ Entering("binary") /\ Peek = "["
           /\ Advance /\ GoesTo("index")
           /\ Silent /\ UNCHANGED result
  BY <1>1, OpeningStep, PlainPoints DEF Entering
<1>2. CASE /\ Entering("index") /\ Peek # ":"
           /\ UNCHANGED input /\ Silent
           /\ Calls(Expression(Lowest), [Top EXCEPT !.at = "start"])
  BY <1>2, CallingStep, ExpressionFits, MovedFits, PlainPoints DEF Entering, Lowest
<1>3. CASE Returned("start") /\ Peek # ":"
           /\ CloseSubscript(<<Node("subscript", Top.node, result)>>)
  <2>. DEFINE node == Node("subscript", Top.node, result)
  <2>1. calls # <<>> /\ result \in Nat /\ Top.node \in Nat /\ "subscript" \in Tags /\ Reads
    BY <1>3, ListFacts, ResultFacts, Advances, Waits DEF Returned, Tags, CloseSubscript
  <2>2. node \in Trees /\ node.first <= node.source /\ node.source <= Len(input')
    BY <2>1, NodeFits
  <2>3. CloseSubscript(<<node>>)
    BY <1>3
  <2>. HIDE DEF node
  <2>4. /\ <<node>> \in Seq(Trees)
        /\ \A i \in 1 .. Len(<<node>>) :
              <<node>>[i].first <= <<node>>[i].source /\ <<node>>[i].source <= Len(input')
    BY <2>2
  <2>. QED
    BY <2>1, <2>3, <2>4, CloseSubscriptStep
<1>4. CASE /\ \/ Entering("index") /\ Peek = ":"
                 /\ Goes([Top EXCEPT !.at = "colon", !.list = <<Invalid>>])
              \/ Returned("start") /\ Peek = ":"
                 /\ Goes([Top EXCEPT !.at = "colon", !.list = <<result>>])
           /\ Advance /\ Silent
           /\ result' = Pending
  <2>1. PICK v \in 0 .. Len(nodes) : Goes([Top EXCEPT !.at = "colon", !.list = <<v>>])
    <3>1. 0 \in 0 .. Len(nodes)
      BY ResultFacts
    <3>2. CASE Goes([Top EXCEPT !.at = "colon", !.list = <<Invalid>>])
      BY <3>1, <3>2 DEF Invalid
    <3>3. CASE Returned("start") /\ Goes([Top EXCEPT !.at = "colon", !.list = <<result>>])
      <4>1. result \in 0 .. Len(nodes)
        BY <3>3, ResultFacts DEF Returned
      <4>. QED
        BY <3>3, <4>1
    <3>. QED
      BY <1>4, <3>2, <3>3
  <2>2. calls # <<>> /\ Reads /\ Len(nodes) \in Nat
    BY <1>4, Advances, ResultFacts DEF Entering, Returned, Silent
  <2>3. Grows
    BY <1>4, <2>2, BuildsNothing, ResultFacts DEF Silent
  <2>4. /\ Fits([Top EXCEPT !.at = "colon", !.list = <<v>>], input', Len(nodes'))
        /\ [Top EXCEPT !.at = "colon", !.list = <<v>>].at \notin Starting
    <3>1. Top \in Frames /\ Fits(Top, input', Len(nodes'))
      BY <2>2, <2>3, TopFits, FitsOn
    <3>2. <<v>> \in Seq(Nat) /\ \A i \in DOMAIN <<v>> : <<v>>[i] \in 0 .. Len(nodes')
      BY <2>1, <2>2, <2>3 DEF Grows
    <3>. QED
      BY ZenonT(30), <3>1, <3>2 DEF Fits, Frames, Points, Starting
  <2>. QED
    BY <1>4, <2>1, <2>2, <2>3, <2>4, Going
<1>5. CASE /\ Entering("colon") /\ Peek # "]"
           /\ UNCHANGED input /\ Silent
           /\ Calls(Expression(Lowest), [Top EXCEPT !.at = "end"])
  <2>1. ASSUME Reads, Grows
        PROVE  /\ Fits([Top EXCEPT !.at = "end"], input', Len(nodes'))
               /\ [Top EXCEPT !.at = "end"].at \notin Starting
    <3>1. Top \in Frames /\ Fits(Top, input', Len(nodes'))
      BY <1>5, <2>1, TopFits, FitsOn DEF Entering
    <3>. QED
      BY <1>5, <3>1 DEF Fits, Frames, Points, Starting, Entering
  <2>. QED
    BY <1>5, <2>1, CallingStep, ExpressionFits DEF Entering, Lowest
<1>6. CASE /\ \/ Entering("colon") /\ Peek = "]"
              \/ Returned("end")
           /\ CloseSubscript(SliceNodes(Top.list[1],
                                        IF Top.at = "end" THEN result ELSE Invalid))
  <2>1. calls # <<>> /\ Reads /\ Top.at \in {"colon", "end"}
    BY <1>6, Advances, Waits DEF Entering, Returned, CloseSubscript
  <2>2. (IF Top.at = "end" THEN result ELSE Invalid) \in Nat
    BY <1>6, ResultFacts DEF Entering, Returned, Invalid
  <2>3. Top.list[1] \in Nat
    BY <2>1, TopFits, ListFacts DEF Fits
  <2>. QED
    BY <1>6, <2>1, <2>2, <2>3, SliceNodesFit, CloseSubscriptStep
<1>. QED
  BY <1>1, <1>2, <1>3, <1>4, <1>5, <1>6 DEF ParseSubscriptAccess

LEMMA ParseBinaryExprStep ==
    ASSUME Reading, ParseBinaryExpr
    PROVE  Reading'
<1>1. {"="} \in SUBSET Operators /\ Operators \ {"="} \in SUBSET Operators
  BY DEF Operators
<1>. QED
  BY <1>1, BinaryOpStep, ParseCallStep, ParseMemberAccessStep, ParseSubscriptAccessStep
     DEF ParseBinaryExpr, ParseAssign, ParseBinaryOp

LEMMA ParseExprStep ==
    ASSUME Reading, ParseExpr
    PROVE  Reading'
<1>1. CASE /\ Entering("expr")
           /\ UNCHANGED input /\ Silent
           /\ Calls(Called("unary", Lowest, Invalid, Len(input')), [Top EXCEPT !.at = "lhs"])
  <2>1. ASSUME Reads, Grows
        PROVE  /\ Fits(Called("unary", Lowest, Invalid, Len(input')), input', Len(nodes'))
               /\ Called("unary", Lowest, Invalid, Len(input')).token = Len(input')
    BY <2>1, CalleeFits DEF Lowest, Invalid, Reads
  <2>. QED
    BY <1>1, <2>1, CallingStep, MovedFits, PlainPoints DEF Entering
<1>2. CASE /\ Resuming("lhs") /\ PrecedenceOf(Peek) > Top.precedence
           /\ UNCHANGED input /\ Silent
           /\ Calls(Called("binary", Lowest, result, Top.first), Top)
  <2>1. ASSUME Reads, Grows
        PROVE  /\ Fits(Called("binary", Lowest, result, Top.first), input', Len(nodes'))
               /\ Called("binary", Lowest, result, Top.first).token = Len(input')
               /\ Fits(Top, input', Len(nodes')) /\ Top.at \notin Starting
    <3>1. /\ Top \in Frames /\ Fits(Top, input', Len(nodes')) /\ Top.at \notin Starting
          /\ result \in Nat
      BY <1>2, <2>1, TopFits, FitsOn, ResultFacts DEF Resuming, Returned, Starting
    <3>2. Top.first \in 1 .. Len(input')
      BY <2>1, <3>1 DEF Fits, Frames, Reads
    <3>. QED
      BY <2>1, <3>1, <3>2, CalleeFits DEF Lowest
  <2>. QED
    BY <1>2, <2>1, CallingStep DEF Resuming, Returned
<1>3. CASE /\ Resuming("lhs") /\ PrecedenceOf(Peek) <= Top.precedence
           /\ UNCHANGED input /\ Silent
           /\ Return(result)
  <2>1. calls # <<>> /\ Reads /\ result \in 0 .. Len(nodes)
    BY <1>3, Waits, ResultFacts DEF Resuming, Returned, Silent
  <2>2. Grows
    BY <1>3, <2>1, BuildsNothing, ResultFacts DEF Silent
  <2>. QED
    BY <1>3, <2>1, <2>2, Returning DEF Grows
<1>. QED
  BY <1>1, <1>2, <1>3 DEF ParseExpr

--------------------------------------------------------------------------------
(* Statements *)

LEMMA ConditionStep ==
    ASSUME Reading, NEW keyword, keyword # "eof", NEW at \in Points \ Special, Condition(keyword, at)
    PROVE  Reading'
BY CallingStep, ExpressionFits, MovedFits DEF Condition, Entering, Lowest

LEMMA BodyStep ==
    ASSUME Reading, calls # <<>>, NEW f, Body(f),
           Reads /\ Grows => Fits(f, input', Len(nodes')) /\ f.at \notin Starting
    PROVE  Reading'
<1>1. CASE Peek = "=>" /\ Advance /\ Silent /\ Calls(Statement, f)
  BY <1>1, CallingStep, StatementFits
<1>2. CASE Peek = "{" /\ UNCHANGED input /\ Silent /\ Calls(Statement, f)
  BY <1>2, CallingStep, StatementFits
<1>3. CASE Peek \notin {"=>", "{"} /\ Error
  BY <1>3, ErrorStep
<1>. QED
  BY <1>1, <1>2, <1>3 DEF Body

\* The node of a loop, a conditional or a return, when its last part is there.
LEMMA EndingStep ==
    ASSUME Reading, NEW from, Resuming(from), UNCHANGED input, Stays,
           NEW tag \in Tags, NEW lhs \in Nat, ReturnNode(tag, lhs, result)
    PROVE  Reading'
<1>1. /\ calls # <<>> /\ Reads /\ extra' \in Seq(Nat) /\ reported' \in BOOLEAN
      /\ result \in Nat
  BY Waits, ResultFacts DEF Resuming, Returned, Stays
<1>. QED
  BY <1>1, ReturningNode

LEMMA ParseWhileLoopStep ==
    ASSUME Reading, ParseWhileLoop
    PROVE  Reading'
<1>1. CASE Condition("while", "while")
  BY <1>1, ConditionStep, PlainPoints
<1>2. CASE Resuming("while") /\ Body([Top EXCEPT !.at = "loop", !.node = result])
  <2>1. calls # <<>> /\ result \in Nat
    BY <1>2, ResultFacts DEF Resuming, Returned
  <2>. QED
    BY <1>2, <2>1, BodyStep, HoldingFits, PlainPoints
<1>3. CASE /\ Resuming("loop")
           /\ UNCHANGED input /\ Stays
           /\ ReturnNode("while", Top.node, result)
  <2>1. "while" \in Tags /\ Top.node \in Nat
    BY <1>3, ListFacts DEF Resuming, Returned, Tags
  <2>. QED
    BY <1>3, <2>1, EndingStep
<1>. QED
  BY <1>1, <1>2, <1>3 DEF ParseWhileLoop

LEMMA ConditionalStep ==
    ASSUME Reading, calls # <<>>, NEW trueCase \in Nat, NEW falseCase \in Nat,
           Conditional(trueCase, falseCase)
    PROVE  Reading'
<1>1. /\ Reads /\ extra' \in Seq(Nat) /\ reported' \in BOOLEAN
      /\ Top.node \in Nat /\ Start \in Nat /\ "if" \in Tags
  BY Waits, ResultFacts, ListFacts DEF Conditional, Tags
<1>. QED
  BY <1>1, ReturningNode DEF Conditional

LEMMA ParseConditionalStep ==
    ASSUME Reading, ParseConditional
    PROVE  Reading'
<1>1. CASE Condition("if", "if")
  BY <1>1, ConditionStep, PlainPoints
<1>2. CASE Resuming("if") /\ Body([Top EXCEPT !.at = "then", !.node = result])
  <2>1. calls # <<>> /\ result \in Nat
    BY <1>2, ResultFacts DEF Resuming, Returned
  <2>. QED
    BY <1>2, <2>1, BodyStep, HoldingFits, PlainPoints
<1>3. CASE Resuming("then") /\ Peek # "else" /\ Conditional(result, Invalid)
  <2>1. calls # <<>> /\ result \in Nat /\ Invalid \in Nat
    BY <1>3, ResultFacts DEF Resuming, Returned, Invalid
  <2>. QED
    BY <1>3, <2>1, ConditionalStep
<1>4. CASE /\ Resuming("then") /\ Peek = "else"
           /\ Advance /\ Silent
           /\ Goes([Top EXCEPT !.at = "else", !.list = <<result>>])
           /\ result' = Pending
  <2>1. calls # <<>> /\ Reads /\ result \in 0 .. Len(nodes) /\ result \in Nat
    BY <1>4, Advances, ResultFacts DEF Resuming, Returned, Silent
  <2>2. Grows
    BY <1>4, <2>1, BuildsNothing, ResultFacts DEF Silent
  <2>3. /\ Fits([Top EXCEPT !.at = "else", !.list = <<result>>], input', Len(nodes'))
        /\ [Top EXCEPT !.at = "else", !.list = <<result>>].at \notin Starting
    <3>1. Top \in Frames /\ Fits(Top, input', Len(nodes'))
      BY <2>1, <2>2, TopFits, FitsOn
    <3>2. /\ <<result>> \in Seq(Nat)
          /\ \A i \in DOMAIN <<result>> : <<result>>[i] \in 0 .. Len(nodes')
      BY <2>1, <2>2 DEF Grows
    <3>. QED
      BY ZenonT(30), <3>1, <3>2 DEF Fits, Frames, Points, Starting
  <2>. QED
    BY <1>4, <2>1, <2>2, <2>3, Going
<1>5. ASSUME Entering("else"), Reads, Grows
      PROVE  /\ Fits([Top EXCEPT !.at = "otherwise"], input', Len(nodes'))
             /\ [Top EXCEPT !.at = "otherwise"].at \notin Starting
  <2>1. Top \in Frames /\ Fits(Top, input', Len(nodes'))
    BY <1>5, TopFits, FitsOn DEF Entering
  <2>. QED
    BY <1>5, <2>1 DEF Fits, Frames, Points, Starting, Entering
<1>6. CASE Entering("else") /\ Peek # "if" /\ Body([Top EXCEPT !.at = "otherwise"])
  BY <1>5, <1>6, BodyStep DEF Entering
<1>7. CASE /\ Entering("else") /\ Peek = "if"
           /\ UNCHANGED input /\ Silent
           /\ Calls(Statement, [Top EXCEPT !.at = "otherwise"])
  BY <1>5, <1>7, CallingStep, StatementFits DEF Entering
<1>8. CASE Resuming("otherwise") /\ Conditional(Top.list[1], result)
  <2>1. calls # <<>> /\ result \in Nat /\ Top.at = "otherwise"
    BY <1>8, ResultFacts DEF Resuming, Returned
  <2>2. Top.list[1] \in Nat
    BY <2>1, TopFits, ListFacts DEF Fits
  <2>. QED
    BY <1>8, <2>1, <2>2, ConditionalStep
<1>. QED
  BY <1>1, <1>2, <1>3, <1>4, <1>6, <1>7, <1>8 DEF ParseConditional

LEMMA ParseReturnStep ==
    ASSUME Reading, ParseReturn
    PROVE  Reading'
<1>1. CASE Condition("return", "returned")
  BY <1>1, ConditionStep, PlainPoints
<1>2. CASE /\ Resuming("returned")
           /\ UNCHANGED input /\ Stays
           /\ ReturnNode("return", Invalid, result)
  <2>1. "return" \in Tags /\ Invalid \in Nat
    BY DEF Tags, Invalid
  <2>. QED
    BY <1>2, <2>1, EndingStep
<1>. QED
  BY <1>1, <1>2 DEF ParseReturn

LEMMA ParseStmtStep ==
    ASSUME Reading, ParseStmt
    PROVE  Reading'
<1>1. CASE /\ Entering("stmt") /\ Peek = "break"
           /\ Advance /\ Stays
           /\ ReturnNode("break", Invalid, Invalid)
  <2>1. calls # <<>> /\ Reads /\ extra' \in Seq(Nat) /\ reported' \in BOOLEAN
    BY <1>1, Advances, ResultFacts DEF Entering, Stays
  <2>2. "break" \in Tags /\ Invalid \in Nat
    BY DEF Tags, Invalid
  <2>. QED
    BY <1>1, <2>1, <2>2, ReturningNode
<1>2. CASE /\ Entering("stmt") /\ Peek \notin {"{", "while", "if", "return", "break"}
           /\ UNCHANGED input /\ Silent
           /\ Goes(Expression(Lowest)) /\ UNCHANGED result
  <2>1. calls # <<>> /\ Reads /\ result = Pending
    BY <1>2, Waits DEF Entering, Silent
  <2>2. Grows
    BY <1>2, <2>1, BuildsNothing, ResultFacts DEF Silent
  <2>3. /\ Fits(Expression(Lowest), input', Len(nodes'))
        /\ Expression(Lowest).token = Len(input')
    BY <2>1, <2>2, ExpressionFits DEF Lowest
  <2>. QED
    BY <1>2, <2>1, <2>2, <2>3, Going
<1>. QED
  BY <1>1, <1>2, ParseBlockStep, ParseWhileLoopStep, ParseConditionalStep, ParseReturnStep
     DEF ParseStmt

LEMMA ParseStep ==
    ASSUME Reading, Parse
    PROVE  Reading'
<1>1. CASE NextElement("program", "eof", Statement)
  BY <1>1, NextElementStep, StatementFits DEF Starting
<1>2. CASE /\ Resuming("program")
           /\ Goes([Top EXCEPT !.list = Append(@, result)])
           /\ result' = Pending
           /\ UNCHANGED input /\ Silent
  <2>1. calls # <<>> /\ Reads /\ result \in 0 .. Len(nodes) /\ Top.at = "program"
    BY <1>2, Waits, ResultFacts DEF Resuming, Returned, Silent
  <2>2. Grows
    BY <1>2, <2>1, BuildsNothing, ResultFacts DEF Silent
  <2>3. "program" \in Points \ Special /\ result \in 0 .. Len(nodes')
    BY <2>1, <2>2 DEF Points, Special, Starting, Grows
  <2>4. [Top EXCEPT !.list = Append(@, result)]
          = [Top EXCEPT !.at = "program", !.list = Append(@, result)]
    BY <2>1, TopFits DEF Frames
  <2>. QED
    BY <1>2, <2>1, <2>2, <2>3, <2>4, ListingFits, Going
<1>3. CASE /\ Entering("program") /\ Peek = "eof"
           /\ UNCHANGED <<language, input, reported>>
           /\ extra' = extra \o Top.list
           /\ ReturnNode("block", Start, Len(Top.list))
  <2>1. /\ calls # <<>> /\ Reads /\ extra' \in Seq(Nat) /\ reported' \in BOOLEAN
        /\ "block" \in Tags /\ Start \in Nat /\ Len(Top.list) \in Nat
    BY <1>3, Waits, ListFacts, ResultFacts DEF Entering, Tags
  <2>. QED
    BY <1>3, <2>1, ReturningNode
<1>. QED
  BY <1>1, <1>2, <1>3 DEF Parse

LEMMA FailStep ==
    ASSUME Reading, Fail
    PROVE  Reading'
<1>1. calls # <<>> /\ Reads
  BY Waits DEF Fail, Silent
<1>2. Grows
  BY <1>1, BuildsNothing, ResultFacts DEF Fail, Silent
<1>. QED
  BY <1>1, <1>2, Returning DEF Fail, Invalid, Grows

--------------------------------------------------------------------------------
(* Theorems *)

LEMMA InitReading ==
    ASSUME Init
    PROVE  Reading
<1>1. PICK t \in language.tokens \cup {"eof"} : input = <<t>>
  BY DEF Init
<1>2. /\ input \in Seq(language.tokens \cup {"eof"}) /\ input # <<>> /\ Len(input) = 1
      /\ NeverPastEnd
  BY <1>1 DEF NeverPastEnd
<1>. DEFINE f == [at |-> "program", precedence |-> Lowest, node |-> Invalid,
                  list |-> <<>>, token |-> 1, first |-> 1]
<1>3. f \in Frames
  BY DEF Frames, Points, Lowest, Invalid
<1>4. Fits(f, input, Len(nodes)) /\ f.at \notin Starting
  BY <1>2, <1>3 DEF Fits, Starting
<1>5. calls = <<f>>
  BY DEF Init
<1>. HIDE DEF f
<1>6. calls \in Seq(Frames) /\ Len(calls) = 1 /\ calls[1] = f
  BY <1>3, <1>5
<1>7. /\ language \in Languages /\ nodes = <<>> /\ extra = <<>> /\ result = Pending
      /\ reported = FALSE
  BY DEF Init
<1>8. nodes \in Seq(Trees) /\ DOMAIN nodes = {} /\ extra \in Seq(Nat)
  BY <1>7
<1>9. \A c \in DOMAIN calls : calls[c] = f /\ c = 1
  BY <1>6
<1>10. result \in Indices \cup {Pending}
  BY <1>7
<1>11. reported \in BOOLEAN
  BY <1>7
<1>. QED
  BY <1>2, <1>4, <1>6, <1>7, <1>8, <1>9, <1>10, <1>11 DEF Reading

LEMMA NextReading ==
    ASSUME Reading, [Next]_vars
    PROVE  Reading'
<1>1. CASE Next
  BY <1>1, ParseStep, ParseStmtStep, ParseExprStep, ParseUnaryExprStep, ParseBinaryExprStep,
     FailStep DEF Next
<1>2. CASE UNCHANGED vars
  BY <1>2 DEF vars, Reading, NeverPastEnd, Indices
<1>. QED
  BY <1>1, <1>2

\* The invariant is inductive: an activation keeps what it noted, and the parser goes past
\* no token it has not looked at.
THEOREM ParserInvariance == Spec => []Reading
<1>. QED
  BY InitReading, NextReading, PTL DEF Spec

\* The lexer is never asked for a token after the last.
THEOREM StopsAtEnd == Spec => []NeverPastEnd
<1>1. Reading => NeverPastEnd
  BY DEF Reading
<1>. QED
  BY <1>1, ParserInvariance, PTL

\* The arrays of the tree are of the shape that ast.h describes.
THEOREM ParserTyped == Spec => []TypeOK
<1>1. Reading => TypeOK
  <2>. SUFFICES ASSUME Reading PROVE TypeOK
    OBVIOUS
  <2>1. \A n \in 1 .. Len(nodes) : nodes[n].tag \in Tags
    <3>1. \A t \in Trees : t.tag \in Tags
      BY DEF Trees
    <3>. QED
      BY <3>1, NodeFacts
  <2>2. ASSUME NEW c \in DOMAIN calls
        PROVE  /\ calls[c].node \in Nat /\ calls[c].list \in Seq(Indices)
               /\ calls[c].first <= calls[c].token /\ calls[c].token <= Len(input)
    <3>. DEFINE f == calls[c]
    <3>1. Fits(f, input, Len(nodes))
      BY <2>2 DEF Reading
    <3>. HIDE DEF f
    <3>2. /\ f.node \in Nat /\ f.list \in Seq(Nat) /\ f.first <= f.token /\ f.token <= Len(input)
          /\ \A i \in DOMAIN f.list : f.list[i] \in Indices
      BY <3>1 DEF Fits, Frames, Indices
    <3>3. f.list \in Seq(Indices)
      BY <3>2
    <3>. QED
      BY <3>2, <3>3 DEF f
  <2>. QED
    BY <2>1, <2>2, NodeFacts DEF Reading, TypeOK
<1>. QED
  BY <1>1, ParserInvariance, PTL
================================================================================
