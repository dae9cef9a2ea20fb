----------------------------- MODULE PrattParse -----------------------------
(***************************************************************************)
(* The parser: PrattParser::parseExpr and the parselets of AnodeParser, as *)
(* a stack of activations over a sequence of tokens.                       *)
(*                                                                         *)
(* A parselet is a list of things to do: consume a token, take an optional *)
(* one, parse an expression, follow a rule of the grammar that several     *)
(* parselets share.  A token stands for the kinds that parse alike: "1"    *)
(* for the literals, "id", "+" for + and -, "*" for * and /, "==" for ==   *)
(* and !=, ">" and "<" for themselves and for >= and <=, "++" for ++ and   *)
(* --.  "eof" is what the lexer returns, for ever, at the end.             *)
(*                                                                         *)
(* AST nodes are allocated on a heap and referred to by their index, the   *)
(* operands before the operator.  Spans, names and values are left out:    *)
(* at is the token that a node was made for.                               *)
(***************************************************************************)
EXTENDS Integers, Sequences, FiniteSets, SequencesExt

CONSTANTS Inputs,      \* the sequences of tokens to parse
          None


VARIABLES input,              \* the tokens
          pos,                \* the next token
          stack,              \* activations of parseExpr and of parselets
          heap,               \* the nodes
          statements,         \* the expressions of the module
          storageKinds,       \* storageKindStack_
          templateParameters, \* templateParameterStack_: the tokens that opened its entries
          errors,             \* what the error stream holds: <<kind, token>>
          outcome             \* "parsing", "parsed", "aborted" or "crashed"

vars == <<input, pos, stack, heap, statements, storageKinds, templateParameters, errors, outcome>>
definitions == <<storageKinds, templateParameters>>

-----------------------------------------------------------------------------
Literal == "1"
Binary  == {"*", "+", ">", "<", "==", "&&", "||", "="}

\* What the lexer makes of the text.
TokenKind ==
  Binary \union {Literal, "id", "!", "++", ".", ",", ":", "::", ";", "(", ")", "{", "}", "(?",
                 "if", "else", "while", "func", "cast", "class", "assert", "new", "alias",
                 "template", "expand", "namespace", "unexpected"}

ASSUME InputsAssumption == Inputs \subseteq Seq(TokenKind)

Precedence(kind) ==
  CASE kind \in {".", "("} -> 14
    [] kind = "!"  -> 13
    [] kind = "*"  -> 11
    [] kind = "+"  -> 10
    [] kind \in {">", "<"} -> 8
    [] kind = "==" -> 7
    [] kind = "&&" -> 3
    [] kind = "||" -> 2
    [] kind = "="  -> 1
    [] OTHER -> -100000

RightAssociative(kind) == kind \in {"!", "="}

-----------------------------------------------------------------------------
(***************************************************************************)
(* What a parselet does, one thing after the other.                        *)
(***************************************************************************)
Consume(kind)          == [do |-> "consume", kinds |-> {kind}, again |-> None]
ListEnd(kind, element) == [do |-> "consume", kinds |-> {kind, ","}, again |-> element]
Optional(kind, yes, no) == [do |-> "optional", kind |-> kind, yes |-> yes, no |-> no]
ParseExpr(precedence)  == [do |-> "expression", precedence |-> precedence]
Rule(name)             == [do |-> "rule", name |-> name]
Become(op)             == [do |-> "become", op |-> op]
Push(kind)             == [do |-> "push storage", kind |-> kind]
Pop                    == [do |-> "pop storage"]
Enter                  == [do |-> "enter template"]
Leave                  == [do |-> "leave template"]

Expression == ParseExpr(0)

Grammar(name) ==
  CASE name = "qualified"  -> <<Consume("id"), Rule("parts")>>
    [] name = "parts"      -> <<Optional("::", <<Rule("qualified")>>, <<>>)>>
    [] name = "type"       -> <<Rule("qualified"), Optional("<", <<Rule("type argument")>>, <<>>)>>
    [] name = "type argument" -> <<Rule("type"), ListEnd(">", "type argument")>>
    [] name = "statements" -> <<Optional("}", <<>>, <<Expression, Rule("statements")>>)>>
    [] name = "statement or block" -> <<Optional("{", <<Rule("statements")>>, <<Expression>>)>>
    [] name = "arguments"  -> <<Optional(")", <<>>, <<Rule("argument")>>)>>
    [] name = "argument"   -> <<Expression, ListEnd(")", "argument")>>
    [] name = "parameters" -> <<Optional(")", <<>>, <<Rule("parameter")>>)>>
    [] name = "parameter"  -> <<Consume("id"), Consume(":"), Rule("type"), ListEnd(")", "parameter")>>
    [] name = "template parameters" ->
         <<Optional("<", <<Optional(">", <<>>, <<Become("generic"), Rule("template parameter")>>)>>, <<>>)>>
    [] name = "template parameter" -> <<Consume("id"), ListEnd(">", "template parameter")>>

\* The generic parselets; <<None>> where there is none.
Prefix(kind) ==
  CASE kind = Literal -> <<>>
    [] kind = "id"    -> <<Rule("parts"), Optional(":", <<Become("declare"), Rule("type")>>, <<>>)>>
    [] kind \in {"!", "++"} -> <<Expression>>
    [] kind = "("     -> <<Expression, Consume(")")>>
    [] kind = "{"     -> <<Rule("statements")>>
    [] kind = "(?"    -> <<Expression, Consume(";"), Expression, Consume(";"), Expression, Consume(")")>>
    [] kind = "if"    -> <<Consume("("), Expression, Consume(")"), Expression,
                           Optional("else", <<Expression>>, <<>>)>>
    [] kind = "while" -> <<Consume("("), Expression, Consume(")"), Expression>>
    [] kind = "cast"  -> <<Consume("<"), Rule("type"), Consume(">"), Consume("("), Expression, Consume(")")>>
    [] kind = "new"   -> <<Rule("type"), Consume("("), Consume(")")>>
    [] kind = "assert" -> <<Consume("("), Expression, Consume(")")>>
    [] kind = "func"  -> <<Consume("id"), Consume(":"), Rule("type"), Consume("("), Rule("parameters"),
                           Push("Local"), Expression, Pop>>
    [] kind = "class" -> <<Consume("id"), Rule("template parameters"), Enter,
                           Push("Instance"), Expression, Pop, Leave>>
    [] kind = "namespace" -> <<Rule("qualified"), Rule("statement or block")>>
    [] kind = "template"  -> <<Consume("id"), Rule("template parameters"), Enter,
                               Rule("statement or block"), Leave>>
    [] kind = "expand" -> <<Rule("qualified"),
                            Optional("<", <<Optional(">", <<>>, <<Rule("type argument")>>)>>, <<>>)>>
    [] OTHER -> <<None>>

\* The infix parselets.
Infix(kind) ==
  CASE kind \in Binary ->
         <<ParseExpr(IF RightAssociative(kind) THEN Precedence(kind) - 1 ELSE Precedence(kind))>>
    [] kind = "."      -> <<Consume("id"), Optional("(", <<Become("call"), Rule("arguments")>>, <<>>)>>
    [] kind = "("      -> <<Rule("arguments")>>
    [] OTHER           -> <<None>>

-----------------------------------------------------------------------------
(***************************************************************************)
(* Activations and nodes.  Parentheses leave no node; that there were some *)
(* is kept for the properties.                                             *)
(***************************************************************************)
ExprFrame(precedence) == [fn |-> "parseExpr", precedence |-> precedence, left |-> None]
Parselet(op, todo, operands) ==
  [fn |-> "parselet", op |-> op, at |-> pos, todo |-> todo, kids |-> operands,
   generic |-> FALSE, parameters |-> None]

NewNode(op, at, kids) ==
  [op |-> op, at |-> at, kids |-> kids, written |-> FALSE, storage |-> None,
   parameters |-> None, parens |-> FALSE]

Top     == Last(stack)
Callers == Front(stack)

Peek == IF pos <= Len(input) THEN input[pos] ELSE "eof"

InExpr     == outcome = "parsing" /\ stack # <<>> /\ Top.fn = "parseExpr"
InParselet == outcome = "parsing" /\ stack # <<>> /\ Top.fn = "parselet"
Doing(what) == InParselet /\ Top.todo # <<>> /\ Head(Top.todo).do = what
Item == Head(Top.todo)

\* The parselet goes on with the given list.
Continue(todo) == stack' = Append(Callers, [Top EXCEPT !.todo = todo])

\* ParseAbortedException unwinds everything.
Abort == outcome' = "aborted"

Unexpected(kind) == errors' = errors \union {<<kind, pos>>}

Init ==
  /\ input \in Inputs
  /\ pos = 1 /\ stack = <<>> /\ heap = <<>> /\ statements = <<>>
  /\ storageKinds = <<"Global">> /\ templateParameters = <<>>
  /\ errors = {} /\ outcome = "parsing"

-----------------------------------------------------------------------------
(***************************************************************************)
(* parseModule.                                                            *)
(***************************************************************************)
Statement ==
  /\ outcome = "parsing" /\ stack = <<>> /\ Peek # "eof"
  /\ stack' = <<ExprFrame(0)>>
  /\ UNCHANGED <<input, pos, heap, statements, definitions, errors, outcome>>

EndOfModule ==
  /\ outcome = "parsing" /\ stack = <<>> /\ Peek = "eof"
  /\ outcome' = IF Len(storageKinds) # 1 THEN "crashed" ELSE "parsed"
  /\ storageKinds' = IF Len(storageKinds) # 1 THEN storageKinds ELSE <<>>
  /\ UNCHANGED <<input, pos, stack, heap, statements, templateParameters, errors>>

-----------------------------------------------------------------------------
(***************************************************************************)
(* parseExpr.                                                              *)
(***************************************************************************)
AtStart == InExpr /\ Top.left = None

PrefixAtEnd ==
  /\ AtStart /\ Peek = "eof"
  /\ Abort
  /\ UNCHANGED <<input, pos, stack, heap, statements, definitions, errors>>

PrefixSurprise ==
  /\ AtStart /\ Peek # "eof" /\ Prefix(Peek) = <<None>>
  /\ Unexpected("SurpriseToken")
  /\ Abort
  /\ UNCHANGED <<input, pos, stack, heap, statements, definitions>>

PrefixFound ==
  /\ AtStart /\ Peek # "eof" /\ Prefix(Peek) # <<None>>
  /\ pos' = pos + 1
  /\ stack' = Append(stack, Parselet(Peek, Prefix(Peek), <<>>))
  /\ UNCHANGED <<input, heap, statements, definitions, errors, outcome>>

\* Mutant: an operator of the same precedence is taken on the right.
BindsAsTightly == InExpr /\ Top.left # None /\ Top.precedence <= Precedence(Peek)

Binds == InExpr /\ Top.left # None /\ Top.precedence < Precedence(Peek)

\* Mutant: the token is skipped and the loop goes round again.
InfixSurpriseIgnored ==
  /\ Binds /\ Infix(Peek) = <<None>>
  /\ Unexpected("SurpriseToken")
  /\ UNCHANGED <<input, pos, stack, heap, statements, definitions, outcome>>

\* The error is reported but nothing is thrown: the empty std::function is
\* called, and that exception is not one the callers catch.
InfixSurprise ==
  /\ Binds /\ Infix(Peek) = <<None>>
  /\ Unexpected("SurpriseToken")
  /\ outcome' = "crashed"
  /\ UNCHANGED <<input, pos, stack, heap, statements, definitions>>

InfixFound ==
  /\ Binds /\ Infix(Peek) # <<None>>
  /\ pos' = pos + 1
  /\ stack' = Append(Append(Callers, [Top EXCEPT !.left = None]),
                     Parselet(IF Peek = "(" THEN "call" ELSE Peek, Infix(Peek), <<Top.left>>))
  /\ UNCHANGED <<input, heap, statements, definitions, errors, outcome>>

\* return *left, to parseModule or to a parselet.
ExprReturns ==
  /\ InExpr /\ Top.left # None /\ ~Binds
  /\ IF Callers = <<>>
       THEN stack' = <<>> /\ statements' = Append(statements, Top.left)
       ELSE /\ stack' = [Callers EXCEPT ![Len(Callers)].kids = Append(@, Top.left)]
            /\ UNCHANGED statements
  /\ UNCHANGED <<input, pos, heap, definitions, errors, outcome>>

-----------------------------------------------------------------------------
(***************************************************************************)
(* The parselets.                                                          *)
(***************************************************************************)
\* Mutant: whatever comes is taken for what was expected.
ConsumedAnything ==
  /\ Doing("consume")
  /\ pos' = pos + 1
  /\ Continue(IF Peek = "," /\ Item.again # None THEN <<Rule(Item.again)>> \o Tail(Top.todo)
                                                 ELSE Tail(Top.todo))
  /\ UNCHANGED <<input, heap, statements, definitions, errors, outcome>>

Consumed ==
  /\ Doing("consume") /\ Peek \in Item.kinds
  /\ pos' = pos + 1
  /\ Continue(IF Peek = "," THEN <<Rule(Item.again)>> \o Tail(Top.todo) ELSE Tail(Top.todo))
  /\ UNCHANGED <<input, heap, statements, definitions, errors, outcome>>

NotExpected ==
  /\ Doing("consume") /\ Peek \notin Item.kinds
  /\ Unexpected("UnexpectedToken")
  /\ Abort
  /\ UNCHANGED <<input, pos, stack, heap, statements, definitions>>

TakeOptional ==
  /\ Doing("optional") /\ Peek = Item.kind
  /\ pos' = pos + 1
  /\ Continue(Item.yes \o Tail(Top.todo))
  /\ UNCHANGED <<input, heap, statements, definitions, errors, outcome>>

WithoutOptional ==
  /\ Doing("optional") /\ Peek # Item.kind
  /\ Continue(Item.no \o Tail(Top.todo))
  /\ UNCHANGED <<input, pos, heap, statements, definitions, errors, outcome>>

FollowRule ==
  /\ Doing("rule")
  /\ Continue(Grammar(Item.name) \o Tail(Top.todo))
  /\ UNCHANGED <<input, pos, heap, statements, definitions, errors, outcome>>

\* What the construct turns out to be: a declaration, a call, a generic.
Turn ==
  /\ Doing("become")
  /\ stack' = Append(Callers, IF Item.op = "generic"
                                THEN [Top EXCEPT !.todo = Tail(@), !.generic = TRUE]
                                ELSE [Top EXCEPT !.todo = Tail(@), !.op = Item.op])
  /\ UNCHANGED <<input, pos, heap, statements, definitions, errors, outcome>>

CallParseExpr ==
  /\ Doing("expression")
  /\ stack' = Append(Append(Callers, [Top EXCEPT !.todo = Tail(@)]), ExprFrame(Item.precedence))
  /\ UNCHANGED <<input, pos, heap, statements, definitions, errors, outcome>>

PushStorage ==
  /\ Doing("push storage")
  /\ storageKinds' = Append(storageKinds, Item.kind)
  /\ Continue(Tail(Top.todo))
  /\ UNCHANGED <<input, pos, heap, statements, templateParameters, errors, outcome>>

\* Mutant: the storage kind is left on the stack.
PopStorageForgotten ==
  /\ Doing("pop storage")
  /\ Continue(Tail(Top.todo))
  /\ UNCHANGED <<input, pos, heap, statements, definitions, errors, outcome>>

PopStorage ==
  /\ Doing("pop storage")
  /\ storageKinds' = Front(storageKinds)
  /\ Continue(Tail(Top.todo))
  /\ UNCHANGED <<input, pos, heap, statements, templateParameters, errors, outcome>>

\* A template always enters its parameters, a class only if it has some.
Parameterised == Top.op = "template" \/ Top.generic

EnterTemplate ==
  /\ Doing("enter template")
  /\ templateParameters' = IF Parameterised THEN Append(templateParameters, Top.at)
                                            ELSE templateParameters
  /\ Continue(Tail(Top.todo))
  /\ UNCHANGED <<input, pos, heap, statements, storageKinds, errors, outcome>>

\* Mutant: a template with no parameters does not leave.
LeaveTemplateGeneric ==
  /\ Doing("leave template")
  /\ IF Parameterised
       THEN stack' = Append(Callers, [Top EXCEPT !.todo = Tail(@), !.parameters = Last(templateParameters)])
       ELSE Continue(Tail(Top.todo))
  /\ templateParameters' = IF Top.generic
                             THEN Front(templateParameters)
                             ELSE templateParameters
  /\ UNCHANGED <<input, pos, heap, statements, storageKinds, errors, outcome>>

LeaveTemplate ==
  /\ Doing("leave template")
  /\ IF Parameterised
       THEN /\ stack' = Append(Callers, [Top EXCEPT !.todo = Tail(@), !.parameters = Last(templateParameters)])
            /\ templateParameters' = Front(templateParameters)
       ELSE Continue(Tail(Top.todo)) /\ UNCHANGED templateParameters
  /\ UNCHANGED <<input, pos, heap, statements, storageKinds, errors, outcome>>

-----------------------------------------------------------------------------
(***************************************************************************)
(* The node that a parselet returns.                                       *)
(***************************************************************************)
Returning == InParselet /\ Top.todo = <<>>
Deliver(node) == stack' = [Callers EXCEPT ![Len(Callers)].left = node]

Parenthesised ==
  /\ Returning /\ Top.op = "("
  /\ heap' = [heap EXCEPT ![Top.kids[1]].parens = TRUE]
  /\ Deliver(Top.kids[1])
  /\ UNCHANGED <<input, pos, statements, definitions, errors, outcome>>

\* The variable on the left of = is written.
Assigned ==
  /\ Returning /\ Top.op = "="
  /\ heap' = Append([heap EXCEPT ![Top.kids[1]].written = @ \/ heap[Top.kids[1]].op \in {"id", "declare"}],
                    NewNode("=", Top.at, Top.kids))
  /\ Deliver(Len(heap'))
  /\ UNCHANGED <<input, pos, statements, definitions, errors, outcome>>

Compound ==
  /\ Returning /\ Top.op = "{"
  /\ heap' = Append(heap, [NewNode("{", Top.at, Top.kids) EXCEPT !.storage = Last(storageKinds)])
  /\ Deliver(Len(heap'))
  /\ UNCHANGED <<input, pos, statements, definitions, errors, outcome>>

\* A body that is no compound is put into one; a generic class is wrapped in
\* an anonymous template.
Class ==
  /\ Returning /\ Top.op = "class"
  /\ LET body   == Top.kids[1]
         braced == heap[body].op = "{"
         bodies == IF braced THEN [heap EXCEPT ![body].storage = "Instance"]
                   ELSE Append(heap, [NewNode("{", 0, <<body>>) EXCEPT !.storage = "Instance"])
         class  == [NewNode("class", Top.at, <<IF braced THEN body ELSE Len(bodies)>>)
                      EXCEPT !.parameters = Top.parameters]
     IN  heap' = bodies \o IF Top.generic THEN <<class, NewNode("anonymous", 0, <<Len(bodies) + 1>>)>>
                                          ELSE <<class>>
  /\ Deliver(Len(heap'))
  /\ UNCHANGED <<input, pos, statements, definitions, errors, outcome>>

\* Mutant: the operands change places.
ConstructSwapped ==
  /\ Returning /\ Top.op \notin {"(", "=", "{", "class"}
  /\ heap' = Append(heap, NewNode(Top.op, Top.at,
                                 IF Top.op \in Binary THEN <<Top.kids[2], Top.kids[1]>> ELSE Top.kids))
  /\ Deliver(Len(heap'))
  /\ UNCHANGED <<input, pos, statements, definitions, errors, outcome>>

Construct ==
  /\ Returning /\ Top.op \notin {"(", "=", "{", "class"}
  /\ heap' = Append(heap, NewNode(Top.op, Top.at, Top.kids))
  /\ Deliver(Len(heap'))
  /\ UNCHANGED <<input, pos, statements, definitions, errors, outcome>>

Answered == outcome # "parsing" /\ UNCHANGED vars

Module    == Statement \/ EndOfModule
Expr      == PrefixAtEnd \/ PrefixSurprise \/ PrefixFound \/ InfixSurprise \/ InfixFound \/ ExprReturns
Parselets == Consumed \/ NotExpected \/ TakeOptional \/ WithoutOptional \/ FollowRule \/ Turn
             \/ CallParseExpr \/ PushStorage \/ PopStorage \/ EnterTemplate \/ LeaveTemplate
Nodes     == Parenthesised \/ Assigned \/ Compound \/ Class \/ Construct

Next == Module \/ Expr \/ Parselets \/ Nodes \/ Answered

Spec == Init /\ [][Next]_vars

\* One thread; what can be done is done.
FairSpec == Spec /\ WF_vars(Next)

-----------------------------------------------------------------------------
(***************************************************************************)
(* Properties.                                                             *)
(***************************************************************************)
Node == DOMAIN heap

\* The variables keep their types, and no token behind the end is read.  The heap is
\* a forest, whatever parselets hand to each other: a node is made after its
\* operands, no node is an operand twice, and the statements are different roots.
\* No token becomes two nodes.
TypeOK ==
  /\ pos \in 1 .. Len(input) + 1
  /\ \A n \in Node :
       /\ heap[n].at \in 0 .. pos - 1
       /\ \A k \in DOMAIN heap[n].kids : heap[n].kids[k] \in 1 .. n - 1
  /\ \A m, n \in Node :
       /\ heap[m].at # 0 /\ heap[m].at = heap[n].at => m = n
       /\ \A j \in DOMAIN heap[m].kids, k \in DOMAIN heap[n].kids :
            heap[m].kids[j] = heap[n].kids[k] => m = n /\ j = k
  /\ \A i \in DOMAIN statements :
       /\ statements[i] \in Node
       /\ \A n \in Node : \A k \in DOMAIN heap[n].kids : heap[n].kids[k] # statements[i]
       /\ \A j \in DOMAIN statements : statements[i] = statements[j] => i = j
  /\ \A i \in DOMAIN storageKinds : storageKinds[i] \in {"Global", "Instance", "Local"}
  /\ \A i \in DOMAIN templateParameters : templateParameters[i] \in 1 .. pos - 1
  /\ errors \subseteq {"SurpriseToken", "UnexpectedToken"} \X (1 .. pos)
  /\ outcome \in {"parsing", "parsed", "aborted", "crashed"}

InfixOps == Binary \union {".", "call"}
Tightness(n) == Precedence(IF heap[n].op = "call" THEN "(" ELSE heap[n].op)
Bare(n) == heap[n].op \in InfixOps /\ ~heap[n].parens
Left(n)  == heap[n].kids[1]
Right(n) == heap[n].kids[2]

\* Whether the text of a node ends inside a construct that takes an operand of
\* any precedence, so that an operator behind it belongs to that operand.
EndsOpen[n \in Node] ==
  /\ ~heap[n].parens
  /\ \/ heap[n].op \in {"!", "++", "if", "while", "func", "class", "anonymous"}
     \/ (heap[n].op \in Binary /\ EndsOpen[Right(n)])

\* Whatever is nested in what, the tree is the one that the table of
\* precedences and the associativities call for: without parentheses a looser
\* operator is no operand of a tighter one, operators of one precedence group
\* to their side, and an open construct on the left takes all there is.
RespectsPrecedence ==
  \A n \in Node :
    /\ heap[n].op \in InfixOps =>
         /\ ~EndsOpen[Left(n)]
         /\ Bare(Left(n)) => \/ Tightness(Left(n)) > Tightness(n)
                            \/ (Tightness(Left(n)) = Tightness(n) /\ ~RightAssociative(heap[n].op))
    /\ heap[n].op \in Binary /\ Bare(Right(n)) =>
         \/ Tightness(Right(n)) > Tightness(n)
         \/ (Tightness(Right(n)) = Tightness(n) /\ RightAssociative(heap[n].op))

\* The tokens of a tree, an infix operator behind its first operand.
Text[n \in Node] ==
  LET own   == IF heap[n].at = 0 THEN <<>> ELSE <<heap[n].at>>
      texts == [k \in DOMAIN heap[n].kids |-> Text[heap[n].kids[k]]]
  IN  IF heap[n].op \in InfixOps THEN Head(texts) \o own \o FlattenSeq(Tail(texts))
                                 ELSE own \o FlattenSeq(texts)

\* Kinds of tokens that always have a node of their own.
OwnNode == {Literal, "!", "++", "*", "+", "==", "&&", "||", "=", ".", "(?", "if", "while",
            "cast", "new", "assert", "func", "class", "template", "namespace", "expand"}

\* Between two statements, the trees of the module hold every operand and
\* operator that was read, once, in the order of the text: no parselet loses,
\* repeats or exchanges what a nested one returned.
TextIsKept ==
  outcome = "parsing" /\ stack = <<>> =>
    LET text == FlattenSeq([i \in DOMAIN statements |-> Text[statements[i]]])
    IN  /\ \A i, j \in DOMAIN text : i < j => text[i] < text[j]
        /\ \A p \in 1 .. pos - 1 :
             input[p] \in OwnNode => \E i \in DOMAIN text : text[i] = p

\* Where a compound is executed is decided by the definition it stands in: the
\* innermost function or class around it, however they are nested.
StorageIsEnclosing ==
  outcome = "parsing" /\ stack = <<>> =>
    LET enclosing[n \in Node] ==
          LET parents == {p \in Node : \E k \in DOMAIN heap[p].kids : heap[p].kids[k] = n}
          IN  IF parents = {} THEN "Global"
              ELSE LET p == CHOOSE q \in parents : TRUE
                   IN  CASE heap[p].op = "func"  -> "Local"
                         [] heap[p].op = "class" -> "Instance"
                         [] OTHER -> enclosing[p]
    IN  \A n \in Node : heap[n].op = "{" => heap[n].storage = enclosing[n]

\* A generic class has its own parameters, whatever templates and generic
\* classes stand in its body.
GenericsOwnTheirParameters ==
  \A n \in Node : heap[n].op = "class" => heap[n].parameters \in {None, heap[n].at}

\* Every input is answered.
EveryInputIsAnswered == <>(outcome # "parsing")
=============================================================================
