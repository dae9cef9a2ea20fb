-------------------------- MODULE PrattParseProofs --------------------------
(***************************************************************************)
(* Proofs, for every set of inputs, that the parser leaves every template  *)
(* and every storage kind that it enters, that a generic class gets its    *)
(* own parameters, that the trees respect the precedences, and that they   *)
(* are trees: no node has two parents, and no token becomes two nodes.     *)
(***************************************************************************)
EXTENDS PrattParse, SequenceLemmas, SequenceTheorems, TLAPS

-----------------------------------------------------------------------------
(***************************************************************************)
(* What a parselet has left to do: items that change neither the storage   *)
(* kinds nor the templates, and then one of a few endings.                 *)
(***************************************************************************)
RuleName == {"qualified", "parts", "type", "type argument", "statements", "statement or block",
             "arguments", "argument", "parameters", "parameter",
             "template parameters", "template parameter"}

\* What a construct may turn out to be; anything, where it is not said which one it is.
Turns(op) ==
  CASE op \in {"id", "declare"} -> {"generic", "declare"}
    [] op \in {".", "call"}     -> {"generic", "call"}
    [] op = ""                  -> {"generic", "declare", "call"}
    [] OTHER                    -> {"generic"}

Operator == TokenKind \union {"call", "declare", "anonymous"}

Simple(op) ==
  [do : {"consume"}, kinds : SUBSET (TokenKind \ {","}), again : {None}]
    \union [do : {"consume"}, kinds : SUBSET TokenKind, again : RuleName]
    \union [do : {"expression"}, precedence : Nat] \union [do : {"rule"}, name : RuleName]
    \union [do : {"become"}, op : Turns(op)]

Choice(op)  == [do : {"optional"}, kind : TokenKind, yes : Seq(Simple(op)), no : Seq(Simple(op))]
Either(op)  == Simple(op) \union Choice(op)
Nested(op)  == [do : {"optional"}, kind : TokenKind, yes : Seq(Either(op)), no : Seq(Either(op))]
Neutral(op) == Either(op) \union Nested(op)

Endings == {"none", "function", "function body", "function end",
            "class", "class storage", "class body", "class storage end", "class end",
            "template", "template end", "parenthesis", "parenthesis end"}

Script(ending) ==
  CASE ending = "none"          -> <<>>
    [] ending = "function"      -> <<Push("Local"), Expression, Pop>>
    [] ending = "function body" -> <<Expression, Pop>>
    [] ending = "function end"  -> <<Pop>>
    [] ending = "class"         -> <<Enter, Push("Instance"), Expression, Pop, Leave>>
    [] ending = "class storage" -> <<Push("Instance"), Expression, Pop, Leave>>
    [] ending = "class body"    -> <<Expression, Pop, Leave>>
    [] ending = "class storage end" -> <<Pop, Leave>>
    [] ending = "class end"     -> <<Leave>>
    [] ending = "template"      -> <<Enter, Rule("statement or block"), Leave>>
    [] ending = "template end"  -> <<Leave>>
    [] ending = "parenthesis"     -> <<Expression, Consume(")")>>
    [] ending = "parenthesis end" -> <<Consume(")")>>

EndingsOf(op) ==
  CASE op = "func"     -> {"function", "function body", "function end", "none"}
    [] op = "class"    -> {"class", "class storage", "class body", "class storage end", "class end", "none"}
    [] op = "template" -> {"template", "template end", "none"}
    [] op = "("        -> {"parenthesis", "parenthesis end", "none"}
    [] OTHER           -> {"none"}

\* Where items may stand before the ending.
Roomy(op, ending) == \/ ending \in {"function", "class", "template", "template end"}
                     \/ op \notin {"func", "class", "template", "("}

Follows(op, todo, ending) ==
  /\ ending \in EndingsOf(op)
  /\ \E xs \in Seq(Neutral(op)) : todo = xs \o Script(ending) /\ (Roomy(op, ending) \/ xs = <<>>)

-----------------------------------------------------------------------------
(***************************************************************************)
(* The stack: calls of parseExpr and of parselets in turn, the first one   *)
(* of parseExpr.  end holds the ending of each.  The one on top may wait   *)
(* for an operand.                                                         *)
(***************************************************************************)
ParseletItem == Neutral("") \union {Push("Local"), Push("Instance"), Pop, Enter, Leave}

ExprActivation == [fn : {"parseExpr"}, precedence : Nat, left : {None} \union Nat]
ParseletActivation ==
  [fn : {"parselet"}, op : Operator, at : Nat, todo : Seq(ParseletItem), kids : Seq(Nat),
   generic : BOOLEAN, parameters : {None} \union Nat]
Activation == ExprActivation \union ParseletActivation

\* The first operand, which the node needs, is there.
HasOperand(op, kids, ending) ==
  \/ kids # <<>>
  \/ op \notin {"class", "("}
  \/ ending \in {"class", "class storage", "class body", "parenthesis"}

\* An activation when the tokens before p have been read, and the nodes up to n made.
Sound(a, ending, settled, p, n) ==
  /\ a.fn = "parseExpr" => a.left \in {None} \union 1 .. n
  /\ a.fn = "parselet" =>
       /\ a.at \in 1 .. p - 1
       /\ \A k \in DOMAIN a.kids : a.kids[k] \in 1 .. n
       /\ a.parameters \in {None, a.at}
       /\ Follows(a.op, a.todo, ending)
       /\ a.op = "=" => a.kids # <<>>
       /\ settled => HasOperand(a.op, a.kids, ending)

Stacked(st, end, settled, p, n) ==
  /\ st \in Seq(Activation) /\ end \in Seq(Endings) /\ Len(end) = Len(st)
  /\ st # <<>> => st[1].fn = "parseExpr"
  /\ \A i \in 1 .. Len(st) - 1 : st[i].fn # st[i + 1].fn
  /\ \A i \in DOMAIN st : Sound(st[i], end[i], settled /\ i = Len(st), p, n)

\* The parselets between push and pop, and those between enter and leave.
InStorage(a, ending) ==
  a.fn = "parselet" /\ ending \in {"function body", "function end", "class body", "class storage end"}
InTemplate(a, ending) ==
  /\ a.fn = "parselet" /\ (a.op = "template" \/ a.generic)
  /\ ending \in {"class storage", "class body", "class storage end", "class end", "template end"}

Storages(st, end)  == {i \in DOMAIN st : InStorage(st[i], end[i])}
Templates(st, end) == {i \in DOMAIN st : InTemplate(st[i], end[i])}

\* f has the members of M in ascending order.
Enumerates(f, M) ==
  /\ f \in Seq(Nat)
  /\ \A i, j \in DOMAIN f : i < j => f[i] < f[j]
  /\ \A i \in DOMAIN f : f[i] \in M
  /\ \A m \in M : \E i \in DOMAIN f : f[i] = m

\* Each storage kind but the first is of one of the parselets between push and pop.
StorageMatches(st, end, kinds) ==
  \E f : Enumerates(f, Storages(st, end)) /\ Len(kinds) = Len(f) + 1

\* The template parameters are those of the parselets between enter and leave.
TemplatesMatch(st, end, params) ==
  \E f : /\ Enumerates(f, Templates(st, end)) /\ Len(params) = Len(f)
         /\ \A i \in DOMAIN f : params[i] = st[f[i]].at

-----------------------------------------------------------------------------
(***************************************************************************)
(* The inductive invariant.                                                *)
(***************************************************************************)
Kinds == {"Global", "Instance", "Local"}

NodeType == [op : Operator, at : Nat, kids : Seq(Nat), written : BOOLEAN,
             storage : {None} \union Kinds, parameters : {None} \union Nat, parens : BOOLEAN]

\* The nodes made so far.
Grown(h) ==
  /\ h \in Seq(NodeType)
  /\ \A n \in DOMAIN h :
       /\ \A k \in DOMAIN h[n].kids : h[n].kids[k] \in 1 .. n - 1
       /\ h[n].op = "class" => h[n].parameters \in {None, h[n].at}

\* The stack when the tokens before p have been read, and the nodes up to n made.
Works(st, kinds, params, p, n) ==
  \E end : /\ Stacked(st, end, TRUE, p, n)
           /\ StorageMatches(st, end, kinds)
           /\ TemplatesMatch(st, end, params)

Working == outcome = "parsing" => Works(stack, storageKinds, templateParameters, pos, Len(heap))

PrattInv ==
  /\ input \in Seq(TokenKind) /\ pos \in 1 .. Len(input) + 1
  /\ Grown(heap)
  /\ statements \in Seq(1 .. Len(heap))
  /\ storageKinds \in Seq(Kinds) /\ templateParameters \in Seq(1 .. pos - 1)
  /\ errors \subseteq {"SurpriseToken", "UnexpectedToken"} \X (1 .. pos)
  /\ outcome \in {"parsing", "parsed", "aborted", "crashed"}
  /\ Working
-----------------------------------------------------------------------------
(***************************************************************************)
(* Items and lists of items.                                               *)
(***************************************************************************)

\* What the items that change no stack are.
LEMMA NeutralItem ==
  ASSUME NEW op, NEW x \in Neutral(op)
  PROVE  /\ x.do \in {"consume", "expression", "rule", "become", "optional"}
         /\ x.do = "consume" => /\ "eof" \notin x.kinds
                                /\ "," \in x.kinds => x.again \in RuleName
         /\ x.do = "expression" => x.precedence \in Nat
         /\ x.do = "rule" => x.name \in RuleName
         /\ x.do = "become" => x.op \in Turns(op)
         /\ x.do = "optional" => /\ x.kind # "eof"
                                 /\ x.yes \in Seq(Neutral(op)) /\ x.no \in Seq(Neutral(op))
<1>1. "eof" \notin TokenKind
  BY DEF TokenKind, Binary, Literal
<1>2. CASE x \in Simple(op)
  BY <1>1, <1>2 DEF Simple
<1>3. CASE x \in Choice(op) \union Nested(op)
  <2>1. Simple(op) \subseteq Neutral(op) /\ Either(op) \subseteq Neutral(op)
    BY DEF Neutral, Either
  <2>2. \A s \in Seq(Simple(op)) : s \in Seq(Neutral(op))
    BY <2>1, SeqMonotonic
  <2>3. \A s \in Seq(Either(op)) : s \in Seq(Neutral(op))
    BY <2>1, SeqMonotonic
  <2>4. x.do = "optional" /\ x.kind \in TokenKind /\ x.yes \in Seq(Neutral(op)) /\ x.no \in Seq(Neutral(op))
    BY <1>3, <2>2, <2>3 DEF Choice, Nested
  <2>. QED  BY <2>4, <1>1
<1>. QED  BY <1>2, <1>3 DEF Neutral, Either

\* Lists of one item and of more.
LEMMA Lists ==
  ASSUME NEW S
  PROVE  /\ <<>> \in Seq(S)
         /\ \A a \in S : <<a>> \in Seq(S)
         /\ \A a, b \in S : <<a, b>> \in Seq(S)
         /\ \A a, b, c \in S : <<a, b, c>> \in Seq(S)
         /\ \A a, b, c, d \in S : <<a, b, c, d>> \in Seq(S)
         /\ \A a, b, c, d, e \in S : <<a, b, c, d, e>> \in Seq(S)
         /\ \A a, b, c, d, e, f \in S : <<a, b, c, d, e, f>> \in Seq(S)
  OBVIOUS

\* Lists of one and one, one after the other.
LEMMA OneAndOne ==
  ASSUME NEW a, NEW b
  PROVE  <<a>> \o <<b>> = <<a, b>>
<1>. DEFINE S == {a, b}
            s == <<a>>
            t == <<b>>
            r == <<a, b>>
<1>1. /\ s \in Seq(S) /\ t \in Seq(S) /\ r \in Seq(S)
      /\ Len(s) = 1 /\ Len(t) = 1 /\ Len(r) = 2
      /\ s[1] = a /\ t[1] = b /\ r[1] = a /\ r[2] = b
  OBVIOUS
<1>2. s \o t = r
  <2>. HIDE DEF S, s, t, r
  <2>1. (\A i \in 1 .. Len(s) : r[i] = s[i]) /\ (\A i \in 1 .. Len(t) : r[Len(s) + i] = t[i])
    BY <1>1
  <2>2. Len(r) = Len(s) + Len(t)
    BY <1>1
  <2>. QED  BY <1>1, <2>1, <2>2, ConcatEqual
<1>. QED  BY <1>2

\* Lists of two and three, one after the other.
LEMMA TwoAndThree ==
  ASSUME NEW a, NEW b, NEW c, NEW d, NEW e
  PROVE  <<a, b>> \o <<c, d, e>> = <<a, b, c, d, e>>
<1>. DEFINE S == {a, b, c, d, e}
            s == <<a, b>>
            t == <<c, d, e>>
            r == <<a, b, c, d, e>>
<1>1. s \in Seq(S) /\ t \in Seq(S) /\ r \in Seq(S)
  OBVIOUS
<1>2. (\A i \in 1 .. Len(s) : r[i] = s[i]) /\ (\A i \in 1 .. Len(t) : r[Len(s) + i] = t[i])
  OBVIOUS
<1>3. Len(r) = Len(s) + Len(t)
  OBVIOUS
<1>4. s \o t = r
  <2>. HIDE DEF S, s, t, r
  <2>. QED  BY <1>1, <1>2, <1>3, ConcatEqual
<1>. QED  BY <1>4

\* Lists of two and five, one after the other.
LEMMA TwoAndFive ==
  ASSUME NEW a, NEW b, NEW c, NEW d, NEW e, NEW f, NEW g
  PROVE  <<a, b>> \o <<c, d, e, f, g>> = <<a, b, c, d, e, f, g>>
<1>. DEFINE S == {a, b, c, d, e, f, g}
            s == <<a, b>>
            t == <<c, d, e, f, g>>
            r == <<a, b, c, d, e, f, g>>
<1>1. s \in Seq(S) /\ t \in Seq(S) /\ r \in Seq(S)
  OBVIOUS
<1>2. (\A i \in 1 .. Len(s) : r[i] = s[i]) /\ (\A i \in 1 .. Len(t) : r[Len(s) + i] = t[i])
  OBVIOUS
<1>3. Len(r) = Len(s) + Len(t)
  OBVIOUS
<1>4. s \o t = r
  <2>. HIDE DEF S, s, t, r
  <2>. QED  BY <1>1, <1>2, <1>3, ConcatEqual
<1>. QED  BY <1>4

\* Lists of five and three, one after the other.
LEMMA FiveAndThree ==
  ASSUME NEW a, NEW b, NEW c, NEW d, NEW e, NEW f, NEW g, NEW h
  PROVE  <<a, b, c, d, e>> \o <<f, g, h>> = <<a, b, c, d, e, f, g, h>>
<1>. DEFINE S == {a, b, c, d, e, f, g, h}
            s == <<a, b, c, d, e>>
            t == <<f, g, h>>
            r == <<a, b, c, d, e, f, g, h>>
<1>1. s \in Seq(S) /\ t \in Seq(S) /\ r \in Seq(S)
  OBVIOUS
<1>2. (\A i \in 1 .. Len(s) : r[i] = s[i]) /\ (\A i \in 1 .. Len(t) : r[Len(s) + i] = t[i])
  OBVIOUS
<1>3. Len(r) = Len(s) + Len(t)
  OBVIOUS
<1>4. s \o t = r
  <2>. HIDE DEF S, s, t, r
  <2>. QED  BY <1>1, <1>2, <1>3, ConcatEqual
<1>. QED  BY <1>4

\* The items that the grammar is made of.
LEMMA SimpleItems ==
  ASSUME NEW op
  PROVE  /\ \A k \in TokenKind \ {","} : Consume(k) \in Simple(op)
         /\ \A k \in TokenKind, r \in RuleName : ListEnd(k, r) \in Simple(op)
         /\ \A p \in Nat : ParseExpr(p) \in Simple(op)
         /\ \A r \in RuleName : Rule(r) \in Simple(op)
         /\ Become("generic") \in Simple(op)
         /\ \A o \in Turns(op) : Become(o) \in Simple(op)
         /\ Simple(op) \subseteq Either(op) /\ Either(op) \subseteq Neutral(op)
         /\ \A k \in TokenKind, y, n \in Seq(Simple(op)) :
              Optional(k, y, n) \in Either(op) /\ Optional(k, y, n) \in Neutral(op)
         /\ \A k \in TokenKind, y, n \in Seq(Either(op)) : Optional(k, y, n) \in Neutral(op)
<1>1. "," \in TokenKind /\ "generic" \in Turns(op)
  BY DEF TokenKind, Turns
<1>2. /\ \A k \in TokenKind \ {","} : Consume(k) \in Simple(op)
      /\ \A k \in TokenKind, r \in RuleName : ListEnd(k, r) \in Simple(op)
  BY <1>1 DEF Simple, Consume, ListEnd
<1>3. /\ \A p \in Nat : ParseExpr(p) \in Simple(op)
      /\ \A r \in RuleName : Rule(r) \in Simple(op)
      /\ \A o \in Turns(op) : Become(o) \in Simple(op)
  BY DEF Simple, ParseExpr, Rule, Become
<1>4. Simple(op) \subseteq Either(op) /\ Either(op) \subseteq Neutral(op)
  BY DEF Either, Neutral
<1>5. \A k \in TokenKind, y, n \in Seq(Simple(op)) : Optional(k, y, n) \in Choice(op)
  BY DEF Choice, Optional
<1>6. \A k \in TokenKind, y, n \in Seq(Either(op)) : Optional(k, y, n) \in Nested(op)
  BY DEF Nested, Optional
<1>7. Choice(op) \subseteq Either(op) /\ Nested(op) \subseteq Neutral(op)
  BY DEF Either, Neutral
<1>. QED  BY <1>1, <1>2, <1>3, <1>4, <1>5, <1>6, <1>7

\* A rule of the grammar changes no stack.
LEMMA GrammarIsNeutral ==
  ASSUME NEW op, NEW name \in RuleName
  PROVE  Grammar(name) \in Seq(Neutral(op))
<1>. DEFINE S == Simple(op)
            N == Neutral(op)
            E == Either(op)
<1>1. S \subseteq E /\ E \subseteq N /\ S \subseteq N
  BY SimpleItems
<1>2. /\ {"id", ":"} \subseteq TokenKind \ {","}
      /\ {"<", ">", ")", "}", "{", "::"} \subseteq TokenKind
      /\ 0 \in Nat
  BY DEF TokenKind, Binary, Literal
<1>3. /\ {Consume("id"), Consume(":"), Expression, Become("generic")} \subseteq S
      /\ \A r \in RuleName : Rule(r) \in S
      /\ {ListEnd(">", "type argument"), ListEnd(")", "argument"), ListEnd(")", "parameter"),
          ListEnd(">", "template parameter")} \subseteq S
  BY <1>2, SimpleItems DEF Expression, RuleName
<1>4. /\ <<>> \in Seq(S) /\ (\A a \in S : <<a>> \in Seq(S))
      /\ (\A a, b \in S : <<a, b>> \in Seq(S))
  BY Lists
<1>5. /\ (\A a \in E : <<a>> \in Seq(E)) /\ <<>> \in Seq(E)
  BY Lists
<1>6. /\ (\A a \in N : <<a>> \in Seq(N)) /\ (\A a, b \in N : <<a, b>> \in Seq(N))
      /\ (\A a, b, c, d \in N : <<a, b, c, d>> \in Seq(N))
  BY Lists
<1>7. \A k \in TokenKind, y, n \in Seq(S) : Optional(k, y, n) \in E /\ Optional(k, y, n) \in N
  BY SimpleItems
<1>8. \A k \in TokenKind, y, n \in Seq(E) : Optional(k, y, n) \in N
  BY SimpleItems
<1>. SUFFICES Grammar(name) \in Seq(N)
  OBVIOUS
<1>. HIDE DEF S, N, E
<1>9. CASE name = "qualified"
  BY <1>9, <1>1, <1>3, <1>6 DEF Grammar, RuleName
<1>10. CASE name = "parts"
  <2>1. <<Rule("qualified")>> \in Seq(S)
    BY <1>3, <1>4 DEF RuleName
  <2>2. Optional("::", <<Rule("qualified")>>, <<>>) \in N
    BY <2>1, <1>2, <1>4, <1>7
  <2>. QED  BY <1>10, <2>2, <1>6 DEF Grammar
<1>11. CASE name = "type"
  <2>1. <<Rule("type argument")>> \in Seq(S)
    BY <1>3, <1>4 DEF RuleName
  <2>2. Optional("<", <<Rule("type argument")>>, <<>>) \in N
    BY <2>1, <1>2, <1>4, <1>7
  <2>3. Rule("qualified") \in N
    BY <1>1, <1>3 DEF RuleName
  <2>. QED  BY <1>11, <2>2, <2>3, <1>6 DEF Grammar
<1>12. CASE name = "type argument"
  <2>1. Rule("type") \in N /\ ListEnd(">", "type argument") \in N
    BY <1>1, <1>3 DEF RuleName
  <2>. QED  BY <1>12, <2>1, <1>6 DEF Grammar
<1>13. CASE name = "statements"
  <2>1. Expression \in S /\ Rule("statements") \in S
    BY <1>3 DEF RuleName
  <2>2. <<Expression, Rule("statements")>> \in Seq(S)
    BY <2>1, <1>4
  <2>3. Optional("}", <<>>, <<Expression, Rule("statements")>>) \in N
    BY <2>2, <1>2, <1>4, <1>7
  <2>. QED  BY <1>13, <2>3, <1>6 DEF Grammar
<1>14. CASE name = "statement or block"
  <2>1. Expression \in S /\ Rule("statements") \in S
    BY <1>3 DEF RuleName
  <2>2. <<Expression>> \in Seq(S) /\ <<Rule("statements")>> \in Seq(S)
    BY <2>1, <1>4
  <2>3. Optional("{", <<Rule("statements")>>, <<Expression>>) \in N
    BY <2>2, <1>2, <1>7
  <2>. QED  BY <1>14, <2>3, <1>6 DEF Grammar
<1>15. CASE name = "arguments"
  <2>1. <<Rule("argument")>> \in Seq(S)
    BY <1>3, <1>4 DEF RuleName
  <2>2. Optional(")", <<>>, <<Rule("argument")>>) \in N
    BY <2>1, <1>2, <1>4, <1>7
  <2>. QED  BY <1>15, <2>2, <1>6 DEF Grammar
<1>16. CASE name = "argument"
  <2>1. Expression \in N /\ ListEnd(")", "argument") \in N
    BY <1>1, <1>3
  <2>. QED  BY <1>16, <2>1, <1>6 DEF Grammar
<1>17. CASE name = "parameters"
  <2>1. <<Rule("parameter")>> \in Seq(S)
    BY <1>3, <1>4 DEF RuleName
  <2>2. Optional(")", <<>>, <<Rule("parameter")>>) \in N
    BY <2>1, <1>2, <1>4, <1>7
  <2>. QED  BY <1>17, <2>2, <1>6 DEF Grammar
<1>18. CASE name = "parameter"
  <2>1. Consume("id") \in N /\ Consume(":") \in N /\ Rule("type") \in N /\ ListEnd(")", "parameter") \in N
    BY <1>1, <1>3 DEF RuleName
  <2>. QED  BY <1>18, <2>1, <1>6 DEF Grammar
<1>19. CASE name = "template parameters"
  <2>1. <<Become("generic"), Rule("template parameter")>> \in Seq(S)
    BY <1>3, <1>4 DEF RuleName
  <2>2. Optional(">", <<>>, <<Become("generic"), Rule("template parameter")>>) \in E
    BY <2>1, <1>2, <1>4, <1>7
  <2>3. <<Optional(">", <<>>, <<Become("generic"), Rule("template parameter")>>)>> \in Seq(E)
    BY <2>2, <1>5
  <2>4. Optional("<", <<Optional(">", <<>>, <<Become("generic"), Rule("template parameter")>>)>>, <<>>) \in N
    BY <2>3, <1>2, <1>5, <1>8
  <2>. QED  BY <1>19, <2>4, <1>6 DEF Grammar
<1>20. CASE name = "template parameter"
  <2>1. Consume("id") \in N /\ ListEnd(">", "template parameter") \in N
    BY <1>1, <1>3
  <2>. QED  BY <1>20, <2>1, <1>6 DEF Grammar
<1>. QED
  BY <1>9, <1>10, <1>11, <1>12, <1>13, <1>14, <1>15, <1>16, <1>17, <1>18, <1>19, <1>20 DEF RuleName

\* Items that change no stack, and endings, are lists of items.
LEMMA ScriptType ==
  ASSUME NEW op, NEW ending \in Endings
  PROVE  Neutral(op) \subseteq ParseletItem /\ Script(ending) \in Seq(ParseletItem)
<1>2. Neutral(op) \subseteq ParseletItem
  <2>1. Turns(op) \subseteq Turns("")
    BY DEF Turns
  <2>2. Simple(op) \subseteq Simple("")
    BY <2>1 DEF Simple
  <2>3. \A s \in Seq(Simple(op)) : s \in Seq(Simple(""))
    BY <2>2, SeqMonotonic
  <2>4. Either(op) \subseteq Either("")
    BY <2>2, <2>3 DEF Either, Choice
  <2>5. \A s \in Seq(Either(op)) : s \in Seq(Either(""))
    BY <2>4, SeqMonotonic
  <2>6. Nested(op) \subseteq Nested("")
    BY <2>5 DEF Nested
  <2>. QED  BY <2>4, <2>6 DEF Neutral, ParseletItem
<1>3. Script(ending) \in Seq(ParseletItem)
  <2>1. Simple("") \subseteq ParseletItem
    BY SimpleItems DEF ParseletItem
  <2>2. Expression \in ParseletItem
    <3>1. 0 \in Nat
      OBVIOUS
    <3>. QED  BY <2>1, <3>1, SimpleItems DEF Expression
  <2>3. Rule("statement or block") \in ParseletItem
    BY <2>1, SimpleItems DEF RuleName
  <2>4. Consume(")") \in ParseletItem
    <3>1. ")" \in TokenKind \ {","}
      BY DEF TokenKind
    <3>. QED  BY <2>1, <3>1, SimpleItems
  <2>5. /\ Push("Local") \in ParseletItem /\ Push("Instance") \in ParseletItem
        /\ Pop \in ParseletItem /\ Enter \in ParseletItem /\ Leave \in ParseletItem
    BY DEF ParseletItem
  <2>. DEFINE P == ParseletItem
  <2>6. /\ (\A a \in P : <<a>> \in Seq(P)) /\ (\A a, b \in P : <<a, b>> \in Seq(P))
        /\ (\A a, b, c \in P : <<a, b, c>> \in Seq(P)) /\ <<>> \in Seq(P)
        /\ (\A a, b, c, d \in P : <<a, b, c, d>> \in Seq(P))
        /\ (\A a, b, c, d, e \in P : <<a, b, c, d, e>> \in Seq(P))
    BY Lists
  <2>7. Script(ending) \in Seq(P)
    <3>. SUFFICES Script(ending) \in Seq(P)
      OBVIOUS
    <3>1. P = ParseletItem
      OBVIOUS
    <3>. HIDE DEF P
    <3>2. CASE ending \in {"none", "function", "function body", "function end"}
      BY <3>1, <3>2, <2>2, <2>5, <2>6 DEF Script
    <3>3. CASE ending \in {"class", "class storage"}
      BY <3>1, <3>3, <2>2, <2>5, <2>6 DEF Script
    <3>4. CASE ending \in {"class body", "class storage end", "class end"}
      BY <3>1, <3>4, <2>2, <2>5, <2>6 DEF Script
    <3>5. CASE ending \in {"template", "template end", "parenthesis", "parenthesis end"}
      BY <3>1, <3>5, <2>2, <2>3, <2>4, <2>5, <2>6 DEF Script
    <3>. QED  BY <3>2, <3>3, <3>4, <3>5 DEF Endings
  <2>. QED  BY <2>7
<1>. QED  BY <1>2, <1>3

\* Everything that a parselet has to do is an item.
LEMMA FollowsType ==
  ASSUME NEW op, NEW todo, NEW ending, Follows(op, todo, ending)
  PROVE  todo \in Seq(ParseletItem) /\ ending \in Endings
<1>1. ending \in Endings
  BY DEF Follows, EndingsOf, Endings
<1>2. Neutral(op) \subseteq ParseletItem /\ Script(ending) \in Seq(ParseletItem)
  BY <1>1, ScriptType
<1>4. PICK xs \in Seq(Neutral(op)) : todo = xs \o Script(ending)
  BY DEF Follows
<1>5. xs \in Seq(ParseletItem)
  BY <1>2, SeqMonotonic
<1>6. xs \o Script(ending) \in Seq(ParseletItem)
  BY <1>2, <1>5, ConcatProperties
<1>. QED  BY <1>1, <1>4, <1>6

\* Either an item that changes no stack comes next, or the ending itself.
LEMMA NextItem ==
  ASSUME NEW op, NEW todo, NEW ending, Follows(op, todo, ending), todo # <<>>
  PROVE  \/ /\ Head(todo) \in Neutral(op) /\ Roomy(op, ending)
            /\ \A ys \in Seq(Neutral(op)) : Follows(op, ys \o Tail(todo), ending)
         \/ todo = Script(ending) /\ ending # "none"
<1>1. PICK xs \in Seq(Neutral(op)) :
        todo = xs \o Script(ending) /\ (Roomy(op, ending) \/ xs = <<>>)
  BY DEF Follows
<1>2. ending \in EndingsOf(op) /\ ending \in Endings
  BY FollowsType DEF Follows
<1>. DEFINE P == ParseletItem
<1>3. xs \in Seq(P) /\ Script(ending) \in Seq(P) /\ Neutral(op) \subseteq P
  BY <1>2, ScriptType, SeqMonotonic
<1>. HIDE DEF P
<1>4. CASE xs = <<>>
  <2>1. todo = Script(ending)
    BY <1>1, <1>3, <1>4, ConcatEmptySeq
  <2>2. ending # "none"
    BY <2>1 DEF Script
  <2>. QED  BY <2>1, <2>2
<1>5. CASE xs # <<>>
  <2>1. Head(todo) = Head(xs) /\ Tail(todo) = Tail(xs) \o Script(ending)
    BY <1>1, <1>3, <1>5, HeadTailConcat
  <2>2. Head(xs) \in Neutral(op) /\ Tail(xs) \in Seq(Neutral(op))
    BY <1>5, HeadTailProperties
  <2>3. ASSUME NEW ys \in Seq(Neutral(op))
        PROVE  Follows(op, ys \o Tail(todo), ending)
    <3>1. ys \in Seq(P) /\ Tail(xs) \in Seq(P)
      BY <2>2, <1>3, SeqMonotonic
    <3>2. ys \o (Tail(xs) \o Script(ending)) = (ys \o Tail(xs)) \o Script(ending)
      <4>1. PICK u \in Seq(P), v \in Seq(P), w \in Seq(P) :
              u = ys /\ v = Tail(xs) /\ w = Script(ending)
        BY <3>1, <1>3, Zenon
      <4>2. (u \o v) \o w = u \o (v \o w)
        BY ConcatAssociative
      <4>. QED  BY <4>1, <4>2, Zenon
    <3>3. ys \o Tail(xs) \in Seq(Neutral(op))
      BY <2>2, ConcatProperties
    <3>4. Roomy(op, ending)
      BY <1>1, <1>5
    <3>. QED  BY <2>1, <3>2, <3>3, <3>4, <1>2 DEF Follows
  <2>4. Roomy(op, ending)
    BY <1>1, <1>5
  <2>. QED  BY <2>1, <2>2, <2>3, <2>4
<1>. QED  BY <1>4, <1>5

\* What is left when an ending has begun.
After(ending) ==
  CASE ending = "function"      -> "function body"
    [] ending = "function body" -> "function end"
    [] ending = "class"         -> "class storage"
    [] ending = "class storage" -> "class body"
    [] ending = "class body"    -> "class storage end"
    [] ending = "class storage end" -> "class end"
    [] ending = "template"      -> "template end"
    [] ending = "parenthesis"   -> "parenthesis end"
    [] OTHER                    -> "none"

\* Head and tail of a list of one.
LEMMA ListOf1 ==
  ASSUME NEW a
  PROVE  Head(<<a>>) = a /\ Tail(<<a>>) = <<>>
  OBVIOUS

\* Head and tail of a list of two.
LEMMA ListOf2 ==
  ASSUME NEW a, NEW b
  PROVE  Head(<<a, b>>) = a /\ Tail(<<a, b>>) = <<b>>
  OBVIOUS

\* Head and tail of a list of three.
LEMMA ListOf3 ==
  ASSUME NEW a, NEW b, NEW c
  PROVE  Head(<<a, b, c>>) = a /\ Tail(<<a, b, c>>) = <<b, c>>
  OBVIOUS

\* Head and tail of a list of four.
LEMMA ListOf4 ==
  ASSUME NEW a, NEW b, NEW c, NEW d
  PROVE  Head(<<a, b, c, d>>) = a /\ Tail(<<a, b, c, d>>) = <<b, c, d>>
  OBVIOUS

\* Head and tail of a list of five.
LEMMA ListOf5 ==
  ASSUME NEW a, NEW b, NEW c, NEW d, NEW e
  PROVE  Head(<<a, b, c, d, e>>) = a /\ Tail(<<a, b, c, d, e>>) = <<b, c, d, e>>
  OBVIOUS

\* What an ending begins with, and what it leaves.
LEMMA EndingParts ==
  /\ Head(Script("function")) = Push("Local") /\ Tail(Script("function")) = Script("function body")
  /\ Head(Script("function body")) = Expression /\ Tail(Script("function body")) = Script("function end")
  /\ Head(Script("function end")) = Pop /\ Tail(Script("function end")) = Script("none")
  /\ Head(Script("class")) = Enter /\ Tail(Script("class")) = Script("class storage")
  /\ Head(Script("class storage")) = Push("Instance") /\ Tail(Script("class storage")) = Script("class body")
  /\ Head(Script("class body")) = Expression /\ Tail(Script("class body")) = Script("class storage end")
  /\ Head(Script("class storage end")) = Pop /\ Tail(Script("class storage end")) = Script("class end")
  /\ Head(Script("class end")) = Leave /\ Tail(Script("class end")) = Script("none")
  /\ Head(Script("template")) = Enter /\ Tail(Script("template")) = <<Rule("statement or block"), Leave>>
  /\ Head(Script("template end")) = Leave /\ Tail(Script("template end")) = Script("none")
  /\ Head(Script("parenthesis")) = Expression /\ Tail(Script("parenthesis")) = Script("parenthesis end")
  /\ Head(Script("parenthesis end")) = Consume(")") /\ Tail(Script("parenthesis end")) = Script("none")
<1>1. Head(Script("function")) = Push("Local") /\ Tail(Script("function")) = Script("function body")
  <2>1. Script("function") = <<Push("Local"), Expression, Pop>>
    BY DEF Script
  <2>2. Head(<<Push("Local"), Expression, Pop>>) = Push("Local") /\ Tail(<<Push("Local"), Expression, Pop>>) = <<Expression, Pop>>
    BY ListOf3
  <2>3. Script("function body") = <<Expression, Pop>>
    BY DEF Script
  <2>. QED  BY <2>1, <2>2, <2>3, Zenon
<1>2. Head(Script("function body")) = Expression /\ Tail(Script("function body")) = Script("function end")
  <2>1. Script("function body") = <<Expression, Pop>>
    BY DEF Script
  <2>2. Head(<<Expression, Pop>>) = Expression /\ Tail(<<Expression, Pop>>) = <<Pop>>
    BY ListOf2
  <2>3. Script("function end") = <<Pop>>
    BY DEF Script
  <2>. QED  BY <2>1, <2>2, <2>3, Zenon
<1>3. Head(Script("function end")) = Pop /\ Tail(Script("function end")) = Script("none")
  <2>1. Script("function end") = <<Pop>>
    BY DEF Script
  <2>2. Head(<<Pop>>) = Pop /\ Tail(<<Pop>>) = <<>>
    BY ListOf1
  <2>3. Script("none") = <<>>
    BY DEF Script
  <2>. QED  BY <2>1, <2>2, <2>3, Zenon
<1>4. Head(Script("class")) = Enter /\ Tail(Script("class")) = Script("class storage")
  <2>1. Script("class") = <<Enter, Push("Instance"), Expression, Pop, Leave>>
    BY DEF Script
  <2>2. Head(<<Enter, Push("Instance"), Expression, Pop, Leave>>) = Enter /\ Tail(<<Enter, Push("Instance"), Expression, Pop, Leave>>) = <<Push("Instance"), Expression, Pop, Leave>>
    BY ListOf5
  <2>3. Script("class storage") = <<Push("Instance"), Expression, Pop, Leave>>
    BY DEF Script
  <2>. QED  BY <2>1, <2>2, <2>3, Zenon
<1>5. Head(Script("class storage")) = Push("Instance") /\ Tail(Script("class storage")) = Script("class body")
  <2>1. Script("class storage") = <<Push("Instance"), Expression, Pop, Leave>>
    BY DEF Script
  <2>2. Head(<<Push("Instance"), Expression, Pop, Leave>>) = Push("Instance") /\ Tail(<<Push("Instance"), Expression, Pop, Leave>>) = <<Expression, Pop, Leave>>
    BY ListOf4
  <2>3. Script("class body") = <<Expression, Pop, Leave>>
    BY DEF Script
  <2>. QED  BY <2>1, <2>2, <2>3, Zenon
<1>6. Head(Script("class body")) = Expression /\ Tail(Script("class body")) = Script("class storage end")
  <2>1. Script("class body") = <<Expression, Pop, Leave>>
    BY DEF Script
  <2>2. Head(<<Expression, Pop, Leave>>) = Expression /\ Tail(<<Expression, Pop, Leave>>) = <<Pop, Leave>>
    BY ListOf3
  <2>3. Script("class storage end") = <<Pop, Leave>>
    BY DEF Script
  <2>. QED  BY <2>1, <2>2, <2>3, Zenon
<1>7. Head(Script("class storage end")) = Pop /\ Tail(Script("class storage end")) = Script("class end")
  <2>1. Script("class storage end") = <<Pop, Leave>>
    BY DEF Script
  <2>2. Head(<<Pop, Leave>>) = Pop /\ Tail(<<Pop, Leave>>) = <<Leave>>
    BY ListOf2
  <2>3. Script("class end") = <<Leave>>
    BY DEF Script
  <2>. QED  BY <2>1, <2>2, <2>3, Zenon
<1>8. Head(Script("class end")) = Leave /\ Tail(Script("class end")) = Script("none")
  <2>1. Script("class end") = <<Leave>>
    BY DEF Script
  <2>2. Head(<<Leave>>) = Leave /\ Tail(<<Leave>>) = <<>>
    BY ListOf1
  <2>3. Script("none") = <<>>
    BY DEF Script
  <2>. QED  BY <2>1, <2>2, <2>3, Zenon
<1>9. Head(Script("template")) = Enter /\ Tail(Script("template")) = <<Rule("statement or block"), Leave>>
  <2>1. Script("template") = <<Enter, Rule("statement or block"), Leave>>
    BY DEF Script
  <2>2. Head(<<Enter, Rule("statement or block"), Leave>>) = Enter /\ Tail(<<Enter, Rule("statement or block"), Leave>>) = <<Rule("statement or block"), Leave>>
    BY ListOf3
  <2>. QED  BY <2>1, <2>2, Zenon
<1>10. Head(Script("template end")) = Leave /\ Tail(Script("template end")) = Script("none")
  <2>1. Script("template end") = <<Leave>>
    BY DEF Script
  <2>2. Head(<<Leave>>) = Leave /\ Tail(<<Leave>>) = <<>>
    BY ListOf1
  <2>3. Script("none") = <<>>
    BY DEF Script
  <2>. QED  BY <2>1, <2>2, <2>3, Zenon
<1>11. Head(Script("parenthesis")) = Expression /\ Tail(Script("parenthesis")) = Script("parenthesis end")
  <2>1. Script("parenthesis") = <<Expression, Consume(")")>>
    BY DEF Script
  <2>2. Head(<<Expression, Consume(")")>>) = Expression /\ Tail(<<Expression, Consume(")")>>) = <<Consume(")")>>
    BY ListOf2
  <2>3. Script("parenthesis end") = <<Consume(")")>>
    BY DEF Script
  <2>. QED  BY <2>1, <2>2, <2>3, Zenon
<1>12. Head(Script("parenthesis end")) = Consume(")") /\ Tail(Script("parenthesis end")) = Script("none")
  <2>1. Script("parenthesis end") = <<Consume(")")>>
    BY DEF Script
  <2>2. Head(<<Consume(")")>>) = Consume(")") /\ Tail(<<Consume(")")>>) = <<>>
    BY ListOf1
  <2>3. Script("none") = <<>>
    BY DEF Script
  <2>. QED  BY <2>1, <2>2, <2>3, Zenon
<1>. QED  BY <1>1, <1>2, <1>3, <1>4, <1>5, <1>6, <1>7, <1>8, <1>9, <1>10, <1>11, <1>12

\* The ending goes on with what comes after its first item.
LEMMA NextOfEnding ==
  ASSUME NEW op, NEW todo, NEW ending, Follows(op, todo, ending), todo # <<>>,
         todo = Script(ending), ending # "none"
  PROVE  /\ Follows(op, Tail(todo), After(ending))
         /\ \/ /\ ending \in {"function", "class storage"}
               /\ Head(todo).do = "push storage" /\ Head(todo).kind \in {"Local", "Instance"}
            \/ /\ ending \in {"function body", "class body", "parenthesis"}
               /\ Head(todo).do = "expression" /\ Head(todo).precedence \in Nat
            \/ ending \in {"function end", "class storage end"} /\ Head(todo).do = "pop storage"
            \/ ending \in {"class", "template"} /\ Head(todo).do = "enter template"
            \/ ending \in {"class end", "template end"} /\ Head(todo).do = "leave template"
            \/ /\ ending = "parenthesis end"
               /\ Head(todo).do = "consume" /\ Head(todo).kinds = {")"}
<1>1. ending \in EndingsOf(op) /\ ending \in Endings
  BY FollowsType DEF Follows
<1>2. ASSUME NEW e \in EndingsOf(op), Tail(todo) = Script(e)
      PROVE  Follows(op, Tail(todo), e)
  <2>1. <<>> \in Seq(Neutral(op))
    OBVIOUS
  <2>2. <<>> \o Script(e) = Script(e)
    <3>1. Tail(todo) \in Seq(ParseletItem)
      BY FollowsType, HeadTailProperties
    <3>. QED  BY <1>2, <3>1, ConcatEmptySeq
  <2>. QED  BY <1>2, <2>1, <2>2 DEF Follows
<1>3. CASE ending = "function"
  <2>1. Head(todo) = Push("Local") /\ Tail(todo) = Script("function body")
    BY <1>3, EndingParts, Zenon
  <2>2. /\ Push("Local").do = "push storage" /\ Push("Local").kind = "Local"
    BY DEF Push
  <2>3. After(ending) = "function body" /\ "function body" \in EndingsOf(op)
    BY <1>1, <1>3 DEF After, EndingsOf
  <2>. QED  BY <1>2, <1>3, <2>1, <2>2, <2>3
<1>4. CASE ending = "function body"
  <2>1. Head(todo) = Expression /\ Tail(todo) = Script("function end")
    BY <1>4, EndingParts, Zenon
  <2>2. /\ Expression.do = "expression" /\ Expression.precedence \in Nat
    BY DEF Expression, ParseExpr
  <2>3. After(ending) = "function end" /\ "function end" \in EndingsOf(op)
    BY <1>1, <1>4 DEF After, EndingsOf
  <2>. QED  BY <1>2, <1>4, <2>1, <2>2, <2>3
<1>5. CASE ending = "function end"
  <2>1. Head(todo) = Pop /\ Tail(todo) = Script("none")
    BY <1>5, EndingParts, Zenon
  <2>2. Pop.do = "pop storage"
    BY DEF Pop
  <2>3. After(ending) = "none" /\ "none" \in EndingsOf(op)
    BY <1>1, <1>5 DEF After, EndingsOf
  <2>. QED  BY <1>2, <1>5, <2>1, <2>2, <2>3
<1>6. CASE ending = "class"
  <2>1. Head(todo) = Enter /\ Tail(todo) = Script("class storage")
    BY <1>6, EndingParts, Zenon
  <2>2. Enter.do = "enter template"
    BY DEF Enter
  <2>3. After(ending) = "class storage" /\ "class storage" \in EndingsOf(op)
    BY <1>1, <1>6 DEF After, EndingsOf
  <2>. QED  BY <1>2, <1>6, <2>1, <2>2, <2>3
<1>7. CASE ending = "class storage"
  <2>1. Head(todo) = Push("Instance") /\ Tail(todo) = Script("class body")
    BY <1>7, EndingParts, Zenon
  <2>2. /\ Push("Instance").do = "push storage" /\ Push("Instance").kind = "Instance"
    BY DEF Push
  <2>3. After(ending) = "class body" /\ "class body" \in EndingsOf(op)
    BY <1>1, <1>7 DEF After, EndingsOf
  <2>. QED  BY <1>2, <1>7, <2>1, <2>2, <2>3
<1>8. CASE ending = "class body"
  <2>1. Head(todo) = Expression /\ Tail(todo) = Script("class storage end")
    BY <1>8, EndingParts, Zenon
  <2>2. /\ Expression.do = "expression" /\ Expression.precedence \in Nat
    BY DEF Expression, ParseExpr
  <2>3. After(ending) = "class storage end" /\ "class storage end" \in EndingsOf(op)
    BY <1>1, <1>8 DEF After, EndingsOf
  <2>. QED  BY <1>2, <1>8, <2>1, <2>2, <2>3
<1>9. CASE ending = "class storage end"
  <2>1. Head(todo) = Pop /\ Tail(todo) = Script("class end")
    BY <1>9, EndingParts, Zenon
  <2>2. Pop.do = "pop storage"
    BY DEF Pop
  <2>3. After(ending) = "class end" /\ "class end" \in EndingsOf(op)
    BY <1>1, <1>9 DEF After, EndingsOf
  <2>. QED  BY <1>2, <1>9, <2>1, <2>2, <2>3
<1>10. CASE ending = "class end"
  <2>1. Head(todo) = Leave /\ Tail(todo) = Script("none")
    BY <1>10, EndingParts, Zenon
  <2>2. Leave.do = "leave template"
    BY DEF Leave
  <2>3. After(ending) = "none" /\ "none" \in EndingsOf(op)
    BY <1>1, <1>10 DEF After, EndingsOf
  <2>. QED  BY <1>2, <1>10, <2>1, <2>2, <2>3
<1>11. CASE ending = "template end"
  <2>1. Head(todo) = Leave /\ Tail(todo) = Script("none")
    BY <1>11, EndingParts, Zenon
  <2>2. Leave.do = "leave template"
    BY DEF Leave
  <2>3. After(ending) = "none" /\ "none" \in EndingsOf(op)
    BY <1>1, <1>11 DEF After, EndingsOf
  <2>. QED  BY <1>2, <1>11, <2>1, <2>2, <2>3
<1>12. CASE ending = "parenthesis"
  <2>1. Head(todo) = Expression /\ Tail(todo) = Script("parenthesis end")
    BY <1>12, EndingParts, Zenon
  <2>2. /\ Expression.do = "expression" /\ Expression.precedence \in Nat
    BY DEF Expression, ParseExpr
  <2>3. After(ending) = "parenthesis end" /\ "parenthesis end" \in EndingsOf(op)
    BY <1>1, <1>12 DEF After, EndingsOf
  <2>. QED  BY <1>2, <1>12, <2>1, <2>2, <2>3
<1>13. CASE ending = "parenthesis end"
  <2>1. Head(todo) = Consume(")") /\ Tail(todo) = Script("none")
    BY <1>13, EndingParts, Zenon
  <2>2. /\ Consume(")").do = "consume" /\ Consume(")").kinds = {")"}
    BY DEF Consume
  <2>3. After(ending) = "none" /\ "none" \in EndingsOf(op)
    BY <1>1, <1>13 DEF After, EndingsOf
  <2>. QED  BY <1>2, <1>13, <2>1, <2>2, <2>3
<1>14. CASE ending = "template"
  <2>1. Head(todo) = Enter /\ Tail(todo) = <<Rule("statement or block"), Leave>>
    BY <1>14, EndingParts, Zenon
  <2>2. Enter.do = "enter template"
    BY DEF Enter
  <2>3. After(ending) = "template end" /\ "template end" \in EndingsOf(op)
    BY <1>1, <1>14 DEF After, EndingsOf
  <2>4. Tail(todo) = <<Rule("statement or block")>> \o Script("template end")
    <3>1. Script("template end") = <<Leave>>
      BY DEF Script
    <3>2. Tail(todo) \in Seq(ParseletItem)
      BY FollowsType, HeadTailProperties
    <3>3. Rule("statement or block") \in ParseletItem /\ Leave \in ParseletItem
      BY ScriptType, SimpleItems DEF ParseletItem, RuleName
    <3>. DEFINE a == Rule("statement or block")
                P == ParseletItem
    <3>4. ASSUME NEW b \in P, NEW c \in P
          PROVE  <<b>> \o <<c>> = <<b, c>>
      BY OneAndOne
    <3>. QED  BY <2>1, <3>1, <3>3, <3>4, Zenon
  <2>5. <<Rule("statement or block")>> \in Seq(Neutral(op))
    <3>1. Rule("statement or block") \in Neutral(op)
      BY SimpleItems DEF RuleName
    <3>. DEFINE N == Neutral(op)
    <3>2. \A a \in N : <<a>> \in Seq(N)
      BY Lists
    <3>. QED  BY <3>1, <3>2, Zenon
  <2>6. Roomy(op, "template end")
    BY DEF Roomy
  <2>7. Follows(op, Tail(todo), "template end")
    BY <2>3, <2>4, <2>5, <2>6 DEF Follows
  <2>. QED  BY <1>14, <2>1, <2>2, <2>3, <2>7
<1>. QED  BY <1>1, <1>3, <1>4, <1>5, <1>6, <1>7, <1>8, <1>9, <1>10, <1>11, <1>12, <1>13, <1>14 DEF Endings

\* A list of items that change no stack needs no ending.
LEMMA NoEnding ==
  ASSUME NEW op, op \notin {"func", "class", "template", "("}, NEW xs \in Seq(Neutral(op))
  PROVE  Follows(op, xs, "none")
<1>1. "none" \in EndingsOf(op) /\ Roomy(op, "none")
  BY DEF EndingsOf, Roomy
<1>2. xs \o Script("none") = xs
  <2>1. Script("none") = <<>>
    BY DEF Script
  <2>. QED  BY <2>1, ConcatEmptySeq
<1>. QED  BY <1>1, <1>2 DEF Follows

\* What the parselets share out among them.
LEMMA ParseletItems ==
  ASSUME NEW op
  PROVE  /\ {Consume("("), Consume(")"), Consume(";"), Consume("<"), Consume(">"), Consume("id"), Consume(":"),
             Expression} \subseteq Simple(op)
         /\ Simple(op) \subseteq Neutral(op)
         /\ \A r \in RuleName : Rule(r) \in Simple(op) /\ Rule(r) \in Neutral(op)
<1>1. {"(", ")", ";", "<", ">", "id", ":"} \subseteq TokenKind \ {","} /\ 0 \in Nat
  BY DEF TokenKind, Binary
<1>. QED  BY <1>1, SimpleItems DEF Expression

\* A generic parselet starts with a list of things to do of the form above.
LEMMA PrefixFollows ==
  ASSUME NEW kind, Prefix(kind) # <<None>>
  PROVE  /\ kind \in TokenKind /\ kind # "="
         /\ \E ending \in {"none", "function", "class", "template", "parenthesis"} :
              Follows(kind, Prefix(kind), ending) /\ HasOperand(kind, <<>>, ending)
<1>. DEFINE N == Neutral(kind)
            S == Simple(kind)
<1>1. /\ Consume("(") \in N /\ Consume(")") \in N /\ Consume(";") \in N /\ Consume("<") \in N
      /\ Consume(">") \in N /\ Consume("id") \in N /\ Consume(":") \in N /\ Expression \in N
      /\ Expression \in S
  BY ParseletItems
<1>2. \A r \in RuleName : Rule(r) \in N /\ Rule(r) \in S
  BY ParseletItems
<1>3. /\ <<>> \in Seq(N) /\ (\A a \in N : <<a>> \in Seq(N))
      /\ (\A a, b \in N : <<a, b>> \in Seq(N)) /\ (\A a, b, c \in N : <<a, b, c>> \in Seq(N))
      /\ (\A a, b, c, d \in N : <<a, b, c, d>> \in Seq(N))
      /\ (\A a, b, c, d, e \in N : <<a, b, c, d, e>> \in Seq(N))
      /\ (\A a, b, c, d, e, f \in N : <<a, b, c, d, e, f>> \in Seq(N))
  BY Lists
<1>4. /\ <<>> \in Seq(S) /\ (\A a \in S : <<a>> \in Seq(S)) /\ (\A a, b \in S : <<a, b>> \in Seq(S))
  BY Lists
<1>5. /\ \A k \in TokenKind, y, n \in Seq(S) : Optional(k, y, n) \in N /\ Optional(k, y, n) \in Either(kind)
      /\ \A k \in TokenKind, y, n \in Seq(Either(kind)) : Optional(k, y, n) \in N
  BY SimpleItems
<1>6. ASSUME Prefix(kind) \in Seq(N), kind \in TokenKind, kind \notin {"func", "class", "template", "(", "="}
      PROVE  /\ kind \in TokenKind /\ kind # "="
             /\ \E ending \in {"none", "function", "class", "template", "parenthesis"} :
                  Follows(kind, Prefix(kind), ending) /\ HasOperand(kind, <<>>, ending)
  BY <1>6, NoEnding DEF HasOperand
<1>. HIDE DEF N, S
<1>7. CASE kind = Literal
  <2>1. Prefix(kind) = <<>>
    BY <1>7 DEF Prefix, Literal
  <2>2. <<>> \in Seq(N)
    BY <1>1, <1>3
  <2>3. kind \in TokenKind /\ kind \notin {"func", "class", "template", "(", "="}
    BY <1>7 DEF TokenKind, Literal
  <2>. QED  BY <1>6, <2>1, <2>2, <2>3
<1>8. CASE kind = "id"
  <2>1. <<Become("declare"), Rule("type")>> \in Seq(S)
    <3>1. Become("declare") \in S
      <4>1. "declare" \in Turns(kind)
        BY <1>8 DEF Turns
      <4>. QED  BY <4>1, SimpleItems DEF S
    <3>2. Rule("type") \in S
      BY <1>2 DEF RuleName
    <3>. QED  BY <3>1, <3>2, <1>4
  <2>2. Rule("parts") \in N
    BY <1>2 DEF RuleName
  <2>3. ":" \in TokenKind
    BY DEF TokenKind
  <2>4. Optional(":", <<Become("declare"), Rule("type")>>, <<>>) \in N
    BY <2>1, <2>3, <1>4, <1>5
  <2>5. Prefix(kind) = <<Rule("parts"), Optional(":", <<Become("declare"), Rule("type")>>, <<>>)>>
    BY <1>8 DEF Prefix, Literal
  <2>6. <<Rule("parts"), Optional(":", <<Become("declare"), Rule("type")>>, <<>>)>> \in Seq(N)
    BY <1>1, <1>3, <2>1, <2>2, <2>3, <2>4
  <2>7. kind \in TokenKind /\ kind \notin {"func", "class", "template", "(", "="}
    BY <1>8 DEF TokenKind, Literal
  <2>. QED  BY <1>6, <2>5, <2>6, <2>7
<1>9. CASE kind \in {"!", "++"}
  <2>1. Prefix(kind) = <<Expression>>
    BY <1>9 DEF Prefix, Literal
  <2>2. <<Expression>> \in Seq(N)
    BY <1>1, <1>3
  <2>3. kind \in TokenKind /\ kind \notin {"func", "class", "template", "(", "="}
    BY <1>9 DEF TokenKind, Literal
  <2>. QED  BY <1>6, <2>1, <2>2, <2>3
<1>10. CASE kind = "{"
  <2>1. Rule("statements") \in N
    BY <1>2 DEF RuleName
  <2>2. Prefix(kind) = <<Rule("statements")>>
    BY <1>10 DEF Prefix, Literal
  <2>3. <<Rule("statements")>> \in Seq(N)
    BY <1>1, <1>3, <2>1
  <2>4. kind \in TokenKind /\ kind \notin {"func", "class", "template", "(", "="}
    BY <1>10 DEF TokenKind, Literal
  <2>. QED  BY <1>6, <2>2, <2>3, <2>4
<1>11. CASE kind = "(?"
  <2>1. Prefix(kind) = <<Expression, Consume(";"), Expression, Consume(";"), Expression, Consume(")")>>
    BY <1>11 DEF Prefix, Literal
  <2>2. <<Expression, Consume(";"), Expression, Consume(";"), Expression, Consume(")")>> \in Seq(N)
    BY <1>1, <1>3
  <2>3. kind \in TokenKind /\ kind \notin {"func", "class", "template", "(", "="}
    BY <1>11 DEF TokenKind, Literal
  <2>. QED  BY <1>6, <2>1, <2>2, <2>3
<1>12. CASE kind = "if"
  <2>1. "else" \in TokenKind
    BY DEF TokenKind
  <2>2. Optional("else", <<Expression>>, <<>>) \in N
    BY <2>1, <1>1, <1>4, <1>5
  <2>3. Prefix(kind) = <<Consume("("), Expression, Consume(")"), Expression, Optional("else", <<Expression>>, <<>>)>>
    BY <1>12 DEF Prefix, Literal
  <2>4. <<Consume("("), Expression, Consume(")"), Expression, Optional("else", <<Expression>>, <<>>)>> \in Seq(N)
    BY <1>1, <1>3, <2>1, <2>2
  <2>5. kind \in TokenKind /\ kind \notin {"func", "class", "template", "(", "="}
    BY <1>12 DEF TokenKind, Literal
  <2>. QED  BY <1>6, <2>3, <2>4, <2>5
<1>13. CASE kind = "while"
  <2>1. Prefix(kind) = <<Consume("("), Expression, Consume(")"), Expression>>
    BY <1>13 DEF Prefix, Literal
  <2>2. <<Consume("("), Expression, Consume(")"), Expression>> \in Seq(N)
    BY <1>1, <1>3
  <2>3. kind \in TokenKind /\ kind \notin {"func", "class", "template", "(", "="}
    BY <1>13 DEF TokenKind, Literal
  <2>. QED  BY <1>6, <2>1, <2>2, <2>3
<1>14. CASE kind = "cast"
  <2>1. Rule("type") \in N
    BY <1>2 DEF RuleName
  <2>2. Prefix(kind) = <<Consume("<"), Rule("type"), Consume(">"), Consume("("), Expression, Consume(")")>>
    BY <1>14 DEF Prefix, Literal
  <2>3. <<Consume("<"), Rule("type"), Consume(">"), Consume("("), Expression, Consume(")")>> \in Seq(N)
    BY <1>1, <1>3, <2>1
  <2>4. kind \in TokenKind /\ kind \notin {"func", "class", "template", "(", "="}
    BY <1>14 DEF TokenKind, Literal
  <2>. QED  BY <1>6, <2>2, <2>3, <2>4
<1>15. CASE kind = "new"
  <2>1. Rule("type") \in N
    BY <1>2 DEF RuleName
  <2>2. Prefix(kind) = <<Rule("type"), Consume("("), Consume(")")>>
    BY <1>15 DEF Prefix, Literal
  <2>3. <<Rule("type"), Consume("("), Consume(")")>> \in Seq(N)
    BY <1>1, <1>3, <2>1
  <2>4. kind \in TokenKind /\ kind \notin {"func", "class", "template", "(", "="}
    BY <1>15 DEF TokenKind, Literal
  <2>. QED  BY <1>6, <2>2, <2>3, <2>4
<1>16. CASE kind = "assert"
  <2>1. Prefix(kind) = <<Consume("("), Expression, Consume(")")>>
    BY <1>16 DEF Prefix, Literal
  <2>2. <<Consume("("), Expression, Consume(")")>> \in Seq(N)
    BY <1>1, <1>3
  <2>3. kind \in TokenKind /\ kind \notin {"func", "class", "template", "(", "="}
    BY <1>16 DEF TokenKind, Literal
  <2>. QED  BY <1>6, <2>1, <2>2, <2>3
<1>17. CASE kind = "namespace"
  <2>1. Rule("qualified") \in N /\ Rule("statement or block") \in N
    BY <1>2 DEF RuleName
  <2>2. Prefix(kind) = <<Rule("qualified"), Rule("statement or block")>>
    BY <1>17 DEF Prefix, Literal
  <2>3. <<Rule("qualified"), Rule("statement or block")>> \in Seq(N)
    BY <1>1, <1>3, <2>1
  <2>4. kind \in TokenKind /\ kind \notin {"func", "class", "template", "(", "="}
    BY <1>17 DEF TokenKind, Literal
  <2>. QED  BY <1>6, <2>2, <2>3, <2>4
<1>18. CASE kind = "expand"
  <2>1. Rule("qualified") \in N /\ Rule("type argument") \in S
    BY <1>2 DEF RuleName
  <2>2. "<" \in TokenKind /\ ">" \in TokenKind
    BY DEF TokenKind, Binary
  <2>3. Optional(">", <<>>, <<Rule("type argument")>>) \in Either(kind)
    BY <2>1, <2>2, <1>4, <1>5
  <2>4. /\ <<Optional(">", <<>>, <<Rule("type argument")>>)>> \in Seq(Either(kind))
        /\ <<>> \in Seq(Either(kind))
    <3>. DEFINE E == Either(kind)
    <3>1. <<>> \in Seq(E) /\ \A a \in E : <<a>> \in Seq(E)
      BY Lists
    <3>. QED  BY <2>3, <3>1, Zenon
  <2>5. Optional("<", <<Optional(">", <<>>, <<Rule("type argument")>>)>>, <<>>) \in N
    BY <2>2, <2>4, <1>5
  <2>6. Prefix(kind) = <<Rule("qualified"), Optional("<", <<Optional(">", <<>>, <<Rule("type argument")>>)>>, <<>>)>>
    BY <1>18 DEF Prefix, Literal
  <2>7. <<Rule("qualified"), Optional("<", <<Optional(">", <<>>, <<Rule("type argument")>>)>>, <<>>)>> \in Seq(N)
    BY <1>1, <1>3, <2>1, <2>2, <2>3, <2>4, <2>5
  <2>8. kind \in TokenKind /\ kind \notin {"func", "class", "template", "(", "="}
    BY <1>18 DEF TokenKind, Literal
  <2>. QED  BY <1>6, <2>6, <2>7, <2>8
<1>19. CASE kind = "func"
  <2>1. <<Consume("id"), Consume(":"), Rule("type"), Consume("("), Rule("parameters")>> \in Seq(N)
    <3>1. Rule("type") \in N /\ Rule("parameters") \in N
      BY <1>2 DEF RuleName
    <3>. QED  BY <3>1, <1>1, <1>3
  <2>2. Prefix(kind) = <<Consume("id"), Consume(":"), Rule("type"), Consume("("), Rule("parameters")>> \o Script("function")
    <3>1. Prefix(kind) = <<Consume("id"), Consume(":"), Rule("type"), Consume("("), Rule("parameters"), Push("Local"), Expression, Pop>>
      BY <1>19 DEF Prefix, Literal
    <3>2. Script("function") = <<Push("Local"), Expression, Pop>>
      BY DEF Script
    <3>3. <<Consume("id"), Consume(":"), Rule("type"), Consume("("), Rule("parameters")>>
            \o <<Push("Local"), Expression, Pop>>
          = <<Consume("id"), Consume(":"), Rule("type"), Consume("("), Rule("parameters"), Push("Local"), Expression, Pop>>
      BY FiveAndThree
    <3>. QED  BY <3>1, <3>2, <3>3, Zenon
  <2>3. Roomy(kind, "function") /\ "function" \in EndingsOf(kind) /\ HasOperand(kind, <<>>, "function")
    BY <1>19 DEF Roomy, EndingsOf, HasOperand
  <2>4. Follows(kind, Prefix(kind), "function")
    BY <2>1, <2>2, <2>3 DEF Follows, N
  <2>5. kind \in TokenKind /\ kind # "="
    BY <1>19 DEF TokenKind
  <2>. QED  BY <2>3, <2>4, <2>5
<1>20. CASE kind = "class"
  <2>1. <<Consume("id"), Rule("template parameters")>> \in Seq(N)
    <3>1. Rule("template parameters") \in N
      BY <1>2 DEF RuleName
    <3>. QED  BY <3>1, <1>1, <1>3
  <2>2. Prefix(kind) = <<Consume("id"), Rule("template parameters")>> \o Script("class")
    <3>1. Prefix(kind) = <<Consume("id"), Rule("template parameters"),
                      Enter, Push("Instance"), Expression, Pop, Leave>>
      BY <1>20 DEF Prefix, Literal
    <3>2. Script("class") = <<Enter, Push("Instance"), Expression, Pop, Leave>>
      BY DEF Script
    <3>3. <<Consume("id"), Rule("template parameters")>>
            \o <<Enter, Push("Instance"), Expression, Pop, Leave>>
          = <<Consume("id"), Rule("template parameters"),
            Enter, Push("Instance"), Expression, Pop, Leave>>
      <4>. DEFINE x == Consume("id")
                  y == Rule("template parameters")
                  z == Push("Instance")
      <4>. SUFFICES <<x, y>> \o <<Enter, z, Expression, Pop, Leave>> = <<x, y, Enter, z, Expression, Pop, Leave>>
        OBVIOUS
      <4>. HIDE DEF x, y, z
      <4>. QED  BY TwoAndFive
    <3>. QED  BY <3>1, <3>2, <3>3, Zenon
  <2>3. Roomy(kind, "class") /\ "class" \in EndingsOf(kind) /\ HasOperand(kind, <<>>, "class")
    BY <1>20 DEF Roomy, EndingsOf, HasOperand
  <2>4. Follows(kind, Prefix(kind), "class")
    BY <2>1, <2>2, <2>3 DEF Follows, N
  <2>5. kind \in TokenKind /\ kind # "="
    BY <1>20 DEF TokenKind
  <2>. QED  BY <2>3, <2>4, <2>5
<1>21. CASE kind = "template"
  <2>1. <<Consume("id"), Rule("template parameters")>> \in Seq(N)
    <3>1. Rule("template parameters") \in N
      BY <1>2 DEF RuleName
    <3>. QED  BY <3>1, <1>1, <1>3
  <2>2. Prefix(kind) = <<Consume("id"), Rule("template parameters")>> \o Script("template")
    <3>1. Prefix(kind) = <<Consume("id"), Rule("template parameters"), Enter, Rule("statement or block"), Leave>>
      BY <1>21 DEF Prefix, Literal
    <3>2. Script("template") = <<Enter, Rule("statement or block"), Leave>>
      BY DEF Script
    <3>3. <<Consume("id"), Rule("template parameters")>>
            \o <<Enter, Rule("statement or block"), Leave>>
          = <<Consume("id"), Rule("template parameters"), Enter, Rule("statement or block"), Leave>>
      BY TwoAndThree
    <3>. QED  BY <3>1, <3>2, <3>3, Zenon
  <2>3. Roomy(kind, "template") /\ "template" \in EndingsOf(kind) /\ HasOperand(kind, <<>>, "template")
    BY <1>21 DEF Roomy, EndingsOf, HasOperand
  <2>4. Follows(kind, Prefix(kind), "template")
    BY <2>1, <2>2, <2>3 DEF Follows, N
  <2>5. kind \in TokenKind /\ kind # "="
    BY <1>21 DEF TokenKind
  <2>. QED  BY <2>3, <2>4, <2>5
<1>22. CASE kind = "("
  <2>1. Prefix(kind) = Script("parenthesis")
    BY <1>22 DEF Prefix, Script, Literal
  <2>2. Script("parenthesis") \in Seq(ParseletItem)
    BY ScriptType DEF Endings
  <2>3. <<>> \o Script("parenthesis") = Script("parenthesis")
    BY <2>2, ConcatEmptySeq
  <2>4. "parenthesis" \in EndingsOf(kind) /\ HasOperand(kind, <<>>, "parenthesis")
    BY <1>22 DEF EndingsOf, HasOperand
  <2>5. Follows(kind, Prefix(kind), "parenthesis")
    BY <1>3, <2>1, <2>3, <2>4 DEF Follows, N
  <2>6. kind \in TokenKind /\ kind # "="
    BY <1>22 DEF TokenKind
  <2>. QED  BY <2>4, <2>5, <2>6
<1>23. \/ kind \in {Literal, "id", "!", "++", "{", "(?", "if", "while", "cast", "new", "assert"}
      \/ kind \in {"namespace", "expand", "func", "class", "template", "("}
  BY DEF Prefix
<1>. QED
  BY <1>7, <1>8, <1>9, <1>10, <1>11, <1>12, <1>13, <1>14, <1>15, <1>16, <1>17, <1>18, <1>19, <1>20, <1>21, <1>22,
     <1>23

\* The table of precedences, by its rows.
LEMMA Precedences ==
  /\ Precedence("*") = 11 /\ Precedence("+") = 10 /\ Precedence(">") = 8 /\ Precedence("<") = 8
  /\ Precedence("==") = 7 /\ Precedence("&&") = 3 /\ Precedence("||") = 2 /\ Precedence("=") = 1
  /\ Precedence(".") = 14 /\ Precedence("(") = 14
  BY DEF Precedence

\* An infix parselet, too.
LEMMA InfixFollows ==
  ASSUME NEW kind, NEW op, op = IF kind = "(" THEN "call" ELSE kind, Infix(kind) # <<None>>
  PROVE  /\ kind \in TokenKind /\ op \in Operator /\ op \notin {"class", "("}
         /\ Follows(op, Infix(kind), "none")
<1>1. kind \in Binary \union {".", "("}
  BY DEF Infix
<1>2. /\ kind \in TokenKind /\ op \in Operator
      /\ op \notin {"func", "class", "template", "("}
  BY <1>1 DEF TokenKind, Operator, Binary
<1>3. Infix(kind) \in Seq(Neutral(op))
  <2>. DEFINE N == Neutral(op)
              S == Simple(op)
  <2>1. /\ (\A a \in N : <<a>> \in Seq(N)) /\ (\A a, b \in N : <<a, b>> \in Seq(N))
        /\ (\A a, b \in S : <<a, b>> \in Seq(S)) /\ <<>> \in Seq(S)
    BY Lists
  <2>2. CASE kind \in Binary
    <3>. DEFINE p == IF RightAssociative(kind) THEN Precedence(kind) - 1 ELSE Precedence(kind)
    <3>1. Precedence(kind) \in Nat /\ Precedence(kind) >= 1
      BY <2>2, Precedences DEF Binary
    <3>2. p \in Nat
      BY <3>1
    <3>3. Infix(kind) = <<ParseExpr(p)>>
      <4>1. kind # "." /\ kind # "("
        BY <2>2 DEF Binary
      <4>. QED  BY <2>2, <4>1 DEF Infix
    <3>. HIDE DEF p
    <3>4. ParseExpr(p) \in N
      BY <3>2, SimpleItems
    <3>. HIDE DEF N
    <3>5. <<ParseExpr(p)>> \in Seq(N)
      BY <2>1, <3>4
    <3>. QED  BY <3>3, <3>5 DEF N
  <2>3. CASE kind = "."
    <3>1. Infix(kind) = <<Consume("id"), Optional("(", <<Become("call"), Rule("arguments")>>, <<>>)>>
      BY <2>3 DEF Infix, Binary
    <3>2. "call" \in Turns(op) /\ "(" \in TokenKind
      BY <2>3 DEF Turns, TokenKind
    <3>3. Become("call") \in S /\ Rule("arguments") \in S /\ Consume("id") \in N
      BY <3>2, SimpleItems, ParseletItems DEF RuleName
    <3>4. \A y, n \in Seq(S) : Optional("(", y, n) \in N
      BY <3>2, SimpleItems
    <3>. HIDE DEF N, S
    <3>5. <<Become("call"), Rule("arguments")>> \in Seq(S)
      BY <2>1, <3>3
    <3>6. Optional("(", <<Become("call"), Rule("arguments")>>, <<>>) \in N
      BY <2>1, <3>4, <3>5
    <3>7. <<Consume("id"), Optional("(", <<Become("call"), Rule("arguments")>>, <<>>)>> \in Seq(N)
      BY <2>1, <3>3, <3>6
    <3>. QED  BY <3>1, <3>7 DEF N
  <2>4. CASE kind = "("
    <3>1. Infix(kind) = <<Rule("arguments")>>
      BY <2>4 DEF Infix, Binary
    <3>2. Rule("arguments") \in N
      BY SimpleItems DEF RuleName
    <3>. HIDE DEF N
    <3>3. <<Rule("arguments")>> \in Seq(N)
      BY <2>1, <3>2
    <3>. QED  BY <3>1, <3>3 DEF N
  <2>. QED  BY <1>1, <2>2, <2>3, <2>4
<1>. QED  BY <1>2, <1>3, NoEnding

-----------------------------------------------------------------------------
\* A sequence without its last element.
LEMMA FrontOfSeq ==
  ASSUME NEW S, NEW s \in Seq(S), s # <<>>
  PROVE  /\ Front(s) \in Seq(S) /\ Len(Front(s)) = Len(s) - 1
         /\ DOMAIN Front(s) = 1 .. Len(s) - 1
         /\ \A i \in 1 .. Len(s) - 1 : Front(s)[i] = s[i]
  BY SeqPop DEF Front

\* A sequence with another last element.
SetLast(s, x) == [s EXCEPT ![Len(s)] = x]

\* The last element replaced: the rest stays.
LEMMA SetLastOfSeq ==
  ASSUME NEW S, NEW s \in Seq(S), s # <<>>, NEW x \in S
  PROVE  /\ SetLast(s, x) \in Seq(S) /\ SetLast(s, x) # <<>> /\ Len(SetLast(s, x)) = Len(s)
         /\ DOMAIN SetLast(s, x) = DOMAIN s
         /\ \A i \in DOMAIN s : SetLast(s, x)[i] = IF i = Len(s) THEN x ELSE s[i]
  BY SeqReplaceLast DEF SetLast

\* The last element removed, and another one added.
LEMMA FrontAndAppend ==
  ASSUME NEW S, NEW s \in Seq(S), s # <<>>, NEW x \in S
  PROVE  Append(Front(s), x) = SetLast(s, x)
<1>. DEFINE a == Append(Front(s), x)
            b == SetLast(s, x)
<1>1. /\ Front(s) \in Seq(S) /\ Len(Front(s)) = Len(s) - 1
      /\ \A i \in 1 .. Len(s) - 1 : Front(s)[i] = s[i]
  BY FrontOfSeq
<1>2. /\ b \in Seq(S) /\ Len(b) = Len(s) /\ DOMAIN s = 1 .. Len(s)
      /\ \A i \in DOMAIN s : b[i] = IF i = Len(s) THEN x ELSE s[i]
  BY SetLastOfSeq, LenProperties
<1>3. /\ a \in Seq(S) /\ Len(a) = Len(Front(s)) + 1
      /\ \A i \in 1 .. Len(Front(s)) : a[i] = Front(s)[i]
      /\ a[Len(a)] = x
  BY <1>1, SeqPush
<1>4. Len(s) \in Nat \ {0} /\ Len(a) = Len(b)
  BY <1>1, <1>2, <1>3, LenProperties, EmptySeq
<1>. HIDE DEF a, b
<1>5. ASSUME NEW i \in 1 .. Len(a)
      PROVE  a[i] = b[i]
  <2>1. CASE i = Len(s)
    BY <1>2, <1>3, <1>4, <2>1
  <2>2. CASE i # Len(s)
    <3>1. i \in 1 .. Len(s) - 1 /\ i \in 1 .. Len(s)
      BY <1>2, <1>4, <2>2
    <3>. QED  BY <1>1, <1>2, <1>3, <2>2, <3>1
  <2>. QED  BY <2>1, <2>2
<1>6. a = b
  BY <1>2, <1>3, <1>4, <1>5, SeqEqual
<1>. QED  BY <1>6 DEF a, b

-----------------------------------------------------------------------------
(***************************************************************************)
(* Numbers in ascending order.                                             *)
(***************************************************************************)

\* A greater number is added at the end.
LEMMA EnumerationPush ==
  ASSUME NEW f, NEW M, Enumerates(f, M), NEW m \in Nat, \A x \in M : x < m
  PROVE  Enumerates(Append(f, m), M \union {m}) /\ Len(Append(f, m)) = Len(f) + 1
<1>. DEFINE g == Append(f, m)
<1>1. f \in Seq(Nat)
  BY DEF Enumerates
<1>2. /\ g \in Seq(Nat) /\ Len(g) = Len(f) + 1 /\ g[Len(g)] = m
      /\ \A i \in 1 .. Len(f) : g[i] = f[i]
  BY <1>1, SeqPush
<1>. HIDE DEF g
<1>3. /\ Len(f) \in Nat /\ DOMAIN f = 1 .. Len(f) /\ DOMAIN g = 1 .. Len(f) + 1
      /\ \A i \in 1 .. Len(f) : f[i] \in Nat
  BY <1>1, <1>2, LenProperties
<1>4. /\ \A i \in 1 .. Len(f) : i \in 1 .. Len(f) + 1
      /\ \A i \in 1 .. Len(f) + 1 : i \in 1 .. Len(f) \/ i = Len(f) + 1
      /\ Len(f) + 1 \in 1 .. Len(f) + 1
  BY <1>3
<1>5. ASSUME NEW i \in DOMAIN g, NEW j \in DOMAIN g, i < j
      PROVE  g[i] < g[j]
  <2>1. i \in 1 .. Len(f)
    BY <1>3, <1>5
  <2>2. CASE j \in 1 .. Len(f)
    BY <1>2, <1>3, <1>5, <2>1, <2>2 DEF Enumerates
  <2>3. CASE j = Len(f) + 1
    BY <1>2, <1>3, <2>1, <2>3 DEF Enumerates
  <2>. QED  BY <1>3, <1>4, <2>2, <2>3
<1>6. \A i \in DOMAIN g : g[i] \in M \union {m}
  BY <1>2, <1>3, <1>4 DEF Enumerates
<1>7. ASSUME NEW x \in M \union {m}
      PROVE  \E i \in DOMAIN g : g[i] = x
  BY <1>2, <1>3, <1>4 DEF Enumerates
<1>8. Enumerates(g, M \union {m}) /\ Len(g) = Len(f) + 1
  BY <1>2, <1>3, <1>5, <1>6, <1>7 DEF Enumerates
<1>. QED  BY <1>8 DEF g

\* The greatest number is the last one, and can be removed.
LEMMA EnumerationPop ==
  ASSUME NEW f, NEW M, Enumerates(f, M), NEW m \in M, \A x \in M : x <= m,
         NEW g, g = Front(f)
  PROVE  /\ f \in Seq(Nat) /\ f # <<>> /\ f[Len(f)] = m
         /\ Enumerates(g, M \ {m}) /\ Len(g) = Len(f) - 1
         /\ \A i \in DOMAIN g : i \in DOMAIN f /\ g[i] = f[i]
<1>1. f \in Seq(Nat)
  BY DEF Enumerates
<1>2. PICK k \in DOMAIN f : f[k] = m
  BY DEF Enumerates
<1>3. f # <<>>
  BY <1>2
<1>4. Len(f) \in Nat \ {0} /\ DOMAIN f = 1 .. Len(f) /\ \A i \in 1 .. Len(f) : f[i] \in Nat
  BY <1>1, <1>3, LenProperties, EmptySeq
<1>5. Len(f) \in DOMAIN f /\ m \in Nat
  BY <1>2, <1>4
<1>6. k = Len(f)
  <2>1. ASSUME k < Len(f)
        PROVE  FALSE
    <3>1. f[k] < f[Len(f)]
      BY <1>5, <2>1 DEF Enumerates
    <3>2. f[Len(f)] <= m
      BY <1>5 DEF Enumerates
    <3>. QED  BY <1>2, <1>4, <1>5, <3>1, <3>2
  <2>. QED  BY <1>4, <2>1
<1>7. /\ g \in Seq(Nat) /\ Len(g) = Len(f) - 1 /\ DOMAIN g = 1 .. Len(f) - 1
      /\ \A i \in 1 .. Len(f) - 1 : g[i] = f[i]
  BY <1>1, <1>3, FrontOfSeq
<1>8. /\ \A i \in 1 .. Len(f) - 1 : i \in 1 .. Len(f) /\ i < Len(f)
      /\ \A i \in 1 .. Len(f) : i # Len(f) => i \in 1 .. Len(f) - 1
  <2>1. \A l \in Nat : /\ \A i \in 1 .. l - 1 : i \in 1 .. l /\ i < l
                       /\ \A i \in 1 .. l : i # l => i \in 1 .. l - 1
    OBVIOUS
  <2>. QED  BY <1>4, <2>1
<1>9. \A i \in DOMAIN g : i \in DOMAIN f /\ g[i] = f[i] /\ i < Len(f)
  BY <1>4, <1>7, <1>8
<1>10. \A i, j \in DOMAIN g : i < j => g[i] < g[j]
  BY <1>9 DEF Enumerates
<1>11. ASSUME NEW i \in DOMAIN g
       PROVE  g[i] \in M \ {m}
  <2>1. f[i] < f[Len(f)] /\ f[i] \in M /\ f[i] \in Nat
    BY <1>4, <1>5, <1>9 DEF Enumerates
  <2>. QED  BY <1>2, <1>5, <1>6, <1>9, <2>1
<1>12. ASSUME NEW x \in M \ {m}
       PROVE  \E i \in DOMAIN g : g[i] = x
  <2>1. PICK i \in DOMAIN f : f[i] = x
    BY DEF Enumerates
  <2>2. i \in 1 .. Len(f) - 1
    BY <1>2, <1>4, <1>6, <1>8, <2>1
  <2>. QED  BY <1>7, <2>1, <2>2
<1>. QED  BY <1>1, <1>2, <1>3, <1>6, <1>7, <1>9, <1>10, <1>11, <1>12 DEF Enumerates

-----------------------------------------------------------------------------
(***************************************************************************)
(* Activations on the stack.                                               *)
(***************************************************************************)

\* Tokens and nodes are never taken back.
LEMMA SoundLater ==
  ASSUME NEW a, NEW e, NEW s \in BOOLEAN, NEW p \in Nat, NEW n \in Nat, Sound(a, e, s, p, n),
         NEW q \in Nat, p <= q, NEW m \in Nat, n <= m, NEW t \in BOOLEAN, t => s
  PROVE  Sound(a, e, t, q, m)
<1>1. \A i \in 1 .. n : i \in 1 .. m
  OBVIOUS
<1>2. \A i \in 1 .. p - 1 : i \in 1 .. q - 1
  OBVIOUS
<1>. QED  BY <1>1, <1>2, Zenon DEF Sound

\* The size of the stack.
LEMMA StackedSize ==
  ASSUME NEW st, NEW end, NEW s, NEW p, NEW n, Stacked(st, end, s, p, n)
  PROVE  /\ Len(st) \in Nat /\ Len(end) = Len(st) /\ DOMAIN st = 1 .. Len(st) /\ DOMAIN end = 1 .. Len(st)
         /\ \A i \in 1 .. Len(st) : st[i] \in Activation /\ end[i] \in Endings
                                    /\ Sound(st[i], end[i], s /\ i = Len(st), p, n)
         /\ st # <<>> => /\ Len(st) \in 1 .. Len(st) /\ Len(st) \in Nat \ {0}
                         /\ st[Len(st)] \in Activation /\ end[Len(st)] \in Endings
<1>1. st \in Seq(Activation) /\ end \in Seq(Endings) /\ Len(end) = Len(st)
  BY DEF Stacked
<1>2. Len(st) \in Nat /\ DOMAIN st = 1 .. Len(st) /\ DOMAIN end = 1 .. Len(st)
  BY <1>1, LenProperties
<1>3. \A i \in 1 .. Len(st) : st[i] \in Activation /\ end[i] \in Endings
  BY <1>1, <1>2
<1>4. \A i \in 1 .. Len(st) : Sound(st[i], end[i], s /\ i = Len(st), p, n)
  BY <1>2 DEF Stacked
<1>5. st # <<>> => Len(st) \in 1 .. Len(st) /\ Len(st) \in Nat \ {0}
  BY <1>1, <1>2, EmptySeq
<1>. QED  BY <1>1, <1>2, <1>3, <1>4, <1>5

\* The activation on top becomes a, with the ending e, when the tokens before q
\* have been read, and the nodes up to m made.
Replaces(st, end, s, p, n, a, e, t, q, m) ==
  /\ p \in Nat /\ n \in Nat /\ q \in Nat /\ m \in Nat /\ p <= q /\ n <= m /\ s \in BOOLEAN /\ t \in BOOLEAN
  /\ Stacked(st, end, s, p, n) /\ st # <<>>
  /\ a \in Activation /\ a.fn = st[Len(st)].fn /\ e \in Endings /\ Sound(a, e, t, q, m)

\* The stack then.
LEMMA ReplaceTop ==
  ASSUME NEW st, NEW end, NEW s, NEW p, NEW n, NEW q, NEW m, NEW t, NEW a, NEW e,
         Replaces(st, end, s, p, n, a, e, t, q, m)
  PROVE  /\ Stacked(SetLast(st, a), SetLast(end, e), t, q, m)
         /\ SetLast(st, a) # <<>> /\ Len(SetLast(st, a)) = Len(st) /\ SetLast(st, a)[Len(st)] = a
<1>. /\ p \in Nat /\ n \in Nat /\ q \in Nat /\ m \in Nat /\ p <= q /\ n <= m /\ s \in BOOLEAN /\ t \in BOOLEAN
     /\ Stacked(st, end, s, p, n) /\ st # <<>>
     /\ a \in Activation /\ a.fn = st[Len(st)].fn /\ e \in Endings /\ Sound(a, e, t, q, m)
  BY DEF Replaces
<1>. DEFINE st2  == SetLast(st, a)
            end2 == SetLast(end, e)
<1>1. /\ Len(st) \in Nat \ {0} /\ Len(end) = Len(st) /\ DOMAIN st = 1 .. Len(st) /\ DOMAIN end = 1 .. Len(st)
      /\ Len(st) \in 1 .. Len(st)
      /\ \A i \in 1 .. Len(st) : Sound(st[i], end[i], s /\ i = Len(st), p, n)
  BY StackedSize
<1>2. st \in Seq(Activation) /\ end \in Seq(Endings)
  BY DEF Stacked
<1>3. end # <<>>
  BY <1>1, <1>2, EmptySeq
<1>4. /\ st2 \in Seq(Activation) /\ st2 # <<>> /\ Len(st2) = Len(st) /\ DOMAIN st2 = 1 .. Len(st)
      /\ \A i \in 1 .. Len(st) : st2[i] = IF i = Len(st) THEN a ELSE st[i]
  <2>1. /\ st2 \in Seq(Activation) /\ st2 # <<>> /\ Len(st2) = Len(st) /\ DOMAIN st2 = DOMAIN st
        /\ \A i \in DOMAIN st : st2[i] = IF i = Len(st) THEN a ELSE st[i]
    BY <1>2, SetLastOfSeq
  <2>. QED  BY <1>1, <2>1
<1>5. /\ end2 \in Seq(Endings) /\ Len(end2) = Len(st)
      /\ \A i \in 1 .. Len(st) : end2[i] = IF i = Len(st) THEN e ELSE end[i]
  <2>1. /\ end2 \in Seq(Endings) /\ Len(end2) = Len(end)
        /\ \A i \in DOMAIN end : end2[i] = IF i = Len(end) THEN e ELSE end[i]
    BY <1>2, <1>3, SetLastOfSeq
  <2>. QED  BY <1>1, <2>1
<1>. HIDE DEF st2, end2
<1>6. \A i \in 1 .. Len(st) : st2[i].fn = st[i].fn
  BY <1>4
<1>7. st2[1].fn = "parseExpr" /\ \A i \in 1 .. Len(st) - 1 : st2[i].fn # st2[i + 1].fn
  <2>1. 1 \in 1 .. Len(st) /\ \A i \in 1 .. Len(st) - 1 : i \in 1 .. Len(st) /\ i + 1 \in 1 .. Len(st)
    <3>1. \A l \in Nat \ {0} : /\ 1 \in 1 .. l
                              /\ \A i \in 1 .. l - 1 : i \in 1 .. l /\ i + 1 \in 1 .. l
      OBVIOUS
    <3>. QED  BY <1>1, <3>1
  <2>. QED  BY <1>6, <2>1 DEF Stacked
<1>8. ASSUME NEW i \in 1 .. Len(st)
      PROVE  Sound(st2[i], end2[i], t /\ i = Len(st2), q, m)
  <2>1. CASE i = Len(st)
    <3>1. st2[i] = a /\ end2[i] = e /\ (t /\ i = Len(st2)) = t
      BY <1>4, <1>5, <2>1
    <3>. QED  BY <3>1
  <2>2. CASE i # Len(st)
    <3>1. st2[i] = st[i] /\ end2[i] = end[i] /\ Sound(st[i], end[i], s /\ i = Len(st), p, n)
      BY <1>1, <1>4, <1>5, <2>2
    <3>. DEFINE b == s /\ i = Len(st)
                c == t /\ i = Len(st2)
    <3>2. b \in BOOLEAN /\ c \in BOOLEAN /\ (c => b)
      BY <1>4, <2>2
    <3>3. Sound(st[i], end[i], b, p, n)
      BY <3>1
    <3>. HIDE DEF b, c
    <3>4. Sound(st[i], end[i], c, q, m)
      BY <3>2, <3>3, SoundLater
    <3>. QED  BY <3>1, <3>4 DEF c
  <2>. QED  BY <2>1, <2>2
<1>9. Stacked(st2, end2, t, q, m)
  BY <1>4, <1>5, <1>7, <1>8 DEF Stacked
<1>. QED  BY <1>1, <1>4, <1>9 DEF st2, end2

\* Without the activation on top.
Popped(st, end, st2, end2) ==
  /\ Len(st2) = Len(st) - 1 /\ DOMAIN st2 = 1 .. Len(st) - 1
  /\ \A i \in 1 .. Len(st) - 1 : st2[i] = st[i] /\ end2[i] = end[i]

\* The activation on top returns; the one below may still wait for its operand.
LEMMA PopTop ==
  ASSUME NEW st, NEW end, NEW s \in BOOLEAN, NEW p \in Nat, NEW n \in Nat,
         Stacked(st, end, s, p, n), st # <<>>
  PROVE  Stacked(Front(st), Front(end), FALSE, p, n) /\ Popped(st, end, Front(st), Front(end))
<1>. DEFINE st2  == Front(st)
            end2 == Front(end)
<1>1. /\ Len(st) \in Nat \ {0} /\ Len(end) = Len(st)
      /\ \A i \in 1 .. Len(st) : Sound(st[i], end[i], s /\ i = Len(st), p, n)
  BY StackedSize
<1>2. st \in Seq(Activation) /\ end \in Seq(Endings)
  BY DEF Stacked
<1>3. end # <<>>
  BY <1>1, <1>2, EmptySeq
<1>4. /\ st2 \in Seq(Activation) /\ Len(st2) = Len(st) - 1 /\ DOMAIN st2 = 1 .. Len(st) - 1
      /\ \A i \in 1 .. Len(st) - 1 : st2[i] = st[i]
  BY <1>2, FrontOfSeq
<1>5. /\ end2 \in Seq(Endings) /\ Len(end2) = Len(end) - 1
      /\ \A i \in 1 .. Len(end) - 1 : end2[i] = end[i]
  BY <1>2, <1>3, FrontOfSeq
<1>. HIDE DEF st2, end2
<1>6. \A i \in 1 .. Len(st) - 1 : end2[i] = end[i]
  BY <1>1, <1>5
<1>7. st2 # <<>> => st2[1].fn = "parseExpr"
  <2>1. st2 # <<>> => 1 \in 1 .. Len(st) - 1
    BY <1>1, <1>4, EmptySeq
  <2>. QED  BY <1>4, <2>1 DEF Stacked
<1>8. \A i \in 1 .. Len(st2) - 1 : st2[i].fn # st2[i + 1].fn
  <2>1. \A i \in 1 .. Len(st2) - 1 : /\ i \in 1 .. Len(st) - 1 /\ i + 1 \in 1 .. Len(st) - 1
    BY <1>1, <1>4
  <2>. QED  BY <1>4, <2>1 DEF Stacked
<1>9. ASSUME NEW i \in DOMAIN st2
      PROVE  Sound(st2[i], end2[i], FALSE /\ i = Len(st2), p, n)
  <2>1. i \in 1 .. Len(st) /\ st2[i] = st[i] /\ end2[i] = end[i]
    BY <1>1, <1>4, <1>6
  <2>. DEFINE b == s /\ i = Len(st)
              c == FALSE /\ i = Len(st2)
  <2>2. b \in BOOLEAN /\ c \in BOOLEAN /\ (c => b)
    OBVIOUS
  <2>3. Sound(st[i], end[i], b, p, n)
    BY <1>1, <2>1
  <2>. HIDE DEF b, c
  <2>4. Sound(st[i], end[i], c, p, n)
    BY <2>2, <2>3, SoundLater
  <2>. QED  BY <2>1, <2>4 DEF c
<1>10. Len(end2) = Len(st2)
  BY <1>1, <1>4, <1>5
<1>11. Stacked(st2, end2, FALSE, p, n)
  BY <1>4, <1>5, <1>6, <1>7, <1>8, <1>9, <1>10 DEF Stacked
<1>12. Popped(st, end, st2, end2)
  BY <1>4, <1>6 DEF Popped
<1>. QED  BY <1>11, <1>12 DEF st2, end2

\* Another activation x is called, with the ending e.
Called(st, end, s, p, n, x, e) ==
  /\ p \in Nat /\ n \in Nat /\ s \in BOOLEAN
  /\ Stacked(st, end, s, p, n)
  /\ x \in Activation /\ e \in Endings /\ Sound(x, e, TRUE, p, n)
  /\ st = <<>> => x.fn = "parseExpr"
  /\ st # <<>> => x.fn # st[Len(st)].fn

Pushed(st, end, a, e, st2, end2) ==
  /\ Len(st2) = Len(st) + 1 /\ st2[Len(st) + 1] = a /\ end2[Len(st) + 1] = e
  /\ \A i \in 1 .. Len(st) : st2[i] = st[i] /\ end2[i] = end[i]

\* The stack with the activation that is called.
LEMMA PushTop ==
  ASSUME NEW st, NEW end, NEW s, NEW p, NEW n, NEW a, NEW e, Called(st, end, s, p, n, a, e)
  PROVE  Stacked(Append(st, a), Append(end, e), TRUE, p, n) /\ Pushed(st, end, a, e, Append(st, a), Append(end, e))
<1>. p \in Nat /\ n \in Nat /\ s \in BOOLEAN /\ Stacked(st, end, s, p, n) /\ a \in Activation /\ e \in Endings
  BY DEF Called
<1>0. /\ Sound(a, e, TRUE, p, n)
      /\ st = <<>> => a.fn = "parseExpr"
      /\ st # <<>> => a.fn # st[Len(st)].fn
  BY DEF Called
<1>. DEFINE st2  == Append(st, a)
            end2 == Append(end, e)
<1>1. /\ Len(st) \in Nat /\ Len(end) = Len(st)
      /\ \A i \in 1 .. Len(st) : Sound(st[i], end[i], s /\ i = Len(st), p, n)
      /\ st # <<>> => Len(st) \in Nat \ {0}
  BY StackedSize
<1>2. st \in Seq(Activation) /\ end \in Seq(Endings)
  BY DEF Stacked
<1>3. /\ st2 \in Seq(Activation) /\ Len(st2) = Len(st) + 1
      /\ \A i \in 1 .. Len(st) : st2[i] = st[i]
      /\ st2[Len(st) + 1] = a
  BY <1>2, SeqPush
<1>4. /\ end2 \in Seq(Endings) /\ Len(end2) = Len(st) + 1
      /\ \A i \in 1 .. Len(st) : end2[i] = end[i]
      /\ end2[Len(st) + 1] = e
  <2>1. /\ end2 \in Seq(Endings) /\ Len(end2) = Len(end) + 1
        /\ \A i \in 1 .. Len(end) : end2[i] = end[i]
        /\ end2[Len(end2)] = e
    BY <1>2, SeqPush
  <2>. QED  BY <1>1, <2>1
<1>. HIDE DEF st2, end2
<1>5. DOMAIN st2 = 1 .. Len(st) + 1
  BY <1>3, LenProperties
<1>6. st2[1].fn = "parseExpr"
  <2>1. CASE st = <<>>
    <3>1. Len(st) = 0
      BY <2>1, <1>2, EmptySeq
    <3>. QED  BY <1>0, <1>3, <2>1, <3>1
  <2>2. CASE st # <<>>
    <3>1. 1 \in 1 .. Len(st)
      BY <1>1, <2>2
    <3>. QED  BY <1>3, <2>2, <3>1 DEF Stacked
  <2>. QED  BY <2>1, <2>2
<1>7. ASSUME NEW i \in 1 .. Len(st2) - 1
      PROVE  st2[i].fn # st2[i + 1].fn
  <2>1. CASE i = Len(st)
    <3>1. Len(st) \in 1 .. Len(st) /\ st # <<>>
      <4>1. Len(st) # 0
        BY <1>1, <1>3, <2>1
      <4>. QED  BY <1>1, <1>2, <4>1, EmptySeq
    <3>. QED  BY <1>0, <1>3, <2>1, <3>1
  <2>2. CASE i # Len(st)
    <3>1. i \in 1 .. Len(st) - 1 /\ i \in 1 .. Len(st) /\ i + 1 \in 1 .. Len(st)
      BY <1>1, <1>3, <2>2
    <3>. QED  BY <1>3, <3>1 DEF Stacked
  <2>. QED  BY <2>1, <2>2
<1>8. ASSUME NEW i \in DOMAIN st2
      PROVE  Sound(st2[i], end2[i], TRUE /\ i = Len(st2), p, n)
  <2>1. CASE i = Len(st) + 1
    <3>1. (TRUE /\ i = Len(st2)) = TRUE
      BY <1>3, <2>1
    <3>. QED  BY <1>0, <1>3, <1>4, <2>1, <3>1
  <2>2. CASE i # Len(st) + 1
    <3>1. i \in 1 .. Len(st) /\ st2[i] = st[i] /\ end2[i] = end[i]
      BY <1>1, <1>3, <1>4, <1>5, <2>2
    <3>. DEFINE b == s /\ i = Len(st)
                c == TRUE /\ i = Len(st2)
    <3>2. b \in BOOLEAN /\ c \in BOOLEAN /\ (c => b)
      BY <1>3, <2>2
    <3>3. Sound(st[i], end[i], b, p, n)
      BY <1>1, <3>1
    <3>. HIDE DEF b, c
    <3>4. Sound(st[i], end[i], c, p, n)
      BY <3>2, <3>3, SoundLater
    <3>. QED  BY <3>1, <3>4 DEF c
  <2>. QED  BY <2>1, <2>2
<1>9. Len(end2) = Len(st2)
  BY <1>3, <1>4
<1>10. Stacked(st2, end2, TRUE, p, n)
  BY <1>3, <1>4, <1>6, <1>7, <1>8, <1>9 DEF Stacked
<1>11. Pushed(st, end, a, e, st2, end2)
  BY <1>3, <1>4 DEF Pushed
<1>. QED  BY <1>10, <1>11 DEF st2, end2

-----------------------------------------------------------------------------
(***************************************************************************)
(* The parselets between push and pop and between enter and leave.         *)
(***************************************************************************)

\* No parselet pushes or pops.
LEMMA StorageKept ==
  ASSUME NEW st, NEW end, NEW k, StorageMatches(st, end, k),
         NEW st2, NEW end2, Storages(st2, end2) = Storages(st, end)
  PROVE  StorageMatches(st2, end2, k)
  BY DEF StorageMatches

\* The one on top pushes.
LEMMA StoragePushed ==
  ASSUME NEW st, NEW end, NEW k, StorageMatches(st, end, k),
         NEW st2, NEW end2, NEW n \in Nat, Storages(st2, end2) = Storages(st, end) \union {n},
         \A i \in Storages(st, end) : i < n, NEW l, Len(l) = Len(k) + 1
  PROVE  StorageMatches(st2, end2, l)
<1>. DEFINE M == Storages(st, end)
<1>1. PICK f : Enumerates(f, M) /\ Len(k) = Len(f) + 1
  BY DEF StorageMatches
<1>. HIDE DEF M
<1>2. Enumerates(Append(f, n), M \union {n}) /\ Len(Append(f, n)) = Len(f) + 1
  <2>1. \A i \in M : i < n
    BY DEF M
  <2>. QED  BY <1>1, <2>1, EnumerationPush
<1>3. Enumerates(Append(f, n), Storages(st2, end2))
  BY <1>2 DEF M
<1>4. Len(l) = Len(Append(f, n)) + 1
  BY <1>1, <1>2
<1>. QED  BY <1>3, <1>4 DEF StorageMatches

\* The one on top pops.
LEMMA StoragePopped ==
  ASSUME NEW st, NEW end, NEW k, StorageMatches(st, end, k),
         NEW st2, NEW end2, NEW n \in Storages(st, end), Storages(st2, end2) = Storages(st, end) \ {n},
         \A i \in Storages(st, end) : i <= n, NEW l, Len(l) = Len(k) - 1
  PROVE  StorageMatches(st2, end2, l) /\ Len(k) \in Nat /\ Len(k) >= 2
<1>. DEFINE M == Storages(st, end)
<1>1. PICK f : Enumerates(f, M) /\ Len(k) = Len(f) + 1
  BY DEF StorageMatches
<1>. HIDE DEF M
<1>2. /\ Enumerates(Front(f), M \ {n}) /\ Len(Front(f)) = Len(f) - 1
      /\ f \in Seq(Nat) /\ f # <<>>
  <2>1. n \in M /\ \A i \in M : i <= n
    BY DEF M
  <2>. QED  BY <1>1, <2>1, EnumerationPop
<1>3. Enumerates(Front(f), Storages(st2, end2))
  BY <1>2 DEF M
<1>4. Len(f) \in Nat \ {0}
  BY <1>2, LenProperties, EmptySeq
<1>5. Len(l) = Len(Front(f)) + 1 /\ Len(k) \in Nat /\ Len(k) >= 2
  BY <1>1, <1>2, <1>4
<1>. QED  BY <1>3, <1>5 DEF StorageMatches

\* No parselet enters or leaves, and none changes its place in the text.
LEMMA TemplatesKept ==
  ASSUME NEW st, NEW end, NEW k, TemplatesMatch(st, end, k),
         NEW st2, NEW end2, Templates(st2, end2) = Templates(st, end),
         \A i \in Templates(st, end) : st2[i].at = st[i].at
  PROVE  TemplatesMatch(st2, end2, k)
<1>. DEFINE M == Templates(st, end)
<1>1. PICK f : /\ Enumerates(f, M) /\ Len(k) = Len(f)
               /\ \A i \in DOMAIN f : k[i] = st[f[i]].at
  BY DEF TemplatesMatch
<1>. HIDE DEF M
<1>2. \A i \in DOMAIN f : f[i] \in M
  BY <1>1 DEF Enumerates
<1>3. \A i \in DOMAIN f : k[i] = st2[f[i]].at
  BY <1>1, <1>2 DEF M
<1>. QED  BY <1>1, <1>3 DEF TemplatesMatch, M

\* The one on top enters.
LEMMA TemplateEntered ==
  ASSUME NEW st, NEW end, NEW S, NEW k \in Seq(S), TemplatesMatch(st, end, k),
         NEW st2, NEW end2, NEW n \in Nat, Templates(st2, end2) = Templates(st, end) \union {n},
         \A i \in Templates(st, end) : i < n /\ st2[i].at = st[i].at, st2[n].at \in S
  PROVE  TemplatesMatch(st2, end2, Append(k, st2[n].at))
<1>. DEFINE M == Templates(st, end)
            x == st2[n].at
<1>1. PICK f : /\ Enumerates(f, M) /\ Len(k) = Len(f)
               /\ \A i \in DOMAIN f : k[i] = st[f[i]].at
  BY DEF TemplatesMatch
<1>2. \A i \in M : i < n /\ st2[i].at = st[i].at
  OBVIOUS
<1>. HIDE DEF M
<1>21. Enumerates(f, M) /\ \A i \in M : i < n
  BY <1>1, <1>2
<1>. DEFINE g == Append(f, n)
            l == Append(k, x)
<1>3. /\ Enumerates(g, M \union {n}) /\ Len(g) = Len(f) + 1 /\ g[Len(g)] = n
      /\ \A i \in DOMAIN f : g[i] = f[i]
  <2>1. Enumerates(Append(f, n), M \union {n}) /\ Len(Append(f, n)) = Len(f) + 1
    <3>. HIDE DEF l, x
    <3>. QED  BY <1>21, EnumerationPush, Zenon
  <2>2. f \in Seq(Nat)
    BY <1>21 DEF Enumerates
  <2>3. \A i \in DOMAIN f : g[i] = f[i]
    BY <2>2, AppendProperties, LenProperties
  <2>. QED  BY <2>1, <2>2, <2>3, AppendProperties
<1>. HIDE DEF g
<1>4. Enumerates(g, Templates(st2, end2))
  BY <1>3 DEF M
<1>5. f \in Seq(Nat) /\ g \in Seq(Nat)
  BY <1>1, <1>3 DEF Enumerates
<1>6. Len(f) \in Nat /\ DOMAIN f = 1 .. Len(f) /\ DOMAIN g = 1 .. Len(f) + 1
  BY <1>3, <1>5, LenProperties
<1>7. /\ Len(l) = Len(k) + 1 /\ l[Len(k) + 1] = x
      /\ \A i \in 1 .. Len(k) : l[i] = k[i]
  BY AppendProperties
<1>. HIDE DEF l, x
<1>8. ASSUME NEW i \in DOMAIN g
      PROVE  l[i] = st2[g[i]].at
  <2>1. CASE i = Len(f) + 1
    BY <1>1, <1>3, <1>7, <2>1 DEF x
  <2>2. CASE i # Len(f) + 1
    <3>1. i \in 1 .. Len(f) /\ i \in DOMAIN f
      BY <1>6, <2>2
    <3>2. l[i] = st[f[i]].at /\ g[i] = f[i] /\ f[i] \in M
      BY <1>1, <1>3, <1>7, <3>1 DEF Enumerates
    <3>. QED  BY <1>2, <3>2
  <2>. QED  BY <2>1, <2>2
<1>9. Len(l) = Len(g)
  BY <1>1, <1>3, <1>7
<1>10. TemplatesMatch(st2, end2, l)
  BY <1>4, <1>8, <1>9 DEF TemplatesMatch
<1>. QED  BY <1>10 DEF l, x

\* The one on top leaves: it finds what it has entered.
LEMMA TemplateLeft ==
  ASSUME NEW st, NEW end, NEW S, NEW k \in Seq(S), TemplatesMatch(st, end, k),
         NEW st2, NEW end2, NEW n \in Templates(st, end), Templates(st2, end2) = Templates(st, end) \ {n},
         \A i \in Templates(st, end) : i <= n /\ st2[i].at = st[i].at
  PROVE  /\ TemplatesMatch(st2, end2, Front(k)) /\ k # <<>>
         /\ k[Len(k)] = st[n].at
<1>. DEFINE M == Templates(st, end)
<1>1. PICK f : /\ Enumerates(f, M) /\ Len(k) = Len(f)
               /\ \A i \in DOMAIN f : k[i] = st[f[i]].at
  BY DEF TemplatesMatch
<1>2. n \in M /\ \A i \in M : i <= n /\ st2[i].at = st[i].at
  OBVIOUS
<1>. HIDE DEF M
<1>21. Enumerates(f, M) /\ n \in M /\ \A i \in M : i <= n
  BY <1>1, <1>2
<1>. DEFINE g == Front(f)
<1>3. /\ f \in Seq(Nat) /\ f # <<>> /\ f[Len(f)] = n
      /\ Enumerates(g, M \ {n}) /\ Len(g) = Len(f) - 1
      /\ \A i \in DOMAIN g : i \in DOMAIN f /\ g[i] = f[i]
  BY <1>21, EnumerationPop
<1>. HIDE DEF g
<1>4. Enumerates(g, Templates(st2, end2))
  BY <1>3 DEF M
<1>5. Len(f) \in Nat \ {0} /\ DOMAIN f = 1 .. Len(f) /\ Len(f) \in DOMAIN f
  <2>1. Len(f) \in Nat \ {0} /\ DOMAIN f = 1 .. Len(f)
    BY <1>3, LenProperties, EmptySeq
  <2>. QED  BY <2>1
<1>6. k # <<>> /\ k[Len(k)] = st[n].at
  <2>1. k # <<>>
    BY <1>1, <1>5, EmptySeq
  <2>. QED  BY <1>1, <1>3, <1>5, <2>1
<1>7. /\ Len(Front(k)) = Len(k) - 1
      /\ \A i \in 1 .. Len(k) - 1 : Front(k)[i] = k[i]
  BY <1>6, FrontOfSeq
<1>8. g \in Seq(Nat) /\ DOMAIN g = 1 .. Len(f) - 1
  <2>1. g \in Seq(Nat)
    BY <1>3 DEF Enumerates
  <2>. QED  BY <2>1, <1>3, LenProperties
<1>9. ASSUME NEW i \in DOMAIN g
      PROVE  Front(k)[i] = st2[g[i]].at
  <2>1. i \in DOMAIN f /\ g[i] = f[i] /\ f[i] \in M
    BY <1>1, <1>3 DEF Enumerates
  <2>2. Front(k)[i] = k[i]
    BY <1>1, <1>7, <1>8
  <2>. QED  BY <1>1, <1>2, <2>1, <2>2
<1>10. Len(Front(k)) = Len(g)
  BY <1>1, <1>3, <1>7
<1>. QED  BY <1>4, <1>6, <1>9, <1>10 DEF TemplatesMatch

-----------------------------------------------------------------------------
(***************************************************************************)
(* What each thing to do leaves to do.                                     *)
(***************************************************************************)

\* Nothing left: no ending either.
LEMMA NothingLeft ==
  ASSUME NEW op, NEW ending, Follows(op, <<>>, ending)
  PROVE  ending = "none"
<1>1. PICK xs \in Seq(Neutral(op)) : <<>> = xs \o Script(ending)
  BY DEF Follows
<1>2. ending \in Endings
  BY FollowsType
<1>. DEFINE P == ParseletItem
<1>3. xs \in Seq(P) /\ Script(ending) \in Seq(P)
  BY <1>2, ScriptType, SeqMonotonic
<1>. HIDE DEF P
<1>4. Len(xs) + Len(Script(ending)) = 0 /\ Len(xs) \in Nat /\ Len(Script(ending)) \in Nat
  <2>1. Len(xs \o Script(ending)) = Len(xs) + Len(Script(ending))
    BY <1>3, ConcatProperties
  <2>2. Len(xs) \in Nat /\ Len(Script(ending)) \in Nat
    BY <1>3, LenProperties
  <2>3. Len(<<>>) = 0
    OBVIOUS
  <2>4. Len(xs \o Script(ending)) = 0
    BY <1>1, <2>3, Zenon
  <2>. QED  BY <2>1, <2>2, <2>4
<1>5. Script(ending) = <<>>
  BY <1>3, <1>4, EmptySeq
<1>6. CASE ending \in {"function", "function body", "function end", "class", "class storage"}
  BY <1>5, <1>6 DEF Script
<1>7. CASE ending \in {"class body", "class storage end", "class end", "template"}
  BY <1>5, <1>7 DEF Script
<1>8. CASE ending \in {"template end", "parenthesis", "parenthesis end"}
  BY <1>5, <1>8 DEF Script
<1>. QED  BY <1>2, <1>6, <1>7, <1>8 DEF Endings

\* An item of the neutral ones, followed.
LEMMA NeutralNext ==
  ASSUME NEW op, NEW todo, NEW ending, Follows(op, todo, ending), todo # <<>>, todo # Script(ending)
  PROVE  /\ Head(todo) \in Neutral(op) /\ Roomy(op, ending)
         /\ Follows(op, Tail(todo), ending)
         /\ \A ys \in Seq(Neutral(op)) : Follows(op, ys \o Tail(todo), ending)
<1>1. /\ Head(todo) \in Neutral(op) /\ Roomy(op, ending)
      /\ \A ys \in Seq(Neutral(op)) : Follows(op, ys \o Tail(todo), ending)
  BY NextItem
<1>2. <<>> \in Seq(Neutral(op))
  OBVIOUS
<1>3. Tail(todo) \in Seq(ParseletItem)
  BY FollowsType, HeadTailProperties
<1>4. <<>> \o Tail(todo) = Tail(todo)
  BY <1>3, ConcatEmptySeq
<1>5. Follows(op, Tail(todo), ending)
  BY <1>1, <1>2, <1>4
<1>. QED  BY <1>1, <1>5

\* A token to consume is none at the end of the text; behind a comma the list goes on.
LEMMA ConsumeNext ==
  ASSUME NEW op, NEW todo, NEW ending, Follows(op, todo, ending), todo # <<>>,
         Head(todo).do = "consume"
  PROVE  /\ "eof" \notin Head(todo).kinds
         /\ \/ /\ Follows(op, Tail(todo), ending)
               /\ "," \in Head(todo).kinds => Follows(op, <<Rule(Head(todo).again)>> \o Tail(todo), ending)
            \/ ending = "parenthesis end" /\ Head(todo).kinds = {")"} /\ Follows(op, Tail(todo), "none")
<1>1. CASE todo = Script(ending) /\ ending # "none"
  <2>1. ending = "parenthesis end" /\ Head(todo).kinds = {")"} /\ Follows(op, Tail(todo), After(ending))
    <3>1. Follows(op, Tail(todo), After(ending))
      BY <1>1, NextOfEnding
    <3>2. ending = "parenthesis end" /\ Head(todo).kinds = {")"}
      BY <1>1, NextOfEnding
    <3>. QED  BY <3>1, <3>2
  <2>2. After(ending) = "none"
    BY <2>1 DEF After
  <2>. QED  BY <2>1, <2>2
<1>2. CASE todo # Script(ending)
  <2>1. /\ Head(todo) \in Neutral(op) /\ Follows(op, Tail(todo), ending)
        /\ \A ys \in Seq(Neutral(op)) : Follows(op, ys \o Tail(todo), ending)
    BY <1>2, NeutralNext
  <2>2. /\ "eof" \notin Head(todo).kinds
        /\ "," \in Head(todo).kinds => Head(todo).again \in RuleName
    BY <2>1, NeutralItem
  <2>3. ASSUME Head(todo).again \in RuleName
        PROVE  Follows(op, <<Rule(Head(todo).again)>> \o Tail(todo), ending)
    <3>. DEFINE r == Rule(Head(todo).again)
                N == Neutral(op)
    <3>1. r \in N
      BY <2>3, SimpleItems
    <3>2. \A a \in N : <<a>> \in Seq(N)
      BY Lists
    <3>3. <<r>> \in Seq(N)
      BY <3>1, <3>2, Zenon
    <3>. QED  BY <2>1, <3>3
  <2>. QED  BY <2>1, <2>2, <2>3
<1>3. ending = "none" => Script(ending) = <<>>
  BY DEF Script
<1>. QED  BY <1>1, <1>2, <1>3

\* An item that starts no ending.
LEMMA NotOfEnding ==
  ASSUME NEW op, NEW todo, NEW ending, Follows(op, todo, ending), todo # <<>>,
         Head(todo).do \in {"optional", "rule", "become"}
  PROVE  todo # Script(ending)
<1>1. ASSUME todo = Script(ending), ending # "none"
      PROVE  FALSE
  BY <1>1, NextOfEnding
<1>2. ending = "none" => Script(ending) = <<>>
  BY DEF Script
<1>. QED  BY <1>1, <1>2

\* An optional token is none at the end of the text.
LEMMA OptionalNext ==
  ASSUME NEW op, NEW todo, NEW ending, Follows(op, todo, ending), todo # <<>>,
         Head(todo).do = "optional"
  PROVE  /\ Head(todo).kind # "eof"
         /\ Follows(op, Head(todo).yes \o Tail(todo), ending)
         /\ Follows(op, Head(todo).no \o Tail(todo), ending)
<1>1. todo # Script(ending)
  BY NotOfEnding
<1>2. /\ Head(todo) \in Neutral(op)
      /\ \A ys \in Seq(Neutral(op)) : Follows(op, ys \o Tail(todo), ending)
  BY <1>1, NeutralNext
<1>3. /\ Head(todo).kind # "eof"
      /\ Head(todo).yes \in Seq(Neutral(op)) /\ Head(todo).no \in Seq(Neutral(op))
  BY <1>2, NeutralItem
<1>. QED  BY <1>2, <1>3

\* A rule is replaced by what the grammar says.
LEMMA RuleNext ==
  ASSUME NEW op, NEW todo, NEW ending, Follows(op, todo, ending), todo # <<>>,
         Head(todo).do = "rule"
  PROVE  Follows(op, Grammar(Head(todo).name) \o Tail(todo), ending)
<1>1. todo # Script(ending)
  BY NotOfEnding
<1>2. /\ Head(todo) \in Neutral(op)
      /\ \A ys \in Seq(Neutral(op)) : Follows(op, ys \o Tail(todo), ending)
  BY <1>1, NeutralNext
<1>3. Head(todo).name \in RuleName
  BY <1>2, NeutralItem
<1>4. Grammar(Head(todo).name) \in Seq(Neutral(op))
  BY <1>3, GrammarIsNeutral
<1>. QED  BY <1>2, <1>4

\* What a construct turns out to be is known before it enters or pushes anything.
LEMMA BecomeNext ==
  ASSUME NEW op, NEW todo, NEW ending, Follows(op, todo, ending), todo # <<>>,
         Head(todo).do = "become"
  PROVE  /\ Head(todo).op \in Turns(op) /\ Roomy(op, ending)
         /\ Follows(op, Tail(todo), ending)
<1>1. todo # Script(ending)
  BY NotOfEnding
<1>2. /\ Head(todo) \in Neutral(op) /\ Roomy(op, ending) /\ Follows(op, Tail(todo), ending)
  BY <1>1, NeutralNext
<1>3. Head(todo).op \in Turns(op)
  BY <1>2, NeutralItem
<1>. QED  BY <1>2, <1>3

\* An expression, the body of a definition or another.
LEMMA ExpressionNext ==
  ASSUME NEW op, NEW todo, NEW ending, Follows(op, todo, ending), todo # <<>>,
         Head(todo).do = "expression"
  PROVE  /\ Head(todo).precedence \in Nat
         /\ \/ Follows(op, Tail(todo), ending)
            \/ /\ ending \in {"function body", "class body", "parenthesis"}
               /\ Follows(op, Tail(todo), After(ending))
<1>1. CASE todo = Script(ending) /\ ending # "none"
  <2>1. Follows(op, Tail(todo), After(ending))
    BY <1>1, NextOfEnding
  <2>2. ending \in {"function body", "class body", "parenthesis"} /\ Head(todo).precedence \in Nat
    BY <1>1, NextOfEnding
  <2>. QED  BY <2>1, <2>2
<1>2. CASE todo # Script(ending)
  <2>1. Head(todo) \in Neutral(op) /\ Follows(op, Tail(todo), ending)
    BY <1>2, NeutralNext
  <2>2. Head(todo).precedence \in Nat
    BY <2>1, NeutralItem
  <2>. QED  BY <2>1, <2>2
<1>3. ending = "none" => Script(ending) = <<>>
  BY DEF Script
<1>. QED  BY <1>1, <1>2, <1>3

\* A storage kind or a template is pushed and popped, entered and left by endings only.
LEMMA EndingNext ==
  ASSUME NEW op, NEW todo, NEW ending, Follows(op, todo, ending), todo # <<>>,
         Head(todo).do \in {"push storage", "pop storage", "enter template", "leave template"}
  PROVE  /\ Follows(op, Tail(todo), After(ending))
         /\ Head(todo).do = "push storage" =>
              ending \in {"function", "class storage"} /\ Head(todo).kind \in {"Local", "Instance"}
         /\ Head(todo).do = "pop storage" => ending \in {"function end", "class storage end"}
         /\ Head(todo).do = "enter template" => ending \in {"class", "template"}
         /\ Head(todo).do = "leave template" => ending \in {"class end", "template end"}
<1>1. ASSUME todo # Script(ending)
      PROVE  FALSE
  <2>1. Head(todo) \in Neutral(op)
    BY <1>1, NeutralNext
  <2>. QED  BY <2>1, NeutralItem
<1>2. ending # "none"
  <2>1. ending = "none" => Script(ending) = <<>>
    BY DEF Script
  <2>. QED  BY <1>1, <2>1
<1>3. Follows(op, Tail(todo), After(ending))
  BY <1>1, <1>2, NextOfEnding
<1>4. /\ Head(todo).do = "push storage" =>
           ending \in {"function", "class storage"} /\ Head(todo).kind \in {"Local", "Instance"}
      /\ Head(todo).do = "pop storage" => ending \in {"function end", "class storage end"}
      /\ Head(todo).do = "enter template" => ending \in {"class", "template"}
      /\ Head(todo).do = "leave template" => ending \in {"class end", "template end"}
  BY <1>1, <1>2, NextOfEnding
<1>. QED  BY <1>3, <1>4

-----------------------------------------------------------------------------
(***************************************************************************)
(* What happens to the parselet on top of the stack.                       *)
(***************************************************************************)

\* The activation on top becomes a, with the ending e.
Becomes(st, end, a, e) ==
  /\ \E s \in BOOLEAN, p \in Nat, n \in Nat : Stacked(st, end, s, p, n)
  /\ st # <<>> /\ a \in Activation /\ e \in Endings

Marks(st, end, a, e, st2, end2) ==
  /\ Len(st) \in Nat
  /\ Storages(st2, end2) = (Storages(st, end) \ {Len(st)}) \union (IF InStorage(a, e) THEN {Len(st)} ELSE {})
  /\ Templates(st2, end2) = (Templates(st, end) \ {Len(st)}) \union (IF InTemplate(a, e) THEN {Len(st)} ELSE {})
  /\ Len(st) \in Storages(st, end) <=> InStorage(st[Len(st)], end[Len(st)])
  /\ Len(st) \in Templates(st, end) <=> InTemplate(st[Len(st)], end[Len(st)])
  /\ \A i \in Storages(st, end) : i <= Len(st) /\ (i # Len(st) => i < Len(st))
  /\ \A i \in Templates(st, end) : i <= Len(st) /\ (i # Len(st) => i < Len(st) /\ st2[i] = st[i])
  /\ st2[Len(st)] = a

\* The marks when the activation on top goes on.
LEMMA TopMarks ==
  ASSUME NEW st, NEW end, NEW a, NEW e, Becomes(st, end, a, e)
  PROVE  Marks(st, end, a, e, SetLast(st, a), SetLast(end, e))
<1>. PICK s \in BOOLEAN, p \in Nat, n \in Nat : Stacked(st, end, s, p, n)
  BY DEF Becomes
<1>. st # <<>> /\ a \in Activation /\ e \in Endings
  BY DEF Becomes
<1>1. /\ Len(st) \in Nat \ {0} /\ Len(end) = Len(st) /\ DOMAIN st = 1 .. Len(st) /\ DOMAIN end = 1 .. Len(st)
      /\ Len(st) \in 1 .. Len(st)
  BY StackedSize
<1>2. st \in Seq(Activation) /\ end \in Seq(Endings) /\ end # <<>>
  <2>1. st \in Seq(Activation) /\ end \in Seq(Endings)
    BY DEF Stacked
  <2>. QED  BY <1>1, <2>1, EmptySeq
<1>. DEFINE st2  == SetLast(st, a)
            end2 == SetLast(end, e)
<1>3. /\ DOMAIN st2 = DOMAIN st /\ st2 # <<>> /\ Len(st2) = Len(st)
      /\ \A i \in DOMAIN st : st2[i] = IF i = Len(st) THEN a ELSE st[i]
  BY <1>2, SetLastOfSeq
<1>4. \A i \in DOMAIN end : end2[i] = IF i = Len(end) THEN e ELSE end[i]
  BY <1>2, SetLastOfSeq
<1>. HIDE DEF st2, end2
<1>5. /\ DOMAIN st2 = 1 .. Len(st)
      /\ \A i \in 1 .. Len(st) : /\ st2[i] = IF i = Len(st) THEN a ELSE st[i]
                                 /\ end2[i] = IF i = Len(st) THEN e ELSE end[i]
  BY <1>1, <1>3, <1>4
<1>51. \A i \in 1 .. Len(st) : i # Len(st) => st2[i] = st[i] /\ end2[i] = end[i]
  BY <1>5
<1>52. st2[Len(st)] = a /\ end2[Len(st)] = e
  BY <1>1, <1>5
<1>6. Storages(st2, end2) = (Storages(st, end) \ {Len(st)}) \union (IF InStorage(a, e) THEN {Len(st)} ELSE {})
  BY <1>1, <1>5, <1>51, <1>52 DEF Storages
<1>7. Templates(st2, end2) = (Templates(st, end) \ {Len(st)}) \union (IF InTemplate(a, e) THEN {Len(st)} ELSE {})
  BY <1>1, <1>5, <1>51, <1>52 DEF Templates
<1>8. /\ Len(st) \in Storages(st, end) <=> InStorage(st[Len(st)], end[Len(st)])
      /\ Len(st) \in Templates(st, end) <=> InTemplate(st[Len(st)], end[Len(st)])
  BY <1>1 DEF Storages, Templates
<1>9. \A i \in 1 .. Len(st) : i <= Len(st) /\ (i # Len(st) => i < Len(st))
  <2>1. \A l \in Nat : \A i \in 1 .. l : i <= l /\ (i # l => i < l)
    OBVIOUS
  <2>. QED  BY <1>1, <2>1
<1>10. Storages(st, end) \subseteq 1 .. Len(st) /\ Templates(st, end) \subseteq 1 .. Len(st)
  BY <1>1 DEF Storages, Templates
<1>11. st2[Len(st)] = a /\ \A i \in 1 .. Len(st) : i # Len(st) => st2[i] = st[i]
  BY <1>1, <1>5
<1>12. /\ \A i \in Storages(st, end) : i <= Len(st) /\ (i # Len(st) => i < Len(st))
       /\ \A i \in Templates(st, end) : i <= Len(st) /\ (i # Len(st) => i < Len(st) /\ st2[i] = st[i])
  BY <1>9, <1>10, <1>11
<1>13. Marks(st, end, a, e, st2, end2)
  BY <1>1, <1>6, <1>7, <1>8, <1>11, <1>12 DEF Marks
<1>. QED  BY <1>13 DEF st2, end2

\* It goes on without pushing or popping.
LEMMA TopKeepsStorage ==
  ASSUME NEW st, NEW end, NEW a, NEW e, Becomes(st, end, a, e),
         NEW kinds, StorageMatches(st, end, kinds),
         InStorage(a, e) <=> InStorage(st[Len(st)], end[Len(st)])
  PROVE  StorageMatches(SetLast(st, a), SetLast(end, e), kinds)
<1>. DEFINE st2  == SetLast(st, a)
            end2 == SetLast(end, e)
<1>1. Marks(st, end, a, e, st2, end2)
  BY TopMarks
<1>. HIDE DEF st2, end2
<1>2. Storages(st2, end2) = Storages(st, end)
  BY <1>1 DEF Marks
<1>3. StorageMatches(st2, end2, kinds)
  BY <1>2, StorageKept
<1>. QED  BY <1>3 DEF st2, end2

\* It goes on without entering or leaving.
LEMMA TopKeepsTemplates ==
  ASSUME NEW st, NEW end, NEW a, NEW e, Becomes(st, end, a, e),
         NEW params, TemplatesMatch(st, end, params),
         InTemplate(a, e) <=> InTemplate(st[Len(st)], end[Len(st)]),
         InTemplate(a, e) => a.at = st[Len(st)].at
  PROVE  TemplatesMatch(SetLast(st, a), SetLast(end, e), params)
<1>. DEFINE st2  == SetLast(st, a)
            end2 == SetLast(end, e)
<1>1. Marks(st, end, a, e, st2, end2)
  BY TopMarks
<1>. HIDE DEF st2, end2
<1>2. Templates(st2, end2) = Templates(st, end)
  BY <1>1 DEF Marks
<1>3. \A i \in Templates(st, end) : st2[i].at = st[i].at
  BY <1>1 DEF Marks
<1>4. TemplatesMatch(st2, end2, params)
  BY <1>2, <1>3, TemplatesKept
<1>. QED  BY <1>4 DEF st2, end2

\* It pushes a storage kind.
LEMMA TopPushes ==
  ASSUME NEW st, NEW end, NEW a, NEW e, Becomes(st, end, a, e),
         NEW kinds, StorageMatches(st, end, kinds),
         InStorage(a, e), ~InStorage(st[Len(st)], end[Len(st)]), NEW l, Len(l) = Len(kinds) + 1
  PROVE  StorageMatches(SetLast(st, a), SetLast(end, e), l)
<1>. DEFINE st2  == SetLast(st, a)
            end2 == SetLast(end, e)
<1>1. Marks(st, end, a, e, st2, end2)
  BY TopMarks
<1>. HIDE DEF st2, end2
<1>2. Len(st) \in Nat
  BY <1>1 DEF Marks
<1>3. Storages(st2, end2) = Storages(st, end) \union {Len(st)}
  BY <1>1 DEF Marks
<1>4. \A i \in Storages(st, end) : i < Len(st)
  BY <1>1 DEF Marks
<1>5. StorageMatches(st2, end2, l)
  BY <1>2, <1>3, <1>4, StoragePushed
<1>. QED  BY <1>5 DEF st2, end2

\* It pops its storage kind.
LEMMA TopPops ==
  ASSUME NEW st, NEW end, NEW a, NEW e, Becomes(st, end, a, e),
         NEW kinds, StorageMatches(st, end, kinds),
         ~InStorage(a, e), InStorage(st[Len(st)], end[Len(st)]), NEW l, Len(l) = Len(kinds) - 1
  PROVE  StorageMatches(SetLast(st, a), SetLast(end, e), l)
<1>. DEFINE st2  == SetLast(st, a)
            end2 == SetLast(end, e)
<1>1. Marks(st, end, a, e, st2, end2)
  BY TopMarks
<1>. HIDE DEF st2, end2
<1>2. Len(st) \in Nat
  BY <1>1 DEF Marks
<1>3. Storages(st2, end2) = Storages(st, end) \ {Len(st)} /\ Len(st) \in Storages(st, end)
  BY <1>1 DEF Marks
<1>31. \A i \in Storages(st, end) : i <= Len(st)
  BY <1>1 DEF Marks
<1>4. StorageMatches(st2, end2, l)
  BY <1>3, <1>31, StoragePopped
<1>. QED  BY <1>4 DEF st2, end2

\* There is a storage kind to pop.
LEMMA PopFinds ==
  ASSUME NEW st, NEW end, Len(st) \in DOMAIN st, NEW kinds, StorageMatches(st, end, kinds),
         InStorage(st[Len(st)], end[Len(st)])
  PROVE  Len(kinds) >= 2
<1>1. PICK f : Enumerates(f, Storages(st, end)) /\ Len(kinds) = Len(f) + 1
  BY DEF StorageMatches
<1>2. Len(st) \in Storages(st, end)
  BY DEF Storages
<1>3. PICK i \in DOMAIN f : f[i] = Len(st)
  BY <1>1, <1>2 DEF Enumerates
<1>4. f \in Seq(Nat) /\ f # <<>>
  BY <1>1, <1>3 DEF Enumerates
<1>5. Len(f) \in Nat \ {0}
  BY <1>4, LenProperties, EmptySeq
<1>. QED  BY <1>1, <1>5

\* It enters a template.
LEMMA TopEnters ==
  ASSUME NEW st, NEW end, NEW a, NEW e, Becomes(st, end, a, e),
         NEW S, NEW params \in Seq(S), TemplatesMatch(st, end, params),
         InTemplate(a, e), ~InTemplate(st[Len(st)], end[Len(st)]), a.at \in S
  PROVE  TemplatesMatch(SetLast(st, a), SetLast(end, e), Append(params, a.at))
<1>. DEFINE st2  == SetLast(st, a)
            end2 == SetLast(end, e)
<1>1. Marks(st, end, a, e, st2, end2)
  BY TopMarks
<1>. HIDE DEF st2, end2
<1>2. Len(st) \in Nat
  BY <1>1 DEF Marks
<1>3. Templates(st2, end2) = Templates(st, end) \union {Len(st)}
  BY <1>1 DEF Marks
<1>4. \A i \in Templates(st, end) : i < Len(st) /\ st2[i].at = st[i].at
  BY <1>1 DEF Marks
<1>5. st2[Len(st)].at \in S
  BY <1>1 DEF Marks
<1>6. TemplatesMatch(st2, end2, Append(params, st2[Len(st)].at))
  BY <1>2, <1>3, <1>4, <1>5, TemplateEntered
<1>7. st2[Len(st)].at = a.at
  BY <1>1 DEF Marks
<1>. QED  BY <1>6, <1>7 DEF st2, end2

\* It leaves a template, and finds its own.
LEMMA TopLeaves ==
  ASSUME NEW st, NEW end, NEW a, NEW e, Becomes(st, end, a, e),
         NEW S, NEW params \in Seq(S), TemplatesMatch(st, end, params),
         ~InTemplate(a, e), InTemplate(st[Len(st)], end[Len(st)]), a.at = st[Len(st)].at
  PROVE  /\ TemplatesMatch(SetLast(st, a), SetLast(end, e), Front(params))
         /\ params # <<>> /\ params[Len(params)] = st[Len(st)].at
<1>. DEFINE st2  == SetLast(st, a)
            end2 == SetLast(end, e)
<1>1. Marks(st, end, a, e, st2, end2)
  BY TopMarks
<1>. HIDE DEF st2, end2
<1>2. Len(st) \in Nat
  BY <1>1 DEF Marks
<1>3. Templates(st2, end2) = Templates(st, end) \ {Len(st)} /\ Len(st) \in Templates(st, end)
  BY <1>1 DEF Marks
<1>4. \A i \in Templates(st, end) : i <= Len(st) /\ st2[i].at = st[i].at
  BY <1>1 DEF Marks
<1>5. ASSUME NEW i, i \in Templates(st, end), Templates(st2, end2) = Templates(st, end) \ {i},
             \A j \in Templates(st, end) : j <= i /\ st2[j].at = st[j].at
      PROVE  /\ TemplatesMatch(st2, end2, Front(params)) /\ params # <<>>
             /\ params[Len(params)] = st[i].at
  BY <1>5, TemplateLeft
<1>. QED  BY <1>3, <1>4, <1>5 DEF st2, end2

-----------------------------------------------------------------------------
(***************************************************************************)
(* The steps of a parselet, on the stack alone.                            *)
(***************************************************************************)
AtWork(st, end, kinds, params, p, n) ==
  /\ p \in Nat /\ n \in Nat
  /\ Stacked(st, end, TRUE, p, n)
  /\ StorageMatches(st, end, kinds) /\ TemplatesMatch(st, end, params)

ParseletOnTop(st) == st # <<>> /\ st[Len(st)].fn = "parselet"

\* What is known of the parselet on top.
LEMMA ParseletTop ==
  ASSUME NEW st, NEW end, NEW kinds, NEW params, NEW p, NEW n,
         AtWork(st, end, kinds, params, p, n), ParseletOnTop(st),
         NEW t, t = st[Len(st)], NEW e, e = end[Len(st)]
  PROVE  /\ t \in ParseletActivation /\ e \in Endings /\ Sound(t, e, TRUE, p, n)
         /\ Follows(t.op, t.todo, e) /\ HasOperand(t.op, t.kids, e)
         /\ Len(st) \in DOMAIN st
<1>1. /\ Len(st) \in 1 .. Len(st) /\ t \in Activation /\ e \in Endings /\ DOMAIN st = 1 .. Len(st)
      /\ \A i \in 1 .. Len(st) : Sound(st[i], end[i], TRUE /\ i = Len(st), p, n)
  BY StackedSize DEF AtWork, ParseletOnTop
<1>2. Sound(t, e, TRUE, p, n)
  <2>1. Sound(t, e, TRUE /\ Len(st) = Len(st), p, n)
    BY <1>1
  <2>. DEFINE b == TRUE /\ Len(st) = Len(st)
  <2>2. b = TRUE
    OBVIOUS
  <2>3. Sound(t, e, b, p, n)
    BY <2>1
  <2>. HIDE DEF b
  <2>. QED  BY <2>2, <2>3
<1>3. t \in ParseletActivation
  <2>1. t.fn = "parselet"
    BY DEF ParseletOnTop
  <2>2. t \notin ExprActivation
    BY <2>1 DEF ExprActivation
  <2>. QED  BY <1>1, <2>2 DEF Activation
<1>4. Follows(t.op, t.todo, e) /\ HasOperand(t.op, t.kids, e)
  BY <1>2 DEF Sound, ParseletOnTop
<1>. QED  BY <1>1, <1>2, <1>3, <1>4

\* The parselet on top may go on as a, when q - p tokens have been read.
GoesOnAs(a, e, s, p, n, q) ==
  a \in ParseletActivation /\ Sound(a, e, s, p, n) /\ s \in BOOLEAN /\ q \in Nat /\ p <= q

\* The parselet on top has become a.
LEMMA TopReplaced ==
  ASSUME NEW st, NEW end, NEW kinds, NEW params, NEW p, NEW n,
         AtWork(st, end, kinds, params, p, n), ParseletOnTop(st),
         NEW a, NEW e, NEW s, NEW q, GoesOnAs(a, e, s, p, n, q)
  PROVE  /\ Stacked(SetLast(st, a), SetLast(end, e), s, q, n)
         /\ Becomes(st, end, a, e) /\ SetLast(st, a) # <<>> /\ Len(SetLast(st, a)) = Len(st)
         /\ SetLast(st, a)[Len(st)] = a /\ a \in Activation
<1>1. /\ a \in ParseletActivation /\ Sound(a, e, s, p, n) /\ s \in BOOLEAN /\ q \in Nat /\ p <= q
      /\ a.fn = "parselet"
  BY DEF GoesOnAs, ParseletActivation
<1>2. p \in Nat /\ n \in Nat /\ Stacked(st, end, TRUE, p, n) /\ st # <<>>
  BY DEF AtWork, ParseletOnTop
<1>3. n <= n
  BY <1>2
<1>4. Sound(a, e, s, q, n)
  BY <1>1, <1>2, <1>3, SoundLater
<1>5. e \in Endings
  BY <1>1, FollowsType DEF Sound
<1>6. a \in Activation /\ a.fn = st[Len(st)].fn
  BY <1>1 DEF Activation, ParseletOnTop
<1>7. Becomes(st, end, a, e)
  BY <1>2, <1>5, <1>6 DEF Becomes
<1>8. /\ Stacked(SetLast(st, a), SetLast(end, e), s, q, n)
      /\ SetLast(st, a) # <<>> /\ Len(SetLast(st, a)) = Len(st) /\ SetLast(st, a)[Len(st)] = a
  <2>1. PICK b \in BOOLEAN : b = TRUE
    OBVIOUS
  <2>2. Stacked(st, end, b, p, n)
    BY <1>2, <2>1
  <2>3. Replaces(st, end, b, p, n, a, e, s, q, n)
    BY <1>1, <1>2, <1>3, <1>4, <1>5, <1>6, <2>2 DEF Replaces
  <2>. QED  BY <2>3, ReplaceTop
<1>. QED  BY <1>6, <1>7, <1>8

\* It goes on with another list of things to do.
LEMMA WorksOn ==
  ASSUME NEW st, NEW end, NEW kinds, NEW params, NEW p, NEW n,
         AtWork(st, end, kinds, params, p, n), ParseletOnTop(st),
         NEW t, t = st[Len(st)], NEW e, e = end[Len(st)],
         NEW todo, NEW e2, Follows(t.op, todo, e2), e2 = e \/ (e = "parenthesis end" /\ e2 = "none"),
         NEW q \in Nat, p <= q, NEW a, a = [t EXCEPT !.todo = todo]
  PROVE  a \in Activation /\ Works(SetLast(st, a), kinds, params, q, n)
<1>1. t \in ParseletActivation /\ Sound(t, e, TRUE, p, n) /\ HasOperand(t.op, t.kids, e)
  BY ParseletTop
<1>2. todo \in Seq(ParseletItem)
  BY FollowsType
<1>3. /\ a \in ParseletActivation /\ a.fn = "parselet" /\ a.op = t.op /\ a.at = t.at /\ a.todo = todo
      /\ a.kids = t.kids /\ a.generic = t.generic /\ a.parameters = t.parameters
  BY <1>1, <1>2 DEF ParseletActivation
<1>4. Follows(a.op, a.todo, e2) /\ HasOperand(a.op, a.kids, e2)
  BY <1>1, <1>3 DEF HasOperand
<1>5. a.parameters \in {None, a.at} /\ t.fn = "parselet" /\ p \in Nat /\ n \in Nat
  BY <1>1, <1>3 DEF Sound, ParseletActivation, AtWork
<1>6. PICK b \in BOOLEAN : b = TRUE
  OBVIOUS
<1>61. Sound(a, e2, b, p, n)
  <2>1. /\ t.at \in 1 .. p - 1 /\ (\A k \in DOMAIN t.kids : t.kids[k] \in 1 .. n)
        /\ t.op = "=" => t.kids # <<>>
    BY <1>1, <1>5 DEF Sound
  <2>2. a.fn # "parseExpr" /\ (a.op = "=" => a.kids # <<>>)
    BY <1>3, <2>1
  <2>. QED  BY <1>3, <1>4, <1>5, <2>1, <2>2 DEF Sound
<1>62. GoesOnAs(a, e2, b, p, n, q)
  BY <1>3, <1>61 DEF GoesOnAs
<1>7. Stacked(SetLast(st, a), SetLast(end, e2), b, q, n) /\ Becomes(st, end, a, e2)
  BY <1>62, TopReplaced
<1>8. /\ InStorage(a, e2) <=> InStorage(t, e)
      /\ InTemplate(a, e2) <=> InTemplate(t, e)
  BY <1>3, <1>5 DEF InStorage, InTemplate
<1>9. StorageMatches(st, end, kinds) /\ TemplatesMatch(st, end, params)
  BY DEF AtWork
<1>10. /\ StorageMatches(SetLast(st, a), SetLast(end, e2), kinds)
       /\ TemplatesMatch(SetLast(st, a), SetLast(end, e2), params)
  BY <1>3, <1>7, <1>8, <1>9, TopKeepsStorage, TopKeepsTemplates
<1>11. a \in Activation
  BY <1>3 DEF Activation
<1>. QED  BY <1>6, <1>7, <1>10, <1>11 DEF Works

\* It turns out to be something else.
LEMMA TurnsInto ==
  ASSUME NEW st, NEW end, NEW kinds, NEW params, NEW p, NEW n,
         AtWork(st, end, kinds, params, p, n), ParseletOnTop(st),
         NEW t, t = st[Len(st)], t.todo # <<>>, Head(t.todo).do = "become", NEW a,
         a = IF Head(t.todo).op = "generic" THEN [t EXCEPT !.todo = Tail(@), !.generic = TRUE]
                                            ELSE [t EXCEPT !.todo = Tail(@), !.op = Head(t.todo).op]
  PROVE  a \in Activation /\ Works(SetLast(st, a), kinds, params, p, n)
<1>. DEFINE e == end[Len(st)]
            x == Head(t.todo)
<1>1. /\ t \in ParseletActivation /\ e \in Endings /\ Sound(t, e, TRUE, p, n)
      /\ Follows(t.op, t.todo, e) /\ HasOperand(t.op, t.kids, e)
  BY ParseletTop
<1>2. x.op \in Turns(t.op) /\ Roomy(t.op, e) /\ Follows(t.op, Tail(t.todo), e)
  BY <1>1, BecomeNext
<1>. HIDE DEF e
<1>3. Tail(t.todo) \in Seq(ParseletItem)
  BY <1>2, FollowsType
<1>4. t.fn = "parselet" /\ t.parameters \in {None, t.at} /\ e \in EndingsOf(t.op)
  BY <1>1, <1>2 DEF Sound, ParseletActivation, Follows
<1>5. ASSUME x.op = "generic"
      PROVE  /\ a \in ParseletActivation /\ a.fn = "parselet" /\ a.op = t.op /\ a.at = t.at
             /\ a.todo = Tail(t.todo) /\ a.kids = t.kids /\ a.parameters = t.parameters
             /\ a.generic
  BY <1>1, <1>3, <1>5 DEF ParseletActivation
<1>6. ASSUME x.op # "generic"
      PROVE  /\ a \in ParseletActivation /\ a.fn = "parselet" /\ a.op = x.op /\ a.at = t.at
             /\ a.todo = Tail(t.todo) /\ a.kids = t.kids /\ a.parameters = t.parameters
             /\ a.generic = t.generic /\ a.op \in {"declare", "call"}
             /\ t.op \notin {"class", "template", "func", "("}
  <2>1. x.op \in {"declare", "call"} /\ t.op \notin {"class", "template", "func", "("}
    BY <1>2, <1>6 DEF Turns
  <2>2. x.op \in Operator
    BY <2>1 DEF Operator
  <2>3. a = [t EXCEPT !.todo = Tail(t.todo), !.op = x.op]
    BY <1>6
  <2>. HIDE DEF x
  <2>4. a \in ParseletActivation /\ a.fn = "parselet" /\ a.op = x.op /\ a.at = t.at
             /\ a.todo = Tail(t.todo) /\ a.kids = t.kids /\ a.parameters = t.parameters
             /\ a.generic = t.generic
    BY <1>1, <1>3, <2>2, <2>3 DEF ParseletActivation
  <2>. QED  BY <2>1, <2>4
<1>7. ASSUME x.op # "generic"
      PROVE  e = "none" /\ Follows(a.op, a.todo, e)
  <2>1. Neutral(a.op) = Neutral(t.op)
    <3>1. Turns(a.op) = Turns(t.op)
      <4>1. t.op # ""
        BY <1>1 DEF ParseletActivation, Operator, TokenKind, Binary, Literal
      <4>. QED  BY <1>2, <1>6, <1>7, <4>1 DEF Turns
    <3>2. Simple(a.op) = Simple(t.op)
      BY <3>1 DEF Simple
    <3>. QED  BY <3>2 DEF Neutral, Either, Choice, Nested
  <2>2. e = "none" /\ "none" \in EndingsOf(a.op) /\ Roomy(a.op, "none")
    BY <1>4, <1>6, <1>7 DEF EndingsOf, Roomy
  <2>3. PICK xs \in Seq(Neutral(t.op)) : Tail(t.todo) = xs \o Script(e)
    BY <1>2 DEF Follows
  <2>. QED  BY <1>6, <1>7, <2>1, <2>2, <2>3 DEF Follows
<1>8. /\ a \in ParseletActivation /\ a.fn = "parselet" /\ a.at = t.at /\ a.kids = t.kids
      /\ a.parameters = t.parameters
      /\ Follows(a.op, a.todo, e) /\ HasOperand(a.op, a.kids, e)
      /\ InStorage(a, e) <=> InStorage(t, e)
      /\ a.op = t.op \/ a.op # "="
  <2>1. CASE x.op = "generic"
    BY <1>1, <1>2, <1>4, <1>5, <2>1 DEF InStorage
  <2>2. CASE x.op # "generic"
    BY <1>4, <1>6, <1>7, <2>2 DEF InStorage, HasOperand
  <2>. QED  BY <2>1, <2>2
<1>9. InTemplate(a, e) <=> InTemplate(t, e)
  <2>1. CASE x.op = "generic"
    <3>1. e \notin {"class storage", "class body", "class storage end", "class end"}
      BY <1>2, <1>4 DEF Roomy, EndingsOf
    <3>2. e = "template end" => t.op = "template"
      BY <1>4 DEF EndingsOf
    <3>. QED  BY <1>4, <1>5, <2>1, <3>1, <3>2 DEF InTemplate
  <2>2. CASE x.op # "generic"
    BY <1>7, <2>2 DEF InTemplate
  <2>. QED  BY <2>1, <2>2
<1>10. p \in Nat /\ n \in Nat /\ Stacked(st, end, TRUE, p, n) /\ st # <<>>
       /\ StorageMatches(st, end, kinds) /\ TemplatesMatch(st, end, params)
  BY DEF AtWork, ParseletOnTop
<1>11. Sound(a, e, TRUE, p, n)
  <2>1. /\ t.at \in 1 .. p - 1 /\ (\A k \in DOMAIN t.kids : t.kids[k] \in 1 .. n)
        /\ t.op = "=" => t.kids # <<>>
    BY <1>1, <1>4 DEF Sound
  <2>2. a.fn # "parseExpr" /\ a.parameters \in {None, a.at} /\ (a.op = "=" => a.kids # <<>>)
    BY <1>4, <1>8, <2>1
  <2>. QED  BY <1>8, <2>1, <2>2 DEF Sound
<1>12. a \in Activation /\ a.fn = st[Len(st)].fn
  BY <1>4, <1>8 DEF Activation
<1>13. PICK b \in BOOLEAN : b = TRUE
  OBVIOUS
<1>14. GoesOnAs(a, e, b, p, n, p)
  <2>1. p <= p
    BY <1>10
  <2>. QED  BY <1>8, <1>10, <1>11, <1>13, <2>1 DEF GoesOnAs
<1>15. Stacked(SetLast(st, a), SetLast(end, e), b, p, n) /\ Becomes(st, end, a, e)
  BY <1>14, TopReplaced
<1>16. /\ StorageMatches(SetLast(st, a), SetLast(end, e), kinds)
       /\ TemplatesMatch(SetLast(st, a), SetLast(end, e), params)
  BY <1>8, <1>9, <1>10, <1>15, TopKeepsStorage, TopKeepsTemplates DEF e
<1>. QED  BY <1>12, <1>13, <1>15, <1>16 DEF Works

\* The parselet t, with something else to do.
Amended(t, a, todo) ==
  /\ a \in ParseletActivation /\ a.todo = todo /\ a.parameters \in {None, a.at}
  /\ a.op = t.op /\ a.at = t.at /\ a.kids = t.kids /\ a.generic = t.generic

SoundTop(t, e, p, n) == t \in ParseletActivation /\ p \in Nat /\ n \in Nat /\ Sound(t, e, TRUE, p, n)

\* With an operand or still waiting for it.
StillLeft(t, todo, e, s) == Follows(t.op, todo, e) /\ s \in BOOLEAN /\ (s => HasOperand(t.op, t.kids, e))

\* It may go on with what is left to do.
LEMMA AmendedGoesOn ==
  ASSUME NEW t, NEW e, NEW p, NEW n, SoundTop(t, e, p, n),
         NEW a, NEW todo, Amended(t, a, todo), NEW e2, NEW s, StillLeft(t, todo, e2, s)
  PROVE  GoesOnAs(a, e2, s, p, n, p)
<1>0. Follows(t.op, todo, e2) /\ s \in BOOLEAN /\ (s => HasOperand(t.op, t.kids, e2))
  BY DEF StillLeft
<1>1. /\ t \in ParseletActivation /\ p \in Nat /\ n \in Nat /\ Sound(t, e, TRUE, p, n)
      /\ t.fn = "parselet"
  BY DEF SoundTop, ParseletActivation
<1>2. /\ a \in ParseletActivation /\ a.todo = todo /\ a.parameters \in {None, a.at} /\ a.fn = "parselet"
      /\ a.op = t.op /\ a.at = t.at /\ a.kids = t.kids
  BY DEF Amended, ParseletActivation
<1>3. /\ t.at \in 1 .. p - 1 /\ (\A k \in DOMAIN t.kids : t.kids[k] \in 1 .. n)
      /\ t.op = "=" => t.kids # <<>>
  BY <1>1 DEF Sound
<1>4. Sound(a, e2, s, p, n)
  <2>1. /\ a.fn # "parseExpr" /\ (a.op = "=" => a.kids # <<>>)
        /\ Follows(a.op, a.todo, e2) /\ (s => HasOperand(a.op, a.kids, e2))
    BY <1>0, <1>2, <1>3
  <2>. QED  BY <1>0, <1>2, <1>3, <2>1 DEF Sound
<1>5. p <= p
  BY <1>1
<1>. QED  BY <1>0, <1>1, <1>2, <1>4, <1>5 DEF GoesOnAs

\* The parselet on top has done the first thing there was to do.
LEMMA FirstDone ==
  ASSUME NEW st, NEW end, NEW kinds, NEW params, NEW p, NEW n,
         AtWork(st, end, kinds, params, p, n), ParseletOnTop(st),
         NEW t, t = st[Len(st)], NEW e, e = end[Len(st)],
         NEW e2, Follows(t.op, Tail(t.todo), e2), NEW a, a = [t EXCEPT !.todo = Tail(@)]
  PROVE  Amended(t, a, Tail(t.todo)) /\ SoundTop(t, e, p, n)
<1>1. t \in ParseletActivation /\ Sound(t, e, TRUE, p, n)
  BY ParseletTop
<1>2. Tail(t.todo) \in Seq(ParseletItem)
  BY FollowsType
<1>3. t.parameters \in {None, t.at}
  BY <1>1 DEF Sound, ParseletActivation
<1>4. Amended(t, a, Tail(t.todo))
  <2>. DEFINE todo == Tail(t.todo)
  <2>1. todo \in Seq(ParseletItem) /\ a = [t EXCEPT !.todo = todo]
    BY <1>2
  <2>. HIDE DEF todo
  <2>2. /\ a \in ParseletActivation /\ a.todo = todo /\ a.parameters = t.parameters
        /\ a.op = t.op /\ a.at = t.at /\ a.kids = t.kids /\ a.generic = t.generic
    BY <1>1, <2>1 DEF ParseletActivation
  <2>3. Amended(t, a, todo)
    BY <1>3, <2>2 DEF Amended
  <2>. QED  BY <2>3 DEF todo
<1>5. p \in Nat /\ n \in Nat
  BY DEF AtWork
<1>6. SoundTop(t, e, p, n)
  BY <1>1, <1>5 DEF SoundTop
<1>. QED  BY <1>4, <1>6

\* It pushes.
LEMMA PushWorks ==
  ASSUME NEW st, NEW end, NEW kinds, NEW params, NEW p, NEW n,
         AtWork(st, end, kinds, params, p, n), ParseletOnTop(st),
         NEW t, t = st[Len(st)], t.todo # <<>>, Head(t.todo).do = "push storage",
         NEW a, a = [t EXCEPT !.todo = Tail(@)], NEW l, Len(l) = Len(kinds) + 1
  PROVE  a \in Activation /\ Works(SetLast(st, a), l, params, p, n) /\ Head(t.todo).kind \in Kinds
<1>1. PICK e : e = end[Len(st)]
  OBVIOUS
<1>2. Follows(t.op, t.todo, e) /\ HasOperand(t.op, t.kids, e) /\ t.fn = "parselet"
  BY <1>1, ParseletTop DEF ParseletOnTop
<1>3. PICK e2 : e2 = After(e)
  OBVIOUS
<1>4. /\ Follows(t.op, Tail(t.todo), e2) /\ e \in {"function", "class storage"}
      /\ Head(t.todo).kind \in {"Local", "Instance"}
  BY <1>2, <1>3, EndingNext
<1>5. /\ e = "function" => e2 = "function body"
      /\ e = "class storage" => e2 = "class body"
  BY <1>3 DEF After
<1>6. Amended(t, a, Tail(t.todo)) /\ SoundTop(t, e, p, n)
  BY <1>1, <1>4, FirstDone
<1>7. HasOperand(t.op, t.kids, e2)
  BY <1>2, <1>4, <1>5 DEF HasOperand
<1>8. PICK b \in BOOLEAN : b = TRUE
  OBVIOUS
<1>81. StillLeft(t, Tail(t.todo), e2, b)
  BY <1>4, <1>7 DEF StillLeft
<1>9. GoesOnAs(a, e2, b, p, n, p)
  BY <1>6, <1>81, AmendedGoesOn
<1>10. /\ Stacked(SetLast(st, a), SetLast(end, e2), b, p, n) /\ Becomes(st, end, a, e2)
       /\ a \in Activation
  BY <1>9, TopReplaced
<1>11. a.fn = "parselet" /\ a.op = t.op /\ a.at = t.at /\ a.generic = t.generic
  BY <1>6 DEF Amended, ParseletActivation
<1>12. /\ InStorage(a, e2) /\ ~InStorage(t, e)
       /\ InTemplate(a, e2) <=> InTemplate(t, e)
  BY <1>2, <1>4, <1>5, <1>11 DEF InStorage, InTemplate
<1>13. StorageMatches(st, end, kinds) /\ TemplatesMatch(st, end, params)
  BY DEF AtWork
<1>14. StorageMatches(SetLast(st, a), SetLast(end, e2), l)
  BY <1>1, <1>10, <1>12, <1>13, TopPushes
<1>15. TemplatesMatch(SetLast(st, a), SetLast(end, e2), params)
  BY <1>1, <1>10, <1>11, <1>12, <1>13, TopKeepsTemplates
<1>. QED  BY <1>4, <1>8, <1>10, <1>14, <1>15 DEF Works, Kinds

\* It pops what it has pushed.
LEMMA PopWorks ==
  ASSUME NEW st, NEW end, NEW kinds, NEW params, NEW p, NEW n,
         AtWork(st, end, kinds, params, p, n), ParseletOnTop(st),
         NEW t, t = st[Len(st)], t.todo # <<>>, Head(t.todo).do = "pop storage",
         NEW a, a = [t EXCEPT !.todo = Tail(@)], NEW l, Len(l) = Len(kinds) - 1
  PROVE  a \in Activation /\ Works(SetLast(st, a), l, params, p, n)
<1>1. PICK e : e = end[Len(st)]
  OBVIOUS
<1>2. /\ Follows(t.op, t.todo, e) /\ HasOperand(t.op, t.kids, e) /\ t.fn = "parselet"
      /\ Len(st) \in DOMAIN st
  BY <1>1, ParseletTop DEF ParseletOnTop
<1>3. PICK e2 : e2 = After(e)
  OBVIOUS
<1>4. Follows(t.op, Tail(t.todo), e2) /\ e \in {"function end", "class storage end"}
  BY <1>2, <1>3, EndingNext
<1>5. /\ e = "function end" => e2 = "none"
      /\ e = "class storage end" => e2 = "class end"
  BY <1>3 DEF After
<1>6. Amended(t, a, Tail(t.todo)) /\ SoundTop(t, e, p, n)
  BY <1>1, <1>4, FirstDone
<1>7. HasOperand(t.op, t.kids, e2)
  BY <1>2, <1>4, <1>5 DEF HasOperand
<1>8. PICK b \in BOOLEAN : b = TRUE
  OBVIOUS
<1>81. StillLeft(t, Tail(t.todo), e2, b)
  BY <1>4, <1>7 DEF StillLeft
<1>9. GoesOnAs(a, e2, b, p, n, p)
  BY <1>6, <1>81, AmendedGoesOn
<1>10. /\ Stacked(SetLast(st, a), SetLast(end, e2), b, p, n) /\ Becomes(st, end, a, e2)
       /\ a \in Activation
  BY <1>9, TopReplaced
<1>11. a.fn = "parselet" /\ a.op = t.op /\ a.at = t.at /\ a.generic = t.generic
  BY <1>6 DEF Amended, ParseletActivation
<1>12. /\ ~InStorage(a, e2) /\ InStorage(t, e)
       /\ InTemplate(a, e2) <=> InTemplate(t, e)
  BY <1>2, <1>4, <1>5, <1>11 DEF InStorage, InTemplate
<1>13. StorageMatches(st, end, kinds) /\ TemplatesMatch(st, end, params)
  BY DEF AtWork
<1>14. StorageMatches(SetLast(st, a), SetLast(end, e2), l)
  BY <1>1, <1>10, <1>12, <1>13, TopPops
<1>15. TemplatesMatch(SetLast(st, a), SetLast(end, e2), params)
  BY <1>1, <1>10, <1>11, <1>12, <1>13, TopKeepsTemplates
<1>. QED  BY <1>8, <1>10, <1>14, <1>15 DEF Works

\* There is one to pop.
LEMMA PopFindsOwn ==
  ASSUME NEW st, NEW end, NEW kinds, NEW params, NEW p, NEW n,
         AtWork(st, end, kinds, params, p, n), ParseletOnTop(st),
         NEW t, t = st[Len(st)], t.todo # <<>>, Head(t.todo).do = "pop storage"
  PROVE  Len(kinds) >= 2
<1>1. PICK e : e = end[Len(st)]
  OBVIOUS
<1>2. /\ Follows(t.op, t.todo, e) /\ t.fn = "parselet"
      /\ Len(st) \in DOMAIN st
  BY <1>1, ParseletTop DEF ParseletOnTop
<1>3. e \in {"function end", "class storage end"}
  BY <1>2, EndingNext
<1>4. InStorage(t, e) /\ StorageMatches(st, end, kinds)
  BY <1>2, <1>3 DEF InStorage, AtWork
<1>. QED  BY <1>1, <1>2, <1>4, PopFinds

\* What is called has pushed and entered nothing.
LEMMA CalledWorks ==
  ASSUME NEW st, NEW end, NEW s, NEW p, NEW n, NEW x, NEW e, Called(st, end, s, p, n, x, e),
         ~InStorage(x, e), ~InTemplate(x, e),
         NEW kinds, StorageMatches(st, end, kinds), NEW params, TemplatesMatch(st, end, params)
  PROVE  Works(Append(st, x), kinds, params, p, n)
<1>1. /\ p \in Nat /\ n \in Nat /\ s \in BOOLEAN /\ Stacked(st, end, s, p, n)
      /\ x \in Activation /\ e \in Endings /\ Sound(x, e, TRUE, p, n)
      /\ st = <<>> => x.fn = "parseExpr"
      /\ st # <<>> => x.fn # st[Len(st)].fn
  BY DEF Called
<1>. DEFINE st2  == Append(st, x)
            end2 == Append(end, e)
<1>11. Stacked(st2, end2, TRUE, p, n) /\ Pushed(st, end, x, e, st2, end2)
  BY PushTop
<1>2. /\ Stacked(st2, end2, TRUE, p, n) /\ Len(st2) = Len(st) + 1
      /\ st2[Len(st) + 1] = x /\ end2[Len(st) + 1] = e
      /\ \A i \in 1 .. Len(st) : st2[i] = st[i] /\ end2[i] = end[i]
  BY <1>11 DEF Pushed
<1>3. /\ Len(st) \in Nat /\ DOMAIN st = 1 .. Len(st)
  BY <1>1, StackedSize
<1>. HIDE DEF st2, end2
<1>4. DOMAIN st2 = 1 .. Len(st) + 1
  BY <1>2, StackedSize
<1>5. Storages(st2, end2) = Storages(st, end) /\ Templates(st2, end2) = Templates(st, end)
  <2>1. \A l \in Nat : \A i : i \in 1 .. l + 1 <=> i \in 1 .. l \/ i = l + 1
    OBVIOUS
  <2>2. \A i : i \in 1 .. Len(st) + 1 <=> i \in 1 .. Len(st) \/ i = Len(st) + 1
    BY <1>3, <2>1
  <2>3. Storages(st2, end2) = Storages(st, end)
    BY <1>2, <1>3, <1>4, <2>2 DEF Storages
  <2>4. Templates(st2, end2) = Templates(st, end)
    BY <1>2, <1>3, <1>4, <2>2 DEF Templates
  <2>. QED  BY <2>3, <2>4
<1>6. StorageMatches(st2, end2, kinds)
  BY <1>5, StorageKept
<1>7. \A i \in Templates(st, end) : st2[i].at = st[i].at
  BY <1>2, <1>3 DEF Templates
<1>8. TemplatesMatch(st2, end2, params)
  BY <1>5, <1>7, TemplatesKept
<1>9. Works(st2, kinds, params, p, n)
  BY <1>2, <1>6, <1>8 DEF Works
<1>. QED  BY <1>9 DEF st2

\* A parselet t that enters becomes a, and the parameters l.
Entering(t, params, p, a, l) ==
  /\ t.todo # <<>> /\ Head(t.todo).do = "enter template" /\ params \in Seq(1 .. p - 1)
  /\ a = [t EXCEPT !.todo = Tail(@)]
  /\ l = IF t.op = "template" \/ t.generic THEN Append(params, t.at) ELSE params

\* It enters its template, if it is one or has parameters.
LEMMA EnterWorks ==
  ASSUME NEW st, NEW end, NEW kinds, NEW params, NEW p, NEW n,
         AtWork(st, end, kinds, params, p, n), ParseletOnTop(st),
         NEW t, t = st[Len(st)], NEW a, NEW l, Entering(t, params, p, a, l)
  PROVE  a \in Activation /\ Works(SetLast(st, a), kinds, l, p, n) /\ l \in Seq(1 .. p - 1)
<1>. /\ t.todo # <<>> /\ Head(t.todo).do = "enter template" /\ params \in Seq(1 .. p - 1)
     /\ a = [t EXCEPT !.todo = Tail(@)]
     /\ l = IF t.op = "template" \/ t.generic THEN Append(params, t.at) ELSE params
  BY DEF Entering
<1>1. PICK e : e = end[Len(st)]
  OBVIOUS
<1>2. Follows(t.op, t.todo, e) /\ HasOperand(t.op, t.kids, e) /\ t.fn = "parselet"
  BY <1>1, ParseletTop DEF ParseletOnTop
<1>3. PICK e2 : e2 = After(e)
  OBVIOUS
<1>4. Follows(t.op, Tail(t.todo), e2) /\ e \in {"class", "template"}
  BY <1>2, <1>3, EndingNext
<1>5. /\ e = "class" => e2 = "class storage"
      /\ e = "template" => e2 = "template end"
  BY <1>3 DEF After
<1>6. Amended(t, a, Tail(t.todo)) /\ SoundTop(t, e, p, n)
  BY <1>1, <1>4, FirstDone
<1>7. HasOperand(t.op, t.kids, e2)
  BY <1>2, <1>4, <1>5 DEF HasOperand
<1>8. PICK b \in BOOLEAN : b = TRUE
  OBVIOUS
<1>81. StillLeft(t, Tail(t.todo), e2, b)
  BY <1>4, <1>7 DEF StillLeft
<1>9. GoesOnAs(a, e2, b, p, n, p)
  BY <1>6, <1>81, AmendedGoesOn
<1>10. /\ Stacked(SetLast(st, a), SetLast(end, e2), b, p, n) /\ Becomes(st, end, a, e2)
       /\ a \in Activation
  BY <1>9, TopReplaced
<1>11. a.fn = "parselet" /\ a.op = t.op /\ a.at = t.at /\ a.generic = t.generic
  BY <1>6 DEF Amended, ParseletActivation
<1>12. /\ InStorage(a, e2) <=> InStorage(t, e)
       /\ ~InTemplate(t, e)
       /\ InTemplate(a, e2) <=> (t.op = "template" \/ t.generic)
  BY <1>2, <1>4, <1>5, <1>11 DEF InStorage, InTemplate
<1>13. StorageMatches(st, end, kinds) /\ TemplatesMatch(st, end, params)
  BY DEF AtWork
<1>14. StorageMatches(SetLast(st, a), SetLast(end, e2), kinds)
  BY <1>1, <1>10, <1>12, <1>13, TopKeepsStorage
<1>. DEFINE S == 1 .. p - 1
<1>15. a.at \in S /\ params \in Seq(S)
  BY <1>2, <1>6, <1>11 DEF SoundTop, Sound
<1>16. TemplatesMatch(SetLast(st, a), SetLast(end, e2), l) /\ l \in Seq(S)
  <2>. HIDE DEF S
  <2>1. CASE t.op = "template" \/ t.generic
    <3>1. TemplatesMatch(SetLast(st, a), SetLast(end, e2), Append(params, a.at))
      BY <1>1, <1>10, <1>12, <1>13, <1>15, <2>1, TopEnters
    <3>2. l = Append(params, a.at) /\ Append(params, a.at) \in Seq(S)
      BY <1>11, <1>15, <2>1, AppendProperties
    <3>. QED  BY <3>1, <3>2
  <2>2. CASE ~(t.op = "template" \/ t.generic)
    <3>1. TemplatesMatch(SetLast(st, a), SetLast(end, e2), params)
      <4>1. InTemplate(a, e2) <=> InTemplate(t, e)
        BY <1>12, <2>2
      <4>. QED  BY <1>1, <1>10, <1>11, <1>13, <4>1, TopKeepsTemplates
    <3>. QED  BY <1>15, <2>2, <3>1
  <2>. QED  BY <2>1, <2>2
<1>. QED  BY <1>8, <1>10, <1>14, <1>16 DEF Works

\* A parselet t that leaves becomes a, and the parameters l.
Leaving(t, params, p, c, a, l) ==
  /\ t.todo # <<>> /\ Head(t.todo).do = "leave template" /\ params \in Seq(1 .. p - 1)
  /\ c <=> t.op = "template" \/ t.generic
  /\ a = IF c THEN [t EXCEPT !.todo = Tail(@), !.parameters = Last(params)]
               ELSE [t EXCEPT !.todo = Tail(@)]
  /\ l = IF c THEN Front(params) ELSE params

\* It leaves its template: the parameters it takes are its own.
LEMMA LeaveWorks ==
  ASSUME NEW st, NEW end, NEW kinds, NEW params, NEW p, NEW n,
         AtWork(st, end, kinds, params, p, n), ParseletOnTop(st),
         NEW t, t = st[Len(st)], NEW c, NEW a, NEW l, Leaving(t, params, p, c, a, l)
  PROVE  a \in Activation /\ Works(SetLast(st, a), kinds, l, p, n) /\ l \in Seq(1 .. p - 1)
<1>. /\ t.todo # <<>> /\ Head(t.todo).do = "leave template" /\ params \in Seq(1 .. p - 1)
     /\ c <=> t.op = "template" \/ t.generic
     /\ a = IF c THEN [t EXCEPT !.todo = Tail(@), !.parameters = Last(params)]
                  ELSE [t EXCEPT !.todo = Tail(@)]
     /\ l = IF c THEN Front(params) ELSE params
  BY DEF Leaving
<1>1. PICK e : e = end[Len(st)]
  OBVIOUS
<1>2. Follows(t.op, t.todo, e) /\ HasOperand(t.op, t.kids, e) /\ t.fn = "parselet"
  BY <1>1, ParseletTop DEF ParseletOnTop
<1>3. PICK e2 : e2 = After(e)
  OBVIOUS
<1>4. Follows(t.op, Tail(t.todo), e2) /\ e \in {"class end", "template end"}
  BY <1>2, <1>3, EndingNext
<1>5. e2 = "none"
  BY <1>3, <1>4 DEF After
<1>6. PICK a1 : a1 = [t EXCEPT !.todo = Tail(@)]
  OBVIOUS
<1>7. Amended(t, a1, Tail(t.todo)) /\ SoundTop(t, e, p, n)
  BY <1>1, <1>4, <1>6, FirstDone
<1>8. PICK b \in BOOLEAN : b = TRUE
  OBVIOUS
<1>9. StillLeft(t, Tail(t.todo), e2, b)
  <2>1. HasOperand(t.op, t.kids, e2)
    BY <1>2, <1>4 DEF HasOperand
  <2>. QED  BY <1>4, <2>1 DEF StillLeft
<1>10. StorageMatches(st, end, kinds) /\ TemplatesMatch(st, end, params)
  BY DEF AtWork
<1>. DEFINE S == 1 .. p - 1
<1>11. params \in Seq(S)
  OBVIOUS
<1>. HIDE DEF S
<1>12. InTemplate(t, e) <=> c
  BY <1>2, <1>4 DEF InTemplate
<1>13. ASSUME NEW x, Amended(t, x, Tail(t.todo))
       PROVE  /\ x \in Activation /\ Works(SetLast(st, x), kinds, l, p, n) /\ l \in Seq(S)
              /\ c => params # <<>> /\ Last(params) = t.at
  <2>1. GoesOnAs(x, e2, b, p, n, p)
    BY <1>7, <1>9, <1>13, AmendedGoesOn
  <2>2. /\ Stacked(SetLast(st, x), SetLast(end, e2), b, p, n) /\ Becomes(st, end, x, e2)
        /\ x \in Activation
    BY <2>1, TopReplaced
  <2>3. x.fn = "parselet" /\ x.op = t.op /\ x.at = t.at /\ x.generic = t.generic
    BY <1>13 DEF Amended, ParseletActivation
  <2>4. /\ InStorage(x, e2) <=> InStorage(t, e)
        /\ ~InTemplate(x, e2)
    BY <1>2, <1>4, <1>5, <2>3 DEF InStorage, InTemplate
  <2>5. StorageMatches(SetLast(st, x), SetLast(end, e2), kinds)
    BY <1>1, <1>10, <2>2, <2>4, TopKeepsStorage
  <2>6. CASE c
    <3>1. /\ TemplatesMatch(SetLast(st, x), SetLast(end, e2), Front(params))
          /\ params # <<>> /\ params[Len(params)] = t.at
      BY <1>1, <1>10, <1>11, <1>12, <2>2, <2>3, <2>4, <2>6, TopLeaves
    <3>2. l = Front(params) /\ l \in Seq(S) /\ Last(params) = t.at
      BY <1>11, <2>6, <3>1, FrontOfSeq DEF Last
    <3>. QED  BY <1>8, <2>2, <2>5, <3>1, <3>2 DEF Works
  <2>7. CASE ~c
    <3>1. TemplatesMatch(SetLast(st, x), SetLast(end, e2), params) /\ l = params
      BY <1>1, <1>10, <1>12, <2>2, <2>4, <2>7, TopKeepsTemplates
    <3>. QED  BY <1>8, <1>11, <2>2, <2>5, <2>7, <3>1 DEF Works
  <2>. QED  BY <2>6, <2>7
<1>14. c => params # <<>> /\ Last(params) = t.at
  BY <1>7, <1>13
<1>15. Amended(t, a, Tail(t.todo))
  <2>1. CASE c
    <3>1. a = [t EXCEPT !.todo = Tail(@), !.parameters = t.at]
      BY <1>14, <2>1
    <3>2. t \in ParseletActivation /\ Tail(t.todo) \in Seq(ParseletItem)
      BY <1>4, <1>7, FollowsType DEF SoundTop
    <3>3. /\ a \in ParseletActivation /\ a.todo = Tail(t.todo) /\ a.parameters = t.at
          /\ a.op = t.op /\ a.at = t.at /\ a.kids = t.kids /\ a.generic = t.generic
      BY <3>1, <3>2 DEF ParseletActivation
    <3>. QED  BY <3>3 DEF Amended
  <2>2. CASE ~c
    BY <1>6, <1>7, <2>2
  <2>. QED  BY <2>1, <2>2
<1>. QED  BY <1>13, <1>15 DEF S

\* It calls parseExpr, and waits for the operand.
LEMMA CallWorks ==
  ASSUME NEW st, NEW end, NEW kinds, NEW params, NEW p, NEW n,
         AtWork(st, end, kinds, params, p, n), ParseletOnTop(st),
         NEW t, t = st[Len(st)], t.todo # <<>>, Head(t.todo).do = "expression",
         NEW a, a = [t EXCEPT !.todo = Tail(@)]
  PROVE  a \in Activation
         /\ Works(Append(SetLast(st, a), ExprFrame(Head(t.todo).precedence)), kinds, params, p, n)
<1>1. PICK e : e = end[Len(st)]
  OBVIOUS
<1>2. Follows(t.op, t.todo, e) /\ HasOperand(t.op, t.kids, e) /\ t.fn = "parselet"
  BY <1>1, ParseletTop DEF ParseletOnTop
<1>3. PICK e2 : /\ \/ e2 = e
                   \/ e2 = After(e) /\ e \in {"function body", "class body", "parenthesis"}
                /\ Follows(t.op, Tail(t.todo), e2)
  <2>1. \/ Follows(t.op, Tail(t.todo), e)
        \/ e \in {"function body", "class body", "parenthesis"} /\ Follows(t.op, Tail(t.todo), After(e))
    BY <1>2, ExpressionNext
  <2>. QED  BY <2>1, Zenon
<1>4. Head(t.todo).precedence \in Nat
  BY <1>2, ExpressionNext
<1>5. \/ e2 = e
      \/ e = "function body" /\ e2 = "function end"
      \/ e = "class body" /\ e2 = "class storage end"
      \/ e = "parenthesis" /\ e2 = "parenthesis end"
  BY <1>3 DEF After
<1>6. Amended(t, a, Tail(t.todo)) /\ SoundTop(t, e, p, n)
  BY <1>1, <1>3, FirstDone
<1>7. PICK b \in BOOLEAN : b = FALSE
  OBVIOUS
<1>8. StillLeft(t, Tail(t.todo), e2, b)
  BY <1>3, <1>7 DEF StillLeft
<1>9. GoesOnAs(a, e2, b, p, n, p)
  BY <1>6, <1>8, AmendedGoesOn
<1>. DEFINE st2  == SetLast(st, a)
            end2 == SetLast(end, e2)
            x    == ExprFrame(Head(t.todo).precedence)
<1>10. /\ Stacked(st2, end2, b, p, n) /\ Becomes(st, end, a, e2) /\ st2 # <<>> /\ Len(st2) = Len(st)
       /\ st2[Len(st)] = a /\ a \in Activation
  BY <1>9, TopReplaced
<1>11. a.fn = "parselet" /\ a.op = t.op /\ a.at = t.at /\ a.generic = t.generic
  BY <1>6 DEF Amended, ParseletActivation
<1>12. /\ InStorage(a, e2) <=> InStorage(t, e)
       /\ InTemplate(a, e2) <=> InTemplate(t, e)
  BY <1>2, <1>5, <1>11 DEF InStorage, InTemplate
<1>13. StorageMatches(st, end, kinds) /\ TemplatesMatch(st, end, params)
  BY DEF AtWork
<1>14. StorageMatches(st2, end2, kinds)
  BY <1>1, <1>10, <1>12, <1>13, TopKeepsStorage
<1>15. TemplatesMatch(st2, end2, params)
  BY <1>1, <1>10, <1>11, <1>12, <1>13, TopKeepsTemplates
<1>16. x \in Activation /\ x.fn = "parseExpr" /\ x.left = None
  BY <1>4 DEF Activation, ExprActivation, ExprFrame
<1>17. p \in Nat /\ n \in Nat
  BY DEF AtWork
<1>. HIDE DEF st2, end2, x
<1>18. Called(st2, end2, b, p, n, x, "none")
  <2>1. Sound(x, "none", TRUE, p, n)
    BY <1>16 DEF Sound
  <2>2. x.fn # st2[Len(st2)].fn
    BY <1>10, <1>11, <1>16
  <2>. QED  BY <1>10, <1>14, <1>15, <1>16, <1>17, <2>1, <2>2 DEF Called, Endings
<1>19. ~InStorage(x, "none") /\ ~InTemplate(x, "none")
  BY DEF InStorage, InTemplate
<1>20. Works(Append(st2, x), kinds, params, p, n)
  BY <1>14, <1>15, <1>18, <1>19, CalledWorks
<1>. QED  BY <1>10, <1>20 DEF st2, x

-----------------------------------------------------------------------------
(***************************************************************************)
(* The steps of parseExpr, and what is returned, on the stack alone.       *)
(***************************************************************************)
ExprOnTop(st) == st # <<>> /\ st[Len(st)].fn = "parseExpr"

\* What is known of the call of parseExpr on top.
LEMMA ExprTop ==
  ASSUME NEW st, NEW end, NEW kinds, NEW params, NEW p, NEW n,
         AtWork(st, end, kinds, params, p, n), ExprOnTop(st),
         NEW t, t = st[Len(st)]
  PROVE  t \in ExprActivation /\ t.left \in {None} \union 1 .. n
<1>1. /\ Len(st) \in 1 .. Len(st) /\ t \in Activation
      /\ \A i \in 1 .. Len(st) : Sound(st[i], end[i], TRUE /\ i = Len(st), p, n)
  BY StackedSize DEF AtWork, ExprOnTop
<1>2. t.fn = "parseExpr"
  BY DEF ExprOnTop
<1>3. t \notin ParseletActivation
  BY <1>2 DEF ParseletActivation
<1>4. t.left \in {None} \union 1 .. n
  BY <1>1, <1>2 DEF Sound
<1>. QED  BY <1>1, <1>3, <1>4 DEF Activation

\* Tokens and nodes are never taken back.
LEMMA StackedLater ==
  ASSUME NEW st, NEW end, NEW s \in BOOLEAN, NEW p \in Nat, NEW n \in Nat, Stacked(st, end, s, p, n),
         NEW q \in Nat, p <= q, NEW m \in Nat, n <= m
  PROVE  Stacked(st, end, s, q, m)
<1>1. ASSUME NEW i \in DOMAIN st
      PROVE  Sound(st[i], end[i], s /\ i = Len(st), q, m)
  <2>. DEFINE b == s /\ i = Len(st)
  <2>1. b \in BOOLEAN /\ (b => b)
    OBVIOUS
  <2>2. Sound(st[i], end[i], b, p, n)
    BY DEF Stacked
  <2>. HIDE DEF b
  <2>3. Sound(st[i], end[i], b, q, m)
    BY <2>1, <2>2, SoundLater
  <2>. QED  BY <2>3 DEF b
<1>. QED  BY <1>1 DEF Stacked

\* parseModule calls parseExpr.
LEMMA StatementWorks ==
  ASSUME NEW kinds, NEW params, NEW p, NEW n, NEW end, AtWork(<<>>, end, kinds, params, p, n)
  PROVE  Works(<<ExprFrame(0)>>, kinds, params, p, n)
<1>1. p \in Nat /\ n \in Nat /\ Stacked(<<>>, end, TRUE, p, n)
      /\ StorageMatches(<<>>, end, kinds) /\ TemplatesMatch(<<>>, end, params)
  BY DEF AtWork
<1>. DEFINE x == ExprFrame(0)
<1>2. x \in Activation /\ x.fn = "parseExpr" /\ x.left = None
  BY DEF Activation, ExprActivation, ExprFrame
<1>. HIDE DEF x
<1>3. Sound(x, "none", TRUE, p, n)
  BY <1>2 DEF Sound
<1>4. PICK b \in BOOLEAN : b = TRUE
  OBVIOUS
<1>5. Called(<<>>, end, b, p, n, x, "none")
  BY <1>1, <1>2, <1>3, <1>4 DEF Called, Endings
<1>6. ~InStorage(x, "none") /\ ~InTemplate(x, "none")
  BY DEF InStorage, InTemplate
<1>7. Works(Append(<<>>, x), kinds, params, p, n)
  BY <1>1, <1>5, <1>6, CalledWorks
<1>8. Append(<<>>, x) = <<x>>
  OBVIOUS
<1>. QED  BY <1>7, <1>8 DEF x

\* A new parselet.
Started(op, at, todo, operands) ==
  [fn |-> "parselet", op |-> op, at |-> at, todo |-> todo, kids |-> operands,
   generic |-> FALSE, parameters |-> None]

\* What it may start with.
Starts(op, p, todo, kids, e, n) ==
  /\ op \in Operator /\ p \in Nat /\ p >= 1 /\ n \in Nat /\ Follows(op, todo, e)
  /\ kids \in Seq(Nat) /\ \A k \in DOMAIN kids : kids[k] \in 1 .. n
  /\ HasOperand(op, kids, e) /\ (op = "=" => kids # <<>>)

\* A parselet that starts is sound.
LEMMA StartedSound ==
  ASSUME NEW op, NEW p, NEW todo, NEW kids, NEW e, NEW n, Starts(op, p, todo, kids, e, n)
  PROVE  /\ Started(op, p, todo, kids) \in Activation /\ Started(op, p, todo, kids).fn = "parselet"
         /\ e \in Endings /\ Sound(Started(op, p, todo, kids), e, TRUE, p + 1, n)
<1>. DEFINE x == Started(op, p, todo, kids)
<1>0. /\ op \in Operator /\ p \in Nat /\ p >= 1 /\ n \in Nat /\ Follows(op, todo, e)
      /\ kids \in Seq(Nat) /\ \A k \in DOMAIN kids : kids[k] \in 1 .. n
      /\ HasOperand(op, kids, e) /\ (op = "=" => kids # <<>>)
  BY DEF Starts
<1>1. todo \in Seq(ParseletItem) /\ e \in Endings
  BY <1>0, FollowsType
<1>2. /\ x \in ParseletActivation /\ x.fn = "parselet" /\ x.op = op /\ x.at = p /\ x.todo = todo
      /\ x.kids = kids /\ x.parameters = None
  BY <1>0, <1>1 DEF Started, ParseletActivation
<1>. HIDE DEF x
<1>3. p \in 1 .. (p + 1) - 1
  BY <1>0
<1>4. x.fn # "parseExpr"
  BY <1>2
<1>5. Sound(x, e, TRUE, p + 1, n)
  BY <1>0, <1>2, <1>3, <1>4 DEF Sound
<1>. QED  BY <1>1, <1>2, <1>5 DEF x, Activation

\* A generic parselet is called.
LEMMA PrefixWorks ==
  ASSUME NEW st, NEW end, NEW kinds, NEW params, NEW p, NEW n,
         AtWork(st, end, kinds, params, p, n), ExprOnTop(st), p >= 1,
         NEW kind, Prefix(kind) # <<None>>
  PROVE  /\ Works(Append(st, Started(kind, p, Prefix(kind), <<>>)), kinds, params, p + 1, n)
         /\ kind \in TokenKind
<1>1. PICK e \in {"none", "function", "class", "template", "parenthesis"} :
        Follows(kind, Prefix(kind), e) /\ HasOperand(kind, <<>>, e)
  BY PrefixFollows
<1>2. kind \in TokenKind /\ kind # "=" /\ kind \in Operator
  BY PrefixFollows DEF Operator
<1>3. /\ p \in Nat /\ n \in Nat /\ p + 1 \in Nat /\ p <= p + 1 /\ n <= n
      /\ Stacked(st, end, TRUE, p, n) /\ StorageMatches(st, end, kinds) /\ TemplatesMatch(st, end, params)
  <2>1. /\ p \in Nat /\ n \in Nat
        /\ Stacked(st, end, TRUE, p, n) /\ StorageMatches(st, end, kinds) /\ TemplatesMatch(st, end, params)
    BY DEF AtWork
  <2>2. \A i \in Nat : i + 1 \in Nat /\ i <= i + 1 /\ i <= i
    OBVIOUS
  <2>. QED  BY <2>1, <2>2
<1>4. PICK b \in BOOLEAN : b = TRUE
  OBVIOUS
<1>. DEFINE x == Started(kind, p, Prefix(kind), <<>>)
            r == p + 1
<1>5. /\ x \in Activation /\ x.fn = "parselet" /\ e \in Endings
      /\ Sound(x, e, TRUE, r, n)
  <2>. DEFINE kids == <<>>
  <2>1. kids \in Seq(Nat) /\ \A k \in DOMAIN kids : kids[k] \in 1 .. n
    OBVIOUS
  <2>. HIDE DEF kids
  <2>2. HasOperand(kind, kids, e)
    BY <1>1 DEF kids
  <2>3. /\ Started(kind, p, Prefix(kind), kids) \in Activation /\ Started(kind, p, Prefix(kind), kids).fn = "parselet"
        /\ e \in Endings /\ Sound(Started(kind, p, Prefix(kind), kids), e, TRUE, p + 1, n)
    <3>1. Starts(kind, p, Prefix(kind), kids, e, n)
      BY <1>1, <1>2, <1>3, <2>1, <2>2 DEF Starts
    <3>. QED  BY <3>1, StartedSound
  <2>. QED  BY <2>3 DEF kids
<1>6. Stacked(st, end, b, r, n)
  <2>1. Stacked(st, end, b, p, n)
    BY <1>3, <1>4
  <2>. QED  BY <1>3, <2>1, StackedLater
<1>. HIDE DEF x
<1>7. ~InStorage(x, e) /\ ~InTemplate(x, e)
  BY <1>1 DEF InStorage, InTemplate
<1>8. Called(st, end, b, r, n, x, e)
  <2>1. st # <<>> /\ x.fn # st[Len(st)].fn
    BY <1>5 DEF ExprOnTop
  <2>. QED  BY <1>3, <1>5, <1>6, <2>1 DEF Called
<1>9. Works(Append(st, x), kinds, params, r, n)
  BY <1>3, <1>7, <1>8, CalledWorks
<1>. QED  BY <1>2, <1>9 DEF x

\* An infix parselet is called with what has been parsed.
LEMMA InfixWorks ==
  ASSUME NEW st, NEW end, NEW kinds, NEW params, NEW p, NEW n,
         AtWork(st, end, kinds, params, p, n), ExprOnTop(st), p >= 1,
         NEW t, t = st[Len(st)], t.left # None,
         NEW kind, Infix(kind) # <<None>>, NEW op, op = IF kind = "(" THEN "call" ELSE kind,
         NEW a, a = [t EXCEPT !.left = None]
  PROVE  /\ a \in Activation
         /\ Works(Append(SetLast(st, a), Started(op, p, Infix(kind), <<t.left>>)), kinds, params, p + 1, n)
<1>1. op \notin {"class", "("} /\ op \in Operator /\ Follows(op, Infix(kind), "none")
  BY InfixFollows
<1>2. /\ p \in Nat /\ n \in Nat /\ p + 1 \in Nat /\ p <= p + 1 /\ n <= n /\ p <= p
      /\ Stacked(st, end, TRUE, p, n) /\ StorageMatches(st, end, kinds) /\ TemplatesMatch(st, end, params)
  <2>1. /\ p \in Nat /\ n \in Nat
        /\ Stacked(st, end, TRUE, p, n) /\ StorageMatches(st, end, kinds) /\ TemplatesMatch(st, end, params)
    BY DEF AtWork
  <2>2. \A i \in Nat : i + 1 \in Nat /\ i <= i + 1 /\ i <= i
    OBVIOUS
  <2>. QED  BY <2>1, <2>2
<1>3. PICK b \in BOOLEAN : b = TRUE
  OBVIOUS
<1>4. t \in ExprActivation /\ t.left \in 1 .. n
  BY ExprTop
<1>5. a \in ExprActivation /\ a.fn = "parseExpr" /\ a.left = None
  BY <1>4 DEF ExprActivation
<1>6. st # <<>> /\ t.fn = "parseExpr"
  BY DEF ExprOnTop
<1>7. PICK e : e = "none"
  OBVIOUS
<1>8. e \in Endings /\ a \in Activation /\ a.fn = st[Len(st)].fn
  BY <1>5, <1>6, <1>7 DEF Endings, Activation
<1>9. Sound(a, e, b, p, n)
  BY <1>5 DEF Sound
<1>. DEFINE st2  == SetLast(st, a)
            end2 == SetLast(end, e)
            x    == Started(op, p, Infix(kind), <<t.left>>)
            r    == p + 1
<1>10. Stacked(st2, end2, b, p, n) /\ st2 # <<>> /\ Len(st2) = Len(st) /\ st2[Len(st)] = a
  <2>1. Stacked(st, end, b, p, n)
    BY <1>2, <1>3
  <2>2. Replaces(st, end, b, p, n, a, e, b, p, n)
    BY <1>2, <1>6, <1>8, <1>9, <2>1 DEF Replaces
  <2>. QED  BY <2>2, ReplaceTop
<1>11. Becomes(st, end, a, e)
  BY <1>2, <1>6, <1>8 DEF Becomes
<1>12. /\ InStorage(a, e) <=> InStorage(st[Len(st)], end[Len(st)])
       /\ InTemplate(a, e) <=> InTemplate(st[Len(st)], end[Len(st)])
  BY <1>5, <1>6 DEF InStorage, InTemplate
<1>13. StorageMatches(st2, end2, kinds)
  BY <1>2, <1>11, <1>12, TopKeepsStorage
<1>14. TemplatesMatch(st2, end2, params)
  <2>1. ~InTemplate(a, e) /\ ~InTemplate(st[Len(st)], end[Len(st)])
    BY <1>5, <1>6 DEF InTemplate
  <2>2. Marks(st, end, a, e, st2, end2)
    BY <1>11, TopMarks
  <2>. HIDE DEF st2, end2
  <2>3. Templates(st2, end2) = Templates(st, end) /\ \A i \in Templates(st, end) : st2[i].at = st[i].at
    BY <2>1, <2>2 DEF Marks
  <2>. QED  BY <1>2, <2>3, TemplatesKept
<1>15. x \in Activation /\ x.fn = "parselet" /\ Sound(x, e, TRUE, r, n)
  <2>. DEFINE kids == <<t.left>>
  <2>1. kids \in Seq(Nat) /\ (\A k \in DOMAIN kids : kids[k] \in 1 .. n) /\ kids # <<>>
    BY <1>2, <1>4
  <2>. HIDE DEF kids
  <2>2. HasOperand(op, kids, e)
    BY <2>1 DEF HasOperand
  <2>3. Follows(op, Infix(kind), e)
    BY <1>1, <1>7
  <2>4. /\ Started(op, p, Infix(kind), kids) \in Activation /\ Started(op, p, Infix(kind), kids).fn = "parselet"
        /\ e \in Endings /\ Sound(Started(op, p, Infix(kind), kids), e, TRUE, p + 1, n)
    <3>1. Starts(op, p, Infix(kind), kids, e, n)
      BY <1>1, <1>2, <2>1, <2>2, <2>3 DEF Starts
    <3>. QED  BY <3>1, StartedSound
  <2>. QED  BY <2>4 DEF kids
<1>16. Stacked(st2, end2, b, r, n)
  BY <1>2, <1>10, StackedLater
<1>. HIDE DEF st2, end2, x, r
<1>17. Called(st2, end2, b, r, n, x, e)
  <2>1. x.fn # st2[Len(st2)].fn /\ r \in Nat
    BY <1>2, <1>5, <1>10, <1>15 DEF r
  <2>. QED  BY <1>2, <1>8, <1>10, <1>15, <1>16, <2>1 DEF Called
<1>18. ~InStorage(x, e) /\ ~InTemplate(x, e)
  BY <1>7 DEF InStorage, InTemplate
<1>19. Works(Append(st2, x), kinds, params, r, n)
  BY <1>13, <1>14, <1>17, <1>18, CalledWorks
<1>. QED  BY <1>8, <1>19 DEF st2, x, r

\* A sequence whose elements are all in T.
LEMMA Narrowed ==
  ASSUME NEW S, NEW T, NEW s \in Seq(S), \A i \in DOMAIN s : s[i] \in T
  PROVE  s \in Seq(T)
<1>1. Len(s) \in Nat /\ DOMAIN s = 1 .. Len(s) /\ s = [i \in 1 .. Len(s) |-> s[i]]
  BY LenProperties
<1>2. s \in [1 .. Len(s) -> T]
  BY <1>1
<1>. QED  BY <1>1, <1>2, SeqDef

\* The elements of a sequence, with one more.
LEMMA Elements ==
  ASSUME NEW T, NEW s \in Seq(T), NEW x \in T
  PROVE  Append(s, x) \in Seq(T) /\ \A i \in DOMAIN Append(s, x) : Append(s, x)[i] \in T
  OBVIOUS

\* The activation on top is at its end.
AtEnd(st, end, kinds, params, p, n) ==
  /\ AtWork(st, end, kinds, params, p, n) /\ st # <<>>
  /\ ~InStorage(st[Len(st)], end[Len(st)]) /\ ~InTemplate(st[Len(st)], end[Len(st)])

\* The stack without the activation on top, whose caller waits for its operand.
Waiting(st, end, s, kinds, params, p, n) ==
  /\ p \in Nat /\ n \in Nat /\ s \in BOOLEAN /\ ~s
  /\ Stacked(st, end, s, p, n) /\ StorageMatches(st, end, kinds) /\ TemplatesMatch(st, end, params)

\* The activation on top goes, and leaves the storage kinds and the templates as they are.
LEMMA TopGone ==
  ASSUME NEW st, NEW end, NEW kinds, NEW params, NEW p, NEW n, AtEnd(st, end, kinds, params, p, n)
  PROVE  /\ \E s \in BOOLEAN : Waiting(Front(st), Front(end), s, kinds, params, p, n)
         /\ Popped(st, end, Front(st), Front(end)) /\ Len(st) \in Nat \ {0}
<1>1. /\ p \in Nat /\ n \in Nat /\ Stacked(st, end, TRUE, p, n) /\ st # <<>>
      /\ StorageMatches(st, end, kinds) /\ TemplatesMatch(st, end, params)
      /\ ~InStorage(st[Len(st)], end[Len(st)]) /\ ~InTemplate(st[Len(st)], end[Len(st)])
  BY DEF AtEnd, AtWork
<1>2. PICK b \in BOOLEAN : b = TRUE
  OBVIOUS
<1>3. PICK s \in BOOLEAN : s = FALSE
  OBVIOUS
<1>. DEFINE st2  == Front(st)
            end2 == Front(end)
<1>4. Stacked(st2, end2, s, p, n) /\ Popped(st, end, st2, end2)
  <2>1. Stacked(st, end, b, p, n)
    BY <1>1, <1>2
  <2>2. Stacked(Front(st), Front(end), FALSE, p, n) /\ Popped(st, end, Front(st), Front(end))
    BY <1>1, <2>1, PopTop
  <2>. QED  BY <1>3, <2>2
<1>5. /\ Len(st) \in Nat \ {0} /\ DOMAIN st = 1 .. Len(st)
  BY <1>1, StackedSize
<1>. HIDE DEF st2, end2
<1>6. /\ DOMAIN st2 = 1 .. Len(st) - 1
      /\ \A i \in 1 .. Len(st) - 1 : st2[i] = st[i] /\ end2[i] = end[i]
  BY <1>4 DEF Popped
<1>7. \A i : i \in 1 .. Len(st) <=> i \in 1 .. Len(st) - 1 \/ i = Len(st)
  <2>1. \A l \in Nat \ {0} : \A i : i \in 1 .. l <=> i \in 1 .. l - 1 \/ i = l
    OBVIOUS
  <2>. QED  BY <1>5, <2>1
<1>8. Storages(st2, end2) = Storages(st, end)
  BY <1>1, <1>5, <1>6, <1>7 DEF Storages
<1>9. Templates(st2, end2) = Templates(st, end)
  BY <1>1, <1>5, <1>6, <1>7 DEF Templates
<1>10. \A i \in Templates(st, end) : st2[i].at = st[i].at
  <2>1. \A i \in Templates(st2, end2) : i \in 1 .. Len(st) - 1
    BY <1>6 DEF Templates
  <2>. QED  BY <1>6, <1>9, <2>1
<1>11. StorageMatches(st2, end2, kinds) /\ TemplatesMatch(st2, end2, params)
  BY <1>1, <1>8, <1>9, <1>10, StorageKept, TemplatesKept
<1>12. Waiting(st2, end2, s, kinds, params, p, n)
  BY <1>1, <1>3, <1>4, <1>11 DEF Waiting
<1>. QED  BY <1>4, <1>5, <1>12 DEF st2, end2

\* The activation c, with the operand that it has waited for.
Answers(c, e, a, p, n, m) ==
  /\ m \in Nat /\ n <= m /\ a \in Activation /\ a.fn = c.fn /\ Sound(a, e, TRUE, p, m)
  /\ a.fn = "parselet" => a.op = c.op /\ a.generic = c.generic /\ a.at = c.at

\* The activation on top of a stack that waits gets what it needs.
LEMMA AnswerWorks ==
  ASSUME NEW st, NEW end, NEW s, NEW kinds, NEW params, NEW p, NEW n,
         Waiting(st, end, s, kinds, params, p, n), st # <<>>,
         NEW c, c = st[Len(st)], NEW e, e = end[Len(st)], NEW m, NEW a, Answers(c, e, a, p, n, m)
  PROVE  Works(SetLast(st, a), kinds, params, p, m)
<1>. /\ m \in Nat /\ n <= m /\ a \in Activation /\ a.fn = c.fn /\ Sound(a, e, TRUE, p, m)
     /\ a.fn = "parselet" => a.op = c.op /\ a.generic = c.generic /\ a.at = c.at
  BY DEF Answers
<1>1. /\ p \in Nat /\ n \in Nat /\ s \in BOOLEAN /\ Stacked(st, end, s, p, n)
      /\ StorageMatches(st, end, kinds) /\ TemplatesMatch(st, end, params)
  BY DEF Waiting
<1>2. e \in Endings
  BY <1>1, StackedSize
<1>3. PICK b \in BOOLEAN : b = TRUE
  OBVIOUS
<1>4. p <= p
  BY <1>1
<1>5. Replaces(st, end, s, p, n, a, e, b, p, m)
  BY <1>1, <1>2, <1>3, <1>4 DEF Replaces
<1>6. Stacked(SetLast(st, a), SetLast(end, e), b, p, m)
  BY <1>5, ReplaceTop
<1>7. Becomes(st, end, a, e)
  BY <1>1, <1>2 DEF Becomes
<1>8. /\ InStorage(a, e) <=> InStorage(c, e)
      /\ InTemplate(a, e) <=> InTemplate(c, e)
      /\ InTemplate(a, e) => a.at = c.at
  BY DEF InStorage, InTemplate
<1>9. StorageMatches(SetLast(st, a), SetLast(end, e), kinds)
  BY <1>1, <1>7, <1>8, TopKeepsStorage
<1>10. TemplatesMatch(SetLast(st, a), SetLast(end, e), params)
  BY <1>1, <1>7, <1>8, TopKeepsTemplates
<1>. QED  BY <1>3, <1>6, <1>9, <1>10 DEF Works

\* parseExpr returns k, to parseModule or to the parselet c, which it becomes an operand of.
LEMMA ReturnWorks ==
  ASSUME NEW st, NEW end, NEW kinds, NEW params, NEW p, NEW n,
         AtWork(st, end, kinds, params, p, n), ExprOnTop(st),
         NEW k, k = st[Len(st)].left, k # None,
         NEW c, c = Front(st)[Len(Front(st))], NEW a, a = [c EXCEPT !.kids = Append(@, k)]
  PROVE  /\ Front(st) = <<>> => Works(<<>>, kinds, params, p, n)
         /\ Front(st) # <<>> => a \in Activation /\ Works(SetLast(Front(st), a), kinds, params, p, n)
         /\ k \in 1 .. n
<1>1. /\ p \in Nat /\ n \in Nat /\ Stacked(st, end, TRUE, p, n) /\ st # <<>>
      /\ st[Len(st)].fn = "parseExpr"
  BY DEF AtWork, ExprOnTop
<1>2. AtEnd(st, end, kinds, params, p, n)
  <2>1. ~InStorage(st[Len(st)], end[Len(st)]) /\ ~InTemplate(st[Len(st)], end[Len(st)])
    BY <1>1 DEF InStorage, InTemplate
  <2>. QED  BY <1>1, <2>1 DEF AtEnd
<1>3. k \in 1 .. n
  <2>1. st[Len(st)].left \in {None} \union 1 .. n
    BY ExprTop
  <2>. QED  BY <2>1
<1>. DEFINE rest  == Front(st)
            rends == Front(end)
            l     == Len(rest)
            e     == rends[l]
<1>4. PICK s \in BOOLEAN : Waiting(rest, rends, s, kinds, params, p, n)
  BY <1>2, TopGone
<1>5. Popped(st, end, rest, rends) /\ Len(st) \in Nat \ {0}
  BY <1>2, TopGone
<1>. HIDE DEF rest, rends
<1>6. Stacked(rest, rends, s, p, n) /\ ~s
  BY <1>4 DEF Waiting
<1>7. ASSUME rest = <<>>
      PROVE  Works(<<>>, kinds, params, p, n)
  <2>1. Stacked(rest, rends, TRUE, p, n)
    BY <1>6, <1>7 DEF Stacked
  <2>. QED  BY <1>4, <1>7, <2>1 DEF Works, Waiting
<1>8. ASSUME rest # <<>>
      PROVE  a \in Activation /\ Works(SetLast(rest, a), kinds, params, p, n)
  <2>1. /\ l \in 1 .. l /\ l \in Nat \ {0} /\ rest[l] \in Activation /\ e \in Endings
        /\ Sound(rest[l], e, s /\ l = Len(rest), p, n)
    BY <1>6, <1>8, StackedSize
  <2>2. c \in Activation /\ c = rest[l]
    BY <2>1 DEF rest
  <2>3. Sound(c, e, FALSE, p, n)
    <3>. DEFINE x == s /\ l = Len(rest)
    <3>1. x = FALSE
      BY <1>6
    <3>2. Sound(rest[l], e, x, p, n)
      BY <2>1
    <3>. HIDE DEF x
    <3>. QED  BY <2>2, <3>1, <3>2
  <2>4. c.fn = "parselet"
    <3>1. l = Len(st) - 1 /\ l \in 1 .. Len(st) - 1 /\ l + 1 = Len(st)
      BY <1>5, <2>1 DEF Popped
    <3>2. rest[l] = st[l]
      BY <1>5, <3>1 DEF Popped
    <3>3. st[l].fn # st[l + 1].fn
      BY <1>1, <3>1 DEF Stacked
    <3>4. c.fn # "parseExpr"
      BY <1>1, <2>2, <3>1, <3>2, <3>3
    <3>. QED  BY <2>2, <3>4 DEF Activation, ExprActivation, ParseletActivation
  <2>5. c \in ParseletActivation
    BY <2>2, <2>4 DEF Activation, ExprActivation
  <2>6. /\ c.at \in 1 .. p - 1 /\ \A i \in DOMAIN c.kids : c.kids[i] \in 1 .. n
        /\ c.parameters \in {None, c.at} /\ Follows(c.op, c.todo, e)
    BY <2>3, <2>4 DEF Sound
  <2>. DEFINE kids == Append(c.kids, k)
  <2>7. kids \in Seq(Nat) /\ kids # <<>> /\ \A i \in DOMAIN kids : kids[i] \in 1 .. n
    <3>1. c.kids \in Seq(Nat) /\ k \in Nat
      BY <1>1, <1>3, <2>5 DEF ParseletActivation
    <3>2. c.kids \in Seq(1 .. n)
      BY <2>6, <3>1, Narrowed
    <3>4. kids \in Seq(Nat) /\ Len(kids) = Len(c.kids) + 1
      BY <3>1, AppendProperties
    <3>5. kids # <<>>
      <4>1. Len(c.kids) \in Nat
        BY <3>1, LenProperties
      <4>. HIDE DEF kids
      <4>2. Len(kids) # 0
        BY <3>4, <4>1
      <4>. QED  BY <3>4, <4>2, EmptySeq
    <3>6. \A i \in DOMAIN kids : kids[i] \in 1 .. n
      <4>. DEFINE M == 1 .. n
      <4>1. c.kids \in Seq(M) /\ k \in M
        BY <1>3, <3>2
      <4>. HIDE DEF M
      <4>2. \A i \in DOMAIN kids : kids[i] \in M
        BY <4>1, Elements
      <4>. QED  BY <4>2 DEF M
    <3>. QED  BY <3>4, <3>5, <3>6
  <2>. HIDE DEF kids
  <2>8. /\ a \in ParseletActivation /\ a.fn = "parselet" /\ a.op = c.op /\ a.at = c.at /\ a.todo = c.todo
        /\ a.kids = kids /\ a.generic = c.generic /\ a.parameters = c.parameters
    <3>1. a = [c EXCEPT !.kids = kids]
      BY DEF kids
    <3>. QED  BY <2>5, <2>7, <3>1 DEF ParseletActivation
  <2>9. Sound(a, e, TRUE, p, n)
    <3>1. HasOperand(a.op, a.kids, e)
      BY <2>7, <2>8 DEF HasOperand
    <3>. QED  BY <2>6, <2>7, <2>8, <3>1 DEF Sound
  <2>10. n <= n /\ a \in Activation
    BY <1>1, <2>8 DEF Activation
  <2>11. Answers(c, e, a, p, n, n)
    BY <1>1, <2>4, <2>8, <2>9, <2>10 DEF Answers
  <2>12. Works(SetLast(rest, a), kinds, params, p, n)
    BY <1>4, <1>8, <2>2, <2>11, AnswerWorks
  <2>. QED  BY <2>10, <2>12
<1>. QED  BY <1>3, <1>7, <1>8 DEF rest

\* A parselet that has nothing left to do has the operands that its node needs.
LEMMA Operands ==
  ASSUME NEW st, NEW end, NEW kinds, NEW params, NEW p, NEW n,
         AtWork(st, end, kinds, params, p, n), ParseletOnTop(st),
         NEW t, t = st[Len(st)], t.todo = <<>>
  PROVE  /\ t \in ParseletActivation /\ t.kids \in Seq(1 .. n) /\ t.at \in 1 .. p - 1
         /\ t.parameters \in {None, t.at}
         /\ t.op \in {"class", "(", "="} => t.kids # <<>> /\ t.kids[1] \in 1 .. n
         /\ AtEnd(st, end, kinds, params, p, n)
<1>1. PICK e : e = end[Len(st)]
  OBVIOUS
<1>2. /\ t \in ParseletActivation /\ Sound(t, e, TRUE, p, n) /\ Follows(t.op, t.todo, e)
      /\ HasOperand(t.op, t.kids, e)
  BY <1>1, ParseletTop
<1>3. t.fn = "parselet" /\ st # <<>>
  BY DEF ParseletOnTop
<1>4. /\ t.at \in 1 .. p - 1 /\ \A i \in DOMAIN t.kids : t.kids[i] \in 1 .. n
      /\ t.parameters \in {None, t.at} /\ (t.op = "=" => t.kids # <<>>)
  BY <1>2, <1>3 DEF Sound
<1>5. e = "none"
  <2>1. Follows(t.op, <<>>, e)
    BY <1>2
  <2>. QED  BY <2>1, NothingLeft
<1>6. t.op \in {"class", "(", "="} => t.kids # <<>>
  BY <1>2, <1>4, <1>5 DEF HasOperand
<1>7. t.kids \in Seq(Nat)
  BY <1>2 DEF ParseletActivation
<1>8. t.kids # <<>> => 1 \in DOMAIN t.kids
  BY <1>7, LenProperties, EmptySeq
<1>9. t.kids \in Seq(1 .. n)
  BY <1>4, <1>7, Narrowed
<1>10. ~InStorage(t, e) /\ ~InTemplate(t, e)
  BY <1>5 DEF InStorage, InTemplate
<1>11. AtEnd(st, end, kinds, params, p, n)
  BY <1>1, <1>3, <1>10 DEF AtEnd
<1>. QED  BY <1>2, <1>4, <1>6, <1>8, <1>9, <1>11

\* A parselet returns the node k to parseExpr.
LEMMA DeliverWorks ==
  ASSUME NEW st, NEW end, NEW kinds, NEW params, NEW p, NEW n,
         AtEnd(st, end, kinds, params, p, n), ParseletOnTop(st),
         NEW m \in Nat, n <= m, NEW k \in 1 .. m,
         NEW c, c = Front(st)[Len(Front(st))], NEW a, a = [c EXCEPT !.left = k]
  PROVE  Front(st) # <<>> /\ a \in Activation /\ Works(SetLast(Front(st), a), kinds, params, p, m)
<1>1. /\ p \in Nat /\ n \in Nat /\ Stacked(st, end, TRUE, p, n) /\ st # <<>>
      /\ st[Len(st)].fn = "parselet"
  BY DEF AtEnd, AtWork, ParseletOnTop
<1>. DEFINE rest  == Front(st)
            rends == Front(end)
            l     == Len(rest)
            e     == rends[l]
<1>2. PICK s \in BOOLEAN : Waiting(rest, rends, s, kinds, params, p, n)
  BY TopGone
<1>3. Popped(st, end, rest, rends) /\ Len(st) \in Nat \ {0}
  BY TopGone
<1>. HIDE DEF rest, rends
<1>4. Stacked(rest, rends, s, p, n)
  BY <1>2 DEF Waiting
<1>5. rest # <<>>
  <2>1. SUFFICES ASSUME rest = <<>>
                 PROVE  FALSE
    OBVIOUS
  <2>2. Len(st) = 1
    <3>1. Len(rest) = 0
      BY <2>1
    <3>. QED  BY <1>3, <3>1 DEF Popped
  <2>. QED  BY <1>1, <2>2 DEF Stacked
<1>6. l \in 1 .. l /\ l \in Nat \ {0} /\ rest[l] \in Activation
  BY <1>4, <1>5, StackedSize
<1>7. c \in Activation /\ c = rest[l]
  BY <1>6 DEF rest
<1>8. c.fn = "parseExpr"
  <2>1. l = Len(st) - 1 /\ l \in 1 .. Len(st) - 1 /\ l + 1 = Len(st)
    BY <1>3, <1>6 DEF Popped
  <2>2. rest[l] = st[l]
    BY <1>3, <2>1 DEF Popped
  <2>3. st[l].fn # st[l + 1].fn
    BY <1>1, <2>1 DEF Stacked
  <2>4. c.fn # "parselet"
    BY <1>1, <1>7, <2>1, <2>2, <2>3
  <2>. QED  BY <1>7, <2>4 DEF Activation, ExprActivation, ParseletActivation
<1>9. c \in ExprActivation
  BY <1>7, <1>8 DEF Activation, ParseletActivation
<1>10. a \in ExprActivation /\ a.fn = "parseExpr" /\ a.left = k /\ a \in Activation
  BY <1>9 DEF ExprActivation, Activation
<1>11. Sound(a, e, TRUE, p, m)
  BY <1>10 DEF Sound
<1>12. Answers(c, e, a, p, n, m)
  BY <1>8, <1>10, <1>11 DEF Answers
<1>13. Works(SetLast(rest, a), kinds, params, p, m)
  BY <1>2, <1>5, <1>7, <1>12, AnswerWorks
<1>. QED  BY <1>5, <1>10, <1>13 DEF rest

-----------------------------------------------------------------------------
(***************************************************************************)
(* The nodes.                                                              *)
(***************************************************************************)

\* A node that may stand behind n others.
FitNode(x, n) ==
  /\ x \in NodeType /\ x.kids \in Seq(1 .. n)
  /\ x.op = "class" => x.parameters \in {None, x.at}

\* A node is made.
LEMMA NodeMade ==
  ASSUME NEW h, Grown(h), NEW x, FitNode(x, Len(h))
  PROVE  Grown(Append(h, x)) /\ Len(Append(h, x)) = Len(h) + 1 /\ Len(h) \in Nat
<1>. DEFINE g == Append(h, x)
<1>1. h \in Seq(NodeType) /\ x \in NodeType
  BY DEF Grown, FitNode
<1>2. /\ g \in Seq(NodeType) /\ Len(g) = Len(h) + 1 /\ Len(h) \in Nat
      /\ DOMAIN g = 1 .. Len(h) + 1 /\ DOMAIN h = 1 .. Len(h)
      /\ \A i \in 1 .. Len(h) : g[i] = h[i]
      /\ g[Len(h) + 1] = x
  BY <1>1, AppendProperties, LenProperties
<1>. HIDE DEF g
<1>3. ASSUME NEW i \in DOMAIN g
      PROVE  /\ \A k \in DOMAIN g[i].kids : g[i].kids[k] \in 1 .. i - 1
             /\ g[i].op = "class" => g[i].parameters \in {None, g[i].at}
  <2>1. CASE i \in 1 .. Len(h)
    <3>1. g[i] = h[i] /\ i \in DOMAIN h
      BY <1>2, <2>1
    <3>. QED  BY <3>1 DEF Grown
  <2>2. CASE i \notin 1 .. Len(h)
    <3>1. i = Len(h) + 1 /\ i - 1 = Len(h) /\ g[i] = x
      BY <1>2, <2>2
    <3>. DEFINE S == 1 .. Len(h)
    <3>2. x.kids \in Seq(S)
      BY DEF FitNode
    <3>. HIDE DEF S
    <3>3. \A k \in DOMAIN x.kids : x.kids[k] \in S
      BY <3>2
    <3>. QED  BY <3>1, <3>3 DEF FitNode, S
  <2>. QED  BY <2>1, <2>2
<1>4. Grown(g)
  BY <1>2, <1>3 DEF Grown
<1>. QED  BY <1>2, <1>4 DEF g

\* A node gets another mark.
LEMMA NodeMarked ==
  ASSUME NEW h, Grown(h), NEW i \in 1 .. Len(h), NEW x \in NodeType,
         x.op = h[i].op /\ x.at = h[i].at /\ x.kids = h[i].kids /\ x.parameters = h[i].parameters
  PROVE  Grown([h EXCEPT ![i] = x]) /\ Len([h EXCEPT ![i] = x]) = Len(h) /\ Len(h) \in Nat
<1>. DEFINE g == [h EXCEPT ![i] = x]
<1>1. h \in Seq(NodeType)
  BY DEF Grown
<1>2. /\ g \in Seq(NodeType) /\ Len(g) = Len(h) /\ Len(h) \in Nat /\ DOMAIN g = DOMAIN h
      /\ \A j \in DOMAIN h : g[j] = IF j = i THEN x ELSE h[j]
  BY <1>1, ExceptSeq, LenProperties
<1>. HIDE DEF g
<1>3. ASSUME NEW j \in DOMAIN g
      PROVE  /\ \A k \in DOMAIN g[j].kids : g[j].kids[k] \in 1 .. j - 1
             /\ g[j].op = "class" => g[j].parameters \in {None, g[j].at}
  <2>1. /\ \A k \in DOMAIN h[j].kids : h[j].kids[k] \in 1 .. j - 1
        /\ h[j].op = "class" => h[j].parameters \in {None, h[j].at}
    BY <1>2 DEF Grown
  <2>2. g[j].op = h[j].op /\ g[j].at = h[j].at /\ g[j].kids = h[j].kids /\ g[j].parameters = h[j].parameters
    BY <1>2
  <2>. QED  BY <2>1, <2>2
<1>4. Grown(g)
  BY <1>2, <1>3 DEF Grown
<1>. QED  BY <1>2, <1>4 DEF g

\* The type of a node of the heap.
LEMMA NodeOfHeap ==
  ASSUME NEW h, Grown(h), NEW i \in 1 .. Len(h)
  PROVE  h[i] \in NodeType
  BY DEF Grown

\* A new node.
LEMMA NewNodeType ==
  ASSUME NEW op \in Operator, NEW at \in Nat, NEW n \in Nat, NEW kids \in Seq(1 .. n)
  PROVE  /\ NewNode(op, at, kids) \in NodeType
         /\ NewNode(op, at, kids).op = op /\ NewNode(op, at, kids).at = at /\ NewNode(op, at, kids).kids = kids
         /\ NewNode(op, at, kids).parameters = None
         /\ FitNode(NewNode(op, at, kids), n)
<1>1. kids \in Seq(Nat)
  <2>1. 1 .. n \subseteq Nat
    OBVIOUS
  <2>. DEFINE S == 1 .. n
  <2>2. kids \in Seq(S) /\ S \subseteq Nat
    BY <2>1
  <2>. HIDE DEF S
  <2>. QED  BY <2>2, SeqMonotonic
<1>2. NewNode(op, at, kids) \in NodeType
  BY <1>1 DEF NewNode, NodeType
<1>3. /\ NewNode(op, at, kids).op = op /\ NewNode(op, at, kids).at = at /\ NewNode(op, at, kids).kids = kids
      /\ NewNode(op, at, kids).parameters = None
  BY DEF NewNode
<1>. QED  BY <1>2, <1>3 DEF FitNode

-----------------------------------------------------------------------------
(***************************************************************************)
(* The steps.                                                              *)
(***************************************************************************)

\* While the text is parsed.
LEMMA WhileParsing ==
  ASSUME PrattInv, outcome = "parsing"
  PROVE  /\ \E end : AtWork(stack, end, storageKinds, templateParameters, pos, Len(heap))
         /\ stack \in Seq(Activation) /\ pos \in Nat /\ pos >= 1 /\ Len(heap) \in Nat
         /\ Len(input) \in Nat /\ pos <= Len(input) + 1
<1>1. PICK end : /\ Stacked(stack, end, TRUE, pos, Len(heap))
                 /\ StorageMatches(stack, end, storageKinds)
                 /\ TemplatesMatch(stack, end, templateParameters)
  BY DEF PrattInv, Working, Works
<1>2. /\ Len(heap) \in Nat /\ Len(input) \in Nat
  BY LenProperties DEF PrattInv, Grown
<1>3. pos \in Nat /\ pos >= 1 /\ pos <= Len(input) + 1
  BY <1>2 DEF PrattInv
<1>4. stack \in Seq(Activation)
  BY <1>1 DEF Stacked
<1>5. AtWork(stack, end, storageKinds, templateParameters, pos, Len(heap))
  BY <1>1, <1>2, <1>3 DEF AtWork
<1>. QED  BY <1>2, <1>3, <1>4, <1>5

\* A step that makes no node and reports no error.
Moves ==
  /\ UNCHANGED <<input, heap, statements, errors, outcome>>
  /\ pos' \in Nat /\ pos <= pos' /\ pos' <= Len(input) + 1
  /\ storageKinds' \in Seq(Kinds) /\ templateParameters' \in Seq(1 .. pos - 1)
  /\ Works(stack', storageKinds', templateParameters', pos', Len(heap))

\* Such a step keeps the invariant.
LEMMA MovesOn ==
  ASSUME PrattInv, outcome = "parsing", Moves
  PROVE  PrattInv'
<1>1. pos \in Nat /\ pos >= 1 /\ Len(input) \in Nat
  BY WhileParsing
<1>2. /\ input' = input /\ heap' = heap /\ statements' = statements /\ errors' = errors
      /\ outcome' = outcome /\ pos' \in Nat /\ pos <= pos' /\ pos' <= Len(input) + 1
  BY DEF Moves
<1>3. pos' \in 1 .. Len(input) + 1 /\ 1 .. pos \subseteq 1 .. pos' /\ 1 .. pos - 1 \subseteq 1 .. pos' - 1
  <2>1. \A p, q, l \in Nat : p >= 1 /\ p <= q /\ q <= l + 1 =>
          q \in 1 .. l + 1 /\ 1 .. p \subseteq 1 .. q /\ 1 .. p - 1 \subseteq 1 .. q - 1
    OBVIOUS
  <2>2. pos \in Nat /\ pos >= 1 /\ pos' \in Nat /\ pos <= pos' /\ Len(input) \in Nat /\ pos' <= Len(input) + 1
    BY <1>1, <1>2
  <2>. QED  BY <2>1, <2>2
<1>4. errors' \subseteq {"SurpriseToken", "UnexpectedToken"} \X (1 .. pos')
  <2>. DEFINE P == 1 .. pos
              Q == 1 .. pos'
  <2>1. errors \subseteq {"SurpriseToken", "UnexpectedToken"} \X P /\ P \subseteq Q
    BY <1>3 DEF PrattInv
  <2>. HIDE DEF P, Q
  <2>2. errors' \subseteq {"SurpriseToken", "UnexpectedToken"} \X Q
    BY <1>2, <2>1
  <2>. QED  BY <2>2 DEF Q
<1>5. templateParameters' \in Seq(1 .. pos' - 1)
  <2>. DEFINE P == 1 .. pos - 1
              Q == 1 .. pos' - 1
  <2>1. templateParameters' \in Seq(P) /\ P \subseteq Q
    BY <1>3 DEF Moves
  <2>. HIDE DEF P, Q
  <2>2. templateParameters' \in Seq(Q)
    BY <2>1, SeqMonotonic
  <2>. QED  BY <2>2 DEF Q
<1>6. /\ Grown(heap') /\ input' \in Seq(TokenKind) /\ statements' \in Seq(1 .. Len(heap'))
      /\ outcome' \in {"parsing", "parsed", "aborted", "crashed"}
  BY <1>2 DEF PrattInv
<1>7. storageKinds' \in Seq(Kinds) /\ Works(stack', storageKinds', templateParameters', pos', Len(heap'))
  BY <1>2 DEF Moves
<1>8. pos' \in 1 .. Len(input') + 1
  BY <1>2, <1>3
<1>. QED  BY <1>4, <1>5, <1>6, <1>7, <1>8 DEF PrattInv, Working

\* Replacing the last activation is a pop and a push.
LEMMA Goes ==
  ASSUME NEW S, NEW s \in Seq(S), s # <<>>, NEW a \in S, NEW r, r = Append(Front(s), a)
  PROVE  r = SetLast(s, a)
  BY FrontAndAppend

\* Where the parselet on top stands.
LEMMA InParseletWorks ==
  ASSUME PrattInv, InParselet
  PROVE  /\ outcome = "parsing" /\ ParseletOnTop(stack) /\ Top = stack[Len(stack)] /\ stack # <<>>
         /\ \E end : /\ AtWork(stack, end, storageKinds, templateParameters, pos, Len(heap))
                     /\ Top \in ParseletActivation /\ Follows(Top.op, Top.todo, end[Len(stack)])
<1>1. /\ outcome = "parsing" /\ ParseletOnTop(stack) /\ Top = stack[Len(stack)] /\ stack # <<>>
  BY DEF InParselet, ParseletOnTop, Top, Last
<1>2. PICK end : AtWork(stack, end, storageKinds, templateParameters, pos, Len(heap))
  BY <1>1, WhileParsing
<1>3. PICK e : e = end[Len(stack)]
  OBVIOUS
<1>4. Top \in ParseletActivation /\ Follows(Top.op, Top.todo, e)
  BY <1>1, <1>2, <1>3, ParseletTop
<1>. QED  BY <1>1, <1>2, <1>3, <1>4

\* What the invariant says of the stacks of definitions.
LEMMA Definitions ==
  ASSUME PrattInv
  PROVE  storageKinds \in Seq(Kinds) /\ templateParameters \in Seq(1 .. pos - 1)
  BY DEF PrattInv

\* The parselet goes on with todo, at q.
LEMMA ContinueStep ==
  ASSUME PrattInv, InParselet,
         NEW end, AtWork(stack, end, storageKinds, templateParameters, pos, Len(heap)),
         NEW todo, NEW e, Follows(Top.op, todo, e),
         e = end[Len(stack)] \/ (end[Len(stack)] = "parenthesis end" /\ e = "none"),
         pos' \in Nat, pos <= pos', pos' <= Len(input) + 1, Continue(todo),
         UNCHANGED <<input, heap, statements, definitions, errors, outcome>>
  PROVE  PrattInv'
<1>1. outcome = "parsing" /\ ParseletOnTop(stack) /\ Top = stack[Len(stack)] /\ stack # <<>>
  BY InParseletWorks
<1>. DEFINE a == [Top EXCEPT !.todo = todo]
<1>2. a \in Activation /\ Works(SetLast(stack, a), storageKinds, templateParameters, pos', Len(heap))
  BY <1>1, WorksOn
<1>3. stack' = Append(Front(stack), a) /\ stack \in Seq(Activation)
  BY <1>1, WhileParsing DEF Continue, Callers
<1>. HIDE DEF a
<1>4. stack' = SetLast(stack, a)
  BY <1>1, <1>2, <1>3, Goes
<1>5. Moves
  BY <1>2, <1>4, Definitions DEF Moves, definitions
<1>. QED  BY <1>1, <1>5, MovesOn

\* A token that the rule asks for is consumed.
LEMMA StepConsumed ==
  ASSUME PrattInv, Consumed
  PROVE  PrattInv'
<1>1. /\ InParselet /\ Top.todo # <<>> /\ Item.do = "consume" /\ Item = Head(Top.todo)
      /\ Peek \in Item.kinds /\ pos' = pos + 1
      /\ Continue(IF Peek = "," THEN <<Rule(Item.again)>> \o Tail(Top.todo) ELSE Tail(Top.todo))
      /\ UNCHANGED <<input, heap, statements, definitions, errors, outcome>>
  BY DEF Consumed, Doing, Item
<1>2. PICK end : /\ AtWork(stack, end, storageKinds, templateParameters, pos, Len(heap))
                 /\ Top \in ParseletActivation /\ Follows(Top.op, Top.todo, end[Len(stack)])
  BY <1>1, InParseletWorks
<1>. DEFINE e    == end[Len(stack)]
            todo == IF Peek = "," THEN <<Rule(Item.again)>> \o Tail(Top.todo) ELSE Tail(Top.todo)
<1>3. /\ "eof" \notin Item.kinds
      /\ \/ /\ Follows(Top.op, Tail(Top.todo), e)
            /\ "," \in Item.kinds => Follows(Top.op, <<Rule(Item.again)>> \o Tail(Top.todo), e)
         \/ e = "parenthesis end" /\ Item.kinds = {")"} /\ Follows(Top.op, Tail(Top.todo), "none")
  BY <1>1, <1>2, ConsumeNext
<1>4. PICK e2 : Follows(Top.op, todo, e2) /\ (e2 = e \/ (e = "parenthesis end" /\ e2 = "none"))
  <2>1. CASE Follows(Top.op, Tail(Top.todo), e)
             /\ ("," \in Item.kinds => Follows(Top.op, <<Rule(Item.again)>> \o Tail(Top.todo), e))
    BY <1>1, <2>1
  <2>2. CASE e = "parenthesis end" /\ Item.kinds = {")"} /\ Follows(Top.op, Tail(Top.todo), "none")
    BY <1>1, <2>2
  <2>. QED  BY <1>3, <2>1, <2>2
<1>5. pos' \in Nat /\ pos <= pos' /\ pos' <= Len(input) + 1
  <2>1. outcome = "parsing"
    BY <1>1, InParseletWorks
  <2>2. pos \in Nat /\ Len(input) \in Nat
    BY <2>1, WhileParsing
  <2>3. pos <= Len(input)
    BY <1>1, <1>3 DEF Peek
  <2>4. pos' = pos + 1
    BY <1>1
  <2>. QED  BY <2>2, <2>3, <2>4
<1>6. Continue(todo)
  BY <1>1
<1>. HIDE DEF todo
<1>. QED  BY <1>1, <1>2, <1>4, <1>5, <1>6, ContinueStep

\* A token that may be missing is consumed, or is missing.
LEMMA StepOptional ==
  ASSUME PrattInv, TakeOptional \/ WithoutOptional
  PROVE  PrattInv'
<1>1. /\ InParselet /\ Top.todo # <<>> /\ Item.do = "optional" /\ Item = Head(Top.todo)
      /\ UNCHANGED <<input, heap, statements, definitions, errors, outcome>>
  BY DEF TakeOptional, WithoutOptional, Doing, Item
<1>2. PICK end : /\ AtWork(stack, end, storageKinds, templateParameters, pos, Len(heap))
                 /\ Top \in ParseletActivation /\ Follows(Top.op, Top.todo, end[Len(stack)])
  BY <1>1, InParseletWorks
<1>3. PICK e : e = end[Len(stack)]
  OBVIOUS
<1>4. /\ Item.kind # "eof"
      /\ Follows(Top.op, Item.yes \o Tail(Top.todo), e)
      /\ Follows(Top.op, Item.no \o Tail(Top.todo), e)
  BY <1>1, <1>2, <1>3, OptionalNext
<1>5. pos \in Nat /\ Len(input) \in Nat /\ pos <= Len(input) + 1
  BY <1>1, InParseletWorks, WhileParsing
<1>6. CASE TakeOptional
  <2>1. Peek = Item.kind /\ pos' = pos + 1 /\ Continue(Item.yes \o Tail(Top.todo))
    BY <1>6 DEF TakeOptional
  <2>2. pos' \in Nat /\ pos <= pos' /\ pos' <= Len(input) + 1
    <3>1. pos <= Len(input)
      BY <1>4, <2>1 DEF Peek
    <3>2. pos' = pos + 1
      BY <2>1
    <3>. QED  BY <1>5, <3>1, <3>2
  <2>. QED  BY <1>1, <1>2, <1>3, <1>4, <2>1, <2>2, ContinueStep
<1>7. CASE WithoutOptional
  <2>1. pos' = pos /\ Continue(Item.no \o Tail(Top.todo))
    BY <1>7 DEF WithoutOptional
  <2>2. pos' \in Nat /\ pos <= pos' /\ pos' <= Len(input) + 1
    BY <1>5, <2>1
  <2>. QED  BY <1>1, <1>2, <1>3, <1>4, <2>1, <2>2, ContinueStep
<1>. QED  BY <1>6, <1>7

\* A rule of the grammar is followed.
LEMMA StepRule ==
  ASSUME PrattInv, FollowRule
  PROVE  PrattInv'
<1>1. /\ InParselet /\ Top.todo # <<>> /\ Item.do = "rule" /\ Item = Head(Top.todo)
      /\ Continue(Grammar(Item.name) \o Tail(Top.todo)) /\ pos' = pos
      /\ UNCHANGED <<input, heap, statements, definitions, errors, outcome>>
  BY DEF FollowRule, Doing, Item
<1>2. PICK end : /\ AtWork(stack, end, storageKinds, templateParameters, pos, Len(heap))
                 /\ Top \in ParseletActivation /\ Follows(Top.op, Top.todo, end[Len(stack)])
  BY <1>1, InParseletWorks
<1>3. PICK e : e = end[Len(stack)]
  OBVIOUS
<1>4. Follows(Top.op, Grammar(Item.name) \o Tail(Top.todo), e)
  BY <1>1, <1>2, <1>3, RuleNext
<1>5. pos \in Nat /\ Len(input) \in Nat /\ pos <= Len(input) + 1
  BY <1>1, InParseletWorks, WhileParsing
<1>6. pos' \in Nat /\ pos <= pos' /\ pos' <= Len(input) + 1
  BY <1>1, <1>5
<1>. QED  BY <1>1, <1>2, <1>3, <1>4, <1>6, ContinueStep

\* What the construct turns out to be.
LEMMA StepTurn ==
  ASSUME PrattInv, Turn
  PROVE  PrattInv'
<1>1. /\ InParselet /\ Top.todo # <<>> /\ Item.do = "become" /\ Item = Head(Top.todo)
      /\ stack' = Append(Callers, IF Item.op = "generic" THEN [Top EXCEPT !.todo = Tail(@), !.generic = TRUE]
                                                         ELSE [Top EXCEPT !.todo = Tail(@), !.op = Item.op])
      /\ UNCHANGED <<input, pos, heap, statements, definitions, errors, outcome>>
  BY DEF Turn, Doing, Item
<1>2. PICK end : AtWork(stack, end, storageKinds, templateParameters, pos, Len(heap))
  BY <1>1, InParseletWorks
<1>3. outcome = "parsing" /\ ParseletOnTop(stack) /\ Top = stack[Len(stack)] /\ stack # <<>>
  BY <1>1, InParseletWorks
<1>. DEFINE a == IF Item.op = "generic" THEN [Top EXCEPT !.todo = Tail(@), !.generic = TRUE]
                                        ELSE [Top EXCEPT !.todo = Tail(@), !.op = Item.op]
<1>4. a \in Activation /\ Works(SetLast(stack, a), storageKinds, templateParameters, pos, Len(heap))
  BY <1>1, <1>2, <1>3, TurnsInto
<1>5. stack' = Append(Front(stack), a)
  BY <1>1 DEF Callers
<1>. HIDE DEF a
<1>6. /\ stack \in Seq(Activation) /\ pos \in Nat /\ pos <= Len(input) + 1 /\ pos <= pos
  BY <1>3, WhileParsing
<1>7. stack' = SetLast(stack, a)
  BY <1>3, <1>4, <1>5, <1>6, Goes
<1>8. Moves
  BY <1>1, <1>4, <1>6, <1>7, Definitions DEF Moves, definitions
<1>. QED  BY <1>3, <1>8, MovesOn

\* A storage kind is pushed or popped.
LEMMA StepStorage ==
  ASSUME PrattInv, PushStorage \/ PopStorage
  PROVE  PrattInv'
<1>1. /\ InParselet /\ Top.todo # <<>> /\ Item = Head(Top.todo)
      /\ stack' = Append(Callers, [Top EXCEPT !.todo = Tail(Top.todo)])
      /\ UNCHANGED <<input, pos, heap, statements, templateParameters, errors, outcome>>
  BY DEF PushStorage, PopStorage, Doing, Item, Continue
<1>2. PICK end : AtWork(stack, end, storageKinds, templateParameters, pos, Len(heap))
  BY <1>1, InParseletWorks
<1>3. outcome = "parsing" /\ ParseletOnTop(stack) /\ Top = stack[Len(stack)] /\ stack # <<>>
  BY <1>1, InParseletWorks
<1>. DEFINE a == [Top EXCEPT !.todo = Tail(@)]
<1>4. stack' = Append(Front(stack), a)
  BY <1>1 DEF Callers
<1>5. storageKinds \in Seq(Kinds) /\ templateParameters \in Seq(1 .. pos - 1)
  BY Definitions
<1>6. /\ stack \in Seq(Activation) /\ pos \in Nat /\ pos <= Len(input) + 1 /\ pos <= pos
  BY <1>3, WhileParsing
<1>7. /\ a \in Activation /\ storageKinds' \in Seq(Kinds)
      /\ Works(SetLast(stack, a), storageKinds', templateParameters, pos, Len(heap))
  <2>1. CASE PushStorage
    <3>1. Item.do = "push storage" /\ storageKinds' = Append(storageKinds, Item.kind)
      BY <1>1, <2>1 DEF PushStorage, Doing
    <3>. DEFINE more == Append(storageKinds, Item.kind)
    <3>2. Len(more) = Len(storageKinds) + 1
      BY <1>5, AppendProperties
    <3>. HIDE DEF more
    <3>3. /\ a \in Activation /\ Works(SetLast(stack, a), more, templateParameters, pos, Len(heap))
          /\ Item.kind \in Kinds
      BY <1>1, <1>2, <1>3, <3>1, <3>2, PushWorks
    <3>4. more \in Seq(Kinds)
      BY <1>5, <3>3, AppendProperties DEF more
    <3>. QED  BY <3>1, <3>3, <3>4 DEF more
  <2>2. CASE PopStorage
    <3>1. Item.do = "pop storage" /\ storageKinds' = Front(storageKinds)
      BY <1>1, <2>2 DEF PopStorage, Doing
    <3>2. storageKinds # <<>>
      <4>1. Len(storageKinds) >= 2
        BY <1>1, <1>2, <1>3, <3>1, PopFindsOwn
      <4>2. Len(<<>>) = 0
        OBVIOUS
      <4>. QED  BY <4>1, <4>2
    <3>3. Front(storageKinds) \in Seq(Kinds) /\ Len(Front(storageKinds)) = Len(storageKinds) - 1
      BY <1>5, <3>2, FrontOfSeq
    <3>4. /\ a \in Activation
          /\ Works(SetLast(stack, a), Front(storageKinds), templateParameters, pos, Len(heap))
      BY <1>1, <1>2, <1>3, <3>1, <3>3, PopWorks
    <3>. QED  BY <3>1, <3>3, <3>4
  <2>. QED  BY <2>1, <2>2
<1>. HIDE DEF a
<1>8. stack' = SetLast(stack, a)
  BY <1>3, <1>4, <1>6, <1>7, Goes
<1>9. Moves
  BY <1>1, <1>5, <1>6, <1>7, <1>8 DEF Moves
<1>. QED  BY <1>3, <1>9, MovesOn

\* A template is entered.
LEMMA StepEnter ==
  ASSUME PrattInv, EnterTemplate
  PROVE  PrattInv'
<1>1. /\ InParselet /\ Top.todo # <<>> /\ Item = Head(Top.todo) /\ Item.do = "enter template"
      /\ stack' = Append(Callers, [Top EXCEPT !.todo = Tail(Top.todo)])
      /\ templateParameters' = IF Top.op = "template" \/ Top.generic THEN Append(templateParameters, Top.at)
                                                                    ELSE templateParameters
      /\ UNCHANGED <<input, pos, heap, statements, storageKinds, errors, outcome>>
  BY DEF EnterTemplate, Parameterised, Doing, Item, Continue
<1>2. PICK end : AtWork(stack, end, storageKinds, templateParameters, pos, Len(heap))
  BY <1>1, InParseletWorks
<1>3. outcome = "parsing" /\ ParseletOnTop(stack) /\ Top = stack[Len(stack)] /\ stack # <<>>
  BY <1>1, InParseletWorks
<1>31. PICK a : a = [Top EXCEPT !.todo = Tail(@)]
  OBVIOUS
<1>32. PICK l : l = IF Top.op = "template" \/ Top.generic THEN Append(templateParameters, Top.at)
                                                         ELSE templateParameters
  OBVIOUS
<1>4. stack' = Append(Front(stack), a) /\ templateParameters' = l
  BY <1>1, <1>31, <1>32 DEF Callers
<1>5. storageKinds \in Seq(Kinds) /\ templateParameters \in Seq(1 .. pos - 1)
  BY Definitions
<1>6. /\ stack \in Seq(Activation) /\ pos \in Nat /\ pos <= Len(input) + 1 /\ pos <= pos
  BY <1>3, WhileParsing
<1>7. a \in Activation /\ Works(SetLast(stack, a), storageKinds, l, pos, Len(heap)) /\ l \in Seq(1 .. pos - 1)
  <2>1. Entering(Top, templateParameters, pos, a, l)
    BY <1>1, <1>5, <1>31, <1>32 DEF Entering
  <2>. QED  BY <1>2, <1>3, <2>1, EnterWorks
<1>8. stack' = SetLast(stack, a)
  BY <1>3, <1>4, <1>6, <1>7, Goes
<1>9. Moves
  BY <1>1, <1>4, <1>5, <1>6, <1>7, <1>8 DEF Moves
<1>. QED  BY <1>3, <1>9, MovesOn

\* A template is left.
LEMMA StepLeave ==
  ASSUME PrattInv, LeaveTemplate
  PROVE  PrattInv'
<1>1. /\ InParselet /\ Top.todo # <<>> /\ Item = Head(Top.todo) /\ Item.do = "leave template"
      /\ UNCHANGED <<input, pos, heap, statements, storageKinds, errors, outcome>>
  BY DEF LeaveTemplate, Doing, Item
<1>2. PICK end : AtWork(stack, end, storageKinds, templateParameters, pos, Len(heap))
  BY <1>1, InParseletWorks
<1>3. outcome = "parsing" /\ ParseletOnTop(stack) /\ Top = stack[Len(stack)] /\ stack # <<>>
  BY <1>1, InParseletWorks
<1>4. PICK c \in BOOLEAN : c <=> Top.op = "template" \/ Top.generic
  OBVIOUS
<1>41. PICK a : a = IF c THEN [Top EXCEPT !.todo = Tail(@), !.parameters = Last(templateParameters)]
                         ELSE [Top EXCEPT !.todo = Tail(@)]
  OBVIOUS
<1>42. PICK l : l = IF c THEN Front(templateParameters) ELSE templateParameters
  OBVIOUS
<1>5. stack' = Append(Front(stack), a) /\ templateParameters' = l
  <2>1. Parameterised <=> c
    BY <1>4 DEF Parameterised
  <2>. QED  BY <1>41, <1>42, <2>1 DEF LeaveTemplate, Continue, Callers
<1>6. storageKinds \in Seq(Kinds) /\ templateParameters \in Seq(1 .. pos - 1)
  BY Definitions
<1>7. /\ stack \in Seq(Activation) /\ pos \in Nat /\ pos <= Len(input) + 1 /\ pos <= pos
  BY <1>3, WhileParsing
<1>8. a \in Activation /\ Works(SetLast(stack, a), storageKinds, l, pos, Len(heap)) /\ l \in Seq(1 .. pos - 1)
  <2>1. Leaving(Top, templateParameters, pos, c, a, l)
    BY <1>1, <1>4, <1>6, <1>41, <1>42 DEF Leaving
  <2>. QED  BY <1>2, <1>3, <2>1, LeaveWorks
<1>9. stack' = SetLast(stack, a)
  BY <1>3, <1>5, <1>7, <1>8, Goes
<1>10. Moves
  BY <1>1, <1>5, <1>6, <1>7, <1>8, <1>9 DEF Moves
<1>. QED  BY <1>3, <1>10, MovesOn

\* A parselet calls parseExpr.
LEMMA StepCall ==
  ASSUME PrattInv, CallParseExpr
  PROVE  PrattInv'
<1>1. /\ InParselet /\ Top.todo # <<>> /\ Item = Head(Top.todo) /\ Item.do = "expression"
      /\ stack' = Append(Append(Callers, [Top EXCEPT !.todo = Tail(@)]), ExprFrame(Item.precedence))
      /\ UNCHANGED <<input, pos, heap, statements, definitions, errors, outcome>>
  BY DEF CallParseExpr, Doing, Item
<1>2. PICK end : AtWork(stack, end, storageKinds, templateParameters, pos, Len(heap))
  BY <1>1, InParseletWorks
<1>3. outcome = "parsing" /\ ParseletOnTop(stack) /\ Top = stack[Len(stack)] /\ stack # <<>>
  BY <1>1, InParseletWorks
<1>. DEFINE a == [Top EXCEPT !.todo = Tail(@)]
            r == Append(Front(stack), a)
<1>4. stack' = Append(r, ExprFrame(Item.precedence))
  BY <1>1 DEF Callers
<1>5. /\ a \in Activation
      /\ Works(Append(SetLast(stack, a), ExprFrame(Head(Top.todo).precedence)),
               storageKinds, templateParameters, pos, Len(heap))
  BY <1>1, <1>2, <1>3, CallWorks
<1>6. /\ stack \in Seq(Activation) /\ pos \in Nat /\ pos <= Len(input) + 1 /\ pos <= pos
  BY <1>3, WhileParsing
<1>. HIDE DEF a
<1>7. r = SetLast(stack, a)
  BY <1>3, <1>5, <1>6, Goes
<1>. HIDE DEF r
<1>8. Works(stack', storageKinds, templateParameters, pos, Len(heap))
  BY <1>1, <1>4, <1>5, <1>7
<1>9. Moves
  BY <1>1, <1>6, <1>8, Definitions DEF Moves, definitions
<1>. QED  BY <1>3, <1>9, MovesOn

\* parseModule begins a statement.
LEMMA StepStatement ==
  ASSUME PrattInv, Statement
  PROVE  PrattInv'
<1>1. /\ outcome = "parsing" /\ stack = <<>> /\ stack' = <<ExprFrame(0)>>
      /\ UNCHANGED <<input, pos, heap, statements, definitions, errors, outcome>>
  BY DEF Statement
<1>2. PICK end : AtWork(<<>>, end, storageKinds, templateParameters, pos, Len(heap))
  BY <1>1, WhileParsing
<1>3. Works(<<ExprFrame(0)>>, storageKinds, templateParameters, pos, Len(heap))
  BY <1>2, StatementWorks
<1>4. pos \in Nat /\ pos <= Len(input) + 1 /\ pos <= pos
  BY <1>1, WhileParsing
<1>5. Moves
  BY <1>1, <1>3, <1>4, Definitions DEF Moves, definitions
<1>. QED  BY <1>1, <1>5, MovesOn

\* Where the call of parseExpr on top stands.
LEMMA InExprWorks ==
  ASSUME PrattInv, InExpr
  PROVE  /\ outcome = "parsing" /\ ExprOnTop(stack) /\ Top = stack[Len(stack)] /\ stack # <<>>
         /\ \E end : AtWork(stack, end, storageKinds, templateParameters, pos, Len(heap))
<1>1. /\ outcome = "parsing" /\ ExprOnTop(stack) /\ Top = stack[Len(stack)] /\ stack # <<>>
  BY DEF InExpr, ExprOnTop, Top, Last
<1>. QED  BY <1>1, WhileParsing

\* The next token, when there is one, is read.
LEMMA Reads ==
  ASSUME PrattInv, outcome = "parsing", Peek # "eof", pos' = pos + 1
  PROVE  pos' \in Nat /\ pos <= pos' /\ pos' <= Len(input) + 1
<1>1. pos \in Nat /\ Len(input) \in Nat
  BY WhileParsing
<1>2. pos <= Len(input)
  BY DEF Peek
<1>. QED  BY <1>1, <1>2

\* A generic parselet is called.
LEMMA StepPrefix ==
  ASSUME PrattInv, PrefixFound
  PROVE  PrattInv'
<1>1. /\ InExpr /\ Peek # "eof" /\ Prefix(Peek) # <<None>> /\ pos' = pos + 1
      /\ stack' = Append(stack, Started(Peek, pos, Prefix(Peek), <<>>))
      /\ UNCHANGED <<input, heap, statements, definitions, errors, outcome>>
  BY DEF PrefixFound, AtStart, Parselet, Started
<1>2. PICK end : AtWork(stack, end, storageKinds, templateParameters, pos, Len(heap))
  BY <1>1, InExprWorks
<1>3. outcome = "parsing" /\ ExprOnTop(stack)
  BY <1>1, InExprWorks
<1>4. pos >= 1
  BY <1>3, WhileParsing
<1>5. Works(Append(stack, Started(Peek, pos, Prefix(Peek), <<>>)), storageKinds, templateParameters, pos + 1, Len(heap))
  BY <1>1, <1>2, <1>3, <1>4, PrefixWorks
<1>6. pos' \in Nat /\ pos <= pos' /\ pos' <= Len(input) + 1
  BY <1>1, <1>3, Reads
<1>7. Works(stack', storageKinds, templateParameters, pos', Len(heap))
  BY <1>1, <1>5
<1>8. Moves
  BY <1>1, <1>6, <1>7, Definitions DEF Moves, definitions
<1>. QED  BY <1>3, <1>8, MovesOn

\* An infix parselet is called.
LEMMA StepInfix ==
  ASSUME PrattInv, InfixFound
  PROVE  PrattInv'
<1>. DEFINE op   == IF Peek = "(" THEN "call" ELSE Peek
            a    == [Top EXCEPT !.left = None]
            r    == Append(Front(stack), a)
            kind == Peek
            x    == Started(op, pos, Infix(kind), <<Top.left>>)
<1>1. /\ InExpr /\ Top.left # None /\ Infix(Peek) # <<None>> /\ pos' = pos + 1
      /\ stack' = Append(r, x) /\ Precedence(Peek) > Top.precedence
      /\ UNCHANGED <<input, heap, statements, definitions, errors, outcome>>
  BY DEF InfixFound, Binds, Parselet, Started, Callers
<1>2. PICK end : AtWork(stack, end, storageKinds, templateParameters, pos, Len(heap))
  BY <1>1, InExprWorks
<1>3. outcome = "parsing" /\ ExprOnTop(stack) /\ Top = stack[Len(stack)] /\ stack # <<>>
  BY <1>1, InExprWorks
<1>4. pos >= 1 /\ stack \in Seq(Activation)
  BY <1>3, WhileParsing
<1>5. /\ a \in Activation
      /\ Works(Append(SetLast(stack, a), x), storageKinds, templateParameters, pos + 1, Len(heap))
  <2>1. op = IF kind = "(" THEN "call" ELSE kind
    OBVIOUS
  <2>2. Infix(kind) # <<None>>
    BY <1>1
  <2>. HIDE DEF op, kind
  <2>. QED  BY <1>1, <1>2, <1>3, <1>4, <2>1, <2>2, InfixWorks
<1>6. Peek # "eof"
  BY <1>1 DEF Infix, Binary
<1>7. pos' \in Nat /\ pos <= pos' /\ pos' <= Len(input) + 1
  BY <1>1, <1>3, <1>6, Reads
<1>. HIDE DEF a, x
<1>8. r = SetLast(stack, a)
  BY <1>3, <1>4, <1>5, Goes
<1>. HIDE DEF r
<1>9. Works(stack', storageKinds, templateParameters, pos', Len(heap))
  BY <1>1, <1>5, <1>8
<1>10. Moves
  BY <1>1, <1>7, <1>9, Definitions DEF Moves, definitions
<1>. QED  BY <1>3, <1>10, MovesOn

\* parseExpr returns.
LEMMA StepReturn ==
  ASSUME PrattInv, ExprReturns
  PROVE  PrattInv'
<1>. DEFINE rest == Front(stack)
            c    == rest[Len(rest)]
            k    == Top.left
            a    == [c EXCEPT !.kids = Append(@, k)]
<1>1. /\ InExpr /\ k # None
      /\ rest = <<>> => stack' = <<>> /\ statements' = Append(statements, k)
      /\ rest # <<>> => stack' = [rest EXCEPT ![Len(rest)].kids = Append(@, k)] /\ statements' = statements
      /\ UNCHANGED <<input, pos, heap, definitions, errors, outcome>>
  BY DEF ExprReturns, Callers
<1>2. PICK end : AtWork(stack, end, storageKinds, templateParameters, pos, Len(heap))
  BY <1>1, InExprWorks
<1>3. outcome = "parsing" /\ ExprOnTop(stack) /\ Top = stack[Len(stack)] /\ stack # <<>>
  BY <1>1, InExprWorks
<1>4. pos \in Nat /\ pos <= Len(input) + 1 /\ pos <= pos /\ Len(heap) \in Nat
  BY <1>3, WhileParsing
<1>5. /\ rest = <<>> => Works(<<>>, storageKinds, templateParameters, pos, Len(heap))
      /\ rest # <<>> => Works(SetLast(rest, a), storageKinds, templateParameters, pos, Len(heap))
      /\ k \in 1 .. Len(heap)
  BY <1>1, <1>2, <1>3, ReturnWorks
<1>6. rest # <<>> => stack' = SetLast(rest, a)
  <2>1. rest # <<>> => stack' = [rest EXCEPT ![Len(rest)] = a]
    BY <1>1
  <2>. QED  BY <2>1 DEF SetLast
<1>. HIDE DEF rest, a, c, k
<1>7. Works(stack', storageKinds, templateParameters, pos, Len(heap))
  BY <1>1, <1>5, <1>6
<1>8. statements' \in Seq(1 .. Len(heap))
  <2>. DEFINE S == 1 .. Len(heap)
  <2>1. statements \in Seq(S) /\ k \in S
    BY <1>5 DEF PrattInv
  <2>. HIDE DEF S
  <2>2. statements' \in Seq(S)
    BY <1>1, <2>1, AppendProperties
  <2>. QED  BY <2>2 DEF S
<1>9. /\ input' = input /\ pos' = pos /\ heap' = heap /\ errors' = errors /\ outcome' = outcome
      /\ storageKinds' = storageKinds /\ templateParameters' = templateParameters
  BY <1>1 DEF definitions
<1>. QED  BY <1>7, <1>8, <1>9 DEF PrattInv, Working

\* One element behind a sequence, and two.
LEMMA LastPieces ==
  ASSUME NEW S, NEW s \in Seq(S), NEW x \in S, NEW y \in S
  PROVE  s \o <<x>> = Append(s, x) /\ s \o <<x, y>> = Append(Append(s, x), y)
<1>1. <<x>> \in Seq(S) /\ <<x, y>> \in Seq(S) /\ Append(s, x) \in Seq(S) /\ Append(Append(s, x), y) \in Seq(S)
  OBVIOUS
<1>2. s \o <<x>> = Append(s, x)
  <2>. DEFINE t == <<x>>
              r == Append(s, x)
  <2>1. t \in Seq(S) /\ Len(t) = 1 /\ t[1] = x
    BY <1>1
  <2>2. r \in Seq(S) /\ Len(r) = Len(s) + 1 /\ Len(s) \in Nat
        /\ (\A i \in 1 .. Len(s) : r[i] = s[i]) /\ r[Len(s) + 1] = x
    BY <1>1, AppendProperties, LenProperties
  <2>. HIDE DEF t, r
  <2>3. Len(r) = Len(s) + Len(t) /\ \A i \in 1 .. Len(t) : r[Len(s) + i] = t[i]
    BY <2>1, <2>2
  <2>4. s \o t = r
    BY <2>1, <2>2, <2>3, ConcatEqual
  <2>. QED  BY <2>4 DEF t, r
<1>3. s \o <<x, y>> = Append(Append(s, x), y)
  <2>. DEFINE t == <<x, y>>
              q == Append(s, x)
              r == Append(q, y)
  <2>1. t \in Seq(S) /\ Len(t) = 2 /\ t[1] = x /\ t[2] = y
    BY <1>1
  <2>2. q \in Seq(S) /\ Len(q) = Len(s) + 1 /\ Len(s) \in Nat
        /\ (\A i \in 1 .. Len(s) : q[i] = s[i]) /\ q[Len(s) + 1] = x
    BY <1>1, AppendProperties, LenProperties
  <2>. HIDE DEF t, q
  <2>3. r \in Seq(S) /\ Len(r) = Len(q) + 1
        /\ (\A i \in 1 .. Len(q) : r[i] = q[i]) /\ r[Len(q) + 1] = y
    BY <2>2, AppendProperties, LenProperties
  <2>. HIDE DEF r
  <2>4. /\ Len(r) = Len(s) + Len(t)
        /\ \A i \in 1 .. Len(s) : r[i] = s[i]
        /\ r[Len(s) + 1] = x /\ r[Len(s) + 2] = y
    <3>1. PICK n \in Nat : n = Len(s)
      BY <2>2
    <3>2. n + 1 \in 1 .. n + 1 /\ (n + 1) + 1 = n + 2 /\ \A i \in 1 .. n : i \in 1 .. n + 1
      OBVIOUS
    <3>3. Len(q) = n + 1 /\ Len(r) = (n + 1) + 1
      BY <2>2, <2>3, <3>1
    <3>4. r[n + 2] = y
      BY <2>3, <3>2, <3>3
    <3>5. r[n + 1] = x
      BY <2>2, <2>3, <3>1, <3>2, <3>3
    <3>6. \A i \in 1 .. n : r[i] = s[i]
      BY <2>2, <2>3, <3>1, <3>2, <3>3
    <3>. QED  BY <2>1, <3>1, <3>2, <3>3, <3>4, <3>5, <3>6
  <2>5. \A i \in 1 .. Len(t) : r[Len(s) + i] = t[i]
    <3>1. \A i \in 1 .. Len(t) : i = 1 \/ i = 2
      BY <2>1
    <3>. QED  BY <2>1, <2>4, <3>1
  <2>6. s \o t = r
    BY <2>1, <2>3, <2>4, <2>5, ConcatEqual
  <2>. QED  BY <2>6 DEF t, q, r
<1>. QED  BY <1>2, <1>3

\* What a parselet that returns has found.
LEMMA ReturningWorks ==
  ASSUME PrattInv, Returning
  PROVE  /\ outcome = "parsing" /\ ParseletOnTop(stack) /\ Top \in ParseletActivation
         /\ Top.kids \in Seq(1 .. Len(heap)) /\ Top.at \in Nat /\ Top.op \in Operator
         /\ Top.parameters \in {None, Top.at}
         /\ Top.op \in {"class", "(", "="} => Top.kids[1] \in 1 .. Len(heap)
         /\ \E end : AtEnd(stack, end, storageKinds, templateParameters, pos, Len(heap))
         /\ Grown(heap) /\ Len(heap) \in Nat
<1>1. InParselet /\ Top.todo = <<>>
  BY DEF Returning
<1>2. /\ outcome = "parsing" /\ ParseletOnTop(stack) /\ Top = stack[Len(stack)]
  BY <1>1, InParseletWorks
<1>3. PICK end : AtWork(stack, end, storageKinds, templateParameters, pos, Len(heap))
  BY <1>1, InParseletWorks
<1>4. /\ Top \in ParseletActivation /\ Top.kids \in Seq(1 .. Len(heap)) /\ Top.at \in 1 .. pos - 1
      /\ Top.parameters \in {None, Top.at}
      /\ Top.op \in {"class", "(", "="} => Top.kids # <<>> /\ Top.kids[1] \in 1 .. Len(heap)
      /\ AtEnd(stack, end, storageKinds, templateParameters, pos, Len(heap))
  BY <1>1, <1>2, <1>3, Operands
<1>5. Top.at \in Nat /\ Top.op \in Operator
  BY <1>4 DEF ParseletActivation
<1>6. Grown(heap) /\ Len(heap) \in Nat
  BY <1>2, WhileParsing DEF PrattInv
<1>. QED  BY <1>2, <1>4, <1>5, <1>6

\* A parselet returns the node k.
LEMMA ReturnStep ==
  ASSUME PrattInv, Returning, Grown(heap'), Len(heap') \in Nat, Len(heap) <= Len(heap'),
         NEW k \in 1 .. Len(heap'), Deliver(k),
         UNCHANGED <<input, pos, statements, definitions, errors, outcome>>
  PROVE  PrattInv'
<1>. DEFINE rest == Front(stack)
            c    == rest[Len(rest)]
            a    == [c EXCEPT !.left = k]
            m    == Len(heap')
<1>1. outcome = "parsing" /\ ParseletOnTop(stack) /\ Len(heap) \in Nat
  BY ReturningWorks
<1>2. PICK end : AtEnd(stack, end, storageKinds, templateParameters, pos, Len(heap))
  BY ReturningWorks
<1>3. Works(SetLast(rest, a), storageKinds, templateParameters, pos, m)
  <2>1. m \in Nat /\ Len(heap) <= m /\ k \in 1 .. m
    OBVIOUS
  <2>. HIDE DEF m
  <2>. QED  BY <1>1, <1>2, <2>1, DeliverWorks
<1>4. stack' = SetLast(rest, a)
  BY DEF Deliver, SetLast, Callers
<1>5. statements \in Seq(1 .. m)
  <2>. DEFINE S == 1 .. Len(heap)
              T == 1 .. m
  <2>1. S \subseteq T
    BY <1>1
  <2>2. statements \in Seq(S)
    BY DEF PrattInv
  <2>. HIDE DEF S, T, m
  <2>3. statements \in Seq(T)
    BY <2>1, <2>2, SeqMonotonic
  <2>. QED  BY <2>3 DEF T
<1>6. /\ input' = input /\ pos' = pos /\ statements' = statements /\ errors' = errors /\ outcome' = outcome
      /\ storageKinds' = storageKinds /\ templateParameters' = templateParameters
  BY DEF definitions
<1>. HIDE DEF rest, a, c
<1>. QED  BY <1>3, <1>4, <1>5, <1>6 DEF PrattInv, Working

\* Parentheses mark the node in them.
LEMMA StepParenthesised ==
  ASSUME PrattInv, Parenthesised
  PROVE  PrattInv'
<1>. DEFINE k == Top.kids[1]
            x == [heap[k] EXCEPT !.parens = TRUE]
<1>1. /\ Returning /\ Top.op = "(" /\ heap' = [heap EXCEPT ![k] = x] /\ Deliver(k)
      /\ UNCHANGED <<input, pos, statements, definitions, errors, outcome>>
  BY DEF Parenthesised
<1>2. k \in 1 .. Len(heap) /\ Grown(heap) /\ Len(heap) \in Nat
  BY <1>1, ReturningWorks
<1>. HIDE DEF k
<1>3. heap[k] \in NodeType
  BY <1>2, NodeOfHeap
<1>4. /\ x \in NodeType /\ x.op = heap[k].op /\ x.at = heap[k].at /\ x.kids = heap[k].kids
      /\ x.parameters = heap[k].parameters
  BY <1>3 DEF NodeType
<1>. HIDE DEF x
<1>5. Grown(heap') /\ Len(heap') = Len(heap)
  BY <1>1, <1>2, <1>4, NodeMarked
<1>6. Len(heap') \in Nat /\ Len(heap) <= Len(heap') /\ k \in 1 .. Len(heap')
  BY <1>2, <1>5
<1>. QED  BY <1>1, <1>5, <1>6, ReturnStep

\* What is made behind the nodes h is returned.
LEMMA MadeIsReturned ==
  ASSUME PrattInv, Returning, NEW h, Grown(h), Len(h) \in Nat, Len(heap) <= Len(h),
         NEW x, FitNode(x, Len(h)), heap' = Append(h, x), Deliver(Len(heap')),
         UNCHANGED <<input, pos, statements, definitions, errors, outcome>>
  PROVE  PrattInv'
<1>1. Grown(heap') /\ Len(heap') = Len(h) + 1
  BY NodeMade
<1>2. Len(heap) \in Nat
  BY ReturningWorks
<1>3. Len(heap') \in Nat /\ Len(heap) <= Len(heap') /\ Len(heap') \in 1 .. Len(heap')
  BY <1>1, <1>2
<1>. QED  BY <1>1, <1>3, ReturnStep

\* An assignment marks what it writes.
LEMMA StepAssigned ==
  ASSUME PrattInv, Assigned
  PROVE  PrattInv'
<1>. DEFINE k == Top.kids[1]
            y == [heap[k] EXCEPT !.written = @ \/ heap[k].op \in {"id", "declare"}]
            h == [heap EXCEPT ![k] = y]
            x == NewNode("=", Top.at, Top.kids)
<1>1. /\ Returning /\ Top.op = "=" /\ heap' = Append(h, x) /\ Deliver(Len(heap'))
      /\ UNCHANGED <<input, pos, statements, definitions, errors, outcome>>
  BY DEF Assigned
<1>2. /\ k \in 1 .. Len(heap) /\ Grown(heap) /\ Len(heap) \in Nat
      /\ Top.kids \in Seq(1 .. Len(heap)) /\ Top.at \in Nat /\ Top.op \in Operator
  BY <1>1, ReturningWorks
<1>3. FitNode(x, Len(heap))
  BY <1>1, <1>2, NewNodeType
<1>. HIDE DEF k, x
<1>4. heap[k] \in NodeType
  BY <1>2, NodeOfHeap
<1>5. /\ y \in NodeType /\ y.op = heap[k].op /\ y.at = heap[k].at /\ y.kids = heap[k].kids
      /\ y.parameters = heap[k].parameters
  <2>. DEFINE w == heap[k].written \/ heap[k].op \in {"id", "declare"}
  <2>1. w \in BOOLEAN /\ y = [heap[k] EXCEPT !.written = w]
    OBVIOUS
  <2>. HIDE DEF w, y
  <2>. QED  BY <1>4, <2>1 DEF NodeType
<1>. HIDE DEF y
<1>6. Grown(h) /\ Len(h) = Len(heap)
  BY <1>2, <1>5, NodeMarked
<1>. HIDE DEF h
<1>7. FitNode(x, Len(h)) /\ Len(h) \in Nat /\ Len(heap) <= Len(h)
  BY <1>2, <1>3, <1>6
<1>. QED  BY <1>1, <1>6, <1>7, MadeIsReturned

\* A compound gets the storage kind it stands in.
LEMMA StepCompound ==
  ASSUME PrattInv, Compound
  PROVE  PrattInv'
<1>. DEFINE y == NewNode("{", Top.at, Top.kids)
            x == [y EXCEPT !.storage = Last(storageKinds)]
<1>1. /\ Returning /\ Top.op = "{" /\ heap' = Append(heap, x) /\ Deliver(Len(heap'))
      /\ UNCHANGED <<input, pos, statements, definitions, errors, outcome>>
  BY DEF Compound
<1>2. /\ Grown(heap) /\ Len(heap) \in Nat /\ outcome = "parsing"
      /\ Top.kids \in Seq(1 .. Len(heap)) /\ Top.at \in Nat /\ Top.op \in Operator
  BY <1>1, ReturningWorks
<1>3. y \in NodeType /\ y.op = "{" /\ y.kids = Top.kids
  <2>1. PICK n \in Nat, op \in Operator, at \in Nat : n = Len(heap) /\ op = "{" /\ at = Top.at
    BY <1>1, <1>2
  <2>2. Top.kids \in Seq(1 .. n)
    BY <1>2, <2>1
  <2>. DEFINE z == NewNode(op, at, Top.kids)
  <2>3. z \in NodeType /\ z.op = op /\ z.kids = Top.kids
    BY <2>2, NewNodeType
  <2>. QED  BY <2>1, <2>3
<1>. HIDE DEF y
<1>4. Last(storageKinds) \in Kinds
  <2>1. PICK end : StorageMatches(stack, end, storageKinds)
    BY <1>2, WhileParsing DEF AtWork
  <2>2. PICK f : f \in Seq(Nat) /\ Len(storageKinds) = Len(f) + 1
    BY <2>1 DEF StorageMatches, Enumerates
  <2>3. Len(storageKinds) \in 1 .. Len(storageKinds)
    BY <2>2, LenProperties
  <2>4. storageKinds \in Seq(Kinds)
    BY Definitions
  <2>. QED  BY <2>3, <2>4, ElementOfSeq DEF Last
<1>5. x \in NodeType /\ x.op = "{" /\ x.kids = Top.kids
  BY <1>3, <1>4 DEF NodeType
<1>. HIDE DEF x
<1>6. FitNode(x, Len(heap)) /\ Len(heap) <= Len(heap)
  <2>1. \A n \in Nat : n <= n
    OBVIOUS
  <2>2. x.kids \in Seq(1 .. Len(heap)) /\ x.op # "class"
    BY <1>2, <1>5
  <2>. QED  BY <1>2, <1>5, <2>1, <2>2 DEF FitNode
<1>. QED  BY <1>1, <1>2, <1>6, MadeIsReturned

\* Any other node.
LEMMA StepConstruct ==
  ASSUME PrattInv, Construct
  PROVE  PrattInv'
<1>. DEFINE x == NewNode(Top.op, Top.at, Top.kids)
<1>1. /\ Returning /\ heap' = Append(heap, x) /\ Deliver(Len(heap'))
      /\ UNCHANGED <<input, pos, statements, definitions, errors, outcome>>
  BY DEF Construct
<1>2. /\ Grown(heap) /\ Len(heap) \in Nat
      /\ Top.kids \in Seq(1 .. Len(heap)) /\ Top.at \in Nat /\ Top.op \in Operator
  BY <1>1, ReturningWorks
<1>3. FitNode(x, Len(heap)) /\ Len(heap) <= Len(heap)
  <2>1. PICK n \in Nat, op \in Operator, at \in Nat : n = Len(heap) /\ op = Top.op /\ at = Top.at
    BY <1>2
  <2>2. Top.kids \in Seq(1 .. n)
    BY <1>2, <2>1
  <2>3. FitNode(NewNode(op, at, Top.kids), n)
    BY <2>2, NewNodeType
  <2>4. n <= n /\ x = NewNode(op, at, Top.kids)
    BY <2>1
  <2>. HIDE DEF x
  <2>. QED  BY <2>1, <2>3, <2>4
<1>. HIDE DEF x
<1>. QED  BY <1>1, <1>2, <1>3, MadeIsReturned

\* A class whose body is no compound puts it into one, and a generic class is
\* wrapped in a template.
LEMMA StepClass ==
  ASSUME PrattInv, Class
  PROVE  PrattInv'
<1>. DEFINE body   == Top.kids[1]
            braced == heap[body].op = "{"
            marked == [heap EXCEPT ![body].storage = "Instance"]
            y      == [NewNode("{", 0, <<body>>) EXCEPT !.storage = "Instance"]
            bodies == IF braced THEN marked ELSE Append(heap, y)
            own    == IF braced THEN body ELSE Len(bodies)
            x      == [NewNode("class", Top.at, <<own>>) EXCEPT !.parameters = Top.parameters]
            z      == NewNode("anonymous", 0, <<Len(bodies) + 1>>)
<1>1. /\ Returning /\ Top.op = "class" /\ Deliver(Len(heap'))
      /\ heap' = bodies \o (IF Top.generic THEN <<x, z>> ELSE <<x>>)
      /\ UNCHANGED <<input, pos, statements, definitions, errors, outcome>>
  BY DEF Class
<1>2. /\ body \in 1 .. Len(heap) /\ Grown(heap) /\ Len(heap) \in Nat
      /\ Top.at \in Nat /\ Top.op \in Operator /\ Top.parameters \in {None, Top.at}
  BY <1>1, ReturningWorks
<1>. HIDE DEF body
<1>3. Grown(marked) /\ Len(marked) = Len(heap)
  <2>. DEFINE w == [heap[body] EXCEPT !.storage = "Instance"]
  <2>1. heap[body] \in NodeType
    BY <1>2, NodeOfHeap
  <2>2. /\ w \in NodeType /\ w.op = heap[body].op /\ w.at = heap[body].at /\ w.kids = heap[body].kids
        /\ w.parameters = heap[body].parameters
    BY <2>1 DEF NodeType, Kinds
  <2>3. marked = [heap EXCEPT ![body] = w]
    OBVIOUS
  <2>. HIDE DEF w, marked
  <2>. QED  BY <1>2, <2>2, <2>3, NodeMarked
<1>4. FitNode(y, Len(heap))
  <2>1. PICK n \in Nat, op \in Operator, at \in Nat : n = Len(heap) /\ op = "{" /\ at = 0
    BY <1>2 DEF Operator, TokenKind
  <2>. DEFINE kids == <<body>>
              w    == NewNode(op, at, kids)
  <2>2. kids \in Seq(1 .. n)
    <3>. DEFINE S == 1 .. n
    <3>1. body \in S
      BY <1>2, <2>1
    <3>. HIDE DEF S
    <3>2. kids \in Seq(S)
      BY <3>1
    <3>. QED  BY <3>2 DEF S
  <2>21. y = [w EXCEPT !.storage = "Instance"]
    BY <2>1
  <2>. HIDE DEF kids, y
  <2>3. w \in NodeType /\ w.op = op /\ w.kids = kids
    BY <2>2, NewNodeType
  <2>. HIDE DEF w
  <2>4. y \in NodeType /\ y.op = "{" /\ y.kids = kids
    BY <2>1, <2>21, <2>3 DEF NodeType, Kinds
  <2>. QED  BY <2>1, <2>2, <2>4 DEF FitNode
<1>. HIDE DEF y
<1>5. Grown(Append(heap, y)) /\ Len(Append(heap, y)) = Len(heap) + 1
  BY <1>2, <1>4, NodeMade
<1>. HIDE DEF marked
<1>6. Grown(bodies) /\ Len(bodies) \in Nat /\ Len(heap) <= Len(bodies) /\ own \in 1 .. Len(bodies)
  <2>1. CASE braced
    <3>1. bodies = marked /\ own = body
      BY <2>1
    <3>. HIDE DEF bodies, own, braced
    <3>. QED  BY <1>2, <1>3, <3>1
  <2>2. CASE ~braced
    <3>1. bodies = Append(heap, y) /\ own = Len(bodies)
      BY <2>2
    <3>. HIDE DEF bodies, own, braced
    <3>. QED  BY <1>2, <1>5, <3>1
  <2>. QED  BY <2>1, <2>2
<1>. HIDE DEF bodies, own
<1>7. FitNode(x, Len(bodies))
  <2>1. PICK n \in Nat, op \in Operator, at \in Nat : n = Len(bodies) /\ op = "class" /\ at = Top.at
    BY <1>2, <1>6 DEF Operator, TokenKind
  <2>. DEFINE kids == <<own>>
              w    == NewNode(op, at, kids)
  <2>2. kids \in Seq(1 .. n)
    <3>. DEFINE S == 1 .. n
    <3>1. own \in S
      BY <1>6, <2>1
    <3>. HIDE DEF S
    <3>2. kids \in Seq(S)
      BY <3>1
    <3>. QED  BY <3>2 DEF S
  <2>21. x = [w EXCEPT !.parameters = Top.parameters]
    BY <2>1
  <2>. HIDE DEF kids, x
  <2>3. w \in NodeType /\ w.op = op /\ w.at = at /\ w.kids = kids
    BY <2>2, NewNodeType
  <2>. HIDE DEF w
  <2>4. x \in NodeType /\ x.op = "class" /\ x.kids = kids /\ x.at = at /\ x.parameters = Top.parameters
    BY <1>2, <2>1, <2>21, <2>3 DEF NodeType
  <2>. QED  BY <1>2, <2>1, <2>2, <2>4 DEF FitNode
<1>. HIDE DEF x
<1>8. Grown(Append(bodies, x)) /\ Len(Append(bodies, x)) = Len(bodies) + 1
  BY <1>6, <1>7, NodeMade
<1>9. FitNode(z, Len(bodies) + 1)
  <2>1. PICK n \in Nat, op \in Operator, at \in Nat : n = Len(bodies) + 1 /\ op = "anonymous" /\ at = 0
    BY <1>6 DEF Operator
  <2>. DEFINE kids == <<Len(bodies) + 1>>
  <2>2. kids \in Seq(1 .. n)
    BY <1>6, <2>1
  <2>. HIDE DEF kids
  <2>3. FitNode(NewNode(op, at, kids), n)
    BY <2>2, NewNodeType
  <2>. QED  BY <2>1, <2>3 DEF kids
<1>. HIDE DEF z
<1>10. bodies \in Seq(NodeType) /\ x \in NodeType /\ z \in NodeType
  BY <1>6, <1>7, <1>9 DEF Grown, FitNode
<1>11. bodies \o <<x>> = Append(bodies, x) /\ bodies \o <<x, z>> = Append(Append(bodies, x), z)
  BY <1>10, LastPieces
<1>12. CASE Top.generic
  <2>. DEFINE h == Append(bodies, x)
  <2>1. heap' = Append(h, z) /\ Len(h) \in Nat /\ Len(heap) <= Len(h) /\ Grown(h) /\ FitNode(z, Len(h))
    BY <1>1, <1>2, <1>6, <1>8, <1>9, <1>11, <1>12
  <2>. HIDE DEF h
  <2>. QED  BY <1>1, <2>1, MadeIsReturned
<1>13. CASE ~Top.generic
  <2>1. heap' = Append(bodies, x)
    BY <1>1, <1>11, <1>13
  <2>. QED  BY <1>1, <1>6, <1>7, <2>1, MadeIsReturned
<1>. QED  BY <1>12, <1>13

\* A step that ends the parsing.
LEMMA StepEnds ==
  ASSUME PrattInv, outcome = "parsing", outcome' \in {"parsed", "aborted", "crashed"},
         errors' = errors \/ Unexpected("SurpriseToken") \/ Unexpected("UnexpectedToken"),
         storageKinds' \in Seq(Kinds),
         UNCHANGED <<input, pos, heap, statements, templateParameters>>
  PROVE  PrattInv'
<1>1. pos \in 1 .. pos
  <2>1. pos \in Nat /\ pos >= 1
    BY WhileParsing
  <2>. QED  BY <2>1
<1>2. errors' \subseteq {"SurpriseToken", "UnexpectedToken"} \X (1 .. pos)
  BY <1>1 DEF PrattInv, Unexpected
<1>. QED  BY <1>2 DEF PrattInv, Working

-----------------------------------------------------------------------------
(***************************************************************************)
(* The theorems.                                                           *)
(***************************************************************************)

\* Nothing is parsed in the beginning.
LEMMA PrattInit == Init => PrattInv
<1>. SUFFICES ASSUME Init
              PROVE  PrattInv
  OBVIOUS
<1>1. /\ input \in Seq(TokenKind) /\ pos = 1 /\ stack = <<>> /\ heap = <<>> /\ statements = <<>>
      /\ storageKinds = <<"Global">> /\ templateParameters = <<>>
      /\ errors = {} /\ outcome = "parsing"
  BY InputsAssumption DEF Init
<1>2. pos \in 1 .. Len(input) + 1 /\ Len(heap) = 0
  BY <1>1
<1>3. Grown(heap)
  BY <1>1 DEF Grown
<1>4. storageKinds \in Seq(Kinds)
  <2>. DEFINE g == "Global"
  <2>1. g \in Kinds
    BY DEF Kinds
  <2>2. <<g>> \in Seq(Kinds)
    BY <2>1
  <2>. QED  BY <1>1, <2>2
<1>5. Works(stack, storageKinds, templateParameters, pos, Len(heap))
  <2>. DEFINE none == <<>>
  <2>1. Stacked(none, none, TRUE, pos, Len(heap))
    BY DEF Stacked
  <2>2. Storages(none, none) = {} /\ Templates(none, none) = {}
    BY DEF Storages, Templates
  <2>3. Enumerates(none, {})
    BY DEF Enumerates
  <2>4. StorageMatches(none, none, storageKinds)
    <3>1. Len(storageKinds) = Len(none) + 1
      BY <1>1
    <3>. QED  BY <2>2, <2>3, <3>1 DEF StorageMatches
  <2>5. TemplatesMatch(none, none, none)
    <3>1. Len(none) = Len(none) /\ \A i \in DOMAIN none : none[i] = none[none[i]].at
      OBVIOUS
    <3>. QED  BY <2>2, <2>3, <3>1 DEF TemplatesMatch
  <2>. QED  BY <1>1, <2>1, <2>4, <2>5 DEF Works
<1>. QED  BY <1>1, <1>2, <1>3, <1>4, <1>5 DEF PrattInv, Working

\* Every step keeps the invariant.
LEMMA PrattStep == PrattInv /\ [Next]_vars => PrattInv'
<1>. SUFFICES ASSUME PrattInv, [Next]_vars
              PROVE  PrattInv'
  OBVIOUS
<1>1. CASE Module
  <2>1. CASE Statement
    BY <2>1, StepStatement
  <2>2. CASE EndOfModule
    <3>1. storageKinds' \in Seq(Kinds)
      BY <2>2, Definitions DEF EndOfModule
    <3>. QED  BY <2>2, <3>1, StepEnds DEF EndOfModule
  <2>. QED  BY <1>1, <2>1, <2>2 DEF Module
<1>2. CASE Expr
  <2>1. CASE PrefixAtEnd
    BY <2>1, StepEnds, Definitions DEF PrefixAtEnd, AtStart, InExpr, Abort, definitions
  <2>2. CASE PrefixSurprise
    BY <2>2, StepEnds, Definitions DEF PrefixSurprise, AtStart, InExpr, Abort, definitions
  <2>3. CASE PrefixFound
    BY <2>3, StepPrefix
  <2>4. CASE InfixSurprise
    BY <2>4, StepEnds, Definitions DEF InfixSurprise, Binds, InExpr, definitions
  <2>5. CASE InfixFound
    BY <2>5, StepInfix
  <2>6. CASE ExprReturns
    BY <2>6, StepReturn
  <2>. QED  BY <1>2, <2>1, <2>2, <2>3, <2>4, <2>5, <2>6 DEF Expr
<1>3. CASE Parselets
  <2>1. CASE Consumed
    BY <2>1, StepConsumed
  <2>2. CASE NotExpected
    BY <2>2, StepEnds, Definitions DEF NotExpected, Doing, InParselet, Abort, definitions
  <2>3. CASE TakeOptional \/ WithoutOptional
    BY <2>3, StepOptional
  <2>4. CASE FollowRule
    BY <2>4, StepRule
  <2>5. CASE Turn
    BY <2>5, StepTurn
  <2>6. CASE CallParseExpr
    BY <2>6, StepCall
  <2>7. CASE PushStorage \/ PopStorage
    BY <2>7, StepStorage
  <2>8. CASE EnterTemplate
    BY <2>8, StepEnter
  <2>9. CASE LeaveTemplate
    BY <2>9, StepLeave
  <2>. QED  BY <1>3, <2>1, <2>2, <2>3, <2>4, <2>5, <2>6, <2>7, <2>8, <2>9 DEF Parselets
<1>4. CASE Nodes
  <2>1. CASE Parenthesised
    BY <2>1, StepParenthesised
  <2>2. CASE Assigned
    BY <2>2, StepAssigned
  <2>3. CASE Compound
    BY <2>3, StepCompound
  <2>4. CASE Class
    BY <2>4, StepClass
  <2>5. CASE Construct
    BY <2>5, StepConstruct
  <2>. QED  BY <1>4, <2>1, <2>2, <2>3, <2>4, <2>5 DEF Nodes
<1>5. CASE Answered \/ UNCHANGED vars
  <2>1. UNCHANGED vars
    BY <1>5 DEF Answered
  <2>. QED  BY <2>1 DEF vars, PrattInv, Working
<1>. QED  BY <1>1, <1>2, <1>3, <1>4, <1>5 DEF Next

\* The invariant: each activation of a parselet has a list of things to do that
\* still ends in what it owes the two stacks of definitions, and those stacks
\* hold one entry of each activation that owes one, the outermost first.
THEOREM PrattInvariant == Spec => []PrattInv
<1>. QED  BY PrattInit, PrattStep, PTL DEF Spec

\* However templates and generic classes are nested, a generic class gets the
\* parameters that its own brackets listed: what is popped when its body has
\* been parsed is what it pushed itself.
THEOREM GenericsKeepTheirParameters == Spec => []GenericsOwnTheirParameters
<1>1. PrattInv => GenericsOwnTheirParameters
  BY DEF PrattInv, Grown, GenericsOwnTheirParameters, Node
<1>. QED  BY <1>1, PrattInvariant, PTL

\* What the parser's stacks hold between two statements.
BalancedStacks ==
  outcome = "parsing" /\ stack = <<>> => Len(storageKinds) = 1 /\ templateParameters = <<>>

\* Between two statements, and at the end of the module, the stack of storage
\* kinds holds the kind of the module alone and the stack of template
\* parameters nothing: whatever parselets returned or failed to match on the
\* way, each push was undone, and the assertion at the end of parseModule holds.
THEOREM StacksAreBalanced == Spec => []BalancedStacks
<1>1. PrattInv => BalancedStacks
  <2>. SUFFICES ASSUME PrattInv, outcome = "parsing", stack = <<>>
                PROVE  Len(storageKinds) = 1 /\ templateParameters = <<>>
    BY DEF BalancedStacks
  <2>1. PICK end : StorageMatches(<<>>, end, storageKinds) /\ TemplatesMatch(<<>>, end, templateParameters)
    BY DEF PrattInv, Working, Works
  <2>2. Storages(<<>>, end) = {} /\ Templates(<<>>, end) = {}
    BY DEF Storages, Templates
  <2>3. \A f : Enumerates(f, {}) => Len(f) = 0
    <3>. SUFFICES ASSUME NEW f, Enumerates(f, {})
                  PROVE  Len(f) = 0
      OBVIOUS
    <3>1. f \in Seq(Nat) /\ \A i \in DOMAIN f : FALSE
      BY DEF Enumerates
    <3>2. Len(f) \in Nat /\ DOMAIN f = 1 .. Len(f)
      BY <3>1, LenProperties
    <3>3. \A n \in Nat : n # 0 => 1 \in 1 .. n
      OBVIOUS
    <3>4. 1 \notin 1 .. Len(f)
      BY <3>1, <3>2
    <3>. QED  BY <3>2, <3>3, <3>4
  <2>4. Len(storageKinds) = 1
    <3>1. PICK f : Enumerates(f, {}) /\ Len(storageKinds) = Len(f) + 1
      BY <2>1, <2>2 DEF StorageMatches
    <3>2. Len(f) = 0
      BY <2>3, <3>1
    <3>. QED  BY <3>1, <3>2
  <2>5. Len(templateParameters) = 0
    <3>1. PICK f : Enumerates(f, {}) /\ Len(templateParameters) = Len(f)
      BY <2>1, <2>2 DEF TemplatesMatch
    <3>. QED  BY <2>3, <3>1
  <2>. DEFINE S == 1 .. pos - 1
  <2>6. templateParameters \in Seq(S)
    BY DEF PrattInv
  <2>. HIDE DEF S
  <2>7. templateParameters = <<>>
    BY <2>5, <2>6, EmptySeq
  <2>. QED  BY <2>4, <2>7
<1>. QED  BY <1>1, PrattInvariant, PTL

-----------------------------------------------------------------------------
(***************************************************************************)
(* What the text of a node ends in.                                        *)
(***************************************************************************)

\* The constructs that take an operand of any precedence at their end.
Openers == {"!", "++", "if", "while", "func", "class", "anonymous"}

\* EndsOpen of the nodes h.
Opens(h) ==
  LET f[n \in DOMAIN h] ==
        /\ ~h[n].parens
        /\ \/ h[n].op \in Openers
           \/ (h[n].op \in Binary /\ f[h[n].kids[2]])
  IN  f

\* Whether the node n ends open, if f says so of its operands.
OpensAt(h, f, n) ==
  /\ ~h[n].parens
  /\ \/ h[n].op \in Openers
     \/ (h[n].op \in Binary /\ f[h[n].kids[2]])

\* A binary operator has two operands.
Paired(h) == \A n \in DOMAIN h : h[n].op \in Binary => Len(h[n].kids) = 2

\* That is what EndsOpen says of the nodes there are.
LEMMA Same == EndsOpen = Opens(heap)
  BY DEF EndsOpen, Opens, Openers, Node, Right

\* The operands of a binary operator were made before it.
LEMMA Operands12 ==
  ASSUME NEW h, Grown(h), Paired(h), NEW n \in DOMAIN h, h[n].op \in Binary
  PROVE  h[n].kids[2] \in 1 .. n - 1 /\ h[n].kids[1] \in 1 .. n - 1
<1>1. h[n] \in NodeType
  BY DEF Grown
<1>2. h[n].kids \in Seq(Nat) /\ Len(h[n].kids) = 2
  BY <1>1 DEF NodeType, Paired
<1>3. 1 \in DOMAIN h[n].kids /\ 2 \in DOMAIN h[n].kids
  BY <1>2
<1>. QED  BY <1>3 DEF Grown

\* What the recursive function says of a node, by induction over the nodes.
LEMMA OpensIs ==
  ASSUME NEW h, Grown(h), Paired(h)
  PROVE  \A n \in DOMAIN h : Opens(h)[n] = OpensAt(h, Opens(h), n)
<1>1. DOMAIN h = 1 .. Len(h) /\ Len(h) \in Nat
  BY LenProperties DEF Grown
<1>. DEFINE T == {m \in Nat : m <= Len(h) => \E f \in [1 .. m -> BOOLEAN] : \A n \in 1 .. m : f[n] = OpensAt(h, f, n)}
<1>2. 0 \in T
  <2>1. \E f \in [1 .. 0 -> BOOLEAN] : \A n \in 1 .. 0 : f[n] = OpensAt(h, f, n)
    <3>1. [n \in 1 .. 0 |-> TRUE] \in [1 .. 0 -> BOOLEAN] /\ \A n \in 1 .. 0 : FALSE
      OBVIOUS
    <3>. QED  BY <3>1
  <2>. QED  BY <2>1
<1>3. ASSUME NEW m \in T
      PROVE  m + 1 \in T
  <2>1. m \in Nat
    OBVIOUS
  <2>2. SUFFICES ASSUME m + 1 <= Len(h)
                 PROVE  \E f \in [1 .. m + 1 -> BOOLEAN] : \A n \in 1 .. m + 1 : f[n] = OpensAt(h, f, n)
    BY <2>1
  <2>3. m <= Len(h) /\ m + 1 \in DOMAIN h
    BY <1>1, <2>1, <2>2
  <2>4. PICK f \in [1 .. m -> BOOLEAN] : \A n \in 1 .. m : f[n] = OpensAt(h, f, n)
    BY <2>3
  <2>. HIDE DEF T
  <2>. DEFINE g == [n \in 1 .. m + 1 |-> IF n = m + 1 THEN OpensAt(h, f, m + 1) ELSE f[n]]
  <2>5. g \in [1 .. m + 1 -> BOOLEAN]
    <3>1. OpensAt(h, f, m + 1) \in BOOLEAN
      BY DEF OpensAt
    <3>2. \A n \in 1 .. m + 1 : n # m + 1 => n \in 1 .. m
      BY <2>1
    <3>. QED  BY <3>1, <3>2
  <2>6. g[m + 1] = OpensAt(h, f, m + 1) /\ \A n \in 1 .. m : g[n] = f[n]
    BY <2>1
  <2>. HIDE DEF g
  <2>7. ASSUME NEW n \in 1 .. m + 1
        PROVE  g[n] = OpensAt(h, f, n) /\ n \in DOMAIN h /\ 1 .. n - 1 \subseteq 1 .. m
    <3>1. n \in DOMAIN h /\ 1 .. n - 1 \subseteq 1 .. m
      BY <1>1, <2>1, <2>2
    <3>2. n # m + 1 => n \in 1 .. m
      BY <2>1
    <3>. QED  BY <2>4, <2>6, <3>1, <3>2
  <2>8. ASSUME NEW n \in 1 .. m + 1
        PROVE  OpensAt(h, f, n) = OpensAt(h, g, n)
    <3>1. h[n].op \in Binary => h[n].kids[2] \in 1 .. m
      BY <2>7, Operands12
    <3>. QED  BY <2>6, <3>1 DEF OpensAt
  <2>. QED  BY <2>5, <2>7, <2>8
<1>4. T \in SUBSET Nat
  OBVIOUS
<1>. HIDE DEF T
<1>5. Len(h) \in T
  BY <1>1, <1>2, <1>3, <1>4, Induction
<1>6. PICK f \in [DOMAIN h -> BOOLEAN] : \A n \in DOMAIN h : f[n] = OpensAt(h, f, n)
  <2>1. Len(h) <= Len(h)
    BY <1>1
  <2>. QED  BY <1>1, <1>5, <2>1 DEF T
<1>7. f = [n \in DOMAIN h |-> OpensAt(h, f, n)]
  BY <1>6
<1>8. Opens(h) = CHOOSE g : g = [n \in DOMAIN h |-> OpensAt(h, g, n)]
  BY DEF Opens, OpensAt
<1>9. Opens(h) = [n \in DOMAIN h |-> OpensAt(h, Opens(h), n)]
  BY <1>7, <1>8
<1>. QED  BY <1>9

\* Nodes made since, or put into parentheses.
Later(h, g) ==
  /\ Len(h) <= Len(g)
  /\ \A n \in DOMAIN h : /\ g[n].op = h[n].op /\ g[n].kids = h[n].kids
                         /\ h[n].parens => g[n].parens

\* No node ends open that did not: nodes behind it and parentheses do not open it.
LEMMA OpensLater ==
  ASSUME NEW h, NEW g, Grown(h), Paired(h), Grown(g), Paired(g), Later(h, g)
  PROVE  \A n \in DOMAIN h : n \in DOMAIN g /\ (Opens(g)[n] => Opens(h)[n])
<1>1. DOMAIN h = 1 .. Len(h) /\ Len(h) \in Nat /\ DOMAIN g = 1 .. Len(g) /\ Len(g) \in Nat
  BY LenProperties DEF Grown
<1>2. \A n \in DOMAIN h : n \in DOMAIN g
  BY <1>1 DEF Later
<1>. DEFINE T == {m \in Nat : \A n \in 1 .. m : n \in DOMAIN h => (Opens(g)[n] => Opens(h)[n])}
<1>3. 0 \in T
  OBVIOUS
<1>4. ASSUME NEW m \in T
      PROVE  m + 1 \in T
  <2>1. m \in Nat /\ \A n \in 1 .. m : n \in DOMAIN h => (Opens(g)[n] => Opens(h)[n])
    OBVIOUS
  <2>2. ASSUME m + 1 \in DOMAIN h, Opens(g)[m + 1]
        PROVE  Opens(h)[m + 1]
    <3>. DEFINE n == m + 1
    <3>1. n \in DOMAIN h /\ n \in DOMAIN g /\ n - 1 = m /\ 1 .. n - 1 \subseteq DOMAIN h
      BY <1>1, <1>2, <2>1, <2>2
    <3>. HIDE DEF n
    <3>2. OpensAt(g, Opens(g), n)
      BY <2>2, <3>1, OpensIs DEF n
    <3>3. g[n].op = h[n].op /\ g[n].kids = h[n].kids /\ (h[n].parens => g[n].parens)
      BY <3>1 DEF Later
    <3>4. h[n].op \in Binary => h[n].kids[2] \in 1 .. m /\ h[n].kids[2] \in DOMAIN h
      BY <3>1, Operands12
    <3>5. OpensAt(h, Opens(h), n)
      BY <2>1, <3>2, <3>3, <3>4 DEF OpensAt
    <3>. QED  BY <3>1, <3>5, OpensIs DEF n
  <2>3. \A n \in 1 .. m + 1 : n = m + 1 \/ n \in 1 .. m
    BY <2>1
  <2>. QED  BY <2>1, <2>2, <2>3
<1>5. T \in SUBSET Nat
  OBVIOUS
<1>. HIDE DEF T
<1>6. Len(h) \in T
  BY <1>1, <1>3, <1>4, <1>5, Induction
<1>. QED  BY <1>1, <1>2, <1>6 DEF T

-----------------------------------------------------------------------------
(***************************************************************************)
(* The precedences: which nodes may be operands of which.                  *)
(***************************************************************************)

\* The precedence of an operator, as the node has it.
Tight(op) == Precedence(IF op = "call" THEN "(" ELSE op)

\* What the last operand of a construct is parsed with.
Bound(op) ==
  IF op \notin Binary THEN 0
                      ELSE IF RightAssociative(op) THEN Precedence(op) - 1 ELSE Precedence(op)

\* An infix operator without parentheses.
IsBare(h, n) == h[n].op \in InfixOps /\ ~h[n].parens

\* x may stand to the left of op without parentheses.
GoesLeft(x, op) == Tight(x) > Tight(op) \/ (Tight(x) = Tight(op) /\ ~RightAssociative(op))

\* x has ended before the token pk: what was parsed does not bind with it.
Yields(x, pk) == IF RightAssociative(x) THEN Precedence(pk) < Tight(x) ELSE Precedence(pk) <= Tight(x)

\* The node n may be the first operand of op, and the last one.
FitsLeft(h, n, op)  == n \in DOMAIN h /\ ~Opens(h)[n] /\ (IsBare(h, n) => GoesLeft(h[n].op, op))
FitsRight(h, n, op) == n \in DOMAIN h /\ (IsBare(h, n) => Tight(h[n].op) > Bound(op))

\* The node n is whole when pk is the next token: nothing open at its end, and no
\* operator at its root, would have taken it.
Lets(h, n, pk) ==
  /\ n \in DOMAIN h
  /\ Opens(h)[n] => Precedence(pk) <= 0
  /\ IsBare(h, n) => Yields(h[n].op, pk)

\* A node of op may be made of these operands.
Ripe(h, op, kids) ==
  /\ op \in InfixOps => kids # <<>> /\ FitsLeft(h, kids[1], op)
  /\ op \in Binary => Len(kids) = 2 /\ FitsRight(h, kids[2], op)

\* Every node is made as the precedences call for.
Arranged(h) == \A n \in DOMAIN h : Ripe(h, h[n].op, h[n].kids)

\* Precedences are numbers, and those of the operators positive ones.
LEMMA Numbers ==
  /\ \A k : Precedence(k) \in Int /\ Precedence(k) <= 14
  /\ \A op \in InfixOps : Tight(op) \in Nat /\ Tight(op) >= 1
  /\ \A op : Bound(op) \in Nat
<1>1. \A k : Precedence(k) \in Int /\ Precedence(k) <= 14
  BY DEF Precedence
<1>2. \A op \in InfixOps : Tight(op) \in Nat /\ Tight(op) >= 1
  BY Precedences DEF InfixOps, Binary, Tight
<1>3. \A op \in Binary : Precedence(op) \in Nat /\ Precedence(op) >= 1
  BY Precedences DEF Binary
<1>4. \A op : Bound(op) \in Nat
  <2>. SUFFICES ASSUME NEW op
                PROVE  Bound(op) \in Nat
    OBVIOUS
  <2>1. CASE op \in Binary
    BY <1>3, <2>1 DEF Bound
  <2>2. CASE op \notin Binary
    BY <2>2 DEF Bound
  <2>. QED  BY <2>1, <2>2
<1>. QED  BY <1>1, <1>2, <1>4

\* The token that ends an operator.
LEMMA LeftOfNext ==
  ASSUME NEW x \in InfixOps, NEW pk, NEW op \in InfixOps, op = IF pk = "(" THEN "call" ELSE pk, pk # "call",
         Yields(x, pk)
  PROVE  GoesLeft(x, op) /\ Tight(op) = Precedence(pk)
<1>1. Tight(op) = Precedence(pk)
  BY DEF Tight
<1>2. Tight(x) \in Nat /\ Tight(op) \in Nat
  BY Numbers
<1>3. RightAssociative(op) <=> op = "="
  BY DEF InfixOps, Binary, RightAssociative
<1>4. RightAssociative(x) <=> x = "="
  BY DEF InfixOps, Binary, RightAssociative
<1>5. Tight("=") = 1 /\ \A y \in InfixOps : y # "=" => Tight(y) # 1
  BY Precedences DEF Tight, InfixOps, Binary
<1>6. CASE x = "="
  BY <1>1, <1>2, <1>4, <1>6 DEF Yields, GoesLeft
<1>7. CASE x # "="
  <2>1. Tight(op) <= Tight(x)
    BY <1>1, <1>4, <1>7 DEF Yields
  <2>2. op = "=" => Tight(op) # Tight(x)
    BY <1>5, <1>7
  <2>3. Tight(x) > Tight(op) \/ (Tight(x) = Tight(op) /\ op # "=")
    BY <1>2, <2>1, <2>2
  <2>. QED  BY <1>1, <1>3, <2>3 DEF GoesLeft
<1>. QED  BY <1>1, <1>6, <1>7

\* An operator whose last operand ended before pk has ended before it, too.
LEMMA ReturnedYields ==
  ASSUME NEW op \in InfixOps, NEW pk, op \in Binary => Precedence(pk) <= Bound(op)
  PROVE  Yields(op, pk)
<1>1. Precedence(pk) \in Int /\ Precedence(pk) <= 14
  BY Numbers
<1>2. CASE op \in Binary
  <2>1. Tight(op) = Precedence(op) /\ Precedence(op) \in Nat
    BY <1>2, Numbers DEF Tight, Binary
  <2>2. Bound(op) = IF RightAssociative(op) THEN Precedence(op) - 1 ELSE Precedence(op)
    BY <1>2 DEF Bound
  <2>. QED  BY <1>1, <1>2, <2>1, <2>2 DEF Yields
<1>3. CASE op \in {".", "call"}
  BY <1>1, <1>3 DEF Yields, Tight, Precedence, RightAssociative
<1>. QED  BY <1>2, <1>3 DEF InfixOps

\* The nodes h, and what has become of them.
Aged(h, g) == Grown(h) /\ Paired(h) /\ Grown(g) /\ Paired(g) /\ Later(h, g)

\* Operands that fitted fit.
LEMMA LaterFits ==
  ASSUME NEW h, NEW g, Aged(h, g), NEW n, NEW x
  PROVE  /\ FitsLeft(h, n, x) => FitsLeft(g, n, x)
         /\ FitsRight(h, n, x) => FitsRight(g, n, x)
         /\ Lets(h, n, x) => Lets(g, n, x)
<1>. SUFFICES ASSUME n \in DOMAIN h
              PROVE  /\ FitsLeft(h, n, x) => FitsLeft(g, n, x)
                     /\ FitsRight(h, n, x) => FitsRight(g, n, x)
                     /\ Lets(h, n, x) => Lets(g, n, x)
  BY DEF FitsLeft, FitsRight, Lets
<1>1. n \in DOMAIN g /\ (Opens(g)[n] => Opens(h)[n])
  BY OpensLater DEF Aged
<1>2. g[n].op = h[n].op /\ (IsBare(g, n) => IsBare(h, n))
  BY DEF Aged, Later, IsBare
<1>3. FitsLeft(h, n, x) => FitsLeft(g, n, x)
  BY <1>1, <1>2, Zenon DEF FitsLeft
<1>4. FitsRight(h, n, x) => FitsRight(g, n, x)
  BY <1>1, <1>2, Zenon DEF FitsRight
<1>5. Lets(h, n, x) => Lets(g, n, x)
  BY <1>1, <1>2, Zenon DEF Lets
<1>. QED  BY <1>3, <1>4, <1>5

\* Nodes that are arranged have their operands.
LEMMA ArrangedPaired ==
  ASSUME NEW h, Arranged(h)
  PROVE  Paired(h)
  BY DEF Arranged, Ripe, Paired

\* Marks, and new nodes made of operands that fit, leave the nodes arranged.
LEMMA ArrangedLater ==
  ASSUME NEW h, NEW g, Grown(h), Grown(g), Arranged(h), Later(h, g),
         \A n \in DOMAIN g \ DOMAIN h : Ripe(h, g[n].op, g[n].kids)
  PROVE  Aged(h, g) /\ Arranged(g)
<1>1. \A n \in DOMAIN g : Ripe(h, g[n].op, g[n].kids)
  <2>. SUFFICES ASSUME NEW n \in DOMAIN g
                PROVE  Ripe(h, g[n].op, g[n].kids)
    OBVIOUS
  <2>1. CASE n \in DOMAIN h
    <3>1. Ripe(h, h[n].op, h[n].kids)
      BY <2>1 DEF Arranged
    <3>2. g[n].op = h[n].op /\ g[n].kids = h[n].kids
      BY <2>1 DEF Later
    <3>. QED  BY <3>1, <3>2
  <2>. QED  BY <2>1
<1>2. Paired(g)
  BY <1>1 DEF Ripe, Paired
<1>3. Aged(h, g)
  BY <1>2, ArrangedPaired DEF Aged
<1>4. ASSUME NEW n \in DOMAIN g
      PROVE  Ripe(g, g[n].op, g[n].kids)
  <2>1. Ripe(h, g[n].op, g[n].kids)
    BY <1>1
  <2>. QED  BY <1>3, <2>1, LaterFits DEF Ripe
<1>. QED  BY <1>3, <1>4 DEF Arranged

\* Nodes that are arranged respect the precedences.
LEMMA ArrangedRight ==
  ASSUME NEW h, Grown(h), Arranged(h), h = heap
  PROVE  RespectsPrecedence
<1>. SUFFICES ASSUME NEW n \in Node
              PROVE  /\ heap[n].op \in InfixOps =>
                         /\ ~EndsOpen[Left(n)]
                         /\ Bare(Left(n)) => \/ Tightness(Left(n)) > Tightness(n)
                                             \/ (Tightness(Left(n)) = Tightness(n) /\ ~RightAssociative(heap[n].op))
                     /\ heap[n].op \in Binary /\ Bare(Right(n)) =>
                         \/ Tightness(Right(n)) > Tightness(n)
                         \/ (Tightness(Right(n)) = Tightness(n) /\ RightAssociative(heap[n].op))
  BY DEF RespectsPrecedence
<1>1. Ripe(heap, heap[n].op, heap[n].kids)
  BY DEF Arranged, Node
<1>2. \A m : Tightness(m) = Tight(heap[m].op) /\ (Bare(m) <=> IsBare(heap, m))
  BY DEF Tightness, Tight, Bare, IsBare
<1>3. ASSUME heap[n].op \in InfixOps
      PROVE  /\ ~EndsOpen[Left(n)]
             /\ Bare(Left(n)) => \/ Tightness(Left(n)) > Tightness(n)
                                 \/ (Tightness(Left(n)) = Tightness(n) /\ ~RightAssociative(heap[n].op))
  <2>1. FitsLeft(heap, Left(n), heap[n].op)
    BY <1>1, <1>3 DEF Ripe, Left
  <2>2. ~EndsOpen[Left(n)]
    BY <2>1, Same DEF FitsLeft
  <2>. QED  BY <1>2, <2>1, <2>2 DEF FitsLeft, GoesLeft
<1>4. ASSUME heap[n].op \in Binary, Bare(Right(n))
      PROVE  \/ Tightness(Right(n)) > Tightness(n)
             \/ (Tightness(Right(n)) = Tightness(n) /\ RightAssociative(heap[n].op))
  <2>1. Tight(heap[Right(n)].op) > Bound(heap[n].op)
    BY <1>1, <1>2, <1>4 DEF Ripe, Right, FitsRight
  <2>2. \A x \in InfixOps, op \in Binary : Tight(x) > Bound(op) =>
           Tight(x) > Tight(op) \/ (Tight(x) = Tight(op) /\ RightAssociative(op))
    <3>. SUFFICES ASSUME NEW x \in InfixOps, NEW op \in Binary, Tight(x) > Bound(op)
                  PROVE  Tight(x) > Tight(op) \/ (Tight(x) = Tight(op) /\ RightAssociative(op))
      OBVIOUS
    <3>1. Tight(x) \in Nat /\ Tight(op) \in Nat
      BY Numbers DEF InfixOps
    <3>2. Bound(op) = IF RightAssociative(op) THEN Tight(op) - 1 ELSE Tight(op)
      BY DEF Bound, Tight, Binary
    <3>. QED  BY <3>1, <3>2
  <2>3. heap[Right(n)].op \in InfixOps
    BY <1>4 DEF Bare
  <2>. QED  BY <1>2, <1>4, <2>1, <2>2, <2>3
<1>. QED  BY <1>3, <1>4

-----------------------------------------------------------------------------
(***************************************************************************)
(* The last operand of a construct, and what is left to do before and      *)
(* behind it.                                                              *)
(***************************************************************************)

\* What follows the first branch of an if.
Else == Optional("else", <<Expression>>, <<>>)

\* The constructs that end in an expression.
Trailing == Binary \union Openers

\* The end of what such a construct has to do: its last operand, and what follows it.
Finals(op) ==
  CASE op \in Binary -> {<<ParseExpr(Bound(op))>>}
    [] op = "if"     -> {<<Expression, Else>>, <<Expression>>}
    [] op = "func"   -> {<<Expression, Pop>>}
    [] op = "class"  -> {<<Expression, Pop, Leave>>}
    [] OTHER         -> {<<Expression>>}

\* What it has to do when the last operand is there.
Rests(op) ==
  CASE op = "if"    -> {<<Else>>, <<>>}
    [] op = "func"  -> {<<Pop>>, <<>>}
    [] op = "class" -> {<<Pop, Leave>>, <<Leave>>, <<>>}
    [] OTHER        -> {<<>>}

\* The last operand is still to come.
Coming(op, todo) ==
  \E f \in Finals(op), xs \in Seq(ParseletItem) : todo = xs \o f /\ (op \in Binary => xs = <<>>)

\* Heads and tails of short lists.
LEMMA HeadTails ==
  /\ \A a : Head(<<a>>) = a /\ Tail(<<a>>) = <<>> /\ <<a>> # <<>>
  /\ \A a, b : Head(<<a, b>>) = a /\ Tail(<<a, b>>) = <<b>> /\ <<a, b>> # <<>>
  /\ \A a, b, c : Head(<<a, b, c>>) = a /\ Tail(<<a, b, c>>) = <<b, c>> /\ <<a, b, c>> # <<>>
  OBVIOUS

\* An operand to be parsed.
LEMMA ExpressionItem == Expression = ParseExpr(0) /\ \A p : ParseExpr(p).do = "expression" /\ ParseExpr(p).precedence = p
  BY DEF Expression, ParseExpr

\* The items of those ends.
LEMMA FinalItems ==
  /\ Expression \in ParseletItem /\ Else \in ParseletItem /\ Pop \in ParseletItem /\ Leave \in ParseletItem
  /\ \A op : ParseExpr(Bound(op)) \in ParseletItem
<1>. DEFINE S == Simple("")
            P == ParseletItem
<1>1. Pop \in P /\ Leave \in P /\ Neutral("") \subseteq P
  BY DEF ParseletItem
<1>2. \A p \in Nat : ParseExpr(p) \in Neutral("") /\ ParseExpr(p) \in S
  BY SimpleItems
<1>3. \A op : ParseExpr(Bound(op)) \in P
  BY <1>1, <1>2, Numbers
<1>4. Expression \in P /\ Expression \in S
  BY <1>1, <1>2, ExpressionItem
<1>5. Else \in P
  <2>1. <<Expression>> \in Seq(S) /\ <<>> \in Seq(S)
    <3>. HIDE DEF S
    <3>. QED  BY <1>4, Lists
  <2>2. "else" \in TokenKind
    BY DEF TokenKind
  <2>3. Else \in Neutral("")
    BY <2>1, <2>2, SimpleItems DEF Else
  <2>. QED  BY <1>1, <2>3
<1>. QED  BY <1>1, <1>3, <1>4, <1>5

\* What a final is: the operand, and then what is left behind it.
LEMMA FinalParts ==
  ASSUME NEW op, NEW f \in Finals(op)
  PROVE  /\ f \in Seq(ParseletItem) /\ f # <<>>
         /\ Head(f) = ParseExpr(Bound(op))
         /\ op \in Trailing => Tail(f) \in Rests(op)
<1>. DEFINE P == ParseletItem
<1>1. /\ Expression \in P /\ Else \in P /\ Pop \in P /\ Leave \in P /\ ParseExpr(Bound(op)) \in P
  BY FinalItems
<1>2. /\ \A a \in P : <<a>> \in Seq(P)
      /\ \A a, b \in P : <<a, b>> \in Seq(P)
      /\ \A a, b, c \in P : <<a, b, c>> \in Seq(P)
  BY Lists
<1>3. op \notin Binary => Bound(op) = 0 /\ ParseExpr(Bound(op)) = Expression
  BY ExpressionItem DEF Bound
<1>4. op \in Binary => op \notin {"if", "func", "class"}
  BY DEF Binary
<1>. HIDE DEF P
<1>5. f \in Seq(P)
  BY <1>1, <1>2 DEF Finals
<1>6. f # <<>> /\ Head(f) = ParseExpr(Bound(op))
  BY <1>3, <1>4, HeadTails DEF Finals
<1>7. Tail(f) \in Rests(op)
  <2>1. CASE op \in {"if", "func", "class"}
    <3>1. CASE op = "if"
      <4>1. f = <<Expression, Else>> \/ f = <<Expression>>
        BY <3>1 DEF Finals, Binary
      <4>2. Rests(op) = {<<Else>>, <<>>}
        BY <3>1 DEF Rests
      <4>3. Tail(<<Expression, Else>>) = <<Else>> /\ Tail(<<Expression>>) = <<>>
        BY HeadTails
      <4>. QED  BY <4>1, <4>2, <4>3
    <3>2. CASE op = "func"
      <4>1. f = <<Expression, Pop>>
        BY <3>2 DEF Finals, Binary
      <4>2. Rests(op) = {<<Pop>>, <<>>}
        BY <3>2 DEF Rests
      <4>3. Tail(<<Expression, Pop>>) = <<Pop>>
        BY HeadTails
      <4>. QED  BY <4>1, <4>2, <4>3
    <3>3. CASE op = "class"
      <4>1. f = <<Expression, Pop, Leave>>
        BY <3>3 DEF Finals, Binary
      <4>2. Rests(op) = {<<Pop, Leave>>, <<Leave>>, <<>>}
        BY <3>3 DEF Rests
      <4>3. Tail(<<Expression, Pop, Leave>>) = <<Pop, Leave>>
        BY HeadTails
      <4>. QED  BY <4>1, <4>2, <4>3
    <3>. QED  BY <2>1, <3>1, <3>2, <3>3
  <2>2. CASE op \notin {"if", "func", "class"}
    <3>1. f = <<ParseExpr(Bound(op))>>
      BY <1>3, <2>2 DEF Finals
    <3>2. Rests(op) = {<<>>}
      BY <2>2 DEF Rests
    <3>. QED  BY <3>1, <3>2, HeadTails
  <2>. QED  BY <2>1, <2>2
<1>. QED  BY <1>5, <1>6, <1>7 DEF P

\* The first of the things that come before the last operand, or that operand itself.
LEMMA ComingNext ==
  ASSUME NEW op \in Trailing, NEW todo, Coming(op, todo)
  PROVE  /\ todo # <<>> /\ todo \in Seq(ParseletItem)
         /\ \/ /\ op \notin Binary /\ Coming(op, Tail(todo))
               /\ \A ys \in Seq(ParseletItem) : Coming(op, ys \o Tail(todo))
            \/ Head(todo) = ParseExpr(Bound(op)) /\ Tail(todo) \in Rests(op)
<1>. DEFINE P == ParseletItem
<1>1. PICK f \in Finals(op), xs \in Seq(P) : todo = xs \o f /\ (op \in Binary => xs = <<>>)
  BY DEF Coming
<1>2. f \in Seq(P) /\ f # <<>> /\ Head(f) = ParseExpr(Bound(op)) /\ Tail(f) \in Rests(op)
  BY FinalParts
<1>. HIDE DEF P
<1>3. CASE xs = <<>>
  <2>1. todo = f
    BY <1>1, <1>2, <1>3, ConcatEmptySeq
  <2>. QED  BY <1>2, <2>1 DEF P
<1>4. CASE xs # <<>>
  <2>1. todo # <<>> /\ Tail(todo) = Tail(xs) \o f
    BY <1>1, <1>2, <1>4, HeadTailConcat
  <2>2. Tail(xs) \in Seq(P) /\ todo \in Seq(P) /\ op \notin Binary
    BY <1>1, <1>2, <1>4, HeadTailProperties, ConcatProperties
  <2>3. ASSUME NEW ys \in Seq(P)
        PROVE  Coming(op, ys \o Tail(todo))
    <3>1. ys \o (Tail(xs) \o f) = (ys \o Tail(xs)) \o f
      BY <1>2, <2>2, ConcatAssociative
    <3>2. ys \o Tail(xs) \in Seq(P)
      BY <2>2, ConcatProperties
    <3>. QED  BY <2>1, <2>2, <3>1, <3>2 DEF Coming, P
  <2>4. Coming(op, Tail(todo))
    BY <2>1, <2>2 DEF Coming, P
  <2>. QED  BY <2>1, <2>2, <2>3, <2>4 DEF P
<1>. QED  BY <1>3, <1>4

\* What is left behind the last operand.
LEMMA RestNext ==
  ASSUME NEW op \in Trailing, NEW todo \in Rests(op), todo # <<>>
  PROVE  \/ /\ op = "if" /\ Head(todo).do = "optional" /\ Tail(todo) = <<>>
            /\ Coming(op, Head(todo).yes \o Tail(todo))
            /\ Head(todo).no \o Tail(todo) \in Rests(op)
         \/ Head(todo).do \in {"pop storage", "leave template"} /\ Tail(todo) \in Rests(op)
<1>1. CASE op = "if"
  <2>1. todo = <<Else>> /\ Head(todo) = Else /\ Tail(todo) = <<>>
    BY <1>1, HeadTails DEF Rests, Binary
  <2>2. Else.do = "optional" /\ Else.yes = <<Expression>> /\ Else.no = <<>>
    BY DEF Else, Optional
  <2>3. <<Expression>> \o <<>> = <<Expression>> /\ <<>> \o <<Expression>> = <<Expression>> /\ <<>> \o <<>> = <<>>
    OBVIOUS
  <2>4. <<Expression>> \in Finals(op) /\ <<>> \in Rests(op)
    BY <1>1 DEF Finals, Rests, Binary
  <2>5. <<>> \in Seq(ParseletItem) /\ op \notin Binary
    BY <1>1 DEF Binary
  <2>6. Coming(op, <<Expression>>)
    BY <2>3, <2>4, <2>5 DEF Coming
  <2>. QED  BY <1>1, <2>1, <2>2, <2>3, <2>4, <2>6
<1>2. CASE op = "func"
  <2>1. todo = <<Pop>> /\ Head(todo) = Pop /\ Tail(todo) = <<>>
    BY <1>2, HeadTails DEF Rests, Binary
  <2>2. <<>> \in Rests(op) /\ Pop.do = "pop storage"
    BY <1>2 DEF Rests, Pop
  <2>. QED  BY <2>1, <2>2
<1>3. CASE op = "class"
  <2>1. \/ todo = <<Pop, Leave>> /\ Head(todo) = Pop /\ Tail(todo) = <<Leave>>
        \/ todo = <<Leave>> /\ Head(todo) = Leave /\ Tail(todo) = <<>>
    BY <1>3, HeadTails DEF Rests, Binary
  <2>2. <<>> \in Rests(op) /\ <<Leave>> \in Rests(op) /\ Pop.do = "pop storage" /\ Leave.do = "leave template"
    BY <1>3 DEF Rests, Pop, Leave
  <2>. QED  BY <2>1, <2>2
<1>4. CASE op \notin {"if", "func", "class"}
  BY <1>4 DEF Rests
<1>. QED  BY <1>1, <1>2, <1>3, <1>4

\* Who has nothing left to do has the last operand.
LEMMA NoneLeft ==
  ASSUME NEW op \in Trailing
  PROVE  ~Coming(op, <<>>)
  BY ComingNext

-----------------------------------------------------------------------------
(***************************************************************************)
(* The invariant of the precedences: every node is made as they call for,  *)
(* and the activations on the stack keep what they allow on both sides.    *)
(***************************************************************************)

\* An activation by itself: the first operand of an infix operator may stand on its left.
Each(h, a) == a.fn = "parselet" /\ a.op \in InfixOps => a.kids # <<>> /\ FitsLeft(h, a.kids[1], a.op)

\* An activation and the one it called: parseExpr holds nothing while a parselet
\* runs, and called one of a higher precedence than its own; a parselet waits for
\* its last operand, which is parsed with the bound of its operator, or for another.
Pair(a, b) ==
  /\ a.fn # b.fn
  /\ a.fn = "parseExpr" => a.left = None /\ (b.op \in InfixOps => Tight(b.op) > a.precedence)
  /\ a.fn = "parselet" /\ a.op \in Trailing =>
       \/ Coming(a.op, a.todo) /\ a.op \notin Binary
       \/ a.todo \in Rests(a.op) /\ b.precedence = Bound(a.op) /\ (a.op \in Binary => Len(a.kids) = 1)

\* The last operand is there, fits, and does not bind with the next token.
IsClosed(h, a, pk) ==
  /\ Precedence(pk) <= Bound(a.op)
  /\ a.op \in Binary => /\ Len(a.kids) = 2 /\ FitsRight(h, a.kids[2], a.op)
                        /\ Opens(h)[a.kids[2]] => Precedence(pk) <= 0

\* The activation on top: what parseExpr has parsed is whole before the next
\* token and tighter than its precedence; a parselet waits for its last operand or has it.
OnTop(h, a, pk) ==
  /\ a.fn = "parseExpr" /\ a.left # None =>
       Lets(h, a.left, pk) /\ (IsBare(h, a.left) => Tight(h[a.left].op) > a.precedence)
  /\ a.fn = "parselet" /\ a.op \in Trailing =>
       \/ Coming(a.op, a.todo) /\ (a.op \in Binary => Len(a.kids) = 1)
       \/ a.todo \in Rests(a.op) /\ IsClosed(h, a, pk)

\* The stack of activations.
Piled(h, st) ==
  /\ \A i \in 1 .. Len(st) : Each(h, st[i])
  /\ \A i \in 1 .. Len(st) - 1 : Pair(st[i], st[i + 1])

\* The stack of activations, and the one on top before the next token.
Grouped(h, st, pk) == Piled(h, st) /\ (st # <<>> => OnTop(h, st[Len(st)], pk))

\* The invariant.
PrecInv == Arranged(heap) /\ (outcome = "parsing" => Grouped(heap, stack, Peek))

\* Marks and new nodes leave the stack as it is.
LEMMA PiledLater ==
  ASSUME NEW h, NEW g, Aged(h, g), NEW st, Piled(h, st)
  PROVE  Piled(g, st)
<1>1. ASSUME NEW i \in 1 .. Len(st)
      PROVE  Each(g, st[i])
  <2>1. Each(h, st[i])
    BY DEF Piled
  <2>. QED  BY <2>1, LaterFits DEF Each
<1>. QED  BY <1>1 DEF Piled

\* The activation on top changes.
LEMMA PiledTop ==
  ASSUME NEW h, NEW st \in Seq(Activation), st # <<>>, Piled(h, st), NEW t, t = st[Len(st)],
         NEW a \in Activation, Each(h, a), \A b \in Activation : Pair(b, t) => Pair(b, a)
  PROVE  Piled(h, SetLast(st, a))
<1>. DEFINE r == SetLast(st, a)
<1>1. /\ Len(r) = Len(st) /\ \A i \in DOMAIN st : r[i] = IF i = Len(st) THEN a ELSE st[i]
  BY SetLastOfSeq
<1>2. Len(st) \in Nat \ {0} /\ DOMAIN st = 1 .. Len(st) /\ \A i \in 1 .. Len(st) : st[i] \in Activation
  BY LenProperties, EmptySeq, ElementOfSeq
<1>. HIDE DEF r
<1>3. ASSUME NEW i \in 1 .. Len(r)
      PROVE  Each(h, r[i])
  <2>1. r[i] = a \/ r[i] = st[i]
    BY <1>1, <1>2
  <2>2. Each(h, st[i])
    BY <1>1 DEF Piled
  <2>. QED  BY <2>1, <2>2
<1>4. ASSUME NEW i \in 1 .. Len(r) - 1
      PROVE  Pair(r[i], r[i + 1])
  <2>1. /\ i \in 1 .. Len(st) /\ i + 1 \in 1 .. Len(st) /\ i # Len(st) /\ i \in 1 .. Len(st) - 1
    BY <1>1, <1>2
  <2>2. r[i] = st[i] /\ st[i] \in Activation /\ Pair(st[i], st[i + 1])
    BY <1>1, <1>2, <2>1 DEF Piled
  <2>3. CASE i + 1 = Len(st)
    <3>1. r[i + 1] = a /\ st[i + 1] = t
      BY <1>1, <1>2, <2>1, <2>3
    <3>. QED  BY <2>2, <3>1
  <2>4. CASE i + 1 # Len(st)
    <3>1. r[i + 1] = st[i + 1]
      BY <1>1, <1>2, <2>1, <2>4
    <3>. QED  BY <2>2, <3>1
  <2>. QED  BY <2>3, <2>4
<1>. QED  BY <1>3, <1>4 DEF Piled, r

\* An activation is put on top.
LEMMA PiledPush ==
  ASSUME NEW h, NEW st \in Seq(Activation), Piled(h, st), NEW x \in Activation, Each(h, x),
         st # <<>> => Pair(st[Len(st)], x)
  PROVE  Piled(h, Append(st, x))
<1>. DEFINE r == Append(st, x)
<1>1. /\ Len(r) = Len(st) + 1 /\ r[Len(st) + 1] = x /\ \A i \in 1 .. Len(st) : r[i] = st[i]
  BY SeqPush
<1>2. Len(st) \in Nat /\ (st = <<>> <=> Len(st) = 0)
  BY LenProperties, EmptySeq
<1>. HIDE DEF r
<1>3. ASSUME NEW i \in 1 .. Len(r)
      PROVE  Each(h, r[i])
  <2>1. CASE i \in 1 .. Len(st)
    BY <1>1, <2>1 DEF Piled
  <2>2. CASE i \notin 1 .. Len(st)
    <3>1. i = Len(st) + 1
      BY <1>1, <1>2, <2>2
    <3>. QED  BY <1>1, <3>1
  <2>. QED  BY <2>1, <2>2
<1>4. ASSUME NEW i \in 1 .. Len(r) - 1
      PROVE  Pair(r[i], r[i + 1])
  <2>1. i \in 1 .. Len(st) /\ i \in Nat
    BY <1>1, <1>2
  <2>2. CASE i = Len(st)
    <3>1. st # <<>>
      BY <1>2, <2>1, <2>2
    <3>. QED  BY <1>1, <2>1, <2>2, <3>1
  <2>3. CASE i # Len(st)
    <3>1. i \in 1 .. Len(st) - 1 /\ i + 1 \in 1 .. Len(st)
      BY <1>2, <2>1, <2>3
    <3>. QED  BY <1>1, <2>1, <3>1 DEF Piled
  <2>. QED  BY <2>2, <2>3
<1>. QED  BY <1>3, <1>4 DEF Piled, r

\* The activation on top goes.
LEMMA PiledPop ==
  ASSUME NEW h, NEW st \in Seq(Activation), st # <<>>, Piled(h, st)
  PROVE  /\ Front(st) \in Seq(Activation) /\ Piled(h, Front(st))
         /\ Front(st) # <<>> =>
              /\ Front(st)[Len(Front(st))] \in Activation
              /\ Each(h, Front(st)[Len(Front(st))])
              /\ Pair(Front(st)[Len(Front(st))], st[Len(st)])
<1>. DEFINE r == Front(st)
<1>1. r \in Seq(Activation) /\ Len(r) = Len(st) - 1 /\ \A i \in 1 .. Len(st) - 1 : r[i] = st[i]
  BY FrontOfSeq
<1>2. Len(st) \in Nat \ {0} /\ (r = <<>> <=> Len(r) = 0)
  BY <1>1, LenProperties, EmptySeq
<1>. HIDE DEF r
<1>3. Piled(h, r)
  <2>1. ASSUME NEW i \in 1 .. Len(r)
        PROVE  Each(h, r[i])
    <3>1. i \in 1 .. Len(st) /\ r[i] = st[i]
      BY <1>1, <1>2
    <3>. QED  BY <3>1 DEF Piled
  <2>2. ASSUME NEW i \in 1 .. Len(r) - 1
        PROVE  Pair(r[i], r[i + 1])
    <3>1. i \in 1 .. Len(st) - 1 /\ i + 1 \in 1 .. Len(st) - 1
      BY <1>1, <1>2
    <3>. QED  BY <1>1, <3>1 DEF Piled
  <2>. QED  BY <2>1, <2>2 DEF Piled
<1>4. ASSUME r # <<>>
      PROVE  r[Len(r)] \in Activation /\ Each(h, r[Len(r)]) /\ Pair(r[Len(r)], st[Len(st)])
  <2>1. Len(r) \in 1 .. Len(r) /\ Len(r) \in 1 .. Len(st) - 1 /\ Len(r) + 1 = Len(st)
    BY <1>1, <1>2, <1>4
  <2>2. r[Len(r)] = st[Len(r)] /\ Pair(st[Len(r)], st[Len(r) + 1])
    BY <1>1, <2>1 DEF Piled
  <2>3. r[Len(r)] \in Activation /\ Each(h, r[Len(r)])
    BY <1>1, <1>3, <2>1, ElementOfSeq DEF Piled
  <2>. QED  BY <2>1, <2>2, <2>3
<1>. QED  BY <1>1, <1>3, <1>4 DEF r

-----------------------------------------------------------------------------
(***************************************************************************)
(* The steps of a parselet.                                                *)
(***************************************************************************)

\* The activation on top changes, and is right before the next token.
LEMMA TopGrouped ==
  ASSUME NEW h, NEW st \in Seq(Activation), st # <<>>, Piled(h, st), NEW t, t = st[Len(st)],
         NEW a \in Activation, Each(h, a), \A b \in Activation : Pair(b, t) => Pair(b, a),
         NEW pk, OnTop(h, a, pk)
  PROVE  Grouped(h, SetLast(st, a), pk)
<1>. DEFINE r == SetLast(st, a)
<1>1. Piled(h, r)
  BY PiledTop
<1>2. Len(r) = Len(st) /\ \A i \in DOMAIN st : r[i] = IF i = Len(st) THEN a ELSE st[i]
  BY SetLastOfSeq
<1>21. Len(st) \in DOMAIN st
  BY LenProperties, EmptySeq
<1>3. r[Len(r)] = a
  <2>. HIDE DEF r
  <2>. QED  BY <1>2, <1>21
<1>. HIDE DEF r
<1>. QED  BY <1>1, <1>3 DEF Grouped, r

\* An activation is put on top, and is right before the next token.
LEMMA PushGrouped ==
  ASSUME NEW h, NEW st \in Seq(Activation), Piled(h, st), NEW x \in Activation, Each(h, x),
         st # <<>> => Pair(st[Len(st)], x), NEW pk, OnTop(h, x, pk)
  PROVE  Grouped(h, Append(st, x), pk)
<1>. DEFINE r == Append(st, x)
<1>1. Piled(h, r)
  BY PiledPush
<1>2. r[Len(r)] = x
  BY SeqPush
<1>. HIDE DEF r
<1>. QED  BY <1>1, <1>2 DEF Grouped, r

\* A parselet of the same kind, with the same operands.
Alike(t, a) == t.fn = "parselet" /\ a.fn = "parselet" /\ a.op = t.op /\ a.kids = t.kids

\* What is left to do when the parselet goes on.
Proceeds(op, todo, todo2, pk, qk) ==
  op \in Trailing =>
    /\ Coming(op, todo) => op \notin Binary /\ Coming(op, todo2)
    /\ todo \in Rests(op) => \/ todo2 \in Rests(op) /\ qk = pk
                             \/ op \notin Binary /\ Coming(op, todo2)

\* The parselet on top goes on.
LEMMA ParseletProceeds ==
  ASSUME NEW h, NEW st \in Seq(Activation), st # <<>>, NEW pk, Grouped(h, st, pk),
         NEW t, t = st[Len(st)], NEW a \in Activation, Alike(t, a),
         NEW qk, Proceeds(t.op, t.todo, a.todo, pk, qk)
  PROVE  Grouped(h, SetLast(st, a), qk)
<1>1. Piled(h, st) /\ OnTop(h, t, pk)
  BY DEF Grouped
<1>2. Each(h, a)
  <2>1. Each(h, t)
    <3>1. Len(st) \in 1 .. Len(st)
      BY LenProperties, EmptySeq
    <3>. QED  BY <1>1, <3>1 DEF Piled
  <2>. QED  BY <2>1 DEF Each, Alike
<1>3. \A b \in Activation : Pair(b, t) => Pair(b, a)
  BY DEF Pair, Alike
<1>4. OnTop(h, a, qk)
  <2>1. a.fn # "parseExpr"
    BY DEF Alike
  <2>2. ASSUME a.op \in Trailing
        PROVE  \/ Coming(a.op, a.todo) /\ (a.op \in Binary => Len(a.kids) = 1)
               \/ a.todo \in Rests(a.op) /\ IsClosed(h, a, qk)
    <3>1. t.op = a.op /\ t.kids = a.kids
      BY DEF Alike
    <3>2. \/ Coming(a.op, t.todo) /\ (a.op \in Binary => Len(a.kids) = 1)
          \/ t.todo \in Rests(a.op) /\ IsClosed(h, t, pk)
      BY <1>1, <2>2, <3>1, Zenon DEF OnTop, Alike
    <3>3. IsClosed(h, t, pk) => IsClosed(h, a, pk)
      BY <3>1 DEF IsClosed
    <3>4. CASE Coming(a.op, t.todo) /\ (a.op \in Binary => Len(a.kids) = 1)
      BY <2>2, <3>1, <3>4, Zenon DEF Proceeds
    <3>5. CASE t.todo \in Rests(a.op) /\ IsClosed(h, t, pk)
      BY <2>2, <3>1, <3>3, <3>5, Zenon DEF Proceeds
    <3>. QED  BY <3>2, <3>4, <3>5
  <2>. QED  BY <2>1, <2>2, Zenon DEF OnTop
<1>. QED  BY <1>1, <1>2, <1>3, <1>4, TopGrouped

\* The state before and after a step of the parsing.
Parses == PrattInv /\ PrecInv /\ PrattInv' /\ outcome = "parsing" /\ outcome' = "parsing"

\* What both invariants say while the text is parsed.
LEMMA ParsesIn ==
  ASSUME Parses
  PROVE  /\ stack \in Seq(Activation) /\ stack' \in Seq(Activation)
         /\ Grown(heap) /\ Grown(heap') /\ Arranged(heap) /\ Grouped(heap, stack, Peek)
<1>1. stack \in Seq(Activation)
  BY WhileParsing DEF Parses
<1>2. Grown(heap) /\ Grown(heap')
  BY DEF Parses, PrattInv
<1>3. Working'
  BY DEF Parses, PrattInv
<1>4. stack' \in Seq(Activation)
  BY <1>3 DEF Parses, Working, Works, Stacked
<1>. QED  BY <1>1, <1>2, <1>4 DEF Parses, PrecInv

\* The parselet on top goes on as a.
LEMMA PrecProceeds ==
  ASSUME Parses, InParselet, heap' = heap, NEW a, stack' = Append(Callers, a), Alike(Top, a),
         Proceeds(Top.op, Top.todo, a.todo, Peek, Peek')
  PROVE  PrecInv'
<1>1. /\ stack \in Seq(Activation) /\ stack' \in Seq(Activation)
      /\ Arranged(heap) /\ Grouped(heap, stack, Peek)
  BY ParsesIn
<1>2. stack # <<>> /\ Top = stack[Len(stack)]
  BY InParseletWorks DEF Parses
<1>3. Front(stack) \in Seq(Activation)
  BY <1>1, <1>2, FrontOfSeq
<1>4. stack' = Append(Front(stack), a)
  BY DEF Callers
<1>5. a \in Activation
  BY <1>1, <1>3, <1>4, LastPushed
<1>6. stack' = SetLast(stack, a)
  BY <1>1, <1>2, <1>4, <1>5, Goes
<1>7. Grouped(heap, SetLast(stack, a), Peek')
  BY <1>1, <1>2, <1>5, ParseletProceeds
<1>. QED  BY <1>1, <1>6, <1>7 DEF PrecInv

\* A parselet that goes on is of the same kind.
LEMMA WithTodo ==
  ASSUME NEW t \in ParseletActivation, NEW todo
  PROVE  Alike(t, [t EXCEPT !.todo = todo]) /\ [t EXCEPT !.todo = todo].todo = todo
  BY DEF Alike, ParseletActivation

\* The parselet on top goes on with the given list.
LEMMA PrecContinues ==
  ASSUME Parses, InParselet, heap' = heap, NEW todo, Continue(todo),
         Proceeds(Top.op, Top.todo, todo, Peek, Peek')
  PROVE  PrecInv'
<1>1. Top \in ParseletActivation
  BY InParseletWorks DEF Parses
<1>. DEFINE a == [Top EXCEPT !.todo = todo]
<1>2. stack' = Append(Callers, a)
  BY DEF Continue
<1>3. Alike(Top, a) /\ a.todo = todo
  BY <1>1, WithTodo
<1>. HIDE DEF a
<1>. QED  BY <1>2, <1>3, PrecProceeds

\* An item that changes no stack of definitions.
LEMMA NeutralHead ==
  ASSUME NEW todo \in Seq(ParseletItem), todo # <<>>,
         Head(todo).do \in {"consume", "optional", "rule", "become", "expression"}
  PROVE  Head(todo) \in Neutral("")
<1>1. Head(todo) \in ParseletItem
  BY HeadTailProperties
<1>2. \A x \in {Push("Local"), Push("Instance"), Pop, Enter, Leave} :
        x.do \notin {"consume", "optional", "rule", "become", "expression"}
  <2>1. /\ Push("Local").do = "push storage" /\ Push("Instance").do = "push storage"
        /\ Pop.do = "pop storage" /\ Enter.do = "enter template" /\ Leave.do = "leave template"
    BY DEF Push, Pop, Enter, Leave
  <2>. QED  BY <2>1
<1>. QED  BY <1>1, <1>2 DEF ParseletItem

\* The parts of items are lists of items.
LEMMA NeutralLists ==
  /\ Seq(Neutral("")) \subseteq Seq(ParseletItem)
  /\ \A r \in RuleName : <<Rule(r)>> \in Seq(ParseletItem)
<1>. DEFINE N == Neutral("")
            P == ParseletItem
<1>1. N \subseteq P
  BY DEF ParseletItem
<1>2. \A r \in RuleName : Rule(r) \in P
  BY <1>1, SimpleItems
<1>. HIDE DEF N, P
<1>3. Seq(N) \subseteq Seq(P)
  BY <1>1, SeqMonotonic
<1>4. \A r \in RuleName : <<Rule(r)>> \in Seq(P)
  BY <1>2, Lists
<1>. QED  BY <1>3, <1>4 DEF N, P

\* What comes next, when it is not the last operand.
LEMMA ProceedsBy ==
  ASSUME NEW op, NEW todo, todo # <<>>, NEW todo2, NEW pk, NEW qk,
         Head(todo).do # "expression",
         op \in Trailing /\ Coming(op, todo) => todo2 = Tail(todo) \/ \E ys \in Seq(ParseletItem) : todo2 = ys \o Tail(todo),
         op \in Trailing /\ todo \in Rests(op) => (todo2 \in Rests(op) /\ qk = pk) \/ (op \notin Binary /\ Coming(op, todo2))
  PROVE  Proceeds(op, todo, todo2, pk, qk)
<1>. SUFFICES ASSUME op \in Trailing
              PROVE  Proceeds(op, todo, todo2, pk, qk)
  BY DEF Proceeds
<1>1. ASSUME Coming(op, todo)
      PROVE  op \notin Binary /\ Coming(op, todo2)
  <2>1. Head(todo) # ParseExpr(Bound(op))
    BY ExpressionItem
  <2>2. /\ op \notin Binary /\ Coming(op, Tail(todo))
        /\ \A ys \in Seq(ParseletItem) : Coming(op, ys \o Tail(todo))
    BY <1>1, <2>1, ComingNext
  <2>. QED  BY <1>1, <2>2
<1>. QED  BY <1>1 DEF Proceeds

\* A token is consumed, which no last operand precedes.
LEMMA PrecConsumed ==
  ASSUME Parses, Consumed
  PROVE  PrecInv'
<1>1. /\ InParselet /\ Top.todo # <<>> /\ Item.do = "consume" /\ Item = Head(Top.todo) /\ Peek \in Item.kinds
      /\ heap' = heap
      /\ Continue(IF Peek = "," THEN <<Rule(Item.again)>> \o Tail(Top.todo) ELSE Tail(Top.todo))
  BY DEF Consumed, Doing, Item
<1>2. Top \in ParseletActivation
  BY <1>1, InParseletWorks DEF Parses
<1>3. Top.todo \in Seq(ParseletItem)
  BY <1>2 DEF ParseletActivation
<1>4. Item \in Neutral("")
  BY <1>1, <1>3, NeutralHead
<1>5. Peek = "," => <<Rule(Item.again)>> \in Seq(ParseletItem)
  BY <1>1, <1>4, NeutralItem, NeutralLists
<1>6. Top.op \in Trailing => Top.todo \notin Rests(Top.op)
  BY <1>1, RestNext
<1>. DEFINE todo == IF Peek = "," THEN <<Rule(Item.again)>> \o Tail(Top.todo) ELSE Tail(Top.todo)
<1>7. todo = Tail(Top.todo) \/ \E ys \in Seq(ParseletItem) : todo = ys \o Tail(Top.todo)
  BY <1>5
<1>8. Continue(todo)
  BY <1>1
<1>. HIDE DEF todo
<1>9. Proceeds(Top.op, Top.todo, todo, Peek, Peek')
  BY <1>1, <1>6, <1>7, ProceedsBy
<1>. QED  BY <1>1, <1>8, <1>9, PrecContinues

\* A branch is taken, or not: an else makes another operand the last one.
LEMMA PrecOptional ==
  ASSUME Parses, TakeOptional \/ WithoutOptional
  PROVE  PrecInv'
<1>1. /\ InParselet /\ Top.todo # <<>> /\ Item.do = "optional" /\ Item = Head(Top.todo) /\ heap' = heap
      /\ input' = input
  BY DEF TakeOptional, WithoutOptional, Doing, Item
<1>2. Top \in ParseletActivation
  BY <1>1, InParseletWorks DEF Parses
<1>3. Top.todo \in Seq(ParseletItem)
  BY <1>2 DEF ParseletActivation
<1>4. Item \in Neutral("")
  BY <1>1, <1>3, NeutralHead
<1>5. Item.yes \in Seq(ParseletItem) /\ Item.no \in Seq(ParseletItem)
  BY <1>1, <1>4, NeutralItem, NeutralLists
<1>6. Top.op \in Trailing /\ Top.todo \in Rests(Top.op) =>
        /\ Top.op \notin Binary /\ Coming(Top.op, Item.yes \o Tail(Top.todo))
        /\ Item.no \o Tail(Top.todo) \in Rests(Top.op)
  <2>1. "if" \notin Binary
    BY DEF Binary
  <2>. QED  BY <1>1, <2>1, RestNext
<1>7. CASE TakeOptional
  <2>1. Continue(Item.yes \o Tail(Top.todo))
    BY <1>7 DEF TakeOptional
  <2>2. Proceeds(Top.op, Top.todo, Item.yes \o Tail(Top.todo), Peek, Peek')
    BY <1>1, <1>5, <1>6, ProceedsBy
  <2>. QED  BY <1>1, <2>1, <2>2, PrecContinues
<1>8. CASE WithoutOptional
  <2>1. Continue(Item.no \o Tail(Top.todo)) /\ pos' = pos
    BY <1>8 DEF WithoutOptional
  <2>2. Peek' = Peek
    BY <1>1, <2>1 DEF Peek
  <2>3. PICK qk : qk = Peek'
    OBVIOUS
  <2>4. Proceeds(Top.op, Top.todo, Item.no \o Tail(Top.todo), Peek, qk)
    BY <1>1, <1>5, <1>6, <2>2, <2>3, ProceedsBy
  <2>. QED  BY <1>1, <2>1, <2>3, <2>4, PrecContinues
<1>. QED  BY <1>7, <1>8

\* A rule of the grammar replaces its name.
LEMMA PrecRule ==
  ASSUME Parses, FollowRule
  PROVE  PrecInv'
<1>1. /\ InParselet /\ Top.todo # <<>> /\ Item.do = "rule" /\ Item = Head(Top.todo) /\ heap' = heap
      /\ Continue(Grammar(Item.name) \o Tail(Top.todo))
  BY DEF FollowRule, Doing, Item
<1>2. Top \in ParseletActivation
  BY <1>1, InParseletWorks DEF Parses
<1>3. Top.todo \in Seq(ParseletItem)
  BY <1>2 DEF ParseletActivation
<1>4. Item \in Neutral("")
  BY <1>1, <1>3, NeutralHead
<1>5. Grammar(Item.name) \in Seq(ParseletItem)
  BY <1>1, <1>4, NeutralItem, NeutralLists, GrammarIsNeutral
<1>6. Top.op \in Trailing => Top.todo \notin Rests(Top.op)
  BY <1>1, RestNext
<1>7. Proceeds(Top.op, Top.todo, Grammar(Item.name) \o Tail(Top.todo), Peek, Peek')
  BY <1>1, <1>5, <1>6, ProceedsBy
<1>. QED  BY <1>1, <1>7, PrecContinues

\* An item that only the two stacks of definitions are concerned with.
LEMMA ProceedsBehind ==
  ASSUME NEW op, NEW todo, todo # <<>>, NEW pk, NEW qk, qk = pk,
         Head(todo).do \in {"push storage", "pop storage", "enter template", "leave template"}
  PROVE  Proceeds(op, todo, Tail(todo), pk, qk)
<1>1. Head(todo).do # "expression" /\ Head(todo).do # "optional"
  OBVIOUS
<1>2. op \in Trailing /\ todo \in Rests(op) => Tail(todo) \in Rests(op)
  BY <1>1, RestNext
<1>3. PICK todo2 : todo2 = Tail(todo)
  OBVIOUS
<1>4. Proceeds(op, todo, todo2, pk, qk)
  BY <1>1, <1>2, <1>3, ProceedsBy
<1>. QED  BY <1>3, <1>4

\* The two stacks of definitions have no say in it.
LEMMA PrecDefinitions ==
  ASSUME Parses, PushStorage \/ PopStorage \/ EnterTemplate \/ LeaveTemplate
  PROVE  PrecInv'
<1>1. /\ InParselet /\ Top.todo # <<>> /\ heap' = heap
      /\ Head(Top.todo).do \in {"push storage", "pop storage", "enter template", "leave template"}
  BY DEF PushStorage, PopStorage, EnterTemplate, LeaveTemplate, Doing
<1>2. pos' = pos /\ input' = input
  BY DEF PushStorage, PopStorage, EnterTemplate, LeaveTemplate
<1>3. Peek' = Peek
  BY <1>2 DEF Peek
<1>4. Proceeds(Top.op, Top.todo, Tail(Top.todo), Peek, Peek')
  <2>1. PICK todo : todo = Top.todo
    OBVIOUS
  <2>2. Head(todo).do \in {"push storage", "pop storage", "enter template", "leave template"} /\ todo # <<>>
    BY <1>1, <2>1
  <2>3. Proceeds(Top.op, todo, Tail(todo), Peek, Peek')
    BY <1>3, <2>2, ProceedsBehind
  <2>. QED  BY <2>1, <2>3
<1>5. \/ Continue(Tail(Top.todo))
      \/ stack' = Append(Callers, [Top EXCEPT !.todo = Tail(@), !.parameters = Last(templateParameters)])
  BY DEF PushStorage, PopStorage, EnterTemplate, LeaveTemplate
<1>6. CASE Continue(Tail(Top.todo))
  BY <1>1, <1>4, <1>6, PrecContinues
<1>7. CASE stack' = Append(Callers, [Top EXCEPT !.todo = Tail(@), !.parameters = Last(templateParameters)])
  <2>1. Top \in ParseletActivation
    BY <1>1, InParseletWorks DEF Parses
  <2>. DEFINE a == [Top EXCEPT !.todo = Tail(@), !.parameters = Last(templateParameters)]
  <2>2. Alike(Top, a) /\ a.todo = Tail(Top.todo)
    BY <2>1 DEF Alike, ParseletActivation
  <2>3. stack' = Append(Callers, a)
    BY <1>7
  <2>. HIDE DEF a
  <2>. QED  BY <1>1, <1>4, <2>2, <2>3, PrecProceeds
<1>. QED  BY <1>5, <1>6, <1>7

\* The activation on top.
LEMMA Members ==
  ASSUME Parses, NEW h, Piled(h, stack), stack # <<>>
  PROVE  Each(h, stack[Len(stack)]) /\ Top = stack[Len(stack)] /\ Top \in Activation
<1>1. stack \in Seq(Activation)
  BY ParsesIn
<1>2. Len(stack) \in 1 .. Len(stack)
  BY <1>1, LenProperties, EmptySeq
<1>. QED  BY <1>1, <1>2, ElementOfSeq DEF Piled, Top, Last

\* A member access that turns out to be a call stays where it is.
LEMMA DotIsCall ==
  /\ "." \in InfixOps /\ "call" \in InfixOps /\ "declare" \notin InfixOps
  /\ "declare" \notin Trailing /\ "call" \notin Trailing
  /\ Tight(".") = 14 /\ Tight("call") = 14
  /\ \A x : GoesLeft(x, ".") <=> GoesLeft(x, "call")
<1>1. Tight(".") = 14 /\ Tight("call") = 14
  BY Precedences DEF Tight
<1>2. ~RightAssociative(".") /\ ~RightAssociative("call")
  BY DEF RightAssociative
<1>3. \A x : GoesLeft(x, ".") <=> GoesLeft(x, "call")
  BY <1>1, <1>2, Zenon DEF GoesLeft
<1>. QED  BY <1>1, <1>3 DEF InfixOps, Binary, Trailing, Openers

\* A member access becomes a call, which groups alike, and an identifier a declaration.
LEMMA PrecTurn ==
  ASSUME Parses, Turn
  PROVE  PrecInv'
<1>1. /\ InParselet /\ Top.todo # <<>> /\ Item.do = "become" /\ Item = Head(Top.todo) /\ heap' = heap
      /\ stack' = Append(Callers, IF Item.op = "generic" THEN [Top EXCEPT !.todo = Tail(@), !.generic = TRUE]
                                                         ELSE [Top EXCEPT !.todo = Tail(@), !.op = Item.op])
      /\ input' = input /\ pos' = pos
  BY DEF Turn, Doing, Item
<1>2. PICK e : Top \in ParseletActivation /\ Follows(Top.op, Top.todo, e)
  BY <1>1, InParseletWorks DEF Parses
<1>3. Item.op \in Turns(Top.op)
  BY <1>1, <1>2, BecomeNext
<1>4. CASE Item.op = "generic"
  <2>. DEFINE a == [Top EXCEPT !.todo = Tail(@), !.generic = TRUE]
  <2>1. Alike(Top, a) /\ a.todo = Tail(Top.todo)
    BY <1>2 DEF Alike, ParseletActivation
  <2>2. stack' = Append(Callers, a)
    BY <1>1, <1>4
  <2>. HIDE DEF a
  <2>3. Top.op \in Trailing => Top.todo \notin Rests(Top.op)
    BY <1>1, RestNext
  <2>4. Proceeds(Top.op, Top.todo, a.todo, Peek, Peek')
    BY <1>1, <2>1, <2>3, ProceedsBy
  <2>. QED  BY <1>1, <2>1, <2>2, <2>4, PrecProceeds
<1>5. CASE Item.op # "generic"
  <2>. DEFINE a == [Top EXCEPT !.todo = Tail(@), !.op = Item.op]
  <2>1. /\ a.fn = "parselet" /\ a.op = Item.op /\ a.kids = Top.kids /\ Top.fn = "parselet"
    BY <1>2 DEF ParseletActivation
  <2>2. stack' = Append(Callers, a)
    BY <1>1, <1>5
  <2>. HIDE DEF a
  <2>3. /\ stack \in Seq(Activation) /\ stack' \in Seq(Activation)
        /\ Arranged(heap) /\ Grouped(heap, stack, Peek)
    BY ParsesIn
  <2>4. stack # <<>> /\ Top = stack[Len(stack)]
    BY <1>1, InParseletWorks DEF Parses
  <2>5. Front(stack) \in Seq(Activation) /\ stack' = Append(Front(stack), a)
    BY <2>2, <2>3, <2>4, FrontOfSeq DEF Callers
  <2>6. a \in Activation
    BY <2>3, <2>5, LastPushed
  <2>7. stack' = SetLast(stack, a)
    BY <2>3, <2>4, <2>5, <2>6, Goes
  <2>8. Top.op # ""
    BY <1>2 DEF ParseletActivation, Operator, TokenKind, Binary, Literal
  <2>9. \/ a.op = "declare"
        \/ a.op = "call" /\ Top.op \in {".", "call"}
    BY <1>3, <1>5, <2>1, <2>8 DEF Turns
  <2>10. Piled(heap, stack) /\ Each(heap, Top)
    BY <2>3, <2>4, Members DEF Grouped
  <2>11. Each(heap, a)
    <3>1. ASSUME a.op = "call", Top.op \in {".", "call"}
          PROVE  a.kids # <<>> /\ FitsLeft(heap, a.kids[1], a.op)
      <4>1. a.kids # <<>> /\ FitsLeft(heap, a.kids[1], Top.op)
        BY <2>1, <2>10, <3>1, DotIsCall DEF Each
      <4>2. \A x : GoesLeft(x, Top.op) => GoesLeft(x, a.op)
        BY <3>1, DotIsCall
      <4>. QED  BY <4>1, <4>2, Zenon DEF FitsLeft
    <3>. QED  BY <2>9, <3>1, DotIsCall DEF Each
  <2>12. \A b \in Activation : Pair(b, Top) => Pair(b, a)
    <3>. SUFFICES ASSUME NEW b \in Activation, Pair(b, Top)
                  PROVE  Pair(b, a)
      OBVIOUS
    <3>1. b.fn # "parselet"
      BY <2>1 DEF Pair
    <3>2. ASSUME b.fn = "parseExpr"
          PROVE  b.left = None /\ (a.op \in InfixOps => Tight(a.op) > b.precedence)
      <4>1. b.left = None /\ (Top.op \in InfixOps => Tight(Top.op) > b.precedence)
        BY <3>2 DEF Pair
      <4>2. a.op \in InfixOps => Top.op \in InfixOps /\ Tight(a.op) = Tight(Top.op)
        BY <2>9, DotIsCall
      <4>. QED  BY <4>1, <4>2
    <3>. QED  BY <2>1, <3>1, <3>2 DEF Pair
  <2>13. OnTop(heap, a, Peek')
    <3>1. a.op \notin Trailing /\ a.fn # "parseExpr"
      BY <2>1, <2>9, DotIsCall
    <3>. QED  BY <3>1, Zenon DEF OnTop
  <2>14. Grouped(heap, stack', Peek')
    BY <2>3, <2>4, <2>6, <2>7, <2>10, <2>11, <2>12, <2>13, TopGrouped
  <2>. QED  BY <1>1, <2>3, <2>14 DEF PrecInv
<1>. QED  BY <1>4, <1>5

\* A parselet calls parseExpr, for its last operand with the bound of its operator.
LEMMA PrecCall ==
  ASSUME Parses, CallParseExpr
  PROVE  PrecInv'
<1>. DEFINE a == [Top EXCEPT !.todo = Tail(@)]
            x == ExprFrame(Item.precedence)
<1>1. /\ InParselet /\ Top.todo # <<>> /\ Item = Head(Top.todo) /\ Item.do = "expression" /\ heap' = heap
      /\ stack' = Append(Append(Callers, a), x)
  BY DEF CallParseExpr, Doing, Item
<1>2. Top \in ParseletActivation /\ stack # <<>> /\ Top = stack[Len(stack)]
  BY <1>1, InParseletWorks DEF Parses
<1>3. /\ stack \in Seq(Activation) /\ stack' \in Seq(Activation)
      /\ Arranged(heap) /\ Grouped(heap, stack, Peek)
  BY ParsesIn
<1>4. a \in Activation /\ Alike(Top, a) /\ a.todo = Tail(Top.todo)
  <2>1. Tail(Top.todo) \in Seq(ParseletItem)
    BY <1>1, <1>2, HeadTailProperties DEF ParseletActivation
  <2>. QED  BY <1>2, <2>1 DEF Activation, ParseletActivation, Alike
<1>5. x.fn = "parseExpr" /\ x.precedence = Item.precedence /\ x.left = None
  BY DEF ExprFrame
<1>. HIDE DEF a, x
<1>6. SetLast(stack, a) \in Seq(Activation) /\ Append(Callers, a) = SetLast(stack, a)
  <2>1. SetLast(stack, a) \in Seq(Activation)
    BY <1>2, <1>3, <1>4, SetLastOfSeq
  <2>. QED  BY <1>2, <1>3, <1>4, <2>1, Goes DEF Callers
<1>7. stack' = Append(SetLast(stack, a), x) /\ x \in Activation
  BY <1>1, <1>3, <1>6, LastPushed
<1>8. Piled(heap, stack) /\ Each(heap, Top) /\ OnTop(heap, Top, Peek)
  BY <1>2, <1>3, Members DEF Grouped
<1>9. Each(heap, a) /\ \A b \in Activation : Pair(b, Top) => Pair(b, a)
  BY <1>4, <1>8 DEF Each, Alike, Pair
<1>10. Piled(heap, SetLast(stack, a))
  BY <1>2, <1>3, <1>4, <1>8, <1>9, PiledTop
<1>11. Each(heap, x) /\ OnTop(heap, x, Peek')
  BY <1>5 DEF Each, OnTop
<1>12. Pair(a, x)
  <2>1. ASSUME a.op \in Trailing
        PROVE  \/ Coming(a.op, a.todo) /\ a.op \notin Binary
               \/ a.todo \in Rests(a.op) /\ x.precedence = Bound(a.op) /\ (a.op \in Binary => Len(a.kids) = 1)
    <3>1. a.op = Top.op /\ a.kids = Top.kids /\ Top.fn = "parselet"
      BY <1>4 DEF Alike
    <3>2. Top.todo \notin Rests(Top.op)
      BY <1>1, <2>1, <3>1, RestNext
    <3>3. Coming(Top.op, Top.todo) /\ (a.op \in Binary => Len(a.kids) = 1)
      BY <1>8, <2>1, <3>1, <3>2, Zenon DEF OnTop
    <3>4. \/ Top.op \notin Binary /\ Coming(Top.op, Tail(Top.todo))
          \/ Head(Top.todo) = ParseExpr(Bound(Top.op)) /\ Tail(Top.todo) \in Rests(Top.op)
      BY <2>1, <3>1, <3>3, ComingNext
    <3>5. ParseExpr(Bound(Top.op)).precedence = Bound(Top.op)
      BY ExpressionItem
    <3>. QED  BY <1>1, <1>4, <1>5, <3>1, <3>3, <3>4, <3>5
  <2>. QED  BY <1>4, <1>5, <2>1 DEF Pair, Alike
<1>13. SetLast(stack, a)[Len(SetLast(stack, a))] = a
  <2>1. Len(stack) \in DOMAIN stack
    BY <1>2, <1>3, LenProperties, EmptySeq
  <2>. QED  BY <1>2, <1>3, <1>4, <2>1, SetLastOfSeq
<1>14. Grouped(heap, stack', Peek')
  BY <1>6, <1>7, <1>10, <1>11, <1>12, <1>13, PushGrouped
<1>. QED  BY <1>1, <1>3, <1>14 DEF PrecInv

\* parseModule calls parseExpr.
LEMMA PrecStatement ==
  ASSUME Parses, Statement
  PROVE  PrecInv'
<1>. DEFINE x == ExprFrame(0)
<1>1. stack = <<>> /\ stack' = <<x>> /\ heap' = heap
  BY DEF Statement
<1>2. x.fn = "parseExpr" /\ x.left = None
  BY DEF ExprFrame
<1>. HIDE DEF x
<1>3. stack' \in Seq(Activation) /\ stack \in Seq(Activation) /\ Arranged(heap) /\ Piled(heap, stack)
  BY ParsesIn DEF Grouped
<1>4. stack' = Append(stack, x)
  BY <1>1
<1>5. x \in Activation
  BY <1>3, <1>4, LastPushed
<1>6. Each(heap, x) /\ OnTop(heap, x, Peek')
  BY <1>2 DEF Each, OnTop
<1>7. Grouped(heap, stack', Peek')
  BY <1>1, <1>3, <1>4, <1>5, <1>6, PushGrouped
<1>. QED  BY <1>1, <1>3, <1>7 DEF PrecInv

\* Lists of some items and of a few more.
LEMMA FurtherLists ==
  ASSUME NEW a, NEW b, NEW c, NEW d, NEW e, NEW f, NEW g, NEW h
  PROVE  /\ <<a, b, c>> \o <<d>> = <<a, b, c, d>>
         /\ <<a, b, c>> \o <<d, e>> = <<a, b, c, d, e>>
         /\ <<a, b, c, d, e, f>> \o <<g, h>> = <<a, b, c, d, e, f, g, h>>
<1>. DEFINE S == {a, b, c, d, e, f, g, h}
            s3 == <<a, b, c>>
            s6 == <<a, b, c, d, e, f>>
            t1 == <<d>>
            t2 == <<d, e>>
            u2 == <<g, h>>
            r4 == <<a, b, c, d>>
            r5 == <<a, b, c, d, e>>
            r8 == <<a, b, c, d, e, f, g, h>>
<1>1. /\ s3 \in Seq(S) /\ s6 \in Seq(S) /\ t1 \in Seq(S) /\ t2 \in Seq(S)
      /\ u2 \in Seq(S) /\ r4 \in Seq(S) /\ r5 \in Seq(S) /\ r8 \in Seq(S)
  OBVIOUS
<1>2. s3 \o t1 = r4
  <2>1. (\A i \in 1 .. Len(s3) : r4[i] = s3[i]) /\ (\A i \in 1 .. Len(t1) : r4[Len(s3) + i] = t1[i])
    OBVIOUS
  <2>2. Len(r4) = Len(s3) + Len(t1)
    OBVIOUS
  <2>. HIDE DEF S, s3, t1, r4
  <2>. QED  BY <1>1, <2>1, <2>2, ConcatEqual
<1>3. s3 \o t2 = r5
  <2>1. (\A i \in 1 .. Len(s3) : r5[i] = s3[i]) /\ (\A i \in 1 .. Len(t2) : r5[Len(s3) + i] = t2[i])
    OBVIOUS
  <2>2. Len(r5) = Len(s3) + Len(t2)
    OBVIOUS
  <2>. HIDE DEF S, s3, t2, r5
  <2>. QED  BY <1>1, <2>1, <2>2, ConcatEqual
<1>4. s6 \o u2 = r8
  <2>1. (\A i \in 1 .. Len(s6) : r8[i] = s6[i]) /\ (\A i \in 1 .. Len(u2) : r8[Len(s6) + i] = u2[i])
    OBVIOUS
  <2>2. Len(r8) = Len(s6) + Len(u2)
    OBVIOUS
  <2>. HIDE DEF S, s6, u2, r8
  <2>. QED  BY <1>1, <2>1, <2>2, ConcatEqual
<1>. QED  BY <1>2, <1>3, <1>4

\* Four items and three.
LEMMA FourAndThree ==
  ASSUME NEW a, NEW b, NEW c, NEW d, NEW e, NEW f, NEW g
  PROVE  \A s, t, r : s = <<a, b, c, d>> /\ t = <<e, f, g>> /\ r = <<a, b, c, d, e, f, g>> => s \o t = r
<1>. DEFINE S == {a, b, c, d, e, f, g}
            s == <<a, b, c, d>>
            t == <<e, f, g>>
            r == <<a, b, c, d, e, f, g>>
<1>1. s \in Seq(S) /\ t \in Seq(S) /\ r \in Seq(S)
  OBVIOUS
<1>2. (\A i \in 1 .. Len(s) : r[i] = s[i]) /\ (\A i \in 1 .. Len(t) : r[Len(s) + i] = t[i])
  OBVIOUS
<1>3. Len(r) = Len(s) + Len(t)
  OBVIOUS
<1>4. s \o t = r
  <2>. HIDE DEF S, s, t, r
  <2>. QED  BY <1>1, <1>2, <1>3, ConcatEqual
<1>. QED  BY <1>4

\* The parselet of a prefix begins with the last operand to come.
LEMMA PrefixComing ==
  ASSUME NEW kind, Prefix(kind) # <<None>>, Prefix(kind) \in Seq(ParseletItem)
  PROVE  /\ kind \notin InfixOps
         /\ kind \in Trailing => Coming(kind, Prefix(kind))
<1>. DEFINE P == ParseletItem
<1>1. kind \notin Binary
  BY DEF Prefix, Binary, Literal
<1>2. kind \notin {".", "call"}
  BY DEF Prefix, Literal
<1>3. {"!", "++", "if", "while", "func", "class"} \cap Binary = {}
  BY DEF Binary
<1>4. CASE kind \in {"!", "++"}
  <2>1. Prefix(kind) = <<Expression>>
    BY <1>4 DEF Prefix, Literal
  <2>2. <<Expression>> \in Finals(kind)
    BY <1>1, <1>4 DEF Finals
  <2>3. <<>> \o <<Expression>> = <<Expression>> /\ <<>> \in Seq(P)
    OBVIOUS
  <2>. QED  BY <1>1, <1>2, <2>1, <2>2, <2>3 DEF Coming, InfixOps
<1>5. CASE kind = "if"
  <2>. DEFINE xs == <<Consume("("), Expression, Consume(")")>>
              f  == <<Expression, Else>>
  <2>1. Prefix(kind) = <<Consume("("), Expression, Consume(")"), Expression, Else>>
    BY <1>5 DEF Prefix, Literal, Else
  <2>2. Prefix(kind) = xs \o f
    BY <2>1, FurtherLists
  <2>3. f \in Finals(kind)
    BY <1>1, <1>5 DEF Finals
  <2>4. \A i \in 1 .. 5 : Prefix(kind)[i] \in P
    BY <2>1, ElementOfSeq
  <2>5. xs \in Seq(P)
    <3>1. Consume("(") \in P /\ Expression \in P /\ Consume(")") \in P
      BY <2>1, <2>4
    <3>. QED  BY <3>1, Lists
  <2>. HIDE DEF xs, f
  <2>. QED  BY <1>1, <1>2, <2>2, <2>3, <2>5 DEF Coming, InfixOps
<1>6. CASE kind = "while"
  <2>. DEFINE xs == <<Consume("("), Expression, Consume(")")>>
              f  == <<Expression>>
  <2>1. Prefix(kind) = <<Consume("("), Expression, Consume(")"), Expression>>
    BY <1>6 DEF Prefix, Literal
  <2>2. Prefix(kind) = xs \o f
    BY <2>1, FurtherLists
  <2>3. f \in Finals(kind)
    BY <1>1, <1>6 DEF Finals
  <2>4. \A i \in 1 .. 4 : Prefix(kind)[i] \in P
    BY <2>1, ElementOfSeq
  <2>5. xs \in Seq(P)
    <3>1. Consume("(") \in P /\ Expression \in P /\ Consume(")") \in P
      BY <2>1, <2>4
    <3>. QED  BY <3>1, Lists
  <2>. HIDE DEF xs, f
  <2>. QED  BY <1>1, <1>2, <2>2, <2>3, <2>5 DEF Coming, InfixOps
<1>7. CASE kind = "func"
  <2>. DEFINE xs == <<Consume("id"), Consume(":"), Rule("type"), Consume("("), Rule("parameters"), Push("Local")>>
              f  == <<Expression, Pop>>
  <2>1. Prefix(kind) = <<Consume("id"), Consume(":"), Rule("type"), Consume("("), Rule("parameters"), Push("Local"), Expression, Pop>>
    BY <1>7 DEF Prefix, Literal
  <2>2. Prefix(kind) = xs \o f
    BY <2>1, FurtherLists
  <2>3. f \in Finals(kind)
    BY <1>1, <1>7 DEF Finals
  <2>4. \A i \in 1 .. 8 : Prefix(kind)[i] \in P
    BY <2>1, ElementOfSeq
  <2>5. xs \in Seq(P)
    <3>1. Consume("id") \in P /\ Consume(":") \in P /\ Rule("type") \in P /\ Consume("(") \in P /\ Rule("parameters") \in P /\ Push("Local") \in P
      BY <2>1, <2>4
    <3>. QED  BY <3>1, Lists
  <2>. HIDE DEF xs, f
  <2>. QED  BY <1>1, <1>2, <2>2, <2>3, <2>5 DEF Coming, InfixOps
<1>8. CASE kind = "class"
  <2>1. PICK a, b, c, d : a = Consume("id") /\ b = Rule("template parameters") /\ c = Enter /\ d = Push("Instance")
    OBVIOUS
  <2>2. Prefix(kind) = <<a, b, c, d, Expression, Pop, Leave>>
    BY <1>8, <2>1 DEF Prefix, Literal
  <2>3. PICK xs, f : xs = <<a, b, c, d>> /\ f = <<Expression, Pop, Leave>>
    OBVIOUS
  <2>4. Prefix(kind) = xs \o f
    BY <2>2, <2>3, FourAndThree
  <2>5. f \in Finals(kind)
    BY <1>1, <1>8, <2>3 DEF Finals
  <2>6. \A i \in 1 .. 7 : Prefix(kind)[i] \in P
    BY <2>2, ElementOfSeq
  <2>7. a \in P /\ b \in P /\ c \in P /\ d \in P
    BY <2>2, <2>6
  <2>8. xs \in Seq(P)
    BY <2>3, <2>7, Lists
  <2>. QED  BY <1>1, <1>2, <1>8, <2>4, <2>5, <2>8 DEF Coming, InfixOps
<1>9. CASE kind \notin Trailing
  BY <1>1, <1>2, <1>9 DEF InfixOps
<1>10. kind # "anonymous"
  BY DEF Prefix, Literal
<1>. QED  BY <1>1, <1>4, <1>5, <1>6, <1>7, <1>8, <1>9, <1>10 DEF Trailing, Openers

-----------------------------------------------------------------------------
(***************************************************************************)
(* The steps of parseExpr.                                                 *)
(***************************************************************************)

\* parseExpr calls the parselet of a prefix.
LEMMA PrecPrefix ==
  ASSUME Parses, PrefixFound
  PROVE  PrecInv'
<1>. DEFINE x == Parselet(Peek, Prefix(Peek), <<>>)
<1>1. /\ InExpr /\ Top.left = None /\ Prefix(Peek) # <<None>> /\ stack' = Append(stack, x) /\ heap' = heap
  BY DEF PrefixFound, AtStart
<1>2. x.fn = "parselet" /\ x.op = Peek /\ x.todo = Prefix(Peek)
  BY DEF Parselet
<1>. HIDE DEF x
<1>3. stack \in Seq(Activation) /\ stack' \in Seq(Activation) /\ Arranged(heap) /\ Piled(heap, stack)
  BY ParsesIn DEF Grouped
<1>4. x \in Activation
  BY <1>1, <1>3, LastPushed
<1>5. Prefix(Peek) \in Seq(ParseletItem)
  BY <1>1, PrefixFollows, FollowsType
<1>6. x.op \notin InfixOps /\ (x.op \in Trailing => Coming(x.op, x.todo)) /\ x.op \notin Binary
  BY <1>1, <1>2, <1>5, PrefixComing DEF InfixOps
<1>7. Each(heap, x)
  BY <1>6 DEF Each
<1>8. OnTop(heap, x, Peek')
  BY <1>2, <1>6 DEF OnTop
<1>9. Pair(stack[Len(stack)], x)
  <2>1. Top = stack[Len(stack)] /\ Top.fn = "parseExpr" /\ Top.left = None
    BY <1>1, InExprWorks DEF Parses, InExpr
  <2>. QED  BY <1>2, <1>6, <2>1 DEF Pair
<1>10. Grouped(heap, stack', Peek')
  BY <1>1, <1>3, <1>4, <1>7, <1>8, <1>9, PushGrouped
<1>. QED  BY <1>1, <1>3, <1>10 DEF PrecInv

\* What the parselet of a binary operator does.
LEMMA BinaryParselet ==
  ASSUME NEW k \in Binary
  PROVE  Infix(k) = <<ParseExpr(Bound(k))>> /\ Infix(k) \in Finals(k)
<1>1. k \notin {".", "(", "if", "func", "class"}
  BY DEF Binary
<1>2. Bound(k) = IF RightAssociative(k) THEN Precedence(k) - 1 ELSE Precedence(k)
  BY DEF Bound
<1>3. Infix(k) = <<ParseExpr(Bound(k))>>
  BY <1>1, <1>2 DEF Infix
<1>4. Finals(k) = {<<ParseExpr(Bound(k))>>}
  BY <1>1 DEF Finals
<1>. QED  BY <1>3, <1>4

\* An operator of the table, and what its parselet does.
LEMMA InfixComing ==
  ASSUME NEW kind, Infix(kind) # <<None>>, NEW op, op = IF kind = "(" THEN "call" ELSE kind
  PROVE  /\ op \in InfixOps /\ kind # "call" /\ Tight(op) = Precedence(kind)
         /\ op \in Trailing => op \in Binary /\ Coming(op, Infix(kind))
<1>1. kind \in Binary \union {".", "("}
  BY DEF Infix
<1>2. op \in InfixOps /\ kind # "call"
  BY <1>1 DEF InfixOps, Binary
<1>3. Tight(op) = Precedence(kind)
  BY <1>2 DEF Tight
<1>4. ASSUME op \in Trailing
      PROVE  op \in Binary /\ Coming(op, Infix(kind))
  <2>1. op \in Binary /\ op = kind
    BY <1>1, <1>4 DEF Trailing, Openers, Binary
  <2>2. Infix(kind) = <<ParseExpr(Bound(op))>> /\ Infix(kind) \in Finals(op)
    BY <2>1, BinaryParselet
  <2>3. <<ParseExpr(Bound(op))>> \in Finals(op)
    BY <2>2
  <2>4. <<ParseExpr(Bound(op))>> \in Seq(ParseletItem)
    BY <2>3, FinalParts
  <2>5. <<>> \o Infix(kind) = Infix(kind) /\ <<>> \in Seq(ParseletItem)
    BY <2>2, <2>4, ConcatEmptySeq
  <2>. QED  BY <2>1, <2>2, <2>3, <2>5 DEF Coming
<1>. QED  BY <1>2, <1>3, <1>4

\* parseExpr calls the parselet of an operator, with what it has parsed.
LEMMA PrecInfix ==
  ASSUME Parses, InfixFound
  PROVE  PrecInv'
<1>. DEFINE op == IF Peek = "(" THEN "call" ELSE Peek
            a  == [Top EXCEPT !.left = None]
            x  == Parselet(op, Infix(Peek), <<Top.left>>)
<1>1. /\ InExpr /\ Top.left # None /\ Top.precedence < Precedence(Peek) /\ Infix(Peek) # <<None>>
      /\ stack' = Append(Append(Callers, a), x) /\ heap' = heap
  BY DEF InfixFound, Binds
<1>2. /\ x.fn = "parselet" /\ x.op = op /\ x.todo = Infix(Peek) /\ x.kids = <<Top.left>>
  BY DEF Parselet
<1>3. /\ stack \in Seq(Activation) /\ stack' \in Seq(Activation)
      /\ Arranged(heap) /\ Grouped(heap, stack, Peek)
  BY ParsesIn
<1>4. stack # <<>> /\ Top = stack[Len(stack)] /\ Top \in Activation /\ Top.fn = "parseExpr"
  <2>1. stack # <<>> /\ Top = stack[Len(stack)] /\ Top.fn = "parseExpr"
    BY <1>1, InExprWorks DEF Parses, InExpr
  <2>2. Top \in Activation
    BY <1>3, <2>1, Members DEF Grouped
  <2>. QED  BY <2>1, <2>2
<1>5. Top \in ExprActivation
  BY <1>4 DEF Activation, ExprActivation, ParseletActivation
<1>6. a \in ExprActivation /\ a.fn = "parseExpr" /\ a.left = None /\ a.precedence = Top.precedence
      /\ a.precedence \in Nat
  BY <1>5 DEF ExprActivation
<1>7. a \in Activation
  BY <1>6 DEF Activation
<1>. HIDE DEF a, x
<1>8. Append(Callers, a) = SetLast(stack, a) /\ SetLast(stack, a) \in Seq(Activation)
  <2>1. SetLast(stack, a) \in Seq(Activation)
    BY <1>3, <1>4, <1>7, SetLastOfSeq
  <2>. QED  BY <1>3, <1>4, <1>7, <2>1, Goes DEF Callers
<1>9. stack' = Append(SetLast(stack, a), x) /\ x \in Activation
  BY <1>1, <1>3, <1>8, LastPushed
<1>10. Piled(heap, stack) /\ OnTop(heap, Top, Peek)
  BY <1>3, <1>4 DEF Grouped
<1>11. Each(heap, a) /\ \A b \in Activation : Pair(b, Top) => Pair(b, a)
  <2>1. Each(heap, a)
    BY <1>6 DEF Each
  <2>2. Top.precedence = a.precedence /\ Top.fn = a.fn
    BY <1>4, <1>6
  <2>3. a.fn # "parselet" /\ Top.fn # "parselet"
    BY <1>4, <1>6
  <2>4. ASSUME NEW b \in Activation, Pair(b, Top)
        PROVE  Pair(b, a)
    <3>1. b.fn # a.fn /\ b.fn # "parseExpr"
      BY <1>6, <2>2, <2>4 DEF Pair
    <3>2. b.fn = "parselet" /\ b.op \in Trailing =>
            \/ Coming(b.op, b.todo) /\ b.op \notin Binary
            \/ b.todo \in Rests(b.op) /\ a.precedence = Bound(b.op) /\ (b.op \in Binary => Len(b.kids) = 1)
      BY <2>2, <2>4 DEF Pair
    <3>. QED  BY <3>1, <3>2, Zenon DEF Pair
  <2>. QED  BY <2>1, <2>4
<1>12. Piled(heap, SetLast(stack, a))
  BY <1>3, <1>4, <1>7, <1>10, <1>11, PiledTop
<1>13. /\ op \in InfixOps /\ Peek # "call" /\ Tight(op) = Precedence(Peek)
       /\ op \in Trailing => op \in Binary /\ Coming(op, Infix(Peek))
  BY <1>1, InfixComing
<1>14. Lets(heap, Top.left, Peek)
  BY <1>1, <1>4, <1>10, Zenon DEF OnTop
<1>15. Each(heap, x)
  <2>1. x.kids # <<>> /\ x.kids[1] = Top.left
    BY <1>2
  <2>2. ~Opens(heap)[Top.left] /\ Top.left \in DOMAIN heap
    <3>1. Precedence(Peek) \in Int
      BY Numbers
    <3>2. ~(Precedence(Peek) <= 0)
      BY <1>1, <1>6, <3>1
    <3>. QED  BY <1>14, <3>2 DEF Lets
  <2>3. IsBare(heap, Top.left) => GoesLeft(heap[Top.left].op, op)
    <3>1. ASSUME IsBare(heap, Top.left)
          PROVE  GoesLeft(heap[Top.left].op, op)
      <4>1. Yields(heap[Top.left].op, Peek) /\ heap[Top.left].op \in InfixOps
        BY <1>14, <3>1 DEF Lets, IsBare
      <4>. QED  BY <1>13, <4>1, LeftOfNext
    <3>. QED  BY <3>1
  <2>. QED  BY <1>2, <2>1, <2>2, <2>3 DEF Each, FitsLeft
<1>16. OnTop(heap, x, Peek')
  <2>1. Len(x.kids) = 1
    BY <1>2
  <2>2. x.fn # "parseExpr"
    BY <1>2
  <2>3. x.op \in Trailing => Coming(x.op, x.todo)
    BY <1>2, <1>13
  <2>. QED  BY <2>1, <2>2, <2>3, Zenon DEF OnTop
<1>17. Pair(a, x)
  <2>1. Tight(x.op) > a.precedence
    <3>1. Precedence(Peek) \in Int
      BY Numbers
    <3>. QED  BY <1>1, <1>2, <1>6, <1>13, <3>1
  <2>. QED  BY <1>2, <1>6, <2>1 DEF Pair
<1>18. SetLast(stack, a)[Len(SetLast(stack, a))] = a
  <2>1. Len(stack) \in DOMAIN stack
    BY <1>3, <1>4, LenProperties, EmptySeq
  <2>. QED  BY <1>3, <1>4, <1>7, <2>1, SetLastOfSeq
<1>19. Grouped(heap, stack', Peek')
  BY <1>8, <1>9, <1>12, <1>15, <1>16, <1>17, <1>18, PushGrouped
<1>. QED  BY <1>1, <1>3, <1>19 DEF PrecInv

\* parseExpr returns its expression to parseModule or to a parselet.
LEMMA PrecReturn ==
  ASSUME Parses, ExprReturns
  PROVE  PrecInv'
<1>. DEFINE rest == Front(stack)
            c    == rest[Len(rest)]
            t    == stack[Len(stack)]
            a    == [c EXCEPT !.kids = Append(@, t.left)]
<1>1. /\ InExpr /\ Top.left # None /\ ~(Top.precedence < Precedence(Peek)) /\ heap' = heap
      /\ pos' = pos /\ input' = input
      /\ rest = <<>> => stack' = <<>>
      /\ rest # <<>> => stack' = [rest EXCEPT ![Len(rest)].kids = Append(@, Top.left)]
  BY DEF ExprReturns, Binds, Callers
<1>2. stack # <<>> /\ Top = t /\ t.fn = "parseExpr"
  BY <1>1, InExprWorks DEF Parses, InExpr
<1>3. /\ stack \in Seq(Activation) /\ stack' \in Seq(Activation)
      /\ Arranged(heap) /\ Grouped(heap, stack, Peek)
  BY ParsesIn
<1>4. Peek' = Peek
  BY <1>1 DEF Peek
<1>5. Piled(heap, stack) /\ OnTop(heap, t, Peek) /\ t \in Activation
  BY <1>2, <1>3, Members DEF Grouped
<1>6. /\ rest \in Seq(Activation) /\ Piled(heap, rest)
      /\ rest # <<>> => c \in Activation /\ Each(heap, c) /\ Pair(c, t)
  BY <1>2, <1>3, <1>5, PiledPop
<1>7. t \in ExprActivation /\ t.left \in Nat /\ t.precedence \in Nat /\ t.left # None
  <2>1. t \in ExprActivation
    BY <1>2, <1>5 DEF Activation, ParseletActivation
  <2>. QED  BY <1>1, <1>2, <2>1 DEF ExprActivation
<1>8. CASE rest = <<>>
  <2>1. stack' = <<>>
    BY <1>1, <1>8
  <2>2. Grouped(heap, stack', Peek')
    <3>1. Len(<<>>) = 0 /\ (1 .. 0) = {} /\ (1 .. 0 - 1) = {}
      OBVIOUS
    <3>. QED  BY <2>1, <3>1 DEF Grouped, Piled
  <2>. QED  BY <1>1, <1>3, <2>2 DEF PrecInv
<1>9. CASE rest # <<>>
  <2>1. stack' = SetLast(rest, a)
    <3>1. stack' = [rest EXCEPT ![Len(rest)] = a]
      BY <1>1, <1>2, <1>9
    <3>. QED  BY <3>1 DEF SetLast
  <2>2. c \in ParseletActivation /\ c.fn = "parselet"
    <3>1. c.fn # "parseExpr"
      BY <1>2, <1>6, <1>9 DEF Pair
    <3>. QED  BY <1>6, <1>9, <3>1 DEF Activation, ExprActivation, ParseletActivation
  <2>. HIDE DEF rest, c, t
  <2>3. /\ a \in ParseletActivation /\ a.fn = "parselet" /\ a.op = c.op /\ a.todo = c.todo
        /\ a.kids = Append(c.kids, t.left)
    <3>1. c.kids \in Seq(Nat)
      BY <2>2 DEF ParseletActivation
    <3>2. PICK ks \in Seq(Nat) : ks = Append(c.kids, t.left)
      BY <1>7, <3>1, AppendProperties
    <3>3. a = [c EXCEPT !.kids = ks]
      BY <3>2
    <3>. HIDE DEF a
    <3>. QED  BY <2>2, <3>2, <3>3 DEF ParseletActivation
  <2>4. /\ c.kids \in Seq(Nat) /\ Len(a.kids) = Len(c.kids) + 1 /\ a.kids[Len(c.kids) + 1] = t.left
        /\ \A i \in 1 .. Len(c.kids) : a.kids[i] = c.kids[i]
        /\ a \in Activation
    <3>1. c.kids \in Seq(Nat)
      BY <2>2 DEF ParseletActivation
    <3>. QED  BY <1>7, <2>3, <3>1, AppendProperties DEF Activation
  <2>. HIDE DEF a
  <2>5. Each(heap, a)
    <3>1. ASSUME a.op \in InfixOps
          PROVE  a.kids # <<>> /\ a.kids[1] = c.kids[1]
      <4>1. c.kids # <<>>
        BY <1>6, <1>9, <2>2, <2>3, <3>1 DEF Each
      <4>2. 1 \in 1 .. Len(c.kids) /\ Len(a.kids) # 0
        BY <2>4, <4>1, LenProperties, EmptySeq
      <4>. QED  BY <2>4, <4>2
    <3>. QED  BY <1>6, <1>9, <2>2, <2>3, <3>1 DEF Each
  <2>6. \A b \in Activation : Pair(b, c) => Pair(b, a)
    BY <2>2, <2>3 DEF Pair
  <2>7. OnTop(heap, a, Peek')
    <3>1. ASSUME a.op \in Trailing
          PROVE  \/ Coming(a.op, a.todo) /\ (a.op \in Binary => Len(a.kids) = 1)
                 \/ a.todo \in Rests(a.op) /\ IsClosed(heap, a, Peek)
      <4>1. \/ Coming(c.op, c.todo) /\ c.op \notin Binary
            \/ c.todo \in Rests(c.op) /\ t.precedence = Bound(c.op) /\ (c.op \in Binary => Len(c.kids) = 1)
        BY <1>6, <1>9, <2>2, <2>3, <3>1 DEF Pair
      <4>2. CASE Coming(c.op, c.todo) /\ c.op \notin Binary
        BY <2>3, <4>2
      <4>3. CASE c.todo \in Rests(c.op) /\ t.precedence = Bound(c.op) /\ (c.op \in Binary => Len(c.kids) = 1)
        <5>1. Precedence(Peek) <= Bound(a.op)
          <6>1. Precedence(Peek) \in Int
            BY Numbers
          <6>. QED  BY <1>1, <1>2, <1>7, <2>3, <4>3, <6>1
        <5>2. Lets(heap, t.left, Peek) /\ (IsBare(heap, t.left) => Tight(heap[t.left].op) > Bound(a.op))
          BY <1>2, <1>5, <1>7, <2>3, <4>3 DEF OnTop
        <5>3. a.op \in Binary => Len(a.kids) = 2 /\ a.kids[2] = t.left
          BY <2>3, <2>4, <4>3
        <5>4. IsClosed(heap, a, Peek)
          BY <5>1, <5>2, <5>3 DEF IsClosed, FitsRight, Lets
        <5>. QED  BY <2>3, <4>3, <5>4
      <4>. QED  BY <4>1, <4>2, <4>3
    <3>2. a.fn # "parseExpr"
      BY <2>3
    <3>. QED  BY <1>4, <3>1, <3>2, Zenon DEF OnTop
  <2>8. Grouped(heap, stack', Peek')
    <3>1. c = rest[Len(rest)]
      BY DEF c
    <3>. QED  BY <1>6, <1>9, <2>1, <2>4, <2>5, <2>6, <2>7, <3>1, TopGrouped
  <2>. QED  BY <1>1, <1>3, <2>8 DEF PrecInv
<1>. QED  BY <1>8, <1>9

\* A parselet that returns: its node may be made, and the next token comes behind it.
LEMMA Finished ==
  ASSUME Parses, Returning
  PROVE  /\ Piled(heap, stack) /\ Ripe(heap, Top.op, Top.kids)
         /\ Top.op \in InfixOps => Yields(Top.op, Peek)
         /\ Top.op \in Openers => Precedence(Peek) <= 0
         /\ Top.op \in Binary /\ Opens(heap)[Top.kids[2]] => Precedence(Peek) <= 0
<1>1. InParselet /\ Top.todo = <<>> /\ Top.fn = "parselet"
  BY DEF Returning, InParselet
<1>2. stack # <<>> /\ Top = stack[Len(stack)]
  BY <1>1, InParseletWorks DEF Parses
<1>3. Grouped(heap, stack, Peek)
  BY ParsesIn
<1>4. Piled(heap, stack) /\ OnTop(heap, Top, Peek) /\ Each(heap, Top)
  BY <1>2, <1>3, Members DEF Grouped
<1>5. Top.op \in Trailing => IsClosed(heap, Top, Peek)
  <2>1. Top.op \in Trailing => ~Coming(Top.op, Top.todo)
    BY <1>1, NoneLeft
  <2>. QED  BY <1>1, <1>4, <2>1, Zenon DEF OnTop
<1>6. Top.op \in Binary => Top.op \in Trailing
  BY DEF Trailing
<1>7. Ripe(heap, Top.op, Top.kids)
  BY <1>1, <1>4, <1>5, <1>6 DEF Ripe, Each, IsClosed
<1>8. Top.op \in InfixOps => Yields(Top.op, Peek)
  BY <1>5, <1>6, ReturnedYields DEF IsClosed
<1>9. Top.op \in Openers => Precedence(Peek) <= 0
  <2>1. Top.op \in Openers => Top.op \in Trailing /\ Bound(Top.op) = 0
    BY DEF Openers, Trailing, Bound, Binary
  <2>. QED  BY <1>5, <2>1 DEF IsClosed
<1>10. Top.op \in Binary /\ Opens(heap)[Top.kids[2]] => Precedence(Peek) <= 0
  BY <1>5, <1>6 DEF IsClosed
<1>. QED  BY <1>4, <1>7, <1>8, <1>9, <1>10

-----------------------------------------------------------------------------
(***************************************************************************)
(* The nodes that parselets return.                                        *)
(***************************************************************************)

\* Nodes were marked, or made behind the others.
Made(h, g) == Later(h, g) /\ \A n \in DOMAIN g \ DOMAIN h : Ripe(h, g[n].op, g[n].kids)

\* A mark.
LEMMA MarkMade ==
  ASSUME NEW S, NEW h \in Seq(S), NEW i \in 1 .. Len(h), NEW x \in S,
         x.op = h[i].op, x.kids = h[i].kids, h[i].parens => x.parens
  PROVE  /\ [h EXCEPT ![i] = x] \in Seq(S) /\ Made(h, [h EXCEPT ![i] = x])
         /\ Len([h EXCEPT ![i] = x]) = Len(h) /\ [h EXCEPT ![i] = x][i] = x
<1>. DEFINE g == [h EXCEPT ![i] = x]
<1>1. /\ g \in Seq(S) /\ Len(g) = Len(h) /\ Len(h) \in Nat /\ DOMAIN g = DOMAIN h
      /\ \A j \in DOMAIN h : g[j] = IF j = i THEN x ELSE h[j]
  BY ExceptSeq, LenProperties
<1>2. i \in DOMAIN h
  OBVIOUS
<1>. HIDE DEF g
<1>3. g[i] = x
  BY <1>1, <1>2
<1>4. Later(h, g)
  BY <1>1 DEF Later
<1>5. DOMAIN g \ DOMAIN h = {}
  BY <1>1
<1>. QED  BY <1>1, <1>3, <1>4, <1>5 DEF Made, g

\* A node behind the others.
LEMMA AppendMade ==
  ASSUME NEW S, NEW h \in Seq(S), NEW g \in Seq(S), Made(h, g), NEW x \in S, Ripe(h, x.op, x.kids)
  PROVE  /\ Append(g, x) \in Seq(S) /\ Made(h, Append(g, x))
         /\ Len(Append(g, x)) = Len(g) + 1 /\ Append(g, x)[Len(g) + 1] = x
<1>. DEFINE r == Append(g, x)
<1>1. /\ r \in Seq(S) /\ Len(r) = Len(g) + 1 /\ r[Len(g) + 1] = x
      /\ \A i \in 1 .. Len(g) : r[i] = g[i]
  BY AppendProperties
<1>2. /\ Len(g) \in Nat /\ Len(h) \in Nat /\ DOMAIN g = 1 .. Len(g) /\ DOMAIN h = 1 .. Len(h)
      /\ DOMAIN r = 1 .. Len(g) + 1 /\ Len(h) <= Len(g)
  BY <1>1, LenProperties DEF Made, Later
<1>. HIDE DEF r
<1>3. Later(h, r)
  <2>1. Len(h) <= Len(r)
    BY <1>1, <1>2
  <2>2. \A n \in DOMAIN h : n \in 1 .. Len(g)
    BY <1>2
  <2>. QED  BY <1>1, <2>1, <2>2 DEF Made, Later
<1>4. ASSUME NEW n \in DOMAIN r \ DOMAIN h
      PROVE  Ripe(h, r[n].op, r[n].kids)
  <2>1. CASE n \in 1 .. Len(g)
    <3>1. r[n] = g[n] /\ n \in DOMAIN g \ DOMAIN h
      BY <1>1, <1>2, <2>1
    <3>. QED  BY <3>1 DEF Made
  <2>2. CASE n \notin 1 .. Len(g)
    <3>1. n = Len(g) + 1
      BY <1>2, <2>2
    <3>. QED  BY <1>1, <3>1
  <2>. QED  BY <2>1, <2>2
<1>. QED  BY <1>1, <1>3, <1>4 DEF Made, r

\* The node that parseExpr gets may stand on the left of what comes next.
LEMMA PrecDelivered ==
  ASSUME Parses, Returning, Made(heap, heap'), NEW k \in DOMAIN heap', Deliver(k), pos' = pos, input' = input,
         \/ heap'[k].parens
         \/ heap'[k].op = Top.op /\ heap'[k].kids = Top.kids
         \/ Top.op = "class" /\ heap'[k].op \in {"class", "anonymous"}
  PROVE  PrecInv'
<1>. DEFINE rest == Front(stack)
            c    == rest[Len(rest)]
            t    == stack[Len(stack)]
            a    == [c EXCEPT !.left = k]
<1>1. PICK g : g = heap'
  OBVIOUS
<1>2. /\ stack \in Seq(Activation) /\ stack' \in Seq(Activation)
      /\ Grown(heap) /\ Grown(g) /\ Arranged(heap)
  BY <1>1, ParsesIn
<1>3. Aged(heap, g) /\ Arranged(g)
  BY <1>1, <1>2, ArrangedLater DEF Made
<1>4. /\ Piled(heap, stack) /\ Ripe(heap, Top.op, Top.kids)
      /\ Top.op \in InfixOps => Yields(Top.op, Peek)
      /\ Top.op \in Openers => Precedence(Peek) <= 0
      /\ Top.op \in Binary /\ Opens(heap)[Top.kids[2]] => Precedence(Peek) <= 0
  BY Finished
<1>5. /\ stack # <<>> /\ Top = t /\ t.fn = "parselet" /\ rest # <<>> /\ a \in Activation
  <2>1. InParselet /\ Top.fn = "parselet"
    BY DEF Returning, InParselet
  <2>2. stack # <<>> /\ Top = t
    BY <2>1, InParseletWorks DEF Parses
  <2>3. ParseletOnTop(stack) /\ \E end : AtEnd(stack, end, storageKinds, templateParameters, pos, Len(heap))
    BY ReturningWorks DEF Parses
  <2>4. PICK m \in Nat : m = Len(g) /\ k \in 1 .. m /\ Len(heap) <= m
    BY <1>1, <1>2, LenProperties DEF Grown, Made, Later
  <2>. HIDE DEF rest, a
  <2>5. rest # <<>> /\ a \in Activation
    BY <2>3, <2>4, DeliverWorks DEF rest, a
  <2>. QED  BY <2>1, <2>2, <2>5
<1>6. Peek' = Peek
  BY DEF Peek
<1>7. Piled(g, stack)
  BY <1>3, <1>4, PiledLater
<1>8. /\ rest \in Seq(Activation) /\ Piled(g, rest) /\ c \in Activation /\ Each(g, c) /\ Pair(c, t)
  BY <1>2, <1>5, <1>7, PiledPop
<1>9. c.fn = "parseExpr"
  <2>1. c.fn # "parselet"
    BY <1>5, <1>8 DEF Pair
  <2>. QED  BY <1>8, <2>1 DEF Activation, ExprActivation, ParseletActivation
<1>10. c \in ExprActivation
  BY <1>8, <1>9 DEF Activation, ParseletActivation
<1>11. stack' = SetLast(rest, a)
  BY DEF Deliver, SetLast, Callers
<1>. HIDE DEF rest, c, t
<1>12. a.fn = "parseExpr" /\ a.left = k /\ a.precedence = c.precedence
  BY <1>10 DEF ExprActivation
<1>. HIDE DEF a
<1>13. c.left = None /\ (t.op \in InfixOps => Tight(t.op) > c.precedence)
  BY <1>8, <1>9 DEF Pair
<1>14. Lets(g, k, Peek)
  <2>1. ASSUME Opens(g)[k]
        PROVE  Precedence(Peek) <= 0
    <3>1. OpensAt(g, Opens(g), k)
      BY <1>1, <1>3, <2>1, OpensIs DEF Aged
    <3>2. CASE g[k].op \in Openers
      BY <1>1, <1>4, <3>1, <3>2 DEF OpensAt, Openers
    <3>3. CASE g[k].op \in Binary /\ Opens(g)[g[k].kids[2]]
      <4>1. g[k].op = Top.op /\ g[k].kids = Top.kids
        BY <1>1, <3>1, <3>3 DEF OpensAt, Binary
      <4>2. Top.kids[2] \in DOMAIN heap
        BY <1>4, <3>3, <4>1 DEF Ripe, FitsRight
      <4>3. Opens(heap)[Top.kids[2]]
        BY <1>3, <3>3, <4>1, <4>2, OpensLater DEF Aged
      <4>. QED  BY <1>4, <3>3, <4>1, <4>3
    <3>. QED  BY <3>1, <3>2, <3>3 DEF OpensAt
  <2>2. ASSUME IsBare(g, k)
        PROVE  g[k].op = Top.op /\ Yields(g[k].op, Peek)
    <3>1. g[k].op = Top.op
      BY <1>1, <2>2 DEF IsBare, InfixOps, Binary
    <3>. QED  BY <1>4, <2>2, <3>1 DEF IsBare
  <2>. QED  BY <1>1, <2>1, <2>2 DEF Lets
<1>15. IsBare(g, k) => Tight(g[k].op) > a.precedence
  <2>1. IsBare(g, k) => g[k].op = t.op /\ t.op \in InfixOps
    BY <1>1, <1>5 DEF IsBare, InfixOps, Binary
  <2>. QED  BY <1>12, <1>13, <2>1
<1>16. Each(g, a) /\ OnTop(g, a, Peek)
  BY <1>12, <1>14, <1>15 DEF Each, OnTop
<1>17. ASSUME NEW b \in Activation, Pair(b, c)
       PROVE  Pair(b, a)
  <2>1. b.fn # a.fn /\ b.fn # "parseExpr"
    BY <1>9, <1>12, <1>17 DEF Pair
  <2>2. b.fn = "parselet" /\ b.op \in Trailing =>
          \/ Coming(b.op, b.todo) /\ b.op \notin Binary
          \/ b.todo \in Rests(b.op) /\ a.precedence = Bound(b.op) /\ (b.op \in Binary => Len(b.kids) = 1)
    BY <1>12, <1>17 DEF Pair
  <2>. QED  BY <2>1, <2>2, Zenon DEF Pair
<1>18. Grouped(g, stack', Peek)
  <2>1. c = rest[Len(rest)]
    BY DEF c
  <2>. QED  BY <1>5, <1>8, <1>11, <1>16, <1>17, <2>1, TopGrouped
<1>. QED  BY <1>1, <1>3, <1>6, <1>18 DEF PrecInv

\* Nothing changed is changed for the better.
LEMMA NoneMade ==
  ASSUME NEW S, NEW h \in Seq(S)
  PROVE  Made(h, h)
<1>1. Len(h) <= Len(h)
  BY LenProperties
<1>. QED  BY <1>1 DEF Made, Later

\* Parentheses close what is in them.
LEMMA PrecParenthesised ==
  ASSUME Parses, Parenthesised
  PROVE  PrecInv'
<1>. DEFINE k == Top.kids[1]
            x == [heap[k] EXCEPT !.parens = TRUE]
<1>1. /\ Returning /\ Top.op = "(" /\ heap' = [heap EXCEPT ![k] = x] /\ Deliver(k)
      /\ pos' = pos /\ input' = input
  BY DEF Parenthesised
<1>2. k \in 1 .. Len(heap) /\ Grown(heap)
  BY <1>1, ReturningWorks DEF Parses
<1>. HIDE DEF k
<1>3. heap[k] \in NodeType /\ heap \in Seq(NodeType)
  BY <1>2, NodeOfHeap DEF Grown
<1>4. /\ x \in NodeType /\ x.op = heap[k].op /\ x.kids = heap[k].kids /\ x.parens
  BY <1>3 DEF NodeType
<1>. HIDE DEF x
<1>5. Made(heap, heap') /\ Len(heap') = Len(heap) /\ heap'[k] = x /\ heap' \in Seq(NodeType)
  <2>1. heap[k].parens => x.parens
    BY <1>4
  <2>2. Made(heap, [heap EXCEPT ![k] = x])
    BY <1>2, <1>3, <1>4, <2>1, MarkMade
  <2>3. Len([heap EXCEPT ![k] = x]) = Len(heap) /\ [heap EXCEPT ![k] = x] \in Seq(NodeType)
    BY <1>2, <1>3, <1>4, ExceptSeq
  <2>4. [heap EXCEPT ![k] = x][k] = x
    BY <1>2, <1>3
  <2>. QED  BY <1>1, <2>2, <2>3, <2>4
<1>6. k \in DOMAIN heap'
  BY <1>2, <1>5
<1>. QED  BY <1>1, <1>4, <1>5, <1>6, PrecDelivered

\* A node made behind the others is returned.
LEMMA PrecMade ==
  ASSUME Parses, Returning, NEW S, NEW h \in Seq(S), heap \in Seq(S), Made(heap, h), NEW x \in S, heap' = Append(h, x),
         Ripe(heap, x.op, x.kids), Deliver(Len(heap')), pos' = pos, input' = input,
         \/ x.op = Top.op /\ x.kids = Top.kids
         \/ Top.op = "class" /\ x.op \in {"class", "anonymous"}
  PROVE  PrecInv'
<1>1. /\ heap' \in Seq(S) /\ Made(heap, heap') /\ Len(heap') = Len(h) + 1 /\ heap'[Len(h) + 1] = x
  BY AppendMade
<1>2. Len(heap') \in DOMAIN heap'
  BY <1>1, LenProperties
<1>3. PICK k \in DOMAIN heap' : k = Len(heap')
  BY <1>2
<1>4. heap'[k] = x /\ Deliver(k)
  BY <1>1, <1>3
<1>. QED  BY <1>1, <1>4, PrecDelivered

\* A node of a parselet is made.
LEMMA PrecConstruct ==
  ASSUME Parses, Construct
  PROVE  PrecInv'
<1>. DEFINE x == NewNode(Top.op, Top.at, Top.kids)
            S == NodeType \union {x}
<1>1. /\ Returning /\ heap' = Append(heap, x) /\ Deliver(Len(heap')) /\ pos' = pos /\ input' = input
  BY DEF Construct
<1>2. x.op = Top.op /\ x.kids = Top.kids
  BY DEF NewNode
<1>3. heap \in Seq(S) /\ x \in S
  <2>1. heap \in Seq(NodeType) /\ NodeType \subseteq S
    BY ParsesIn DEF Grown
  <2>. HIDE DEF x
  <2>. QED  BY <2>1, SeqMonotonic
<1>. HIDE DEF x, S
<1>4. Made(heap, heap)
  BY <1>3, NoneMade
<1>5. Ripe(heap, x.op, x.kids)
  BY <1>1, <1>2, Finished
<1>. QED  BY <1>1, <1>2, <1>3, <1>4, <1>5, PrecMade

\* A compound is made.
LEMMA PrecCompound ==
  ASSUME Parses, Compound
  PROVE  PrecInv'
<1>. DEFINE x == [NewNode("{", Top.at, Top.kids) EXCEPT !.storage = Last(storageKinds)]
            S == NodeType \union {x}
<1>1. /\ Returning /\ Top.op = "{" /\ heap' = Append(heap, x) /\ Deliver(Len(heap')) /\ pos' = pos /\ input' = input
  BY DEF Compound
<1>2. x.op = "{" /\ x.kids = Top.kids
  BY DEF NewNode
<1>3. heap \in Seq(S) /\ x \in S
  <2>1. heap \in Seq(NodeType) /\ NodeType \subseteq S
    BY ParsesIn DEF Grown
  <2>. HIDE DEF x
  <2>. QED  BY <2>1, SeqMonotonic
<1>. HIDE DEF x, S
<1>4. Made(heap, heap)
  BY <1>3, NoneMade
<1>5. Ripe(heap, x.op, x.kids)
  BY <1>1, <1>2, Finished
<1>. QED  BY <1>1, <1>2, <1>3, <1>4, <1>5, PrecMade

\* An assignment is made, and marks what it writes.
LEMMA PrecAssigned ==
  ASSUME Parses, Assigned
  PROVE  PrecInv'
<1>. DEFINE k == Top.kids[1]
            y == [heap[k] EXCEPT !.written = @ \/ heap[k].op \in {"id", "declare"}]
            h == [heap EXCEPT ![k] = y]
            x == NewNode("=", Top.at, Top.kids)
            S == NodeType \union {x}
<1>1. /\ Returning /\ Top.op = "=" /\ heap' = Append(h, x) /\ Deliver(Len(heap'))
      /\ pos' = pos /\ input' = input
  BY DEF Assigned
<1>2. k \in 1 .. Len(heap) /\ Grown(heap)
  BY <1>1, ReturningWorks DEF Parses
<1>3. x.op = Top.op /\ x.kids = Top.kids
  BY <1>1 DEF NewNode
<1>. HIDE DEF k, x
<1>4. heap[k] \in NodeType
  BY <1>2, NodeOfHeap
<1>5. /\ y \in NodeType /\ y.op = heap[k].op /\ y.kids = heap[k].kids /\ (heap[k].parens => y.parens)
  <2>. DEFINE w == heap[k].written \/ heap[k].op \in {"id", "declare"}
  <2>1. w \in BOOLEAN /\ y = [heap[k] EXCEPT !.written = w]
    OBVIOUS
  <2>. HIDE DEF w, y
  <2>. QED  BY <1>4, <2>1 DEF NodeType
<1>. HIDE DEF y
<1>6. heap \in Seq(S) /\ x \in S /\ y \in S
  <2>1. heap \in Seq(NodeType) /\ NodeType \subseteq S
    BY <1>2 DEF Grown
  <2>. QED  BY <1>5, <2>1, SeqMonotonic
<1>. HIDE DEF S
<1>7. h \in Seq(S) /\ Made(heap, h)
  BY <1>2, <1>5, <1>6, MarkMade
<1>. HIDE DEF h
<1>8. Ripe(heap, x.op, x.kids)
  BY <1>1, <1>3, Finished
<1>. QED  BY <1>1, <1>3, <1>6, <1>7, <1>8, PrecMade

\* A class is made, with its body and its template.
LEMMA PrecClass ==
  ASSUME Parses, Class
  PROVE  PrecInv'
<1>. DEFINE body   == Top.kids[1]
            braced == heap[body].op = "{"
            w      == [heap[body] EXCEPT !.storage = "Instance"]
            marked == [heap EXCEPT ![body] = w]
            y      == [NewNode("{", 0, <<body>>) EXCEPT !.storage = "Instance"]
            bodies == IF braced THEN marked ELSE Append(heap, y)
            x      == [NewNode("class", Top.at, <<IF braced THEN body ELSE Len(bodies)>>)
                         EXCEPT !.parameters = Top.parameters]
            z      == NewNode("anonymous", 0, <<Len(bodies) + 1>>)
            S      == NodeType \union {x, y, z}
<1>1. /\ Returning /\ Top.op = "class" /\ Deliver(Len(heap')) /\ pos' = pos /\ input' = input
      /\ heap' = bodies \o (IF Top.generic THEN <<x, z>> ELSE <<x>>)
  BY DEF Class
<1>2. x.op = "class" /\ y.op = "{" /\ z.op = "anonymous"
  BY DEF NewNode
<1>3. body \in 1 .. Len(heap) /\ Grown(heap)
  BY <1>1, ReturningWorks DEF Parses
<1>. HIDE DEF body
<1>4. heap[body] \in NodeType
  BY <1>3, NodeOfHeap
<1>5. w \in NodeType /\ w.op = heap[body].op /\ w.kids = heap[body].kids /\ (heap[body].parens => w.parens)
  BY <1>4 DEF NodeType, Kinds
<1>. HIDE DEF w, y, x, z, braced
<1>6. heap \in Seq(S) /\ x \in S /\ y \in S /\ z \in S /\ w \in S
  <2>1. heap \in Seq(NodeType) /\ NodeType \subseteq S
    BY <1>3 DEF Grown
  <2>. QED  BY <1>5, <2>1, SeqMonotonic
<1>. HIDE DEF S
<1>7. Ripe(heap, x.op, x.kids) /\ Ripe(heap, y.op, y.kids) /\ Ripe(heap, z.op, z.kids)
  BY <1>2 DEF Ripe, InfixOps, Binary
<1>8. bodies \in Seq(S) /\ Made(heap, bodies)
  <2>1. marked \in Seq(S) /\ Made(heap, marked)
    BY <1>3, <1>5, <1>6, MarkMade
  <2>2. Append(heap, y) \in Seq(S) /\ Made(heap, Append(heap, y))
    <3>1. PICK h : h = heap
      OBVIOUS
    <3>2. h \in Seq(S) /\ Made(heap, h)
      BY <1>6, <3>1, NoneMade
    <3>. QED  BY <1>6, <1>7, <3>1, <3>2, AppendMade
  <2>. HIDE DEF marked
  <2>. QED  BY <2>1, <2>2
<1>. HIDE DEF bodies
<1>9. bodies \o <<x>> = Append(bodies, x) /\ bodies \o <<x, z>> = Append(Append(bodies, x), z)
  BY <1>6, <1>8, LastPieces
<1>10. CASE Top.generic
  <2>1. PICK h : h = Append(bodies, x)
    OBVIOUS
  <2>2. h \in Seq(S) /\ Made(heap, h)
    BY <1>2, <1>6, <1>7, <1>8, <2>1, AppendMade
  <2>3. heap' = Append(h, z)
    BY <1>1, <1>9, <1>10, <2>1
  <2>. QED  BY <1>1, <1>2, <1>6, <1>7, <2>2, <2>3, PrecMade
<1>11. CASE ~Top.generic
  <2>1. heap' = Append(bodies, x)
    BY <1>1, <1>9, <1>11
  <2>. QED  BY <1>1, <1>2, <1>6, <1>7, <1>8, <2>1, PrecMade
<1>. QED  BY <1>10, <1>11

-----------------------------------------------------------------------------
(***************************************************************************)
(* The precedences are respected.                                          *)
(***************************************************************************)

\* What ends the parsing leaves the nodes as they are.
LEMMA PrecEnds ==
  ASSUME PrecInv, outcome' # "parsing", heap' = heap
  PROVE  PrecInv'
  BY DEF PrecInv

\* There is no node in the beginning.
LEMMA PrecInit == Init => PrecInv
<1>. SUFFICES ASSUME Init
              PROVE  PrecInv
  OBVIOUS
<1>1. stack = <<>> /\ heap = <<>>
  BY DEF Init
<1>2. Len(<<>>) = 0 /\ DOMAIN <<>> = {} /\ (1 .. 0) = {} /\ (1 .. 0 - 1) = {}
  OBVIOUS
<1>3. Arranged(heap)
  BY <1>1, <1>2 DEF Arranged
<1>4. Grouped(heap, stack, Peek)
  BY <1>1, <1>2 DEF Grouped, Piled
<1>. QED  BY <1>3, <1>4 DEF PrecInv

\* Every step keeps the order of the operators.
LEMMA PrecStep == PrattInv /\ PrecInv /\ [Next]_vars => PrecInv'
<1>. SUFFICES ASSUME PrattInv, PrecInv, [Next]_vars
              PROVE  PrecInv'
  OBVIOUS
<1>. PrattInv'
  BY PrattStep
<1>1. ASSUME outcome = "parsing", outcome' = outcome
      PROVE  Parses
  BY <1>1 DEF Parses
<1>2. CASE Module
  <2>1. CASE Statement
    BY <1>1, <2>1, PrecStatement DEF Statement
  <2>2. CASE EndOfModule
    BY <2>2, PrecEnds DEF EndOfModule
  <2>. QED  BY <1>2, <2>1, <2>2 DEF Module
<1>3. CASE Expr
  <2>1. CASE PrefixAtEnd
    BY <2>1, PrecEnds DEF PrefixAtEnd, Abort
  <2>2. CASE PrefixSurprise
    BY <2>2, PrecEnds DEF PrefixSurprise, Abort
  <2>3. CASE PrefixFound
    BY <1>1, <2>3, PrecPrefix DEF PrefixFound, AtStart, InExpr
  <2>4. CASE InfixSurprise
    BY <2>4, PrecEnds DEF InfixSurprise
  <2>5. CASE InfixFound
    BY <1>1, <2>5, PrecInfix DEF InfixFound, Binds, InExpr
  <2>6. CASE ExprReturns
    BY <1>1, <2>6, PrecReturn DEF ExprReturns, InExpr
  <2>. QED  BY <1>3, <2>1, <2>2, <2>3, <2>4, <2>5, <2>6 DEF Expr
<1>4. CASE Parselets
  <2>1. CASE Consumed
    BY <1>1, <2>1, PrecConsumed DEF Consumed, Doing, InParselet
  <2>2. CASE NotExpected
    BY <2>2, PrecEnds DEF NotExpected, Abort
  <2>3. CASE TakeOptional \/ WithoutOptional
    BY <1>1, <2>3, PrecOptional DEF TakeOptional, WithoutOptional, Doing, InParselet
  <2>4. CASE FollowRule
    BY <1>1, <2>4, PrecRule DEF FollowRule, Doing, InParselet
  <2>5. CASE Turn
    BY <1>1, <2>5, PrecTurn DEF Turn, Doing, InParselet
  <2>6. CASE CallParseExpr
    BY <1>1, <2>6, PrecCall DEF CallParseExpr, Doing, InParselet
  <2>7. CASE PushStorage \/ PopStorage \/ EnterTemplate \/ LeaveTemplate
    BY <1>1, <2>7, PrecDefinitions DEF PushStorage, PopStorage, EnterTemplate, LeaveTemplate, Doing, InParselet
  <2>. QED  BY <1>4, <2>1, <2>2, <2>3, <2>4, <2>5, <2>6, <2>7 DEF Parselets
<1>5. CASE Nodes
  <2>1. Returning /\ outcome' = outcome
    BY <1>5 DEF Nodes, Parenthesised, Assigned, Compound, Class, Construct
  <2>2. Parses
    BY <1>1, <2>1 DEF Returning, InParselet
  <2>. QED  BY <1>5, <2>2, PrecParenthesised, PrecAssigned, PrecCompound, PrecClass, PrecConstruct DEF Nodes
<1>6. CASE Answered \/ UNCHANGED vars
  <2>1. UNCHANGED vars
    BY <1>6 DEF Answered
  <2>2. /\ heap' = heap /\ stack' = stack /\ outcome' = outcome /\ pos' = pos /\ input' = input
    BY <2>1 DEF vars
  <2>3. Peek' = Peek
    BY <2>2 DEF Peek
  <2>. QED  BY <2>2, <2>3 DEF PrecInv
<1>. QED  BY <1>2, <1>3, <1>4, <1>5, <1>6 DEF Next

\* The activations on the stack keep, each between its caller and the one it
\* called, what the precedences allow to its left and to its right.
THEOREM PrecedenceInvariant == Spec => []PrecInv
<1>. QED  BY PrattInvariant, PrattStep, PrecInit, PrecStep, PTL DEF Spec

\* However operators, open constructs and parentheses are nested, the tree is the
\* one that the table of precedences and the associativities call for: what
\* parseExpr hands to an infix parselet, and what it leaves to its caller, is
\* decided by comparing one token with one number, and that suffices.
THEOREM PrecedenceCorrect == Spec => []RespectsPrecedence
<1>1. PrattInv /\ PrecInv => RespectsPrecedence
  <2>. SUFFICES ASSUME PrattInv, PrecInv
                PROVE  RespectsPrecedence
    OBVIOUS
  <2>1. PICK h : h = heap
    OBVIOUS
  <2>2. Grown(h) /\ Arranged(h)
    BY <2>1 DEF PrattInv, PrecInv
  <2>. QED  BY <2>1, <2>2, ArrangedRight
<1>. QED  BY <1>1, PrattInvariant, PrecedenceInvariant, PTL

-----------------------------------------------------------------------------
(***************************************************************************)
(* Who holds a token and nodes: a node its operands, an activation what it *)
(* has been handed, the module its statements.  A holder is a number: that *)
(* of a node, the negative one of an activation, zero for the module.      *)
(***************************************************************************)
OfNode(x) == [token |-> x.at, nodes |-> x.kids]

OfActivation(a) ==
  IF a.fn = "parselet" THEN [token |-> a.at, nodes |-> a.kids]
                       ELSE [token |-> 0, nodes |-> IF a.left = None THEN <<>> ELSE <<a.left>>]

Holders(h, st) == -Len(st) .. Len(h)

Holding(h, st, ss, o) ==
  IF o > 0 THEN OfNode(h[o])
  ELSE IF o < 0 THEN OfActivation(st[-o])
  ELSE [token |-> 0, nodes |-> ss]

\* Two holdings have neither a token nor a node in common.
Apart(x, y) ==
  /\ x.token = y.token => x.token = 0
  /\ \A j \in DOMAIN x.nodes, k \in DOMAIN y.nodes : x.nodes[j] # y.nodes[k]

\* No node twice.
Single(x) == \A j, k \in DOMAIN x.nodes : x.nodes[j] = x.nodes[k] => j = k

\* What no holder holds.
Loose(h, st, ss, x) == Single(x) /\ \A o \in Holders(h, st) : Apart(x, Holding(h, st, ss, o))

\* No node has two holders, and no token.
Shared(h, st, ss) ==
  \A o \in Holders(h, st) :
    /\ Single(Holding(h, st, ss, o))
    /\ \A q \in Holders(h, st) : q # o => Apart(Holding(h, st, ss, o), Holding(h, st, ss, q))

\* No node is held twice, and no token that has been read.
ForestInv ==
  /\ stack \in Seq(Activation)
  /\ Shared(heap, stack, statements)
  /\ \A n \in DOMAIN heap : heap[n].at < pos

\* Neither token nor node of x but those of y.
Within(x, y) ==
  /\ x.token \in {0, y.token}
  /\ \A j \in DOMAIN x.nodes : \E k \in DOMAIN y.nodes : y.nodes[k] = x.nodes[j]

\* To be apart is symmetric.
LEMMA ApartTurned ==
  ASSUME NEW x, NEW y, Apart(x, y)
  PROVE  Apart(y, x)
  BY DEF Apart

\* A part is apart from what the whole is apart from.
LEMMA ApartWithin ==
  ASSUME NEW x, NEW y, NEW z, Apart(y, z), Within(x, y)
  PROVE  Apart(x, z)
<1>1. x.token = z.token => x.token = 0
  BY DEF Apart, Within
<1>2. ASSUME NEW j \in DOMAIN x.nodes, NEW k \in DOMAIN z.nodes
      PROVE  x.nodes[j] # z.nodes[k]
  <2>1. PICK i \in DOMAIN y.nodes : y.nodes[i] = x.nodes[j]
    BY DEF Within
  <2>. QED  BY <2>1 DEF Apart
<1>. QED  BY <1>1, <1>2 DEF Apart

\* A part of what is loose is loose.
LEMMA LooseWithin ==
  ASSUME NEW h, NEW st, NEW ss, NEW x, NEW y, Loose(h, st, ss, y), Within(x, y), Single(x)
  PROVE  Loose(h, st, ss, x)
<1>1. ASSUME NEW o \in Holders(h, st)
      PROVE  Apart(x, Holding(h, st, ss, o))
  BY ApartWithin DEF Loose
<1>. QED  BY <1>1 DEF Loose

\* What is kept together is apart from what each part is apart from.
LEMMA ApartJoined ==
  ASSUME NEW x, NEW y, NEW z, NEW w, Apart(x, z), Apart(y, z), w.token = x.token,
         \A i \in DOMAIN w.nodes : \/ \E j \in DOMAIN x.nodes : x.nodes[j] = w.nodes[i]
                                   \/ \E j \in DOMAIN y.nodes : y.nodes[j] = w.nodes[i]
  PROVE  Apart(w, z)
<1>1. w.token = z.token => w.token = 0
  BY DEF Apart
<1>2. ASSUME NEW i \in DOMAIN w.nodes, NEW k \in DOMAIN z.nodes
      PROVE  w.nodes[i] # z.nodes[k]
  BY DEF Apart
<1>. QED  BY <1>1, <1>2 DEF Apart

\* The holders when a sequence has grown by one, or shrunk.
LEMMA HoldersOf ==
  ASSUME NEW S, NEW st \in Seq(S), NEW R, NEW h \in Seq(R)
  PROVE  /\ Len(st) \in Nat /\ Len(h) \in Nat
         /\ Holders(h, st) = (-Len(st)) .. Len(h) /\ Holders(h, st) \subseteq Int
  BY LenProperties DEF Holders

\* The activation on top is gone: it held nothing that anybody else holds.
LEMMA HolderGone ==
  ASSUME NEW S, NEW st \in Seq(S), st # <<>>, NEW R, NEW h \in Seq(R), NEW ss, Shared(h, st, ss),
         NEW t, t = OfActivation(st[Len(st)])
  PROVE  Shared(h, Front(st), ss) /\ Loose(h, Front(st), ss, t)
<1>. DEFINE r == Front(st)
            l == -Len(st)
<1>1. r \in Seq(S) /\ Len(r) = Len(st) - 1 /\ \A i \in 1 .. Len(st) - 1 : r[i] = st[i]
  BY FrontOfSeq
<1>2. Len(st) \in Nat \ {0} /\ Len(h) \in Nat
  BY LenProperties, EmptySeq
<1>. HIDE DEF r
<1>3. l \in Holders(h, st) /\ l < 0 /\ Holding(h, st, ss, l) = t
  BY <1>2 DEF Holders, Holding
<1>4. ASSUME NEW o \in Holders(h, r)
      PROVE  o \in Holders(h, st) /\ o # l /\ Holding(h, r, ss, o) = Holding(h, st, ss, o)
  <2>1. o \in Int /\ o >= -(Len(st) - 1) /\ o <= Len(h)
    BY <1>1, <1>2 DEF Holders
  <2>2. o \in Holders(h, st) /\ o # l /\ (o < 0 => -o \in 1 .. Len(st) - 1)
    BY <1>2, <2>1 DEF Holders
  <2>3. o < 0 => r[-o] = st[-o]
    BY <1>1, <2>2
  <2>. QED  BY <2>1, <2>2, <2>3 DEF Holding
<1>. HIDE DEF l
<1>5. Shared(h, r, ss)
  BY <1>4, Zenon DEF Shared
<1>6. Loose(h, r, ss, t)
  BY <1>3, <1>4, Zenon DEF Shared, Loose
<1>. QED  BY <1>5, <1>6 DEF r

\* What is loose stays loose, and is not of the activation that is gone.
LEMMA LooseBelow ==
  ASSUME NEW S, NEW st \in Seq(S), st # <<>>, NEW R, NEW h \in Seq(R), NEW ss, NEW x, Loose(h, st, ss, x)
  PROVE  Loose(h, Front(st), ss, x) /\ Apart(x, OfActivation(st[Len(st)]))
<1>. DEFINE r == Front(st)
            l == -Len(st)
            t == OfActivation(st[Len(st)])
<1>1. r \in Seq(S) /\ Len(r) = Len(st) - 1 /\ \A i \in 1 .. Len(st) - 1 : r[i] = st[i]
  BY FrontOfSeq
<1>2. Len(st) \in Nat \ {0} /\ Len(h) \in Nat
  BY LenProperties, EmptySeq
<1>. HIDE DEF r
<1>3. l \in Holders(h, st) /\ l < 0 /\ Holding(h, st, ss, l) = t
  BY <1>2 DEF Holders, Holding
<1>4. ASSUME NEW o \in Holders(h, r)
      PROVE  o \in Holders(h, st) /\ Holding(h, r, ss, o) = Holding(h, st, ss, o)
  <2>1. o \in Int /\ o >= -(Len(st) - 1) /\ o <= Len(h)
    BY <1>1, <1>2 DEF Holders
  <2>2. o \in Holders(h, st) /\ (o < 0 => -o \in 1 .. Len(st) - 1)
    BY <1>2, <2>1 DEF Holders
  <2>3. o < 0 => r[-o] = st[-o]
    BY <1>1, <2>2
  <2>. QED  BY <2>1, <2>2, <2>3 DEF Holding
<1>. HIDE DEF l, t
<1>5. Loose(h, r, ss, x)
  BY <1>4, Zenon DEF Loose
<1>6. Apart(x, t)
  BY <1>3, Zenon DEF Loose
<1>. QED  BY <1>5, <1>6 DEF r, t

\* Another activation holds what was loose.
LEMMA HolderPushed ==
  ASSUME NEW S, NEW st \in Seq(S), NEW a \in S, NEW R, NEW h \in Seq(R), NEW ss, Shared(h, st, ss),
         Loose(h, st, ss, OfActivation(a))
  PROVE  /\ Shared(h, Append(st, a), ss)
         /\ \A y : Loose(h, st, ss, y) /\ Apart(y, OfActivation(a)) => Loose(h, Append(st, a), ss, y)
<1>. DEFINE r == Append(st, a)
            l == -(Len(st) + 1)
            t == OfActivation(a)
<1>1. Len(r) = Len(st) + 1 /\ (\A i \in 1 .. Len(st) : r[i] = st[i]) /\ r[Len(st) + 1] = a
  BY SeqPush
<1>2. Len(st) \in Nat /\ Len(h) \in Nat
  BY LenProperties
<1>. HIDE DEF r
<1>3. Holding(h, r, ss, l) = t
  BY <1>1, <1>2 DEF Holding
<1>4. ASSUME NEW o \in Holders(h, r), o # l
      PROVE  o \in Holders(h, st) /\ Holding(h, r, ss, o) = Holding(h, st, ss, o)
  <2>1. o \in Int /\ o >= -(Len(st) + 1) /\ o <= Len(h)
    BY <1>1, <1>2 DEF Holders
  <2>2. o \in Holders(h, st) /\ (o < 0 => -o \in 1 .. Len(st))
    BY <1>2, <1>4, <2>1 DEF Holders
  <2>3. o < 0 => r[-o] = st[-o]
    BY <1>1, <2>2
  <2>. QED  BY <2>1, <2>2, <2>3 DEF Holding
<1>. HIDE DEF l, t
<1>5. Single(t) /\ \A o \in Holders(h, st) : Apart(t, Holding(h, st, ss, o)) /\ Apart(Holding(h, st, ss, o), t)
  BY ApartTurned DEF Loose, t
<1>6. Shared(h, r, ss)
  BY <1>3, <1>4, <1>5, Zenon DEF Shared
<1>7. ASSUME NEW y, Loose(h, st, ss, y), Apart(y, t)
      PROVE  Loose(h, r, ss, y)
  BY <1>3, <1>4, <1>7, Zenon DEF Loose
<1>. QED  BY <1>6, <1>7 DEF r, t

\* Another node holds what was loose.
LEMMA HolderMade ==
  ASSUME NEW S, NEW st \in Seq(S), NEW R, NEW h \in Seq(R), NEW x \in R, NEW ss, Shared(h, st, ss),
         Loose(h, st, ss, OfNode(x))
  PROVE  /\ Shared(Append(h, x), st, ss)
         /\ \A y : Loose(h, st, ss, y) /\ Apart(y, OfNode(x)) => Loose(Append(h, x), st, ss, y)
<1>. DEFINE g == Append(h, x)
            l == Len(h) + 1
            t == OfNode(x)
<1>1. Len(g) = Len(h) + 1 /\ (\A i \in 1 .. Len(h) : g[i] = h[i]) /\ g[Len(h) + 1] = x
  BY SeqPush
<1>2. Len(st) \in Nat /\ Len(h) \in Nat
  BY LenProperties
<1>. HIDE DEF g
<1>3. Holding(g, st, ss, l) = t
  BY <1>1, <1>2 DEF Holding
<1>4. ASSUME NEW o \in Holders(g, st), o # l
      PROVE  o \in Holders(h, st) /\ Holding(g, st, ss, o) = Holding(h, st, ss, o)
  <2>1. o \in Int /\ o >= -Len(st) /\ o <= Len(h) + 1
    BY <1>1, <1>2 DEF Holders
  <2>2. o \in Holders(h, st) /\ (o > 0 => o \in 1 .. Len(h))
    BY <1>2, <1>4, <2>1 DEF Holders
  <2>3. o > 0 => g[o] = h[o]
    BY <1>1, <2>2
  <2>. QED  BY <2>1, <2>2, <2>3 DEF Holding
<1>. HIDE DEF l, t
<1>5. Single(t) /\ \A o \in Holders(h, st) : Apart(t, Holding(h, st, ss, o)) /\ Apart(Holding(h, st, ss, o), t)
  BY ApartTurned DEF Loose, t
<1>6. Shared(g, st, ss)
  BY <1>3, <1>4, <1>5, Zenon DEF Shared
<1>7. ASSUME NEW y, Loose(h, st, ss, y), Apart(y, t)
      PROVE  Loose(g, st, ss, y)
  BY <1>3, <1>4, <1>7, Zenon DEF Loose
<1>. QED  BY <1>6, <1>7 DEF g, t

\* Nodes of which something else is noted hold what they held.
LEMMA HolderMarked ==
  ASSUME NEW S, NEW st \in Seq(S), NEW R, NEW h \in Seq(R), NEW g \in Seq(R), Len(g) = Len(h),
         \A i \in 1 .. Len(h) : OfNode(g[i]) = OfNode(h[i]), NEW ss, Shared(h, st, ss)
  PROVE  /\ Shared(g, st, ss)
         /\ \A x : Loose(h, st, ss, x) => Loose(g, st, ss, x)
<1>1. Len(h) \in Nat /\ Len(st) \in Nat
  BY LenProperties
<1>2. Holders(g, st) = Holders(h, st)
  BY DEF Holders
<1>3. ASSUME NEW o \in Holders(h, st)
      PROVE  Holding(g, st, ss, o) = Holding(h, st, ss, o)
  <2>1. o \in Int /\ o <= Len(h)
    BY <1>1 DEF Holders
  <2>2. CASE o > 0
    <3>1. o \in 1 .. Len(h)
      BY <1>1, <2>1, <2>2
    <3>. QED  BY <2>2, <3>1 DEF Holding
  <2>3. CASE ~(o > 0)
    BY <2>3 DEF Holding
  <2>. QED  BY <2>2, <2>3
<1>4. Shared(g, st, ss)
  <2>1. ASSUME NEW o \in Holders(h, st)
        PROVE  /\ Single(Holding(g, st, ss, o))
               /\ \A q \in Holders(h, st) : q # o => Apart(Holding(g, st, ss, o), Holding(g, st, ss, q))
    BY <1>3, Zenon DEF Shared
  <2>. QED  BY <1>2, <2>1, Zenon DEF Shared
<1>5. ASSUME NEW x, Loose(h, st, ss, x)
      PROVE  Loose(g, st, ss, x)
  BY <1>2, <1>3, <1>5, Zenon DEF Loose
<1>. QED  BY <1>4, <1>5

\* The module gets another statement.
LEMMA HolderModule ==
  ASSUME NEW S, NEW st \in Seq(S), NEW R, NEW h \in Seq(R), NEW Q, NEW ss \in Seq(Q), NEW k \in Q,
         Shared(h, st, ss), NEW x, Loose(h, st, ss, x), x.nodes = <<k>>
  PROVE  Shared(h, st, Append(ss, k))
<1>. DEFINE qq == Append(ss, k)
            m  == [token |-> 0, nodes |-> ss]
            w  == [token |-> 0, nodes |-> qq]
<1>1. /\ qq \in Seq(Q) /\ Len(qq) = Len(ss) + 1 /\ Len(ss) \in Nat /\ Len(st) \in Nat /\ Len(h) \in Nat
      /\ (\A i \in 1 .. Len(ss) : qq[i] = ss[i]) /\ qq[Len(ss) + 1] = k
  BY SeqPush, LenProperties
<1>2. DOMAIN qq = 1 .. Len(ss) + 1 /\ DOMAIN ss = 1 .. Len(ss)
  BY <1>1, LenProperties
<1>3. DOMAIN x.nodes = {1} /\ x.nodes[1] = k
  OBVIOUS
<1>. HIDE DEF qq
<1>4. m.token = 0 /\ m.nodes = ss /\ w.token = 0 /\ w.nodes = qq
  OBVIOUS
<1>5. 0 \in Holders(h, st) /\ Holding(h, st, ss, 0) = m /\ Holding(h, st, qq, 0) = w
  BY <1>1 DEF Holders, Holding
<1>. HIDE DEF m, w
<1>6. Single(m) /\ Apart(x, m)
  BY <1>5 DEF Shared, Loose
<1>7. Single(w)
  <2>1. ASSUME NEW i \in 1 .. Len(ss) + 1, NEW j \in 1 .. Len(ss) + 1, qq[i] = qq[j]
        PROVE  i = j
    <3>1. CASE i \in 1 .. Len(ss) /\ j \in 1 .. Len(ss)
      BY <1>1, <1>2, <1>4, <1>6, <2>1, <3>1 DEF Single
    <3>2. CASE i = Len(ss) + 1 /\ j \in 1 .. Len(ss)
      BY <1>1, <1>2, <1>3, <1>4, <1>6, <2>1, <3>2 DEF Apart
    <3>3. CASE j = Len(ss) + 1 /\ i \in 1 .. Len(ss)
      BY <1>1, <1>2, <1>3, <1>4, <1>6, <2>1, <3>3 DEF Apart
    <3>4. CASE i = Len(ss) + 1 /\ j = Len(ss) + 1
      BY <3>4
    <3>. QED  BY <1>1, <3>1, <3>2, <3>3, <3>4
  <2>. QED  BY <1>2, <1>4, <2>1 DEF Single
<1>8. ASSUME NEW o \in Holders(h, st), o # 0
      PROVE  /\ Holding(h, st, qq, o) = Holding(h, st, ss, o)
             /\ Apart(w, Holding(h, st, ss, o)) /\ Apart(Holding(h, st, ss, o), w)
  <2>. DEFINE z == Holding(h, st, ss, o)
  <2>1. o \in Int
    BY <1>1 DEF Holders
  <2>2. Holding(h, st, qq, o) = z
    BY <1>8, <2>1 DEF Holding
  <2>3. Apart(m, z) /\ Apart(x, z)
    BY <1>5, <1>8 DEF Shared, Loose
  <2>. HIDE DEF z
  <2>4. \A i \in DOMAIN w.nodes : \/ \E j \in DOMAIN m.nodes : m.nodes[j] = w.nodes[i]
                                  \/ \E j \in DOMAIN x.nodes : x.nodes[j] = w.nodes[i]
    <3>1. ASSUME NEW i \in 1 .. Len(ss) + 1
          PROVE  \/ \E j \in 1 .. Len(ss) : ss[j] = qq[i]
                 \/ \E j \in {1} : x.nodes[j] = qq[i]
      BY <1>1, <1>3
    <3>. QED  BY <1>2, <1>3, <1>4, <3>1
  <2>5. Apart(w, z)
    BY <1>4, <2>3, <2>4, ApartJoined
  <2>. QED  BY <2>2, <2>5, ApartTurned DEF z
<1>9. Shared(h, st, qq)
  BY <1>5, <1>7, <1>8, Zenon DEF Shared
<1>. QED  BY <1>9 DEF qq

\* What takes its token of one loose holding, and its nodes of two, is loose.
LEMMA LooseJoined ==
  ASSUME NEW h, NEW st, NEW ss, NEW x, NEW y, Loose(h, st, ss, x), Loose(h, st, ss, y),
         NEW w, Single(w), w.token = x.token,
         \A i \in DOMAIN w.nodes : \/ \E j \in DOMAIN x.nodes : x.nodes[j] = w.nodes[i]
                                   \/ \E j \in DOMAIN y.nodes : y.nodes[j] = w.nodes[i]
  PROVE  Loose(h, st, ss, w)
<1>1. ASSUME NEW o \in Holders(h, st)
      PROVE  Apart(w, Holding(h, st, ss, o))
  <2>. DEFINE z == Holding(h, st, ss, o)
  <2>1. Apart(x, z) /\ Apart(y, z)
    BY DEF Loose
  <2>. HIDE DEF z
  <2>2. Apart(w, z)
    BY <2>1, ApartJoined
  <2>. QED  BY <2>2 DEF z
<1>. QED  BY <1>1 DEF Loose

-----------------------------------------------------------------------------
(***************************************************************************)
(* Tokens that have not been read and nodes that have not been made are    *)
(* held by nobody.                                                         *)
(***************************************************************************)
\* One node, and no token.
One(k) == [token |-> 0, nodes |-> <<k>>]

\* Every holder has tokens before p and nodes up to n.
Known(h, st, ss, n, p) ==
  \A o \in Holders(h, st) :
    /\ Holding(h, st, ss, o).token \in 0 .. p - 1
    /\ \A k \in DOMAIN Holding(h, st, ss, o).nodes : Holding(h, st, ss, o).nodes[k] \in 1 .. n

\* The next token is loose.
LEMMA Unread ==
  ASSUME NEW h, NEW st, NEW ss, NEW n \in Nat, NEW p \in Nat, p >= 1, Known(h, st, ss, n, p),
         NEW x, x.token \in {0, p}, x.nodes = <<>>
  PROVE  Loose(h, st, ss, x)
<1>1. DOMAIN x.nodes = {}
  OBVIOUS
<1>2. ASSUME NEW o \in Holders(h, st)
      PROVE  Apart(x, Holding(h, st, ss, o))
  BY <1>1 DEF Known, Apart
<1>. QED  BY <1>1, <1>2 DEF Loose, Single

\* The next nodes are loose.
LEMMA Unmade ==
  ASSUME NEW h, NEW st, NEW ss, NEW n \in Nat, NEW p \in Nat, Known(h, st, ss, n, p),
         NEW m \in Nat, m > n
  PROVE  Loose(h, st, ss, One(m))
<1>. DEFINE x == One(m)
<1>1. x.token = 0 /\ DOMAIN x.nodes = {1} /\ x.nodes[1] = m
  BY DEF One
<1>. HIDE DEF x
<1>2. ASSUME NEW o \in Holders(h, st)
      PROVE  Apart(x, Holding(h, st, ss, o))
  BY <1>1 DEF Known, Apart
<1>3. Single(x)
  BY <1>1 DEF Single
<1>4. Loose(h, st, ss, x)
  BY <1>2, <1>3 DEF Loose
<1>. QED  BY <1>4 DEF x

\* The activations and the nodes that the invariants tell of.
LEMMA AllKnown ==
  ASSUME PrattInv, ForestInv, outcome = "parsing"
  PROVE  Known(heap, stack, statements, Len(heap), pos)
<1>. DEFINE N == 1 .. Len(heap)
            P == 0 .. pos - 1
<1>1. PICK end : AtWork(stack, end, storageKinds, templateParameters, pos, Len(heap))
  BY WhileParsing
<1>2. /\ stack \in Seq(Activation) /\ heap \in Seq(NodeType) /\ statements \in Seq(N)
      /\ Len(stack) \in Nat /\ Len(heap) \in Nat /\ pos \in Nat /\ pos >= 1
  BY WhileParsing, LenProperties DEF PrattInv, Grown
<1>3. ASSUME NEW i \in 1 .. Len(heap)
      PROVE  /\ OfNode(heap[i]).token \in P
             /\ \A k \in DOMAIN OfNode(heap[i]).nodes : OfNode(heap[i]).nodes[k] \in N
  <2>1. heap[i] \in NodeType /\ i \in DOMAIN heap
    BY <1>2
  <2>2. heap[i].at \in Nat /\ heap[i].at < pos
    BY <2>1 DEF NodeType, ForestInv
  <2>3. \A k \in DOMAIN heap[i].kids : heap[i].kids[k] \in 1 .. i - 1
    BY <2>1 DEF PrattInv, Grown
  <2>4. \A k \in DOMAIN heap[i].kids : heap[i].kids[k] \in N
    <3>1. 1 .. i - 1 \subseteq 1 .. Len(heap)
      BY <1>2
    <3>. QED  BY <2>3, <3>1
  <2>. QED  BY <1>2, <2>2, <2>4 DEF OfNode
<1>4. ASSUME NEW i \in 1 .. Len(stack)
      PROVE  /\ OfActivation(stack[i]).token \in P
             /\ \A k \in DOMAIN OfActivation(stack[i]).nodes : OfActivation(stack[i]).nodes[k] \in N
  <2>1. PICK s : Sound(stack[i], end[i], s, pos, Len(heap))
    BY <1>1, <1>2 DEF AtWork, Stacked
  <2>2. stack[i] \in Activation
    BY <1>2
  <2>3. CASE stack[i].fn = "parselet"
    <3>1. stack[i].at \in 1 .. pos - 1 /\ \A k \in DOMAIN stack[i].kids : stack[i].kids[k] \in N
      BY <2>1, <2>3 DEF Sound
    <3>. QED  BY <1>2, <2>3, <3>1 DEF OfActivation
  <2>4. CASE stack[i].fn # "parselet"
    <3>1. stack[i].fn = "parseExpr"
      BY <2>2, <2>4 DEF Activation, ExprActivation, ParseletActivation
    <3>2. stack[i].left \in {None} \union N
      BY <2>1, <3>1 DEF Sound
    <3>3. P = 0 .. pos - 1 /\ 0 \in P
      BY <1>2
    <3>4. CASE stack[i].left = None
      <4>1. OfActivation(stack[i]).token = 0 /\ OfActivation(stack[i]).nodes = <<>>
        BY <2>4, <3>4 DEF OfActivation
      <4>. QED  BY <3>3, <4>1
    <3>5. CASE stack[i].left # None
      <4>1. /\ OfActivation(stack[i]).token = 0 /\ OfActivation(stack[i]).nodes = <<stack[i].left>>
        BY <2>4, <3>5 DEF OfActivation
      <4>2. stack[i].left \in N
        BY <3>2, <3>5
      <4>. HIDE DEF P, N
      <4>. QED  BY <3>3, <4>1, <4>2
    <3>. QED  BY <3>4, <3>5
  <2>. QED  BY <2>3, <2>4
<1>5. \A k \in DOMAIN statements : statements[k] \in N
  <2>. HIDE DEF N
  <2>. QED  BY <1>2
<1>6. 0 \in P
  BY <1>2
<1>7. ASSUME NEW o \in Holders(heap, stack)
      PROVE  /\ Holding(heap, stack, statements, o).token \in P
             /\ \A k \in DOMAIN Holding(heap, stack, statements, o).nodes :
                  Holding(heap, stack, statements, o).nodes[k] \in N
  <2>1. o \in Int /\ o >= -Len(stack) /\ o <= Len(heap)
    BY <1>2 DEF Holders
  <2>. HIDE DEF P, N
  <2>2. CASE o > 0
    <3>1. o \in 1 .. Len(heap)
      BY <1>2, <2>1, <2>2
    <3>2. Holding(heap, stack, statements, o) = OfNode(heap[o])
      BY <2>2 DEF Holding
    <3>. QED  BY <1>3, <3>1, <3>2
  <2>3. CASE o < 0
    <3>1. -o \in 1 .. Len(stack)
      BY <1>2, <2>1, <2>3
    <3>2. Holding(heap, stack, statements, o) = OfActivation(stack[-o])
      BY <2>1, <2>3 DEF Holding
    <3>3. PICK i \in 1 .. Len(stack) : i = -o
      BY <3>1
    <3>. QED  BY <1>4, <3>2, <3>3
  <2>4. CASE o = 0
    <3>1. Holding(heap, stack, statements, o) = [token |-> 0, nodes |-> statements]
      BY <2>4 DEF Holding
    <3>. QED  BY <1>5, <1>6, <3>1
  <2>. QED  BY <2>1, <2>2, <2>3, <2>4
<1>. QED  BY <1>7 DEF Known

-----------------------------------------------------------------------------
(***************************************************************************)
(* The steps that make no node.                                            *)
(***************************************************************************)
\* A step while the text is parsed.
Builds == PrattInv /\ ForestInv /\ PrattInv' /\ outcome = "parsing" /\ outcome' = "parsing"

\* What the invariants say while the text is parsed.
LEMMA BuildsIn ==
  ASSUME Builds
  PROVE  /\ stack \in Seq(Activation) /\ stack' \in Seq(Activation)
         /\ heap \in Seq(NodeType) /\ heap' \in Seq(NodeType) /\ Len(heap) \in Nat
         /\ statements \in Seq(1 .. Len(heap))
         /\ Shared(heap, stack, statements) /\ \A n \in DOMAIN heap : heap[n].at < pos
         /\ Known(heap, stack, statements, Len(heap), pos) /\ pos \in Nat /\ pos >= 1
<1>1. stack \in Seq(Activation) /\ pos \in Nat /\ pos >= 1 /\ Len(heap) \in Nat
  BY WhileParsing DEF Builds
<1>2. heap \in Seq(NodeType) /\ heap' \in Seq(NodeType) /\ statements \in Seq(1 .. Len(heap))
  BY DEF Builds, PrattInv, Grown
<1>3. Working'
  BY DEF Builds, PrattInv
<1>4. stack' \in Seq(Activation)
  BY <1>3 DEF Builds, Working, Works, Stacked
<1>5. Known(heap, stack, statements, Len(heap), pos)
  BY AllKnown DEF Builds
<1>. QED  BY <1>1, <1>2, <1>4, <1>5 DEF Builds, ForestInv

\* Tokens are read, and no node is made.
LEMMA ForestReads ==
  ASSUME Builds, heap' = heap, pos' \in {pos, pos + 1}, Shared(heap, stack', statements')
  PROVE  ForestInv'
<1>1. heap \in Seq(NodeType) /\ (\A n \in DOMAIN heap : heap[n].at < pos) /\ pos \in Nat
      /\ stack' \in Seq(Activation)
  BY BuildsIn
<1>2. ASSUME NEW n \in DOMAIN heap
      PROVE  heap[n].at < pos'
  <2>1. PICK x \in NodeType : x = heap[n]
    BY <1>1, LenProperties
  <2>2. x.at \in Nat
    BY DEF NodeType
  <2>. QED  BY <1>1, <2>1, <2>2
<1>3. Shared(heap', stack', statements')
  BY Zenon
<1>. QED  BY <1>1, <1>2, <1>3 DEF ForestInv

\* The activation on top goes on with what it holds.
LEMMA ForestKept ==
  ASSUME Builds, stack # <<>>, heap' = heap, statements' = statements, pos' \in {pos, pos + 1},
         NEW a, stack' = Append(Callers, a), OfActivation(a) = OfActivation(Top)
  PROVE  ForestInv'
<1>1. /\ stack \in Seq(Activation) /\ stack' \in Seq(Activation) /\ heap \in Seq(NodeType)
      /\ Shared(heap, stack, statements)
  BY BuildsIn
<1>2. Top = stack[Len(stack)] /\ Callers = Front(stack)
  BY DEF Top, Last, Callers
<1>3. Shared(heap, Callers, statements) /\ Loose(heap, Callers, statements, OfActivation(Top))
  BY <1>1, <1>2, HolderGone
<1>4. Callers \in Seq(Activation)
  BY <1>1, <1>2, FrontOfSeq
<1>5. a \in Activation
  BY <1>1, <1>4, LastPushed
<1>6. Shared(heap, Append(Callers, a), statements)
  BY <1>1, <1>3, <1>4, <1>5, HolderPushed
<1>. QED  BY <1>6, ForestReads

\* A parselet with the same token and operands.
Carries(t, a) == a.fn = t.fn /\ a.at = t.at /\ a.kids = t.kids

\* What else it keeps in mind does not matter.
LEMMA CarriesOn ==
  ASSUME NEW t \in ParseletActivation, NEW todo, NEW c
  PROVE  /\ Carries(t, [t EXCEPT !.todo = todo])
         /\ Carries(t, [t EXCEPT !.todo = todo, !.generic = c])
         /\ Carries(t, [t EXCEPT !.todo = todo, !.op = c])
         /\ Carries(t, [t EXCEPT !.todo = todo, !.parameters = c])
  BY DEF Carries, ParseletActivation

\* A parselet goes on, whatever it does with the definitions.
LEMMA ForestContinues ==
  ASSUME Builds, InParselet, heap' = heap, statements' = statements, pos' \in {pos, pos + 1},
         NEW a, stack' = Append(Callers, a), Carries(Top, a)
  PROVE  ForestInv'
<1>1. Top.fn = "parselet" /\ stack # <<>>
  BY DEF InParselet
<1>2. OfActivation(a) = OfActivation(Top)
  BY <1>1 DEF Carries, OfActivation
<1>. QED  BY <1>1, <1>2, ForestKept

\* A token is consumed, a rule followed, a definition entered or left.
LEMMA ForestWorks ==
  ASSUME Builds, \/ Consumed \/ TakeOptional \/ WithoutOptional \/ FollowRule
                 \/ PushStorage \/ PopStorage \/ EnterTemplate
  PROVE  ForestInv'
<1>1. /\ InParselet /\ heap' = heap /\ statements' = statements /\ pos' \in {pos, pos + 1}
      /\ \E todo : Continue(todo)
  BY DEF Consumed, TakeOptional, WithoutOptional, FollowRule, PushStorage, PopStorage, EnterTemplate, Doing
<1>2. PICK todo : Continue(todo)
  BY <1>1
<1>3. PICK a : a = [Top EXCEPT !.todo = todo]
  OBVIOUS
<1>4. stack' = Append(Callers, a)
  BY <1>2, <1>3 DEF Continue
<1>5. Carries(Top, a)
  <2>1. PICK t \in ParseletActivation : t = Top
    BY <1>1, InParseletWorks DEF Builds
  <2>. QED  BY <1>3, <2>1, CarriesOn
<1>. QED  BY <1>1, <1>4, <1>5, ForestContinues

\* The construct turns into another, or gets its parameters.
LEMMA ForestTurns ==
  ASSUME Builds, Turn \/ LeaveTemplate
  PROVE  ForestInv'
<1>1. /\ InParselet /\ heap' = heap /\ statements' = statements /\ pos' \in {pos, pos + 1}
  BY DEF Turn, LeaveTemplate, Doing
<1>2. PICK t \in ParseletActivation : t = Top
  BY <1>1, InParseletWorks DEF Builds
<1>3. \E a : stack' = Append(Callers, a) /\ Carries(t, a)
  <2>. DEFINE todo == Tail(t.todo)
  <2>1. CASE Turn /\ Item.op = "generic"
    <3>1. stack' = Append(Callers, [t EXCEPT !.todo = todo, !.generic = TRUE])
      BY <1>2, <2>1 DEF Turn
    <3>2. Carries(t, [t EXCEPT !.todo = todo, !.generic = TRUE])
      BY CarriesOn
    <3>. QED  BY <3>1, <3>2
  <2>2. CASE Turn /\ Item.op # "generic"
    <3>1. stack' = Append(Callers, [t EXCEPT !.todo = todo, !.op = Item.op])
      BY <1>2, <2>2 DEF Turn
    <3>2. Carries(t, [t EXCEPT !.todo = todo, !.op = Item.op])
      BY CarriesOn
    <3>. QED  BY <3>1, <3>2
  <2>3. CASE LeaveTemplate /\ Parameterised
    <3>1. stack' = Append(Callers, [t EXCEPT !.todo = todo, !.parameters = Last(templateParameters)])
      BY <1>2, <2>3 DEF LeaveTemplate
    <3>2. Carries(t, [t EXCEPT !.todo = todo, !.parameters = Last(templateParameters)])
      BY CarriesOn
    <3>. QED  BY <3>1, <3>2
  <2>4. CASE LeaveTemplate /\ ~Parameterised
    <3>1. stack' = Append(Callers, [t EXCEPT !.todo = todo])
      BY <1>2, <2>4 DEF LeaveTemplate, Continue
    <3>2. Carries(t, [t EXCEPT !.todo = todo])
      BY CarriesOn
    <3>. QED  BY <3>1, <3>2
  <2>. QED  BY <2>1, <2>2, <2>3, <2>4
<1>4. PICK a : stack' = Append(Callers, a) /\ Carries(t, a)
  BY <1>3
<1>. QED  BY <1>1, <1>2, <1>4, ForestContinues

\* parseExpr is called, by the module or a parselet: it holds nothing yet.
LEMMA ForestCalls ==
  ASSUME Builds, Statement \/ CallParseExpr
  PROVE  ForestInv'
<1>. DEFINE f == IF stack = <<>> THEN ExprFrame(0) ELSE ExprFrame(Item.precedence)
            x == OfActivation(f)
<1>1. /\ stack \in Seq(Activation) /\ stack' \in Seq(Activation) /\ heap \in Seq(NodeType)
      /\ Shared(heap, stack, statements) /\ Known(heap, stack, statements, Len(heap), pos)
      /\ Len(heap) \in Nat /\ pos \in Nat /\ pos >= 1
  BY BuildsIn
<1>2. heap' = heap /\ statements' = statements /\ pos' \in {pos, pos + 1}
  BY DEF Statement, CallParseExpr
<1>3. x.token = 0 /\ x.nodes = <<>>
  BY DEF ExprFrame, OfActivation
<1>4. CASE Statement
  <2>1. stack = <<>> /\ stack' = Append(stack, f)
    BY <1>4 DEF Statement
  <2>. HIDE DEF f
  <2>2. f \in Activation
    BY <1>1, <2>1, LastPushed
  <2>3. Loose(heap, stack, statements, x)
    <3>. HIDE DEF x
    <3>. QED  BY <1>1, <1>3, Unread
  <2>4. Shared(heap, Append(stack, f), statements)
    BY <1>1, <2>2, <2>3, HolderPushed
  <2>. QED  BY <1>2, <2>1, <2>4, ForestReads
<1>5. CASE CallParseExpr
  <2>. DEFINE a == [Top EXCEPT !.todo = Tail(@)]
              r == Append(Callers, a)
  <2>1. InParselet /\ stack # <<>> /\ Top \in ParseletActivation
    BY <1>5, InParseletWorks DEF CallParseExpr, Doing, Builds
  <2>2. stack' = Append(r, f)
    BY <1>5, <2>1 DEF CallParseExpr
  <2>3. OfActivation(a) = OfActivation(Top)
    <3>1. PICK t \in ParseletActivation : t = Top
      BY <2>1
    <3>2. a = [t EXCEPT !.todo = Tail(t.todo)]
      BY <3>1
    <3>3. Carries(t, a)
      BY <3>2, CarriesOn
    <3>. HIDE DEF a
    <3>4. t.fn = "parselet"
      BY DEF ParseletActivation
    <3>. QED  BY <3>1, <3>3, <3>4 DEF Carries, OfActivation
  <2>4. a \in Activation
    <3>. DEFINE t == Top
                todo == Tail(t.todo)
    <3>1. t.todo \in Seq(ParseletItem) /\ t.todo # <<>>
      BY <1>5, <2>1 DEF CallParseExpr, Doing, ParseletActivation
    <3>2. todo \in Seq(ParseletItem)
      BY <3>1
    <3>3. a = [t EXCEPT !.todo = todo]
      OBVIOUS
    <3>. HIDE DEF t, todo, a
    <3>4. a \in ParseletActivation
      BY <2>1, <3>2, <3>3 DEF t, ParseletActivation
    <3>. QED  BY <3>4 DEF Activation
  <2>. HIDE DEF f, a
  <2>5. /\ Shared(heap, Callers, statements) /\ Loose(heap, Callers, statements, OfActivation(a))
        /\ Callers \in Seq(Activation)
    <3>1. Top = stack[Len(stack)] /\ Callers = Front(stack)
      BY DEF Top, Last, Callers
    <3>. QED  BY <1>1, <2>1, <2>3, <3>1, HolderGone, FrontOfSeq
  <2>6. Shared(heap, r, statements) /\ r \in Seq(Activation)
    BY <1>1, <2>4, <2>5, HolderPushed
  <2>7. f \in Activation
    BY <1>1, <2>2, <2>6, LastPushed
  <2>8. Loose(heap, r, statements, x)
    <3>. HIDE DEF x, r
    <3>1. Loose(heap, stack, statements, x)
      BY <1>1, <1>3, Unread
    <3>2. Loose(heap, Callers, statements, x) /\ Apart(x, OfActivation(a))
      <4>1. Top = stack[Len(stack)] /\ Callers = Front(stack)
        BY DEF Top, Last, Callers
      <4>. QED  BY <1>1, <2>1, <2>3, <3>1, <4>1, LooseBelow
    <3>. QED  BY <1>1, <2>4, <2>5, <3>2, HolderPushed DEF r
  <2>. HIDE DEF x, r
  <2>9. Shared(heap, Append(r, f), statements)
    BY <1>1, <2>6, <2>7, <2>8, HolderPushed DEF x
  <2>. QED  BY <1>2, <2>2, <2>9, ForestReads
<1>. QED  BY <1>4, <1>5

\* A generic parselet is called, with the token just read.
LEMMA ForestPrefix ==
  ASSUME Builds, PrefixFound
  PROVE  ForestInv'
<1>. DEFINE b == Parselet(Peek, Prefix(Peek), <<>>)
            x == OfActivation(b)
<1>1. /\ stack \in Seq(Activation) /\ stack' \in Seq(Activation) /\ heap \in Seq(NodeType)
      /\ Shared(heap, stack, statements) /\ Known(heap, stack, statements, Len(heap), pos)
      /\ Len(heap) \in Nat /\ pos \in Nat /\ pos >= 1
  BY BuildsIn
<1>2. heap' = heap /\ statements' = statements /\ pos' \in {pos, pos + 1} /\ stack' = Append(stack, b)
  BY DEF PrefixFound
<1>3. x.token = pos /\ x.nodes = <<>>
  BY DEF Parselet, OfActivation
<1>. HIDE DEF b
<1>4. b \in Activation
  BY <1>1, <1>2, LastPushed
<1>5. Loose(heap, stack, statements, x)
  <2>. HIDE DEF x
  <2>. QED  BY <1>1, <1>3, Unread
<1>6. Shared(heap, Append(stack, b), statements)
  BY <1>1, <1>4, <1>5, HolderPushed
<1>. QED  BY <1>2, <1>6, ForestReads

\* An infix parselet takes over what parseExpr held.
LEMMA ForestInfix ==
  ASSUME Builds, InfixFound
  PROVE  ForestInv'
<1>. DEFINE a == [Top EXCEPT !.left = None]
            b == Parselet(IF Peek = "(" THEN "call" ELSE Peek, Infix(Peek), <<Top.left>>)
            r == Append(Callers, a)
            k == Top.left
<1>1. /\ stack \in Seq(Activation) /\ stack' \in Seq(Activation) /\ heap \in Seq(NodeType)
      /\ Shared(heap, stack, statements) /\ Known(heap, stack, statements, Len(heap), pos)
      /\ Len(heap) \in Nat /\ pos \in Nat /\ pos >= 1
  BY BuildsIn
<1>2. /\ heap' = heap /\ statements' = statements /\ pos' \in {pos, pos + 1} /\ stack' = Append(r, b)
      /\ InExpr /\ k # None
  BY DEF InfixFound, Binds
<1>3. stack # <<>> /\ Top = stack[Len(stack)] /\ Callers = Front(stack) /\ Top.fn = "parseExpr"
  BY <1>2 DEF InExpr, Top, Last, Callers
<1>4. /\ Top \in ExprActivation /\ a \in Activation /\ a.left = None /\ a.fn = "parseExpr"
  <2>1. Top \in Activation
    <3>1. Len(stack) \in 1 .. Len(stack)
      BY <1>1, <1>3, LenProperties, EmptySeq
    <3>. QED  BY <1>1, <1>3, <3>1, ElementOfSeq
  <2>2. Top \in ExprActivation
    BY <1>3, <2>1 DEF Activation, ParseletActivation
  <2>3. PICK t \in ExprActivation : t = Top
    BY <2>2
  <2>4. [t EXCEPT !.left = None] \in ExprActivation /\ [t EXCEPT !.left = None].left = None
        /\ [t EXCEPT !.left = None].fn = "parseExpr"
    BY DEF ExprActivation
  <2>5. a = [t EXCEPT !.left = None]
    BY <2>3
  <2>. HIDE DEF a
  <2>. QED  BY <2>2, <2>4, <2>5 DEF Activation
<1>5. OfActivation(a) = [token |-> 0, nodes |-> <<>>]
  BY <1>4 DEF OfActivation
<1>6. OfActivation(Top) = One(k)
  BY <1>2, <1>3 DEF OfActivation, One
<1>7. OfActivation(b) = [token |-> pos, nodes |-> <<k>>]
  BY DEF Parselet, OfActivation
<1>. HIDE DEF a, b, k
<1>8. /\ Shared(heap, Callers, statements) /\ Loose(heap, Callers, statements, One(k))
      /\ Callers \in Seq(Activation)
  BY <1>1, <1>3, <1>6, HolderGone, FrontOfSeq
<1>. DEFINE y == [token |-> pos, nodes |-> <<>>]
            e == [token |-> 0, nodes |-> <<>>]
<1>9. Loose(heap, Callers, statements, y) /\ Loose(heap, Callers, statements, e)
  <2>1. y.token \in {0, pos} /\ y.nodes = <<>> /\ e.token \in {0, pos} /\ e.nodes = <<>>
    OBVIOUS
  <2>. HIDE DEF y, e
  <2>2. Loose(heap, stack, statements, y) /\ Loose(heap, stack, statements, e)
    BY <1>1, <2>1, Unread
  <2>. QED  BY <1>1, <1>3, <2>2, LooseBelow
<1>10. Loose(heap, Callers, statements, OfActivation(b))
  <2>. DEFINE w == OfActivation(b)
  <2>1. y.token = pos /\ One(k).nodes = <<k>>
    BY DEF One
  <2>2. w.token = pos /\ w.nodes = <<k>>
    BY <1>7
  <2>. HIDE DEF w, y
  <2>3. DOMAIN w.nodes = {1} /\ w.nodes[1] = k /\ DOMAIN One(k).nodes = {1} /\ One(k).nodes[1] = k
    BY <2>1, <2>2
  <2>4. Single(w)
    BY <2>3 DEF Single
  <2>5. \A i \in DOMAIN w.nodes : \/ \E j \in DOMAIN y.nodes : y.nodes[j] = w.nodes[i]
                                  \/ \E j \in DOMAIN One(k).nodes : One(k).nodes[j] = w.nodes[i]
    BY <2>3
  <2>6. Loose(heap, Callers, statements, w)
    BY <1>8, <1>9, <2>1, <2>2, <2>4, <2>5, LooseJoined
  <2>. QED  BY <2>6 DEF w
<1>11. Apart(OfActivation(b), OfActivation(a))
  <2>1. DOMAIN (<<>>) = {}
    OBVIOUS
  <2>. QED  BY <1>1, <1>5, <1>7, <2>1 DEF Apart
<1>12. Shared(heap, r, statements) /\ Loose(heap, r, statements, OfActivation(b)) /\ r \in Seq(Activation)
  BY <1>1, <1>4, <1>5, <1>8, <1>9, <1>10, <1>11, HolderPushed
<1>. HIDE DEF r
<1>13. b \in Activation
  BY <1>1, <1>2, <1>12, LastPushed
<1>14. Shared(heap, Append(r, b), statements)
  BY <1>1, <1>12, <1>13, HolderPushed
<1>. QED  BY <1>2, <1>14, ForestReads

\* parseExpr returns its operand, to the module or to a parselet.
LEMMA ForestReturns ==
  ASSUME Builds, ExprReturns
  PROVE  ForestInv'
<1>. DEFINE k    == Top.left
            rest == Front(stack)
            c    == rest[Len(rest)]
            a    == [c EXCEPT !.kids = Append(@, k)]
<1>1. /\ stack \in Seq(Activation) /\ stack' \in Seq(Activation) /\ heap \in Seq(NodeType)
      /\ Shared(heap, stack, statements) /\ statements \in Seq(1 .. Len(heap))
  BY BuildsIn
<1>2. /\ heap' = heap /\ pos' \in {pos, pos + 1} /\ InExpr /\ k # None
      /\ rest = <<>> => stack' = <<>> /\ statements' = Append(statements, k)
      /\ rest # <<>> => stack' = SetLast(rest, a) /\ statements' = statements
  BY DEF ExprReturns, Callers, SetLast
<1>3. stack # <<>> /\ Top = stack[Len(stack)] /\ Top.fn = "parseExpr"
  BY <1>2 DEF InExpr, Top, Last
<1>4. OfActivation(Top) = One(k)
  BY <1>2, <1>3 DEF OfActivation, One
<1>5. PICK end : AtWork(stack, end, storageKinds, templateParameters, pos, Len(heap))
  BY <1>2, InExprWorks DEF Builds
<1>6. rest # <<>> => a \in Activation
  <2>1. ExprOnTop(stack)
    BY <1>3 DEF ExprOnTop
  <2>2. k = stack[Len(stack)].left
    BY <1>3
  <2>. HIDE DEF k
  <2>. QED  BY <1>2, <1>5, <2>1, <2>2, ReturnWorks
<1>7. k \in 1 .. Len(heap)
  <2>1. ExprOnTop(stack)
    BY <1>3 DEF ExprOnTop
  <2>2. k = stack[Len(stack)].left
    BY <1>3
  <2>. HIDE DEF k, a, c, rest
  <2>. QED  BY <1>2, <1>5, <2>1, <2>2, ReturnWorks
<1>8. /\ rest \in Seq(Activation) /\ Shared(heap, rest, statements) /\ Loose(heap, rest, statements, One(k))
  BY <1>1, <1>3, <1>4, HolderGone, FrontOfSeq
<1>9. CASE rest = <<>>
  <2>1. One(k).nodes = <<k>>
    BY DEF One
  <2>. DEFINE Q == 1 .. Len(heap)
  <2>2. k \in Q /\ statements \in Seq(Q)
    BY <1>1, <1>7
  <2>. HIDE DEF Q, k, rest
  <2>3. Shared(heap, rest, Append(statements, k))
    BY <1>1, <1>8, <2>1, <2>2, HolderModule
  <2>. QED  BY <1>2, <1>9, <2>3, ForestReads
<1>10. CASE rest # <<>>
  <2>1. c.fn = "parselet"
    <3>1. /\ Len(stack) \in Nat \ {0} /\ Len(rest) = Len(stack) - 1 /\ Len(rest) \in Nat \ {0}
          /\ \A i \in 1 .. Len(stack) - 1 : rest[i] = stack[i]
      BY <1>1, <1>3, <1>8, <1>10, FrontOfSeq, LenProperties, EmptySeq
    <3>2. Len(rest) \in 1 .. Len(stack) - 1 /\ Len(rest) + 1 = Len(stack)
      BY <3>1
    <3>3. c = stack[Len(rest)] /\ stack[Len(rest)].fn # stack[Len(rest) + 1].fn
      BY <1>5, <3>1, <3>2 DEF AtWork, Stacked
    <3>4. c \in Activation /\ c.fn # "parseExpr"
      BY <1>3, <1>8, <3>1, <3>2, <3>3, ElementOfSeq
    <3>. QED  BY <3>4 DEF Activation, ExprActivation, ParseletActivation
  <2>2. c \in ParseletActivation
    <3>1. Len(rest) \in 1 .. Len(rest)
      BY <1>8, <1>10, LenProperties, EmptySeq
    <3>2. c \in Activation
      BY <1>8, <3>1, ElementOfSeq
    <3>. QED  BY <2>1, <3>2 DEF Activation, ExprActivation
  <2>. DEFINE w  == OfActivation(a)
              ks == c.kids
  <2>3. ks \in Seq(Nat)
    BY <2>2 DEF ParseletActivation
  <2>4. OfActivation(c).token = c.at /\ OfActivation(c).nodes = ks
    BY <2>1 DEF OfActivation
  <2>5. w.token = c.at /\ w.nodes = Append(ks, k)
    <3>1. PICK t \in ParseletActivation : t = c
      BY <2>2
    <3>2. /\ [t EXCEPT !.kids = Append(@, k)].fn = "parselet" /\ [t EXCEPT !.kids = Append(@, k)].at = t.at
          /\ [t EXCEPT !.kids = Append(@, k)].kids = Append(t.kids, k)
      BY DEF ParseletActivation
    <3>3. a.fn = "parselet" /\ a.at = c.at /\ a.kids = Append(ks, k)
      BY <3>1, <3>2
    <3>. HIDE DEF a
    <3>. QED  BY <3>3 DEF OfActivation
  <2>6. /\ Shared(heap, Front(rest), statements) /\ Loose(heap, Front(rest), statements, OfActivation(c))
        /\ Loose(heap, Front(rest), statements, One(k)) /\ Apart(One(k), OfActivation(c))
        /\ Front(rest) \in Seq(Activation)
    <3>. HIDE DEF rest, k
    <3>. QED  BY <1>1, <1>8, <1>10, HolderGone, LooseBelow, FrontOfSeq
  <2>7. stack' = Append(Front(rest), a)
    <3>. HIDE DEF rest, a
    <3>. QED  BY <1>2, <1>6, <1>8, <1>10, FrontAndAppend
  <2>. HIDE DEF c, a, rest, w, ks
  <2>8. DOMAIN One(k).nodes = {1} /\ One(k).nodes[1] = k
    BY DEF One
  <2>9. k \in Nat
    BY <1>7
  <2>. HIDE DEF k
  <2>10. /\ Len(ks) \in Nat /\ DOMAIN ks = 1 .. Len(ks) /\ DOMAIN w.nodes = 1 .. Len(ks) + 1
         /\ (\A i \in 1 .. Len(ks) : w.nodes[i] = ks[i]) /\ w.nodes[Len(ks) + 1] = k
    <3>1. /\ Append(ks, k) \in Seq(Nat) /\ Len(Append(ks, k)) = Len(ks) + 1
          /\ (\A i \in 1 .. Len(ks) : Append(ks, k)[i] = ks[i]) /\ Append(ks, k)[Len(ks) + 1] = k
      BY <2>3, <2>9, SeqPush
    <3>2. Len(ks) \in Nat /\ DOMAIN ks = 1 .. Len(ks) /\ DOMAIN Append(ks, k) = 1 .. Len(ks) + 1
      BY <2>3, <3>1, LenProperties
    <3>. QED  BY <2>5, <3>1, <3>2
  <2>11. Single(w)
    <3>1. Single(OfActivation(c))
      BY <2>6 DEF Loose
    <3>2. \A i, j \in 1 .. Len(ks) : ks[i] = ks[j] => i = j
      BY <2>4, <2>10, <3>1 DEF Single
    <3>3. \A i \in 1 .. Len(ks) : ks[i] # k
      BY <2>4, <2>6, <2>8, <2>10 DEF Apart
    <3>4. \A i \in 1 .. Len(ks) + 1 : i \in 1 .. Len(ks) \/ i = Len(ks) + 1
      BY <2>10
    <3>. QED  BY <2>10, <3>2, <3>3, <3>4, Zenon DEF Single
  <2>12. \A i \in DOMAIN w.nodes : \/ \E j \in DOMAIN OfActivation(c).nodes : OfActivation(c).nodes[j] = w.nodes[i]
                                   \/ \E j \in DOMAIN One(k).nodes : One(k).nodes[j] = w.nodes[i]
    <3>1. \A i \in 1 .. Len(ks) + 1 : i \in 1 .. Len(ks) \/ i = Len(ks) + 1
      BY <2>10
    <3>. QED  BY <2>4, <2>8, <2>10, <3>1
  <2>13. Loose(heap, Front(rest), statements, w)
    BY <2>4, <2>5, <2>6, <2>11, <2>12, LooseJoined
  <2>14. Shared(heap, Append(Front(rest), a), statements)
    BY <1>1, <1>6, <1>10, <2>6, <2>13, HolderPushed DEF w
  <2>. QED  BY <1>2, <1>10, <2>7, <2>14, ForestReads
<1>. QED  BY <1>9, <1>10

-----------------------------------------------------------------------------
(***************************************************************************)
(* The nodes that a parselet makes of what it holds.                       *)
(***************************************************************************)

\* Nodes that share nothing, with each other or the activations st, and those not made are loose.
Fit(h, st, ss, p) ==
  /\ h \in Seq(NodeType) /\ Shared(h, st, ss)
  /\ \A m \in Nat : m > Len(h) => Loose(h, st, ss, One(m))
  /\ \A n \in DOMAIN h : h[n].at < p

\* The parselet on top is gone; what it held, it may make a node of.
LEMMA FitTop ==
  ASSUME Builds, Returning
  PROVE  /\ Fit(heap, Front(stack), statements, pos) /\ Front(stack) \in Seq(Activation)
         /\ Loose(heap, Front(stack), statements, [token |-> Top.at, nodes |-> Top.kids])
         /\ Top.at \in Nat /\ Top.at < pos
<1>1. /\ stack \in Seq(Activation) /\ heap \in Seq(NodeType) /\ Len(heap) \in Nat
      /\ Shared(heap, stack, statements) /\ \A n \in DOMAIN heap : heap[n].at < pos
      /\ Known(heap, stack, statements, Len(heap), pos) /\ pos \in Nat
  BY BuildsIn
<1>2. stack # <<>> /\ Top = stack[Len(stack)] /\ Top.fn = "parselet" /\ InParselet /\ Top.todo = <<>>
  BY DEF Returning, InParselet, Top, Last
<1>3. OfActivation(Top) = [token |-> Top.at, nodes |-> Top.kids]
  BY <1>2 DEF OfActivation
<1>4. /\ Shared(heap, Front(stack), statements) /\ Loose(heap, Front(stack), statements, OfActivation(Top))
      /\ Front(stack) \in Seq(Activation)
  BY <1>1, <1>2, HolderGone, FrontOfSeq
<1>5. ASSUME NEW m \in Nat, m > Len(heap)
      PROVE  Loose(heap, Front(stack), statements, One(m))
  <2>1. Loose(heap, stack, statements, One(m))
    BY <1>1, <1>5, Unmade
  <2>. QED  BY <1>1, <1>2, <2>1, LooseBelow
<1>6. PICK end : AtWork(stack, end, storageKinds, templateParameters, pos, Len(heap))
  BY <1>2, InParseletWorks DEF Builds
<1>7. Top.at \in 1 .. pos - 1
  <2>1. ParseletOnTop(stack)
    BY <1>2 DEF ParseletOnTop
  <2>. QED  BY <1>2, <1>6, <2>1, Operands
<1>8. Top.at \in Nat /\ Top.at < pos
  BY <1>1, <1>7
<1>. QED  BY <1>1, <1>3, <1>4, <1>5, <1>8 DEF Fit

\* A node is made of what was loose; it is loose itself.
LEMMA FitMade ==
  ASSUME NEW h, NEW st \in Seq(Activation), NEW ss, NEW p \in Nat, Fit(h, st, ss, p),
         NEW x, FitNode(x, Len(h)), x.at < p, Loose(h, st, ss, OfNode(x)), NEW g, g = Append(h, x)
  PROVE  /\ Fit(g, st, ss, p) /\ Len(g) = Len(h) + 1 /\ Len(h) \in Nat
         /\ Loose(g, st, ss, One(Len(g)))
         /\ \A y : Loose(h, st, ss, y) /\ Apart(y, OfNode(x)) => Loose(g, st, ss, y)
<1>1. h \in Seq(NodeType) /\ x \in NodeType /\ x.kids \in Seq(1 .. Len(h)) /\ Shared(h, st, ss)
  BY DEF Fit, FitNode
<1>2. /\ g \in Seq(NodeType) /\ Len(g) = Len(h) + 1 /\ Len(h) \in Nat /\ DOMAIN g = 1 .. Len(h) + 1
      /\ (\A i \in 1 .. Len(h) : g[i] = h[i]) /\ g[Len(h) + 1] = x
      /\ DOMAIN h = 1 .. Len(h)
  BY <1>1, SeqPush, LenProperties
<1>3. /\ Shared(g, st, ss)
      /\ \A y : Loose(h, st, ss, y) /\ Apart(y, OfNode(x)) => Loose(g, st, ss, y)
  BY <1>1, HolderMade
<1>4. ASSUME NEW m \in Nat, m > Len(h)
      PROVE  Loose(g, st, ss, One(m))
  <2>1. Loose(h, st, ss, One(m))
    BY <1>4 DEF Fit
  <2>2. \A k \in DOMAIN x.kids : x.kids[k] # m
    <3>. DEFINE S == 1 .. Len(h)
    <3>1. m \notin S
      BY <1>2, <1>4
    <3>2. x.kids \in Seq(S)
      BY <1>1
    <3>. HIDE DEF S
    <3>3. \A k \in DOMAIN x.kids : x.kids[k] \in S
      BY <3>2
    <3>. QED  BY <3>1, <3>3
  <2>3. Apart(One(m), OfNode(x))
    <3>1. /\ OfNode(x).nodes = x.kids /\ One(m).token = 0
          /\ DOMAIN One(m).nodes = {1} /\ One(m).nodes[1] = m
      BY DEF One, OfNode
    <3>. QED  BY <2>2, <3>1 DEF Apart
  <2>. QED  BY <1>3, <2>1, <2>3
<1>5. \A m \in Nat : m > Len(g) => Loose(g, st, ss, One(m))
  BY <1>2, <1>4
<1>6. Loose(g, st, ss, One(Len(g)))
  BY <1>2, <1>4
<1>7. ASSUME NEW n \in DOMAIN g
      PROVE  g[n].at < p
  <2>1. n \in 1 .. Len(h) \/ n = Len(h) + 1
    BY <1>2
  <2>. QED  BY <1>2, <2>1 DEF Fit
<1>. QED  BY <1>2, <1>3, <1>5, <1>6, <1>7 DEF Fit

\* The same nodes, of which something else is noted.
Noted(h, g) ==
  /\ g \in Seq(NodeType) /\ Len(g) = Len(h)
  /\ \A n \in 1 .. Len(h) : g[n].at = h[n].at /\ g[n].kids = h[n].kids

\* Something is noted of one node.
LEMMA OneNoted ==
  ASSUME NEW h \in Seq(NodeType), NEW k \in 1 .. Len(h),
         NEW y \in NodeType, y.at = h[k].at, y.kids = h[k].kids
  PROVE  Noted(h, [h EXCEPT ![k] = y])
<1>. DEFINE g == [h EXCEPT ![k] = y]
<1>1. g \in Seq(NodeType) /\ Len(g) = Len(h) /\ \A n \in 1 .. Len(h) : g[n] = IF n = k THEN y ELSE h[n]
  BY ExceptSeq
<1>. HIDE DEF g
<1>2. Noted(h, g)
  BY <1>1 DEF Noted
<1>. QED  BY <1>2 DEF g

\* Nobody holds anything else.
LEMMA FitMarked ==
  ASSUME NEW h, NEW st \in Seq(Activation), NEW ss, NEW p, Fit(h, st, ss, p), NEW g, Noted(h, g)
  PROVE  /\ Fit(g, st, ss, p) /\ Len(g) = Len(h)
         /\ \A x : Loose(h, st, ss, x) => Loose(g, st, ss, x)
<1>1. h \in Seq(NodeType) /\ Shared(h, st, ss) /\ DOMAIN h = 1 .. Len(h)
  BY LenProperties DEF Fit
<1>2. g \in Seq(NodeType) /\ Len(g) = Len(h) /\ DOMAIN g = DOMAIN h
  BY <1>1, LenProperties DEF Noted
<1>3. \A n \in 1 .. Len(h) : g[n].at = h[n].at /\ OfNode(g[n]) = OfNode(h[n])
  BY DEF OfNode, Noted
<1>4. /\ Shared(g, st, ss)
      /\ \A x : Loose(h, st, ss, x) => Loose(g, st, ss, x)
  BY <1>1, <1>2, <1>3, HolderMarked
<1>5. \A n \in DOMAIN g : g[n].at < p
  BY <1>1, <1>2, <1>3 DEF Fit
<1>6. \A m \in Nat : m > Len(g) => Loose(g, st, ss, One(m))
  BY <1>2, <1>4, Zenon DEF Fit
<1>. QED  BY <1>2, <1>4, <1>5, <1>6 DEF Fit

\* Below a parselet there is an activation of parseExpr.
LEMMA BelowParselet ==
  ASSUME Builds, ParseletOnTop(stack), NEW k \in Nat, NEW c, c = Front(stack)[Len(Front(stack))],
         NEW a, a = [c EXCEPT !.left = k]
  PROVE  Front(stack) # <<>> /\ a \in Activation /\ a.fn = "parseExpr" /\ a.left = k
<1>. DEFINE rest == Front(stack)
            l    == Len(rest)
<1>1. PICK end : AtWork(stack, end, storageKinds, templateParameters, pos, Len(heap))
  BY WhileParsing DEF Builds
<1>2. stack \in Seq(Activation) /\ stack # <<>> /\ stack[Len(stack)].fn = "parselet"
  BY BuildsIn DEF ParseletOnTop
<1>3. /\ Len(stack) \in Nat \ {0} /\ l = Len(stack) - 1 /\ rest \in Seq(Activation)
      /\ \A i \in 1 .. Len(stack) - 1 : rest[i] = stack[i]
  BY <1>2, FrontOfSeq, LenProperties, EmptySeq
<1>4. Len(stack) # 1
  BY <1>1, <1>2 DEF AtWork, Stacked
<1>5. l \in 1 .. Len(stack) - 1 /\ l + 1 = Len(stack) /\ l \in 1 .. l /\ l \in Nat \ {0}
  BY <1>3, <1>4
<1>6. rest # <<>>
  BY <1>3, <1>5, EmptySeq
<1>7. c = stack[l] /\ stack[l].fn # stack[l + 1].fn
  BY <1>1, <1>3, <1>5 DEF AtWork, Stacked
<1>8. c \in Activation
  BY <1>3, <1>5, ElementOfSeq
<1>. HIDE DEF rest, l
<1>9. c.fn # "parselet"
  BY <1>2, <1>5, <1>7
<1>10. c \in ExprActivation
  BY <1>8, <1>9 DEF Activation, ParseletActivation
<1>11. a \in ExprActivation /\ a.fn = "parseExpr" /\ a.left = k
  BY <1>10 DEF ExprActivation
<1>. QED  BY <1>6, <1>11 DEF rest, Activation

\* A node that is loose is returned to parseExpr.
LEMMA ForestDelivered ==
  ASSUME Builds, Returning, Fit(heap', Front(stack), statements, pos), NEW k \in Nat,
         Loose(heap', Front(stack), statements, One(k)), Deliver(k), statements' = statements, pos' = pos
  PROVE  ForestInv'
<1>. DEFINE rest == Front(stack)
            c    == rest[Len(rest)]
            a    == [c EXCEPT !.left = k]
<1>1. PICK g : g = heap'
  OBVIOUS
<1>2. /\ stack \in Seq(Activation) /\ stack' \in Seq(Activation) /\ Len(heap) \in Nat
  BY BuildsIn
<1>3. stack # <<>> /\ ParseletOnTop(stack)
  BY DEF Returning, InParselet, ParseletOnTop, Top, Last
<1>5. rest # <<>> /\ a \in Activation /\ a.fn = "parseExpr" /\ a.left = k
  BY <1>3, BelowParselet
<1>6. stack' = SetLast(rest, a)
  BY DEF Deliver, Callers, SetLast
<1>7. rest \in Seq(Activation) /\ g \in Seq(NodeType) /\ Shared(g, rest, statements)
      /\ Loose(g, rest, statements, One(k)) /\ \A n \in DOMAIN g : g[n].at < pos
  BY <1>1, <1>2, <1>3, FrontOfSeq DEF Fit
<1>8. OfActivation(a).token = 0 /\ OfActivation(a).nodes \in {<<>>, <<k>>}
  <2>. HIDE DEF a
  <2>. QED  BY <1>5 DEF OfActivation
<1>. HIDE DEF rest, c, a
<1>9. Shared(g, Front(rest), statements) /\ Loose(g, Front(rest), statements, One(k))
      /\ Front(rest) \in Seq(Activation)
  BY <1>5, <1>7, HolderGone, LooseBelow, FrontOfSeq
<1>10. Loose(g, Front(rest), statements, OfActivation(a))
  <2>. DEFINE w == OfActivation(a)
  <2>1. /\ One(k).token = 0 /\ DOMAIN One(k).nodes = {1} /\ One(k).nodes[1] = k
    BY DEF One
  <2>2. w.token = 0 /\ \A i \in DOMAIN w.nodes : i = 1 /\ w.nodes[i] = k
    <3>. HIDE DEF w
    <3>1. w.token = 0 /\ w.nodes \in {<<>>, <<k>>}
      BY <1>8 DEF w
    <3>. QED  BY <3>1
  <2>. HIDE DEF w
  <2>3. Single(w) /\ Within(w, One(k))
    BY <2>1, <2>2 DEF Single, Within
  <2>4. Loose(g, Front(rest), statements, w)
    BY <1>9, <2>3, LooseWithin
  <2>. QED  BY <2>4 DEF w
<1>11. Shared(g, Append(Front(rest), a), statements)
  BY <1>5, <1>7, <1>9, <1>10, HolderPushed
<1>12. Shared(g, stack', statements')
  <2>1. stack' = Append(Front(rest), a)
    BY <1>5, <1>6, <1>7, FrontAndAppend
  <2>. QED  BY <1>11, <2>1
<1>. QED  BY <1>1, <1>2, <1>7, <1>12 DEF ForestInv

\* What is made of what the parselet held is returned.
LEMMA ForestMade ==
  ASSUME Builds, Returning, NEW h, Fit(h, Front(stack), statements, pos),
         NEW x, FitNode(x, Len(h)), x.at < pos, Loose(h, Front(stack), statements, OfNode(x)),
         heap' = Append(h, x), Deliver(Len(heap')), statements' = statements, pos' = pos
  PROVE  ForestInv'
<1>1. PICK g, r : g = heap' /\ r = Front(stack)
  OBVIOUS
<1>2. r \in Seq(Activation) /\ pos \in Nat
  BY <1>1, FitTop, BuildsIn
<1>3. Fit(g, r, statements, pos) /\ Len(g) \in Nat /\ Loose(g, r, statements, One(Len(g)))
  <2>1. Fit(h, r, statements, pos) /\ Loose(h, r, statements, OfNode(x)) /\ g = Append(h, x)
    BY <1>1
  <2>2. Fit(g, r, statements, pos) /\ Len(g) = Len(h) + 1 /\ Len(h) \in Nat /\ Loose(g, r, statements, One(Len(g)))
    BY <1>2, <2>1, FitMade
  <2>. QED  BY <2>2
<1>. QED  BY <1>1, <1>3, ForestDelivered

\* A node of all that the parselet held.
LEMMA AllItHeld ==
  ASSUME Builds, Returning, NEW x, x.at = Top.at, x.kids = Top.kids
  PROVE  /\ x.at < pos /\ Loose(heap, Front(stack), statements, OfNode(x))
         /\ Fit(heap, Front(stack), statements, pos)
<1>1. OfNode(x) = [token |-> Top.at, nodes |-> Top.kids]
  BY DEF OfNode
<1>. QED  BY <1>1, FitTop

\* The constructs that nothing is noted of.
LEMMA ForestConstruct ==
  ASSUME Builds, Construct
  PROVE  ForestInv'
<1>. DEFINE x == NewNode(Top.op, Top.at, Top.kids)
<1>1. /\ Returning /\ heap' = Append(heap, x) /\ Deliver(Len(heap')) /\ statements' = statements /\ pos' = pos
  BY DEF Construct
<1>2. /\ Top.kids \in Seq(1 .. Len(heap)) /\ Top.at \in Nat /\ Top.op \in Operator /\ Len(heap) \in Nat
  BY <1>1, ReturningWorks DEF Builds
<1>3. FitNode(x, Len(heap)) /\ x.at = Top.at /\ x.kids = Top.kids
  BY <1>2, NewNodeType
<1>. HIDE DEF x
<1>. QED  BY <1>1, <1>3, AllItHeld, ForestMade

\* A compound is told where it stands.
LEMMA ForestCompound ==
  ASSUME Builds, Compound
  PROVE  ForestInv'
<1>. DEFINE w == NewNode("{", Top.at, Top.kids)
            x == [w EXCEPT !.storage = Last(storageKinds)]
<1>1. /\ Returning /\ heap' = Append(heap, x) /\ Deliver(Len(heap')) /\ statements' = statements /\ pos' = pos
  BY DEF Compound
<1>2. heap' \in Seq(NodeType) /\ heap \in Seq(NodeType)
  BY BuildsIn
<1>3. /\ Top.kids \in Seq(1 .. Len(heap)) /\ Top.at \in Nat /\ Len(heap) \in Nat
  BY <1>1, ReturningWorks DEF Builds
<1>4. x.op = "{" /\ x.at = Top.at /\ x.kids = Top.kids
  BY DEF NewNode
<1>. HIDE DEF x
<1>5. x \in NodeType
  BY <1>1, <1>2, LastPushed
<1>6. FitNode(x, Len(heap))
  BY <1>3, <1>4, <1>5 DEF FitNode
<1>. QED  BY <1>1, <1>4, <1>6, AllItHeld, ForestMade

\* The operand that a parenthesis, an assignment and a class have.
LEMMA FirstOperand ==
  ASSUME Builds, Returning, Top.op \in {"class", "(", "="}
  PROVE  /\ 1 \in DOMAIN Top.kids
         /\ \A x : x.token \in {0, Top.at} /\ x.nodes = <<Top.kids[1]>> => Loose(heap, Front(stack), statements, x)
<1>1. InParselet /\ Top.todo = <<>>
  BY DEF Returning
<1>2. PICK end : AtWork(stack, end, storageKinds, templateParameters, pos, Len(heap))
  BY <1>1, InParseletWorks DEF Builds
<1>3. Top.kids # <<>> /\ Top.kids \in Seq(1 .. Len(heap))
  <2>1. ParseletOnTop(stack) /\ Top = stack[Len(stack)]
    BY <1>1, InParseletWorks DEF Builds
  <2>. QED  BY <1>1, <1>2, <2>1, Operands
<1>4. 1 \in DOMAIN Top.kids
  <2>. DEFINE S == 1 .. Len(heap)
  <2>1. Top.kids \in Seq(S)
    BY <1>3
  <2>. HIDE DEF S
  <2>. QED  BY <1>3, <2>1, LenProperties, EmptySeq
<1>. DEFINE t == [token |-> Top.at, nodes |-> Top.kids]
<1>5. Loose(heap, Front(stack), statements, t) /\ t.token = Top.at /\ t.nodes = Top.kids
  BY FitTop
<1>. HIDE DEF t
<1>6. ASSUME NEW x, x.token \in {0, Top.at}, x.nodes = <<Top.kids[1]>>
      PROVE  Loose(heap, Front(stack), statements, x)
  <2>1. DOMAIN x.nodes = {1} /\ x.nodes[1] = Top.kids[1]
    BY <1>6
  <2>2. Single(x) /\ Within(x, t)
    BY <1>4, <1>5, <1>6, <2>1 DEF Single, Within
  <2>. QED  BY <1>5, <2>2, LooseWithin
<1>. QED  BY <1>4, <1>6

\* Parentheses mark the node in them, and return it.
LEMMA ForestParenthesised ==
  ASSUME Builds, Parenthesised
  PROVE  ForestInv'
<1>. DEFINE k == Top.kids[1]
            y == [heap[k] EXCEPT !.parens = TRUE]
<1>1. /\ Returning /\ Top.op = "(" /\ heap' = [heap EXCEPT ![k] = y] /\ Deliver(k)
      /\ statements' = statements /\ pos' = pos
  BY DEF Parenthesised
<1>2. k \in 1 .. Len(heap) /\ Grown(heap) /\ Len(heap) \in Nat
  BY <1>1, ReturningWorks DEF Builds
<1>3. heap[k] \in NodeType
  BY <1>2, NodeOfHeap
<1>4. y \in NodeType /\ y.at = heap[k].at /\ y.kids = heap[k].kids
  BY <1>3 DEF NodeType
<1>5. Loose(heap, Front(stack), statements, One(k))
  <2>1. One(k).token = 0 /\ One(k).nodes = <<Top.kids[1]>>
    BY DEF One
  <2>. HIDE DEF k
  <2>. QED  BY <1>1, <2>1, FirstOperand
<1>6. PICK g, r : g = heap' /\ r = Front(stack)
  OBVIOUS
<1>. HIDE DEF k, y
<1>7. Fit(g, r, statements, pos) /\ Loose(g, r, statements, One(k))
  <2>1. Fit(heap, r, statements, pos) /\ r \in Seq(Activation)
    BY <1>1, <1>6, FitTop
  <2>2. g = [heap EXCEPT ![k] = y] /\ Loose(heap, r, statements, One(k))
    BY <1>1, <1>5, <1>6
  <2>3. Noted(heap, g)
    BY <1>2, <1>4, <2>2, OneNoted DEF Grown
  <2>. QED  BY <2>1, <2>2, <2>3, FitMarked
<1>8. k \in Nat
  BY <1>2
<1>. QED  BY <1>1, <1>6, <1>7, <1>8, ForestDelivered

\* An assignment marks what it writes.
LEMMA ForestAssigned ==
  ASSUME Builds, Assigned
  PROVE  ForestInv'
<1>. DEFINE k == Top.kids[1]
            y == [heap[k] EXCEPT !.written = @ \/ heap[k].op \in {"id", "declare"}]
            h == [heap EXCEPT ![k] = y]
            x == NewNode("=", Top.at, Top.kids)
<1>1. /\ Returning /\ Top.op = "=" /\ heap' = Append(h, x) /\ Deliver(Len(heap'))
      /\ statements' = statements /\ pos' = pos
  BY DEF Assigned
<1>2. /\ k \in 1 .. Len(heap) /\ Grown(heap) /\ Len(heap) \in Nat
      /\ Top.kids \in Seq(1 .. Len(heap)) /\ Top.at \in Nat /\ Top.op \in Operator
  BY <1>1, ReturningWorks DEF Builds
<1>3. FitNode(x, Len(heap)) /\ x.at = Top.at /\ x.kids = Top.kids
  BY <1>1, <1>2, NewNodeType
<1>. HIDE DEF k, x
<1>4. heap[k] \in NodeType
  BY <1>2, NodeOfHeap
<1>5. y \in NodeType /\ y.at = heap[k].at /\ y.kids = heap[k].kids
  <2>. DEFINE w == heap[k].written \/ heap[k].op \in {"id", "declare"}
  <2>1. w \in BOOLEAN /\ y = [heap[k] EXCEPT !.written = w]
    OBVIOUS
  <2>. HIDE DEF w, y
  <2>. QED  BY <1>4, <2>1 DEF NodeType
<1>. HIDE DEF y
<1>6. PICK r : r = Front(stack)
  OBVIOUS
<1>7. /\ Fit(heap, r, statements, pos) /\ r \in Seq(Activation) /\ x.at < pos
      /\ Loose(heap, r, statements, OfNode(x))
  BY <1>1, <1>3, <1>6, FitTop, AllItHeld
<1>8. PICK g : g = h
  OBVIOUS
<1>9. Fit(g, r, statements, pos) /\ Len(g) = Len(heap) /\ Loose(g, r, statements, OfNode(x))
  <2>1. Noted(heap, g)
    BY <1>2, <1>5, <1>8, OneNoted DEF Grown
  <2>. QED  BY <1>7, <2>1, FitMarked
<1>. HIDE DEF h
<1>. QED  BY <1>1, <1>3, <1>6, <1>7, <1>8, <1>9, ForestMade

\* The body of a class is marked, or put into a compound; own is the number of the compound.
Marking(body, bodies, own) ==
  own = body /\ bodies = [heap EXCEPT ![body] = [heap[body] EXCEPT !.storage = "Instance"]]
Bracing(body, bodies, own) ==
  own = Len(bodies) /\ bodies = Append(heap, [NewNode("{", 0, <<body>>) EXCEPT !.storage = "Instance"])

\* The class may be made of it.
LEMMA FitBodies ==
  ASSUME Builds, Returning, Top.op = "class",
         NEW body, body = Top.kids[1], NEW r, r = Front(stack), NEW bodies, NEW own,
         Marking(body, bodies, own) \/ Bracing(body, bodies, own)
  PROVE  /\ Fit(bodies, r, statements, pos) /\ own \in 1 .. Len(bodies) /\ Len(bodies) \in Nat
         /\ Loose(bodies, r, statements, [token |-> Top.at, nodes |-> <<own>>])
<1>. DEFINE n == Len(heap)
            t == [token |-> Top.at, nodes |-> <<body>>]
            o == [token |-> Top.at, nodes |-> <<>>]
<1>1. body \in 1 .. Len(heap) /\ Grown(heap) /\ Len(heap) \in Nat /\ Top.at \in Nat
  BY ReturningWorks DEF Builds
<1>2. Fit(heap, r, statements, pos) /\ r \in Seq(Activation) /\ pos \in Nat /\ pos >= 1
  BY FitTop, BuildsIn
<1>3. Loose(heap, r, statements, t)
  BY FirstOperand
<1>4. CASE Marking(body, bodies, own)
  <2>. DEFINE w == [heap[body] EXCEPT !.storage = "Instance"]
  <2>1. heap[body] \in NodeType
    BY <1>1, NodeOfHeap
  <2>2. w \in NodeType /\ w.at = heap[body].at /\ w.kids = heap[body].kids
    BY <2>1 DEF NodeType, Kinds
  <2>3. bodies = [heap EXCEPT ![body] = w] /\ own = body
    BY <1>4 DEF Marking
  <2>. HIDE DEF w, t, o, n
  <2>4. Fit(bodies, r, statements, pos) /\ Len(bodies) = Len(heap) /\ Loose(bodies, r, statements, t)
    <3>1. PICK h : h = heap
      OBVIOUS
    <3>2. Fit(h, r, statements, pos) /\ Loose(h, r, statements, t)
      BY <1>2, <1>3, <3>1
    <3>3. Noted(h, bodies)
      <4>1. h \in Seq(NodeType) /\ body \in 1 .. Len(h) /\ w.at = h[body].at /\ w.kids = h[body].kids
        BY <1>1, <2>2, <3>1 DEF Grown
      <4>2. bodies = [h EXCEPT ![body] = w]
        BY <2>3, <3>1
      <4>. QED  BY <2>2, <4>1, <4>2, OneNoted
    <3>4. r \in Seq(Activation)
      BY <1>2
    <3>. QED  BY <3>1, <3>2, <3>3, <3>4, FitMarked
  <2>5. own \in 1 .. Len(bodies) /\ Len(bodies) \in Nat
    BY <1>1, <2>3, <2>4
  <2>. QED  BY <2>3, <2>4, <2>5 DEF t
<1>5. CASE Bracing(body, bodies, own)
  <2>. DEFINE y == [NewNode("{", 0, <<body>>) EXCEPT !.storage = "Instance"]
  <2>1. PICK op \in Operator, at \in Nat : op = "{" /\ at = 0
    BY DEF Operator, TokenKind
  <2>. DEFINE kids == <<body>>
              w    == NewNode(op, at, kids)
  <2>2. kids \in Seq(1 .. n)
    <3>. DEFINE S == 1 .. n
    <3>1. body \in S
      BY <1>1
    <3>. HIDE DEF S
    <3>2. kids \in Seq(S)
      BY <3>1
    <3>. QED  BY <3>2 DEF S
  <2>3. y = [w EXCEPT !.storage = "Instance"]
    BY <2>1
  <2>4. n \in Nat
    BY <1>1
  <2>. HIDE DEF kids, y, n
  <2>5. w \in NodeType /\ w.op = op /\ w.kids = kids /\ w.at = at
    BY <2>2, <2>4, NewNodeType
  <2>. HIDE DEF w
  <2>6. y \in NodeType /\ y.op = "{" /\ y.kids = kids /\ y.at = 0
    BY <2>1, <2>3, <2>5 DEF NodeType, Kinds
  <2>7. FitNode(y, Len(heap)) /\ y.at < pos
    <3>. HIDE DEF t, o
    <3>1. y.at < pos
      <4>1. 0 < pos
        BY <1>2
      <4>2. y.at = 0
        BY <2>6
      <4>. QED  BY <4>1, <4>2
    <3>2. y.kids \in Seq(1 .. n) /\ y.op # "class"
      BY <2>2, <2>6
    <3>3. FitNode(y, n)
      BY <2>6, <3>2 DEF FitNode
    <3>. QED  BY <3>1, <3>3 DEF n
  <2>8. OfNode(y) = [token |-> 0, nodes |-> <<body>>]
    BY <2>6 DEF OfNode, kids
  <2>9. Loose(heap, r, statements, OfNode(y))
    <3>1. OfNode(y).token = 0 /\ OfNode(y).nodes = <<Top.kids[1]>>
      BY <2>8
    <3>. QED  BY <3>1, FirstOperand
  <2>10. bodies = Append(heap, y) /\ own = Len(bodies)
    BY <1>5 DEF Bracing, y
  <2>11. /\ Fit(bodies, r, statements, pos) /\ Len(bodies) = Len(heap) + 1
         /\ Loose(bodies, r, statements, One(Len(bodies)))
         /\ \A x : Loose(heap, r, statements, x) /\ Apart(x, OfNode(y)) => Loose(bodies, r, statements, x)
    BY <1>2, <2>7, <2>9, <2>10, FitMade
  <2>12. Loose(bodies, r, statements, o)
    <3>1. o.token = Top.at /\ DOMAIN o.nodes = {}
      OBVIOUS
    <3>2. t.token = Top.at
      OBVIOUS
    <3>. HIDE DEF o, t
    <3>3. Single(o) /\ Within(o, t)
      BY <3>1, <3>2 DEF Single, Within
    <3>4. Loose(heap, r, statements, o)
      BY <1>3, <3>3, LooseWithin
    <3>5. Apart(o, OfNode(y))
      BY <2>8, <3>1 DEF Apart
    <3>. QED  BY <2>11, <3>4, <3>5
  <2>13. Len(bodies) \in Nat /\ own \in 1 .. Len(bodies)
    BY <1>1, <2>10, <2>11
  <2>14. Loose(bodies, r, statements, [token |-> Top.at, nodes |-> <<own>>])
    <3>. DEFINE k == Len(bodies)
                x == [token |-> Top.at, nodes |-> <<k>>]
    <3>1. o.token = Top.at /\ x.token = Top.at /\ DOMAIN x.nodes = {1} /\ x.nodes[1] = k
      OBVIOUS
    <3>2. DOMAIN One(k).nodes = {1} /\ One(k).nodes[1] = k
      BY DEF One
    <3>. HIDE DEF o, x, k
    <3>3. Single(x)
      BY <3>1 DEF Single
    <3>4. \A i \in DOMAIN x.nodes : \/ \E j \in DOMAIN o.nodes : o.nodes[j] = x.nodes[i]
                                    \/ \E j \in DOMAIN One(k).nodes : One(k).nodes[j] = x.nodes[i]
      BY <3>1, <3>2
    <3>5. Loose(bodies, r, statements, x)
      BY <2>11, <2>12, <3>1, <3>3, <3>4, LooseJoined DEF k
    <3>. QED  BY <2>10, <3>5 DEF x, k
  <2>. QED  BY <2>11, <2>13, <2>14
<1>. QED  BY <1>4, <1>5

\* A class is made of its body, and a template of a generic class.
LEMMA ForestClass ==
  ASSUME Builds, Class
  PROVE  ForestInv'
<1>. DEFINE body   == Top.kids[1]
            braced == heap[body].op = "{"
            marked == [heap EXCEPT ![body].storage = "Instance"]
            y      == [NewNode("{", 0, <<body>>) EXCEPT !.storage = "Instance"]
            bodies == IF braced THEN marked ELSE Append(heap, y)
            own    == IF braced THEN body ELSE Len(bodies)
            x      == [NewNode("class", Top.at, <<own>>) EXCEPT !.parameters = Top.parameters]
            z      == NewNode("anonymous", 0, <<Len(bodies) + 1>>)
            S      == NodeType \union {x, z}
<1>1. /\ Returning /\ Top.op = "class" /\ Deliver(Len(heap')) /\ statements' = statements /\ pos' = pos
      /\ heap' = bodies \o (IF Top.generic THEN <<x, z>> ELSE <<x>>)
  BY DEF Class
<1>2. PICK r : r = Front(stack)
  OBVIOUS
<1>3. /\ Fit(bodies, r, statements, pos) /\ own \in 1 .. Len(bodies) /\ Len(bodies) \in Nat
      /\ Loose(bodies, r, statements, [token |-> Top.at, nodes |-> <<own>>])
  <2>1. Marking(body, bodies, own) \/ Bracing(body, bodies, own)
    <3>1. CASE braced
      <4>1. own = body /\ bodies = marked
        BY <3>1
      <4>. HIDE DEF bodies, own, body
      <4>. QED  BY <4>1 DEF Marking
    <3>2. CASE ~braced
      <4>1. own = Len(bodies) /\ bodies = Append(heap, y)
        BY <3>2
      <4>. HIDE DEF bodies, own, body
      <4>. QED  BY <4>1 DEF Bracing
    <3>. QED  BY <3>1, <3>2
  <2>. HIDE DEF bodies, own, body
  <2>. QED  BY <1>1, <1>2, <2>1, FitBodies DEF body
<1>. HIDE DEF bodies, own
<1>4. r \in Seq(Activation) /\ pos \in Nat /\ pos >= 1 /\ Top.at \in Nat /\ Top.at < pos
  BY <1>1, <1>2, FitTop, BuildsIn
<1>5. Top.parameters \in {None, Top.at}
  BY <1>1, ReturningWorks DEF Builds
<1>6. FitNode(x, Len(bodies)) /\ x.at = Top.at /\ x.kids = <<own>>
  <2>1. PICK n \in Nat, op \in Operator, at \in Nat : n = Len(bodies) /\ op = "class" /\ at = Top.at
    BY <1>3, <1>4 DEF Operator, TokenKind
  <2>. DEFINE kids == <<own>>
              w    == NewNode(op, at, kids)
  <2>2. kids \in Seq(1 .. n)
    <3>. DEFINE Q == 1 .. n
    <3>1. own \in Q
      BY <1>3, <2>1
    <3>. HIDE DEF Q
    <3>2. kids \in Seq(Q)
      BY <3>1
    <3>. QED  BY <3>2 DEF Q
  <2>3. x = [w EXCEPT !.parameters = Top.parameters]
    BY <2>1
  <2>. HIDE DEF kids, x
  <2>4. w \in NodeType /\ w.op = op /\ w.kids = kids
    BY <2>2, NewNodeType
  <2>5. w.at = at
    BY DEF NewNode
  <2>. HIDE DEF w
  <2>6. x \in NodeType /\ x.op = "class" /\ x.kids = kids /\ x.at = at /\ x.parameters = Top.parameters
    BY <1>4, <1>5, <2>1, <2>3, <2>4, <2>5 DEF NodeType
  <2>. QED  BY <1>5, <2>1, <2>2, <2>6 DEF FitNode, kids
<1>. HIDE DEF x
<1>7. Loose(bodies, r, statements, OfNode(x))
  <2>1. OfNode(x) = [token |-> Top.at, nodes |-> <<own>>]
    BY <1>6 DEF OfNode
  <2>. QED  BY <1>3, <2>1
<1>8. CASE ~Top.generic
  <2>1. bodies \in Seq(NodeType) /\ x \in NodeType
    BY <1>3, <1>6 DEF Fit, FitNode
  <2>2. heap' = Append(bodies, x)
    <3>. PICK b : b = bodies
      OBVIOUS
    <3>1. b \o <<x>> = Append(b, x)
      BY <2>1, LastPieces
    <3>2. heap' = b \o <<x>>
      BY <1>1, <1>8
    <3>. QED  BY <3>1, <3>2
  <2>. QED  BY <1>1, <1>2, <1>3, <1>4, <1>6, <1>7, <2>2, ForestMade
<1>9. CASE Top.generic
  <2>1. PICK h : h = Append(bodies, x)
    OBVIOUS
  <2>2. Fit(h, r, statements, pos) /\ Len(h) = Len(bodies) + 1 /\ Loose(h, r, statements, One(Len(h)))
    BY <1>3, <1>4, <1>6, <1>7, <2>1, FitMade
  <2>3. FitNode(z, Len(h)) /\ z.at = 0 /\ z.kids = <<Len(h)>>
    <3>1. PICK n \in Nat, op \in Operator, at \in Nat : n = Len(bodies) + 1 /\ op = "anonymous" /\ at = 0
      BY <1>3 DEF Operator
    <3>. DEFINE kids == <<Len(bodies) + 1>>
    <3>2. kids \in Seq(1 .. n)
      BY <1>3, <3>1
    <3>. HIDE DEF kids
    <3>3. FitNode(NewNode(op, at, kids), n)
      BY <3>2, NewNodeType
    <3>4. z = NewNode(op, at, kids)
      BY <3>1 DEF kids
    <3>5. NewNode(op, at, kids).at = at /\ NewNode(op, at, kids).kids = kids
      BY DEF NewNode
    <3>. HIDE DEF z
    <3>. QED  BY <2>2, <3>1, <3>3, <3>4, <3>5 DEF kids
  <2>. HIDE DEF z
  <2>4. OfNode(z) = One(Len(h))
    BY <2>3 DEF OfNode, One
  <2>5. bodies \in Seq(NodeType) /\ x \in NodeType /\ z \in NodeType
    BY <1>3, <1>6, <2>3 DEF Fit, FitNode
  <2>6. heap' = Append(h, z)
    <3>. PICK b : b = bodies
      OBVIOUS
    <3>1. b \o <<x, z>> = Append(Append(b, x), z)
      BY <2>5, LastPieces
    <3>2. heap' = b \o <<x, z>>
      BY <1>1, <1>9
    <3>. QED  BY <2>1, <3>1, <3>2
  <2>7. z.at < pos /\ Loose(h, r, statements, OfNode(z))
    BY <1>4, <2>2, <2>3, <2>4
  <2>. QED  BY <1>1, <1>2, <2>2, <2>3, <2>6, <2>7, ForestMade
<1>. QED  BY <1>8, <1>9

-----------------------------------------------------------------------------
(***************************************************************************)
(* The heap is a forest.                                                   *)
(***************************************************************************)

\* In the beginning nobody holds anything.
LEMMA ForestInit == Init => ForestInv
<1>. SUFFICES ASSUME Init
              PROVE  ForestInv
  OBVIOUS
<1>. DEFINE none == <<>>
<1>1. stack = none /\ heap = none /\ statements = none
  BY DEF Init
<1>2. Len(none) = 0 /\ DOMAIN none = {}
  OBVIOUS
<1>. HIDE DEF none
<1>3. Holders(none, none) = {0}
  BY <1>2 DEF Holders
<1>4. Holding(none, none, none, 0).nodes = none
  BY DEF Holding
<1>5. Single(Holding(none, none, none, 0))
  BY <1>2, <1>4 DEF Single
<1>6. Shared(none, none, none)
  BY <1>3, <1>5 DEF Shared
<1>7. none \in Seq(Activation)
  BY DEF none
<1>. QED  BY <1>1, <1>2, <1>6, <1>7 DEF ForestInv

\* What leaves the stack, the nodes and the statements as they are.
LEMMA ForestStays ==
  ASSUME ForestInv, UNCHANGED <<stack, heap, statements, pos>>
  PROVE  ForestInv'
<1>1. stack' = stack /\ heap' = heap /\ statements' = statements /\ pos' = pos
  OBVIOUS
<1>2. Shared(heap', stack', statements')
  BY <1>1 DEF ForestInv
<1>3. stack' \in Seq(Activation) /\ \A n \in DOMAIN heap' : heap'[n].at < pos'
  BY <1>1 DEF ForestInv
<1>. QED  BY <1>2, <1>3 DEF ForestInv

\* Every step keeps the holders apart.
LEMMA ForestStep == PrattInv /\ ForestInv /\ [Next]_vars => ForestInv'
<1>. SUFFICES ASSUME PrattInv, ForestInv, [Next]_vars
              PROVE  ForestInv'
  OBVIOUS
<1>. PrattInv'
  BY PrattStep
<1>1. ASSUME outcome = "parsing", outcome' = outcome
      PROVE  Builds
  BY <1>1 DEF Builds
<1>2. CASE Module
  <2>1. CASE Statement
    BY <1>1, <2>1, ForestCalls DEF Statement
  <2>2. CASE EndOfModule
    BY <2>2, ForestStays DEF EndOfModule
  <2>. QED  BY <1>2, <2>1, <2>2 DEF Module
<1>3. CASE Expr
  <2>1. CASE PrefixAtEnd \/ PrefixSurprise \/ InfixSurprise
    BY <2>1, ForestStays DEF PrefixAtEnd, PrefixSurprise, InfixSurprise
  <2>2. CASE PrefixFound
    BY <1>1, <2>2, ForestPrefix DEF PrefixFound, AtStart, InExpr
  <2>3. CASE InfixFound
    BY <1>1, <2>3, ForestInfix DEF InfixFound, Binds, InExpr
  <2>4. CASE ExprReturns
    BY <1>1, <2>4, ForestReturns DEF ExprReturns, InExpr
  <2>. QED  BY <1>3, <2>1, <2>2, <2>3, <2>4 DEF Expr
<1>4. CASE Parselets
  <2>1. CASE NotExpected
    BY <2>1, ForestStays DEF NotExpected
  <2>2. CASE CallParseExpr
    BY <1>1, <2>2, ForestCalls DEF CallParseExpr, Doing, InParselet
  <2>3. CASE Turn \/ LeaveTemplate
    BY <1>1, <2>3, ForestTurns DEF Turn, LeaveTemplate, Doing, InParselet
  <2>4. CASE \/ Consumed \/ TakeOptional \/ WithoutOptional \/ FollowRule
             \/ PushStorage \/ PopStorage \/ EnterTemplate
    <3>1. outcome = "parsing" /\ outcome' = outcome
      BY <2>4 DEF Consumed, TakeOptional, WithoutOptional, FollowRule, PushStorage, PopStorage,
                  EnterTemplate, Doing, InParselet
    <3>. QED  BY <1>1, <2>4, <3>1, ForestWorks
  <2>. QED  BY <1>4, <2>1, <2>2, <2>3, <2>4 DEF Parselets
<1>5. CASE Nodes
  <2>1. Returning /\ outcome' = outcome
    BY <1>5 DEF Nodes, Parenthesised, Assigned, Compound, Class, Construct
  <2>2. Builds
    BY <1>1, <2>1 DEF Returning, InParselet
  <2>. QED  BY <1>5, <2>2, ForestParenthesised, ForestAssigned, ForestCompound, ForestClass, ForestConstruct DEF Nodes
<1>6. CASE Answered \/ UNCHANGED vars
  BY <1>6, ForestStays DEF Answered, vars
<1>. QED  BY <1>2, <1>3, <1>4, <1>5, <1>6 DEF Next

\* Whatever the parselets hand to each other, no node is held twice: by nodes it
\* is an operand of, by activations that wait to make something of it and by the
\* module; nor is a token, by the parselets it called and the nodes they made for it.
THEOREM ForestInvariant == Spec => []ForestInv
<1>. QED  BY PrattInvariant, PrattStep, ForestInit, ForestStep, PTL DEF Spec

\* What the two invariants say of the heap and the statements.
LEMMA ForestTypes == PrattInv /\ ForestInv => TypeOK
<1>. SUFFICES ASSUME PrattInv, ForestInv
              PROVE  TypeOK
  OBVIOUS
<1>1. PICK h, ss : h = heap /\ ss = statements
  OBVIOUS
<1>2. /\ h \in Seq(NodeType) /\ Len(h) \in Nat /\ DOMAIN h = 1 .. Len(h) /\ Node = DOMAIN h
      /\ ss \in Seq(1 .. Len(h)) /\ DOMAIN ss = 1 .. Len(ss)
  BY <1>1, LenProperties DEF PrattInv, Grown, Node
<1>3. ASSUME NEW n \in DOMAIN h
      PROVE  /\ h[n].at \in 0 .. pos - 1
             /\ \A k \in DOMAIN h[n].kids : h[n].kids[k] \in 1 .. n - 1
  <2>1. h[n] \in NodeType
    BY <1>2, ElementOfSeq
  <2>2. h[n].at \in Nat /\ h[n].at < pos
    BY <1>1, <2>1 DEF NodeType, ForestInv
  <2>3. pos \in Nat
    BY LenProperties DEF PrattInv
  <2>. QED  BY <1>1, <2>2, <2>3 DEF PrattInv, Grown
<1>4. \A i \in DOMAIN ss : ss[i] \in DOMAIN h
  <2>. DEFINE S == 1 .. Len(h)
  <2>1. ss \in Seq(S) /\ DOMAIN h = S
    BY <1>2
  <2>. HIDE DEF S
  <2>. QED  BY <2>1
<1>5. PICK st : st = stack
  OBVIOUS
<1>6. Shared(h, st, ss)
  BY <1>1, <1>5 DEF ForestInv
<1>7. /\ \A n \in DOMAIN h : n \in Holders(h, st) /\ Holding(h, st, ss, n) = OfNode(h[n]) /\ n # 0
      /\ 0 \in Holders(h, st) /\ Holding(h, st, ss, 0) = [token |-> 0, nodes |-> ss]
  <2>1. Len(st) \in Nat
    BY <1>5, LenProperties DEF ForestInv
  <2>. QED  BY <1>2, <2>1 DEF Holders, Holding
<1>8. ASSUME NEW m \in DOMAIN h, NEW n \in DOMAIN h
      PROVE  /\ h[m].at # 0 /\ h[m].at = h[n].at => m = n
             /\ \A j \in DOMAIN h[m].kids, k \in DOMAIN h[n].kids :
                  h[m].kids[j] = h[n].kids[k] => m = n /\ j = k
  <2>1. OfNode(h[m]).token = h[m].at /\ OfNode(h[m]).nodes = h[m].kids
        /\ OfNode(h[n]).token = h[n].at /\ OfNode(h[n]).nodes = h[n].kids
    BY DEF OfNode
  <2>2. Single(OfNode(h[m])) /\ (m # n => Apart(OfNode(h[m]), OfNode(h[n])))
    BY <1>6, <1>7 DEF Shared
  <2>. QED  BY <2>1, <2>2 DEF Single, Apart
<1>9. ASSUME NEW i \in DOMAIN ss
      PROVE  /\ \A n \in DOMAIN h : \A k \in DOMAIN h[n].kids : h[n].kids[k] # ss[i]
             /\ \A j \in DOMAIN ss : ss[i] = ss[j] => i = j
  <2>. DEFINE w == [token |-> 0, nodes |-> ss]
  <2>1. w.nodes = ss
    OBVIOUS
  <2>2. Single(w) /\ \A n \in DOMAIN h : Apart(OfNode(h[n]), w)
    BY <1>6, <1>7 DEF Shared
  <2>. HIDE DEF w
  <2>3. \A n \in DOMAIN h : OfNode(h[n]).nodes = h[n].kids
    BY DEF OfNode
  <2>. QED  BY <2>1, <2>2, <2>3 DEF Single, Apart
<1>10. \A i \in DOMAIN storageKinds : storageKinds[i] \in {"Global", "Instance", "Local"}
  BY DEF PrattInv, Kinds
<1>11. \A i \in DOMAIN templateParameters : templateParameters[i] \in 1 .. pos - 1
  <2>. DEFINE S == 1 .. pos - 1
  <2>1. templateParameters \in Seq(S)
    BY DEF PrattInv
  <2>. HIDE DEF S
  <2>2. \A i \in DOMAIN templateParameters : templateParameters[i] \in S
    BY <2>1
  <2>. QED  BY <2>2 DEF S
<1>12. \A n \in Node :
         /\ heap[n].at \in 0 .. pos - 1
         /\ \A k \in DOMAIN heap[n].kids : heap[n].kids[k] \in 1 .. n - 1
  BY <1>1, <1>2, <1>3
<1>13. \A m, n \in Node :
         /\ heap[m].at # 0 /\ heap[m].at = heap[n].at => m = n
         /\ \A j \in DOMAIN heap[m].kids, k \in DOMAIN heap[n].kids :
              heap[m].kids[j] = heap[n].kids[k] => m = n /\ j = k
  BY <1>1, <1>2, <1>8
<1>14. \A i \in DOMAIN statements :
         /\ statements[i] \in Node
         /\ \A n \in Node : \A k \in DOMAIN heap[n].kids : heap[n].kids[k] # statements[i]
         /\ \A j \in DOMAIN statements : statements[i] = statements[j] => i = j
  BY <1>1, <1>2, <1>4, <1>9
<1>. QED  BY <1>10, <1>11, <1>12, <1>13, <1>14 DEF PrattInv, TypeOK

\* The variables keep their types and no token behind the end is read.  The heap is
\* a forest: a node is made after its operands, no node is an operand twice, and the
\* statements are different roots.  No token becomes two nodes.
THEOREM PrattTypes == Spec => []TypeOK
<1>. QED  BY PrattInvariant, ForestInvariant, ForestTypes, PTL
=============================================================================
