--------------------------- MODULE TypeConversion ---------------------------
(***************************************************************************)
(* The passes that decide which expressions convert to which types:        *)
(* AddImplicitCastsPass, BinaryExprSemanticsPass, CastExprSemanticPass and *)
(* FuncCallSemanticsPass, in that order, and what the code generator       *)
(* expects of their result.                                                *)
(*                                                                         *)
(* A program is a forest of nodes on a heap; the passes walk it and insert *)
(* cast nodes between a parent and its operand.  A visit sees the types as *)
(* they are at that moment, and asking for the type of an expression trips *)
(* an assertion when its operands do not agree (yet).  Names, values and   *)
(* scopes are left out: a variable is its type.                            *)
(***************************************************************************)
EXTENDS Integers, Sequences, FiniteSets

LOCAL INSTANCE SequencesExt

CONSTANT Programs      \* sequences of nodes; the first is the module's body

VARIABLES nodes,       \* the heap: [op, kids, type, params]
          source,      \* the program as it was parsed
          pass,        \* the pass that runs, an index of Passes
          agenda,      \* the visits that it has before it: <<"visiting" or "visited", node>>
          errors,      \* what the error stream holds: <<kind, node>>
          outcome      \* "running", "rejected", "emitted", or which assertion failed

vars == <<nodes, source, pass, agenda, errors, outcome>>

Passes == <<"implicit casts", "binary operators", "casts", "calls">>

-----------------------------------------------------------------------------
(***************************************************************************)
(* Types.  PrimitiveType lists the scalars by priority; every other type   *)
(* is a class.                                                             *)
(***************************************************************************)
Scalar == {"void", "bool", "int", "float", "double"}
Priority(t) == CASE t = "void" -> 1 [] t = "bool" -> 2 [] t = "int" -> 3 [] t = "float" -> 4
                 [] t = "double" -> 5

CanImplicitCast(from, to) ==
  /\ {from, to} \subseteq Scalar /\ from # to /\ from # "bool"
  /\ to = "bool" \/ Priority(from) <= Priority(to)

CanExplicitCast(from, to) ==
  /\ {from, to} \subseteq Scalar /\ from # to /\ from # "bool"
  /\ Priority(from) >= Priority(to)

CanDoArithmetic(t) == t \in {"int", "float", "double"}

-----------------------------------------------------------------------------
(***************************************************************************)
(* Expressions.  "arithmetic" stands for + - * /, "order" for the four     *)
(* order relations, "equal" for == and !=, "logic" for && and ||.  Of a    *)
(* call the type is what the function returns and params what it takes; a  *)
(* call of what is no function has the type Asserted.                      *)
(***************************************************************************)
Comparison == {"order", "equal"}
BinaryOps  == Comparison \union {"arithmetic", "logic", "assign"}

Node(op, kids, type, params) == [op |-> op, kids |-> kids, type |-> type, params |-> params]
ImplicitCast(kid, type)      == Node("implicit cast", <<kid>>, type, <<>>)

Asserted == "assertion failed"

\* exprType() of every node: its type, or that an assertion fails on the way.
\* A compound has the type of its last expression and asserts it has one.
TypesOf(heap) ==
  LET type[n \in DOMAIN heap] ==
        LET kid(k) == type[heap[n].kids[k]]
        IN  CASE heap[n].op \in Comparison -> "bool"
              [] heap[n].op \in {"arithmetic", "logic", "assign"} ->
                   IF kid(1) = kid(2) THEN kid(2) ELSE Asserted
              [] heap[n].op = "if" ->
                   IF Len(heap[n].kids) = 2 THEN "void"
                   ELSE IF Asserted \in {kid(2), kid(3)} THEN Asserted
                   ELSE IF kid(2) = kid(3) THEN kid(2) ELSE "void"
              [] heap[n].op = "list" ->
                   IF heap[n].kids = <<>> THEN Asserted ELSE kid(Len(heap[n].kids))
              [] heap[n].op \in {"while", "assert", "function"} -> "void"
              [] OTHER -> heap[n].type
  IN  type

Type     == TypesOf(nodes)
Kid(n, k)     == nodes[n].kids[k]
KidType(n, k) == Type[Kid(n, k)]

-----------------------------------------------------------------------------
(***************************************************************************)
(* What a visit asks for, converts and reports.                            *)
(***************************************************************************)
\* A condition is kid 1 of its parent.
Conditional == {"if", "while", "assert"}
IfCasts(convert, k, to) == IF convert THEN <<[kid |-> k, to |-> to]>> ELSE <<>>

\* The kids whose types a visit of AddImplicitCastsPass asks for.
AsksFor(n) ==
  CASE nodes[n].op \in BinaryOps -> {1, 2}
    [] nodes[n].op = "if" /\ Len(nodes[n].kids) = 3 -> {1, 2, 3}
    [] nodes[n].op \in Conditional -> {1}
    [] nodes[n].op = "function" -> IF nodes[n].type = "void" THEN {} ELSE {1}
    [] OTHER -> {}

\* Logical operators convert without asking whether they can.
OperandCasts(n) ==
  LET l == KidType(n, 1)
      r == KidType(n, 2)
      toRight == CanImplicitCast(l, r) /\ nodes[n].op # "assign"
  IN  IF nodes[n].op = "logic" THEN IfCasts(l # "bool", 1, "bool") \o IfCasts(r # "bool", 2, "bool")
      ELSE IfCasts(toRight, 1, r) \o IfCasts(~toRight /\ CanImplicitCast(r, l), 2, l)

ConditionCasts(n) == IfCasts(CanImplicitCast(KidType(n, 1), "bool"), 1, "bool")

BranchCasts(n) ==
  IF Len(nodes[n].kids) = 2 THEN <<>>
  ELSE LET then == KidType(n, 2)
           else == KidType(n, 3)
           toThen == CanImplicitCast(else, then)
       IN  IfCasts(toThen, 3, then) \o IfCasts(~toThen /\ CanImplicitCast(then, else), 2, else)

ReturnCasts(n) ==
  IfCasts(nodes[n].type # "void" /\ CanImplicitCast(KidType(n, 1), nodes[n].type), 1, nodes[n].type)

ImplicitCasts(n) ==
  CASE nodes[n].op \in BinaryOps -> OperandCasts(n)
    [] nodes[n].op = "if" -> ConditionCasts(n) \o BranchCasts(n)
    [] nodes[n].op \in {"while", "assert"} -> ConditionCasts(n)
    [] nodes[n].op = "function" -> ReturnCasts(n)

Converts(from, to) == from = to \/ CanImplicitCast(from, to)

Report(wrong, kind) == IF wrong THEN {kind} ELSE {}

ImplicitCastErrors(n) ==
  CASE nodes[n].op \in BinaryOps ->
         Report(/\ nodes[n].op # "logic" /\ KidType(n, 1) # KidType(n, 2) /\ OperandCasts(n) = <<>>,
                "InvalidImplicitCastInBinaryExpr")
    [] nodes[n].op \in Conditional ->
         Report(~Converts(KidType(n, 1), "bool"), "InvalidImplicitCastInCondition")
         \union Report(/\ nodes[n].op = "if" /\ Len(nodes[n].kids) = 3
                       /\ KidType(n, 2) # KidType(n, 3) /\ BranchCasts(n) = <<>>,
                       "InvalidImplicitCastInIfBodies")
    [] nodes[n].op = "function" ->
         Report(nodes[n].type # "void" /\ ~Converts(KidType(n, 1), nodes[n].type),
                "InvalidImplicitCastInImplicitReturn")

\* Mutant: the operand that is cast is the first one, whichever is replaced.
WithCastsOfFirst(n, casts) ==
  LET kids == [k \in DOMAIN nodes[n].kids |->
                 IF \E i \in DOMAIN casts : casts[i].kid = k
                 THEN Len(nodes) + (CHOOSE i \in DOMAIN casts : casts[i].kid = k) ELSE Kid(n, k)]
  IN  [nodes EXCEPT ![n].kids = kids]
      \o [i \in DOMAIN casts |-> ImplicitCast(Kid(n, 1), casts[i].to)]

\* The heap with casts put between n and some of its kids.
WithCasts(n, casts) ==
  LET cast(k) == CHOOSE i \in DOMAIN casts : casts[i].kid = k
      kids    == [k \in DOMAIN nodes[n].kids |->
                    IF \E i \in DOMAIN casts : casts[i].kid = k THEN Len(nodes) + cast(k) ELSE Kid(n, k)]
  IN  [nodes EXCEPT ![n].kids = kids]
      \o [i \in DOMAIN casts |-> ImplicitCast(Kid(n, casts[i].kid), casts[i].to)]

-----------------------------------------------------------------------------
(***************************************************************************)
(* The walk: a node is visited before its kids (visiting) and after them   *)
(* (visited).  A conversion of a while loop's condition, and the check of  *)
(* a cast, are made before.                                                *)
(***************************************************************************)
Init ==
  /\ source \in Programs /\ nodes = source
  /\ pass = 1 /\ agenda = << <<"visiting", 1>> >>
  /\ errors = {} /\ outcome = "running"

Running   == outcome = "running" /\ agenda # <<>>
Now       == Head(agenda)[1]
Here      == Head(agenda)[2]
In(name)  == Running /\ Passes[pass] = name

CastsDue == /\ In("implicit casts") /\ AsksFor(Here) # {}
            /\ Now = IF nodes[Here].op = "while" THEN "visiting" ELSE "visited"
OperatorDue == In("binary operators") /\ Now = "visited" /\ nodes[Here].op \in {"assign", "arithmetic"}
CastDue     == In("casts") /\ Now = "visiting" /\ nodes[Here].op \in {"cast", "implicit cast"}
CallDue     == In("calls") /\ Now = "visited" /\ nodes[Here].op = "call"

\* What is next after this visit, in the heap that it leaves behind.
Walk(heap) ==
  agenda' = (IF Now = "visiting"
               THEN [k \in DOMAIN heap[Here].kids |-> <<"visiting", heap[Here].kids[k]>>]
                    \o << <<"visited", Here>> >>
               ELSE <<>>) \o Tail(agenda)

Complain(kinds) == errors' = errors \union {<<kind, Here>> : kind \in kinds}

Counted(n) == nodes[n].type # Asserted /\ Len(nodes[n].kids) = Len(nodes[n].params)

\* The kids whose types the visit that is due asks for, and whether all have one.
Asked == IF CastsDue THEN AsksFor(Here)
         ELSE IF CastDue THEN {1}
         ELSE IF CallDue /\ Counted(Here) THEN DOMAIN nodes[Here].kids ELSE {}
Answered == \A k \in Asked : KidType(Here, k) # Asserted

PassBy ==
  /\ Running /\ ~CastsDue /\ ~OperatorDue /\ ~CastDue /\ ~CallDue
  /\ Walk(nodes)
  /\ UNCHANGED <<nodes, source, pass, errors, outcome>>

\* BinaryExpr::operandsType, or another assertion on the way to a type.
TypeAsserts ==
  /\ Running /\ ~Answered
  /\ outcome' = "type asserted"
  /\ UNCHANGED <<nodes, source, pass, agenda, errors>>

AddImplicitCasts ==
  /\ CastsDue /\ Answered
  /\ nodes' = WithCasts(Here, ImplicitCasts(Here))
  /\ Complain(ImplicitCastErrors(Here))
  /\ Walk(nodes')
  /\ UNCHANGED <<source, pass, outcome>>

\* Only a variable can be written.
CheckOperator ==
  /\ OperatorDue
  /\ Complain(IF nodes[Here].op = "assign"
                THEN Report(nodes[Kid(Here, 1)].op # "variable", "CannotAssignToLValue")
                ELSE Report(~CanDoArithmetic(Type[Here]), "OperatorCannotBeUsedWithType"))
  /\ Walk(nodes)
  /\ UNCHANGED <<nodes, source, pass, outcome>>

\* ASSERT_FAIL("Implicit cast created for types that can't be implicitly cast.")
CastAsserts ==
  /\ CastDue /\ Answered /\ nodes[Here].op = "implicit cast"
  /\ ~CanImplicitCast(KidType(Here, 1), nodes[Here].type)
  /\ outcome' = "cast asserted"
  /\ UNCHANGED <<nodes, source, pass, agenda, errors>>

\* Mutant: any two types can be cast explicitly.
CheckCastScalar ==
  /\ CastDue /\ Answered
  /\ nodes[Here].op = "cast" \/ CanImplicitCast(KidType(Here, 1), nodes[Here].type)
  /\ Complain(Report(~({KidType(Here, 1), nodes[Here].type} \subseteq Scalar), "InvalidExplicitCast"))
  /\ Walk(nodes)
  /\ UNCHANGED <<nodes, source, pass, outcome>>

CheckCast ==
  /\ CastDue /\ Answered
  /\ nodes[Here].op = "cast" \/ CanImplicitCast(KidType(Here, 1), nodes[Here].type)
  /\ Complain(Report(/\ ~CanImplicitCast(KidType(Here, 1), nodes[Here].type)
                     /\ ~CanExplicitCast(KidType(Here, 1), nodes[Here].type), "InvalidExplicitCast"))
  /\ Walk(nodes)
  /\ UNCHANGED <<nodes, source, pass, outcome>>

Arguments(n) == {k \in DOMAIN nodes[n].kids : KidType(n, k) # nodes[n].params[k]}

CallErrors(n) ==
  IF nodes[n].type = Asserted THEN {"ExpressionIsNotFunction"}
  ELSE IF ~Counted(n) THEN {"IncorrectNumberOfArguments"}
  ELSE Report(\E k \in Arguments(n) : ~CanImplicitCast(KidType(n, k), nodes[n].params[k]),
              "InvalidImplicitCastInFunctionCallArgument")

\* Mutant: the casts of the arguments are made and thrown away.
CheckCallOnly ==
  /\ CallDue /\ Answered
  /\ Complain(CallErrors(Here))
  /\ Walk(nodes)
  /\ UNCHANGED <<nodes, source, pass, outcome>>

CheckCall ==
  /\ CallDue /\ Answered
  /\ LET fits(k) == k \in Arguments(Here) /\ CanImplicitCast(KidType(Here, k), nodes[Here].params[k])
         casts   == [k \in DOMAIN nodes[Here].kids |-> IfCasts(fits(k), k, nodes[Here].params[k])]
     IN  nodes' = IF Counted(Here) THEN WithCasts(Here, FlattenSeq(casts)) ELSE nodes
  /\ Complain(CallErrors(Here))
  /\ Walk(nodes')
  /\ UNCHANGED <<source, pass, outcome>>

-----------------------------------------------------------------------------
(***************************************************************************)
(* The end of a pass, and the code generator.                              *)
(***************************************************************************)
PassEnds == outcome = "running" /\ agenda = <<>>

Reject ==
  /\ PassEnds /\ errors # {}
  /\ outcome' = "rejected"
  /\ UNCHANGED <<nodes, source, pass, agenda, errors>>

NextPass ==
  /\ PassEnds /\ errors = {} /\ pass < Len(Passes)
  /\ pass' = pass + 1
  /\ agenda' = << <<"visiting", 1>> >>
  /\ UNCHANGED <<nodes, source, errors, outcome>>

\* The conversions and operations that the code generator has an instruction for.
Emittable(n) ==
  CASE nodes[n].op \in {"cast", "implicit cast"} ->
         KidType(n, 1) \in {"int", "float"} /\ nodes[n].type \in {"bool", "int", "float"}
    [] nodes[n].op \in Comparison \union {"arithmetic"} ->
         /\ KidType(n, 1) = KidType(n, 2)
         /\ KidType(n, 1) \in {"int", "float"} \/ (KidType(n, 1) = "bool" /\ nodes[n].op = "equal")
    [] nodes[n].op = "assign" -> KidType(n, 1) = KidType(n, 2)
    [] OTHER -> TRUE

AllPassed == PassEnds /\ errors = {} /\ pass = Len(Passes)

Emit ==
  /\ AllPassed /\ \A n \in DOMAIN nodes : Emittable(n)
  /\ outcome' = "emitted"
  /\ UNCHANGED <<nodes, source, pass, agenda, errors>>

EmitAsserts ==
  /\ AllPassed /\ \E n \in DOMAIN nodes : ~Emittable(n)
  /\ outcome' = "generator asserted"
  /\ UNCHANGED <<nodes, source, pass, agenda, errors>>

Ended == outcome # "running" /\ UNCHANGED vars

Visit == PassBy \/ TypeAsserts \/ AddImplicitCasts \/ CheckOperator \/ CastAsserts \/ CheckCast \/ CheckCall
Next  == Visit \/ Reject \/ NextPass \/ Emit \/ EmitAsserts \/ Ended

Spec == Init /\ [][Next]_vars

\* One thread; what can be done is done.
FairSpec == Spec /\ WF_vars(Next)

-----------------------------------------------------------------------------
(***************************************************************************)
(* What the language promises, in one definition over the program as it    *)
(* was written: an expression has a type or it is ill typed.               *)
(***************************************************************************)
IllTyped == "ill typed"

Joined(l, r) ==
  IF l = r THEN l ELSE IF CanImplicitCast(l, r) THEN r ELSE IF CanImplicitCast(r, l) THEN l ELSE IllTyped

Typing ==
  LET typing[n \in DOMAIN source] ==
        LET e == source[n]
            kids == [k \in DOMAIN e.kids |-> typing[e.kids[k]]]
            When(fits, type) == IF fits THEN type ELSE IllTyped
            joined == Joined(kids[1], kids[2])
        IN  IF IllTyped \in {kids[k] : k \in DOMAIN kids} THEN IllTyped
            ELSE CASE e.op = "arithmetic" -> When(CanDoArithmetic(joined), joined)
                   [] e.op \in Comparison -> When(joined # IllTyped, "bool")
                   [] e.op = "logic"  -> When(\A k \in {1, 2} : Converts(kids[k], "bool"), "bool")
                   [] e.op = "assign" ->
                        When(source[e.kids[1]].op = "variable" /\ Converts(kids[2], kids[1]), kids[1])
                   [] e.op \in {"while", "assert"} -> When(Converts(kids[1], "bool"), "void")
                   [] e.op = "if" ->
                        When(Converts(kids[1], "bool"), IF Len(kids) = 2 THEN "void" ELSE Joined(kids[2], kids[3]))
                   [] e.op = "function" -> When(e.type = "void" \/ Converts(kids[1], e.type), "void")
                   [] e.op = "cast" ->
                        When(CanImplicitCast(kids[1], e.type) \/ CanExplicitCast(kids[1], e.type), e.type)
                   [] e.op = "call" ->
                        When(/\ e.type # Asserted /\ Len(kids) = Len(e.params)
                             /\ \A k \in DOMAIN kids : Converts(kids[k], e.params[k]), e.type)
                   [] e.op = "list" -> IF kids = <<>> THEN Asserted ELSE Last(kids)
                   [] OTHER -> e.type
  IN  typing

-----------------------------------------------------------------------------
(***************************************************************************)
(* Properties.                                                             *)
(***************************************************************************)
Strip(n) == IF nodes[n].op = "implicit cast" THEN Kid(n, 1) ELSE n

\* The variables keep their types, and the walk only ever sees the program:
\* taking the implicit casts away gives it back, and no cast is on a cast.
TypeOK ==
  /\ pass \in 1 .. Len(Passes)
  /\ \A i \in DOMAIN agenda : agenda[i][1] \in {"visiting", "visited"} /\ agenda[i][2] \in DOMAIN nodes
  /\ outcome \in {"running", "rejected", "emitted", "type asserted", "cast asserted", "generator asserted"}
  /\ \A n \in DOMAIN source :
       nodes[n] = [source[n] EXCEPT !.kids = nodes[n].kids]
       /\ [k \in DOMAIN nodes[n].kids |-> Strip(Kid(n, k))] = source[n].kids

\* The passes together decide what the one definition decides: what they let
\* through is well typed, what they reject is not.  A well-typed program trips an
\* assertion of the passes only where a loop's condition is asked for its type,
\* which is before its operands are converted, or a block without expressions is.
VerdictIsRight ==
  /\ AllPassed \/ outcome \in {"emitted", "generator asserted"} => Typing[1] # IllTyped
  /\ outcome = "rejected" => Typing[1] = IllTyped
  /\ outcome \in {"type asserted", "cast asserted"} =>
       \/ Typing[1] = IllTyped
       \/ \E n \in DOMAIN source :
            source[n].op = "while" \/ (source[n].op = "list" /\ source[n].kids = <<>>)

\* When no pass has complained, the operands of every operator agree, what is
\* tested is a bool, arguments have the types of their parameters and a body
\* has the type that its function returns: casts were inserted in every place.
CastsAreComplete ==
  AllPassed =>
    \A n \in DOMAIN nodes :
      /\ nodes[n].op \in BinaryOps => KidType(n, 1) = KidType(n, 2)
      /\ nodes[n].op = "logic" \/ nodes[n].op \in Conditional => KidType(n, 1) = "bool"
      /\ nodes[n].op = "call" => [k \in DOMAIN nodes[n].kids |-> KidType(n, k)] = nodes[n].params
      /\ nodes[n].op = "function" /\ nodes[n].type # "void" => KidType(n, 1) = nodes[n].type
=============================================================================
