--------------------------- MODULE SourceSemantics ---------------------------
(***************************************************************************)
(* What the control flow of a program means: which of its leaf expressions *)
(* are evaluated, in which order, and what comes out, given what each leaf *)
(* evaluates to.  EmitControlFlow is shown to implement it.                *)
(*                                                                         *)
(* A program is a forest of expression nodes, numbered so that an operand  *)
(* has a greater number than the expression it is part of.  The roots are  *)
(* the bodies of the functions and the module.                             *)
(***************************************************************************)
EXTENDS Integers, Sequences, SequencesExt

CONSTANTS
  Node,         \* numbers of the expressions
  Programs,     \* the programs to compile
  MaxEvents     \* bound: a run is followed for so many events

\* leaf   any expression without branches: a literal, a variable, a call...
\* equal  an arithmetic or comparison operator
\* define a class, a function or a template: no code where it stands
\* list   a CompoundExpr or an ExpressionList
\* module the list of statements of a module, which reports their results
Arity == [leaf |-> {0}, define |-> {0}, equal |-> {2}, and |-> {2}, or |-> {2},
          if |-> {2, 3}, while |-> {2}, assert |-> {1}, list |-> 1 .. 3, module |-> 0 .. 3]
Kind == DOMAIN Arity

ASSUME NodeAssumption == Node \subseteq Nat \ {0}
ASSUME ProgramsAssumption ==
  \A p \in Programs :
    /\ p.kind \in [Node -> Kind] /\ p.kids \in [Node -> Seq(Node)]
    /\ p.functions \subseteq Node /\ p.main \in Node /\ p.kind[p.main] = "module"
    /\ \A n \in Node : /\ Len(p.kids[n]) \in Arity[p.kind[n]]
                       /\ \A i \in DOMAIN p.kids[n] : p.kids[n][i] > n
\* An expression is part of one other at most; no module is part of anything.
ASSUME ForestAssumption ==
  \A p \in Programs :
    /\ p.main \notin p.functions
    /\ \A n \in Node : p.kind[n] = "module" => n = p.main
    /\ \A n, m \in Node : \A i \in DOMAIN p.kids[n], j \in DOMAIN p.kids[m] :
         /\ p.kids[n][i] \notin p.functions \union {p.main}
         /\ p.kids[n][i] = p.kids[m][j] => n = m /\ i = j
ASSUME BoundAssumption == MaxEvents \in Nat

VARIABLES
  program,
  status,       \* "idle", "refused" by the compiler, "running" or "returned"
  entry,        \* the root that runs
  trace         \* what it has done: <<"eval" | "pass" | "fail" | "result", node, value>>

sourceVars == <<program, status, entry, trace>>

Kids(n) == program.kids[n]
Is(n, k) == program.kind[n] = k

(***************************************************************************)
(* Evaluation of n when p events of the trace came before it: the events   *)
(* used up, the value, and, when the trace ends before the evaluation,     *)
(* the events that may come next.                                          *)
(***************************************************************************)
Value(p, v)       == [pos |-> p, val |-> v, next |-> {}]
Then(r, F(_))     == IF r.next = {} THEN F(r) ELSE r
Perform(p, events) ==
  IF p < Len(trace) THEN Value(p + 1, trace[p + 1][3])
                    ELSE [pos |-> p, val |-> FALSE, next |-> events]

Void[n \in Node] ==
  \/ program.kind[n] \in {"define", "while", "assert", "module"}
  \/ Is(n, "list") /\ Void[Last(Kids(n))]
  \/ Is(n, "if") /\ (Len(Kids(n)) = 2 \/ Void[Kids(n)[2]] # Void[Kids(n)[3]] \/ Void[Kids(n)[2]])

Eval[n \in Node, p \in Nat] ==
  LET Branch(c, i) == IF i \in DOMAIN Kids(n) THEN Eval[Kids(n)[i], c.pos] ELSE Value(c.pos, FALSE)
      Sequence(Step(_, _)) ==
        FoldLeft(LAMBDA r, k : Then(r, LAMBDA s : Then(Eval[k, s.pos], LAMBDA t : Step(k, t))),
                 Value(p, FALSE), Kids(n))
      First(F(_)) == Then(Eval[Kids(n)[1], p], F)
  IN  CASE Is(n, "leaf")   -> Perform(p, {<<"eval", n, v>> : v \in BOOLEAN})
        [] Is(n, "define") -> Value(p, FALSE)
        \* the right operand first
        [] Is(n, "equal")  -> Then(Eval[Kids(n)[2], p], LAMBDA r :
                                Then(Eval[Kids(n)[1], r.pos], LAMBDA l :
                                  Value(l.pos, l.val = r.val)))
        [] Is(n, "and")    -> First(LAMBDA l : IF l.val THEN Branch(l, 2) ELSE l)
        [] Is(n, "or")     -> First(LAMBDA l : IF l.val THEN l ELSE Branch(l, 2))
        [] Is(n, "if")     -> First(LAMBDA c : Branch(c, IF c.val THEN 2 ELSE 3))
        [] Is(n, "while")  -> First(LAMBDA c :
                                IF c.val THEN Then(Branch(c, 2), LAMBDA b : Eval[n, b.pos])
                                         ELSE Value(c.pos, FALSE))
        [] Is(n, "assert") -> First(LAMBDA c :
                                Perform(c.pos, {<<IF c.val THEN "pass" ELSE "fail", n, c.val>>}))
        [] Is(n, "list")   -> Sequence(LAMBDA k, t : t)
        [] Is(n, "module") -> Sequence(LAMBDA k, t :
                                IF Void[k] THEN t ELSE Perform(t.pos, {<<"result", k, t.val>>}))

-----------------------------------------------------------------------------
SourceInit ==
  /\ program \in Programs /\ status = "idle" /\ entry = 0 /\ trace = <<>>

Refuse ==
  /\ status = "idle" /\ status' = "refused"
  /\ UNCHANGED <<program, entry, trace>>

Begin ==
  /\ status = "idle" /\ status' = "running"
  /\ entry' \in program.functions \union {program.main}
  /\ UNCHANGED <<program, trace>>

Happen ==
  /\ status = "running" /\ Len(trace) < MaxEvents
  /\ \E e \in Eval[entry, 0].next : trace' = Append(trace, e)
  /\ UNCHANGED <<program, status, entry>>

\* A root that is not void returns its value: the last event, "return".
Finish ==
  /\ status = "running" /\ Eval[entry, 0].next = {}
  /\ status' = "returned"
  /\ trace' = IF Void[entry] THEN trace
                             ELSE Append(trace, <<"return", entry, Eval[entry, 0].val>>)
  /\ UNCHANGED <<program, entry>>

SourceNext == Refuse \/ Begin \/ Happen \/ Finish
SourceSpec == SourceInit /\ [][SourceNext]_sourceVars
=============================================================================
