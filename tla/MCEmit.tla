------------------------------- MODULE MCEmit -------------------------------
(***************************************************************************)
(* Every well-typed combination of operators two levels deep, as the body  *)
(* of a function or as a statement of the module.                          *)
(***************************************************************************)
EXTENDS EmitControlFlow

MCNode == 1 .. 12

\* Kinds with their number of operands.
Inner == {<<"leaf", 0>>, <<"define", 0>>, <<"equal", 2>>, <<"and", 2>>, <<"if", 3>>,
          <<"while", 2>>, <<"assert", 1>>, <<"list", 2>>}
Outer == {<<"equal", 2>>, <<"and", 2>>, <<"or", 2>>, <<"if", 2>>, <<"if", 3>>, <<"while", 2>>,
          <<"assert", 1>>, <<"list", 3>>}
Third == {<<"leaf", 0>>, <<"while", 2>>}
Mains == {<<"module", <<2, 12>>, {}>>, <<"module", <<12>>, {2}>>}

Upto(s, k) == SubSeq(s, 1, k)
Tree(m, a, b, c, d) ==
  [kind |-> [n \in MCNode |-> CASE n = 1 -> "module" [] n = 2 -> a[1] [] n = 3 -> b[1]
                                [] n = 4 -> c[1] [] n = 5 -> d[1] [] OTHER -> "leaf"],
   kids |-> [n \in MCNode |-> CASE n = 1 -> m[2] [] n = 2 -> Upto(<<3, 4, 5>>, a[2])
                                [] n = 3 -> Upto(<<6, 7, 8>>, b[2])
                                [] n = 4 -> Upto(<<9, 10, 11>>, c[2])
                                [] n = 5 -> Upto(<<6, 7>>, d[2]) [] OTHER -> <<>>],
   main |-> 1, functions |-> m[3]]

\* The types fit: operands and conditions have values, branches agree.
Valued(k) == k[1] \notin {"define", "while", "assert"}
Typed(a, b, c, d) ==
  /\ a[1] \in {"equal", "and", "or"} => Valued(b) /\ Valued(c)
  /\ a[1] \in {"if", "while", "assert"} => Valued(b)
  /\ a = <<"if", 3>> => (Valued(c) <=> Valued(d))
  /\ a[2] < 3 => d[1] = "leaf"
  /\ a[2] < 2 => c[1] = "leaf"
  /\ d[1] # "leaf" => b[2] = 0       \* nodes 6 and 7 belong to one expression

MCPrograms ==
  {Tree(x[1], x[2], x[3], x[4], x[5]) :
     x \in {y \in Mains \X Outer \X Inner \X Inner \X Third : Typed(y[2], y[3], y[4], y[5])}}
=============================================================================
