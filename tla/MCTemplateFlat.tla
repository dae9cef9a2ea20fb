--------------------------- MODULE MCTemplateFlat ---------------------------
(***************************************************************************)
(* Every session of two lines over three templates whose bodies expand up  *)
(* to two templates: all the shapes of circular and diamond references,    *)
(* shown to implement ExpansionContract.                                   *)
(***************************************************************************)
EXTENDS TemplateExpansion, TLC

CONSTANTS A, B, C, p, t1, t2, t3

MCName == {A, B, C, p}
MCTemplate == {t1, t2, t3}

Expansion1 == {Expand(A, 0), Expand(B, 0), Expand(C, 0)}
Body  == {<<>>} \union {<<e>> : e \in Expansion1} \union {<<e, f>> : e, f \in Expansion1}
BodyB == {<<>>, <<Expand(A, 0)>>, <<Expand(B, 0)>>, <<Expand(C, 0)>>,
          <<Expand(A, 0), Expand(C, 0)>>, <<Expand(C, 0), Expand(B, 0)>>}
BodyC == {<<>>, <<Expand(A, 0)>>, <<Expand(B, 0), Expand(C, 0)>>, <<Expand(A, 1)>>}
Line1 == {<<Define(t1), Define(t2), Expand(A, 0), Expand(B, 0)>>,
          <<Define(t1), Define(t3), Expand(C, 0)>>,
          <<Define(t2), Declare(A), Define(t1)>>,
          <<Define(t1), Expand(A, 0)>>}
Line2 == {<<Define(t3), Expand(A, 0)>>, <<Define(t3), Define(t2), Expand(C, 0)>>}
Params3 == {<<>>, <<p, p>>}

MCPrograms ==
  {[templates |-> (t1 :> [name |-> A, params |-> <<>>, body |-> a])
                  @@ (t2 :> [name |-> B, params |-> <<>>, body |-> b])
                  @@ (t3 :> [name |-> C, params |-> q, body |-> c]),
    lines |-> <<l1, l2>>] :
     a \in Body, b \in BodyB, c \in BodyC, q \in Params3, l1 \in Line1, l2 \in Line2}

\* A template symbol of the detailed specification means the template it is a
\* copy of.
Meaning(symbol) == IF symbol \in Instance THEN symbol[1] ELSE symbol

Contract == INSTANCE ExpansionContract
              WITH globals <- [n \in Name |-> Meaning(globals[n])]

\* The session of visitors, stacks and copies implements the contract: every
\* line is judged, and as the contract says.
ImplementsContract == Contract!Spec
=============================================================================
