-------------------------- MODULE MCTemplateNested --------------------------
(***************************************************************************)
(* Sessions of two lines over three templates, one of which may be written *)
(* inside another, with parameters, declarations and wrong argument        *)
(* counts.                                                                 *)
(***************************************************************************)
EXTENDS TemplateExpansion, TLC

CONSTANTS A, B, C, x, t1, t2, t3

MCName == {A, B, C, x}
MCTemplate == {t1, t2, t3}

\* t2 is written inside t1, or beside it.
Inner  == {<<>>, <<Expand(A, 0)>>, <<Expand(C, 1)>>, <<Expand(A, 0), Expand(B, 0)>>}
Outer  == {<<Define(t2), Expand(B, 0)>>, <<Expand(B, 0), Define(t2), Expand(B, 0)>>,
           <<Expand(B, 0)>>, <<Define(t2), Expand(C, 1), Expand(B, 0)>>}
Common == {<<Declare(x)>>, <<Expand(A, 0)>>, <<Expand(x, 0), Expand(A, 0)>>, <<>>}
Line1  == {<<Define(t1), Define(t3), Expand(A, 0)>>,
           <<Define(t1), Define(t3), Define(t2)>>,
           <<Define(t1), Define(t3), Define(t2), Expand(B, 0), Expand(A, 0)>>,
           <<Define(t1), Define(t1), Expand(C, 0)>>,
           <<Define(t3), Define(t1), Expand(C, 0), Expand(C, 1)>>}
Line2  == {<<Expand(B, 0), Expand(C, 2)>>, <<Define(t2), Expand(A, 0)>>, <<Expand(x, 0)>>}
Params3 == {<<x>>, <<B>>, <<x, x>>}

MCPrograms ==
  {[templates |-> (t1 :> [name |-> A, params |-> <<>>, body |-> o])
                  @@ (t2 :> [name |-> B, params |-> <<>>, body |-> i])
                  @@ (t3 :> [name |-> C, params |-> p, body |-> c]),
    lines |-> <<l1, l2>>] :
     o \in Outer, i \in Inner, c \in Common, p \in Params3, l1 \in Line1, l2 \in Line2}
=============================================================================
