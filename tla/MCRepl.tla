------------------------------- MODULE MCRepl -------------------------------
(***************************************************************************)
(* Sessions of three lines over two names and a namespace, scripts and     *)
(* dumps of one.                                                           *)
(***************************************************************************)
EXTENDS ReplSession

CONSTANTS a, b, ns

MCName == {a, b, ns}

Lines ==
  {Code(<<>>), Code(<<Variable(a)>>), Code(<<Function(a), Use(a)>>),
   Code(<<Use(a), Variable(b)>>), Code(<<Variable(b), Variable(a), Use(b)>>),
   Code(<<Member(ns, a), UseMember(ns, a)>>), Code(<<UseMember(ns, a)>>), Code(<<Use(ns)>>),
   Code(<<Member(ns, b), Member(ns, a), Variable(a)>>),
   Code(<<Variable(a), IllTyped>>), Code(<<Variable(b), FailAssert, Variable(a)>>),
   Code(<<Variable(b), Function(b)>>), Unparsable,
   Meta("compile"), Meta("help"), Meta("exit")}

Files == {l \in Lines : l.op = "code"}

MCSessions ==
  {[mode |-> "interactive", inputs |-> <<x, y, z>>] : x \in Lines, y \in Lines, z \in Lines}
  \union {[mode |-> m, inputs |-> <<x>>] : m \in {"script", "dump"}, x \in Files}
=============================================================================
