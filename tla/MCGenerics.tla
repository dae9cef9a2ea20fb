----------------------------- MODULE MCGenerics -----------------------------
(***************************************************************************)
(* Sessions of three lines: two out of all the lines below and one out of  *)
(* three that use what those have left.  Every generic is declared by a    *)
(* line before the session, as a REPL user would have to.                  *)
(***************************************************************************)
EXTENDS GenericExpansion

Type(n)    == [name |-> n, args |-> <<>>]
Of(n, as)  == [name |-> n, args |-> as]

MCKeyword   == {"int", "bool"}
MCClassName == {"Plain"}
MCVariable  == {"someVariable"}

MCDefinition ==
  [Item   |-> [params |-> <<"T">>, body |-> <<Type("T")>>],
   \* next : Node<T> and value : Item<T>
   Node   |-> [params |-> <<"T">>,
               body |-> <<Type("T"), Of("Node", <<1>>), Type("T"), Of("Item", <<3>>)>>],
   Parent |-> [params |-> <<"T">>, body |-> <<Type("T"), Of("Child", <<1>>)>>],
   Child  |-> [params |-> <<"T">>, body |-> <<Type("T"), Of("Parent", <<1>>)>>],
   Pair   |-> [params |-> <<"T", "U">>, body |-> <<Type("U"), Type("T")>>],
   Odd    |-> [params |-> <<"T">>, body |-> <<Type("T"), Of("Plain", <<1>>)>>],
   Bad    |-> [params |-> <<"T">>, body |-> <<Type("Undefined"), Type("T")>>],
   Grow   |-> [params |-> <<"T">>,
               body |-> <<Type("T"), Of("Item", <<1>>), Of("Grow", <<2>>)>>]]

IntItem   == <<Type("int"), Of("Item", <<1>>)>>
BoolItem  == <<Type("bool"), Of("Item", <<1>>)>>
PlainItem == <<Type("Plain"), Of("Item", <<1>>)>>
ItemTwice == <<Type("int"), Of("Item", <<1>>), Type("int"), Of("Item", <<3>>)>>
Nested    == IntItem \o <<Of("Item", <<2>>)>>
NestedTwice == Nested \o <<Type("int"), Of("Item", <<4>>), Of("Item", <<5>>)>>
NodeAlone == <<Type("int"), Of("Node", <<1>>)>>
NodeInt   == NodeAlone \o <<Type("int"), Of("Item", <<3>>)>>
Family    == <<Type("int"), Of("Parent", <<1>>), Type("int"), Of("Child", <<3>>)>>
PairOfInt == <<Type("int"), Type("int"), Of("Item", <<2>>), Of("Pair", <<1, 3>>)>>
BadInt    == <<Type("int"), Of("Bad", <<1>>)>>
OddInt    == <<Type("int"), Of("Odd", <<1>>)>>
GrowInt   == <<Type("int"), Of("Grow", <<1>>)>>
TooMany   == IntItem \o <<Type("int"), Type("bool"), Of("Item", <<3, 4>>)>>
BareItem  == <<Type("Item")>>
BareIn    == <<Type("Item"), Of("Item", <<1>>)>>
NotGeneric == IntItem \o <<Type("int"), Of("Plain", <<3>>)>>
Unknown   == IntItem \o <<Type("Missing"), Type("someVariable")>>

MCText == {IntItem, BoolItem, PlainItem, ItemTwice, Nested, NestedTwice, NodeAlone, NodeInt,
           Family, PairOfInt, BadInt, OddInt, GrowInt, TooMany, BareItem, BareIn, NotGeneric, Unknown}

LineOf(text, fault) == [uses |-> text, reads |-> {}, fault |-> fault]
Reading(text)       == [uses |-> text, reads |-> {Len(text)}, fault |-> "none"]
ReadsScalar         == [uses |-> IntItem, reads |-> {1, 2}, fault |-> "none"]

MCLine ==
  {LineOf(text, "none") : text \in MCText}
  \union {LineOf(text, fault) : text \in {IntItem, ItemTwice, Nested, NodeInt},
                                fault \in {"symbols", "casts"}}
  \union {Reading(text) : text \in {PlainItem, NestedTwice, NodeInt, BadInt, IntItem}}
  \union {ReadsScalar}

MCLines == <<MCLine, MCLine, {LineOf(NestedTwice, "none"), Reading(NodeInt), LineOf(IntItem, "casts")}>>
=============================================================================
