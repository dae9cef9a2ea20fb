------------------------------- MODULE MCTypes -------------------------------
(***************************************************************************)
(* Every expression of an operator over operators or leaves of every type, *)
(* as the first of two statements, and functions and calls.                *)
(***************************************************************************)
EXTENDS TypeConversion

Value(t) == IF t \in {"double", "C"} THEN Node("variable", <<>>, t, <<>>) ELSE Node("literal", <<>>, t, <<>>)
Types == {"void", "bool", "int", "float", "double", "C"}
Leaves == {Value(t) : t \in Types \ {"void"}} \union {Node("variable", <<>>, t, <<>>) : t \in {"bool", "int"}}
          \union {Node("call", <<>>, t, <<>>) : t \in {"void", "float", Asserted}}
          \union {Node("list", <<>>, "void", <<>>)}
Few == {Value(t) : t \in {"bool", "int", "float", "C"}}

Kinds == BinaryOps \union {"while", "if", "assert"}
Op(op, kids) == Node(op, kids, "void", <<>>)

\* Node 1 is the body of the module, 2 the statement, 3 its first operand.
Body == Op("list", <<2, 6>>)
Six  == Value("int")
Statement(x, y, z) == <<Body, x, y, z, Value("int"), Six>>

Unary == {Op("assert", <<3>>), Op("if", <<3, 5>>)}
         \union {Node("cast", <<3>>, t, <<>>) : t \in {"bool", "int", "float", "C"}}
         \union {Node("function", <<3>>, t, <<>>) : t \in Types}
Two  == {Op(op, <<3, 4>>) : op \in BinaryOps \union {"while"}}
Flat == {Statement(x, y, z) : x \in Unary \union Two, y \in Leaves, z \in Leaves}
        \union {Statement(Op("if", <<4, 3, 5>>), y, z) : y \in Leaves, z \in Leaves}
        \union {Statement(Node("call", <<3, 4>>, "int", p), y, z) :
                  y \in Few, z \in Few, p \in {<<"float", "bool">>, <<"int">>, <<"C", "float">>}}

\* Node 3 has operands 7, 8 and 9 of its own.
Inner == {Op(op, <<7, 8>>) : op \in BinaryOps \union {"list"}}
         \union {Op("if", <<9, 7, 8>>), Node("call", <<7>>, "int", <<"float">>), Node("cast", <<7>>, "int", <<>>)}
Deep == {Statement(x, y, z) \o <<v, w, Value("bool")>> :
           x \in Unary \union Two \union {Op("if", <<5, 3, 4>>)},
           y \in Inner, z \in {Value("int"), Value("bool")},
           v \in Few \union {Node("variable", <<>>, "int", <<>>)}, w \in Few}

MCPrograms == Flat \union Deep
=============================================================================
