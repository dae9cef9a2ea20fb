------------------------------ MODULE MCScopes ------------------------------
(***************************************************************************)
(* Modules of three parts out of the lists below, which share the names a, *)
(* b, x, f, C and t, so that they shadow, reopen and clash with each       *)
(* other.                                                                  *)
(***************************************************************************)
EXTENDS SymbolScopes, TLC

MCKeyword  == {"int"}
MCExported == {"x", "g"}

Tok(op, name, params, types) ==
  [op |-> op, name |-> name, params |-> params, types |-> types, span |-> 0, id |-> 0]
End        == <<Tok("end", <<>>, <<>>, <<>>)>>
Block(b)   == <<Tok("block", <<>>, <<>>, <<>>)>> \o b \o End
Func(n, ps, b) ==
  <<Tok("func", <<n>>, ps, [k \in DOMAIN ps |-> <<"int">>])>> \o Block(b) \o End
Namespace(path, b)   == <<Tok("namespace", path, <<>>, <<>>)>> \o b \o End
Named(n, ps, b)   == <<Tok("template", <<n>>, ps, <<>>)>> \o b \o End
Expansion(path, args) == <<Tok("expand", path, <<>>, args)>> \o End
Class(n, b)  == <<Tok("class", <<n>>, <<>>, <<>>)>> \o Block(b)
Var(n, type) == <<Tok("var", <<n>>, <<>>, <<type>>)>>
Use(path)    == <<Tok("use", path, <<>>, <<>>)>>

int == <<"int">>
X   == Var("x", int)

Outer == {
  <<>>, X,
  Namespace(<<"a">>, X),
  Namespace(<<"a", "b">>, X \o Class("C", X)),
  Func("a", <<"x">>, Use(<<"x">>) \o Block(X \o Use(<<"x">>))),
  Class("C", X \o Func("f", <<>>, Use(<<"x">>))),
  Named("t", <<"T">>, Var("x", <<"T">>) \o Use(<<"x">>)),
  Named("t", <<"T">>, Namespace(<<"a">>, X)),
  Named("t", <<"T">>, Namespace(<<"a">>, Var("x", <<"T">>))),
  Named("t", <<"T">>, Class("C", Var("x", <<"T">>)) \o Func("f", <<>>, Var("c", <<"C">>))),
  Named("t", <<"T">>, Named("u", <<"U">>, Var("x", <<"U">>)) \o Expansion(<<"u">>, <<<<"T">>>>)),
  Named("t", <<>>, Use(<<"a", "x">>)),
  Named("t", <<"T">>, Block(X \o Func("f", <<>>, Use(<<"x">>))) \o Block(X)),
  Namespace(<<"a">>, Named("t", <<"T">>, Block(X)) \o Expansion(<<"t">>, <<int>>)),
  Block(X \o Func("f", <<>>, Block(X) \o Block(Func("f", <<>>, <<>>)))),
  Named("a", <<>>, X)}

Middle == {
  <<>>, Expansion(<<"t">>, <<int>>), Namespace(<<"a">>, Expansion(<<"t">>, <<int>>)),
  Func("f", <<>>, X \o Var("a", int) \o Use(<<"x">>)),
  Func("f", <<>>, Use(<<"x">>) \o X),
  Func("f", <<>>, Use(<<"c">>) \o Class("C", <<>>) \o Var("c", <<"C">>)),
  Func("f", <<>>, Var("a", int) \o Expansion(<<"t">>, <<int>>)),
  Func("f", <<>>, Namespace(<<"a">>, X) \o Use(<<"a", "x">>) \o Use(<<"a">>)),
  Block(Namespace(<<"a">>, X) \o Use(<<"a", "x">>)),
  Block(X \o Func("f", <<>>, Use(<<"x">>))),
  Expansion(<<"t">>, <<int>>) \o Expansion(<<"t">>, <<int>>) \o Expansion(<<"a", "t">>, <<int>>),
  Namespace(<<"a">>, Use(<<"b", "x">>) \o Use(<<"x">>)),
  Namespace(<<"b">>, Namespace(<<"a", "b">>, X) \o Namespace(<<"a">>, Use(<<"b", "x">>))),
  Var("a", int)}

Inner == {
  <<>>, Use(<<"x">>), Use(<<"a", "x">>), Use(<<"a", "b", "x">>), Use(<<"a", "x", "y">>), Use(<<"f">>) \o Use(<<"t">>),
  Var("c", <<"C">>), Var("c", <<"a", "b", "C">>), Var("c", <<"x">>),
  Expansion(<<"t">>, <<<<"C">>>>), Expansion(<<"x">>, <<>>),
  Use(<<"g">>) \o Func("f", <<"y", "y">>, Use(<<"y">>)), X,
  Named("t", <<"T">>, X)}

MCProgram(parts) ==
  LET text == <<Tok("module", <<>>, <<>>, <<>>)>> \o parts \o End
      name(i) == CASE text[i].op = "module" -> <<"module">>
                   [] text[i].op = "block" -> <<"{" \o ToString(i)>>
                   [] OTHER -> text[i].name
  IN  [i \in DOMAIN text |-> [text[i] EXCEPT !.id = i, !.span = i, !.name = name(i)]]

\* A template called with the number of arguments it has.
MCPrograms ==
  {p \in {MCProgram(a \o b \o c) : a \in Outer, b \in Middle, c \in Inner} :
     \A i, j \in DOMAIN p :
       p[i].op = "template" /\ p[j].op = "expand" /\ p[i].name[1] = p[j].name[Len(p[j].name)]
       => Len(p[i].params) = Len(p[j].types)}
=============================================================================
