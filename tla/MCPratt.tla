------------------------------- MODULE MCPratt -------------------------------
(***************************************************************************)
(* Every short sequence of a few kinds of tokens; chains of four operands, *)
(* with ! before one of them, or with parentheses; and every combination   *)
(* of two constructs, one inside or behind the other.                      *)
(***************************************************************************)
EXTENDS PrattParse

Short == UNION {[1 .. n -> {"1", "id", "!", "(", ")", "{", "}", "*", "="}] : n \in 0 .. 4}

Ops == {"=", "&&", "==", "+", "*"}
Chain(a, x, b, y, c, z, d) == a \o <<x>> \o b \o <<y>> \o c \o <<z>> \o d
Id == <<"id">>
Not == <<"!", "1">>
Call == <<"id", "(", "1", ",", "1", ")">>
If == <<"if", "(", "1", ")", "1">>
Opened == <<"(", "1">>
Closed == <<"1", ")">>

Chains ==
  UNION {{Chain(Id, x, Id, y, Id, z, Id), Chain(Not, x, Id, y, If, z, Id), Chain(Id, x, Not, y, Id, z, Call),
          Chain(Call, x, If, y, Not, z, Id), Chain(Opened, x, Closed, y, Opened, z, Closed),
          Chain(Id, x, Opened, y, Closed, z, <<"id", ".", "id">>),
          Chain(Opened, x, Id, y, Closed, z, <<"id", ".", "id", "(", ")">>)}
         : x \in Ops, y \in Ops, z \in Ops}

\* A construct with a place for another: what stands before and behind it.
Constructs ==
  {<< <<"{">>, <<"}">> >>, << <<"(">>, <<")">> >>, << <<"(?", "1", ";">>, <<";", "1", ")">> >>,
   << <<"if", "(", "1", ")">>, <<>> >>, << <<"if", "(", "1", ")", "1", "else">>, <<>> >>,
   << <<"if", "(", "1", ")">>, <<"else", "1">> >>,
   << <<"while", "(">>, <<")", "1">> >>, << <<"while", "(", "1", ")">>, <<>> >>,
   << <<"cast", "<", "id", "<", "id", ">", ">", "(">>, <<")">> >>, << <<"assert", "(">>, <<")">> >>,
   << <<"func", "id", ":", "id", "(", ")">>, <<>> >>,
   << <<"func", "id", ":", "id", "(", "id", ":", "id", ",", "id", ":", "id", ")", "{">>, <<"}">> >>,
   << <<"class", "id">>, <<>> >>, << <<"class", "id", "{">>, <<"}">> >>,
   << <<"class", "id", "<", "id", ",", "id", ">", "{">>, <<"}">> >>,
   << <<"namespace", "id", "::", "id">>, <<>> >>, << <<"namespace", "id", "{">>, <<"}">> >>,
   << <<"template", "id", "{">>, <<"}">> >>, << <<"template", "id", "<", ">">>, <<>> >>,
   << <<"template", "id", "<", "id", ">">>, <<>> >>,
   << <<"1", "+">>, <<"=", "1">> >>, << <<"id", "=">>, <<"*", "1">> >>, << <<"++">>, <<>> >>,
   << <<"id", "(">>, <<")">> >>, << <<"id", ".", "id", "(", "1", ",">>, <<")">> >>, << <<>>, <<"(", ")">> >>,
   << <<"new", "id", "(", ")">>, <<>> >>, << <<"expand", "id", "<", "id", ">">>, <<>> >>,
   << <<"expand", "id", "<", ">">>, <<"}">> >>, << <<"id", ":", "id", "=">>, <<>> >>,
   << <<>>, <<"!", "1">> >>}

Nested == {x[1] \o y[1] \o <<"{", "}">> \o y[2] \o x[2] : x \in Constructs, y \in Constructs}
Behind == {x[1] \o <<"1">> \o x[2] \o y[1] \o <<"{", "}">> \o y[2] \o <<"{", "}">> : x \in Constructs, y \in Constructs}
Triple == {x[1] \o y[1] \o <<"{", "}">> \o y[2] \o <<"{", "}">> \o x[2] : x \in Constructs, y \in Constructs}

MCInputs == Short \union Chains \union Nested \union Behind \union Triple
=============================================================================
