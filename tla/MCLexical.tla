------------------------------ MODULE MCLexical ------------------------------
(***************************************************************************)
(* Every text of up to six characters out of which comments are made, and  *)
(* of up to four out of which tokens are made.                             *)
(***************************************************************************)
EXTENDS LexicalScan

Texts(set, n) == UNION {[1 .. k -> set] : k \in 0 .. n}

MCInputs == Texts({"(", "#", ")", NewLine}, 6)
            \union Texts({"(", "#", ")", "a", " "}, 4)
            \union Texts({"-", "1", ".", "i", "f", " "}, 4)
            \union Texts({"=", "!", "(", "?", ":", "~", "-"}, 4)
=============================================================================
