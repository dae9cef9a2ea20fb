----------------------------- MODULE LexicalScan -----------------------------
(***************************************************************************)
(* The lexer: SourceReader, a stream of characters with a lookahead that   *)
(* grows as it is asked for, and AnodeLexer, which skips what is blank and *)
(* cuts the rest into tokens.                                              *)
(*                                                                         *)
(* Characters are strings of length one and End is what get() returns at   *)
(* the end of the stream.  A step is one turn of one of the lexer's loops. *)
(***************************************************************************)
EXTENDS Integers, Sequences, FiniteSets

CONSTANTS Inputs,      \* sequences of characters
          IntDigits,   \* how many digits an int has room for
          FloatDigits  \* how many digits a float has room for before the point

VARIABLES input,     \* what the stream holds
          reader,    \* the SourceReader: [pos, ended, ahead, line, column]
          mode,      \* the loop that the lexer is in
          depth,     \* nestDepth of discardMultilineComment
          start,     \* where the comment or the token under way begins
          text,      \* the characters of the token under way
          tokens,    \* what extractToken has returned: [kind, text, at]
          errors,    \* what the error stream holds: <<kind, location>>
          outcome    \* "scanning", "scanned" or "aborted"

vars == <<input, reader, mode, depth, start, text, tokens, errors, outcome>>

-----------------------------------------------------------------------------
(***************************************************************************)
(* Characters, and the tokens that never change in the order in which they *)
(* are registered.                                                         *)
(***************************************************************************)
End     == "end"
NewLine == "\n"
White   == {" ", NewLine}
Digit   == {"1"}
Letter  == {"a", "i", "f", "_"}

StaticTokens ==
  << <<"+", "+">>, <<"-", "-">>, <<"=", "=">>, <<"!", "=">>, <<"&", "&">>, <<"|", "|">>, <<">", "=">>,
     <<"<", "=">>, <<"(", "?">>, <<";">>, <<"!">>, <<"+">>, <<"-">>, <<"*">>, <<"/">>, <<"=">>, <<">">>,
     <<"<">>, <<".">>, <<":", ":">>, <<":">>, <<"(">>, <<")">>, <<"{">>, <<"}">>, <<",">> >>

\* Of the keywords one; the others are looked up alike.
Keywords == { <<"i", "f">> }

\* What get() returns at the end is no character.
ASSUME InputsAssumption ==
  \A s \in Inputs : s \in Seq(STRING) /\ \A i \in DOMAIN s : s[i] # End

OpenComment  == <<"(", "#">>
CloseComment == <<"#", ")">>

-----------------------------------------------------------------------------
(***************************************************************************)
(* The reader.  At the end of the stream get() sets its eof bit.           *)
(***************************************************************************)
Prime(r, n) ==
  LET more == IF n > Len(r.ahead) THEN n - Len(r.ahead) ELSE 0
  IN  [r EXCEPT !.ahead = @ \o [i \in 1 .. more |-> IF r.pos + i <= Len(input) THEN input[r.pos + i] ELSE End],
                !.pos   = IF r.pos + more <= Len(input) THEN r.pos + more ELSE Len(input),
                !.ended = @ \/ r.pos + more > Len(input)]

\* Mutant: the column goes on over the end of a line.
SkipInLine(r) ==
  LET p == Prime(r, 1)
  IN  [p EXCEPT !.ahead = Tail(p.ahead), !.column = @ + 1,
                !.line = IF Head(p.ahead) = NewLine THEN @ + 1 ELSE @]

\* next(), without the character that it returns.
Skip(r) ==
  LET p == Prime(r, 1)
  IN  IF Head(p.ahead) = NewLine
      THEN [p EXCEPT !.ahead = Tail(p.ahead), !.line = @ + 1, !.column = 1]
      ELSE [p EXCEPT !.ahead = Tail(p.ahead), !.column = @ + 1]

Peek(r, n)     == Prime(r, n).ahead[n]
PeekMatch(r, s) == SubSeq(Prime(r, Len(s)).ahead, 1, Len(s)) = s
SkipOver(r, s) == IF Len(s) = 2 THEN Skip(Skip(Prime(r, 2))) ELSE Skip(r)

Eof(r) == r.ended /\ (r.ahead # <<>> => Head(r.ahead) = End)

Here(r) == [line |-> r.line, column |-> r.column]

-----------------------------------------------------------------------------
Init ==
  /\ input \in Inputs
  /\ reader = [pos |-> 0, ended |-> FALSE, ahead |-> <<>>, line |-> 1, column |-> 1]
  /\ mode = "blank" /\ depth = 0 /\ start = [line |-> 1, column |-> 1] /\ text = <<>>
  /\ tokens = <<>> /\ errors = {} /\ outcome = "scanning"

In(m) == outcome = "scanning" /\ mode = m

(***************************************************************************)
(* discardWhite: comments and white space, in any order.                   *)
(***************************************************************************)
StartLineComment ==
  /\ In("blank") /\ PeekMatch(reader, <<"#">>)
  /\ reader' = Skip(reader) /\ mode' = "line comment"
  /\ UNCHANGED <<input, depth, start, text, tokens, errors, outcome>>

SkipInLineComment ==
  /\ In("line comment") /\ Peek(reader, 1) # NewLine /\ ~Eof(Prime(reader, 1))
  /\ reader' = Skip(reader)
  /\ UNCHANGED <<input, mode, depth, start, text, tokens, errors, outcome>>

\* The new line is discarded, or the end of the input.
EndLineComment ==
  /\ In("line comment") /\ (Peek(reader, 1) = NewLine \/ Eof(Prime(reader, 1)))
  /\ reader' = Skip(reader) /\ mode' = "blank"
  /\ UNCHANGED <<input, depth, start, text, tokens, errors, outcome>>

StartComment ==
  /\ In("blank") /\ PeekMatch(reader, OpenComment)
  /\ reader' = SkipOver(reader, OpenComment)
  /\ mode' = "comment" /\ depth' = 1 /\ start' = Here(reader)
  /\ UNCHANGED <<input, text, tokens, errors, outcome>>

UnterminatedComment ==
  /\ In("comment") /\ Eof(reader)
  /\ errors' = errors \union {<<"UnexpectedEofInMultilineComment", start>>}
  /\ outcome' = "aborted"
  /\ UNCHANGED <<input, reader, mode, depth, start, text, tokens>>

InComment == In("comment") /\ ~Eof(reader)

\* Mutant: comments do not nest.
OpenInnerComment ==
  /\ InComment /\ PeekMatch(reader, OpenComment)
  /\ reader' = SkipOver(reader, OpenComment)
  /\ UNCHANGED <<input, mode, depth, start, text, tokens, errors, outcome>>

InnerComment ==
  /\ InComment /\ PeekMatch(reader, OpenComment)
  /\ reader' = SkipOver(reader, OpenComment)
  /\ depth' = depth + 1
  /\ UNCHANGED <<input, mode, start, text, tokens, errors, outcome>>

EndComment ==
  /\ InComment /\ PeekMatch(reader, CloseComment)
  /\ reader' = SkipOver(reader, CloseComment)
  /\ depth' = depth - 1 /\ mode' = IF depth = 1 THEN "blank" ELSE mode
  /\ UNCHANGED <<input, start, text, tokens, errors, outcome>>

SkipInComment ==
  /\ InComment /\ ~PeekMatch(reader, OpenComment) /\ ~PeekMatch(reader, CloseComment)
  /\ reader' = Skip(Prime(reader, 2))
  /\ UNCHANGED <<input, mode, depth, start, text, tokens, errors, outcome>>

\* No comment begins here: match() has looked two characters ahead.
NoComment == In("blank") /\ ~PeekMatch(reader, <<"#">>) /\ ~PeekMatch(reader, OpenComment)
Primed == Prime(reader, 2)
First  == Peek(reader, 1)

\* Going back to look for a comment after every character changes nothing.
SkipWhite ==
  /\ NoComment /\ First \in White
  /\ reader' = Skip(Primed)
  /\ UNCHANGED <<input, mode, depth, start, text, tokens, errors, outcome>>

-----------------------------------------------------------------------------
(***************************************************************************)
(* extractToken.                                                           *)
(***************************************************************************)
AtToken == NoComment /\ First \notin White
Token(kind, s, at) == [kind |-> kind, text |-> s, at |-> at]
Return(kind, s, at) == tokens' = Append(tokens, Token(kind, s, at))
Complain(kind, at)  == errors' = errors \union {<<kind, at>>}

\* Mutant: the end of the input is passed over like white space.
SkipEnd ==
  /\ AtToken /\ Eof(Primed)
  /\ reader' = Primed /\ start' = Here(reader) /\ mode' = IF start = start' THEN "blank" ELSE mode
  /\ UNCHANGED <<input, depth, text, tokens, errors, outcome>>

\* The parser may ask again, and is told the same: scanned is the second time.
EndOfInput ==
  /\ AtToken /\ Eof(Primed)
  /\ reader' = Primed /\ start' = Here(reader)
  /\ Return("end of input", <<>>, start')
  /\ outcome' = IF tokens # <<>> /\ tokens[Len(tokens)].kind = "end of input" THEN "scanned" ELSE outcome
  /\ UNCHANGED <<input, mode, depth, text, errors>>

StartsNumber == First \in Digit \/ (First = "-" /\ Peek(reader, 2) \in Digit)
Candidates == {i \in DOMAIN StaticTokens : PeekMatch(Primed, StaticTokens[i])}

StartWord ==
  /\ AtToken /\ ~Eof(Primed) /\ (StartsNumber \/ First \in Letter)
  /\ reader' = Skip(Primed) /\ start' = Here(reader) /\ text' = <<First>>
  /\ mode' = IF StartsNumber THEN "number" ELSE "word"
  /\ UNCHANGED <<input, depth, tokens, errors, outcome>>

StaticToken ==
  /\ AtToken /\ ~Eof(Primed) /\ ~StartsNumber
  /\ \E i \in Candidates :
       /\ \A j \in Candidates : i <= j
       /\ reader' = SkipOver(Primed, StaticTokens[i]) /\ start' = Here(reader)
       /\ Return("static", StaticTokens[i], start')
  /\ UNCHANGED <<input, mode, depth, text, errors, outcome>>

UnexpectedCharacter ==
  /\ AtToken /\ ~Eof(Primed) /\ ~StartsNumber /\ First \notin Letter /\ Candidates = {}
  /\ reader' = Skip(Primed) /\ start' = Here(reader)
  /\ Return("unexpected", <<First>>, start') /\ Complain("UnexpectedCharacter", start')
  /\ UNCHANGED <<input, mode, depth, text, outcome>>

InNumber == Digit \union {"."}
InWord   == Letter \union Digit
Grows    == First \in IF mode = "number" THEN InNumber ELSE InWord

GrowWord ==
  /\ In("number") \/ In("word")
  /\ Grows /\ ~Eof(Prime(reader, 1))
  /\ reader' = Skip(reader) /\ text' = Append(text, First)
  /\ UNCHANGED <<input, mode, depth, start, tokens, errors, outcome>>

EndWord ==
  /\ In("word") /\ (~Grows \/ Eof(Prime(reader, 1)))
  /\ reader' = Prime(reader, 1) /\ mode' = "blank"
  /\ Return(IF text \in Keywords THEN "keyword" ELSE "identifier", text, start)
  /\ UNCHANGED <<input, depth, start, text, errors, outcome>>

\* stoi and stof read as far as they can and fail for what is out of range.
Points(s) == {i \in DOMAIN s : s[i] = "."}
InRange(s) ==
  IF Points(s) = {} THEN Cardinality({i \in DOMAIN s : s[i] \in Digit}) <= IntDigits
  ELSE LET point == CHOOSE i \in Points(s) : \A j \in Points(s) : i <= j
       IN  Cardinality({i \in 1 .. point : s[i] \in Digit}) <= FloatDigits

\* An unexpected token has the character behind the number for its text.
EndNumber ==
  /\ In("number") /\ (~Grows \/ Eof(Prime(reader, 1)))
  /\ reader' = Prime(reader, 1) /\ mode' = "blank"
  /\ LET kind == IF Points(text) = {} THEN "int" ELSE "float"
     IN  IF InRange(text) THEN Return(kind, text, start) /\ UNCHANGED errors
         ELSE Return("unexpected", <<First>>, start) /\ Complain(kind, start)
  /\ UNCHANGED <<input, depth, start, text, outcome>>

Stopped == outcome # "scanning" /\ UNCHANGED vars

Blank == \/ StartLineComment \/ SkipInLineComment \/ EndLineComment \/ StartComment \/ InnerComment
         \/ EndComment \/ SkipInComment \/ UnterminatedComment \/ SkipWhite
Extract == EndOfInput \/ StartWord \/ StaticToken \/ UnexpectedCharacter \/ GrowWord \/ EndWord \/ EndNumber

Next == Blank \/ Extract \/ Stopped

Spec == Init /\ [][Next]_vars

\* One thread; what can be done is done.
FairSpec == Spec /\ WF_vars(Next)

-----------------------------------------------------------------------------
(***************************************************************************)
(* What the text means, in definitions over positions of the input, with   *)
(* no reader: where a comment ends, where a blank ends, how far a token    *)
(* reaches.                                                                *)
(***************************************************************************)
Length == Len(input)
At(i, s) == i + Len(s) - 1 <= Length /\ SubSeq(input, i, i + Len(s) - 1) = s

Location(i) ==
  LET breaks == {j \in 1 .. i - 1 : input[j] = NewLine}
      last   == IF breaks = {} THEN 0 ELSE CHOOSE j \in breaks : \A k \in breaks : k <= j
  IN  [line |-> 1 + Cardinality(breaks), column |-> i - last]

\* Behind the comment whose depth at i is d, or 0 when it is never closed.
CommentEnd[i \in 1 .. Length + 1] ==
  [d \in Nat |->
     IF d = 0 THEN i
     ELSE IF i > Length THEN 0
     ELSE IF At(i, OpenComment) THEN CommentEnd[i + 2][d + 1]
     ELSE IF At(i, CloseComment) THEN CommentEnd[i + 2][d - 1]
     ELSE CommentEnd[i + 1][d]]

LineEnd(i) ==
  LET breaks == {j \in i .. Length : input[j] = NewLine}
  IN  IF breaks = {} THEN Length + 1 ELSE 1 + CHOOSE j \in breaks : \A k \in breaks : j <= k

\* Behind the blank that begins at i, or <<0, where>> for an open comment.
Unclosed(i) == At(i, OpenComment) /\ CommentEnd[i + 2][1] = 0
BlankEnd[i \in 1 .. Length + 1] ==
  IF i > Length \/ Unclosed(i) THEN i
  ELSE IF At(i, <<"#">>) THEN BlankEnd[LineEnd(i)]
  ELSE IF At(i, OpenComment) THEN BlankEnd[CommentEnd[i + 2][1]]
  ELSE IF input[i] \in White THEN BlankEnd[i + 1]
  ELSE i

\* The longest run of characters of a set from i on.
RunEnd(i, set) == CHOOSE j \in i .. Length + 1 :
                    /\ \A k \in i .. j - 1 : input[k] \in set
                    /\ j <= Length => input[j] \notin set
Slice(i, j) == SubSeq(input, i, j - 1)

NumberAt(i) == At(i, <<"1">>) \/ At(i, <<"-", "1">>)
Statics(i)  == {k \in DOMAIN StaticTokens : At(i, StaticTokens[k])}
Longest(i)  == CHOOSE k \in Statics(i) : \A l \in Statics(i) : Len(StaticTokens[l]) <= Len(StaticTokens[k])

\* The end of the token at i.
TokenEnd(i) ==
  CASE NumberAt(i) -> RunEnd(i + 1, InNumber)
    [] input[i] \in Letter -> RunEnd(i, InWord)
    [] ~NumberAt(i) /\ Statics(i) # {} -> i + Len(StaticTokens[Longest(i)])
    [] OTHER -> i + 1

TokenAt(i) ==
  LET s == Slice(i, TokenEnd(i))
      Kind(k) == Token(k, s, Location(i))
  IN  CASE NumberAt(i) ->
             IF InRange(s) THEN Kind(IF Points(s) = {} THEN "int" ELSE "float")
             ELSE Token("unexpected", <<IF TokenEnd(i) <= Length THEN input[TokenEnd(i)] ELSE End>>, Location(i))
        [] input[i] \in Letter -> Kind(IF s \in Keywords THEN "keyword" ELSE "identifier")
        [] ~NumberAt(i) /\ Statics(i) # {} -> Kind("static")
        [] OTHER -> Kind("unexpected")

TokensFrom[i \in 1 .. Length + 1] ==
  LET b == BlankEnd[i]
  IN  IF b > Length \/ Unclosed(b) THEN <<>> ELSE <<TokenAt(b)>> \o TokensFrom[TokenEnd(b)]

\* Where the tokens stop: at the end, or at a comment that is not closed.
StopFrom[i \in 1 .. Length + 1] ==
  LET b == BlankEnd[i]
  IN  IF b > Length \/ Unclosed(b) THEN b ELSE StopFrom[TokenEnd(b)]

-----------------------------------------------------------------------------
(***************************************************************************)
(* Properties.                                                             *)
(***************************************************************************)
Char == {input[i] : i \in DOMAIN input}

\* The lookahead is never longer than the longest thing that is matched.
TypeOK ==
  /\ reader.pos \in 0 .. Length /\ reader.ended \in BOOLEAN /\ reader.line \in Nat /\ reader.column \in Nat
  /\ \A i \in DOMAIN reader.ahead : reader.ahead[i] \in Char \union {End}
  /\ Len(reader.ahead) <= 2
  /\ mode \in {"blank", "line comment", "comment", "number", "word"} /\ depth \in Nat
  /\ text \in Seq(Char) /\ outcome \in {"scanning", "scanned", "aborted"}

\* However far the reader has looked ahead, which is never further than two
\* characters (TypeOK), nothing that it has read is lost or read twice, and its
\* location is that of the next character that it returns.
LookaheadIsNext ==
  LET ahead == Cardinality({i \in DOMAIN reader.ahead : reader.ahead[i] # End})
  IN  /\ TypeOK
      /\ SubSeq(reader.ahead, 1, ahead) = SubSeq(input, reader.pos - ahead + 1, reader.pos)
      /\ ahead < Len(reader.ahead) => reader.pos = Length /\ reader.ended
      /\ reader.pos - ahead < Length => Here(reader) = Location(reader.pos - ahead + 1)

\* The tokens are those of the text, each at its place and as long as it can
\* be, whatever stands before it; comments nest and are left out, and one that is
\* never closed, and only such a one, is reported where it begins.
TokensAreRight ==
  LET right == TokensFrom[1]
      ends  == Len(tokens) - Len(right)
  IN  /\ \A i \in DOMAIN tokens : i <= Len(right) => tokens[i] = right[i]
      /\ ends > 0 => outcome # "aborted" /\ \A i \in DOMAIN tokens : i > Len(right) => tokens[i].kind = "end of input"
      /\ outcome = "scanned" => ends = 2 /\ StopFrom[1] > Length
      /\ outcome = "aborted" =>
           /\ StopFrom[1] <= Length /\ ends = 0
           /\ <<"UnexpectedEofInMultilineComment", Location(StopFrom[1])>> \in errors

\* Every text is scanned to its end.
EveryTextIsScanned == <>(outcome # "scanning")
=============================================================================
