-------------------------- MODULE LexicalScanProofs --------------------------
(***************************************************************************)
(* Proof, for every text, that the lookahead of SourceReader loses nothing *)
(* and repeats nothing, is never longer than two characters, and that the  *)
(* location is that of the next character; and that the tokens that the    *)
(* lexer returns are those of the text.                                    *)
(***************************************************************************)
EXTENDS LexicalScan, SequenceLemmas, FiniteSetTheorems, SequenceTheorems, TLAPS

-----------------------------------------------------------------------------
(***************************************************************************)
(* The inductive invariant: of the text, c characters were consumed, and   *)
(* the lookahead holds the next ones and then ends of the stream.          *)
(***************************************************************************)
Reader == [pos : Nat, ended : BOOLEAN, ahead : Seq(Char \union {End}), line : Nat, column : Nat]

CharAt(i) == IF i <= Length THEN input[i] ELSE End

\* The line breaks among the first c characters, and the last of them.
Breaks(c) == {j \in 1 .. c : input[j] = NewLine}
LastBreak(c, b) ==
  /\ b \in 0 .. c
  /\ b # 0 => b \in Breaks(c)
  /\ \A j \in Breaks(c) : j <= b

IsAt(r, c) ==
  /\ r.line = 1 + Cardinality(Breaks(c))
  /\ \E b \in 0 .. c : LastBreak(c, b) /\ r.column = c + 1 - b

Follows(r, c) ==
  /\ c \in 0 .. Length
  /\ \A i \in DOMAIN r.ahead : r.ahead[i] = CharAt(c + i)
  /\ r.pos = IF c + Len(r.ahead) <= Length THEN c + Len(r.ahead) ELSE Length
  /\ c + Len(r.ahead) > Length => r.ended
  /\ c < Length => IsAt(r, c)

Short(r)      == r \in Reader /\ Len(r.ahead) <= 2
Consistent(r) == Short(r) /\ \E c \in 0 .. Length : Follows(r, c)

LexInv ==
  /\ input \in Inputs /\ Consistent(reader)
  /\ mode \in {"blank", "line comment", "comment", "number", "word"} /\ depth \in Nat
  /\ mode = "comment" => depth >= 1
  /\ text \in Seq(Char) /\ outcome \in {"scanning", "scanned", "aborted"}

-----------------------------------------------------------------------------
(***************************************************************************)
(* The text and its locations.                                             *)
(***************************************************************************)
\* A text is a sequence of characters, none of which is the end of the stream.
LEMMA InputType ==
  ASSUME input \in Inputs
  PROVE  /\ Length \in Nat /\ DOMAIN input = 1 .. Length /\ input \in Seq(Char)
         /\ \A i \in 1 .. Length : input[i] \in Char /\ input[i] # End
         /\ End \notin Char
<1>1. input \in Seq(STRING) /\ \A i \in DOMAIN input : input[i] # End
  BY InputsAssumption
<1>2. Length \in Nat /\ DOMAIN input = 1 .. Length
  BY <1>1 DEF Length
<1>3. \A i \in 1 .. Length : input[i] \in Char /\ input[i] # End
  BY <1>1, <1>2 DEF Char
<1>4. End \notin Char
  BY <1>1 DEF Char
<1>5. input \in Seq(Char)
  BY <1>1, <1>3, <1>2 DEF Length
<1>. QED  BY <1>2, <1>3, <1>4, <1>5

\* The line breaks before a character, and the number of its line.
LEMMA BreaksType ==
  ASSUME NEW c \in Nat
  PROVE  /\ IsFiniteSet(Breaks(c)) /\ Cardinality(Breaks(c)) \in Nat
         /\ Breaks(c) \subseteq 1 .. c
         /\ Breaks(c + 1) = IF input[c + 1] = NewLine THEN Breaks(c) \union {c + 1} ELSE Breaks(c)
         /\ Cardinality(Breaks(c + 1)) =
              IF input[c + 1] = NewLine THEN Cardinality(Breaks(c)) + 1 ELSE Cardinality(Breaks(c))
<1>1. Breaks(c) \subseteq 1 .. c
  BY DEF Breaks
<1>2. IsFiniteSet(1 .. c)
  BY FS_Interval
<1>3. IsFiniteSet(Breaks(c)) /\ Cardinality(Breaks(c)) \in Nat
  BY <1>1, <1>2, FS_Subset, FS_CardinalityType
<1>4. Breaks(c + 1) = IF input[c + 1] = NewLine THEN Breaks(c) \union {c + 1} ELSE Breaks(c)
  BY DEF Breaks
<1>5. c + 1 \notin Breaks(c)
  BY <1>1
<1>6. Cardinality(Breaks(c) \union {c + 1}) = Cardinality(Breaks(c)) + 1
  BY <1>3, <1>5, FS_AddElement
<1>. QED  BY <1>1, <1>3, <1>4, <1>6

\* The lookahead is at the location that Location gives.
LEMMA LocationIs ==
  ASSUME NEW r \in Reader, NEW c \in Nat, IsAt(r, c)
  PROVE  Here(r) = Location(c + 1)
<1>1. PICK b \in 0 .. c : LastBreak(c, b) /\ r.column = c + 1 - b
  BY DEF IsAt
<1>2. {j \in 1 .. (c + 1) - 1 : input[j] = NewLine} = Breaks(c)
  BY DEF Breaks
<1>. DEFINE last == IF Breaks(c) = {} THEN 0 ELSE CHOOSE j \in Breaks(c) : \A k \in Breaks(c) : k <= j
<1>3. last = b
  <2>1. CASE b = 0
    <3>1. \A j \in Breaks(c) : j <= 0 /\ j \in 1 .. c
      BY <1>1, <2>1, BreaksType DEF LastBreak
    <3>2. Breaks(c) = {}
      BY <3>1
    <3>. QED  BY <2>1, <3>2
  <2>2. CASE b # 0
    <3>1. b \in Breaks(c) /\ \A j \in Breaks(c) : j <= b
      BY <1>1, <2>2 DEF LastBreak
    <3>2. \A j \in Breaks(c) : j \in Int
      BY DEF Breaks
    <3>3. ASSUME NEW j \in Breaks(c), \A k \in Breaks(c) : k <= j
          PROVE  j = b
      <4>1. b <= j /\ j <= b /\ j \in Int /\ b \in Int
        BY <3>1, <3>2, <3>3
      <4>. QED  BY <4>1
    <3>. QED  BY <3>1, <3>3
  <2>. QED  BY <2>1, <2>2
<1>4. Location(c + 1) = [line |-> 1 + Cardinality(Breaks(c)), column |-> (c + 1) - last]
  <2>. DEFINE before == {j \in 1 .. (c + 1) - 1 : input[j] = NewLine}
              at(S) == [line   |-> 1 + Cardinality(S),
                        column |-> (c + 1) - (IF S = {} THEN 0 ELSE CHOOSE j \in S : \A k \in S : k <= j)]
  <2>1. Location(c + 1) = at(before)
    BY DEF Location
  <2>2. at(Breaks(c)) = [line |-> 1 + Cardinality(Breaks(c)), column |-> (c + 1) - last]
    OBVIOUS
  <2>3. before = Breaks(c)
    BY <1>2
  <2>. HIDE DEF at, before, last
  <2>. QED  BY <2>1, <2>2, <2>3
<1>5. r.line = 1 + Cardinality(Breaks(c)) /\ r.column = (c + 1) - last
  <2>. HIDE DEF last
  <2>. QED  BY <1>1, <1>3 DEF IsAt
<1>. HIDE DEF last
<1>. QED  BY <1>4, <1>5 DEF Here

\* Reading a character moves the location over it.
LEMMA NextIsAt ==
  ASSUME NEW r \in Reader, NEW q \in Reader, NEW c \in Nat, IsAt(r, c),
         IF input[c + 1] = NewLine THEN q.line = r.line + 1 /\ q.column = 1
                                   ELSE q.line = r.line /\ q.column = r.column + 1
  PROVE  IsAt(q, c + 1)
<1>1. PICK b \in 0 .. c : LastBreak(c, b) /\ r.column = c + 1 - b
  BY DEF IsAt
<1>2. CASE input[c + 1] = NewLine
  <2>1. Breaks(c + 1) = Breaks(c) \union {c + 1} /\ Breaks(c) \subseteq 1 .. c
        /\ Cardinality(Breaks(c + 1)) = Cardinality(Breaks(c)) + 1 /\ Cardinality(Breaks(c)) \in Nat
    BY <1>2, BreaksType
  <2>2. LastBreak(c + 1, c + 1)
    BY <2>1 DEF LastBreak
  <2>3. q.line = 1 + Cardinality(Breaks(c + 1))
    BY <1>2, <2>1 DEF IsAt
  <2>4. c + 1 \in 0 .. c + 1 /\ q.column = (c + 1) + 1 - (c + 1)
    BY <1>2
  <2>. QED  BY <2>2, <2>3, <2>4 DEF IsAt
<1>3. CASE input[c + 1] # NewLine
  <2>1. Breaks(c + 1) = Breaks(c) /\ Cardinality(Breaks(c + 1)) = Cardinality(Breaks(c))
    BY <1>3, BreaksType
  <2>2. b \in 0 .. c + 1 /\ LastBreak(c + 1, b)
    BY <1>1, <2>1 DEF LastBreak
  <2>3. q.column = (c + 1) + 1 - b
    BY <1>1, <1>3
  <2>. QED  BY <1>3, <2>1, <2>2, <2>3 DEF IsAt
<1>. QED  BY <1>2, <1>3

-----------------------------------------------------------------------------
(***************************************************************************)
(* What the reader's operations keep.                                      *)
(***************************************************************************)
\* Prime, with its record written out.
LEMMA PrimeIs ==
  \A r, n : LET more == IF n > Len(r.ahead) THEN n - Len(r.ahead) ELSE 0
            IN  Prime(r, n) =
                  [r EXCEPT !.ahead = r.ahead \o [i \in 1 .. more |->
                                                   IF r.pos + i <= Length THEN input[r.pos + i] ELSE End],
                            !.pos = IF r.pos + more <= Length THEN r.pos + more ELSE Length,
                            !.ended = r.ended \/ r.pos + more > Length]
  BY Zenon DEF Prime, Length

\* Looking ahead adds the characters that are missing, and ends of the stream.
LEMMA PrimeFollows ==
  ASSUME input \in Inputs, NEW r, Short(r), NEW n \in {1, 2}, NEW c, Follows(r, c)
  PROVE  /\ Short(Prime(r, n)) /\ Follows(Prime(r, n), c)
         /\ Len(Prime(r, n).ahead) >= n
<1>. DEFINE size == Len(r.ahead)
            more == IF n > size THEN n - size ELSE 0
            added == [i \in 1 .. more |-> IF r.pos + i <= Length THEN input[r.pos + i] ELSE End]
            p == Prime(r, n)
<1>1. /\ r \in Reader /\ r.ahead \in Seq(Char \union {End}) /\ size \in 0 .. 2 /\ more \in 0 .. 2
      /\ size + more \in 0 .. 2 /\ size + more >= n
  <2>1. r \in Reader /\ size <= 2
    BY DEF Short
  <2>2. r.ahead \in Seq(Char \union {End}) /\ size \in Nat
    BY <2>1 DEF Reader
  <2>. HIDE DEF size
  <2>. QED  BY <2>1, <2>2
<1>2. /\ Length \in Nat /\ \A i \in 1 .. Length : input[i] \in Char
  BY InputType
<1>3. /\ c \in 0 .. Length
      /\ r.pos = IF c + size <= Length THEN c + size ELSE Length
      /\ \A i \in DOMAIN r.ahead : r.ahead[i] = CharAt(c + i)
      /\ c + size > Length => r.ended
      /\ c < Length => IsAt(r, c)
  BY DEF Follows
<1>4. /\ p = [r EXCEPT !.ahead = r.ahead \o added,
                       !.pos = IF r.pos + more <= Length THEN r.pos + more ELSE Length,
                       !.ended = r.ended \/ r.pos + more > Length]
  BY PrimeIs, Zenon
<1>5. added \in Seq(Char \union {End}) /\ Len(added) = more
  <2>1. \A i \in 1 .. more : (IF r.pos + i <= Length THEN input[r.pos + i] ELSE End) \in Char \union {End}
    BY <1>1, <1>2, <1>3
  <2>. HIDE DEF more
  <2>. QED  BY <1>1, <2>1
<1>6. \A i \in 1 .. more : added[i] = CharAt(c + (size + i))
  BY <1>1, <1>2, <1>3 DEF CharAt
<1>. HIDE DEF more, size, added, p
<1>7. /\ r.ahead \o added \in Seq(Char \union {End}) /\ Len(r.ahead \o added) = size + more
      /\ \A i \in 1 .. size + more : (r.ahead \o added)[i] = IF i <= size THEN r.ahead[i] ELSE added[i - size]
  BY <1>1, <1>5, ConcatProperties DEF size
<1>8. /\ p \in Reader /\ p.ahead = r.ahead \o added
      /\ p.pos = IF r.pos + more <= Length THEN r.pos + more ELSE Length
      /\ p.ended = (r.ended \/ r.pos + more > Length)
      /\ p.line = r.line /\ p.column = r.column
  <2>1. /\ r.ahead \o added \in Seq(Char \union {End})
        /\ (IF r.pos + more <= Length THEN r.pos + more ELSE Length) \in Nat
        /\ (r.ended \/ r.pos + more > Length) \in BOOLEAN
    BY <1>1, <1>2, <1>3, <1>7 DEF Reader
  <2>. QED  BY <1>1, <1>4, <2>1 DEF Reader
<1>9. Len(p.ahead) = size + more /\ DOMAIN p.ahead = 1 .. size + more
  BY <1>7, <1>8
<1>10. \A i \in DOMAIN p.ahead : p.ahead[i] = CharAt(c + i)
  <2>1. ASSUME NEW i \in 1 .. size + more
        PROVE  p.ahead[i] = CharAt(c + i)
    <3>1. CASE i <= size
      BY <1>1, <1>3, <1>7, <1>8, <3>1 DEF size
    <3>2. CASE ~(i <= size)
      <4>1. i - size \in 1 .. more /\ size + (i - size) = i
        BY <1>1, <3>2
      <4>. QED  BY <1>6, <1>7, <1>8, <3>2, <4>1
    <3>. QED  BY <3>1, <3>2
  <2>. QED  BY <1>9, <2>1
<1>11. /\ p.pos = IF c + (size + more) <= Length THEN c + (size + more) ELSE Length
       /\ c + (size + more) > Length => p.ended
  <2>1. /\ c \in Nat /\ size \in Nat /\ more \in Nat /\ c <= Length /\ Length \in Nat
    BY <1>1, <1>2, <1>3
  <2>ended. (r.ended => p.ended) /\ (r.pos + more > Length => p.ended)
    BY <1>8, Zenon
  <2>2. CASE c + size <= Length
    <3>1. r.pos = c + size /\ r.pos + more = c + (size + more)
      BY <1>3, <2>1, <2>2
    <3>. QED  BY <1>8, <2>ended, <3>1
  <2>3. CASE c + size > Length
    <3>1. r.pos = Length /\ r.ended
      BY <1>3, <2>1, <2>3
    <3>2. more = 0 \/ Length + more > Length
      BY <2>1
    <3>3. p.pos = Length
      BY <1>8, <2>1, <3>1, <3>2
    <3>4. p.ended
      BY <2>ended, <3>1
    <3>. QED  BY <2>1, <2>3, <3>3, <3>4
  <2>. QED  BY <2>1, <2>2, <2>3
<1>12. c < Length => IsAt(p, c)
  BY <1>3, <1>8 DEF IsAt
<1>13. Short(p) /\ Len(p.ahead) >= n
  BY <1>1, <1>8, <1>9 DEF Short
<1>14. Follows(p, c)
  <2>1. /\ p.pos = IF c + Len(p.ahead) <= Length THEN c + Len(p.ahead) ELSE Length
        /\ c + Len(p.ahead) > Length => p.ended
    BY <1>9, <1>11
  <2>. QED  BY <1>3, <1>10, <1>12, <2>1 DEF Follows
<1>. QED  BY <1>13, <1>14 DEF p

\* Skip, with its records written out.
LEMMA SkipIs ==
  \A r : LET p == Prime(r, 1)
         IN  Skip(r) = IF Head(p.ahead) = NewLine
                       THEN [p EXCEPT !.ahead = Tail(p.ahead), !.line = p.line + 1, !.column = 1]
                       ELSE [p EXCEPT !.ahead = Tail(p.ahead), !.column = p.column + 1]
  BY Zenon DEF Skip

\* A reader with another lookahead and another location.
Moved(p, rest, l, k) == [p EXCEPT !.ahead = rest, !.line = l, !.column = k]

\* It is a reader, and has what was given to it.
LEMMA ReaderWith ==
  \A p \in Reader, rest \in Seq(Char \union {End}), l \in Nat, k \in Nat : Moved(p, rest, l, k) \in Reader
<1>. DEFINE S == Seq(Char \union {End})
            R == [pos : Nat, ended : BOOLEAN, ahead : S, line : Nat, column : Nat]
<1>. SUFFICES ASSUME NEW p \in R, NEW rest \in S, NEW l \in Nat, NEW k \in Nat
              PROVE  Moved(p, rest, l, k) \in R
  BY Zenon DEF Reader
<1>. HIDE DEF S
<1>. QED  BY DEF Moved

\* Returning a character goes on to the next one, or stays at the end.
LEMMA SkipFollows ==
  ASSUME input \in Inputs, NEW r, Short(r), NEW c, Follows(r, c)
  PROVE  Short(Skip(r)) /\ Follows(Skip(r), IF c < Length THEN c + 1 ELSE c)
<1>. DEFINE p == Prime(r, 1)
            size == Len(p.ahead)
            q == Skip(r)
<1>1. Short(p) /\ Follows(p, c) /\ size >= 1
  BY PrimeFollows
<1>2. q = IF Head(p.ahead) = NewLine
          THEN [p EXCEPT !.ahead = Tail(p.ahead), !.line = p.line + 1, !.column = 1]
          ELSE [p EXCEPT !.ahead = Tail(p.ahead), !.column = p.column + 1]
  BY SkipIs, Zenon
<1>. HIDE DEF p, q
<1>3. /\ p \in Reader /\ p.ahead \in Seq(Char \union {End}) /\ p.ahead # <<>>
      /\ size \in 1 .. 2 /\ DOMAIN p.ahead = 1 .. size
  <2>1. p \in Reader /\ size <= 2
    BY <1>1 DEF Short
  <2>2. p.ahead \in Seq(Char \union {End})
    BY <2>1 DEF Reader
  <2>3. size \in Nat /\ DOMAIN p.ahead = 1 .. size /\ p.ahead # <<>>
    BY <1>1, <2>2, LenProperties, EmptySeq
  <2>. HIDE DEF size
  <2>. QED  BY <1>1, <2>1, <2>2, <2>3
<1>4. /\ Tail(p.ahead) \in Seq(Char \union {End}) /\ Len(Tail(p.ahead)) = size - 1
      /\ \A i \in 1 .. size - 1 : Tail(p.ahead)[i] = p.ahead[i + 1]
      /\ Head(p.ahead) = p.ahead[1]
  BY <1>3, HeadTailProperties
<1>5. /\ q \in Reader /\ q.ahead = Tail(p.ahead) /\ q.pos = p.pos /\ q.ended = p.ended
      /\ IF p.ahead[1] = NewLine THEN q.line = p.line + 1 /\ q.column = 1
                                 ELSE q.line = p.line /\ q.column = p.column + 1
  <2>. DEFINE rest == Tail(p.ahead)
  <2>0. rest \in Seq(Char \union {End}) /\ rest = Tail(p.ahead)
    BY <1>4
  <2>. HIDE DEF rest
  <2>p. p \in Reader /\ p.line \in Nat /\ p.column \in Nat /\ p.line + 1 \in Nat /\ p.column + 1 \in Nat /\ 1 \in Nat
    BY <1>3 DEF Reader
  <2>f. \A l, k : /\ Moved(p, rest, l, k).ahead = rest
                  /\ Moved(p, rest, l, k).pos = p.pos /\ Moved(p, rest, l, k).ended = p.ended
                  /\ Moved(p, rest, l, k).line = l /\ Moved(p, rest, l, k).column = k
    BY <2>p DEF Moved, Reader
  <2>1. CASE p.ahead[1] = NewLine
    <3>1. q = Moved(p, rest, p.line + 1, 1)
      BY <1>2, <1>4, <2>0, <2>1 DEF Moved
    <3>2. Moved(p, rest, p.line + 1, 1) \in Reader
      BY <2>0, <2>p, ReaderWith, Zenon
    <3>. QED  BY <2>0, <2>1, <2>f, <3>1, <3>2
  <2>2. CASE p.ahead[1] # NewLine
    <3>1. q = [p EXCEPT !.ahead = rest, !.column = p.column + 1]
      BY <1>2, <1>4, <2>0, <2>2
    <3>2. q = Moved(p, rest, p.line, p.column + 1)
      BY <2>p, <3>1 DEF Reader, Moved
    <3>3. Moved(p, rest, p.line, p.column + 1) \in Reader
      BY <2>0, <2>p, ReaderWith, Zenon
    <3>. QED  BY <2>0, <2>2, <2>f, <3>2, <3>3
  <2>. QED  BY <2>1, <2>2
<1>6. /\ c \in 0 .. Length /\ Length \in Nat
      /\ \A i \in 1 .. size : p.ahead[i] = CharAt(c + i)
      /\ p.pos = IF c + size <= Length THEN c + size ELSE Length
      /\ c + size > Length => p.ended
      /\ c < Length => IsAt(p, c)
  BY <1>1, <1>3, InputType DEF Follows
<1>. HIDE DEF size
<1>7. Short(q) /\ Len(q.ahead) = size - 1 /\ DOMAIN q.ahead = 1 .. size - 1
  BY <1>3, <1>4, <1>5 DEF Short
<1>8. CASE c < Length
  <2>1. c + 1 \in 0 .. Length
    BY <1>6, <1>8
  <2>2. \A i \in DOMAIN q.ahead : q.ahead[i] = CharAt((c + 1) + i)
    <3>1. ASSUME NEW i \in 1 .. size - 1
          PROVE  q.ahead[i] = CharAt((c + 1) + i)
      <4>1. i + 1 \in 1 .. size /\ c + (i + 1) = (c + 1) + i
        BY <1>3, <1>6
      <4>. QED  BY <1>4, <1>5, <1>6, <4>1
    <3>. QED  BY <1>7, <3>1
  <2>3. (c + 1) + Len(q.ahead) = c + size
    BY <1>3, <1>6, <1>7
  <2>4. IsAt(q, c + 1)
    <3>1. c \in Nat /\ p.ahead[1] = input[c + 1]
      BY <1>3, <1>6, <1>8 DEF CharAt
    <3>. QED  BY <1>3, <1>5, <1>6, <1>8, <3>1, NextIsAt
  <2>. QED  BY <1>5, <1>6, <1>7, <1>8, <2>1, <2>2, <2>3, <2>4 DEF Follows, q
<1>9. CASE ~(c < Length)
  <2>1. c = Length
    BY <1>6, <1>9
  <2>2. \A i \in DOMAIN q.ahead : q.ahead[i] = CharAt(c + i)
    <3>1. ASSUME NEW i \in 1 .. size - 1
          PROVE  q.ahead[i] = CharAt(c + i)
      <4>1. i + 1 \in 1 .. size /\ ~(c + (i + 1) <= Length) /\ ~(c + i <= Length)
        BY <1>3, <1>6, <2>1
      <4>. QED  BY <1>4, <1>5, <1>6, <4>1 DEF CharAt
    <3>. QED  BY <1>7, <3>1
  <2>3. q.pos = IF c + Len(q.ahead) <= Length THEN c + Len(q.ahead) ELSE Length
    BY <1>3, <1>5, <1>6, <1>7, <2>1
  <2>4. q.ended
    <3>1. c + size > Length
      BY <1>3, <1>6, <2>1
    <3>. QED  BY <1>5, <1>6, <3>1
  <2>. QED  BY <1>6, <1>7, <1>9, <2>2, <2>3, <2>4 DEF Follows, q
<1>. QED  BY <1>8, <1>9

-----------------------------------------------------------------------------
(***************************************************************************)
(* Every operation of the reader keeps it consistent with the text.        *)
(***************************************************************************)

\* Looking ahead by one or by two characters, and returning one.
LEMMA ReadingIsConsistent ==
  ASSUME input \in Inputs
  PROVE  \A r : Consistent(r) =>
           /\ Consistent(Prime(r, 1)) /\ Len(Prime(r, 1).ahead) >= 1
           /\ Consistent(Prime(r, 2)) /\ Consistent(Skip(r))
<1>. SUFFICES ASSUME NEW r, Consistent(r)
              PROVE  /\ Consistent(Prime(r, 1)) /\ Len(Prime(r, 1).ahead) >= 1
                     /\ Consistent(Prime(r, 2)) /\ Consistent(Skip(r))
  OBVIOUS
<1>1. PICK c \in 0 .. Length : Short(r) /\ Follows(r, c)
  BY DEF Consistent
<1>2. Short(Prime(r, 1)) /\ Follows(Prime(r, 1), c) /\ Len(Prime(r, 1).ahead) >= 1
  BY <1>1, PrimeFollows
<1>3. Short(Prime(r, 2)) /\ Follows(Prime(r, 2), c)
  BY <1>1, PrimeFollows
<1>4. Short(Skip(r)) /\ Follows(Skip(r), IF c < Length THEN c + 1 ELSE c)
  BY <1>1, SkipFollows
<1>5. (IF c < Length THEN c + 1 ELSE c) \in 0 .. Length
  BY InputType
<1>. QED  BY <1>2, <1>3, <1>4, <1>5, Zenon DEF Consistent

\* Passing over a text that was matched.
LEMMA SkipOverIsConsistent ==
  ASSUME input \in Inputs
  PROVE  \A r, s : Consistent(r) => Consistent(SkipOver(r, s))
BY ReadingIsConsistent, Zenon DEF SkipOver

\* A character of a token is a character of the text.
LEMMA FirstIsChar ==
  ASSUME input \in Inputs, Consistent(reader),
         First \in Digit \union Letter \union {"-", "."}
  PROVE  First \in Char
<1>1. Consistent(Prime(reader, 1)) /\ Len(Prime(reader, 1).ahead) >= 1
  BY ReadingIsConsistent
<1>2. Prime(reader, 1).ahead \in Seq(Char \union {End})
  BY <1>1 DEF Consistent, Short, Reader
<1>3. Prime(reader, 1).ahead[1] \in Char \union {End}
  BY <1>1, <1>2, LenProperties
<1>4. First # End
  BY DEF Digit, Letter, End
<1>. QED  BY <1>3, <1>4 DEF First, Peek

-----------------------------------------------------------------------------
(***************************************************************************)
(* The invariant is inductive.                                             *)
(***************************************************************************)

\* In the beginning nothing was read.
LEMMA ReaderBegins ==
  ASSUME Init
  PROVE  /\ Length \in Nat /\ reader \in Reader /\ Len(reader.ahead) = 0 /\ ~reader.ended
         /\ Follows(reader, 0)
<1>1. input \in Inputs /\ reader = [pos |-> 0, ended |-> FALSE, ahead |-> <<>>, line |-> 1, column |-> 1]
  BY DEF Init
<1>2. Length \in Nat
  BY <1>1, InputType
<1>3. reader \in Reader /\ Len(reader.ahead) = 0 /\ DOMAIN reader.ahead = {}
  BY <1>1 DEF Reader
<1>4. IsAt(reader, 0)
  <2>1. Breaks(0) = {}
    BY DEF Breaks
  <2>2. Cardinality(Breaks(0)) = 0
    BY <2>1, FS_EmptySet
  <2>3. LastBreak(0, 0)
    BY <2>1 DEF LastBreak
  <2>. QED  BY <1>1, <2>2, <2>3 DEF IsAt
<1>5. Follows(reader, 0)
  BY <1>1, <1>2, <1>3, <1>4 DEF Follows
<1>. QED  BY <1>1, <1>2, <1>3, <1>5

\* Nothing was read and nothing was looked ahead at.
LEMMA LexInit == Init => LexInv
<1>. SUFFICES ASSUME Init
              PROVE  LexInv
  OBVIOUS
<1>1. Consistent(reader)
  <2>1. 0 \in 0 .. Length
    BY ReaderBegins
  <2>. QED  BY <2>1, ReaderBegins DEF Consistent, Short
<1>. QED  BY <1>1 DEF Init, LexInv

\* A step returns characters, looks ahead, or does neither.
LEMMA LexNext == LexInv /\ [Next]_vars => LexInv'
<1>. SUFFICES ASSUME LexInv, [Next]_vars
              PROVE  LexInv'
  OBVIOUS
<1>1. /\ input \in Inputs /\ Consistent(reader)
      /\ Consistent(Skip(reader)) /\ Consistent(Prime(reader, 1)) /\ Consistent(Primed)
      /\ Consistent(Skip(Primed))
      /\ \A s : Consistent(SkipOver(reader, s)) /\ Consistent(SkipOver(Primed, s))
  BY ReadingIsConsistent, SkipOverIsConsistent, Zenon DEF LexInv, Primed
<1>2. /\ mode \in {"blank", "line comment", "comment", "number", "word"} /\ depth \in Nat
      /\ mode = "comment" => depth >= 1
      /\ text \in Seq(Char) /\ outcome \in {"scanning", "scanned", "aborted"}
  BY DEF LexInv
<1>3. ASSUME input' = input, Consistent(reader')
      PROVE  Consistent(reader)' /\ Char' = Char
  <2>1. Length' = Length /\ Char' = Char
    BY <1>3, Zenon DEF Length, Char
  <2>2. Reader' = Reader
    BY <2>1, Zenon DEF Reader
  <2>3. Short(reader') => Short(reader)'
    BY <2>2, Zenon DEF Short
  <2>4. ASSUME NEW c, Follows(reader', c)
        PROVE  Follows(reader, c)'
    <3>1. (\A i : CharAt(i)' = CharAt(i)) /\ Breaks(c)' = Breaks(c)
      BY <1>3, <2>1, Zenon DEF CharAt, Breaks
    <3>2. \A b : LastBreak(c, b)' <=> LastBreak(c, b)
      BY <3>1, Zenon DEF LastBreak
    <3>3. IsAt(reader', c) <=> IsAt(reader, c)'
      BY <3>1, <3>2, Zenon DEF IsAt
    <3>. QED  BY <2>1, <2>4, <3>1, <3>3, Zenon DEF Follows
  <2>. QED  BY <1>3, <2>1, <2>3, <2>4, Zenon DEF Consistent
<1>4. CASE Blank
  <2>1. CASE StartLineComment
    BY <1>1, <1>2, <1>3, <2>1 DEF StartLineComment, LexInv
  <2>2. CASE SkipInLineComment
    BY <1>1, <1>2, <1>3, <2>2 DEF SkipInLineComment, LexInv
  <2>3. CASE EndLineComment
    BY <1>1, <1>2, <1>3, <2>3 DEF EndLineComment, LexInv
  <2>4. CASE StartComment
    <3>1. /\ input' = input /\ Consistent(reader') /\ mode' = "comment" /\ depth' \in Nat /\ depth' >= 1
          /\ text' = text /\ outcome' = outcome
      BY <1>1, <2>4 DEF StartComment
    <3>. QED  BY <1>1, <1>2, <1>3, <3>1 DEF LexInv
  <2>5. CASE InnerComment
    <3>1. /\ input' = input /\ Consistent(reader') /\ mode' = mode /\ depth' \in Nat /\ depth' >= 1
          /\ text' = text /\ outcome' = outcome
      <4>0. depth \in Nat
        BY <1>2
      <4>1. depth \in Nat /\ depth + 1 \in Nat /\ depth + 1 >= 1
        BY <4>0
      <4>2. depth' = depth + 1
        BY <2>5 DEF InnerComment
      <4>3. input' = input /\ Consistent(reader') /\ mode' = mode /\ text' = text /\ outcome' = outcome
        BY <1>1, <2>5, Zenon DEF InnerComment
      <4>. QED  BY <4>1, <4>2, <4>3
    <3>. QED  BY <1>1, <1>2, <1>3, <3>1 DEF LexInv
  <2>6. CASE EndComment
    BY <1>1, <1>2, <1>3, <2>6 DEF EndComment, InComment, In, LexInv
  <2>7. CASE SkipInComment
    BY <1>1, <1>2, <1>3, <2>7 DEF SkipInComment, Primed, LexInv
  <2>8. CASE UnterminatedComment
    BY <1>1, <1>2, <1>3, <2>8 DEF UnterminatedComment, LexInv
  <2>9. CASE SkipWhite
    BY <1>1, <1>2, <1>3, <2>9 DEF SkipWhite, LexInv
  <2>. QED  BY <1>4, <2>1, <2>2, <2>3, <2>4, <2>5, <2>6, <2>7, <2>8, <2>9 DEF Blank
<1>5. CASE Extract
  <2>1. CASE EndOfInput
    BY <1>1, <1>2, <1>3, <2>1 DEF EndOfInput, LexInv
  <2>2. CASE StartWord
    <3>1. First \in Char
      BY <1>1, <2>2, FirstIsChar DEF StartWord, StartsNumber
    <3>2. <<First>> \in Seq(Char)
      BY <3>1
    <3>. QED  BY <1>1, <1>2, <1>3, <2>2, <3>2 DEF StartWord, LexInv
  <2>3. CASE StaticToken
    BY <1>1, <1>2, <1>3, <2>3 DEF StaticToken, LexInv
  <2>4. CASE UnexpectedCharacter
    BY <1>1, <1>2, <1>3, <2>4 DEF UnexpectedCharacter, LexInv
  <2>5. CASE GrowWord
    <3>1. First \in Char
      BY <1>1, <2>5, FirstIsChar DEF GrowWord, Grows, InNumber, InWord
    <3>2. Append(text, First) \in Seq(Char)
      <4>1. text \in Seq(Char)
        BY <1>2
      <4>. QED  BY <3>1, <4>1, AppendProperties
    <3>. QED  BY <1>1, <1>2, <1>3, <2>5, <3>2 DEF GrowWord, LexInv
  <2>6. CASE EndWord
    BY <1>1, <1>2, <1>3, <2>6 DEF EndWord, LexInv
  <2>7. CASE EndNumber
    BY <1>1, <1>2, <1>3, <2>7 DEF EndNumber, LexInv
  <2>. QED  BY <1>5, <2>1, <2>2, <2>3, <2>4, <2>5, <2>6, <2>7 DEF Extract
<1>6. CASE UNCHANGED vars
  BY <1>1, <1>2, <1>3, <1>6 DEF vars, LexInv
<1>. QED  BY <1>4, <1>5, <1>6 DEF Next, Stopped

\* What was looked ahead at lies between the characters that were returned and
\* the place that was read up to.
LEMMA InvImpliesLookahead == LexInv => LookaheadIsNext
<1>. SUFFICES ASSUME LexInv
              PROVE  LookaheadIsNext
  OBVIOUS
<1>. DEFINE size == Len(reader.ahead)
            ahead == Cardinality({i \in DOMAIN reader.ahead : reader.ahead[i] # End})
<1>1. PICK c \in 0 .. Length : Short(reader) /\ Follows(reader, c)
  BY DEF LexInv, Consistent
<1>2. /\ Length \in Nat /\ \A i \in 1 .. Length : input[i] \in Char /\ input[i] # End
      /\ input \in Seq(Char) /\ DOMAIN input = 1 .. Length
  BY InputType DEF LexInv
<1>3. /\ reader \in Reader /\ reader.ahead \in Seq(Char \union {End})
      /\ size \in 0 .. 2 /\ DOMAIN reader.ahead = 1 .. size
  <2>1. reader \in Reader /\ size <= 2
    BY <1>1 DEF Short
  <2>2. reader.ahead \in Seq(Char \union {End})
    BY <2>1 DEF Reader
  <2>3. size \in Nat /\ DOMAIN reader.ahead = 1 .. size
    BY <2>2, LenProperties
  <2>. HIDE DEF size
  <2>. QED  BY <2>1, <2>2, <2>3
<1>4. /\ \A i \in 1 .. size : reader.ahead[i] = CharAt(c + i)
      /\ reader.pos = IF c + size <= Length THEN c + size ELSE Length
      /\ c + size > Length => reader.ended
      /\ c < Length => IsAt(reader, c)
  BY <1>1, <1>3 DEF Follows
<1>. DEFINE k == IF c + size <= Length THEN size ELSE Length - c
<1>5. k \in 0 .. size /\ c + k = reader.pos /\ k \in Nat /\ (k < size => reader.pos = Length /\ reader.ended)
  <2>. HIDE DEF size
  <2>. QED  BY <1>2, <1>3, <1>4
<1>6. \A i \in 1 .. size : i <= k <=> c + i <= Length
  <2>. HIDE DEF size
  <2>. QED  BY <1>2, <1>3
<1>. HIDE DEF size, k
<1>7. {i \in DOMAIN reader.ahead : reader.ahead[i] # End} = 1 .. k
  <2>1. \A i \in 1 .. size : reader.ahead[i] # End <=> i <= k
    <3>1. ASSUME NEW i \in 1 .. size
          PROVE  reader.ahead[i] # End <=> i <= k
      <4>1. c + i \in Nat /\ c + i >= 1
        BY <1>2
      <4>. QED  BY <1>2, <1>4, <1>6, <4>1 DEF CharAt
    <3>. QED  BY <3>1
  <2>. QED  BY <1>3, <1>5, <2>1
<1>8. ahead = k
  <2>1. Cardinality(1 .. k) = k
    BY <1>5, FS_Interval
  <2>. QED  BY <1>7, <2>1
<1>. HIDE DEF ahead
<1>9. SubSeq(reader.ahead, 1, k) = SubSeq(input, reader.pos - k + 1, reader.pos)
  <2>1. reader.pos - k = c /\ reader.pos = c + k /\ c + k <= Length
    BY <1>2, <1>4, <1>5
  <2>2. SubSeq(reader.ahead, 1, k) = [i \in 1 .. k |-> reader.ahead[i]]
    BY <1>3, <1>5
  <2>3. SubSeq(input, c + 1, c + k) = [i \in 1 .. k |-> input[c + i]]
    BY <1>2, <1>5, <2>1
  <2>4. \A i \in 1 .. k : reader.ahead[i] = input[c + i]
    BY <1>3, <1>4, <1>5, <1>6 DEF CharAt
  <2>. QED  BY <2>1, <2>2, <2>3, <2>4
<1>10. reader.pos - ahead < Length => Here(reader) = Location(reader.pos - ahead + 1)
  <2>1. reader.pos - ahead = c /\ c \in Nat
    BY <1>2, <1>5, <1>8
  <2>. QED  BY <1>3, <1>4, <2>1, LocationIs
<1>11. TypeOK
  <2>1. /\ reader.pos \in 0 .. Length /\ reader.ended \in BOOLEAN /\ reader.line \in Nat /\ reader.column \in Nat
    BY <1>2, <1>3, <1>4 DEF Reader
  <2>2. \A i \in DOMAIN reader.ahead : reader.ahead[i] \in Char \union {End}
    BY <1>3
  <2>3. Len(reader.ahead) <= 2
    BY <1>1 DEF Short
  <2>. QED  BY <2>1, <2>2, <2>3 DEF TypeOK, LexInv
<1>. QED  BY <1>3, <1>5, <1>8, <1>9, <1>10, <1>11 DEF LookaheadIsNext, size, ahead

\* However far the lexer has looked ahead, the reader neither loses a character
\* of the text nor returns one twice, and its location is that of the next one.
THEOREM LookaheadCorrect == Spec => []LookaheadIsNext
<1>1. Spec => []LexInv
  BY LexInit, LexNext, PTL DEF Spec
<1>. QED  BY <1>1, InvImpliesLookahead, PTL

-----------------------------------------------------------------------------
(***************************************************************************)
(* What the definitions over positions return.                             *)
(***************************************************************************)
\* A text of one or of two characters stands at a place.
LEMMA AtOne ==
  ASSUME input \in Inputs
  PROVE  \A i \in 1 .. Length + 1 : \A x : At(i, <<x>>) <=> i <= Length /\ input[i] = x
<1>. SUFFICES ASSUME NEW i \in 1 .. Length + 1, NEW x
              PROVE  At(i, <<x>>) <=> i <= Length /\ input[i] = x
  OBVIOUS
<1>1. Length \in Nat /\ input \in Seq(Char) /\ Len(input) = Length
  BY InputType DEF Length
<1>2. i <= Length => SubSeq(input, i, i) = <<input[i]>>
  BY <1>1, SeqParts
<1>3. Len(<<x>>) = 1 /\ i + 1 - 1 = i
  BY <1>1
<1>4. At(i, <<x>>) <=> i <= Length /\ SubSeq(input, i, i) = <<x>>
  BY <1>3 DEF At
<1>. QED  BY <1>2, <1>4

\* Both characters are there.
LEMMA AtTwo ==
  ASSUME input \in Inputs
  PROVE  \A i \in 1 .. Length + 1 : \A x, y :
           At(i, <<x, y>>) <=> i + 1 <= Length /\ input[i] = x /\ input[i + 1] = y
<1>. SUFFICES ASSUME NEW i \in 1 .. Length + 1, NEW x, NEW y
              PROVE  At(i, <<x, y>>) <=> i + 1 <= Length /\ input[i] = x /\ input[i + 1] = y
  OBVIOUS
<1>1. Length \in Nat /\ input \in Seq(Char) /\ Len(input) = Length
  BY InputType DEF Length
<1>2. i + 1 <= Length => SubSeq(input, i, i + 1) = <<input[i], input[i + 1]>>
  BY <1>1, SeqParts
<1>3. Len(<<x, y>>) = 2 /\ i + 2 - 1 = i + 1
  BY <1>1
<1>4. At(i, <<x, y>>) <=> i + 1 <= Length /\ SubSeq(input, i, i + 1) = <<x, y>>
  BY <1>3 DEF At
<1>. QED  BY <1>2, <1>4

\* Where a comment ends, in terms of where the rest of it ends.
LEMMA CommentEndIs ==
  ASSUME input \in Inputs
  PROVE  \A i \in 1 .. Length + 1, d \in Nat :
           /\ CommentEnd[i][d] = IF d = 0 THEN i
                                 ELSE IF i > Length THEN 0
                                 ELSE IF At(i, OpenComment) THEN CommentEnd[i + 2][d + 1]
                                 ELSE IF At(i, CloseComment) THEN CommentEnd[i + 2][d - 1]
                                 ELSE CommentEnd[i + 1][d]
           /\ CommentEnd[i][d] # 0 => CommentEnd[i][d] \in i .. Length + 1
<1>1. Length \in Nat
  BY InputType
<1>2. PICK n \in Nat \ {0} : n = Length + 1
  BY <1>1
<1>. DEFINE S == 1 .. n
            V == [Nat -> 0 .. n]
            end(g, i) == [d \in Nat |->
               IF d = 0 THEN i
               ELSE IF i > Length THEN 0
               ELSE IF At(i, OpenComment) THEN g[i + 2][d + 1]
               ELSE IF At(i, CloseComment) THEN g[i + 2][d - 1]
               ELSE g[i + 1][d]]
            G(g) == [i \in S |-> end(g, i)]
            F == [g \in [S -> V] |-> G(g)]
<1>3. \A i \in S : /\ i \in Nat \ {0} /\ i \in 0 .. n
                   /\ i > Length <=> i = n
                   /\ i <= Length => i + 1 \in S /\ i + 1 > i
                   /\ At(i, OpenComment) \/ At(i, CloseComment) => i + 2 \in S /\ i + 2 > i
  <2>1. \A i \in S : /\ i \in Nat \ {0} /\ i \in 0 .. n
                     /\ i > Length <=> i = n
                     /\ i <= Length => i + 1 \in S /\ i + 1 > i
                     /\ i + 1 <= Length => i + 2 \in S /\ i + 2 > i
    BY <1>1, <1>2
  <2>2. \A i \in S : At(i, OpenComment) \/ At(i, CloseComment) => i + 1 <= Length
    BY <1>2, AtTwo DEF OpenComment, CloseComment
  <2>. QED  BY <2>1, <2>2
<1>4. ASSUME NEW g \in [S -> V], NEW i \in S
      PROVE  end(g, i) \in V
  <2>1. ASSUME NEW d \in Nat
        PROVE  end(g, i)[d] \in 0 .. n
    <3>1. d + 1 \in Nat /\ 0 \in 0 .. n /\ (d # 0 => d - 1 \in Nat)
      BY <1>2
    <3>2. \A j \in S, e \in Nat : g[j][e] \in 0 .. n
      OBVIOUS
    <3>3. ~(i > Length) => i <= Length
      BY <1>1, <1>3
    <3>. HIDE DEF S, V
    <3>. QED  BY <1>3, <3>1, <3>2, <3>3
  <2>. HIDE DEF S
  <2>. QED  BY <2>1
<1>5. ASSUME NEW g \in [S -> V], NEW h \in [S -> V], NEW i \in S,
             \A j \in S : j > i => g[j] = h[j]
      PROVE  end(g, i) = end(h, i)
  <2>1. ~(i > Length) => i <= Length
    BY <1>1, <1>3
  <2>2. i <= Length => g[i + 1] = h[i + 1]
    BY <1>3, <1>5
  <2>3. At(i, OpenComment) \/ At(i, CloseComment) => g[i + 2] = h[i + 2]
    BY <1>3, <1>5
  <2>. HIDE DEF S, V
  <2>. QED  BY <2>1, <2>2, <2>3
<1>6. LooksAhead(F, [S -> V], n)
  <2>1. \A g \in [S -> V] : G(g) \in [S -> V]
    <3>. HIDE DEF S, V, end
    <3>. QED  BY <1>4
  <2>2. F \in [[S -> V] -> [S -> V]]
    <3>. HIDE DEF S, V, G
    <3>. QED  BY <2>1
  <2>3. \A g \in [S -> V] : \A i \in S : F[g][i] = end(g, i)
    <3>. HIDE DEF S, V, end
    <3>. QED  OBVIOUS
  <2>4. \A g, h \in [S -> V] : \A i \in S :
          (\A j \in S : j > i => g[j] = h[j]) => F[g][i] = F[h][i]
    <3>. SUFFICES ASSUME NEW g \in [S -> V], NEW h \in [S -> V], NEW i \in S,
                            \A j \in S : j > i => g[j] = h[j]
                     PROVE  F[g][i] = F[h][i]
      OBVIOUS
    <3>. HIDE DEF S, V, end, F, G
    <3>1. end(g, i) = end(h, i)
      BY <1>5, Zenon
    <3>. QED  BY <2>3, <3>1, Zenon
  <2>. HIDE DEF V, end, F, G
  <2>. QED  BY <2>2, <2>4, Zenon DEF LooksAhead
<1>7. V # {}
  <2>1. [d \in Nat |-> 0] \in V
    BY <1>2
  <2>. QED  BY <2>1
<1>9. \E f : f = G(f)
  <2>1. \E f \in [S -> V] : f = F[f]
    <3>. HIDE DEF V, F
    <3>. QED  BY <1>6, <1>7, DownRecursion
  <2>2. \A g \in [S -> V] : F[g] = G(g)
    <3>. HIDE DEF S, V, G
    <3>. QED  OBVIOUS
  <2>. HIDE DEF S, V, G, F
  <2>. QED  BY <2>1, <2>2
<1>10. CommentEnd = CHOOSE f : f = G(f)
  BY <1>2 DEF CommentEnd
<1>11. CommentEnd = G(CommentEnd)
  <2>. HIDE DEF G
  <2>. QED  BY <1>9, <1>10
<1>12. \A i \in S : CommentEnd[i] = end(CommentEnd, i)
  <2>. HIDE DEF end, S
  <2>. QED  BY <1>11
<1>13. ASSUME NEW i \in S, NEW d \in Nat
       PROVE  CommentEnd[i][d] = IF d = 0 THEN i
                                 ELSE IF i > Length THEN 0
                                 ELSE IF At(i, OpenComment) THEN CommentEnd[i + 2][d + 1]
                                 ELSE IF At(i, CloseComment) THEN CommentEnd[i + 2][d - 1]
                                 ELSE CommentEnd[i + 1][d]
  <2>1. CommentEnd[i] = end(CommentEnd, i)
    BY <1>12
  <2>. HIDE DEF S
  <2>. QED  BY <2>1
<1>. DEFINE T == {i \in S : \A d \in Nat : CommentEnd[i][d] # 0 => CommentEnd[i][d] \in i .. n}
<1>14. ASSUME NEW i \in S, \A j \in S : j > i => j \in T
       PROVE  i \in T
  <2>1. ASSUME NEW d \in Nat, CommentEnd[i][d] # 0
        PROVE  CommentEnd[i][d] \in i .. n
    <3>1. d + 1 \in Nat /\ (d # 0 => d - 1 \in Nat) /\ i \in i .. n
      BY <1>2
    <3>2. \A j \in S, e \in Nat : j > i /\ CommentEnd[j][e] # 0 => CommentEnd[j][e] \in j .. n
      BY <1>14
    <3>3. \A j \in S : \A x : j > i /\ x \in j .. n => x \in i .. n
      BY <1>2
    <3>4. \A j \in S, e \in Nat : j > i /\ CommentEnd[j][e] # 0 => CommentEnd[j][e] \in i .. n
      <4>. HIDE DEF S, T
      <4>. QED  BY <3>2, <3>3
    <3>5. ~(i > Length) => i <= Length
      BY <1>1, <1>3
    <3>. HIDE DEF S, T
    <3>. QED  BY <1>3, <1>13, <2>1, <3>1, <3>4, <3>5
  <2>. QED  BY <2>1
<1>15. \A i \in S : i \in T
  <2>. HIDE DEF T
  <2>. QED  BY <1>2, <1>14, DownInduction
<1>. QED  BY <1>2, <1>13, <1>15

\* Where a line ends.
LEMMA LineEndIs ==
  ASSUME input \in Inputs
  PROVE  \A i \in 1 .. Length + 1 :
           /\ LineEnd(i) = IF i > Length THEN i ELSE IF input[i] = NewLine THEN i + 1 ELSE LineEnd(i + 1)
           /\ LineEnd(i) \in i .. Length + 1
           /\ i <= Length => LineEnd(i) > i
<1>1. Length \in Nat
  BY InputType
<1>2. PICK n \in Nat \ {0} : n = Length + 1
  BY <1>1
<1>. DEFINE breaks(i) == {j \in i .. Length : input[j] = NewLine}
<1>3. ASSUME NEW i \in 1 .. n
      PROVE  LineEnd(i) = IF i > Length THEN i ELSE IF input[i] = NewLine THEN i + 1 ELSE LineEnd(i + 1)
  <2>1. \A j \in Nat : LineEnd(j) = IF breaks(j) = {} THEN Length + 1
                                   ELSE 1 + CHOOSE b \in breaks(j) : \A k \in breaks(j) : b <= k
    BY DEF LineEnd
  <2>2. i \in Nat /\ i + 1 \in Nat /\ (i > Length => i = Length + 1)
    BY <1>1, <1>2
  <2>3. CASE i > Length
    <3>1. breaks(i) = {}
      BY <1>1, <2>3
    <3>. QED  BY <2>1, <2>2, <2>3, <3>1
  <2>4. CASE ~(i > Length) /\ input[i] = NewLine
    <3>1. i \in breaks(i) /\ \A k \in breaks(i) : k \in Nat /\ i <= k
      BY <1>1, <2>4
    <3>. HIDE DEF breaks
    <3>2. (CHOOSE b \in breaks(i) : \A k \in breaks(i) : b <= k) = i
      <4>1. \A b \in breaks(i) : (\A k \in breaks(i) : b <= k) => b = i
        BY <2>2, <3>1
      <4>. QED  BY <3>1, <4>1
    <3>. QED  BY <2>1, <2>2, <2>4, <3>1, <3>2
  <2>5. CASE ~(i > Length) /\ input[i] # NewLine
    <3>1. breaks(i) = breaks(i + 1)
      BY <1>1, <2>5
    <3>. HIDE DEF breaks
    <3>. QED  BY <2>1, <2>2, <2>5, <3>1
  <2>. QED  BY <2>3, <2>4, <2>5
<1>. DEFINE T == {i \in 1 .. n : LineEnd(i) \in i .. n /\ (i <= Length => LineEnd(i) > i)}
<1>4. ASSUME NEW i \in 1 .. n, \A j \in 1 .. n : j > i => j \in T
      PROVE  i \in T
  <2>1. CASE i > Length
    BY <1>1, <1>2, <1>3, <2>1
  <2>2. CASE ~(i > Length) /\ input[i] = NewLine
    BY <1>1, <1>2, <1>3, <2>2
  <2>3. CASE ~(i > Length) /\ input[i] # NewLine
    <3>1. i + 1 \in 1 .. n /\ i + 1 > i
      BY <1>1, <1>2, <2>3
    <3>2. LineEnd(i + 1) \in i + 1 .. n
      BY <1>4, <3>1
    <3>3. LineEnd(i) = LineEnd(i + 1)
      BY <1>3, <2>3
    <3>. QED  BY <3>2, <3>3
  <2>. QED  BY <2>1, <2>2, <2>3
<1>5. \A i \in 1 .. n : i \in T
  <2>. HIDE DEF T
  <2>. QED  BY <1>2, <1>4, DownInduction
<1>. QED  BY <1>2, <1>3, <1>5

\* A run of characters of a set ends at one place.
Run(i, set, j) ==
  /\ j \in i .. Length + 1
  /\ \A k \in i .. j - 1 : input[k] \in set
  /\ j <= Length => input[j] \notin set

\* Which is the end that RunEnd chooses.
LEMMA RunEndIs ==
  ASSUME input \in Inputs, NEW set
  PROVE  \A i \in 1 .. Length + 1 : Run(i, set, RunEnd(i, set)) /\ \A j : Run(i, set, j) => j = RunEnd(i, set)
<1>1. Length \in Nat
  BY InputType
<1>2. PICK n \in Nat \ {0} : n = Length + 1
  BY <1>1
<1>. DEFINE T == {i \in 1 .. n : \E j : Run(i, set, j)}
<1>3. ASSUME NEW i \in 1 .. n, \A j \in 1 .. n : j > i => j \in T
      PROVE  i \in T
  <2>1. CASE i = n \/ input[i] \notin set
    <3>1. Run(i, set, i)
      BY <1>1, <1>2, <2>1 DEF Run
    <3>. QED  BY <3>1
  <2>2. CASE i # n /\ input[i] \in set
    <3>1. i + 1 \in 1 .. n /\ i + 1 > i
      BY <1>2, <2>2
    <3>2. PICK j : Run(i + 1, set, j)
      BY <1>3, <3>1
    <3>3. Run(i, set, j)
      <4>1. j \in i + 1 .. Length + 1 /\ \A k \in i + 1 .. j - 1 : input[k] \in set
        BY <3>2 DEF Run
      <4>2. j \in i .. Length + 1 /\ \A k \in i .. j - 1 : k = i \/ k \in i + 1 .. j - 1
        BY <1>1, <4>1
      <4>. QED  BY <2>2, <3>2, <4>1, <4>2 DEF Run
    <3>. QED  BY <3>3
  <2>. QED  BY <2>1, <2>2
<1>4. \A i \in 1 .. n : i \in T
  <2>. HIDE DEF T
  <2>. QED  BY <1>2, <1>3, DownInduction
<1>5. ASSUME NEW i \in 1 .. n, NEW j, NEW k, Run(i, set, j), Run(i, set, k)
      PROVE  j = k
  <2>1. j \in i .. n /\ k \in i .. n
    BY <1>2, <1>5 DEF Run
  <2>2. ~(j < k)
    <3>. SUFFICES ASSUME j < k
                  PROVE  FALSE
      OBVIOUS
    <3>1. j \in i .. k - 1 /\ j <= Length
      BY <1>1, <1>2, <2>1
    <3>. QED  BY <1>5, <3>1 DEF Run
  <2>3. ~(k < j)
    <3>. SUFFICES ASSUME k < j
                  PROVE  FALSE
      OBVIOUS
    <3>1. k \in i .. j - 1 /\ k <= Length
      BY <1>1, <1>2, <2>1
    <3>. QED  BY <1>5, <3>1 DEF Run
  <2>. QED  BY <2>1, <2>2, <2>3
<1>6. ASSUME NEW i \in 1 .. n
      PROVE  Run(i, set, RunEnd(i, set))
  <2>1. \E j \in i .. Length + 1 : Run(i, set, j)
    <3>1. \E j : Run(i, set, j)
      BY <1>4
    <3>. QED  BY <3>1 DEF Run
  <2>2. RunEnd(i, set) = CHOOSE j \in i .. Length + 1 : Run(i, set, j)
    BY DEF RunEnd, Run
  <2>. QED  BY <2>1, <2>2
<1>. QED  BY <1>2, <1>5, <1>6

\* The tokens that never change: one or two characters, none of which begins a
\* word, and the longer first.
LEMMA StaticTokensAre ==
  /\ DOMAIN StaticTokens = 1 .. 26
  /\ \A k \in 1 .. 26 :
       LET s == StaticTokens[k]
       IN  /\ \/ s = <<s[1]>> /\ Len(s) = 1
              \/ s = <<s[1], s[2]>> /\ Len(s) = 2 /\ s[2] # End
           /\ s[1] # End /\ s[1] \notin Letter
  /\ \A k \in 1 .. 26 : k < 10 \/ k = 20 <=> Len(StaticTokens[k]) = 2
  /\ \A k \in 10 .. 19 : StaticTokens[k][1] # StaticTokens[20][1]
<1>1. DOMAIN StaticTokens = 1 .. 26
  BY DEF StaticTokens
<1>2. \A k \in 1 .. 26 : \/ k = 1 \/ k = 2 \/ k = 3 \/ k = 4 \/ k = 5 \/ k = 6 \/ k = 7 \/ k = 8 \/ k = 9
                         \/ k = 10 \/ k = 11 \/ k = 12 \/ k = 13 \/ k = 14 \/ k = 15 \/ k = 16 \/ k = 17
                         \/ k = 18 \/ k = 19 \/ k = 20 \/ k = 21 \/ k = 22 \/ k = 23 \/ k = 24 \/ k = 25 \/ k = 26
  OBVIOUS
<1>3. /\ StaticTokens[1] = <<"+", "+">> /\ StaticTokens[2] = <<"-", "-">> /\ StaticTokens[3] = <<"=", "=">>
      /\ StaticTokens[4] = <<"!", "=">> /\ StaticTokens[5] = <<"&", "&">> /\ StaticTokens[6] = <<"|", "|">>
      /\ StaticTokens[7] = <<">", "=">> /\ StaticTokens[8] = <<"<", "=">> /\ StaticTokens[9] = <<"(", "?">>
      /\ StaticTokens[10] = <<";">> /\ StaticTokens[11] = <<"!">> /\ StaticTokens[12] = <<"+">>
      /\ StaticTokens[13] = <<"-">> /\ StaticTokens[14] = <<"*">> /\ StaticTokens[15] = <<"/">>
      /\ StaticTokens[16] = <<"=">> /\ StaticTokens[17] = <<">">> /\ StaticTokens[18] = <<"<">>
      /\ StaticTokens[19] = <<".">> /\ StaticTokens[20] = <<":", ":">> /\ StaticTokens[21] = <<":">>
      /\ StaticTokens[22] = <<"(">> /\ StaticTokens[23] = <<")">> /\ StaticTokens[24] = <<"{">>
      /\ StaticTokens[25] = <<"}">> /\ StaticTokens[26] = <<",">>
  BY DEF StaticTokens
<1>. DEFINE Plain == {"+", "-", "=", "!", "&", "|", ">", "<", "(", "?", ";", "*", "/", ".", ":", ")", "{", "}", ","}
            One(s) == s = <<s[1]>> /\ s[1] \in Plain
            Two(s) == s = <<s[1], s[2]>> /\ s[1] \in Plain /\ s[2] \in Plain
<1>9. \A x \in Plain : x # End /\ x \notin Letter
  BY DEF Letter, End
<1>10. \A s : \A x \in Plain : s = <<x>> => One(s)
  <2>1. ASSUME NEW x
        PROVE  <<x>>[1] = x
    OBVIOUS
  <2>. HIDE DEF Plain
  <2>. QED  BY <2>1, Zenon
<1>11. \A s : \A x, y \in Plain : s = <<x, y>> => Two(s)
  <2>1. ASSUME NEW x, NEW y
        PROVE  <<x, y>>[1] = x /\ <<x, y>>[2] = y
    OBVIOUS
  <2>. HIDE DEF Plain
  <2>. QED  BY <2>1, Zenon
<1>12. /\ "+" \in Plain /\ "-" \in Plain /\ "=" \in Plain /\ "!" \in Plain /\ "&" \in Plain
       /\ "|" \in Plain /\ ">" \in Plain /\ "<" \in Plain /\ "(" \in Plain /\ "?" \in Plain
       /\ ";" \in Plain /\ "*" \in Plain /\ "/" \in Plain /\ "." \in Plain /\ ":" \in Plain
       /\ ")" \in Plain /\ "{" \in Plain /\ "}" \in Plain /\ "," \in Plain
  OBVIOUS
<1>4. \A k \in 1 .. 26 : IF k < 10 \/ k = 20 THEN Two(StaticTokens[k]) ELSE One(StaticTokens[k])
  <2>. HIDE DEF Plain, One, Two
  <2>1. /\ Two(StaticTokens[1]) /\ Two(StaticTokens[2]) /\ Two(StaticTokens[3]) /\ Two(StaticTokens[4])
        /\ Two(StaticTokens[5]) /\ Two(StaticTokens[6]) /\ Two(StaticTokens[7]) /\ Two(StaticTokens[8])
        /\ Two(StaticTokens[9]) /\ Two(StaticTokens[20])
    BY <1>3, <1>11, <1>12
  <2>2. /\ One(StaticTokens[10]) /\ One(StaticTokens[11]) /\ One(StaticTokens[12]) /\ One(StaticTokens[13])
        /\ One(StaticTokens[14]) /\ One(StaticTokens[15])
    BY <1>3, <1>10, <1>12
  <2>3. /\ One(StaticTokens[16]) /\ One(StaticTokens[17]) /\ One(StaticTokens[18]) /\ One(StaticTokens[19])
        /\ One(StaticTokens[21])
    BY <1>3, <1>10, <1>12
  <2>4. /\ One(StaticTokens[22]) /\ One(StaticTokens[23]) /\ One(StaticTokens[24]) /\ One(StaticTokens[25])
        /\ One(StaticTokens[26])
    BY <1>3, <1>10, <1>12
  <2>. QED  BY <1>2, <2>1, <2>2, <2>3, <2>4
<1>5. \A k \in 1 .. 26 : Len(StaticTokens[k]) = IF k < 10 \/ k = 20 THEN 2 ELSE 1
  <2>1. \A x, y : Len(<<x>>) = 1 /\ Len(<<x, y>>) = 2
    OBVIOUS
  <2>. QED  BY <1>4, <2>1, Zenon
<1>6. \A k \in 10 .. 19 : StaticTokens[k][1] # StaticTokens[20][1]
  <2>1. \A k \in 10 .. 19 : \/ k = 10 \/ k = 11 \/ k = 12 \/ k = 13 \/ k = 14 \/ k = 15 \/ k = 16 \/ k = 17
                            \/ k = 18 \/ k = 19
    OBVIOUS
  <2>2. \A s, x : s = <<x>> => s[1] = x
    OBVIOUS
  <2>3. \A s, x, y : s = <<x, y>> => s[1] = x
    OBVIOUS
  <2>4. /\ StaticTokens[10][1] = ";" /\ StaticTokens[11][1] = "!" /\ StaticTokens[12][1] = "+"
        /\ StaticTokens[13][1] = "-" /\ StaticTokens[14][1] = "*" /\ StaticTokens[15][1] = "/"
    BY <1>3, <2>2, Zenon
  <2>5. /\ StaticTokens[16][1] = "=" /\ StaticTokens[17][1] = ">" /\ StaticTokens[18][1] = "<"
        /\ StaticTokens[19][1] = "."
    BY <1>3, <2>2, Zenon
  <2>6. StaticTokens[20][1] = ":"
    BY <1>3, <2>3, Zenon
  <2>. QED  BY <2>1, <2>4, <2>5, <2>6
<1>7. \A k \in 1 .. 26 :
        LET s == StaticTokens[k]
        IN  /\ \/ s = <<s[1]>> /\ Len(s) = 1
               \/ s = <<s[1], s[2]>> /\ Len(s) = 2 /\ s[2] # End
            /\ s[1] # End /\ s[1] \notin Letter
  <2>. HIDE DEF Plain
  <2>. QED  BY <1>4, <1>5, <1>9, Zenon
<1>8. \A k \in 1 .. 26 : k < 10 \/ k = 20 <=> Len(StaticTokens[k]) = 2
  <2>. HIDE DEF One, Two
  <2>. QED  BY <1>5
<1>. QED  BY <1>1, <1>6, <1>7, <1>8, Zenon

\* The tokens that stand at a place, spelled out.
LEMMA StaticsAre ==
  ASSUME input \in Inputs
  PROVE  \A i \in 1 .. Length, k \in 1 .. 26 :
           k \in Statics(i) <=> /\ input[i] = StaticTokens[k][1]
                                /\ Len(StaticTokens[k]) = 2 => i + 1 <= Length /\ input[i + 1] = StaticTokens[k][2]
<1>1. Length \in Nat
  BY InputType
<1>. SUFFICES ASSUME NEW i \in 1 .. Length, NEW k \in 1 .. 26
              PROVE  k \in Statics(i) <=>
                       /\ input[i] = StaticTokens[k][1]
                       /\ Len(StaticTokens[k]) = 2 => i + 1 <= Length /\ input[i + 1] = StaticTokens[k][2]
  OBVIOUS
<1>2. i \in 1 .. Length + 1 /\ i <= Length
  BY <1>1
<1>. DEFINE s == StaticTokens[k]
<1>3. k \in Statics(i) <=> At(i, s)
  BY StaticTokensAre DEF Statics
<1>4. CASE s = <<s[1]>> /\ Len(s) = 1
  <2>1. At(i, <<s[1]>>) <=> input[i] = s[1]
    BY <1>2, AtOne
  <2>. QED  BY <1>3, <1>4, <2>1
<1>5. CASE s = <<s[1], s[2]>> /\ Len(s) = 2
  <2>1. At(i, <<s[1], s[2]>>) <=> i + 1 <= Length /\ input[i] = s[1] /\ input[i + 1] = s[2]
    BY <1>2, AtTwo
  <2>. QED  BY <1>3, <1>5, <2>1
<1>. QED  BY <1>4, <1>5, StaticTokensAre

\* The first of the tokens that stand at a place is a longest one.
LEMMA LongestIs ==
  ASSUME input \in Inputs, NEW i \in 1 .. Length, Statics(i) # {}
  PROVE  /\ Longest(i) \in Statics(i)
         /\ \A k \in Statics(i) : (\A l \in Statics(i) : k <= l) => StaticTokens[k] = StaticTokens[Longest(i)]
<1>0. Length \in Nat
  BY InputType
<1>1. Statics(i) \subseteq 1 .. 26
  BY StaticTokensAre DEF Statics
<1>2. \A k \in 1 .. 26 : Len(StaticTokens[k]) \in {1, 2}
  BY StaticTokensAre
<1>3. \E k \in Statics(i) : \A l \in Statics(i) : Len(StaticTokens[l]) <= Len(StaticTokens[k])
  <2>1. ASSUME NEW size \in [1 .. 26 -> {1, 2}], NEW S, S \subseteq 1 .. 26, S # {}
        PROVE  \E k \in S : \A l \in S : size[l] <= size[k]
    <3>1. CASE \E k \in S : size[k] = 2
      BY <2>1, <3>1
    <3>2. CASE \A k \in S : size[k] # 2
      <4>1. \A k \in S : size[k] = 1
        BY <2>1, <3>2
      <4>2. PICK k \in S : TRUE
        BY <2>1
      <4>. QED  BY <4>1, <4>2
    <3>. QED  BY <3>1, <3>2
  <2>. DEFINE size == [k \in 1 .. 26 |-> Len(StaticTokens[k])]
  <2>2. size \in [1 .. 26 -> {1, 2}] /\ \A k \in Statics(i) : size[k] = Len(StaticTokens[k])
    BY <1>1, <1>2
  <2>. HIDE DEF size
  <2>3. \E k \in Statics(i) : \A l \in Statics(i) : size[l] <= size[k]
    BY <1>1, <2>1, <2>2
  <2>. QED  BY <2>2, <2>3
<1>4. Longest(i) \in Statics(i) /\ \A l \in Statics(i) : Len(StaticTokens[l]) <= Len(StaticTokens[Longest(i)])
  BY <1>3 DEF Longest
<1>5. ASSUME NEW k \in Statics(i), \A l \in Statics(i) : k <= l
      PROVE  StaticTokens[k] = StaticTokens[Longest(i)]
  <2>. DEFINE m == Longest(i)
              s == StaticTokens[k]
              t == StaticTokens[m]
  <2>1. m \in 1 .. 26 /\ k \in 1 .. 26 /\ k <= m /\ Len(s) <= Len(t)
    BY <1>1, <1>4, <1>5
  <2>. HIDE DEF m
  <2>2. s[1] = input[i] /\ t[1] = input[i]
    BY <1>4, <1>5, <2>1, StaticsAre DEF m
  <2>3. Len(s) = Len(t)
    <3>. SUFFICES ASSUME Len(s) # Len(t)
                  PROVE  FALSE
      OBVIOUS
    <3>1. Len(s) # 2 /\ Len(t) = 2
      <4>1. Len(s) \in {1, 2} /\ Len(t) \in {1, 2}
        BY <1>2, <2>1
      <4>2. \A x, y \in {1, 2} : x # y /\ x <= y => x # 2 /\ y = 2
        OBVIOUS
      <4>. HIDE DEF s, t
      <4>. QED  BY <2>1, <4>1, <4>2
    <3>2. ~(k < 10 \/ k = 20) /\ (m < 10 \/ m = 20)
      BY <2>1, <3>1, StaticTokensAre
    <3>3. m = 20 /\ k \in 10 .. 19
      BY <2>1, <3>2
    <3>. QED  BY <2>2, <3>3, StaticTokensAre
  <2>4. Len(s) = 2 => s[2] = input[i + 1] /\ t[2] = input[i + 1]
    BY <1>4, <1>5, <2>1, <2>3, StaticsAre DEF m
  <2>5. /\ (s = <<s[1]>> /\ Len(s) = 1) \/ (s = <<s[1], s[2]>> /\ Len(s) = 2)
        /\ (t = <<t[1]>> /\ Len(t) = 1) \/ (t = <<t[1], t[2]>> /\ Len(t) = 2)
    BY <2>1, StaticTokensAre
  <2>. HIDE DEF s, t
  <2>6. s = t
    BY <2>2, <2>3, <2>4, <2>5
  <2>. QED  BY <2>6 DEF s, t, m
<1>. QED  BY <1>4, <1>5

\* Which case a token is of.
LEMMA TokenEndIs ==
  ASSUME input \in Inputs, NEW i \in 1 .. Length
  PROVE  /\ NumberAt(i) => input[i] \notin Letter /\ TokenEnd(i) = RunEnd(i + 1, InNumber)
         /\ input[i] \in Letter => /\ ~NumberAt(i) /\ Statics(i) = {}
                                   /\ TokenEnd(i) = RunEnd(i, InWord)
         /\ ~NumberAt(i) /\ Statics(i) # {} => TokenEnd(i) = i + Len(StaticTokens[Longest(i)])
         /\ ~NumberAt(i) /\ input[i] \notin Letter /\ Statics(i) = {} => TokenEnd(i) = i + 1
         /\ TokenEnd(i) \in i + 1 .. Length + 1
<1>1. Length \in Nat /\ i \in Nat \ {0} /\ i <= Length /\ i \in 1 .. Length + 1 /\ i + 1 \in 1 .. Length + 1
  BY InputType
<1>2. NumberAt(i) => input[i] \in {"1", "-"}
  BY <1>1, AtOne, AtTwo DEF NumberAt
<1>3. input[i] \in {"1", "-"} => input[i] \notin Letter
  BY DEF Letter
<1>4. Statics(i) # {} => input[i] \notin Letter
  <2>1. Statics(i) \subseteq 1 .. 26
    BY StaticTokensAre DEF Statics
  <2>. QED  BY <2>1, StaticsAre, StaticTokensAre
<1>5. TokenEnd(i) = CASE NumberAt(i) -> RunEnd(i + 1, InNumber)
                      [] input[i] \in Letter -> RunEnd(i, InWord)
                      [] ~NumberAt(i) /\ Statics(i) # {} -> i + Len(StaticTokens[Longest(i)])
                      [] OTHER -> i + 1
  BY DEF TokenEnd
<1>6. CASE NumberAt(i)
  <2>1. TokenEnd(i) = RunEnd(i + 1, InNumber)
    BY <1>2, <1>3, <1>5, <1>6
  <2>2. RunEnd(i + 1, InNumber) \in i + 1 .. Length + 1
    BY <1>1, RunEndIs DEF Run
  <2>. QED  BY <1>2, <1>3, <1>6, <2>1, <2>2
<1>7. CASE input[i] \in Letter
  <2>1. TokenEnd(i) = RunEnd(i, InWord) /\ ~NumberAt(i) /\ Statics(i) = {}
    BY <1>2, <1>3, <1>4, <1>5, <1>7
  <2>2. Run(i, InWord, RunEnd(i, InWord))
    BY <1>1, RunEndIs
  <2>3. input[i] \in InWord
    BY <1>7 DEF InWord
  <2>4. RunEnd(i, InWord) \in i + 1 .. Length + 1
    BY <1>1, <2>2, <2>3 DEF Run
  <2>. QED  BY <1>7, <2>1, <2>4
<1>8. CASE ~NumberAt(i) /\ input[i] \notin Letter /\ Statics(i) # {}
  <2>1. TokenEnd(i) = i + Len(StaticTokens[Longest(i)])
    BY <1>5, <1>8
  <2>2. Longest(i) \in Statics(i) /\ Longest(i) \in 1 .. 26
    BY <1>8, LongestIs, StaticTokensAre DEF Statics
  <2>3. Len(StaticTokens[Longest(i)]) = 1 \/ (Len(StaticTokens[Longest(i)]) = 2 /\ i + 1 <= Length)
    BY <2>2, StaticTokensAre, StaticsAre
  <2>4. i + Len(StaticTokens[Longest(i)]) \in i + 1 .. Length + 1
    <3>1. i + 1 \in i + 1 .. Length + 1 /\ (i + 1 <= Length => i + 2 \in i + 1 .. Length + 1)
      BY <1>1
    <3>. QED  BY <2>3, <3>1
  <2>. QED  BY <1>8, <2>1, <2>4
<1>9. CASE ~NumberAt(i) /\ input[i] \notin Letter /\ Statics(i) = {}
  BY <1>1, <1>5, <1>9
<1>. QED  BY <1>4, <1>6, <1>7, <1>8, <1>9

\* Where a blank ends, in terms of where the rest of it ends.
LEMMA BlankEndIs ==
  ASSUME input \in Inputs
  PROVE  \A i \in 1 .. Length + 1 :
           /\ BlankEnd[i] = IF i > Length \/ Unclosed(i) THEN i
                            ELSE IF At(i, <<"#">>) THEN BlankEnd[LineEnd(i)]
                            ELSE IF At(i, OpenComment) THEN BlankEnd[CommentEnd[i + 2][1]]
                            ELSE IF input[i] \in White THEN BlankEnd[i + 1]
                            ELSE i
           /\ BlankEnd[i] \in i .. Length + 1
<1>1. Length \in Nat
  BY InputType
<1>2. PICK n \in Nat \ {0} : n = Length + 1
  BY <1>1
<1>. DEFINE S == 1 .. n
            V == 1 .. n
            val(g, i) == IF i > Length \/ Unclosed(i) THEN i
                         ELSE IF At(i, <<"#">>) THEN g[LineEnd(i)]
                         ELSE IF At(i, OpenComment) THEN g[CommentEnd[i + 2][1]]
                         ELSE IF input[i] \in White THEN g[i + 1]
                         ELSE i
            G(g) == [i \in S |-> val(g, i)]
            F == [g \in [S -> V] |-> G(g)]
<1>3. ASSUME NEW i \in S, ~(i > Length \/ Unclosed(i))
      PROVE  /\ LineEnd(i) \in S /\ LineEnd(i) > i
             /\ At(i, OpenComment) => CommentEnd[i + 2][1] \in S /\ CommentEnd[i + 2][1] > i
             /\ i + 1 \in S /\ i + 1 > i
  <2>1. i \in 1 .. Length + 1 /\ i <= Length /\ i \in Nat
    BY <1>1, <1>2, <1>3
  <2>2. LineEnd(i) \in i .. Length + 1 /\ LineEnd(i) > i
    BY <2>1, LineEndIs
  <2>3. ASSUME At(i, OpenComment)
        PROVE  CommentEnd[i + 2][1] \in i + 2 .. Length + 1
    <3>1. i + 1 <= Length
      BY <2>1, <2>3, AtTwo DEF OpenComment
    <3>2. i + 2 \in 1 .. Length + 1
      BY <1>1, <2>1, <3>1
    <3>3. CommentEnd[i + 2][1] # 0
      BY <1>3, <2>3 DEF Unclosed
    <3>. QED  BY <3>2, <3>3, CommentEndIs
  <2>. QED  BY <1>1, <1>2, <2>1, <2>2, <2>3
<1>4. ASSUME NEW g \in [S -> V], NEW i \in S
      PROVE  val(g, i) \in V
  <2>1. \A j \in S : g[j] \in V /\ j \in V
    OBVIOUS
  <2>. HIDE DEF S, V
  <2>. QED  BY <1>3, <2>1
<1>5. ASSUME NEW g \in [S -> V], NEW h \in [S -> V], NEW i \in S, \A j \in S : j > i => g[j] = h[j]
      PROVE  val(g, i) = val(h, i)
  <2>. HIDE DEF S, V
  <2>. QED  BY <1>3, <1>5
<1>6. LooksAhead(F, [S -> V], n)
  <2>1. \A g \in [S -> V] : G(g) \in [S -> V]
    <3>. HIDE DEF S, V, val
    <3>. QED  BY <1>4
  <2>2. F \in [[S -> V] -> [S -> V]]
    <3>. HIDE DEF S, V, G
    <3>. QED  BY <2>1
  <2>3. \A g \in [S -> V] : \A i \in S : F[g][i] = val(g, i)
    <3>. HIDE DEF S, V, val
    <3>. QED  OBVIOUS
  <2>4. \A g, h \in [S -> V] : \A i \in S :
          (\A j \in S : j > i => g[j] = h[j]) => F[g][i] = F[h][i]
    <3>. SUFFICES ASSUME NEW g \in [S -> V], NEW h \in [S -> V], NEW i \in S,
                            \A j \in S : j > i => g[j] = h[j]
                     PROVE  F[g][i] = F[h][i]
      OBVIOUS
    <3>. HIDE DEF S, V, val, F, G
    <3>1. val(g, i) = val(h, i)
      BY <1>5, Zenon
    <3>. QED  BY <2>3, <3>1, Zenon
  <2>. HIDE DEF V, val, F, G
  <2>. QED  BY <2>2, <2>4, Zenon DEF LooksAhead
<1>7. V # {}
  OBVIOUS
<1>8. \E f \in [S -> V] : f = G(f)
  <2>1. \E f \in [S -> V] : f = F[f]
    <3>. HIDE DEF V, F
    <3>. QED  BY <1>6, <1>7, DownRecursion
  <2>2. \A g \in [S -> V] : F[g] = G(g)
    <3>. HIDE DEF S, V, G
    <3>. QED  OBVIOUS
  <2>. HIDE DEF S, V, G, F
  <2>. QED  BY <2>1, <2>2
<1>9. BlankEnd = CHOOSE f : f = G(f)
  BY <1>2 DEF BlankEnd
<1>10. BlankEnd = G(BlankEnd)
  <2>. HIDE DEF G, S, V
  <2>. QED  BY <1>8, <1>9
<1>11. \A i \in S : BlankEnd[i] = val(BlankEnd, i)
  <2>. HIDE DEF val, S
  <2>. QED  BY <1>10
<1>. DEFINE T == {i \in S : BlankEnd[i] \in i .. n}
<1>12. ASSUME NEW i \in S, \A j \in S : j > i => j \in T
       PROVE  i \in T
  <2>1. \A j \in S : j > i => BlankEnd[j] \in i .. n
    BY <1>12
  <2>2. i \in i .. n
    OBVIOUS
  <2>3. BlankEnd[i] = val(BlankEnd, i)
    BY <1>11
  <2>4. BlankEnd[i] \in i .. n
    <3>. HIDE DEF S, V, T
    <3>. QED  BY <1>3, <2>1, <2>2, <2>3
  <2>. QED  BY <2>4
<1>13. \A i \in S : i \in T
  <2>. HIDE DEF T
  <2>. QED  BY <1>12, DownInduction
<1>. QED  BY <1>2, <1>11, <1>13

\* The tokens of what is behind a place, in terms of what is behind the first of them.
TextTokens == {TokenAt(i) : i \in 1 .. Length}
Done(i)    == BlankEnd[i] > Length \/ Unclosed(BlankEnd[i])

\* The tokens from a place on are the next one and those behind it.
LEMMA TokensFromAre ==
  ASSUME input \in Inputs
  PROVE  \A i \in 1 .. Length + 1 :
           /\ TokensFrom[i] = IF Done(i) THEN <<>>
                              ELSE <<TokenAt(BlankEnd[i])>> \o TokensFrom[TokenEnd(BlankEnd[i])]
           /\ TokensFrom[i] \in Seq(TextTokens)
           /\ StopFrom[i] = IF Done(i) THEN BlankEnd[i] ELSE StopFrom[TokenEnd(BlankEnd[i])]
<1>1. Length \in Nat
  BY InputType
<1>2. PICK n \in Nat \ {0} : n = Length + 1
  BY <1>1
<1>. DEFINE S == 1 .. n
<1>3. ASSUME NEW i \in S, ~Done(i)
      PROVE  /\ BlankEnd[i] \in 1 .. Length
             /\ TokenEnd(BlankEnd[i]) \in S /\ TokenEnd(BlankEnd[i]) > i
  <2>1. BlankEnd[i] \in i .. Length + 1 /\ BlankEnd[i] <= Length
    BY <1>1, <1>2, <1>3, BlankEndIs DEF Done
  <2>2. BlankEnd[i] \in 1 .. Length /\ BlankEnd[i] \in i .. Length
    BY <1>1, <1>2, <2>1
  <2>3. TokenEnd(BlankEnd[i]) \in BlankEnd[i] + 1 .. Length + 1
    BY <2>2, TokenEndIs
  <2>. QED  BY <1>1, <1>2, <2>2, <2>3
<1>4. \A i \in S : /\ TokensFrom[i] = IF Done(i) THEN <<>>
                                      ELSE <<TokenAt(BlankEnd[i])>> \o TokensFrom[TokenEnd(BlankEnd[i])]
                   /\ TokensFrom[i] \in Seq(TextTokens)
  <2>. DEFINE V == Seq(TextTokens)
              val(g, i) == IF Done(i) THEN <<>> ELSE <<TokenAt(BlankEnd[i])>> \o g[TokenEnd(BlankEnd[i])]
              G(g) == [i \in S |-> val(g, i)]
              F == [g \in [S -> V] |-> G(g)]
  <2>1. ASSUME NEW g \in [S -> V], NEW i \in S
        PROVE  val(g, i) \in V
    <3>1. CASE Done(i)
      BY <3>1
    <3>2. CASE ~Done(i)
      <4>1. <<TokenAt(BlankEnd[i])>> \in V
        BY <1>3, <3>2 DEF TextTokens
      <4>2. g[TokenEnd(BlankEnd[i])] \in V
        BY <1>3, <3>2
      <4>3. <<TokenAt(BlankEnd[i])>> \o g[TokenEnd(BlankEnd[i])] \in V
        BY <4>1, <4>2, ConcatProperties
      <4>. QED  BY <3>2, <4>3
    <3>. QED  BY <3>1, <3>2
  <2>2. ASSUME NEW g \in [S -> V], NEW h \in [S -> V], NEW i \in S, \A j \in S : j > i => g[j] = h[j]
        PROVE  val(g, i) = val(h, i)
    <3>1. ~Done(i) => g[TokenEnd(BlankEnd[i])] = h[TokenEnd(BlankEnd[i])]
      BY <1>3, <2>2
    <3>. QED  BY <3>1
  <2>3. LooksAhead(F, [S -> V], n)
    <3>1. \A g \in [S -> V] : G(g) \in [S -> V]
      <4>. HIDE DEF S, V, val
      <4>. QED  BY <2>1
    <3>2. F \in [[S -> V] -> [S -> V]]
      <4>. HIDE DEF S, V, G
      <4>. QED  BY <3>1
    <3>3. \A g \in [S -> V] : \A i \in S : F[g][i] = val(g, i)
      <4>. HIDE DEF S, V, val
      <4>. QED  OBVIOUS
    <3>4. \A g, h \in [S -> V] : \A i \in S :
            (\A j \in S : j > i => g[j] = h[j]) => F[g][i] = F[h][i]
      <4>. SUFFICES ASSUME NEW g \in [S -> V], NEW h \in [S -> V], NEW i \in S,
                              \A j \in S : j > i => g[j] = h[j]
                       PROVE  F[g][i] = F[h][i]
        OBVIOUS
      <4>. HIDE DEF S, V, val, F, G
      <4>1. val(g, i) = val(h, i)
        BY <2>2, Zenon
      <4>. QED  BY <3>3, <4>1, Zenon
    <3>. HIDE DEF V, val, F, G
    <3>. QED  BY <3>2, <3>4, Zenon DEF LooksAhead
  <2>4. V # {}
    <3>1. <<>> \in V
      OBVIOUS
    <3>. QED  BY <3>1
  <2>5. \E f \in [S -> V] : f = G(f)
    <3>1. \E f \in [S -> V] : f = F[f]
      <4>. HIDE DEF V, F
      <4>. QED  BY <2>3, <2>4, DownRecursion
    <3>2. \A g \in [S -> V] : F[g] = G(g)
      <4>. HIDE DEF S, V, G
      <4>. QED  OBVIOUS
    <3>. HIDE DEF S, V, G, F
    <3>. QED  BY <3>1, <3>2
  <2>6. TokensFrom = CHOOSE f : f = G(f)
    BY <1>2 DEF TokensFrom, Done
  <2>7. TokensFrom = G(TokensFrom)
    <3>. HIDE DEF G, S, V
    <3>. QED  BY <2>5, <2>6
  <2>8. \A i \in S : TokensFrom[i] = val(TokensFrom, i)
    <3>. HIDE DEF val, S
    <3>. QED  BY <2>7
  <2>. DEFINE T == {i \in S : TokensFrom[i] \in V}
  <2>9. ASSUME NEW i \in S, \A j \in S : j > i => j \in T
        PROVE  i \in T
    <3>1. CASE Done(i)
      <4>1. TokensFrom[i] = <<>>
        BY <2>8, <3>1
      <4>2. <<>> \in V
        OBVIOUS
      <4>. QED  BY <4>1, <4>2
    <3>2. CASE ~Done(i)
      <4>1. <<TokenAt(BlankEnd[i])>> \in V
        BY <1>3, <3>2 DEF TextTokens
      <4>2. TokensFrom[TokenEnd(BlankEnd[i])] \in V
        BY <1>3, <2>9, <3>2
      <4>3. <<TokenAt(BlankEnd[i])>> \o TokensFrom[TokenEnd(BlankEnd[i])] \in V
        BY <4>1, <4>2, ConcatProperties
      <4>4. TokensFrom[i] = <<TokenAt(BlankEnd[i])>> \o TokensFrom[TokenEnd(BlankEnd[i])]
        BY <2>8, <3>2
      <4>. QED  BY <4>3, <4>4
    <3>. QED  BY <3>1, <3>2
  <2>10. \A i \in S : i \in T
    <3>. HIDE DEF T
    <3>. QED  BY <2>9, DownInduction
  <2>. QED  BY <2>8, <2>10
<1>5. \A i \in S : StopFrom[i] = IF Done(i) THEN BlankEnd[i] ELSE StopFrom[TokenEnd(BlankEnd[i])]
  <2>. DEFINE V == S
              val(g, i) == IF Done(i) THEN BlankEnd[i] ELSE g[TokenEnd(BlankEnd[i])]
              G(g) == [i \in S |-> val(g, i)]
              F == [g \in [S -> V] |-> G(g)]
  <2>1. ASSUME NEW g \in [S -> V], NEW i \in S
        PROVE  val(g, i) \in V
    <3>1. BlankEnd[i] \in S
      BY <1>1, <1>2, BlankEndIs
    <3>. HIDE DEF S
    <3>. QED  BY <1>3, <3>1
  <2>2. ASSUME NEW g \in [S -> V], NEW h \in [S -> V], NEW i \in S, \A j \in S : j > i => g[j] = h[j]
        PROVE  val(g, i) = val(h, i)
    <3>1. ~Done(i) => g[TokenEnd(BlankEnd[i])] = h[TokenEnd(BlankEnd[i])]
      BY <1>3, <2>2
    <3>. QED  BY <3>1
  <2>3. LooksAhead(F, [S -> V], n)
    <3>1. \A g \in [S -> V] : G(g) \in [S -> V]
      <4>. HIDE DEF S, V, val
      <4>. QED  BY <2>1
    <3>2. F \in [[S -> V] -> [S -> V]]
      <4>. HIDE DEF S, V, G
      <4>. QED  BY <3>1
    <3>3. \A g \in [S -> V] : \A i \in S : F[g][i] = val(g, i)
      <4>. HIDE DEF S, V, val
      <4>. QED  OBVIOUS
    <3>4. \A g, h \in [S -> V] : \A i \in S :
            (\A j \in S : j > i => g[j] = h[j]) => F[g][i] = F[h][i]
      <4>. SUFFICES ASSUME NEW g \in [S -> V], NEW h \in [S -> V], NEW i \in S,
                              \A j \in S : j > i => g[j] = h[j]
                       PROVE  F[g][i] = F[h][i]
        OBVIOUS
      <4>. HIDE DEF S, V, val, F, G
      <4>1. val(g, i) = val(h, i)
        BY <2>2, Zenon
      <4>. QED  BY <3>3, <4>1, Zenon
    <3>. HIDE DEF V, val, F, G
    <3>. QED  BY <3>2, <3>4, Zenon DEF LooksAhead
  <2>4. V # {}
    OBVIOUS
  <2>5. \E f \in [S -> V] : f = G(f)
    <3>1. \E f \in [S -> V] : f = F[f]
      <4>. HIDE DEF V, F
      <4>. QED  BY <2>3, <2>4, DownRecursion
    <3>2. \A g \in [S -> V] : F[g] = G(g)
      <4>. HIDE DEF S, V, G
      <4>. QED  OBVIOUS
    <3>. HIDE DEF S, V, G, F
    <3>. QED  BY <3>1, <3>2
  <2>6. StopFrom = CHOOSE f : f = G(f)
    BY <1>2 DEF StopFrom, Done
  <2>7. StopFrom = G(StopFrom)
    <3>. HIDE DEF G, S, V
    <3>. QED  BY <2>5, <2>6
  <2>8. \A i \in S : StopFrom[i] = val(StopFrom, i)
    <3>. HIDE DEF val, S
    <3>. QED  BY <2>7
  <2>. QED  BY <2>8
<1>. QED  BY <1>2, <1>4, <1>5

-----------------------------------------------------------------------------
(***************************************************************************)
(* What the reader shows of the text.                                      *)
(***************************************************************************)
\* Of the text, c characters were consumed; it has ended where nothing is left.
Reads(r, c) == Short(r) /\ Follows(r, c) /\ (r.ended => r.pos = Length)
Onward(c)   == IF c < Length THEN c + 1 ELSE c

\* Looking ahead consumes nothing, skipping one character.
LEMMA ReadsOn ==
  ASSUME input \in Inputs, NEW r, NEW c, Reads(r, c)
  PROVE  /\ Reads(Prime(r, 1), c) /\ Len(Prime(r, 1).ahead) >= 1
         /\ Reads(Prime(r, 2), c) /\ Len(Prime(r, 2).ahead) >= 2
         /\ Reads(Skip(r), Onward(c))
<1>1. Length \in Nat
  BY InputType
<1>2. ASSUME NEW q, Reads(q, c), NEW n \in {1, 2}
      PROVE  Reads(Prime(q, n), c) /\ Len(Prime(q, n).ahead) >= n
  <2>1. Short(q) /\ Follows(q, c) /\ (q.ended => q.pos = Length) /\ q \in Reader
    BY <1>2 DEF Reads, Short
  <2>2. Short(Prime(q, n)) /\ Follows(Prime(q, n), c) /\ Len(Prime(q, n).ahead) >= n
    BY <2>1, PrimeFollows
  <2>. DEFINE more == IF n > Len(q.ahead) THEN n - Len(q.ahead) ELSE 0
              added == q.ahead \o [i \in 1 .. more |-> IF q.pos + i <= Length THEN input[q.pos + i] ELSE End]
  <2>3. Prime(q, n) = [q EXCEPT !.ahead = added,
                                !.pos = IF q.pos + more <= Length THEN q.pos + more ELSE Length,
                                !.ended = q.ended \/ q.pos + more > Length]
    BY PrimeIs, Zenon
  <2>4. more \in Nat /\ q.pos \in Nat /\ q.ended \in BOOLEAN
    <3>1. Len(q.ahead) \in Nat /\ n \in Nat
      BY <2>1 DEF Reader
    <3>. QED  BY <2>1, <3>1 DEF Reader
  <2>. HIDE DEF more, added
  <2>5. /\ Prime(q, n).pos = IF q.pos + more <= Length THEN q.pos + more ELSE Length
        /\ Prime(q, n).ended = (q.ended \/ q.pos + more > Length)
    BY <2>1, <2>3 DEF Reader
  <2>6. Prime(q, n).ended => Prime(q, n).pos = Length
    BY <1>1, <2>1, <2>4, <2>5
  <2>. QED  BY <2>2, <2>6 DEF Reads
<1>3. Reads(Prime(r, 1), c) /\ Len(Prime(r, 1).ahead) >= 1 /\ Reads(Prime(r, 2), c) /\ Len(Prime(r, 2).ahead) >= 2
  BY <1>2
<1>4. Reads(Skip(r), Onward(c))
  <2>. DEFINE p == Prime(r, 1)
  <2>1. Short(Skip(r)) /\ Follows(Skip(r), Onward(c))
    BY SkipFollows DEF Reads, Onward
  <2>2. p \in Reader /\ (p.ended => p.pos = Length)
    BY <1>3 DEF Reads, Short
  <2>3. Skip(r) = IF Head(p.ahead) = NewLine
                  THEN [p EXCEPT !.ahead = Tail(p.ahead), !.line = p.line + 1, !.column = 1]
                  ELSE [p EXCEPT !.ahead = Tail(p.ahead), !.column = p.column + 1]
    BY SkipIs, Zenon
  <2>. HIDE DEF p
  <2>4. Skip(r).ended = p.ended /\ Skip(r).pos = p.pos
    BY <2>2, <2>3 DEF Reader
  <2>. QED  BY <2>1, <2>2, <2>4 DEF Reads
<1>. QED  BY <1>3, <1>4

\* Looking ahead shows the next characters.
LEMMA AheadIs ==
  ASSUME input \in Inputs, NEW r, NEW c, Reads(r, c)
  PROVE  /\ c \in 0 .. Length /\ r.ahead \in Seq(Char \union {End}) /\ r.ended \in BOOLEAN
         /\ \A i \in 1 .. Len(r.ahead) : r.ahead[i] = CharAt(c + i)
         /\ r.pos = IF c + Len(r.ahead) <= Length THEN c + Len(r.ahead) ELSE Length
         /\ c + Len(r.ahead) > Length => r.ended
         /\ r.ended => r.pos = Length
  BY DEF Reads, Short, Follows, Reader

\* The lookahead shows the characters that come.
LEMMA PeekIs ==
  ASSUME input \in Inputs, NEW r, NEW c, Reads(r, c)
  PROVE  Peek(r, 1) = CharAt(c + 1) /\ Peek(r, 2) = CharAt(c + 2)
<1>1. \A n \in {1, 2} : Reads(Prime(r, n), c) /\ Len(Prime(r, n).ahead) >= n
  BY ReadsOn
<1>2. ASSUME NEW n \in {1, 2}
      PROVE  Prime(r, n).ahead[n] = CharAt(c + n)
  <2>. DEFINE p == Prime(r, n)
  <2>1. Reads(p, c) /\ Len(p.ahead) >= n
    BY <1>1
  <2>. HIDE DEF p
  <2>2. p.ahead \in Seq(Char \union {End}) /\ \A i \in 1 .. Len(p.ahead) : p.ahead[i] = CharAt(c + i)
    BY <2>1, AheadIs
  <2>3. n \in 1 .. Len(p.ahead)
    BY <2>1, <2>2
  <2>4. p.ahead[n] = CharAt(c + n)
    BY <2>2, <2>3
  <2>. QED  BY <2>4 DEF p
<1>. QED  BY <1>2 DEF Peek

\* Matching one character compares it with the text.
LEMMA MatchOne ==
  ASSUME input \in Inputs, NEW r, NEW c, Reads(r, c), NEW x, x # End
  PROVE  PeekMatch(r, <<x>>) <=> At(c + 1, <<x>>)
<1>. DEFINE p == Prime(r, 1)
<1>1. Reads(p, c) /\ Len(p.ahead) >= 1
  BY ReadsOn
<1>2. p.ahead \in Seq(Char \union {End}) /\ p.ahead[1] = CharAt(c + 1) /\ c \in 0 .. Length
  BY <1>1, AheadIs
<1>3. PeekMatch(r, <<x>>) <=> SubSeq(p.ahead, 1, 1) = <<x>>
  BY DEF PeekMatch
<1>. HIDE DEF p
<1>4. SubSeq(p.ahead, 1, 1) = <<p.ahead[1]>>
  BY <1>1, <1>2, SeqParts
<1>5. Length \in Nat
  BY InputType
<1>6. c + 1 \in 1 .. Length + 1
  BY <1>2, <1>5
<1>7. At(c + 1, <<x>>) <=> c + 1 <= Length /\ input[c + 1] = x
  BY <1>6, AtOne
<1>. QED  BY <1>2, <1>3, <1>4, <1>7 DEF CharAt

\* So does matching two.
LEMMA MatchTwo ==
  ASSUME input \in Inputs, NEW r, NEW c, Reads(r, c), NEW x, NEW y, x # End, y # End
  PROVE  PeekMatch(r, <<x, y>>) <=> At(c + 1, <<x, y>>)
<1>. DEFINE p == Prime(r, 2)
<1>1. Reads(p, c) /\ Len(p.ahead) >= 2
  BY ReadsOn
<1>2. /\ p.ahead \in Seq(Char \union {End}) /\ c \in 0 .. Length
      /\ p.ahead[1] = CharAt(c + 1) /\ p.ahead[2] = CharAt(c + 2)
  BY <1>1, AheadIs
<1>3. PeekMatch(r, <<x, y>>) <=> SubSeq(p.ahead, 1, 2) = <<x, y>>
  BY DEF PeekMatch
<1>. HIDE DEF p
<1>4. SubSeq(p.ahead, 1, 2) = <<p.ahead[1], p.ahead[2]>>
  BY <1>1, <1>2, SeqParts
<1>5. Length \in Nat
  BY InputType
<1>6. c + 1 \in 1 .. Length + 1 /\ c + 1 + 1 = c + 2
  BY <1>2, <1>5
<1>7. At(c + 1, <<x, y>>) <=> c + 2 <= Length /\ input[c + 1] = x /\ input[c + 2] = y
  BY <1>6, AtTwo
<1>8. c + 2 <= Length => c + 1 <= Length
  BY <1>2, <1>5
<1>. QED  BY <1>2, <1>3, <1>4, <1>7, <1>8 DEF CharAt

\* The reader is at the end when everything was consumed, and knows it when it
\* has looked ahead.
LEMMA EofIs ==
  ASSUME input \in Inputs, NEW r, NEW c, Reads(r, c)
  PROVE  /\ Eof(r) => c = Length
         /\ Eof(Prime(r, 1)) <=> c = Length
         /\ Eof(Prime(r, 2)) <=> c = Length
<1>1. Length \in Nat /\ \A i \in 1 .. Length : input[i] # End
  BY InputType
<1>2. ASSUME NEW q, Reads(q, c)
      PROVE  /\ Eof(q) => c = Length
             /\ c = Length /\ Len(q.ahead) >= 1 => Eof(q)
  <2>1. /\ c \in 0 .. Length /\ q.ahead \in Seq(Char \union {End})
        /\ \A i \in 1 .. Len(q.ahead) : q.ahead[i] = CharAt(c + i)
        /\ q.pos = IF c + Len(q.ahead) <= Length THEN c + Len(q.ahead) ELSE Length
        /\ c + Len(q.ahead) > Length => q.ended
        /\ q.ended => q.pos = Length
    BY <1>2, AheadIs
  <2>2. CASE q.ahead = <<>>
    BY <1>1, <2>1, <2>2 DEF Eof
  <2>3. CASE q.ahead # <<>>
    <3>1. Len(q.ahead) \in Nat \ {0} /\ Head(q.ahead) = q.ahead[1]
      BY <2>1, <2>3
    <3>2. Head(q.ahead) = CharAt(c + 1)
      BY <2>1, <3>1
    <3>3. Head(q.ahead) = End <=> c = Length
      BY <1>1, <2>1, <3>2 DEF CharAt
    <3>4. c = Length => q.ended
      BY <1>1, <2>1, <3>1
    <3>. QED  BY <2>3, <3>3, <3>4 DEF Eof
  <2>. QED  BY <2>2, <2>3
<1>. QED  BY <1>2, ReadsOn

\* What was matched is passed over.
LEMMA SkipOverIs ==
  ASSUME input \in Inputs, NEW r, NEW c, Reads(r, c), NEW s, Len(s) \in {1, 2}, c + Len(s) <= Length
  PROVE  Reads(SkipOver(r, s), c + Len(s))
<1>1. Length \in Nat /\ c \in Nat
  BY InputType, AheadIs
<1>2. CASE Len(s) = 1
  <2>1. Onward(c) = c + Len(s)
    BY <1>1, <1>2 DEF Onward
  <2>. QED  BY <1>2, <2>1, ReadsOn DEF SkipOver
<1>3. CASE Len(s) = 2
  <2>1. Onward(c) = c + 1 /\ Onward(c + 1) = c + Len(s)
    BY <1>1, <1>3 DEF Onward
  <2>2. Reads(Prime(r, 2), c)
    BY ReadsOn
  <2>3. Reads(Skip(Prime(r, 2)), c + 1)
    BY <2>1, <2>2, ReadsOn
  <2>4. Reads(Skip(Skip(Prime(r, 2))), c + Len(s))
    BY <2>1, <2>3, ReadsOn
  <2>. QED  BY <1>3, <2>4 DEF SkipOver
<1>. QED  BY <1>2, <1>3

\* Where there is a character, the reader knows its location.
LEMMA HereIs ==
  ASSUME input \in Inputs, NEW r, NEW c, Reads(r, c)
  PROVE  /\ Here(r) \in [line : Nat, column : Nat]
         /\ c < Length => Here(r) = Location(c + 1)
<1>1. r \in Reader /\ c \in Nat /\ (c < Length => IsAt(r, c))
  BY AheadIs DEF Reads, Short, Follows
<1>2. Here(r) \in [line : Nat, column : Nat]
  BY <1>1 DEF Here, Reader
<1>. QED  BY <1>1, <1>2, LocationIs

-----------------------------------------------------------------------------
(***************************************************************************)
(* The inductive invariant of the tokens: what was returned and what is    *)
(* still to be read make up the tokens of the text.                        *)
(***************************************************************************)
\* The tokens t are those of the text before i, and the rest is to be read from i.
Rest(t, i) ==
  /\ i \in 1 .. Length + 1
  /\ t \in Seq(TextTokens) /\ t \o TokensFrom[i] = TokensFrom[1]
  /\ StopFrom[i] = StopFrom[1]

\* All tokens, and k times that the input has ended.
Told(t, k) ==
  /\ StopFrom[1] > Length
  /\ Len(t) = Len(TokensFrom[1]) + k
  /\ \A i \in 1 .. Len(TokensFrom[1]) : t[i] = TokensFrom[1][i]
  /\ \A i \in Len(TokensFrom[1]) + 1 .. Len(t) : t[i].kind = "end of input"
  /\ \E S : t \in Seq(S)

\* A token, from s on and as far as it was read, which is no further than it goes.
Under(c, m, at, x, t) ==
  \E s \in 1 .. c :
    /\ Rest(t, s) /\ BlankEnd[s] = s /\ ~Unclosed(s)
    /\ at = Location(s) /\ x = Slice(s, c + 1)
    /\ IF m = "number" THEN NumberAt(s) /\ \A k \in s + 1 .. c : input[k] \in InNumber
       ELSE ~NumberAt(s) /\ input[s] \in Letter /\ \A k \in s .. c : input[k] \in InWord

\* An open comment and where it closes, if it does.
Within(c, d, at, t, e, o) ==
  LET close == CommentEnd[c + 1][d]
  IN  /\ d \in Nat \ {0}
      /\ close # 0 => o = "scanning" /\ Rest(t, close)
      /\ close = 0 =>
           /\ o \in {"scanning", "aborted"} /\ t = TokensFrom[1] /\ StopFrom[1] <= Length
           /\ at = Location(StopFrom[1])
           /\ o = "aborted" => <<"UnexpectedEofInMultilineComment", at>> \in e

\* c characters were consumed in mode m, t was returned.
Meant(c, m, d, at, x, t, e, o) ==
  /\ c \in 0 .. Length
  /\ m \in {"blank", "line comment", "comment", "number", "word"}
  /\ m = "blank" => \/ o = "scanning" /\ Rest(t, c + 1)
                    \/ o = "scanning" /\ c = Length /\ Told(t, 1)
                    \/ o = "scanned" /\ Told(t, 2)
  /\ m = "line comment" => o = "scanning" /\ Rest(t, LineEnd(c + 1))
  /\ m = "comment" => Within(c, d, at, t, e, o)
  /\ m \in {"number", "word"} => o = "scanning" /\ Under(c, m, at, x, t)

ScanInv ==
  /\ input \in Inputs
  /\ \E c : Reads(reader, c) /\ Meant(c, mode, depth, start, text, tokens, errors, outcome)

\* What the text means does not change.
LEMMA MeaningStays ==
  ASSUME input \in Inputs, input' = input, NEW c, Reads(reader', c),
         Meant(c, mode', depth', start', text', tokens', errors', outcome')
  PROVE  ScanInv'
<1>1. Length' = Length /\ Char' = Char
  BY DEF Length, Char
<1>2. \A i, s : At(i, s)' = At(i, s)
  BY <1>1 DEF At
<1>3. CommentEnd' = CommentEnd
  BY <1>1 DEF CommentEnd, At
<1>4. \A i : LineEnd(i)' = LineEnd(i) /\ Unclosed(i)' = Unclosed(i) /\ NumberAt(i)' = NumberAt(i)
  <2>1. \A i : LineEnd(i)' = LineEnd(i)
    BY <1>1 DEF LineEnd
  <2>. QED  BY <1>2, <1>3, <2>1, Zenon DEF Unclosed, NumberAt
<1>5. \A i : Location(i)' = Location(i)
  BY DEF Location
<1>6. BlankEnd' = BlankEnd
  BY <1>1, <1>2, <1>3, <1>4 DEF BlankEnd
<1>7. \A i : TokenEnd(i)' = TokenEnd(i)
  <2>1. \A i, set : RunEnd(i, set)' = RunEnd(i, set)
    BY <1>1 DEF RunEnd
  <2>2. \A i : Statics(i)' = Statics(i)
    BY <1>2 DEF Statics
  <2>3. \A i : Longest(i)' = Longest(i)
    BY <2>2 DEF Longest
  <2>. QED  BY <1>4, <2>1, <2>2, <2>3 DEF TokenEnd
<1>8. \A i, j : Slice(i, j)' = Slice(i, j)
  BY DEF Slice
<1>9. \A i : TokenAt(i)' = TokenAt(i)
  <2>1. \A i : Statics(i)' = Statics(i)
    BY <1>2 DEF Statics
  <2>. QED  BY <1>1, <1>4, <1>5, <1>7, <1>8, <2>1 DEF TokenAt
<1>10. TokensFrom' = TokensFrom /\ StopFrom' = StopFrom
  <2>1. TokensFrom' = TokensFrom
    BY <1>1, <1>4, <1>6, <1>7, <1>9 DEF TokensFrom
  <2>2. StopFrom' = StopFrom
    BY <1>1, <1>4, <1>6, <1>7 DEF StopFrom
  <2>. QED  BY <2>1, <2>2
<1>11. TextTokens' = TextTokens
  BY <1>1, <1>9 DEF TextTokens
<1>12. Reads(reader, c)'
  <2>1. Reader' = Reader /\ (\A i : CharAt(i)' = CharAt(i)) /\ Breaks(c)' = Breaks(c)
    BY <1>1, Zenon DEF Reader, CharAt, Breaks
  <2>2. \A b : LastBreak(c, b)' <=> LastBreak(c, b)
    BY <2>1, Zenon DEF LastBreak
  <2>3. IsAt(reader', c) <=> IsAt(reader, c)'
    BY <2>1, <2>2, Zenon DEF IsAt
  <2>. QED  BY <1>1, <2>1, <2>3, Zenon DEF Reads, Short, Follows
<1>13. /\ \A t, i : Rest(t, i)' <=> Rest(t, i)
       /\ \A t, k : Told(t, k)' <=> Told(t, k)
  BY <1>1, <1>10, <1>11, Zenon DEF Rest, Told
<1>14. \A m, at, x, t : Under(c, m, at, x, t)' <=> Under(c, m, at, x, t)
  BY <1>4, <1>5, <1>6, <1>8, <1>13, Zenon DEF Under
<1>15. ASSUME NEW d, NEW at, NEW t, NEW e, NEW o, Within(c, d, at, t, e, o)
       PROVE  Within(c, d, at, t, e, o)'
  <2>. DEFINE close == CommentEnd[c + 1][d]
              stop == StopFrom[1]
  <2>1. close' = close /\ stop' = stop /\ TokensFrom[1]' = TokensFrom[1]
    BY <1>3, <1>10
  <2>2. Location(stop)' = Location(stop) /\ (Rest(t, close)' <=> Rest(t, close)) /\ (stop <= Length)' = (stop <= Length)
    BY <1>1, <1>5, <1>13, <2>1
  <2>3. /\ d \in Nat \ {0}
        /\ close # 0 => o = "scanning" /\ Rest(t, close)
        /\ close = 0 =>
             /\ o \in {"scanning", "aborted"} /\ t = TokensFrom[1] /\ stop <= Length
             /\ at = Location(stop)
             /\ o = "aborted" => <<"UnexpectedEofInMultilineComment", at>> \in e
    BY <1>15 DEF Within
  <2>4. /\ d \in Nat \ {0}
        /\ close' # 0 => o = "scanning" /\ Rest(t, close)'
        /\ close' = 0 =>
             /\ o \in {"scanning", "aborted"} /\ t = TokensFrom[1]' /\ (stop <= Length)'
             /\ at = Location(stop)'
             /\ o = "aborted" => <<"UnexpectedEofInMultilineComment", at>> \in e
    <3>. HIDE DEF close, stop
    <3>. QED  BY <2>1, <2>2, <2>3
  <2>. QED  BY <2>4, Zenon DEF Within
<1>16. ASSUME NEW m, NEW d, NEW at, NEW x, NEW t, NEW e, NEW o, Meant(c, m, d, at, x, t, e, o)
       PROVE  Meant(c, m, d, at, x, t, e, o)'
  <2>1. /\ Rest(t, c + 1)' <=> Rest(t, c + 1)
        /\ Rest(t, LineEnd(c + 1))' <=> Rest(t, LineEnd(c + 1))
        /\ Told(t, 1)' <=> Told(t, 1)
        /\ Told(t, 2)' <=> Told(t, 2)
        /\ Under(c, m, at, x, t)' <=> Under(c, m, at, x, t)
        /\ Within(c, d, at, t, e, o) => Within(c, d, at, t, e, o)'
    BY <1>4, <1>13, <1>14, <1>15
  <2>. QED  BY <1>1, <1>16, <2>1 DEF Meant
<1>. QED  BY <1>12, <1>16, Zenon DEF ScanInv

-----------------------------------------------------------------------------
(***************************************************************************)
(* How the tokens of the text are made up.                                 *)
(***************************************************************************)
\* Which token stands at a place.
Written(i) == Slice(i, TokenEnd(i))

\* The token at a place, case by case of what stands there.
LEMMA TokenAtIs ==
  ASSUME input \in Inputs, NEW i \in 1 .. Length
  PROVE  /\ NumberAt(i) =>
              TokenAt(i) = IF InRange(Written(i))
                           THEN Token(IF Points(Written(i)) = {} THEN "int" ELSE "float", Written(i), Location(i))
                           ELSE Token("unexpected", <<CharAt(TokenEnd(i))>>, Location(i))
         /\ input[i] \in Letter =>
              TokenAt(i) = Token(IF Written(i) \in Keywords THEN "keyword" ELSE "identifier", Written(i), Location(i))
         /\ ~NumberAt(i) /\ Statics(i) # {} =>
              TokenAt(i) = Token("static", StaticTokens[Longest(i)], Location(i))
         /\ ~NumberAt(i) /\ input[i] \notin Letter /\ Statics(i) = {} =>
              TokenAt(i) = Token("unexpected", <<input[i]>>, Location(i))
         /\ TokenAt(i).kind # "end of input"
<1>. DEFINE s == Written(i)
            Kind(k) == Token(k, s, Location(i))
<1>1. TokenAt(i) =
        CASE NumberAt(i) ->
               IF InRange(s) THEN Kind(IF Points(s) = {} THEN "int" ELSE "float")
               ELSE Token("unexpected", <<CharAt(TokenEnd(i))>>, Location(i))
          [] input[i] \in Letter -> Kind(IF s \in Keywords THEN "keyword" ELSE "identifier")
          [] ~NumberAt(i) /\ Statics(i) # {} -> Kind("static")
          [] OTHER -> Kind("unexpected")
  BY DEF TokenAt, CharAt, Written
<1>2. /\ NumberAt(i) => input[i] \notin Letter
      /\ input[i] \in Letter => ~NumberAt(i) /\ Statics(i) = {}
      /\ ~NumberAt(i) /\ Statics(i) # {} => TokenEnd(i) = i + Len(StaticTokens[Longest(i)])
      /\ ~NumberAt(i) /\ input[i] \notin Letter /\ Statics(i) = {} => TokenEnd(i) = i + 1
  BY TokenEndIs
<1>3. \A k, x, at : Token(k, x, at).kind = k
  BY DEF Token
<1>4. CASE NumberAt(i)
  <2>1. TokenAt(i) = IF InRange(s) THEN Kind(IF Points(s) = {} THEN "int" ELSE "float")
                     ELSE Token("unexpected", <<CharAt(TokenEnd(i))>>, Location(i))
    BY <1>1, <1>2, <1>4
  <2>2. TokenAt(i).kind \in {"int", "float", "unexpected"}
    BY <1>3, <2>1
  <2>3. TokenAt(i).kind # "end of input"
    BY <2>2
  <2>. QED  BY <1>2, <1>4, <2>1, <2>3, Zenon
<1>5. CASE input[i] \in Letter
  <2>1. TokenAt(i) = Kind(IF s \in Keywords THEN "keyword" ELSE "identifier")
    BY <1>1, <1>2, <1>5
  <2>2. TokenAt(i).kind \in {"keyword", "identifier"}
    BY <1>3, <2>1
  <2>3. TokenAt(i).kind # "end of input"
    BY <2>2
  <2>. QED  BY <1>2, <1>5, <2>1, <2>3, Zenon
<1>6. CASE ~NumberAt(i) /\ input[i] \notin Letter /\ Statics(i) # {}
  <2>1. Longest(i) \in Statics(i)
    BY <1>6, LongestIs
  <2>2. SubSeq(input, i, i + Len(StaticTokens[Longest(i)]) - 1) = StaticTokens[Longest(i)]
    BY <2>1 DEF Statics, At
  <2>3. s = StaticTokens[Longest(i)]
    BY <1>2, <1>6, <2>2 DEF Slice, Written
  <2>4. TokenAt(i) = Token("static", StaticTokens[Longest(i)], Location(i))
    BY <1>1, <1>6, <2>3
  <2>5. TokenAt(i).kind # "end of input"
    BY <2>4 DEF Token
  <2>. QED  BY <1>6, <2>4, <2>5, Zenon
<1>7. CASE ~NumberAt(i) /\ input[i] \notin Letter /\ Statics(i) = {}
  <2>1. input \in Seq(Char) /\ i \in 1 .. Len(input) /\ i + 1 - 1 = i
    BY InputType DEF Length
  <2>2. s = <<input[i]>>
    BY <1>2, <1>7, <2>1, SeqParts DEF Slice, Written
  <2>3. TokenAt(i) = Token("unexpected", <<input[i]>>, Location(i))
    BY <1>1, <1>7, <2>2
  <2>5. TokenAt(i).kind # "end of input"
    BY <2>3 DEF Token
  <2>. QED  BY <1>7, <2>3, <2>5, Zenon
<1>. QED  BY <1>4, <1>5, <1>6, <1>7

\* What is blank does not matter to the tokens that come.
LEMMA RestOver ==
  ASSUME input \in Inputs, NEW t, NEW i, NEW j \in 1 .. Length + 1, Rest(t, i), BlankEnd[i] = BlankEnd[j]
  PROVE  Rest(t, j)
<1>1. i \in 1 .. Length + 1
  BY DEF Rest
<1>2. TokensFrom[i] = TokensFrom[j] /\ StopFrom[i] = StopFrom[j]
  BY <1>1, TokensFromAre DEF Done
<1>. QED  BY <1>2 DEF Rest

\* The token that is next is the next one that is returned.
LEMMA RestAfter ==
  ASSUME input \in Inputs, NEW t, NEW s \in 1 .. Length, Rest(t, s), BlankEnd[s] = s, ~Unclosed(s)
  PROVE  Rest(Append(t, TokenAt(s)), TokenEnd(s))
<1>1. Length \in Nat /\ s \in 1 .. Length + 1 /\ ~(s > Length) /\ TokenEnd(s) \in 1 .. Length + 1
  BY InputType, TokenEndIs
<1>2. TokensFrom[s] = <<TokenAt(s)>> \o TokensFrom[TokenEnd(s)] /\ StopFrom[s] = StopFrom[TokenEnd(s)]
  BY <1>1, TokensFromAre DEF Done
<1>3. TokenAt(s) \in TextTokens /\ t \in Seq(TextTokens) /\ TokensFrom[TokenEnd(s)] \in Seq(TextTokens)
  BY <1>1, TokensFromAre DEF TextTokens, Rest
<1>4. Append(t, TokenAt(s)) \in Seq(TextTokens)
  BY <1>3
<1>5. Append(t, TokenAt(s)) \o TokensFrom[TokenEnd(s)] = t \o (<<TokenAt(s)>> \o TokensFrom[TokenEnd(s)])
  <2>1. PICK u \in Seq(TextTokens), x \in TextTokens : u = TokensFrom[TokenEnd(s)] /\ x = TokenAt(s)
    BY <1>3
  <2>2. Append(t, x) \o u = t \o (<<x>> \o u)
    BY <1>3, AppendConcat
  <2>. QED  BY <2>1, <2>2
<1>6. Append(t, TokenAt(s)) \o TokensFrom[TokenEnd(s)] = t \o TokensFrom[s]
  BY <1>2, <1>5
<1>. QED  BY <1>1, <1>2, <1>4, <1>6 DEF Rest

\* Where nothing is left but a comment that is not closed, all tokens were returned.
LEMMA RestIsNone ==
  ASSUME input \in Inputs, NEW t, NEW i, Rest(t, i), i > Length \/ Unclosed(i)
  PROVE  t = TokensFrom[1] /\ StopFrom[1] = i
<1>1. i \in 1 .. Length + 1
  BY DEF Rest
<1>2. BlankEnd[i] = i
  BY <1>1, BlankEndIs
<1>3. TokensFrom[i] = <<>> /\ StopFrom[i] = i
  BY <1>1, <1>2, TokensFromAre DEF Done
<1>4. t \in Seq(TextTokens) /\ t \o <<>> = TokensFrom[1] /\ StopFrom[1] = i
  BY <1>3 DEF Rest
<1>5. t \o <<>> = t
  BY <1>4, ConcatEmptySeq
<1>. QED  BY <1>4, <1>5

\* What the lexer sees when c characters were consumed.
Shows(c) ==
  /\ Length \in Nat /\ c \in 0 .. Length /\ c + 1 \in 1 .. Length + 1
  /\ First = IF c < Length THEN input[c + 1] ELSE End
  /\ Peek(reader, 2) = CharAt(c + 2)
  /\ PeekMatch(reader, <<"#">>) <=> At(c + 1, <<"#">>)
  /\ PeekMatch(reader, OpenComment) <=> At(c + 1, OpenComment)
  /\ PeekMatch(reader, CloseComment) <=> At(c + 1, CloseComment)
  /\ At(c + 1, <<"#">>) <=> c < Length /\ input[c + 1] = "#"
  /\ At(c + 1, OpenComment) => c + 2 <= Length /\ input[c + 1] = "("
  /\ At(c + 1, CloseComment) => c + 2 <= Length
  /\ Eof(reader) => c = Length
  /\ Eof(Prime(reader, 1)) <=> c = Length
  /\ Eof(Primed) <=> c = Length

\* Which is what the text has behind them.
LEMMA Shown ==
  ASSUME input \in Inputs, NEW c, Reads(reader, c)
  PROVE  Shows(c)
<1>1. Length \in Nat /\ c \in 0 .. Length
  BY InputType, AheadIs
<1>2. c + 1 \in 1 .. Length + 1 /\ (c + 1 <= Length <=> c < Length) /\ (c + 1) + 1 = c + 2
  BY <1>1
<1>3. First = (IF c < Length THEN input[c + 1] ELSE End) /\ Peek(reader, 2) = CharAt(c + 2)
  <2>1. First = CharAt(c + 1) /\ Peek(reader, 2) = CharAt(c + 2)
    BY PeekIs DEF First
  <2>. QED  BY <1>1, <1>2, <2>1 DEF CharAt
<1>4. PeekMatch(reader, <<"#">>) <=> At(c + 1, <<"#">>)
  <2>1. "#" # End
    BY DEF End
  <2>. QED  BY <2>1, MatchOne
<1>5. /\ PeekMatch(reader, OpenComment) <=> At(c + 1, OpenComment)
      /\ PeekMatch(reader, CloseComment) <=> At(c + 1, CloseComment)
  <2>1. "#" # End /\ "(" # End /\ ")" # End
    BY DEF End
  <2>. QED  BY <2>1, MatchTwo DEF OpenComment, CloseComment
<1>6. At(c + 1, <<"#">>) <=> c < Length /\ input[c + 1] = "#"
  BY <1>2, AtOne
<1>7. /\ At(c + 1, OpenComment) => c + 2 <= Length /\ input[c + 1] = "("
      /\ At(c + 1, CloseComment) => c + 2 <= Length
  BY <1>2, AtTwo DEF OpenComment, CloseComment
<1>8. /\ Eof(reader) => c = Length
      /\ Eof(Prime(reader, 1)) <=> c = Length
      /\ Eof(Primed) <=> c = Length
  BY EofIs DEF Primed
<1>. QED  BY <1>1, <1>2, <1>3, <1>4, <1>5, <1>6, <1>7, <1>8, Zenon DEF Shows

\* What is consumed by the lexer's ways of reading.
LEMMA Read ==
  ASSUME input \in Inputs, NEW c, Reads(reader, c)
  PROVE  /\ Reads(Prime(reader, 1), c) /\ Reads(Primed, c)
         /\ c < Length => Reads(Skip(reader), c + 1) /\ Reads(Skip(Primed), c + 1)
         /\ c = Length => Reads(Skip(reader), c) /\ Reads(Skip(Primed), c)
         /\ c + 2 <= Length => Reads(SkipOver(reader, OpenComment), c + 2) /\ Reads(SkipOver(reader, CloseComment), c + 2)
<1>1. Reads(Prime(reader, 1), c) /\ Reads(Primed, c) /\ Reads(Skip(reader), Onward(c))
  BY ReadsOn DEF Primed
<1>2. Reads(Skip(Primed), Onward(c))
  BY <1>1, ReadsOn
<1>3. (c < Length => Onward(c) = c + 1) /\ (c = Length => Onward(c) = c)
  BY Shown DEF Shows, Onward
<1>4. Len(OpenComment) = 2 /\ Len(CloseComment) = 2
  BY DEF OpenComment, CloseComment
<1>5. ASSUME c + 2 <= Length
      PROVE  Reads(SkipOver(reader, OpenComment), c + 2) /\ Reads(SkipOver(reader, CloseComment), c + 2)
  <2>1. ASSUME NEW s, Len(s) = 2
        PROVE  Reads(SkipOver(reader, s), c + 2)
    <3>1. Len(s) \in {1, 2} /\ c + Len(s) = c + 2
      BY <2>1
    <3>2. Reads(SkipOver(reader, s), c + Len(s))
      BY <1>5, <3>1, SkipOverIs
    <3>. QED  BY <3>1, <3>2
  <2>. QED  BY <1>4, <2>1
<1>. QED  BY <1>1, <1>2, <1>3, <1>5

-----------------------------------------------------------------------------
(***************************************************************************)
(* Every step of the lexer keeps the invariant.                            *)
(***************************************************************************)
\* What remains to be shown of a step, by the loop that it ends up in.
LEMMA ByLoop ==
  \A c \in 0 .. Length : \A d, at, x, t, e :
    /\ Rest(t, c + 1) => Meant(c, "blank", d, at, x, t, e, "scanning")
    /\ c = Length /\ Told(t, 1) => Meant(c, "blank", d, at, x, t, e, "scanning")
    /\ Told(t, 2) => Meant(c, "blank", d, at, x, t, e, "scanned")
    /\ Rest(t, LineEnd(c + 1)) => Meant(c, "line comment", d, at, x, t, e, "scanning")
    /\ \A o : Within(c, d, at, t, e, o) => Meant(c, "comment", d, at, x, t, e, o)
    /\ \A m \in {"number", "word"} : Under(c, m, at, x, t) => Meant(c, m, d, at, x, t, e, "scanning")
  BY DEF Meant

\* Before a token, or where the input has ended.
LEMMA InBlank ==
  ASSUME NEW c, Meant(c, mode, depth, start, text, tokens, errors, outcome), In("blank")
  PROVE  Rest(tokens, c + 1) \/ (c = Length /\ Told(tokens, 1))
  BY DEF Meant, In

\* A comment to the end of the line is a blank, as far as LineEnd says.
LEMMA LineCommentStays ==
  ASSUME input \in Inputs, NEW c, Reads(reader, c),
         Meant(c, mode, depth, start, text, tokens, errors, outcome),
         StartLineComment \/ SkipInLineComment \/ EndLineComment
  PROVE  ScanInv'
<1>1. Shows(c)
  BY Shown
<1>2. Length \in Nat /\ c \in 0 .. Length /\ c + 1 \in 1 .. Length + 1
  BY <1>1, Zenon DEF Shows
<1>3. CASE StartLineComment
  <2>1. /\ In("blank") /\ PeekMatch(reader, <<"#">>)
        /\ reader' = Skip(reader) /\ mode' = "line comment"
        /\ input' = input /\ tokens' = tokens /\ outcome' = "scanning"
    BY <1>3, Zenon DEF StartLineComment, In
  <2>2. c < Length /\ input[c + 1] = "#" /\ At(c + 1, <<"#">>) /\ ~At(c + 1, OpenComment)
    BY <1>1, <1>2, <2>1 DEF Shows
  <2>3. Rest(tokens, c + 1)
    <3>1. c # Length
      BY <1>2, <2>2
    <3>. QED  BY <2>1, <3>1, InBlank
  <2>4. BlankEnd[c + 1] = BlankEnd[LineEnd(c + 1)]
    BY <1>2, <2>2, BlankEndIs DEF Unclosed
  <2>5. LineEnd(c + 1) = LineEnd((c + 1) + 1) /\ LineEnd(c + 1) \in 1 .. Length + 1
    BY <1>2, <2>2, LineEndIs DEF NewLine
  <2>6. Rest(tokens, LineEnd((c + 1) + 1))
    BY <2>3, <2>4, <2>5, RestOver
  <2>7. c + 1 \in 0 .. Length
    BY <1>2, <2>2
  <2>8. Reads(reader', c + 1)
    BY <2>1, <2>2, Read
  <2>9. Meant(c + 1, mode', depth', start', text', tokens', errors', outcome')
    BY <2>1, <2>6, <2>7, ByLoop
  <2>. QED  BY <2>1, <2>8, <2>9, MeaningStays
<1>4. CASE SkipInLineComment
  <2>1. /\ In("line comment") /\ First # NewLine /\ ~Eof(Prime(reader, 1))
        /\ reader' = Skip(reader) /\ mode' = "line comment"
        /\ input' = input /\ tokens' = tokens /\ outcome' = "scanning"
    BY <1>4, Zenon DEF SkipInLineComment, In, First
  <2>2. c < Length
    <3>1. c # Length
      BY <1>1, <2>1, Zenon DEF Shows
    <3>. QED  BY <1>2, <3>1
  <2>newline. input[c + 1] # NewLine
    BY <1>1, <2>1, <2>2, Zenon DEF Shows
  <2>3. Rest(tokens, LineEnd((c + 1) + 1))
    <3>1. Rest(tokens, LineEnd(c + 1))
      BY <2>1 DEF In, Meant
    <3>2. LineEnd(c + 1) = LineEnd((c + 1) + 1)
      BY <1>2, <2>2, <2>newline, LineEndIs
    <3>. QED  BY <3>1, <3>2
  <2>4. c + 1 \in 0 .. Length
    BY <1>2, <2>2
  <2>5. Reads(reader', c + 1)
    BY <2>1, <2>2, Read
  <2>6. Meant(c + 1, mode', depth', start', text', tokens', errors', outcome')
    BY <2>1, <2>3, <2>4, ByLoop
  <2>. QED  BY <2>1, <2>5, <2>6, MeaningStays
<1>5. CASE EndLineComment
  <2>. DEFINE d == IF c < Length THEN c + 1 ELSE c
  <2>1. /\ In("line comment") /\ (First = NewLine \/ Eof(Prime(reader, 1)))
        /\ reader' = Skip(reader) /\ mode' = "blank"
        /\ input' = input /\ tokens' = tokens /\ outcome' = "scanning"
    BY <1>5, Zenon DEF EndLineComment, In, First
  <2>2. ASSUME c < Length
        PROVE  input[c + 1] = NewLine
    <3>1. c # Length
      BY <1>2, <2>2
    <3>2. First = NewLine
      BY <1>1, <2>1, <3>1, Zenon DEF Shows
    <3>. QED  BY <1>1, <2>2, <3>2, Zenon DEF Shows
  <2>3. LineEnd(c + 1) = d + 1 /\ d \in 0 .. Length
    BY <1>2, <2>2, LineEndIs
  <2>4. Rest(tokens, d + 1)
    <3>1. Rest(tokens, LineEnd(c + 1))
      BY <2>1 DEF In, Meant
    <3>. HIDE DEF d
    <3>. QED  BY <2>3, <3>1
  <2>5. Reads(Skip(reader), d)
    BY <1>2, Read
  <2>. HIDE DEF d
  <2>6. Meant(d, mode', depth', start', text', tokens', errors', outcome')
    BY <2>1, <2>3, <2>4, ByLoop
  <2>. QED  BY <2>1, <2>5, <2>6, MeaningStays
<1>. QED  BY <1>3, <1>4, <1>5

\* A comment that opens is one that closes where CommentEnd says, or never.
LEMMA StartCommentStays ==
  ASSUME input \in Inputs, NEW c, Reads(reader, c),
         Meant(c, mode, depth, start, text, tokens, errors, outcome), StartComment
  PROVE  ScanInv'
<1>1. Shows(c)
  BY Shown
<1>2. Length \in Nat /\ c \in 0 .. Length /\ c + 1 \in 1 .. Length + 1
  BY <1>1, Zenon DEF Shows
<1>3. /\ In("blank") /\ PeekMatch(reader, OpenComment)
      /\ reader' = SkipOver(reader, OpenComment) /\ mode' = "comment" /\ depth' = 1 /\ start' = Here(reader)
      /\ input' = input /\ tokens' = tokens /\ errors' = errors /\ outcome' = "scanning"
  BY Zenon DEF StartComment, In
<1>4. At(c + 1, OpenComment) /\ c + 2 <= Length /\ input[c + 1] = "("
  BY <1>1, <1>3, Zenon DEF Shows
<1>5. c + 2 \in 0 .. Length /\ c # Length /\ c < Length /\ (c + 2) + 1 = (c + 1) + 2 /\ (c + 1) + 2 \in 1 .. Length + 1
  BY <1>2, <1>4
<1>6. Rest(tokens, c + 1)
  BY <1>3, <1>5, InBlank
<1>. DEFINE close == CommentEnd[(c + 1) + 2][1]
<1>7. Reads(reader', c + 2) /\ start' = Location(c + 1)
  BY <1>3, <1>4, <1>5, Read, HereIs
<1>8. Within(c + 2, 1, start', tokens, errors, "scanning")
  <2>1. CASE close = 0
    <3>1. Unclosed(c + 1)
      BY <1>4, <2>1, Zenon DEF Unclosed
    <3>2. tokens = TokensFrom[1] /\ StopFrom[1] = c + 1
      BY <1>6, <3>1, RestIsNone
    <3>3. c + 1 <= Length
      BY <1>2, <1>5
    <3>. QED  BY <1>5, <1>7, <2>1, <3>2, <3>3 DEF Within
  <2>2. CASE close # 0
    <3>1. ~Unclosed(c + 1)
      BY <2>2, Zenon DEF Unclosed
    <3>2. ~At(c + 1, <<"#">>)
      BY <1>1, <1>4 DEF Shows
    <3>3. BlankEnd[c + 1] = BlankEnd[close]
      <4>1. ~(c + 1 > Length)
        BY <1>2, <1>5
      <4>. QED  BY <1>2, <1>4, <3>1, <3>2, <4>1, BlankEndIs
    <3>4. close \in 1 .. Length + 1
      <4>1. close \in (c + 1) + 2 .. Length + 1
        BY <1>5, <2>2, CommentEndIs
      <4>. QED  BY <1>2, <4>1
    <3>5. Rest(tokens, close)
      BY <1>6, <3>3, <3>4, RestOver
    <3>. QED  BY <1>5, <2>2, <3>5 DEF Within
  <2>. QED  BY <2>1, <2>2
<1>9. Meant(c + 2, mode', depth', start', text', tokens', errors', outcome')
  BY <1>3, <1>5, <1>8, ByLoop
<1>. QED  BY <1>3, <1>7, <1>9, MeaningStays

\* Inside a comment the depth is that of CommentEnd.
LEMMA CommentStays ==
  ASSUME input \in Inputs, NEW c, Reads(reader, c),
         Meant(c, mode, depth, start, text, tokens, errors, outcome),
         InnerComment \/ EndComment \/ SkipInComment \/ UnterminatedComment
  PROVE  ScanInv'
<1>1. Shows(c)
  BY Shown
<1>2. Length \in Nat /\ c \in 0 .. Length /\ c + 1 \in 1 .. Length + 1
  BY <1>1, Zenon DEF Shows
<1>3. mode = "comment" /\ outcome = "scanning"
  BY Zenon DEF InnerComment, EndComment, SkipInComment, UnterminatedComment, InComment, In
<1>4. Within(c, depth, start, tokens, errors, outcome)
  BY <1>3 DEF Meant
<1>5. depth \in Nat \ {0} /\ depth + 1 \in Nat \ {0} /\ depth - 1 \in Nat
  BY <1>4 DEF Within
\* A comment goes on, or is left for the rest of one.
<1>6. ASSUME NEW b \in 0 .. Length, NEW d \in Nat \ {0}, CommentEnd[b + 1][d] = CommentEnd[c + 1][depth]
      PROVE  Within(b, d, start, tokens, errors, outcome)
  BY <1>4, <1>6 DEF Within
<1>7. CASE InnerComment
  <2>1. /\ PeekMatch(reader, OpenComment) /\ reader' = SkipOver(reader, OpenComment) /\ depth' = depth + 1
        /\ mode' = mode /\ start' = start /\ input' = input /\ tokens' = tokens /\ errors' = errors
        /\ outcome' = outcome
    BY <1>7, Zenon DEF InnerComment
  <2>2. At(c + 1, OpenComment) /\ c + 2 <= Length
    BY <1>1, <2>1, Zenon DEF Shows
  <2>3. c + 2 \in 0 .. Length /\ (c + 2) + 1 = (c + 1) + 2 /\ ~(c + 1 > Length)
    BY <1>2, <2>2
  <2>4. CommentEnd[(c + 2) + 1][depth + 1] = CommentEnd[c + 1][depth]
    BY <1>2, <1>5, <2>2, <2>3, CommentEndIs
  <2>5. Within(c + 2, depth + 1, start, tokens, errors, outcome)
    BY <1>5, <1>6, <2>3, <2>4
  <2>6. Reads(reader', c + 2)
    BY <2>1, <2>2, Read
  <2>7. Meant(c + 2, mode', depth', start', text', tokens', errors', outcome')
    BY <1>3, <2>1, <2>3, <2>5, ByLoop
  <2>. QED  BY <2>1, <2>6, <2>7, MeaningStays
<1>8. CASE EndComment
  <2>1. /\ PeekMatch(reader, CloseComment) /\ reader' = SkipOver(reader, CloseComment) /\ depth' = depth - 1
        /\ mode' = (IF depth = 1 THEN "blank" ELSE mode)
        /\ start' = start /\ input' = input /\ tokens' = tokens /\ errors' = errors /\ outcome' = outcome
    BY <1>8, Zenon DEF EndComment
  <2>2. At(c + 1, CloseComment) /\ c + 2 <= Length
    BY <1>1, <2>1, Zenon DEF Shows
  <2>3. c + 2 \in 0 .. Length /\ (c + 2) + 1 = (c + 1) + 2 /\ ~(c + 1 > Length) /\ (c + 1) + 2 \in 1 .. Length + 1
    BY <1>2, <2>2
  <2>4. ~At(c + 1, OpenComment)
    BY <1>2, <2>2, AtTwo DEF OpenComment, CloseComment
  <2>5. CommentEnd[(c + 2) + 1][depth - 1] = CommentEnd[c + 1][depth]
    BY <1>2, <1>5, <2>2, <2>3, <2>4, CommentEndIs
  <2>6. Reads(reader', c + 2)
    BY <2>1, <2>2, Read
  <2>7. CASE depth = 1
    <3>1. CommentEnd[(c + 2) + 1][0] = (c + 2) + 1
      BY <2>3, CommentEndIs
    <3>2. CommentEnd[c + 1][depth] = (c + 2) + 1
      BY <2>5, <2>7, <3>1
    <3>3. Rest(tokens, (c + 2) + 1)
      BY <1>2, <1>4, <3>2 DEF Within
    <3>4. Meant(c + 2, mode', depth', start', text', tokens', errors', outcome')
      BY <1>3, <2>1, <2>3, <2>7, <3>3, ByLoop
    <3>. QED  BY <2>1, <2>6, <3>4, MeaningStays
  <2>8. CASE depth # 1
    <3>1. depth - 1 \in Nat \ {0}
      BY <1>5, <2>8
    <3>2. Within(c + 2, depth - 1, start, tokens, errors, outcome)
      BY <1>6, <2>3, <2>5, <3>1
    <3>3. Meant(c + 2, mode', depth', start', text', tokens', errors', outcome')
      BY <1>3, <2>1, <2>3, <2>8, <3>2, ByLoop
    <3>. QED  BY <2>1, <2>6, <3>3, MeaningStays
  <2>. QED  BY <2>7, <2>8
<1>9. CASE SkipInComment
  <2>1. /\ ~PeekMatch(reader, OpenComment) /\ ~PeekMatch(reader, CloseComment)
        /\ reader' = Skip(Primed) /\ depth' = depth
        /\ mode' = mode /\ start' = start /\ input' = input /\ tokens' = tokens /\ errors' = errors
        /\ outcome' = outcome
    BY <1>9, Zenon DEF SkipInComment, Primed
  <2>2. ~At(c + 1, OpenComment) /\ ~At(c + 1, CloseComment)
    BY <1>1, <2>1, Zenon DEF Shows
  <2>3. CASE c < Length
    <3>1. c + 1 \in 0 .. Length /\ ~(c + 1 > Length)
      BY <1>2, <2>3
    <3>2. CommentEnd[(c + 1) + 1][depth] = CommentEnd[c + 1][depth]
      BY <1>2, <1>5, <2>2, <3>1, CommentEndIs
    <3>3. Within(c + 1, depth, start, tokens, errors, outcome)
      BY <1>5, <1>6, <3>1, <3>2
    <3>4. Reads(reader', c + 1)
      BY <2>1, <2>3, Read
    <3>5. Meant(c + 1, mode', depth', start', text', tokens', errors', outcome')
      BY <1>3, <2>1, <3>1, <3>3, ByLoop
    <3>. QED  BY <2>1, <3>4, <3>5, MeaningStays
  <2>4. CASE ~(c < Length)
    <3>1. c = Length
      BY <1>2, <2>4
    <3>2. Reads(Skip(Primed), c)
      BY <3>1, Read
    <3>3. Reads(reader', c)
      BY <2>1, <3>2
    <3>4. Meant(c, mode', depth', start', text', tokens', errors', outcome')
      BY <1>2, <1>3, <1>4, <2>1, ByLoop
    <3>. QED  BY <2>1, <3>3, <3>4, MeaningStays
  <2>. QED  BY <2>3, <2>4
<1>10. CASE UnterminatedComment
  <2>1. /\ Eof(reader) /\ errors' = errors \union {<<"UnexpectedEofInMultilineComment", start>>}
        /\ outcome' = "aborted" /\ reader' = reader /\ depth' = depth
        /\ mode' = mode /\ start' = start /\ input' = input /\ tokens' = tokens
    BY <1>10, Zenon DEF UnterminatedComment
  <2>2. c = Length
    BY <1>1, <2>1, Zenon DEF Shows
  <2>3. c + 1 > Length
    BY <1>2, <2>2
  <2>4. CommentEnd[c + 1][depth] = 0
    BY <1>2, <1>5, <2>3, CommentEndIs
  <2>5. Within(c, depth, start, tokens, errors', "aborted")
    BY <1>4, <2>1, <2>4 DEF Within
  <2>6. Meant(c, mode', depth', start', text', tokens', errors', outcome')
    BY <1>2, <1>3, <2>1, <2>5, ByLoop
  <2>. QED  BY <2>1, <2>6, MeaningStays
<1>. QED  BY <1>7, <1>8, <1>9, <1>10

\* White space is passed over.
LEMMA SkipWhiteStays ==
  ASSUME input \in Inputs, NEW c, Reads(reader, c),
         Meant(c, mode, depth, start, text, tokens, errors, outcome), SkipWhite
  PROVE  ScanInv'
<1>1. Shows(c)
  BY Shown
<1>2. Length \in Nat /\ c \in 0 .. Length /\ c + 1 \in 1 .. Length + 1
  BY <1>1, Zenon DEF Shows
<1>3. /\ In("blank") /\ ~PeekMatch(reader, <<"#">>) /\ ~PeekMatch(reader, OpenComment) /\ First \in White
      /\ reader' = Skip(Primed) /\ mode' = "blank"
      /\ input' = input /\ tokens' = tokens /\ outcome' = "scanning"
  BY Zenon DEF SkipWhite, NoComment, In
<1>4. ~At(c + 1, <<"#">>) /\ ~At(c + 1, OpenComment)
  BY <1>1, <1>3, Zenon DEF Shows
<1>5. c < Length
  <2>1. End \notin White
    BY DEF End, White, NewLine
  <2>. QED  BY <1>1, <1>3, <2>1, Zenon DEF Shows
<1>6. input[c + 1] \in White
  BY <1>1, <1>3, <1>5, Zenon DEF Shows
<1>7. c + 1 \in 0 .. Length /\ c # Length /\ ~(c + 1 > Length) /\ (c + 1) + 1 \in 1 .. Length + 1
  BY <1>2, <1>5
<1>8. BlankEnd[c + 1] = BlankEnd[(c + 1) + 1]
  BY <1>2, <1>4, <1>6, <1>7, BlankEndIs DEF Unclosed
<1>9. Rest(tokens, c + 1)
  BY <1>3, <1>7, InBlank
<1>10. Rest(tokens, (c + 1) + 1)
  BY <1>7, <1>8, <1>9, RestOver
<1>11. Reads(reader', c + 1)
  BY <1>3, <1>5, Read
<1>12. Meant(c + 1, mode', depth', start', text', tokens', errors', outcome')
  BY <1>3, <1>7, <1>10, ByLoop
<1>. QED  BY <1>3, <1>11, <1>12, MeaningStays

\* A character that is no blank begins a token, which is the next one to be returned.
Begins(c) ==
  /\ c < Length /\ c + 1 \in 1 .. Length /\ c + 1 \in 0 .. Length
  /\ Rest(tokens, c + 1) /\ BlankEnd[c + 1] = c + 1 /\ ~Unclosed(c + 1)
  /\ Here(reader) = Location(c + 1) /\ First = input[c + 1]
  /\ StartsNumber <=> NumberAt(c + 1)

\* The lexer is there when there is no comment, no white space and no end.
LEMMA TokenBegins ==
  ASSUME input \in Inputs, NEW c, Reads(reader, c),
         Meant(c, mode, depth, start, text, tokens, errors, outcome), AtToken, ~Eof(Primed)
  PROVE  Begins(c)
<1>1. Shows(c)
  BY Shown
<1>2. Length \in Nat /\ c \in 0 .. Length /\ c + 1 \in 1 .. Length + 1
  BY <1>1, Zenon DEF Shows
<1>3. In("blank") /\ ~PeekMatch(reader, <<"#">>) /\ ~PeekMatch(reader, OpenComment) /\ First \notin White
  BY Zenon DEF AtToken, NoComment
<1>4. ~At(c + 1, <<"#">>) /\ ~At(c + 1, OpenComment)
  BY <1>1, <1>3, Zenon DEF Shows
<1>5. c # Length
  BY <1>1, Zenon DEF Shows
<1>6. c < Length /\ c + 1 \in 1 .. Length /\ c + 1 \in 0 .. Length /\ ~(c + 1 > Length)
  BY <1>2, <1>5
<1>7. First = input[c + 1]
  BY <1>1, <1>6, Zenon DEF Shows
<1>8. Rest(tokens, c + 1)
  BY <1>3, <1>5, InBlank
<1>9. ~Unclosed(c + 1)
  BY <1>4, Zenon DEF Unclosed
<1>10. BlankEnd[c + 1] = c + 1
  BY <1>2, <1>3, <1>4, <1>6, <1>7, <1>9, BlankEndIs
<1>11. Here(reader) = Location(c + 1)
  BY <1>6, HereIs
<1>12. StartsNumber <=> NumberAt(c + 1)
  <2>1. Peek(reader, 2) = CharAt(c + 2)
    BY <1>1, Zenon DEF Shows
  <2>5. (c + 1) + 1 = c + 2
    BY <1>2
  <2>2. Peek(reader, 2) = "1" <=> c + 2 <= Length /\ input[c + 2] = "1"
    BY <1>2, <2>1 DEF CharAt, End
  <2>3. At(c + 1, <<"1">>) <=> input[c + 1] = "1"
    BY <1>2, <1>6, AtOne
  <2>4. At(c + 1, <<"-", "1">>) <=> c + 2 <= Length /\ input[c + 1] = "-" /\ input[c + 2] = "1"
    BY <1>2, <2>5, AtTwo
  <2>6. StartsNumber <=> input[c + 1] = "1" \/ (input[c + 1] = "-" /\ Peek(reader, 2) = "1")
    BY <1>7 DEF StartsNumber, Digit
  <2>. QED  BY <1>7, <2>2, <2>3, <2>4, <2>6, Zenon DEF NumberAt
<1>. QED  BY <1>6, <1>7, <1>8, <1>9, <1>10, <1>11, <1>12, Zenon DEF Begins

\* The token that begins, returned.
LEMMA TokenReturned ==
  ASSUME input \in Inputs, NEW c, Begins(c)
  PROVE  Rest(Append(tokens, TokenAt(c + 1)), TokenEnd(c + 1))
  BY RestAfter DEF Begins

\* The end of the input is told as often as it is asked for.
IsEnd(x) == x.kind = "end of input"

\* The tokens before it stay what they are.
LEMMA ToldAgain ==
  ASSUME input \in Inputs, NEW t, NEW k \in Nat, Told(t, k), NEW x, IsEnd(x)
  PROVE  Told(Append(t, x), k + 1)
<1>. DEFINE right == TokensFrom[1]
            u == Append(t, x)
<1>1. Len(right) \in Nat
  <2>1. Length \in Nat
    BY InputType
  <2>2. 1 \in 1 .. Length + 1
    BY <2>1
  <2>3. right \in Seq(TextTokens)
    BY <2>2, TokensFromAre
  <2>. HIDE DEF right
  <2>. QED  BY <2>3, LenProperties
<1>2. /\ StopFrom[1] > Length
      /\ Len(t) = Len(right) + k
      /\ \A i \in 1 .. Len(right) : t[i] = right[i]
      /\ \A i \in Len(right) + 1 .. Len(t) : t[i].kind = "end of input"
      /\ \E S : t \in Seq(S)
  BY Zenon DEF Told
<1>3. /\ \E S : u \in Seq(S)
      /\ Len(u) = Len(t) + 1
      /\ \A i \in 1 .. Len(t) : u[i] = t[i]
      /\ u[Len(u)] = x
  <2>1. PICK S : t \in Seq(S)
    BY <1>2
  <2>2. PICK T : T = S \union {x}
    OBVIOUS
  <2>3. x \in T /\ \A y \in S : y \in T
    BY <2>2
  <2>4. t \in Seq(T)
    BY <2>1, <2>3
  <2>. QED  BY <2>3, <2>4, SeqPush
<1>lengths. Len(t) = Len(right) + k /\ Len(u) = Len(t) + 1
  BY <1>2, <1>3, Zenon
<1>. DEFINE n == Len(right)
            m == Len(t)
<1>4. n \in Nat /\ m \in Nat /\ m = n + k /\ Len(u) = m + 1
  BY <1>1, <1>lengths
<1>5. \A i \in 1 .. n : u[i] = right[i]
  <2>. HIDE DEF n, m, u, right
  <2>1. \A i \in 1 .. n : i \in 1 .. m
    BY <1>4
  <2>. QED  BY <1>2, <1>3, <2>1 DEF n, m
<1>6. \A i \in n + 1 .. Len(u) : u[i].kind = "end of input"
  <2>. HIDE DEF n, m, u, right
  <2>1. \A i \in n + 1 .. Len(u) : i = Len(u) \/ (i \in 1 .. m /\ i \in n + 1 .. m)
    BY <1>4
  <2>2. x.kind = "end of input"
    BY Zenon DEF IsEnd
  <2>. QED  BY <1>2, <1>3, <2>1, <2>2 DEF n, m
<1>7. Len(u) = n + (k + 1)
  <2>. HIDE DEF n, m, u
  <2>. QED  BY <1>4
<1>. QED  BY <1>2, <1>3, <1>5, <1>6, <1>7, Zenon DEF Told

\* The first answer is that there are no more tokens; the second one ends the scan.
LEMMA EndOfInputStays ==
  ASSUME input \in Inputs, NEW c, Reads(reader, c),
         Meant(c, mode, depth, start, text, tokens, errors, outcome), EndOfInput
  PROVE  ScanInv'
<1>. DEFINE x == Token("end of input", <<>>, start')
<1>1. Shows(c)
  BY Shown
<1>2. Length \in Nat /\ c \in 0 .. Length /\ c + 1 \in 1 .. Length + 1
  BY <1>1, Zenon DEF Shows
<1>3. /\ In("blank") /\ Eof(Primed) /\ outcome = "scanning" /\ reader' = Primed /\ mode' = "blank"
      /\ input' = input /\ tokens' = Append(tokens, x)
      /\ outcome' = IF tokens # <<>> /\ tokens[Len(tokens)].kind = "end of input" THEN "scanned" ELSE outcome
  BY Zenon DEF EndOfInput, AtToken, NoComment, In, Return
<1>4. c = Length
  BY <1>1, <1>3, Zenon DEF Shows
<1>5. IsEnd(x)
  BY DEF Token, IsEnd
<1>. HIDE DEF x
<1>6. Reads(reader', c)
  BY <1>3, Read
<1>7. CASE Rest(tokens, c + 1)
  <2>1. c + 1 > Length
    BY <1>2, <1>4
  <2>2. tokens = TokensFrom[1] /\ StopFrom[1] = c + 1 /\ tokens \in Seq(TextTokens)
    BY <1>7, <2>1, RestIsNone DEF Rest
  <2>3. Told(tokens, 0)
    <3>1. Len(tokens) = Len(TokensFrom[1]) + 0 /\ Len(TokensFrom[1]) + 1 .. Len(tokens) = {}
      BY <2>2
    <3>. QED  BY <2>1, <2>2, <3>1 DEF Told
  <2>4. Told(tokens', 1)
    <3>1. Told(Append(tokens, x), 0 + 1)
      BY <1>5, <2>3, ToldAgain
    <3>2. 0 + 1 = 1
      OBVIOUS
    <3>. QED  BY <1>3, <3>1, <3>2, Zenon
  <2>5. outcome' = "scanning"
    <3>1. tokens # <<>> => tokens[Len(tokens)] \in TextTokens
      BY <2>2
    <3>2. \A y \in TextTokens : y.kind # "end of input"
      BY TokenAtIs DEF TextTokens
    <3>. QED  BY <1>3, <3>1, <3>2
  <2>6. Meant(c, mode', depth', start', text', tokens', errors', outcome')
    BY <1>2, <1>3, <1>4, <2>4, <2>5, ByLoop
  <2>. QED  BY <1>3, <1>6, <2>6, MeaningStays
<1>8. CASE Told(tokens, 1)
  <2>1. Told(tokens', 2)
    <3>1. Told(Append(tokens, x), 1 + 1)
      BY <1>5, <1>8, ToldAgain
    <3>2. 1 + 1 = 2
      OBVIOUS
    <3>. QED  BY <1>3, <3>1, <3>2, Zenon
  <2>2. outcome' = "scanned"
    <3>1. PICK S : tokens \in Seq(S)
      BY <1>8 DEF Told
    <3>2. TokensFrom[1] \in Seq(TextTokens)
      <4>1. 1 \in 1 .. Length + 1
        BY <1>2
      <4>. QED  BY <4>1, TokensFromAre
    <3>3. /\ Len(tokens) = Len(TokensFrom[1]) + 1
          /\ \A i \in Len(TokensFrom[1]) + 1 .. Len(tokens) : tokens[i].kind = "end of input"
      BY <1>8, Zenon DEF Told
    <3>length. Len(TokensFrom[1]) \in Nat
      BY <3>2, LenProperties
    <3>long. Len(tokens) = Len(TokensFrom[1]) + 1
      BY <3>3, Zenon
    <3>4. tokens # <<>> /\ Len(tokens) \in Len(TokensFrom[1]) + 1 .. Len(tokens)
      BY <3>1, <3>long, <3>length
    <3>5. tokens[Len(tokens)].kind = "end of input"
      BY <3>3, <3>4, Zenon
    <3>. QED  BY <1>3, <3>4, <3>5
  <2>3. Meant(c, mode', depth', start', text', tokens', errors', outcome')
    BY <1>2, <1>3, <2>1, <2>2, ByLoop
  <2>. QED  BY <1>3, <1>6, <2>3, MeaningStays
<1>. QED  BY <1>3, <1>7, <1>8, InBlank

\* A word or a number is under way when its first character was read.
LEMMA StartWordStays ==
  ASSUME input \in Inputs, NEW c, Reads(reader, c),
         Meant(c, mode, depth, start, text, tokens, errors, outcome), StartWord
  PROVE  ScanInv'
<1>1. Length \in Nat /\ c \in 0 .. Length /\ c + 1 \in 1 .. Length + 1
  BY Shown, Zenon DEF Shows
<1>2. /\ AtToken /\ ~Eof(Primed) /\ (StartsNumber \/ First \in Letter) /\ outcome = "scanning"
      /\ reader' = Skip(Primed) /\ start' = Here(reader) /\ text' = <<First>>
      /\ mode' = (IF StartsNumber THEN "number" ELSE "word")
      /\ input' = input /\ tokens' = tokens /\ outcome' = "scanning"
  BY Zenon DEF StartWord, AtToken, NoComment, In
<1>3. /\ c < Length /\ Rest(tokens, c + 1) /\ BlankEnd[c + 1] = c + 1 /\ ~Unclosed(c + 1)
      /\ Here(reader) = Location(c + 1) /\ First = input[c + 1]
      /\ StartsNumber <=> NumberAt(c + 1)
  BY <1>2, TokenBegins, Zenon DEF Begins
<1>4. Reads(reader', c + 1)
  BY <1>2, <1>3, Read
<1>5. c + 1 \in 0 .. Length /\ c + 1 \in 1 .. Length /\ c + 1 \in 1 .. c + 1 /\ ((c + 1) + 1) - 1 = c + 1
  BY <1>1, <1>3
<1>6. text' = Slice(c + 1, (c + 1) + 1)
  <2>1. input \in Seq(Char) /\ c + 1 \in 1 .. Len(input)
    BY <1>5, InputType DEF Length
  <2>2. SubSeq(input, c + 1, c + 1) = <<input[c + 1]>>
    BY <2>1, SeqParts
  <2>. QED  BY <1>2, <1>3, <1>5, <2>2 DEF Slice
<1>7. mode' \in {"number", "word"}
  BY <1>2
<1>8. IF mode' = "number" THEN NumberAt(c + 1) /\ \A k \in (c + 1) + 1 .. c + 1 : input[k] \in InNumber
      ELSE ~NumberAt(c + 1) /\ input[c + 1] \in Letter /\ \A k \in c + 1 .. c + 1 : input[k] \in InWord
  <2>1. (\A k \in (c + 1) + 1 .. c + 1 : FALSE) /\ \A k \in c + 1 .. c + 1 : k = c + 1
    BY <1>1
  <2>2. \A x \in Letter : x \in InWord
    BY DEF InWord
  <2>. QED  BY <1>2, <1>3, <2>1, <2>2
<1>9. Under(c + 1, mode', start', text', tokens')
  BY <1>2, <1>3, <1>5, <1>6, <1>8, Zenon DEF Under
<1>10. Meant(c + 1, mode', depth', start', text', tokens', errors', outcome')
  BY <1>2, <1>5, <1>7, <1>9, ByLoop
<1>. QED  BY <1>2, <1>4, <1>10, MeaningStays

\* The tokens that match are those that stand here.
LEMMA CandidatesAre ==
  ASSUME input \in Inputs, NEW c, Reads(reader, c)
  PROVE  Candidates = Statics(c + 1)
<1>1. Reads(Primed, c)
  BY Read
<1>2. ASSUME NEW k \in 1 .. 26
      PROVE  PeekMatch(Primed, StaticTokens[k]) <=> At(c + 1, StaticTokens[k])
  <2>. DEFINE s == StaticTokens[k]
  <2>1. /\ \/ s = <<s[1]>> /\ Len(s) = 1
           \/ s = <<s[1], s[2]>> /\ Len(s) = 2 /\ s[2] # End
        /\ s[1] # End
    BY StaticTokensAre
  <2>. HIDE DEF s
  <2>2. CASE s = <<s[1]>>
    <3>1. PeekMatch(Primed, <<s[1]>>) <=> At(c + 1, <<s[1]>>)
      BY <1>1, <2>1, MatchOne
    <3>. QED  BY <2>2, <3>1 DEF s
  <2>3. CASE s = <<s[1], s[2]>> /\ s[2] # End
    <3>1. PeekMatch(Primed, <<s[1], s[2]>>) <=> At(c + 1, <<s[1], s[2]>>)
      BY <1>1, <2>1, <2>3, MatchTwo
    <3>. QED  BY <2>3, <3>1 DEF s
  <2>. QED  BY <2>1, <2>2, <2>3
<1>3. DOMAIN StaticTokens = 1 .. 26
  BY StaticTokensAre
<1>. QED  BY <1>2, <1>3 DEF Candidates, Statics

\* Of the tokens that never change the longest that stands here is returned.
LEMMA StaticTokenStays ==
  ASSUME input \in Inputs, NEW c, Reads(reader, c),
         Meant(c, mode, depth, start, text, tokens, errors, outcome), StaticToken
  PROVE  ScanInv'
<1>1. Length \in Nat /\ c \in 0 .. Length /\ c + 1 \in 1 .. Length + 1
  BY Shown, Zenon DEF Shows
<1>2. PICK i \in Candidates :
        /\ \A j \in Candidates : i <= j
        /\ reader' = SkipOver(Primed, StaticTokens[i]) /\ start' = Here(reader)
        /\ tokens' = Append(tokens, Token("static", StaticTokens[i], start'))
  BY Zenon DEF StaticToken, Return
<1>3. /\ AtToken /\ ~Eof(Primed) /\ ~StartsNumber /\ mode' = "blank"
      /\ input' = input /\ outcome' = "scanning"
  BY Zenon DEF StaticToken, AtToken, NoComment, In
<1>4. Begins(c)
  BY <1>3, TokenBegins
<1>5. c < Length /\ Here(reader) = Location(c + 1) /\ ~NumberAt(c + 1) /\ c + 1 \in 1 .. Length
  BY <1>3, <1>4, Zenon DEF Begins
<1>6. i \in Statics(c + 1) /\ \A j \in Statics(c + 1) : i <= j
  BY <1>2, CandidatesAre
<1>. DEFINE s == StaticTokens[i]
            m == Longest(c + 1)
<1>7. s = StaticTokens[m]
  BY <1>5, <1>6, LongestIs
<1>8. TokenAt(c + 1) = Token("static", s, start') /\ TokenEnd(c + 1) = (c + 1) + Len(s)
  <2>1. Statics(c + 1) # {}
    BY <1>6
  <2>2. TokenAt(c + 1) = Token("static", StaticTokens[m], Location(c + 1))
    BY <1>5, <2>1, TokenAtIs
  <2>3. TokenEnd(c + 1) = (c + 1) + Len(StaticTokens[m])
    BY <1>5, <2>1, TokenEndIs
  <2>. HIDE DEF s, m
  <2>. QED  BY <1>2, <1>5, <1>7, <2>2, <2>3
<1>9. Len(s) \in {1, 2} /\ (c + 1) + Len(s) - 1 <= Length
  <2>1. i \in 1 .. 26 /\ At(c + 1, s)
    BY <1>6, StaticTokensAre DEF Statics
  <2>2. Len(s) \in {1, 2}
    BY <2>1, StaticTokensAre
  <2>. HIDE DEF s
  <2>. QED  BY <2>1, <2>2 DEF At
<1>. HIDE DEF s, m
<1>10. PICK e : e = c + Len(s)
  OBVIOUS
<1>11. e \in 0 .. Length /\ c + Len(s) <= Length /\ (c + 1) + Len(s) = e + 1
  BY <1>1, <1>9, <1>10
<1>12. Reads(reader', e)
  <2>1. Reads(Primed, c)
    BY Read
  <2>2. Reads(SkipOver(Primed, s), c + Len(s))
    BY <1>9, <1>11, <2>1, SkipOverIs
  <2>. QED  BY <1>2, <1>10, <2>2 DEF s
<1>13. Rest(tokens', e + 1)
  <2>1. Rest(Append(tokens, TokenAt(c + 1)), TokenEnd(c + 1))
    BY <1>4, TokenReturned
  <2>2. tokens' = Append(tokens, TokenAt(c + 1)) /\ TokenEnd(c + 1) = e + 1
    BY <1>2, <1>8, <1>11 DEF s
  <2>. QED  BY <2>1, <2>2
<1>14. Meant(e, mode', depth', start', text', tokens', errors', outcome')
  BY <1>3, <1>11, <1>13, ByLoop
<1>. QED  BY <1>3, <1>12, <1>14, MeaningStays

\* A character that begins no token is returned as an unexpected one.
LEMMA UnexpectedStays ==
  ASSUME input \in Inputs, NEW c, Reads(reader, c),
         Meant(c, mode, depth, start, text, tokens, errors, outcome), UnexpectedCharacter
  PROVE  ScanInv'
<1>1. Length \in Nat /\ c \in 0 .. Length /\ c + 1 \in 1 .. Length + 1
  BY Shown, Zenon DEF Shows
<1>2. /\ AtToken /\ ~Eof(Primed) /\ ~StartsNumber /\ First \notin Letter /\ Candidates = {}
      /\ reader' = Skip(Primed) /\ start' = Here(reader) /\ mode' = "blank"
      /\ tokens' = Append(tokens, Token("unexpected", <<First>>, start'))
      /\ input' = input /\ outcome' = "scanning"
  BY Zenon DEF UnexpectedCharacter, AtToken, NoComment, In, Return
<1>3. Begins(c)
  BY <1>2, TokenBegins
<1>4. /\ c < Length /\ Here(reader) = Location(c + 1) /\ First = input[c + 1]
      /\ ~NumberAt(c + 1) /\ c + 1 \in 1 .. Length /\ c + 1 \in 0 .. Length
  BY <1>2, <1>3, Zenon DEF Begins
<1>5. Statics(c + 1) = {} /\ input[c + 1] \notin Letter
  BY <1>2, <1>4, CandidatesAre
<1>6. tokens' = Append(tokens, TokenAt(c + 1)) /\ TokenEnd(c + 1) = (c + 1) + 1
  <2>1. TokenAt(c + 1) = Token("unexpected", <<input[c + 1]>>, Location(c + 1))
    BY <1>4, <1>5, TokenAtIs
  <2>2. TokenEnd(c + 1) = (c + 1) + 1
    BY <1>4, <1>5, TokenEndIs
  <2>. QED  BY <1>2, <1>4, <2>1, <2>2
<1>7. Rest(tokens', (c + 1) + 1)
  <2>1. Rest(Append(tokens, TokenAt(c + 1)), TokenEnd(c + 1))
    BY <1>3, TokenReturned
  <2>. QED  BY <1>6, <2>1
<1>8. Reads(reader', c + 1)
  BY <1>2, <1>4, Read
<1>9. Meant(c + 1, mode', depth', start', text', tokens', errors', outcome')
  BY <1>2, <1>4, <1>7, ByLoop
<1>. QED  BY <1>2, <1>8, <1>9, MeaningStays

\* Inside a word or a number, from s on.
LEMMA WordUnder ==
  ASSUME input \in Inputs, NEW c, Reads(reader, c),
         Meant(c, mode, depth, start, text, tokens, errors, outcome), In("number") \/ In("word")
  PROVE  Under(c, mode, start, text, tokens) /\ mode \in {"number", "word"}
  BY Zenon DEF Meant, In

\* Another character of the word or the number.
LEMMA GrowWordStays ==
  ASSUME input \in Inputs, NEW c, Reads(reader, c),
         Meant(c, mode, depth, start, text, tokens, errors, outcome), GrowWord
  PROVE  ScanInv'
<1>1. Length \in Nat /\ c \in 0 .. Length /\ c + 1 \in 1 .. Length + 1
  BY Shown, Zenon DEF Shows
<1>2. /\ In("number") \/ In("word")
      /\ First \in (IF mode = "number" THEN InNumber ELSE InWord) /\ ~Eof(Prime(reader, 1))
      /\ reader' = Skip(reader) /\ text' = Append(text, First) /\ mode' = mode /\ start' = start
      /\ input' = input /\ tokens' = tokens /\ outcome' = "scanning"
  BY Zenon DEF GrowWord, Grows, In
<1>3. Under(c, mode, start, text, tokens) /\ mode \in {"number", "word"}
  BY <1>2, WordUnder
<1>4. c # Length
  BY <1>2, Shown, Zenon DEF Shows
<1>5. c < Length /\ c + 1 \in 0 .. Length
  BY <1>1, <1>4
<1>6. First = input[c + 1]
  <2>1. Shows(c)
    BY Shown
  <2>. QED  BY <1>5, <2>1, Zenon DEF Shows
<1>7. Reads(reader', c + 1)
  BY <1>2, <1>5, Read
<1>8. PICK s \in 1 .. c :
        /\ Rest(tokens, s) /\ BlankEnd[s] = s /\ ~Unclosed(s)
        /\ start = Location(s) /\ text = Slice(s, c + 1)
        /\ IF mode = "number" THEN NumberAt(s) /\ \A k \in s + 1 .. c : input[k] \in InNumber
           ELSE ~NumberAt(s) /\ input[s] \in Letter /\ \A k \in s .. c : input[k] \in InWord
  BY <1>3, Zenon DEF Under
<1>9. text' = Slice(s, (c + 1) + 1)
  <2>1. input \in Seq(Char) /\ Len(input) = Length /\ input[c + 1] \in Char
    <3>1. c + 1 \in 1 .. Length
      BY <1>1, <1>5
    <3>. QED  BY <3>1, InputType DEF Length
  <2>2. s \in 1 .. Len(input) /\ c + 1 \in s .. Len(input) /\ (c + 1) - 1 = c /\ ((c + 1) + 1) - 1 = c + 1
    BY <1>1, <1>5, <2>1
  <2>3. SubSeq(input, s, c + 1) = SubSeq(input, s, (c + 1) - 1) \o <<input[c + 1]>>
    BY <2>1, <2>2, SubSeqRecursiveSecond
  <2>4. \A k \in s .. c : input[k] \in Char
    <3>1. \A k \in s .. c : k \in 1 .. Length
      BY <1>1
    <3>. QED  BY <3>1, InputType
  <2>5. SubSeq(input, s, c) \in Seq(Char)
    BY <1>1, <2>1, <2>2, <2>4, SubSeqProperties
  <2>6. Append(SubSeq(input, s, c), input[c + 1]) = SubSeq(input, s, c) \o <<input[c + 1]>>
    BY <2>1, <2>5, AppendIsConcat
  <2>7. Slice(s, (c + 1) + 1) = SubSeq(input, s, c + 1) /\ text = SubSeq(input, s, c)
    BY <1>8, <2>2, Zenon DEF Slice
  <2>. QED  BY <1>2, <1>6, <2>2, <2>3, <2>6, <2>7, Zenon
<1>10. IF mode = "number" THEN NumberAt(s) /\ \A k \in s + 1 .. c + 1 : input[k] \in InNumber
       ELSE ~NumberAt(s) /\ input[s] \in Letter /\ \A k \in s .. c + 1 : input[k] \in InWord
  <2>1. /\ \A k \in s + 1 .. c + 1 : k = c + 1 \/ k \in s + 1 .. c
        /\ \A k \in s .. c + 1 : k = c + 1 \/ k \in s .. c
    BY <1>1
  <2>. QED  BY <1>2, <1>6, <1>8, <2>1
<1>11. s \in 1 .. c + 1
  BY <1>1
<1>12. Under(c + 1, mode', start', text', tokens')
  BY <1>2, <1>8, <1>9, <1>10, <1>11, Zenon DEF Under
<1>13. Meant(c + 1, mode', depth', start', text', tokens', errors', outcome')
  BY <1>2, <1>3, <1>5, <1>12, ByLoop
<1>. QED  BY <1>2, <1>7, <1>13, MeaningStays

\* Where a word or a number does not grow, the token has its end.
LEMMA WordEnds ==
  ASSUME input \in Inputs, NEW c, Reads(reader, c),
         Meant(c, mode, depth, start, text, tokens, errors, outcome), In("number") \/ In("word"),
         ~Grows \/ Eof(Prime(reader, 1))
  PROVE  \E s \in 1 .. Length :
           /\ Rest(Append(tokens, TokenAt(s)), c + 1) /\ TokenEnd(s) = c + 1
           /\ start = Location(s) /\ text = Written(s)
           /\ IF mode = "number" THEN NumberAt(s) ELSE input[s] \in Letter
<1>1. Length \in Nat /\ c \in 0 .. Length /\ c + 1 \in 1 .. Length + 1
  BY Shown, Zenon DEF Shows
<1>2. Under(c, mode, start, text, tokens) /\ mode \in {"number", "word"}
  BY WordUnder
<1>3. PICK s \in 1 .. c :
        /\ Rest(tokens, s) /\ BlankEnd[s] = s /\ ~Unclosed(s)
        /\ start = Location(s) /\ text = Slice(s, c + 1)
        /\ IF mode = "number" THEN NumberAt(s) /\ \A k \in s + 1 .. c : input[k] \in InNumber
           ELSE ~NumberAt(s) /\ input[s] \in Letter /\ \A k \in s .. c : input[k] \in InWord
  BY <1>2, Zenon DEF Under
<1>4. /\ s \in 1 .. Length /\ s \in 1 .. Length + 1 /\ s + 1 \in 1 .. Length + 1
      /\ c + 1 \in s .. Length + 1 /\ c + 1 \in s + 1 .. Length + 1 /\ (c + 1) - 1 = c
  BY <1>1
<1>5. c + 1 <= Length => input[c + 1] \notin (IF mode = "number" THEN InNumber ELSE InWord)
  <2>1. SUFFICES ASSUME c + 1 <= Length
                 PROVE  input[c + 1] \notin (IF mode = "number" THEN InNumber ELSE InWord)
    OBVIOUS
  <2>2. c # Length /\ c < Length
    BY <1>1, <2>1
  <2>3. ~Grows /\ First = input[c + 1]
    BY <2>2, Shown, Zenon DEF Shows
  <2>. QED  BY <2>3, Zenon DEF Grows
<1>6. CASE mode = "number"
  <2>1. Run(s + 1, InNumber, c + 1)
    BY <1>3, <1>4, <1>5, <1>6, Zenon DEF Run
  <2>2. TokenEnd(s) = c + 1
    <3>1. c + 1 = RunEnd(s + 1, InNumber)
      BY <1>4, <2>1, RunEndIs
    <3>. QED  BY <1>3, <1>4, <1>6, <3>1, TokenEndIs
  <2>. QED  BY <1>3, <1>4, <1>6, <2>2, RestAfter, Zenon DEF Written
<1>7. CASE mode = "word"
  <2>1. Run(s, InWord, c + 1) /\ input[s] \in Letter
    BY <1>3, <1>4, <1>5, <1>7 DEF Run
  <2>2. TokenEnd(s) = c + 1
    <3>1. c + 1 = RunEnd(s, InWord)
      BY <1>4, <2>1, RunEndIs
    <3>. QED  BY <1>4, <2>1, <3>1, TokenEndIs
  <2>3. mode # "number"
    BY <1>7
  <2>. QED  BY <1>3, <1>4, <2>1, <2>2, <2>3, RestAfter, Zenon DEF Written
<1>. QED  BY <1>2, <1>6, <1>7

\* A word is returned as a keyword or an identifier.
LEMMA EndWordStays ==
  ASSUME input \in Inputs, NEW c, Reads(reader, c),
         Meant(c, mode, depth, start, text, tokens, errors, outcome), EndWord
  PROVE  ScanInv'
<1>1. Length \in Nat /\ c \in 0 .. Length /\ c + 1 \in 1 .. Length + 1
  BY Shown, Zenon DEF Shows
<1>2. /\ In("word") /\ mode = "word" /\ (~Grows \/ Eof(Prime(reader, 1)))
      /\ reader' = Prime(reader, 1) /\ mode' = "blank"
      /\ tokens' = Append(tokens, Token(IF text \in Keywords THEN "keyword" ELSE "identifier", text, start))
      /\ input' = input /\ outcome' = "scanning"
  BY Zenon DEF EndWord, Return, In
<1>3. PICK s \in 1 .. Length :
        /\ Rest(Append(tokens, TokenAt(s)), c + 1) /\ TokenEnd(s) = c + 1
        /\ start = Location(s) /\ text = Written(s)
        /\ IF mode = "number" THEN NumberAt(s) ELSE input[s] \in Letter
  BY <1>2, WordEnds
<1>4. TokenAt(s) = Token(IF Written(s) \in Keywords THEN "keyword" ELSE "identifier", Written(s), Location(s))
  <2>1. input[s] \in Letter
    BY <1>2, <1>3
  <2>. QED  BY <2>1, TokenAtIs
<1>5. Rest(tokens', c + 1)
  BY <1>2, <1>3, <1>4
<1>6. Reads(reader', c)
  BY <1>2, Read
<1>7. Meant(c, mode', depth', start', text', tokens', errors', outcome')
  BY <1>1, <1>2, <1>5, ByLoop
<1>. QED  BY <1>2, <1>6, <1>7, MeaningStays

\* A number is returned, or what it has instead when it is out of range.
LEMMA EndNumberStays ==
  ASSUME input \in Inputs, NEW c, Reads(reader, c),
         Meant(c, mode, depth, start, text, tokens, errors, outcome), EndNumber
  PROVE  ScanInv'
<1>. DEFINE kind == IF Points(text) = {} THEN "int" ELSE "float"
<1>1. Length \in Nat /\ c \in 0 .. Length /\ c + 1 \in 1 .. Length + 1
  BY Shown, Zenon DEF Shows
<1>2. /\ In("number") /\ mode = "number" /\ (~Grows \/ Eof(Prime(reader, 1)))
      /\ reader' = Prime(reader, 1) /\ mode' = "blank"
      /\ input' = input /\ outcome' = "scanning"
  BY Zenon DEF EndNumber, In
<1>3. IF InRange(text) THEN tokens' = Append(tokens, Token(kind, text, start))
      ELSE tokens' = Append(tokens, Token("unexpected", <<First>>, start))
  BY Zenon DEF EndNumber, Return
<1>4. PICK s \in 1 .. Length :
        /\ Rest(Append(tokens, TokenAt(s)), c + 1) /\ TokenEnd(s) = c + 1
        /\ start = Location(s) /\ text = Written(s)
        /\ IF mode = "number" THEN NumberAt(s) ELSE input[s] \in Letter
  BY <1>2, WordEnds
<1>5. TokenAt(s) = IF InRange(Written(s))
                   THEN Token(IF Points(Written(s)) = {} THEN "int" ELSE "float", Written(s), Location(s))
                   ELSE Token("unexpected", <<CharAt(TokenEnd(s))>>, Location(s))
  <2>1. NumberAt(s)
    BY <1>2, <1>4
  <2>. QED  BY <2>1, TokenAtIs
<1>6. CharAt(c + 1) = First
  BY PeekIs DEF First
<1>7. tokens' = Append(tokens, TokenAt(s))
  <2>1. CASE InRange(text)
    BY <1>3, <1>4, <1>5, <2>1, Zenon
  <2>2. CASE ~InRange(text)
    BY <1>3, <1>4, <1>5, <1>6, <2>2, Zenon
  <2>. QED  BY <2>1, <2>2
<1>8. Rest(tokens', c + 1)
  BY <1>4, <1>7
<1>9. Reads(reader', c)
  BY <1>2, Read
<1>10. Meant(c, mode', depth', start', text', tokens', errors', outcome')
  BY <1>1, <1>2, <1>8, ByLoop
<1>. QED  BY <1>2, <1>9, <1>10, MeaningStays

\* Nothing was consumed yet, and all tokens are to be read.
LEMMA ScanInit == Init => ScanInv
<1>. SUFFICES ASSUME Init
              PROVE  ScanInv
  OBVIOUS
<1>1. input \in Inputs /\ mode = "blank" /\ tokens = <<>> /\ outcome = "scanning"
  BY DEF Init
<1>2. Length \in Nat
  BY <1>1, InputType
<1>3. 0 \in 0 .. Length /\ 1 \in 1 .. Length + 1 /\ 0 + 1 = 1
  BY <1>2
<1>4. Reads(reader, 0)
  BY ReaderBegins DEF Reads, Short
<1>5. Rest(tokens, 0 + 1)
  <2>1. TokensFrom[1] \in Seq(TextTokens)
    BY <1>1, <1>3, TokensFromAre
  <2>2. <<>> \o TokensFrom[1] = TokensFrom[1] /\ tokens \in Seq(TextTokens)
    BY <1>1, <2>1, ConcatEmptySeq
  <2>. QED  BY <1>1, <1>3, <2>2 DEF Rest
<1>6. Meant(0, mode, depth, start, text, tokens, errors, outcome)
  BY <1>1, <1>3, <1>5, ByLoop
<1>. QED  BY <1>1, <1>4, <1>6, Zenon DEF ScanInv

\* Whatever the lexer does, what it has returned and what is to be read make up the tokens.
LEMMA ScanNext == ScanInv /\ [Next]_vars => ScanInv'
<1>. SUFFICES ASSUME ScanInv, [Next]_vars
              PROVE  ScanInv'
  OBVIOUS
<1>1. PICK c : Reads(reader, c) /\ Meant(c, mode, depth, start, text, tokens, errors, outcome)
  BY DEF ScanInv
<1>2. input \in Inputs
  BY DEF ScanInv
<1>3. CASE StartLineComment \/ SkipInLineComment \/ EndLineComment
  BY <1>1, <1>2, <1>3, LineCommentStays
<1>4. CASE StartComment
  BY <1>1, <1>2, <1>4, StartCommentStays
<1>5. CASE InnerComment \/ EndComment \/ SkipInComment \/ UnterminatedComment
  BY <1>1, <1>2, <1>5, CommentStays
<1>6. CASE SkipWhite
  BY <1>1, <1>2, <1>6, SkipWhiteStays
<1>7. CASE EndOfInput
  BY <1>1, <1>2, <1>7, EndOfInputStays
<1>8. CASE StartWord
  BY <1>1, <1>2, <1>8, StartWordStays
<1>9. CASE StaticToken
  BY <1>1, <1>2, <1>9, StaticTokenStays
<1>10. CASE UnexpectedCharacter
  BY <1>1, <1>2, <1>10, UnexpectedStays
<1>11. CASE GrowWord
  BY <1>1, <1>2, <1>11, GrowWordStays
<1>12. CASE EndWord
  BY <1>1, <1>2, <1>12, EndWordStays
<1>13. CASE EndNumber
  BY <1>1, <1>2, <1>13, EndNumberStays
<1>14. CASE Stopped \/ UNCHANGED vars
  <2>1. /\ input' = input /\ reader' = reader /\ mode' = mode /\ depth' = depth /\ start' = start
        /\ text' = text /\ tokens' = tokens /\ errors' = errors /\ outcome' = outcome
    BY <1>14 DEF Stopped, vars
  <2>2. Reads(reader', c) /\ Meant(c, mode', depth', start', text', tokens', errors', outcome')
    BY <1>1, <2>1
  <2>. QED  BY <1>2, <2>1, <2>2, MeaningStays
<1>. QED  BY <1>3, <1>4, <1>5, <1>6, <1>7, <1>8, <1>9, <1>10, <1>11, <1>12, <1>13, <1>14, Zenon DEF Next, Blank, Extract

\* What is returned begins the tokens of the text, as long as there is a rest.
LEMMA RestBegins ==
  ASSUME input \in Inputs, NEW t, NEW i, Rest(t, i)
  PROVE  /\ t \in Seq(TextTokens) /\ TokensFrom[1] \in Seq(TextTokens)
         /\ Len(t) \in Nat /\ Len(TokensFrom[1]) \in Nat /\ Len(t) <= Len(TokensFrom[1])
         /\ \A k \in 1 .. Len(t) : t[k] = TokensFrom[1][k]
<1>. DEFINE u == TokensFrom[i]
            v == TokensFrom[1]
<1>1. i \in 1 .. Length + 1 /\ t \in Seq(TextTokens) /\ t \o u = v
  BY DEF Rest
<1>2. Length \in Nat /\ 1 \in 1 .. Length + 1
  <2>1. Length \in Nat
    BY InputType
  <2>. QED  BY <2>1
<1>3. u \in Seq(TextTokens) /\ v \in Seq(TextTokens)
  BY <1>1, <1>2, TokensFromAre
<1>. HIDE DEF u, v
<1>4. /\ Len(t \o u) = Len(t) + Len(u) /\ Len(t) \in Nat /\ Len(u) \in Nat /\ Len(v) \in Nat
      /\ \A k \in 1 .. Len(t) + Len(u) : (t \o u)[k] = IF k <= Len(t) THEN t[k] ELSE u[k - Len(t)]
  BY <1>1, <1>3, ConcatProperties, LenProperties
<1>5. Len(t) <= Len(v) /\ \A k \in 1 .. Len(t) : t[k] = v[k]
  BY <1>1, <1>4
<1>. QED  BY <1>1, <1>3, <1>4, <1>5 DEF v

\* What was said of all tokens, to the property.
LEMMA ScanMeans == ScanInv => TokensAreRight
<1>. SUFFICES ASSUME ScanInv
              PROVE  TokensAreRight
  OBVIOUS
<1>. DEFINE right == TokensFrom[1]
            stop == StopFrom[1]
<1>1. PICK c : Reads(reader, c) /\ Meant(c, mode, depth, start, text, tokens, errors, outcome)
  BY DEF ScanInv
<1>2. input \in Inputs
  BY DEF ScanInv
<1>3. Len(right) \in Nat
  <2>1. Length \in Nat
    BY <1>2, InputType
  <2>2. 1 \in 1 .. Length + 1
    BY <2>1
  <2>3. right \in Seq(TextTokens)
    BY <1>2, <2>2, TokensFromAre
  <2>. HIDE DEF right
  <2>. QED  BY <2>3, LenProperties
<1>4. ASSUME NEW i, Rest(tokens, i), outcome = "scanning"
      PROVE  TokensAreRight
  <2>1. /\ tokens \in Seq(TextTokens) /\ Len(tokens) \in Nat /\ Len(tokens) <= Len(right)
        /\ \A k \in 1 .. Len(tokens) : tokens[k] = right[k]
    BY <1>2, <1>4, RestBegins
  <2>. HIDE DEF right
  <2>2. ~(Len(tokens) - Len(right) > 0) /\ DOMAIN tokens = 1 .. Len(tokens)
    BY <1>3, <2>1
  <2>. QED  BY <1>4, <2>1, <2>2, Zenon DEF TokensAreRight, right
<1>5. ASSUME NEW k \in {1, 2}, Told(tokens, k), outcome = "scanning" \/ (outcome = "scanned" /\ k = 2)
      PROVE  TokensAreRight
  <2>1. /\ stop > Length
        /\ Len(tokens) = Len(right) + k
        /\ \A i \in 1 .. Len(right) : tokens[i] = right[i]
        /\ \A i \in Len(right) + 1 .. Len(tokens) : tokens[i].kind = "end of input"
        /\ \E S : tokens \in Seq(S)
    BY <1>5, Zenon DEF Told
  <2>long. Len(tokens) = Len(right) + k /\ \E S : tokens \in Seq(S)
    BY <2>1, Zenon
  <2>. HIDE DEF right, stop
  <2>2. /\ DOMAIN tokens = 1 .. Len(tokens) /\ Len(tokens) - Len(right) = k
    BY <1>3, <1>5, <2>long
  <2>3. \A i \in DOMAIN tokens : (i <= Len(right) => i \in 1 .. Len(right))
                                 /\ (i > Len(right) => i \in Len(right) + 1 .. Len(tokens))
    BY <1>3, <1>5, <2>long, <2>2
  <2>4. outcome # "aborted" /\ (outcome = "scanned" => k = 2)
    BY <1>5
  <2>. QED  BY <2>1, <2>2, <2>3, <2>4, Zenon DEF TokensAreRight, right, stop
<1>6. ASSUME Within(c, depth, start, tokens, errors, outcome)
      PROVE  TokensAreRight
  <2>1. CASE CommentEnd[c + 1][depth] # 0
    BY <1>4, <1>6, <2>1 DEF Within
  <2>2. CASE CommentEnd[c + 1][depth] = 0
    <3>1. /\ outcome \in {"scanning", "aborted"} /\ tokens = right /\ stop <= Length
          /\ start = Location(stop)
          /\ outcome = "aborted" => <<"UnexpectedEofInMultilineComment", start>> \in errors
      BY <1>6, <2>2 DEF Within
    <3>2. Len(tokens) - Len(right) = 0 /\ ~(Len(tokens) - Len(right) > 0) /\ outcome # "scanned"
      <4>. HIDE DEF right, stop
      <4>. QED  BY <1>3, <3>1
    <3>. QED  BY <3>1, <3>2, Zenon DEF TokensAreRight
  <2>. QED  BY <2>1, <2>2
<1>7. CASE mode = "blank"
  BY <1>1, <1>4, <1>5, <1>7 DEF Meant
<1>8. CASE mode = "line comment"
  BY <1>1, <1>4, <1>8 DEF Meant
<1>9. CASE mode = "comment"
  BY <1>1, <1>6, <1>9 DEF Meant
<1>10. CASE mode \in {"number", "word"}
  BY <1>1, <1>4, <1>10 DEF Meant, Under
<1>11. mode \in {"blank", "line comment", "comment", "number", "word"}
  BY <1>1, Zenon DEF Meant
<1>. QED  BY <1>7, <1>8, <1>9, <1>10, <1>11

\* For every text the lexer returns the tokens of the text, then that it has ended;
\* or it reports the comment that is never closed, where the tokens stop.
THEOREM TokensCorrect == Spec => []TokensAreRight
<1>1. Spec => []ScanInv
  BY ScanInit, ScanNext, PTL DEF Spec
<1>. QED  BY <1>1, ScanMeans, PTL

=============================================================================
