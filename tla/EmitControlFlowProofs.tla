------------------------ MODULE EmitControlFlowProofs ------------------------
(***************************************************************************)
(* Proof, for every set of programs, that whatever is nested in what the   *)
(* insertion point is in an open block of the function whose code is       *)
(* emitted, and that all other blocks are finished.                        *)
(***************************************************************************)
EXTENDS EmitControlFlow, SequenceLemmas, SequenceTheorems, TLAPS

-----------------------------------------------------------------------------
(***************************************************************************)
(* Programs: the expressions below another one are in every set that has   *)
(* this one and the operands of all that it has.                           *)
(***************************************************************************)
Closed(U)  == \A n \in U : \A i \in DOMAIN Kids(n) : Kids(n)[i] \in U
Below(n)   == {m \in Node : \A U \in SUBSET Node : n \in U /\ Closed(U) => m \in U}

(***************************************************************************)
(* The stack: every activation but the last has called an operand.         *)
(***************************************************************************)
Frame == [node : Node, step : -1 .. 3, vals : Seq(Operand), kept : Seq(Block)]

\* The operand that was called last, and those that still wait.
Called(a)  == IF Is(a.node, "equal") THEN 3 - a.step ELSE a.step
Waiting(a) == {k \in DOMAIN Kids(a.node) :
                 a.step # -1 /\ (IF Is(a.node, "equal") THEN k < 3 - a.step ELSE k > a.step)}

MainBegin == <<program.main, "begin">>

FrameFits(st, pen, i) ==
  /\ st[i].step <= Operands(st[i].node)
  /\ st[i].step = -1 => /\ i = 2 /\ st[1].step = 0 /\ st[2].kept = <<MainBegin>>
                        /\ st[2].node \in program.functions /\ st[2].node \notin pen
  /\ i < Len(st) =>
       /\ st[i].step = -1 => st[i + 1].node = st[i].node
       /\ st[i].step = 0 => i = 1 /\ st[2].step = -1
       /\ st[i].step >= 1 => st[i + 1].node = Kids(st[i].node)[Called(st[i])]

Shape(st, pen) ==
  /\ st \in Seq(Frame) /\ st # <<>> /\ st[1].node = program.main /\ st[1].step # -1
  /\ \A i \in DOMAIN st : FrameFits(st, pen, i)
  /\ \A i, j \in DOMAIN st : i < j /\ st[i].node = st[j].node => st[i].step = -1
  /\ pen # {} => st[1].step = 0

(***************************************************************************)
(* What has not been visited has no blocks, and what is being visited has  *)
(* those of its visitor's steps.                                           *)
(***************************************************************************)
Attached(att, b)  == \E f \in Node : b \in att[f]
Untouched(att, n) == \A m \in Below(n), r \in Role : ~Attached(att, <<m, r>>)

Opens == [condition |-> 1, body |-> 2, then |-> 2, else |-> 3, rValue |-> 2]

Unvisited(st, att, n) == Untouched(att, n) /\ \A j \in DOMAIN st : st[j].node \notin Below(n)

Apart(st, pen, att) ==
  /\ \A i \in DOMAIN st : \A k \in Waiting(st[i]) : Unvisited(st, att, Kids(st[i].node)[k])
  /\ \A f \in pen : Unvisited(st, att, f)
  /\ \A i \in DOMAIN st : st[i].step # -1 =>
       \A r \in Role \ {"begin"} : Attached(att, <<st[i].node, r>>) => r \in DOMAIN Opens /\ st[i].step >= Opens[r]

(***************************************************************************)
(* Blocks: one function has each, and all are finished but two.            *)
(***************************************************************************)
\* Conditional branches name the two blocks that they branch to.
Sound(x)    == x.op = "condbr" => x.yes \in x.to /\ x.no \in x.to
Sequence(s) == s \in Seq(Range(s)) /\ \A i \in DOMAIN s : Sound(s[i])
Ends(s) == {i \in DOMAIN s : Terminates(s[i])}

Wrapped(st) == Len(st) >= 2 /\ st[2].step = -1
Root(st) == IF Wrapped(st) THEN st[2].node ELSE program.main
Suspended(st) == IF Wrapped(st) THEN {MainBegin} ELSE {}

Finished(cod, b, open) == Ends(cod[b]) = IF b \in open THEN {} ELSE {Len(cod[b])}

Blocks(root, suspended, ins, att, cod) ==
  /\ ins \in att[root] /\ ins \notin suspended
  /\ \A f, g \in Node : \A b \in att[f] : b \in att[g] => f = g
  /\ \A b \in Block : IF Attached(att, b) THEN Finished(cod, b, suspended \union {ins}) ELSE cod[b] = <<>>

\* Of each variable by itself.
Typed ==
  /\ phase \in {"emit", "asserted", "run", "over"}
  /\ insert \in Block /\ attached \in [Node -> SUBSET Block] /\ pending \subseteq Node
  /\ DOMAIN code = Block /\ pc[1] \in Block /\ came \in Block
  /\ \A i \in DOMAIN stack : /\ stack[i].node \in Node /\ stack[i].step \in -1 .. 3
                             /\ Range(stack[i].vals) \subseteq Operand
                             /\ Range(stack[i].kept) \subseteq Block

EmitInv ==
  /\ Typed /\ program \in Programs
  /\ \A b \in Block : Sequence(code[b])
  /\ phase = "emit" =>
       /\ pending \subseteq program.functions
       /\ \A f \in (program.functions \ pending) \union {program.main} : <<f, "begin">> \in attached[f]
       /\ \A f \in pending : attached[f] = {}
       /\ stack = <<>> => pending = {}
       /\ stack # <<>> /\ stack[1].step = 0 => Wrapped(stack) \/ insert = MainBegin
       /\ stack # <<>> => /\ Shape(stack, pending) /\ Apart(stack, pending, attached)
                          /\ Blocks(Root(stack), Suspended(stack), insert, attached, code)
  /\ phase = "run" =>
       /\ Verifies
       /\ \E f \in Node : pc[1] \in attached[f] /\ pc[2] \in DOMAIN code[pc[1]]

-----------------------------------------------------------------------------
(***************************************************************************)
(* Programs.                                                               *)
(***************************************************************************)

\* The operands of an expression, and how many it has.
LEMMA KidsType ==
  ASSUME program \in Programs
  PROVE  /\ program.main \in Node /\ program.functions \subseteq Node /\ program.main \notin program.functions
         /\ Is(program.main, "module")
         /\ \A n \in Node : /\ Kids(n) \in Seq(Node) /\ Operands(n) \in 0 .. 3
                            /\ DOMAIN Kids(n) = 1 .. Operands(n)
                            /\ program.kind[n] \in Kind
                            /\ Operands(n) \in Arity[program.kind[n]]
                            /\ Is(n, "module") => n = program.main
<1>1. /\ program.kind \in [Node -> Kind] /\ program.kids \in [Node -> Seq(Node)]
      /\ program.functions \subseteq Node /\ program.main \in Node /\ program.kind[program.main] = "module"
      /\ \A n \in Node : Len(program.kids[n]) \in Arity[program.kind[n]]
  BY ProgramsAssumption
<1>2. program.main \notin program.functions /\ \A n \in Node : program.kind[n] = "module" => n = program.main
  BY ForestAssumption
<1>3. \A k \in Kind : Arity[k] \subseteq 0 .. 3
  BY DEF Kind, Arity
<1>4. ASSUME NEW n \in Node
      PROVE  /\ Kids(n) \in Seq(Node) /\ Operands(n) \in 0 .. 3
             /\ DOMAIN Kids(n) = 1 .. Operands(n)
             /\ program.kind[n] \in Kind
             /\ Operands(n) \in Arity[program.kind[n]]
  <2>1. program.kids[n] \in Seq(Node) /\ program.kind[n] \in Kind /\ Len(program.kids[n]) \in Arity[program.kind[n]]
    BY <1>1
  <2>2. DOMAIN program.kids[n] = 1 .. Len(program.kids[n])
    BY <2>1, LenProperties
  <2>3. Len(program.kids[n]) \in 0 .. 3
    BY <1>3, <2>1
  <2>. QED  BY <2>1, <2>2, <2>3, Zenon DEF Kids, Operands
<1>. QED  BY <1>1, <1>2, <1>4, Zenon DEF Is

\* Operands come after the expression they are part of and are no roots; an
\* expression is an operand once.
LEMMA KidsAreApart ==
  ASSUME program \in Programs, NEW n \in Node, NEW i \in DOMAIN Kids(n)
  PROVE  /\ Kids(n)[i] \in Node /\ Kids(n)[i] > n /\ n \in Nat /\ Kids(n)[i] \in Nat
         /\ Kids(n)[i] # program.main /\ Kids(n)[i] \notin program.functions
         /\ \A m \in Node : \A j \in DOMAIN Kids(m) : Kids(n)[i] = Kids(m)[j] => n = m /\ i = j
<1>1. program.kids[n] \in Seq(Node)
  BY ProgramsAssumption
<1>2. program.kids[n][i] \in Node
  BY <1>1 DEF Kids
<1>3. program.kids[n][i] > n
  BY ProgramsAssumption DEF Kids
<1>4. n \in Nat /\ program.kids[n][i] \in Nat
  BY <1>2, NodeAssumption
<1>5. /\ program.kids[n][i] \notin program.functions \union {program.main}
      /\ \A m \in Node : \A j \in DOMAIN program.kids[m] : program.kids[n][i] = program.kids[m][j] => n = m /\ i = j
  BY ForestAssumption DEF Kids
<1>. QED  BY <1>2, <1>3, <1>4, <1>5 DEF Kids

\* How many operands the visitors may count on.
LEMMA Arities ==
  ASSUME program \in Programs, NEW n \in Node
  PROVE  /\ Is(n, "equal") => Operands(n) = 2
         /\ Is(n, "and") => Operands(n) = 2
         /\ Is(n, "or") => Operands(n) = 2
         /\ Is(n, "if") => Operands(n) \in {2, 3}
         /\ Is(n, "while") => Operands(n) = 2
         /\ Is(n, "assert") => Operands(n) = 1
<1>1. Operands(n) \in Arity[program.kind[n]]
  BY KidsType
<1>2. /\ Arity["equal"] = {2} /\ Arity["and"] = {2} /\ Arity["or"] = {2} /\ Arity["if"] = {2, 3}
      /\ Arity["while"] = {2} /\ Arity["assert"] = {1}
  BY DEF Arity
<1>. QED  BY <1>1, <1>2 DEF Is

\* The expressions below an operand are below the expression; the expression is not
\* below its operand, and what is below another one is an operand of one that is.
LEMMA BelowFacts ==
  ASSUME program \in Programs, NEW n \in Node
  PROVE  /\ n \in Below(n)
         /\ Below(n) \subseteq Node
         /\ \A m \in Below(n) : m >= n
         /\ \A m \in Below(n) : \A i \in DOMAIN Kids(m) : Kids(m)[i] \in Below(n)
         /\ \A m \in Below(n) : m = n \/ \E p \in Below(n) : \E i \in DOMAIN Kids(p) : m = Kids(p)[i]
         /\ \A i \in DOMAIN Kids(n) : Below(Kids(n)[i]) \subseteq Below(n)
<1>1. n \in Below(n) /\ Below(n) \subseteq Node
  BY DEF Below
<1>2. ASSUME NEW m \in Below(n), NEW i \in DOMAIN Kids(m)
      PROVE  Kids(m)[i] \in Below(n)
  <2>1. m \in Node /\ Kids(m)[i] \in Node
    BY <1>1, KidsAreApart
  <2>2. ASSUME NEW U \in SUBSET Node, n \in U, Closed(U)
        PROVE  Kids(m)[i] \in U
    <3>1. m \in U
      BY <2>2 DEF Below
    <3>. QED  BY <2>2, <3>1 DEF Closed
  <2>. QED  BY <2>1, <2>2 DEF Below
<1>3. \A m \in Below(n) : m >= n
  <2>. DEFINE U == {m \in Node : m >= n}
  <2>1. n \in U /\ U \in SUBSET Node
    BY NodeAssumption
  <2>2. ASSUME NEW m \in U, NEW i \in DOMAIN Kids(m)
        PROVE  Kids(m)[i] \in U
    <3>1. Kids(m)[i] \in Node /\ Kids(m)[i] > m /\ m \in Nat /\ Kids(m)[i] \in Nat /\ m >= n /\ n \in Nat
      BY KidsAreApart, NodeAssumption
    <3>. QED  BY <3>1
  <2>. HIDE DEF U
  <2>3. Closed(U)
    BY <2>2 DEF Closed
  <2>4. Below(n) \subseteq U
    BY <2>1, <2>3 DEF Below
  <2>. QED  BY <2>4 DEF U
<1>4. ASSUME NEW m \in Below(n), m # n, \A p \in Below(n) : \A i \in DOMAIN Kids(p) : m # Kids(p)[i]
      PROVE  FALSE
  <2>. DEFINE U == Below(n) \ {m}
  <2>1. n \in U /\ U \in SUBSET Node
    BY <1>1, <1>4
  <2>2. Closed(U)
    BY <1>2, <1>4 DEF Closed
  <2>. QED  BY <2>1, <2>2 DEF Below
<1>5. ASSUME NEW i \in DOMAIN Kids(n), NEW m \in Below(Kids(n)[i])
      PROVE  m \in Below(n)
  <2>1. Closed(Below(n)) /\ Kids(n)[i] \in Below(n) /\ Below(n) \in SUBSET Node
    BY <1>1, <1>2 DEF Closed
  <2>. QED  BY <2>1 DEF Below
<1>. QED  BY <1>1, <1>2, <1>3, <1>4, <1>5, Zenon

-----------------------------------------------------------------------------
(***************************************************************************)
(* Instructions added to a block.                                          *)
(***************************************************************************)

\* A sequence's length and positions.
LEMMA SequenceDomain ==
  \A s : Sequence(s) => Len(s) \in Nat /\ DOMAIN s = 1 .. Len(s)
BY LenProperties DEF Sequence

\* A sequence of such instructions of any set is one.
LEMMA SequenceOf ==
  ASSUME NEW S, NEW s \in Seq(S), \A i \in DOMAIN s : Sound(s[i])
  PROVE  Sequence(s)
<1>1. DOMAIN s = 1 .. Len(s) /\ Len(s) \in Nat
  BY LenProperties
<1>2. s \in [1 .. Len(s) -> Range(s)]
  BY <1>1, LenProperties DEF Range
<1>3. s \in Seq(Range(s))
  BY <1>1, <1>2
<1>. QED  BY <1>3 DEF Sequence

\* The instructions that end a block, and those that do not.
Ending(x) == Terminates(x) /\ Sound(x)
Plain(x)  == ~Terminates(x) /\ Sound(x)

\* The empty sequence, and those of one and of two instructions.
LEMMA ShortSequences ==
  /\ Sequence(<<>>) /\ Ends(<<>>) = {}
  /\ \A x : Sound(x) => Sequence(<<x>>)
  /\ \A x : Ends(<<x>>) = IF Terminates(x) THEN {1} ELSE {}
  /\ \A x, y : Plain(x) /\ Ending(y) => Sequence(<<x, y>>) /\ Ends(<<x, y>>) = {2}
<1>1. Sequence(<<>>) /\ Ends(<<>>) = {}
  <2>1. <<>> \in Seq({})
    BY EmptySeq
  <2>2. DOMAIN <<>> = {}
    OBVIOUS
  <2>3. Sequence(<<>>)
    BY <2>1, <2>2, SequenceOf
  <2>. QED  BY <2>2, <2>3 DEF Ends
<1>2. ASSUME NEW x
      PROVE  (Sound(x) => Sequence(<<x>>)) /\ Ends(<<x>>) = IF Terminates(x) THEN {1} ELSE {}
  <2>1. <<x>> \in Seq({x}) /\ DOMAIN <<x>> = {1}
    OBVIOUS
  <2>2. <<x>>[1] = x
    OBVIOUS
  <2>. QED  BY <2>1, <2>2, SequenceOf DEF Ends
<1>3. ASSUME NEW x, NEW y, Plain(x), Ending(y)
      PROVE  Sequence(<<x, y>>) /\ Ends(<<x, y>>) = {2}
  <2>1. <<x, y>> \in Seq({x, y}) /\ DOMAIN <<x, y>> = {1, 2}
    OBVIOUS
  <2>2. <<x, y>>[1] = x /\ <<x, y>>[2] = y
    OBVIOUS
  <2>. QED  BY <1>3, <2>1, <2>2, SequenceOf DEF Ends, Plain, Ending
<1>. QED  BY <1>1, <1>2, <1>3

\* Code added to an unfinished block: it is finished if the code added ends with its
\* only terminator, and stays unfinished if there is none in it.
LEMMA Extended ==
  ASSUME NEW s, NEW t, Sequence(s), Sequence(t), Ends(s) = {}
  PROVE  /\ Sequence(s \o t)
         /\ Ends(t) = {} => Ends(s \o t) = {}
         /\ Ends(t) = {Len(t)} => Ends(s \o t) = {Len(s \o t)}
<1>. DEFINE S == Range(s) \union Range(t)
            r == s \o t
<1>1. s \in Seq(S) /\ t \in Seq(S)
  BY SeqMonotonic DEF Sequence
<1>2. /\ Len(s) \in Nat /\ DOMAIN s = 1 .. Len(s) /\ Len(t) \in Nat /\ DOMAIN t = 1 .. Len(t)
  BY SequenceDomain
<1>3. /\ r \in Seq(S) /\ Len(r) = Len(s) + Len(t)
      /\ \A i \in 1 .. Len(s) + Len(t) : r[i] = IF i <= Len(s) THEN s[i] ELSE t[i - Len(s)]
  BY <1>1, ConcatProperties
<1>4. DOMAIN r = 1 .. Len(s) + Len(t)
  BY <1>3, LenProperties
<1>5. Sequence(r)
  <2>1. \A i \in DOMAIN r : IF i <= Len(s) THEN i \in DOMAIN s /\ r[i] = s[i]
                                           ELSE i - Len(s) \in DOMAIN t /\ r[i] = t[i - Len(s)]
    BY <1>2, <1>3, <1>4
  <2>2. \A i \in DOMAIN r : Sound(r[i])
    BY <2>1 DEF Sequence
  <2>. QED  BY <1>3, <2>2, SequenceOf
<1>. HIDE DEF S, r
<1>6. \A i \in 1 .. Len(s) : ~Terminates(s[i])
  BY <1>2 DEF Ends
<1>7. \A i \in DOMAIN r : IF i <= Len(s) THEN ~Terminates(r[i])
                                          ELSE i - Len(s) \in DOMAIN t /\ (Terminates(r[i]) <=> i - Len(s) \in Ends(t))
  <2>1. ASSUME NEW i \in DOMAIN r, i <= Len(s)
        PROVE  ~Terminates(r[i])
    BY <1>2, <1>3, <1>4, <1>6, <2>1
  <2>2. ASSUME NEW i \in DOMAIN r, ~(i <= Len(s))
        PROVE  i - Len(s) \in DOMAIN t /\ (Terminates(r[i]) <=> i - Len(s) \in Ends(t))
    <3>1. r[i] = t[i - Len(s)] /\ i - Len(s) \in 1 .. Len(t)
      BY <1>2, <1>3, <1>4, <2>2
    <3>. QED  BY <1>2, <3>1 DEF Ends
  <2>. QED  BY <2>1, <2>2
<1>8. ASSUME Ends(t) = {}
      PROVE  Ends(r) = {}
  BY <1>7, <1>8 DEF Ends
<1>9. ASSUME Ends(t) = {Len(t)}
      PROVE  Ends(r) = {Len(r)}
  <2>1. Len(t) \in 1 .. Len(t)
    BY <1>2, <1>9 DEF Ends
  <2>2. Len(r) \in DOMAIN r /\ ~(Len(r) <= Len(s)) /\ Len(r) - Len(s) = Len(t)
    BY <1>2, <1>3, <1>4, <2>1
  <2>3. Len(r) \in Ends(r)
    BY <1>7, <1>9, <2>2 DEF Ends
  <2>4. ASSUME NEW i \in Ends(r)
        PROVE  i = Len(r)
    <3>1. i \in DOMAIN r /\ Terminates(r[i])
      BY DEF Ends
    <3>2. i - Len(s) = Len(t) /\ i \in Int
      BY <1>4, <1>7, <1>9, <3>1
    <3>. QED  BY <1>2, <1>3, <3>2
  <2>. QED  BY <2>3, <2>4
<1>. QED  BY <1>5, <1>8, <1>9 DEF r

\* The same for one instruction, however it is added.
LEMMA ExtendedByOne ==
  ASSUME NEW s, NEW x, Sequence(s), Ends(s) = {}, Sound(x)
  PROVE  /\ Append(s, x) = s \o <<x>>
         /\ Sequence(s \o <<x>>)
         /\ IF Terminates(x) THEN Ends(s \o <<x>>) = {Len(s \o <<x>>)} ELSE Ends(s \o <<x>>) = {}
<1>1. Append(s, x) = s \o <<x>>
  <2>1. s \in Seq(Range(s) \union {x})
    BY SeqMonotonic DEF Sequence
  <2>. QED  BY <2>1, AppendIsConcat
<1>2. Sequence(<<x>>) /\ Ends(<<x>>) = (IF Terminates(x) THEN {1} ELSE {}) /\ Len(<<x>>) = 1
  BY ShortSequences
<1>. QED  BY <1>1, <1>2, Extended

-----------------------------------------------------------------------------
(***************************************************************************)
(* The stack.                                                              *)
(***************************************************************************)

\* The stack after a call of operand x, and after the return of v.
Pushed(st, x, keep) ==
  Append([st EXCEPT ![Len(st)].step = @ + 1, ![Len(st)].kept = keep], Activation(x))
Popped(st, v) ==
  LET callers == Front(st) IN [callers EXCEPT ![Len(callers)].vals = Append(@, v)]

\* What matters of them: the last activation has called its next operand; the last one
\* is gone, and the others are where they were.
Calls(st, st2) ==
  /\ st2 \in Seq(Frame) /\ Len(st2) = Len(st) + 1
  /\ \A i \in 1 .. Len(st) : st2[i].node = st[i].node /\ (i # Len(st) => st2[i] = st[i])
  /\ st[Len(st)].step \in 0 .. Operands(st[Len(st)].node) - 1
  /\ st2[Len(st)].step = st[Len(st)].step + 1
  /\ st2[Len(st2)].node = Kids(st[Len(st)].node)[Called(st2[Len(st)])] /\ st2[Len(st2)].step = 0
Returns(st, st2) ==
  /\ st2 \in Seq(Frame) /\ Len(st) >= 2 /\ Len(st2) = Len(st) - 1
  /\ \A i \in 1 .. Len(st2) : st2[i].node = st[i].node /\ st2[i].step = st[i].step /\ st2[i].kept = st[i].kept
  /\ st[Len(st)].step # -1

\* Blocks are attached for node n only.
Grown(att, att2, n) ==
  \A m \in Node, r \in Role : Attached(att2, <<m, r>>) => Attached(att, <<m, r>>) \/ m = n

\* The parts of an activation.
LEMMA FrameType ==
  \A a \in Frame : a.node \in Node /\ a.step \in -1 .. 3 /\ a.vals \in Seq(Operand) /\ a.kept \in Seq(Block)
BY DEF Frame

\* A stack that is not empty has a last activation.
LEMMA StackType ==
  ASSUME NEW st \in Seq(Frame), st # <<>>
  PROVE  /\ Len(st) \in Nat \ {0} /\ DOMAIN st = 1 .. Len(st) /\ Len(st) \in 1 .. Len(st)
         /\ \A i \in 1 .. Len(st) : st[i] \in Frame
<1>1. Len(st) \in Nat \ {0} /\ DOMAIN st = 1 .. Len(st)
  BY EmptySeq, LenProperties
<1>. QED  BY <1>1, ElementOfSeq

\* A call.
LEMMA PushedStack ==
  ASSUME NEW st \in Seq(Frame), st # <<>>, NEW x \in Node, NEW keep \in Seq(Block),
         st[Len(st)].step \in 0 .. 2
  PROVE  /\ Pushed(st, x, keep) \in Seq(Frame) /\ Len(Pushed(st, x, keep)) = Len(st) + 1
         /\ \A i \in 1 .. Len(st) : /\ Pushed(st, x, keep)[i].node = st[i].node
                                    /\ i # Len(st) => Pushed(st, x, keep)[i] = st[i]
         /\ Pushed(st, x, keep)[Len(st)].step = st[Len(st)].step + 1
         /\ Pushed(st, x, keep)[Len(st) + 1].node = x
         /\ Pushed(st, x, keep)[Len(st) + 1].step = 0
<1>. DEFINE a == st[Len(st)]
            f == [node |-> a.node, step |-> a.step + 1, vals |-> a.vals, kept |-> keep]
            g == Activation(x)
<1>1. Len(st) \in Nat \ {0} /\ DOMAIN st = 1 .. Len(st) /\ Len(st) \in 1 .. Len(st) /\ a \in Frame
  BY StackType
<1>2. a.node \in Node /\ a.step + 1 \in -1 .. 3 /\ a.vals \in Seq(Operand)
  <2>1. a.node \in Node /\ a.vals \in Seq(Operand)
    BY <1>1, FrameType
  <2>2. \A k \in 0 .. 2 : k + 1 \in -1 .. 3
    OBVIOUS
  <2>3. a.step + 1 \in -1 .. 3
    BY <2>2
  <2>. QED  BY <2>1, <2>3
<1>3. f \in Frame
  BY <1>2 DEF Frame
<1>4. g \in Frame
  <2>1. <<>> \in Seq(Operand) /\ <<>> \in Seq(Block)
    BY EmptySeq
  <2>. QED  BY <2>1 DEF Activation, Frame
<1>5. [st EXCEPT ![Len(st)].step = @ + 1, ![Len(st)].kept = keep] = [st EXCEPT ![Len(st)] = f]
  <2>1. a = [node |-> a.node, step |-> a.step, vals |-> a.vals, kept |-> a.kept]
    BY <1>1 DEF Frame
  <2>2. [a EXCEPT !.step = @ + 1] = [node |-> a.node, step |-> a.step + 1, vals |-> a.vals, kept |-> a.kept]
    BY <2>1
  <2>3. [st EXCEPT ![Len(st)].step = @ + 1] = [st EXCEPT ![Len(st)] = [a EXCEPT !.step = @ + 1]]
    OBVIOUS
  <2>4. [[st EXCEPT ![Len(st)].step = @ + 1] EXCEPT ![Len(st)].kept = keep] = [st EXCEPT ![Len(st)] = f]
    <3>. DEFINE h == [node |-> a.node, step |-> a.step + 1, vals |-> a.vals, kept |-> a.kept]
    <3>1. [h EXCEPT !.kept = keep] = f
      OBVIOUS
    <3>2. [st EXCEPT ![Len(st)].step = @ + 1] = [st EXCEPT ![Len(st)] = h]
      BY <2>2, <2>3
    <3>. HIDE DEF f, h, a
    <3>. QED  BY <1>1, <3>1, <3>2
  <2>. QED  BY <2>4
<1>6. Pushed(st, x, keep) = Append([st EXCEPT ![Len(st)] = f], g)
  BY <1>5, Zenon DEF Pushed
<1>7. /\ f.node = a.node /\ f.step = a.step + 1 /\ g.node = x /\ g.step = 0
  BY DEF Activation
<1>. HIDE DEF f, g
<1>8. \A r : r = Append([st EXCEPT ![Len(st)] = f], g) =>
        /\ r \in Seq(Frame) /\ Len(r) = Len(st) + 1 /\ r[Len(r)] = g
        /\ \A i \in DOMAIN st : r[i] = IF i = Len(st) THEN f ELSE st[i]
  <2>. SUFFICES ASSUME NEW r, r = Append([st EXCEPT ![Len(st)] = f], g)
                PROVE  /\ r \in Seq(Frame) /\ Len(r) = Len(st) + 1 /\ r[Len(r)] = g
                       /\ \A i \in DOMAIN st : r[i] = IF i = Len(st) THEN f ELSE st[i]
    OBVIOUS
  <2>. QED  BY <1>3, <1>4, SeqReplaceLastPush
<1>9. /\ Pushed(st, x, keep) \in Seq(Frame) /\ Len(Pushed(st, x, keep)) = Len(st) + 1
      /\ Pushed(st, x, keep)[Len(st) + 1] = g
      /\ \A i \in 1 .. Len(st) : Pushed(st, x, keep)[i] = IF i = Len(st) THEN f ELSE st[i]
  BY <1>1, <1>6, <1>8
<1>. QED  BY <1>1, <1>7, <1>9

\* A return.
LEMMA PoppedStack ==
  ASSUME NEW st \in Seq(Frame), Len(st) >= 2, NEW v \in Operand
  PROVE  /\ Popped(st, v) \in Seq(Frame) /\ Len(Popped(st, v)) = Len(st) - 1
         /\ \A i \in 1 .. Len(st) - 1 : /\ Popped(st, v)[i].node = st[i].node
                                        /\ Popped(st, v)[i].step = st[i].step
                                        /\ Popped(st, v)[i].kept = st[i].kept
<1>. DEFINE c == Front(st)
            a == c[Len(c)]
            f == [node |-> a.node, step |-> a.step, vals |-> Append(a.vals, v), kept |-> a.kept]
<1>0. st # <<>> /\ Len(st) \in Nat /\ Len(st) - 1 \in Nat \ {0}
  <2>1. Len(st) \in Nat
    BY LenProperties
  <2>2. \A n \in Nat : n >= 2 => n - 1 \in Nat \ {0} /\ n # 0
    OBVIOUS
  <2>3. Len(st) - 1 \in Nat \ {0} /\ Len(st) # 0
    BY <2>1, <2>2
  <2>. QED  BY <2>1, <2>3, EmptySeq
<1>1. /\ c \in Seq(Frame) /\ Len(c) = Len(st) - 1 /\ DOMAIN c = 1 .. Len(st) - 1
      /\ \A i \in 1 .. Len(st) - 1 : c[i] = st[i]
  <2>1. PICK r : r = SubSeq(st, 1, Len(st) - 1)
    OBVIOUS
  <2>2. /\ r \in Seq(Frame) /\ Len(r) = Len(st) - 1 /\ DOMAIN r = 1 .. Len(st) - 1
        /\ \A i \in 1 .. Len(st) - 1 : r[i] = st[i]
    BY <1>0, <2>1, SeqPop
  <2>. QED  BY <2>1, <2>2 DEF Front
<1>. HIDE DEF c
<1>2. c # <<>> /\ Len(c) \in 1 .. Len(c)
  BY <1>0, <1>1, EmptySeq
<1>3. a \in Frame
  BY <1>1, <1>2, StackType
<1>4. a.node \in Node /\ a.step \in -1 .. 3 /\ a.vals \in Seq(Operand) /\ a.kept \in Seq(Block)
  BY <1>3, FrameType
<1>5. Append(a.vals, v) \in Seq(Operand)
  BY <1>4, AppendProperties
<1>6. f \in Frame
  BY <1>4, <1>5 DEF Frame
<1>7. a = [node |-> a.node, step |-> a.step, vals |-> a.vals, kept |-> a.kept]
  BY <1>3 DEF Frame
<1>8. [c EXCEPT ![Len(c)].vals = Append(@, v)] = [c EXCEPT ![Len(c)] = f]
  <2>1. [c EXCEPT ![Len(c)].vals = Append(@, v)] = [c EXCEPT ![Len(c)] = [a EXCEPT !.vals = Append(a.vals, v)]]
    OBVIOUS
  <2>2. [a EXCEPT !.vals = Append(a.vals, v)] = f
    <3>. HIDE DEF a
    <3>1. \A r \in Frame : \A y : [r EXCEPT !.vals = y] = [node |-> r.node, step |-> r.step, vals |-> y, kept |-> r.kept]
      <4>1. ASSUME NEW n, NEW t, NEW w, NEW k, NEW y
            PROVE  [[node |-> n, step |-> t, vals |-> w, kept |-> k] EXCEPT !.vals = y]
                     = [node |-> n, step |-> t, vals |-> y, kept |-> k]
        OBVIOUS
      <4>2. ASSUME NEW r \in Frame
            PROVE  r = [node |-> r.node, step |-> r.step, vals |-> r.vals, kept |-> r.kept]
        BY DEF Frame
      <4>. QED  BY <4>1, <4>2
    <3>2. [a EXCEPT !.vals = Append(a.vals, v)] =
            [node |-> a.node, step |-> a.step, vals |-> Append(a.vals, v), kept |-> a.kept]
      BY <1>3, <3>1, Zenon
    <3>. QED  BY <3>2
  <2>. QED  BY <2>1, <2>2
<1>9. Popped(st, v) = [c EXCEPT ![Len(c)] = f]
  BY <1>8, Zenon DEF Popped, c
<1>10. f.node = a.node /\ f.step = a.step /\ f.kept = a.kept
  OBVIOUS
<1>. HIDE DEF f
<1>11. \A r : r = [c EXCEPT ![Len(c)] = f] =>
         /\ r \in Seq(Frame) /\ Len(r) = Len(c)
         /\ \A i \in DOMAIN c : r[i] = IF i = Len(c) THEN f ELSE c[i]
  BY <1>1, <1>2, <1>6, SeqReplaceLast
<1>12. /\ Popped(st, v) \in Seq(Frame) /\ Len(Popped(st, v)) = Len(st) - 1
       /\ \A i \in 1 .. Len(st) - 1 : Popped(st, v)[i] = IF i = Len(c) THEN f ELSE c[i]
  BY <1>1, <1>9, <1>11
<1>. QED  BY <1>1, <1>10, <1>12

\* The operand that is called waited, and those that waited with it wait on.
LEMMA CalledWaits ==
  ASSUME program \in Programs, NEW a \in Frame, NEW a2 \in Frame,
         a2.node = a.node, a.step \in 0 .. Operands(a.node) - 1, a2.step = a.step + 1
  PROVE  /\ Called(a2) \in Waiting(a) /\ Waiting(a2) = Waiting(a) \ {Called(a2)}
         /\ a2.step # -1 /\ a2.step >= 1 /\ a2.step <= Operands(a.node)
<1>1. a.node \in Node
  BY FrameType
<1>2. Operands(a.node) \in 0 .. 3 /\ DOMAIN Kids(a.node) = 1 .. Operands(a.node)
  BY <1>1, KidsType
<1>3. Is(a.node, "equal") => Operands(a.node) = 2
  BY <1>1, Arities
<1>. DEFINE n == Operands(a.node)
            s == a.step
<1>. HIDE DEF n, s
<1>4. n \in 0 .. 3 /\ s \in 0 .. n - 1 /\ s \in Int
  BY <1>2 DEF n, s
<1>5. s + 1 # -1 /\ s + 1 >= 1 /\ s + 1 <= n /\ s # -1
  BY <1>4
<1>6. CASE Is(a.node, "equal")
  <2>1. n = 2
    BY <1>3, <1>6 DEF n
  <2>2. /\ Called(a2) = 3 - (s + 1)
        /\ Waiting(a) = {k \in 1 .. n : s # -1 /\ k < 3 - s}
        /\ Waiting(a2) = {k \in 1 .. n : s + 1 # -1 /\ k < 3 - (s + 1)}
    BY <1>2, <1>6, Zenon DEF Called, Waiting, n, s
  <2>3. 3 - (s + 1) \in {k \in 1 .. n : s # -1 /\ k < 3 - s}
    BY <1>4, <2>1
  <2>4. {k \in 1 .. n : s + 1 # -1 /\ k < 3 - (s + 1)} = {k \in 1 .. n : s # -1 /\ k < 3 - s} \ {3 - (s + 1)}
    BY <1>4, <2>1
  <2>. QED  BY <1>5, <2>2, <2>3, <2>4 DEF n, s
<1>7. CASE ~Is(a.node, "equal")
  <2>2. /\ Called(a2) = s + 1
        /\ Waiting(a) = {k \in 1 .. n : s # -1 /\ k > s}
        /\ Waiting(a2) = {k \in 1 .. n : s + 1 # -1 /\ k > s + 1}
    BY <1>2, <1>7, Zenon DEF Called, Waiting, n, s
  <2>3. s + 1 \in {k \in 1 .. n : s # -1 /\ k > s}
    BY <1>4
  <2>4. {k \in 1 .. n : s + 1 # -1 /\ k > s + 1} = {k \in 1 .. n : s # -1 /\ k > s} \ {s + 1}
    BY <1>4
  <2>. QED  BY <1>5, <2>2, <2>3, <2>4 DEF n, s
<1>. QED  BY <1>6, <1>7

\* What a call finds: the operand waited, it is not on the stack, and it is not the
\* root or below what waits elsewhere.
LEMMA CallFacts ==
  ASSUME program \in Programs, NEW st, NEW st2, NEW pen, NEW att,
         Shape(st, pen), Apart(st, pen, att), Calls(st, st2)
  PROVE  LET L == Len(st)
             x == st2[L + 1].node
         IN  /\ L \in Nat \ {0} /\ DOMAIN st = 1 .. L /\ L \in 1 .. L
             /\ Len(st2) = L + 1 /\ DOMAIN st2 = 1 .. L + 1
             /\ \A i \in 1 .. L : st[i] \in Frame /\ st[i].node \in Node
             /\ \A i \in 1 .. L + 1 : st2[i] \in Frame /\ st2[i].node \in Node
             /\ Called(st2[L]) \in Waiting(st[L]) /\ x = Kids(st[L].node)[Called(st2[L])]
             /\ Waiting(st2[L]) = Waiting(st[L]) \ {Called(st2[L])}
             /\ st2[L].step # -1 /\ st2[L].step >= 1 /\ st2[L].step <= Operands(st[L].node) /\ st[L].step # -1
             /\ Unvisited(st, att, x)
             /\ \A i \in 1 .. L : st[i].node # x
<1>. DEFINE L == Len(st)
            x == st2[L + 1].node
<1>1. L \in Nat \ {0} /\ DOMAIN st = 1 .. L /\ L \in 1 .. L /\ \A i \in 1 .. L : st[i] \in Frame
  BY StackType DEF Shape
<1>2. Len(st2) = L + 1 /\ st2 \in Seq(Frame)
  BY DEF Calls
<1>3. st2 # <<>>
  BY <1>1, <1>2, EmptySeq
<1>4. DOMAIN st2 = 1 .. L + 1 /\ \A i \in 1 .. L + 1 : st2[i] \in Frame
  BY <1>2, <1>3, StackType
<1>5. /\ st2[L].node = st[L].node /\ st[L].step \in 0 .. Operands(st[L].node) - 1
      /\ st2[L].step = st[L].step + 1 /\ x = Kids(st[L].node)[Called(st2[L])]
  BY <1>1, <1>2 DEF Calls
<1>6. st[L] \in Frame /\ st2[L] \in Frame /\ \A i \in 1 .. L : st[i].node \in Node
  BY <1>1, <1>4, FrameType
<1>. HIDE DEF L
<1>7. /\ Called(st2[L]) \in Waiting(st[L]) /\ Waiting(st2[L]) = Waiting(st[L]) \ {Called(st2[L])}
      /\ st2[L].step # -1 /\ st2[L].step >= 1 /\ st2[L].step <= Operands(st[L].node)
  BY <1>5, <1>6, CalledWaits
<1>8. st[L].step # -1
  BY <1>7 DEF Waiting
<1>9. Unvisited(st, att, x)
  BY <1>1, <1>5, <1>7 DEF Apart
<1>10. x \in Node
  <2>1. Called(st2[L]) \in DOMAIN Kids(st[L].node) /\ st[L].node \in Node
    BY <1>6, <1>7, FrameType DEF Waiting
  <2>. QED  BY <1>5, <2>1, KidsAreApart
<1>11. \A i \in 1 .. L : st[i].node # x
  BY <1>1, <1>9, <1>10, BelowFacts DEF Unvisited
<1>12. \A i \in 1 .. L + 1 : st2[i].node \in Node
  BY <1>4, FrameType
<1>. QED  BY <1>1, <1>2, <1>4, <1>5, <1>6, <1>7, <1>8, <1>9, <1>11, <1>12 DEF L

\* A call leaves a stack of the same shape.
LEMMA CallShape ==
  ASSUME program \in Programs, NEW st, NEW st2, NEW pen, NEW att,
         Shape(st, pen), Apart(st, pen, att), Calls(st, st2), Len(st) = 1 => pen = {}
  PROVE  /\ Shape(st2, pen) /\ Root(st2) = Root(st) /\ Suspended(st2) = Suspended(st)
         /\ st2[1].step = 0 => Wrapped(st2)
<1>. DEFINE L == Len(st)
            x == st2[L + 1].node
<1>1. /\ L \in Nat \ {0} /\ DOMAIN st = 1 .. L /\ L \in 1 .. L
      /\ Len(st2) = L + 1 /\ DOMAIN st2 = 1 .. L + 1
      /\ \A i \in 1 .. L : st[i] \in Frame /\ st[i].node \in Node
      /\ \A i \in 1 .. L + 1 : st2[i] \in Frame /\ st2[i].node \in Node
      /\ Called(st2[L]) \in Waiting(st[L]) /\ x = Kids(st[L].node)[Called(st2[L])]
      /\ st2[L].step # -1 /\ st2[L].step >= 1 /\ st2[L].step <= Operands(st[L].node) /\ st[L].step # -1
      /\ \A i \in 1 .. L : st[i].node # x
  BY CallFacts
<1>2. /\ st2 \in Seq(Frame) /\ st2[L + 1].step = 0 /\ st2[L].step = st[L].step + 1
      /\ st[L].step \in 0 .. Operands(st[L].node) - 1
      /\ \A i \in 1 .. L : st2[i].node = st[i].node /\ (i # L => st2[i] = st[i])
  <2>. HIDE DEF x
  <2>. QED  BY <1>1 DEF Calls
<1>3. /\ st # <<>> /\ st[1].node = program.main /\ st[1].step # -1
      /\ \A i \in 1 .. L : FrameFits(st, pen, i)
      /\ \A i, j \in 1 .. L : i < j /\ st[i].node = st[j].node => st[i].step = -1
      /\ pen # {} => st[1].step = 0
  BY <1>1 DEF Shape
<1>. HIDE DEF L, x
<1>4. /\ 1 \in 1 .. L /\ 1 \in 1 .. L + 1 /\ L + 1 \in 1 .. L + 1 /\ L + 1 # L
      /\ \A i \in 1 .. L : i \in 1 .. L + 1 /\ i < L + 1
      /\ \A i \in 1 .. L : i # L => i < L /\ i + 1 \in 1 .. L
      /\ \A i \in 1 .. L + 1 : i # L + 1 => i \in 1 .. L
      /\ \A i, j \in 1 .. L + 1 : i < j => i \in 1 .. L
      /\ \A i, j \in 1 .. L : i < j => i # L
      /\ L # 1 => 2 \in 1 .. L
  BY <1>1
<1>5. st2[1].node = program.main /\ st2[1].step # -1
  BY <1>1, <1>2, <1>3, <1>4
<1>6. \A i \in 1 .. L + 1 : st2[i].step = -1 => i \in 1 .. L /\ i # L /\ st2[i] = st[i]
  BY <1>1, <1>2, <1>4
<1>7. ASSUME NEW i \in 1 .. L, i # L
      PROVE  FrameFits(st2, pen, i)
  <2>1. FrameFits(st, pen, i) /\ st2[i] = st[i] /\ st2[i + 1].node = st[i + 1].node /\ i < L
    BY <1>2, <1>3, <1>4, <1>7
  <2>2. ASSUME st2[i].step = -1
        PROVE  i = 2 /\ st2[1].step = 0 /\ st2[2] = st[2]
    <3>1. i = 2 /\ st[1].step = 0
      BY <2>1, <2>2 DEF FrameFits
    <3>2. 1 # L
      BY <1>7, <3>1, <1>1
    <3>. QED  BY <1>2, <1>4, <2>1, <3>1, <3>2
  <2>3. ASSUME st2[i].step = 0
        PROVE  i = 1 /\ st2[2].step = -1
    <3>1. i = 1 /\ st[2].step = -1
      BY <2>1, <2>3 DEF FrameFits, L
    <3>2. 2 \in 1 .. L /\ 2 # L
      BY <1>1, <1>4, <1>7, <3>1
    <3>. QED  BY <1>2, <3>1, <3>2
  <2>4. /\ st2[i].step <= Operands(st2[i].node)
        /\ st2[i].step = -1 => st2[2].kept = <<MainBegin>> /\ st2[2].node \in program.functions /\ st2[2].node \notin pen
        /\ st2[i].step = -1 => st2[i + 1].node = st2[i].node
        /\ st2[i].step >= 1 => st2[i + 1].node = Kids(st2[i].node)[Called(st2[i])]
    BY <2>1, <2>2 DEF FrameFits, L
  <2>. QED  BY <2>2, <2>3, <2>4 DEF FrameFits
<1>8. FrameFits(st2, pen, L)
  <2>1. st2[L].step # 0 /\ st2[L].node = st[L].node
    BY <1>1, <1>2
  <2>. QED  BY <1>1, <2>1 DEF FrameFits, x
<1>9. FrameFits(st2, pen, L + 1)
  <2>1. Operands(x) \in 0 .. 3 /\ st2[L + 1].node = x
    BY <1>1, <1>4, KidsType DEF x
  <2>. QED  BY <1>1, <1>2, <2>1 DEF FrameFits
<1>10. \A i \in 1 .. L + 1 : FrameFits(st2, pen, i)
  BY <1>4, <1>7, <1>8, <1>9
<1>11. ASSUME NEW i \in 1 .. L + 1, NEW j \in 1 .. L + 1, i < j, st2[i].node = st2[j].node
       PROVE  st2[i].step = -1
  <2>1. i \in 1 .. L /\ st2[i].node = st[i].node
    BY <1>2, <1>4, <1>11
  <2>2. j # L + 1
    BY <1>1, <1>11, <2>1 DEF x
  <2>3. j \in 1 .. L /\ st2[j].node = st[j].node
    BY <1>2, <1>4, <2>2
  <2>4. st[i].step = -1
    BY <1>3, <1>11, <2>1, <2>3
  <2>. QED  BY <1>2, <1>4, <1>11, <2>1, <2>3, <2>4
<1>12. ASSUME pen # {}
       PROVE  st2[1].step = 0
  <2>1. L # 1
    BY <1>12 DEF L
  <2>. QED  BY <1>2, <1>3, <1>4, <1>12, <2>1
<1>13. Shape(st2, pen)
  <2>1. st2 # <<>>
    BY <1>1, EmptySeq
  <2>. QED  BY <1>1, <1>2, <1>5, <1>10, <1>11, <1>12, <2>1, Zenon DEF Shape
<1>14. (Wrapped(st2) <=> Wrapped(st)) /\ (Wrapped(st) => st2[2].node = st[2].node)
  <2>1. CASE L = 1
    BY <1>1, <1>2, <2>1 DEF Wrapped, L
  <2>2. CASE L # 1
    <3>1. L >= 2 /\ L + 1 >= 2 /\ 2 \in 1 .. L
      BY <1>1, <2>2
    <3>2. st2[2].node = st[2].node /\ (st2[2].step = -1 <=> st[2].step = -1)
      BY <1>1, <1>2, <3>1
    <3>. QED  BY <1>1, <3>1, <3>2 DEF Wrapped, L
  <2>. QED  BY <2>1, <2>2
<1>15. ASSUME st2[1].step = 0
       PROVE  Wrapped(st2)
  <2>1. st2[2].step = -1 /\ Len(st2) >= 2
    <3>1. 1 < Len(st2)
      BY <1>1
    <3>2. FrameFits(st2, pen, 1)
      BY <1>4, <1>10
    <3>3. L + 1 >= 2
      BY <1>1
    <3>4. L # 1
      BY <1>1, <1>15
    <3>5. FrameFits(st, pen, 1) /\ 1 < Len(st) /\ st[1].step = 0
      BY <1>2, <1>3, <1>4, <1>15, <3>4 DEF L
    <3>6. st[2].step = -1
      BY <3>5 DEF FrameFits
    <3>7. 2 \in 1 .. L /\ 2 # L
      BY <1>1, <1>4, <3>4, <3>6
    <3>. QED  BY <1>1, <1>2, <3>3, <3>6, <3>7
  <2>. QED  BY <2>1 DEF Wrapped
<1>. QED  BY <1>13, <1>14, <1>15 DEF Root, Suspended

\* What is not visited stays so when an expression that is not below it gets blocks and
\* no activation is below it.
LEMMA StaysUnvisited ==
  ASSUME NEW st, NEW st2, NEW att, NEW att2, NEW n \in Node, NEW y \in Node,
         Unvisited(st, att, y), n \notin Below(y), Grown(att, att2, n),
         \A j \in DOMAIN st2 : st2[j].node \notin Below(y)
  PROVE  Unvisited(st2, att2, y)
<1>1. Below(y) \subseteq Node
  BY DEF Below
<1>2. ASSUME NEW m \in Below(y), NEW r \in Role
      PROVE  ~Attached(att2, <<m, r>>)
  <2>1. m \in Node /\ m # n
    BY <1>1
  <2>2. ~Attached(att, <<m, r>>)
    BY DEF Unvisited, Untouched
  <2>. QED  BY <2>1, <2>2 DEF Grown
<1>. QED  BY <1>2 DEF Unvisited, Untouched

\* A call of an operand, which may come with blocks for the step that calls it, keeps
\* all that was not visited apart.
LEMMA CallApart ==
  ASSUME program \in Programs, NEW st, NEW st2, NEW pen, NEW att, NEW att2,
         Shape(st, pen), Apart(st, pen, att), Calls(st, st2), pen \subseteq program.functions,
         Grown(att, att2, st[Len(st)].node),
         \A r \in Role \ {"begin"} : Attached(att2, <<st[Len(st)].node, r>>) =>
            Attached(att, <<st[Len(st)].node, r>>) \/ (r \in DOMAIN Opens /\ st[Len(st)].step + 1 >= Opens[r])
  PROVE  Apart(st2, pen, att2)
<1>. DEFINE L == Len(st)
            a == st[L]
            k == Called(st2[L])
            x == st2[L + 1].node
<1>1. /\ L \in Nat \ {0} /\ DOMAIN st = 1 .. L /\ L \in 1 .. L
      /\ Len(st2) = L + 1 /\ DOMAIN st2 = 1 .. L + 1
      /\ \A i \in 1 .. L : st[i] \in Frame /\ st[i].node \in Node
      /\ \A i \in 1 .. L + 1 : st2[i] \in Frame /\ st2[i].node \in Node
      /\ k \in Waiting(a) /\ x = Kids(a.node)[k]
      /\ Waiting(st2[L]) = Waiting(a) \ {k}
      /\ st2[L].step # -1 /\ a.step # -1
      /\ Unvisited(st, att, x)
  BY CallFacts
<1>2. /\ st2[L + 1].step = 0 /\ st2[L].step = a.step + 1
      /\ \A i \in 1 .. L : st2[i].node = st[i].node /\ (i # L => st2[i] = st[i])
  <2>. HIDE DEF x, a, k
  <2>. QED  BY <1>1 DEF Calls, a
<1>3. /\ \A i \in 1 .. L : \A j \in Waiting(st[i]) : Unvisited(st, att, Kids(st[i].node)[j])
      /\ \A f \in pen : Unvisited(st, att, f)
      /\ \A i \in 1 .. L : st[i].step # -1 => \A r \in Role \ {"begin"} :
            Attached(att, <<st[i].node, r>>) => r \in DOMAIN Opens /\ st[i].step >= Opens[r]
  <2>. HIDE DEF L
  <2>. QED  BY <1>1 DEF Apart
<1>4. a.node \in Node /\ x \in Node /\ k \in DOMAIN Kids(a.node)
  BY <1>1 DEF Waiting
<1>5. Grown(att, att2, a.node)
  OBVIOUS
<1>6. \A r \in Role \ {"begin"} : Attached(att2, <<a.node, r>>) =>
        Attached(att, <<a.node, r>>) \/ (r \in DOMAIN Opens /\ a.step + 1 >= Opens[r])
  OBVIOUS
<1>7. \A i, j \in 1 .. L : i < j /\ st[i].node = st[j].node => st[i].step = -1
  BY <1>1 DEF Shape
<1>. HIDE DEF L, a, k, x
<1>8. /\ L + 1 \in 1 .. L + 1 /\ L + 1 # L
      /\ \A i \in 1 .. L : i \in 1 .. L + 1 /\ (i # L => i < L)
      /\ \A i \in 1 .. L + 1 : i # L + 1 => i \in 1 .. L
  BY <1>1
<1>9. a = st[L] /\ x = st2[L + 1].node
  BY DEF a, x
\* Another one that is not visited is not what is called, and so x is not below it.
<1>10. ASSUME NEW y \in Node, Unvisited(st, att, y), y # x
       PROVE  Unvisited(st2, att2, y)
  <2>1. \A j \in 1 .. L : st[j].node \notin Below(y)
    BY <1>1, <1>10 DEF Unvisited
  <2>2. x \notin Below(y)
    <3>1. SUFFICES ASSUME x \in Below(y)
                   PROVE  FALSE
      OBVIOUS
    <3>2. PICK p \in Below(y) : \E i \in DOMAIN Kids(p) : x = Kids(p)[i]
      BY <1>10, <3>1, BelowFacts
    <3>3. p \in Node
      BY BelowFacts
    <3>4. p = a.node
      BY <1>1, <1>4, <3>2, <3>3, KidsAreApart
    <3>. QED  BY <1>1, <1>9, <2>1, <3>4
  <2>3. \A j \in DOMAIN st2 : st2[j].node \notin Below(y)
    BY <1>1, <1>2, <1>8, <1>9, <2>1, <2>2
  <2>4. a.node \notin Below(y)
    BY <1>1, <1>9, <2>1
  <2>. QED  BY <1>4, <1>5, <1>10, <2>3, <2>4, StaysUnvisited
<1>11. ASSUME NEW i \in 1 .. L, NEW j \in Waiting(st2[i])
       PROVE  Unvisited(st2, att2, Kids(st2[i].node)[j])
  <2>1. j \in Waiting(st[i]) /\ st2[i].node = st[i].node /\ (i = L => j # k)
    BY <1>1, <1>2, <1>9
  <2>2. j \in DOMAIN Kids(st[i].node) /\ st[i].node \in Node /\ st[i].step # -1
    BY <1>1, <2>1 DEF Waiting
  <2>3. Kids(st[i].node)[j] \in Node
    BY <2>2, KidsAreApart
  <2>4. Kids(st[i].node)[j] # x
    <3>1. SUFFICES ASSUME Kids(st[i].node)[j] = Kids(a.node)[k]
                   PROVE  FALSE
      BY <1>1
    <3>2. st[i].node = a.node /\ j = k
      BY <1>4, <2>2, <3>1, KidsAreApart
    <3>3. i < L
      BY <1>8, <2>1, <3>2
    <3>. QED  BY <1>1, <1>7, <1>9, <2>2, <3>2, <3>3
  <2>. QED  BY <1>3, <1>10, <2>1, <2>3, <2>4
<1>12. ASSUME NEW j \in Waiting(st2[L + 1])
       PROVE  Unvisited(st2, att2, Kids(x)[j])
  <2>1. j \in DOMAIN Kids(x)
    BY <1>9 DEF Waiting
  <2>2. Kids(x)[j] \in Node /\ Kids(x)[j] > x /\ x \in Nat /\ Kids(x)[j] \in Nat
    BY <1>4, <2>1, KidsAreApart
  <2>3. Below(Kids(x)[j]) \subseteq Below(x)
    BY <1>4, <2>1, BelowFacts
  <2>4. x \notin Below(Kids(x)[j])
    <3>1. \A m \in Below(Kids(x)[j]) : m >= Kids(x)[j]
      BY <2>2, BelowFacts
    <3>. QED  BY <2>2, <3>1
  <2>5. Unvisited(st, att, Kids(x)[j])
    BY <1>1, <2>3 DEF Unvisited, Untouched
  <2>6. Kids(x)[j] # x
    BY <2>2
  <2>. QED  BY <1>10, <2>2, <2>5, <2>6
<1>13. ASSUME NEW f \in pen
       PROVE  Unvisited(st2, att2, f)
  <2>1. f \in program.functions /\ f \in Node
    BY KidsType
  <2>2. f # x
    BY <1>1, <1>4, <2>1, KidsAreApart
  <2>. QED  BY <1>3, <1>10, <2>1, <2>2
<1>14. ASSUME NEW i \in 1 .. L + 1, st2[i].step # -1, NEW r \in Role \ {"begin"}, Attached(att2, <<st2[i].node, r>>)
       PROVE  r \in DOMAIN Opens /\ st2[i].step >= Opens[r]
  <2>0. r \in Role /\ st2[i].node \in Node /\ (r \in DOMAIN Opens => Opens[r] \in Nat) /\ a.step \in Int
    <3>1. a \in Frame
      BY <1>1, <1>9
    <3>. QED  BY <1>1, <3>1, FrameType DEF Opens
  <2>1. CASE i = L + 1
    <3>1. ~Attached(att, <<x, r>>)
      BY <1>1, <1>4, <2>0, BelowFacts DEF Unvisited, Untouched
    <3>2. x # a.node
      BY <1>1, <1>4, <1>9, BelowFacts DEF Unvisited
    <3>. QED  BY <1>4, <1>5, <1>9, <1>14, <2>0, <2>1, <3>1, <3>2 DEF Grown
  <2>2. CASE i = L
    <3>1. st2[i].node = a.node /\ st2[i].step = a.step + 1 /\ Attached(att2, <<a.node, r>>)
      BY <1>1, <1>2, <1>9, <1>14, <2>2
    <3>2. CASE Attached(att, <<a.node, r>>)
      <4>1. r \in DOMAIN Opens /\ a.step >= Opens[r]
        BY <1>1, <1>3, <1>9, <3>2
      <4>2. \A s \in Int, o \in Nat : s >= o => s + 1 >= o
        OBVIOUS
      <4>. QED  BY <2>0, <3>1, <4>1, <4>2
    <3>3. CASE ~Attached(att, <<a.node, r>>)
      BY <1>6, <3>1, <3>3
    <3>. QED  BY <3>2, <3>3
  <2>3. CASE i # L /\ i # L + 1
    <3>1. i \in 1 .. L /\ st2[i] = st[i] /\ i < L
      BY <1>2, <1>8, <2>3
    <3>2. st[i].node # a.node
      BY <1>1, <1>7, <1>9, <1>14, <3>1
    <3>3. Attached(att, <<st[i].node, r>>)
      BY <1>5, <1>14, <2>0, <3>1, <3>2 DEF Grown
    <3>. QED  BY <1>3, <1>14, <3>1, <3>3
  <2>. QED  BY <2>1, <2>2, <2>3
<1>15. \A i \in DOMAIN st2 : \A j \in Waiting(st2[i]) : Unvisited(st2, att2, Kids(st2[i].node)[j])
  BY <1>1, <1>8, <1>9, <1>11, <1>12
<1>. QED  BY <1>1, <1>13, <1>14, <1>15 DEF Apart

\* A return leaves a stack of the same shape.
LEMMA ReturnShape ==
  ASSUME program \in Programs, NEW st, NEW st2, NEW pen, Shape(st, pen), Returns(st, st2)
  PROVE  /\ Shape(st2, pen) /\ Root(st2) = Root(st) /\ Suspended(st2) = Suspended(st)
         /\ st2[1].step = 0 => Wrapped(st2)
<1>. DEFINE L == Len(st)
            M == Len(st2)
<1>1. /\ L \in Nat \ {0} /\ DOMAIN st = 1 .. L /\ \A i \in 1 .. L : st[i] \in Frame
  BY StackType DEF Shape
<1>2. /\ st2 \in Seq(Frame) /\ L >= 2 /\ M = L - 1 /\ st[L].step # -1
      /\ \A i \in 1 .. M : st2[i].node = st[i].node /\ st2[i].step = st[i].step /\ st2[i].kept = st[i].kept
  BY DEF Returns
<1>3. /\ st[1].node = program.main /\ st[1].step # -1
      /\ \A i \in 1 .. L : FrameFits(st, pen, i)
      /\ \A i, j \in 1 .. L : i < j /\ st[i].node = st[j].node => st[i].step = -1
      /\ pen # {} => st[1].step = 0
  BY <1>1 DEF Shape
<1>. HIDE DEF L, M
<1>4. /\ M \in Nat \ {0} /\ 1 \in 1 .. M /\ 1 \in 1 .. L /\ M >= 1 /\ 1 < L
      /\ \A i \in 1 .. M : i \in 1 .. L /\ i < L /\ i # L
      /\ \A i \in 1 .. M : i < M => i + 1 \in 1 .. M
      /\ 2 # L => 2 \in 1 .. M /\ M >= 2
      /\ M >= 2 => 2 \in 1 .. M
      /\ 2 = L => ~(M >= 2)
  BY <1>1, <1>2
<1>5. DOMAIN st2 = 1 .. M
  BY <1>2, LenProperties DEF M
<1>6. st2 # <<>>
  BY <1>4, EmptySeq DEF M
<1>7. st[2].step = -1 => M >= 2 /\ 2 \in 1 .. M
  BY <1>2, <1>4
<1>8. ASSUME NEW i \in 1 .. M
      PROVE  FrameFits(st2, pen, i)
  <2>1. FrameFits(st, pen, i) /\ i < L
    BY <1>3, <1>4
  <2>2. /\ st2[i].node = st[i].node /\ st2[i].step = st[i].step
        /\ i < M => st2[i + 1].node = st[i + 1].node
        /\ st2[1].step = st[1].step
        /\ 2 \in 1 .. M => st2[2].step = st[2].step /\ st2[2].kept = st[2].kept /\ st2[2].node = st[2].node
    BY <1>2, <1>4
  <2>3. st2[i].step <= Operands(st2[i].node)
    BY <2>1, <2>2 DEF FrameFits
  <2>4. ASSUME st2[i].step = -1
        PROVE  /\ i = 2 /\ st2[1].step = 0 /\ st2[2].kept = <<MainBegin>>
               /\ st2[2].node \in program.functions /\ st2[2].node \notin pen
    <3>1. /\ i = 2 /\ st[1].step = 0 /\ st[2].kept = <<MainBegin>>
          /\ st[2].node \in program.functions /\ st[2].node \notin pen
      BY <2>1, <2>2, <2>4 DEF FrameFits
    <3>. QED  BY <2>2, <3>1
  <2>5. ASSUME i < M
        PROVE  /\ st2[i].step = -1 => st2[i + 1].node = st2[i].node
               /\ st2[i].step = 0 => i = 1 /\ st2[2].step = -1
               /\ st2[i].step >= 1 => st2[i + 1].node = Kids(st2[i].node)[Called(st2[i])]
    <3>1. /\ st[i].step = -1 => st[i + 1].node = st[i].node
          /\ st[i].step = 0 => i = 1 /\ st[2].step = -1
          /\ st[i].step >= 1 => st[i + 1].node = Kids(st[i].node)[Called(st[i])]
      BY <2>1 DEF FrameFits, L
    <3>2. Called(st2[i]) = Called(st[i])
      BY <2>2 DEF Called
    <3>. QED  BY <1>7, <2>2, <2>5, <3>1, <3>2
  <2>. QED  BY <2>3, <2>4, <2>5, Zenon DEF FrameFits, M
<1>9. Shape(st2, pen)
  <2>1. st2[1].node = program.main /\ st2[1].step # -1 /\ (pen # {} => st2[1].step = 0)
    BY <1>2, <1>3, <1>4
  <2>2. \A i, j \in 1 .. M : i < j /\ st2[i].node = st2[j].node => st2[i].step = -1
    BY <1>2, <1>3, <1>4
  <2>. QED  BY <1>2, <1>5, <1>6, <1>8, <2>1, <2>2, Zenon DEF Shape
<1>10. (Wrapped(st2) <=> Wrapped(st)) /\ (Wrapped(st) => st2[2].node = st[2].node)
  BY <1>2, <1>4, <1>7 DEF Wrapped, L, M
<1>11. st2[1].step = 0 => Wrapped(st2)
  <2>1. FrameFits(st, pen, 1)
    BY <1>3, <1>4
  <2>2. st[1].step = 0 => st[2].step = -1
    BY <1>4, <2>1 DEF FrameFits, L
  <2>3. st2[1].step = st[1].step
    BY <1>2, <1>4
  <2>4. st[1].step = 0 => Wrapped(st)
    BY <1>2, <2>2 DEF Wrapped, L
  <2>. QED  BY <1>10, <2>3, <2>4
<1>. QED  BY <1>9, <1>10, <1>11 DEF Root, Suspended

\* A return, which may come with blocks for the last step of a visitor, keeps all that was
\* not visited apart.
LEMMA ReturnApart ==
  ASSUME program \in Programs, NEW st, NEW st2, NEW pen, NEW att, NEW att2,
         Shape(st, pen), Apart(st, pen, att), Returns(st, st2), pen \subseteq program.functions,
         Grown(att, att2, st[Len(st)].node)
  PROVE  Apart(st2, pen, att2)
<1>. DEFINE L == Len(st)
            n == st[L].node
<1>1. /\ L \in Nat \ {0} /\ DOMAIN st = 1 .. L /\ \A i \in 1 .. L : st[i] \in Frame
  BY StackType DEF Shape
<1>2. /\ st2 \in Seq(Frame) /\ L >= 2 /\ Len(st2) = L - 1
      /\ \A i \in 1 .. L - 1 : st2[i].node = st[i].node /\ st2[i].step = st[i].step
  BY DEF Returns
<1>3. DOMAIN st2 = 1 .. L - 1
  BY <1>2, LenProperties
<1>4. /\ \A i \in 1 .. L : \A j \in Waiting(st[i]) : Unvisited(st, att, Kids(st[i].node)[j])
      /\ \A f \in pen : Unvisited(st, att, f)
      /\ \A i \in 1 .. L : st[i].step # -1 => \A r \in Role \ {"begin"} :
            Attached(att, <<st[i].node, r>>) => r \in DOMAIN Opens /\ st[i].step >= Opens[r]
      /\ \A i, j \in 1 .. L : i < j /\ st[i].node = st[j].node => st[i].step = -1
  <2>. HIDE DEF L
  <2>. QED  BY <1>1 DEF Apart, Shape
<1>5. Grown(att, att2, n)
  OBVIOUS
<1>. HIDE DEF L
<1>6. L \in 1 .. L /\ \A i \in 1 .. L - 1 : i \in 1 .. L /\ i < L
  BY <1>1
<1>7. n \in Node /\ \A i \in 1 .. L : st[i].node \in Node
  BY <1>1, <1>6, FrameType
<1>8. ASSUME NEW y \in Node, Unvisited(st, att, y)
      PROVE  Unvisited(st2, att2, y)
  <2>1. \A j \in 1 .. L : st[j].node \notin Below(y)
    BY <1>1, <1>8 DEF Unvisited
  <2>2. n \notin Below(y)
    BY <1>6, <2>1
  <2>3. \A j \in DOMAIN st2 : st2[j].node \notin Below(y)
    BY <1>2, <1>3, <1>6, <2>1
  <2>. HIDE DEF n
  <2>. QED  BY <1>5, <1>7, <1>8, <2>2, <2>3, StaysUnvisited
<1>9. ASSUME NEW i \in DOMAIN st2, NEW j \in Waiting(st2[i])
      PROVE  Unvisited(st2, att2, Kids(st2[i].node)[j])
  <2>1. i \in 1 .. L /\ st2[i].node = st[i].node /\ st2[i].step = st[i].step
    BY <1>2, <1>3, <1>6
  <2>2. j \in Waiting(st[i]) /\ j \in DOMAIN Kids(st[i].node)
    BY <2>1 DEF Waiting
  <2>3. Kids(st[i].node)[j] \in Node
    BY <1>7, <2>1, <2>2, KidsAreApart
  <2>. QED  BY <1>4, <1>8, <2>1, <2>2, <2>3
<1>10. ASSUME NEW f \in pen
       PROVE  Unvisited(st2, att2, f)
  <2>1. f \in Node
    BY KidsType
  <2>. QED  BY <1>4, <1>8, <2>1
<1>11. ASSUME NEW i \in DOMAIN st2, st2[i].step # -1, NEW r \in Role \ {"begin"}, Attached(att2, <<st2[i].node, r>>)
       PROVE  r \in DOMAIN Opens /\ st2[i].step >= Opens[r]
  <2>1. i \in 1 .. L /\ i < L /\ st2[i].node = st[i].node /\ st2[i].step = st[i].step /\ r \in Role
    BY <1>2, <1>3, <1>6
  <2>2. st[i].node # n
    BY <1>4, <1>6, <1>11, <2>1
  <2>3. Attached(att, <<st[i].node, r>>)
    <3>. HIDE DEF n
    <3>. QED  BY <1>5, <1>7, <1>11, <2>1, <2>2 DEF Grown
  <2>. QED  BY <1>4, <1>11, <2>1, <2>3
<1>. QED  BY <1>9, <1>10, <1>11 DEF Apart

-----------------------------------------------------------------------------
(***************************************************************************)
(* The blocks.                                                             *)
(***************************************************************************)

\* Code without a terminator is added to the block at the insertion point.
LEMMA StayIn ==
  ASSUME NEW root, NEW suspended, NEW ins, NEW att, NEW cod, NEW cod2,
         Blocks(root, suspended, ins, att, cod), root \in Node,
         Ends(cod2[ins]) = {}, \A b \in Block \ {ins} : cod2[b] = cod[b]
  PROVE  Blocks(root, suspended, ins, att, cod2)
<1>1. /\ ins \in att[root] /\ ins \notin suspended
      /\ \A f, g \in Node : \A b \in att[f] : b \in att[g] => f = g
      /\ \A b \in Block : IF Attached(att, b) THEN Finished(cod, b, suspended \union {ins}) ELSE cod[b] = <<>>
  BY DEF Blocks
<1>2. ASSUME NEW b \in Block
      PROVE  IF Attached(att, b) THEN Finished(cod2, b, suspended \union {ins}) ELSE cod2[b] = <<>>
  <2>1. CASE b = ins
    BY <1>1, <2>1 DEF Attached, Finished
  <2>2. CASE b # ins
    BY <1>1, <2>2 DEF Finished
  <2>. QED  BY <2>1, <2>2
<1>. QED  BY <1>1, <1>2 DEF Blocks

\* The block at the insertion point is finished, blocks are attached that were not, and
\* the insertion point moves to one of them; the others of them are finished.
Branch(root, suspended, ins, ins2, att, att2, cod, cod2, N) ==
  /\ Blocks(root, suspended, ins, att, cod)
  /\ N \in SUBSET Block /\ \A b \in N : ~Attached(att, b) /\ b \notin suspended
  /\ ins2 \in N /\ att2 = [att EXCEPT ![root] = @ \union N]
  /\ Ends(cod2[ins]) = {Len(cod2[ins])} /\ Ends(cod2[ins2]) = {}
  /\ \A b \in N \ {ins2} : Ends(cod2[b]) = {Len(cod2[b])}
  /\ \A b \in Block \ (N \union {ins}) : cod2[b] = cod[b]

\* A branch leaves every block but the new insertion point finished.
LEMMA BranchTo ==
  ASSUME NEW root \in Node, NEW suspended, NEW ins, NEW ins2, NEW att \in [Node -> SUBSET Block], NEW att2,
         NEW cod, NEW cod2, NEW N, Branch(root, suspended, ins, ins2, att, att2, cod, cod2, N)
  PROVE  /\ Blocks(root, suspended, ins2, att2, cod2)
         /\ att2 \in [Node -> SUBSET Block] /\ \A f \in Node : att[f] \subseteq att2[f]
         /\ \A b : Attached(att2, b) => Attached(att, b) \/ b \in N
<1>0. /\ N \in SUBSET Block /\ \A b \in N : ~Attached(att, b) /\ b \notin suspended
      /\ ins2 \in N /\ att2 = [att EXCEPT ![root] = @ \union N]
      /\ Ends(cod2[ins]) = {Len(cod2[ins])} /\ Ends(cod2[ins2]) = {}
      /\ \A b \in N \ {ins2} : Ends(cod2[b]) = {Len(cod2[b])}
      /\ \A b \in Block \ (N \union {ins}) : cod2[b] = cod[b]
  BY DEF Branch
<1>1. /\ ins \in att[root] /\ ins \notin suspended
      /\ \A f, g \in Node : \A b \in att[f] : b \in att[g] => f = g
      /\ \A b \in Block : IF Attached(att, b) THEN Finished(cod, b, suspended \union {ins}) ELSE cod[b] = <<>>
  BY DEF Blocks, Branch
<1>2. /\ att2 \in [Node -> SUBSET Block]
      /\ att2[root] = att[root] \union N
      /\ \A f \in Node : f # root => att2[f] = att[f]
  BY <1>0
<1>3. \A f \in Node : att[f] \subseteq att2[f]
  BY <1>2
<1>4. \A b : Attached(att2, b) <=> Attached(att, b) \/ b \in N
  BY <1>2 DEF Attached
<1>5. \A f \in Node, b \in N : b \notin att[f]
  BY <1>0 DEF Attached
<1>6. ASSUME NEW f \in Node, NEW g \in Node, NEW b \in att2[f], b \in att2[g]
      PROVE  f = g
  <2>1. CASE b \in N
    BY <1>2, <1>5, <1>6, <2>1
  <2>2. CASE b \notin N
    <3>1. b \in att[f] /\ b \in att[g]
      BY <1>2, <1>6, <2>2
    <3>. QED  BY <1>1, <3>1
  <2>. QED  BY <2>1, <2>2
<1>7. ASSUME NEW b \in Block
      PROVE  IF Attached(att2, b) THEN Finished(cod2, b, suspended \union {ins2}) ELSE cod2[b] = <<>>
  <2>0. Attached(att, ins) /\ ins \notin N
    BY <1>1, <1>5 DEF Attached
  <2>1. CASE b \in N
    <3>1. Attached(att2, b)
      BY <1>4, <2>1
    <3>2. Finished(cod2, b, suspended \union {ins2})
      BY <1>0, <2>1 DEF Finished
    <3>. QED  BY <3>1, <3>2
  <2>2. CASE b = ins
    BY <1>0, <1>1, <1>4, <2>0, <2>2 DEF Finished
  <2>3. CASE b \notin N /\ b # ins
    <3>1. cod2[b] = cod[b] /\ (Attached(att2, b) <=> Attached(att, b))
      BY <1>0, <1>4, <2>3
    <3>2. b # ins2
      BY <1>0, <2>3
    <3>. QED  BY <1>1, <2>3, <3>1, <3>2 DEF Finished
  <2>. QED  BY <2>1, <2>2, <2>3
<1>8. ins2 \in att2[root] /\ ins2 \notin suspended
  BY <1>0, <1>2
<1>. QED  BY <1>2, <1>3, <1>4, <1>6, <1>7, <1>8 DEF Blocks

-----------------------------------------------------------------------------
(***************************************************************************)
(* The next state, of the same program.                                    *)
(***************************************************************************)

\* What is said of a stack and of blocks depends on the program alone.
LEMMA SameProgram ==
  ASSUME program' = program
  PROVE  /\ Shape(stack', pending') => Shape(stack, pending)'
         /\ Apart(stack', pending', attached') => Apart(stack, pending, attached)'
         /\ Root(stack)' = Root(stack') /\ Suspended(stack)' = Suspended(stack')
         /\ MainBegin' = MainBegin
<1>1. (\A n : Kids(n)' = Kids(n)) /\ (\A n, k : Is(n, k)' <=> Is(n, k))
  BY Zenon DEF Kids, Is
<1>2. \A n : Operands(n)' = Operands(n)
  BY <1>1, Zenon DEF Operands
<1>3. \A a : Called(a)' = Called(a)
  BY <1>1, Zenon DEF Called
<1>4. \A a : Waiting(a)' = Waiting(a)
  BY <1>1, Zenon DEF Waiting
<1>5. MainBegin' = MainBegin
  BY Zenon DEF MainBegin
<1>6. \A i : FrameFits(stack', pending', i) => FrameFits(stack, pending, i)'
  BY <1>1, <1>2, <1>3, <1>5, Zenon DEF FrameFits
<1>7. Shape(stack', pending') => Shape(stack, pending)'
  BY <1>6, Zenon DEF Shape
<1>8. \A U : Closed(U)' <=> Closed(U)
  BY <1>1, Zenon DEF Closed
<1>9. \A n : Below(n)' = Below(n)
  BY <1>8, Zenon DEF Below
<1>10. \A n : Unvisited(stack', attached', n) => Unvisited(stack, attached, n)'
  BY <1>9, Zenon DEF Unvisited, Untouched
<1>11. Apart(stack', pending', attached') => Apart(stack, pending, attached)'
  BY <1>1, <1>4, <1>10, Zenon DEF Apart
<1>12. Root(stack)' = Root(stack') /\ Suspended(stack)' = Suspended(stack')
  BY <1>5, Zenon DEF Root, Suspended
<1>. QED  BY <1>5, <1>7, <1>11, <1>12

-----------------------------------------------------------------------------
(***************************************************************************)
(* The steps of emission.                                                  *)
(***************************************************************************)

\* What holds while code is emitted.
LEMMA Emitting ==
  ASSUME EmitInv, phase = "emit", stack # <<>>
  PROVE  /\ program \in Programs /\ Shape(stack, pending) /\ Apart(stack, pending, attached)
         /\ Blocks(Root(stack), Suspended(stack), insert, attached, code)
         /\ Root(stack) \in Node /\ Root(stack) \notin pending /\ CurrentFunc = Root(stack)
         /\ pending \subseteq program.functions
         /\ insert \in Block /\ attached \in [Node -> SUBSET Block] /\ DOMAIN code = Block
         /\ \A b \in Block : Sequence(code[b])
         /\ Ends(code[insert]) = {}
         /\ stack \in Seq(Frame) /\ Len(stack) \in Nat \ {0} /\ Top \in Frame
<1>1. /\ program \in Programs /\ Shape(stack, pending) /\ Apart(stack, pending, attached)
      /\ Blocks(Root(stack), Suspended(stack), insert, attached, code)
      /\ pending \subseteq program.functions /\ \A b \in Block : Sequence(code[b])
  BY DEF EmitInv
<1>2. insert \in Block /\ attached \in [Node -> SUBSET Block] /\ DOMAIN code = Block
  BY DEF EmitInv, Typed
<1>3. stack \in Seq(Frame) /\ \A i \in DOMAIN stack : FrameFits(stack, pending, i)
  BY <1>1 DEF Shape
<1>4. /\ Len(stack) \in Nat \ {0} /\ DOMAIN stack = 1 .. Len(stack) /\ Top \in Frame
      /\ \A i \in 1 .. Len(stack) : stack[i] \in Frame
  BY <1>3, StackType DEF Top
<1>5. Root(stack) \in Node /\ Root(stack) \notin pending
  <2>1. CASE Wrapped(stack)
    <3>1. 2 \in 1 .. Len(stack)
      BY <1>4, <2>1 DEF Wrapped
    <3>2. stack[2].node \in Node /\ stack[2].node \notin pending
      BY <1>3, <1>4, <2>1, <3>1, FrameType DEF FrameFits, Wrapped
    <3>. QED  BY <2>1, <3>2 DEF Root
  <2>2. CASE ~Wrapped(stack)
    BY <1>1, <2>2, KidsType DEF Root
  <2>. QED  BY <2>1, <2>2
<1>6. /\ insert \in attached[Root(stack)] /\ insert \notin Suspended(stack)
      /\ \A f, g \in Node : \A b \in attached[f] : b \in attached[g] => f = g
      /\ \A b \in Block : IF Attached(attached, b) THEN Finished(code, b, Suspended(stack) \union {insert}) ELSE code[b] = <<>>
  BY <1>1 DEF Blocks
<1>7. CurrentFunc = Root(stack)
  BY <1>5, <1>6 DEF CurrentFunc
<1>8. Ends(code[insert]) = {}
  BY <1>2, <1>5, <1>6 DEF Attached, Finished
<1>. QED  BY <1>1, <1>2, <1>3, <1>4, <1>5, <1>7, <1>8

\* What a step makes of the blocks.
Built ==
  /\ insert' \in Block /\ attached' \in [Node -> SUBSET Block] /\ DOMAIN code' = Block
  /\ \A b \in Block : Sequence(code'[b])
  /\ Blocks(Root(stack), Suspended(stack), insert', attached', code')
  /\ \A f \in Node : attached[f] \subseteq attached'[f]
  /\ \A f \in Node : f # Root(stack) => attached'[f] = attached[f]

\* A step that adds no block.
LEMMA SameBlockBuilds ==
  ASSUME EmitInv, phase = "emit", stack # <<>>, SameBlock,
         code' = code \/ \E t : Sequence(t) /\ Ends(t) = {} /\ Emits(t)
  PROVE  Built /\ \A n \in Node : Grown(attached, attached', n)
<1>1. /\ Blocks(Root(stack), Suspended(stack), insert, attached, code)
      /\ Root(stack) \in Node /\ insert \in Block /\ attached \in [Node -> SUBSET Block] /\ DOMAIN code = Block
      /\ Ends(code[insert]) = {} /\ \A b \in Block : Sequence(code[b])
  BY Emitting
<1>2. insert' = insert /\ attached' = attached
  BY DEF SameBlock
<1>3. /\ DOMAIN code' = Block /\ Ends(code'[insert]) = {} /\ \A b \in Block : Sequence(code'[b])
      /\ \A b \in Block \ {insert} : code'[b] = code[b]
  <2>1. CASE code' = code
    BY <1>1, <2>1
  <2>2. ASSUME NEW t, Sequence(t), Ends(t) = {}, Emits(t)
        PROVE  /\ DOMAIN code' = Block /\ Ends(code'[insert]) = {} /\ \A b \in Block : Sequence(code'[b])
               /\ \A b \in Block \ {insert} : code'[b] = code[b]
    <3>1. code' = [code EXCEPT ![insert] = code[insert] \o t]
      BY <2>2 DEF Emits
    <3>2. Sequence(code[insert] \o t) /\ Ends(code[insert] \o t) = {}
      BY <1>1, <2>2, Extended
    <3>3. /\ DOMAIN code' = Block /\ code'[insert] = code[insert] \o t
          /\ \A b \in Block \ {insert} : code'[b] = code[b]
      BY <1>1, <3>1
    <3>. QED  BY <1>1, <3>2, <3>3
  <2>. QED  BY <2>1, <2>2
<1>4. Blocks(Root(stack), Suspended(stack), insert, attached, code')
  BY <1>1, <1>3, StayIn
<1>. QED  BY <1>1, <1>2, <1>3, <1>4 DEF Built, Grown

\* Names of blocks that the step of the visitor at the top of the stack may make.
New == {<<Top.node, r>> : r \in {q \in Role \ {"begin"} : ~(q \in DOMAIN Opens /\ Top.step >= Opens[q])}}

\* A step that goes on in a new block.
LEMMA NewBlocksBuild ==
  ASSUME EmitInv, phase = "emit", stack # <<>>, Top.step # -1,
         NEW N, N \subseteq New, Attach(N), insert' \in N,
         DOMAIN code' = Block, \A b \in Block : Sequence(code'[b]),
         Ends(code'[insert]) = {Len(code'[insert])}, Ends(code'[insert']) = {},
         \A b \in N \ {insert'} : Ends(code'[b]) = {Len(code'[b])},
         \A b \in Block \ (N \union {insert}) : code'[b] = code[b]
  PROVE  /\ Built /\ Grown(attached, attached', Top.node)
         /\ \A r \in Role : Attached(attached', <<Top.node, r>>) =>
              Attached(attached, <<Top.node, r>>) \/ <<Top.node, r>> \in N
<1>1. /\ Blocks(Root(stack), Suspended(stack), insert, attached, code)
      /\ Root(stack) \in Node /\ CurrentFunc = Root(stack)
      /\ attached \in [Node -> SUBSET Block]
      /\ Shape(stack, pending) /\ Apart(stack, pending, attached) /\ Top \in Frame
      /\ stack \in Seq(Frame)
  BY Emitting
<1>2. Top.node \in Node
  BY <1>1, FrameType
<1>3. N \subseteq Block
  BY <1>2 DEF New, Block
<1>4. ASSUME NEW b \in N
      PROVE  ~Attached(attached, b) /\ b \notin Suspended(stack)
  <2>1. PICK r \in Role \ {"begin"} : b = <<Top.node, r>> /\ ~(r \in DOMAIN Opens /\ Top.step >= Opens[r])
    BY DEF New
  <2>2. Len(stack) \in DOMAIN stack
    BY <1>1, StackType
  <2>3. ~Attached(attached, b)
    BY <1>1, <2>1, <2>2 DEF Apart, Top
  <2>4. b \notin Suspended(stack)
    BY <2>1 DEF Suspended, MainBegin
  <2>. QED  BY <2>3, <2>4
<1>5. attached' = [attached EXCEPT ![Root(stack)] = @ \union N]
  BY <1>1 DEF Attach
<1>6. /\ Blocks(Root(stack), Suspended(stack), insert', attached', code')
      /\ attached' \in [Node -> SUBSET Block] /\ \A f \in Node : attached[f] \subseteq attached'[f]
      /\ \A b : Attached(attached', b) => Attached(attached, b) \/ b \in N
  <2>1. N \in SUBSET Block /\ \A b \in N : ~Attached(attached, b) /\ b \notin Suspended(stack)
    BY <1>3, <1>4
  <2>. DEFINE root == Root(stack)
              suspended == Suspended(stack)
  <2>. HIDE DEF root, suspended
  <2>2. /\ Blocks(root, suspended, insert, attached, code) /\ root \in Node
        /\ \A b \in N : ~Attached(attached, b) /\ b \notin suspended
        /\ attached' = [attached EXCEPT ![root] = @ \union N]
    BY <1>1, <1>5, <2>1 DEF root, suspended
  <2>3. Branch(root, suspended, insert, insert', attached, attached', code, code', N)
    BY <2>1, <2>2 DEF Branch
  <2>4. /\ Blocks(root, suspended, insert', attached', code')
        /\ attached' \in [Node -> SUBSET Block] /\ \A f \in Node : attached[f] \subseteq attached'[f]
        /\ \A b : Attached(attached', b) => Attached(attached, b) \/ b \in N
    <3>1. attached \in [Node -> SUBSET Block] /\ root \in Node
      BY <1>1, <2>2
    <3>2. \A ins2, att2, cod2 : Branch(root, suspended, insert, ins2, attached, att2, code, cod2, N) =>
             /\ Blocks(root, suspended, ins2, att2, cod2)
             /\ att2 \in [Node -> SUBSET Block] /\ \A f \in Node : attached[f] \subseteq att2[f]
             /\ \A b : Attached(att2, b) => Attached(attached, b) \/ b \in N
      BY <3>1, BranchTo, Zenon
    <3>. QED  BY <2>3, <3>2, Zenon
  <2>. QED  BY <2>4 DEF root, suspended
<1>7. Built
  <2>1. \A f \in Node : f # Root(stack) => attached'[f] = attached[f]
    BY <1>1, <1>5
  <2>. QED  BY <1>3, <1>6, <2>1 DEF Built
<1>8. ASSUME NEW m \in Node, NEW r \in Role, Attached(attached', <<m, r>>), ~Attached(attached, <<m, r>>)
      PROVE  m = Top.node
  <2>1. <<m, r>> \in N
    BY <1>6, <1>8
  <2>2. PICK q \in Role : <<m, r>> = <<Top.node, q>>
    BY <2>1 DEF New
  <2>. QED  BY <2>2
<1>. QED  BY <1>6, <1>7, <1>8 DEF Grown

\* The parts of the invariant for a next state in which code is emitted still.
LEMMA NextInv ==
  ASSUME EmitInv, phase = "emit", stack # <<>>, UNCHANGED <<sourceVars, phase, machine>>,
         insert' \in Block, attached' \in [Node -> SUBSET Block], DOMAIN code' = Block,
         \A b \in Block : Sequence(code'[b]),
         pending' \subseteq pending, stack' # <<>>,
         \A f \in (program.functions \ pending') \union {program.main} : <<f, "begin">> \in attached'[f],
         \A f \in pending' : attached'[f] = {},
         Shape(stack', pending'), Apart(stack', pending', attached'),
         Blocks(Root(stack'), Suspended(stack'), insert', attached', code'),
         stack'[1].step = 0 => Wrapped(stack') \/ insert' = MainBegin
  PROVE  EmitInv'
<1>1. program' = program /\ phase' = "emit"
  BY DEF sourceVars
<1>2. /\ program \in Programs /\ pending \subseteq program.functions
      /\ pending \subseteq Node /\ pc[1] \in Block /\ came \in Block
  BY DEF EmitInv, Typed
<1>4. /\ insert' \in Block /\ attached' \in [Node -> SUBSET Block] /\ DOMAIN code' = Block
      /\ \A b \in Block : Sequence(code'[b])
  OBVIOUS
<1>5. pc' = pc /\ came' = came
  BY DEF machine
<1>7. stack' \in Seq(Frame)
  BY DEF Shape
<1>8. \A i \in DOMAIN stack' : /\ stack'[i].node \in Node /\ stack'[i].step \in -1 .. 3
                               /\ Range(stack'[i].vals) \subseteq Operand
                               /\ Range(stack'[i].kept) \subseteq Block
  <2>1. \A S : \A s \in Seq(S) : Range(s) \subseteq S
    BY LenProperties, ElementOfSeq DEF Range
  <2>2. \A i \in DOMAIN stack' : stack'[i] \in Frame
    BY <1>7, StackType
  <2>. QED  BY <2>1, <2>2, FrameType
<1>9. Typed'
  <2>1. pending' \subseteq Node
    BY <1>2
  <2>. QED  BY <1>1, <1>2, <1>4, <1>5, <1>8, <2>1 DEF Typed
<1>10. /\ Shape(stack, pending)' /\ Apart(stack, pending, attached)'
       /\ Root(stack)' = Root(stack') /\ Suspended(stack)' = Suspended(stack') /\ MainBegin' = MainBegin
  BY <1>1, SameProgram, Zenon
<1>11. Blocks(Root(stack), Suspended(stack), insert, attached, code)'
  BY <1>10, Zenon
<1>12. pending' \subseteq program'.functions /\ program' \in Programs
  BY <1>1, <1>2
<1>13. \A f \in (program'.functions \ pending') \union {program'.main} : <<f, "begin">> \in attached'[f]
  BY <1>1
<1>14. stack' # <<>> /\ stack'[1].step = 0 => Wrapped(stack)' \/ insert' = MainBegin'
  BY <1>10, Zenon DEF Wrapped
<1>15. phase' # "run"
  BY <1>1
<1>. QED  BY <1>4, <1>9, <1>10, <1>11, <1>12, <1>13, <1>14, <1>15, Zenon DEF EmitInv

\* What is kept of the blocks of the roots.
LEMMA BuiltKeeps ==
  ASSUME EmitInv, phase = "emit", stack # <<>>, Built
  PROVE  /\ insert' \in Block /\ attached' \in [Node -> SUBSET Block] /\ DOMAIN code' = Block
         /\ \A b \in Block : Sequence(code'[b])
         /\ \A f \in (program.functions \ pending) \union {program.main} : <<f, "begin">> \in attached'[f]
         /\ \A f \in pending : attached'[f] = {}
<1>1. program \in Programs /\ pending \subseteq program.functions /\ Root(stack) \notin pending
  BY Emitting
<1>2. program.functions \subseteq Node /\ program.main \in Node
  BY <1>1, KidsType
<1>3. /\ \A f \in (program.functions \ pending) \union {program.main} : <<f, "begin">> \in attached[f]
      /\ \A f \in pending : attached[f] = {}
  BY DEF EmitInv
<1>4. /\ insert' \in Block /\ attached' \in [Node -> SUBSET Block] /\ DOMAIN code' = Block
      /\ \A b \in Block : Sequence(code'[b])
      /\ \A f \in Node : attached[f] \subseteq attached'[f]
      /\ \A f \in Node : f # Root(stack) => attached'[f] = attached[f]
  BY DEF Built
<1>5. \A f \in (program.functions \ pending) \union {program.main} : <<f, "begin">> \in attached'[f]
  BY <1>2, <1>3, <1>4
<1>6. \A f \in pending : attached'[f] = {}
  BY <1>1, <1>2, <1>3, <1>4
<1>. QED  BY <1>4, <1>5, <1>6

\* A call of an operand keeps the invariant.
LEMMA CallInv ==
  ASSUME EmitInv, phase = "emit", stack # <<>>, Built, Stay, Calls(stack, stack'),
         Len(stack) = 1 => pending = {},
         Grown(attached, attached', Top.node),
         \A r \in Role \ {"begin"} : Attached(attached', <<Top.node, r>>) =>
            Attached(attached, <<Top.node, r>>) \/ (r \in DOMAIN Opens /\ Top.step + 1 >= Opens[r])
  PROVE  EmitInv'
<1>1. /\ program \in Programs /\ Shape(stack, pending) /\ Apart(stack, pending, attached)
      /\ pending \subseteq program.functions /\ Len(stack) \in Nat \ {0}
  BY Emitting
<1>2. UNCHANGED <<sourceVars, phase, machine>> /\ pending' = pending
  BY DEF Stay
<1>3. Apart(stack', pending, attached')
  <2>1. Grown(attached, attached', stack[Len(stack)].node)
    BY DEF Top
  <2>2. \A r \in Role \ {"begin"} : Attached(attached', <<stack[Len(stack)].node, r>>) =>
          \/ Attached(attached, <<stack[Len(stack)].node, r>>)
          \/ r \in DOMAIN Opens /\ stack[Len(stack)].step + 1 >= Opens[r]
    BY DEF Top
  <2>3. \A st2, att2 : Calls(stack, st2) /\ Grown(attached, att2, stack[Len(stack)].node)
            /\ (\A r \in Role \ {"begin"} : Attached(att2, <<stack[Len(stack)].node, r>>) =>
                  \/ Attached(attached, <<stack[Len(stack)].node, r>>)
                  \/ r \in DOMAIN Opens /\ stack[Len(stack)].step + 1 >= Opens[r])
          => Apart(st2, pending, att2)
    BY <1>1, CallApart
  <2>. QED  BY <2>1, <2>2, <2>3, Zenon
<1>4. /\ Shape(stack', pending) /\ Root(stack') = Root(stack) /\ Suspended(stack') = Suspended(stack)
      /\ stack'[1].step = 0 => Wrapped(stack')
  BY <1>1, CallShape
<1>5. stack' # <<>>
  <2>1. Len(stack') = Len(stack) + 1
    BY DEF Calls
  <2>. QED  BY <1>1, <2>1, EmptySeq
<1>6. Blocks(Root(stack'), Suspended(stack'), insert', attached', code')
  BY <1>4 DEF Built
<1>7. /\ insert' \in Block /\ attached' \in [Node -> SUBSET Block] /\ DOMAIN code' = Block
      /\ \A b \in Block : Sequence(code'[b])
      /\ \A f \in (program.functions \ pending') \union {program.main} : <<f, "begin">> \in attached'[f]
      /\ \A f \in pending' : attached'[f] = {}
  BY <1>2, BuiltKeeps
<1>8. Shape(stack', pending') /\ Apart(stack', pending', attached') /\ pending' \subseteq pending
  BY <1>2, <1>3, <1>4
<1>. QED  BY <1>2, <1>4, <1>5, <1>6, <1>7, <1>8, NextInv

\* A return keeps the invariant.
LEMMA ReturnInv ==
  ASSUME EmitInv, phase = "emit", stack # <<>>, Built, Stay, Returns(stack, stack'),
         Grown(attached, attached', Top.node)
  PROVE  EmitInv'
<1>1. /\ program \in Programs /\ Shape(stack, pending) /\ Apart(stack, pending, attached)
      /\ pending \subseteq program.functions /\ Len(stack) \in Nat \ {0}
  BY Emitting
<1>2. UNCHANGED <<sourceVars, phase, machine>> /\ pending' = pending
  BY DEF Stay
<1>3. Apart(stack', pending, attached')
  <2>1. Grown(attached, attached', stack[Len(stack)].node)
    BY DEF Top
  <2>. QED  BY <1>1, <2>1, ReturnApart
<1>4. /\ Shape(stack', pending) /\ Root(stack') = Root(stack) /\ Suspended(stack') = Suspended(stack)
      /\ stack'[1].step = 0 => Wrapped(stack')
  BY <1>1, ReturnShape
<1>5. stack' # <<>>
  BY <1>4 DEF Shape
<1>6. Blocks(Root(stack'), Suspended(stack'), insert', attached', code')
  BY <1>4 DEF Built
<1>7. /\ insert' \in Block /\ attached' \in [Node -> SUBSET Block] /\ DOMAIN code' = Block
      /\ \A b \in Block : Sequence(code'[b])
      /\ \A f \in (program.functions \ pending') \union {program.main} : <<f, "begin">> \in attached'[f]
      /\ \A f \in pending' : attached'[f] = {}
  BY <1>2, BuiltKeeps
<1>8. Shape(stack', pending') /\ Apart(stack', pending', attached') /\ pending' \subseteq pending
  BY <1>2, <1>3, <1>4
<1>. QED  BY <1>2, <1>4, <1>5, <1>6, <1>7, <1>8, NextInv

\* The activations that are not the module's have a caller.
LEMMA HasCaller ==
  ASSUME EmitInv, phase = "emit", stack # <<>>, ~Is(Top.node, "module")
  PROVE  Len(stack) >= 2
<1>1. program \in Programs /\ Shape(stack, pending) /\ Len(stack) \in Nat \ {0}
  BY Emitting
<1>2. stack[1].node = program.main /\ Is(program.main, "module")
  BY <1>1, KidsType DEF Shape
<1>3. Len(stack) # 1
  BY <1>2 DEF Top
<1>4. \A n \in Nat \ {0} : n # 1 => n >= 2
  OBVIOUS
<1>. QED  BY <1>1, <1>3, <1>4, Zenon

\* The operand that the visitor at the top of the stack calls next.
NextOperand == IF Is(Top.node, "equal") THEN 2 - Top.step ELSE Top.step + 1

\* A call of the next operand.
LEMMA CallStep ==
  ASSUME EmitInv, phase = "emit", stack # <<>>, Top.step \in 0 .. Operands(Top.node) - 1,
         NEW keep \in Seq(Block), CallKeeping(NextOperand, keep)
  PROVE  Calls(stack, stack')
<1>1. program \in Programs /\ stack \in Seq(Frame) /\ Top \in Frame /\ Len(stack) \in Nat \ {0}
  BY Emitting
<1>2. Top.node \in Node /\ Operands(Top.node) \in 0 .. 3 /\ DOMAIN Kids(Top.node) = 1 .. Operands(Top.node)
  BY <1>1, FrameType, KidsType
<1>3. Is(Top.node, "equal") => Operands(Top.node) = 2
  BY <1>1, <1>2, Arities
<1>4. \A n \in 0 .. 3 : \A s \in 0 .. n - 1 : s \in 0 .. 2 /\ s + 1 \in 1 .. n /\ (n = 2 => 2 - s \in 1 .. n) /\ 3 - (s + 1) = 2 - s
  OBVIOUS
<1>5. Top.step \in 0 .. 2 /\ NextOperand \in DOMAIN Kids(Top.node) /\ 3 - (Top.step + 1) = 2 - Top.step
  BY <1>2, <1>3, <1>4 DEF NextOperand
<1>. DEFINE x == Kids(Top.node)[NextOperand]
<1>6. x \in Node
  BY <1>1, <1>2, <1>5, KidsAreApart
<1>7. stack' = Pushed(stack, x, keep)
  BY Zenon DEF CallKeeping, Pushed
<1>8. /\ stack' \in Seq(Frame) /\ Len(stack') = Len(stack) + 1
      /\ \A i \in 1 .. Len(stack) : stack'[i].node = stack[i].node /\ (i # Len(stack) => stack'[i] = stack[i])
      /\ stack'[Len(stack)].step = Top.step + 1
      /\ stack'[Len(stack) + 1].node = x
      /\ stack'[Len(stack) + 1].step = 0
  <2>1. stack[Len(stack)].step \in 0 .. 2
    BY <1>5 DEF Top
  <2>. HIDE DEF x
  <2>. QED  BY <1>1, <1>6, <1>7, <2>1, PushedStack DEF Top
<1>9. stack'[Len(stack)].node = Top.node
  BY <1>1, <1>8 DEF Top
<1>10. Called(stack'[Len(stack)]) = NextOperand
  BY <1>5, <1>8, <1>9 DEF Called, NextOperand
<1>. QED  BY <1>8, <1>10 DEF Calls, Top

\* A return of a value.
LEMMA ReturnStep ==
  ASSUME EmitInv, phase = "emit", stack # <<>>, Top.step # -1, ~Is(Top.node, "module"),
         NEW v \in Operand, Return(v)
  PROVE  Returns(stack, stack')
<1>1. stack \in Seq(Frame) /\ Len(stack) >= 2
  BY Emitting, HasCaller
<1>2. stack' = Popped(stack, v)
  BY Zenon DEF Return, Popped
<1>3. /\ stack' \in Seq(Frame) /\ Len(stack') = Len(stack) - 1
      /\ \A i \in 1 .. Len(stack) - 1 : /\ stack'[i].node = stack[i].node
                                        /\ stack'[i].step = stack[i].step
                                        /\ stack'[i].kept = stack[i].kept
  BY <1>1, <1>2, PoppedStack
<1>. QED  BY <1>1, <1>3 DEF Returns, Top

\* The blocks that a step may make are empty and nowhere attached.
LEMMA NewBlocks ==
  ASSUME EmitInv, phase = "emit", stack # <<>>, Top.step # -1
  PROVE  insert \in Block /\ \A b \in New : b \in Block /\ b # insert /\ ~Attached(attached, b) /\ code[b] = <<>>
<1>1. /\ Apart(stack, pending, attached) /\ Blocks(Root(stack), Suspended(stack), insert, attached, code)
      /\ stack \in Seq(Frame) /\ Top \in Frame /\ Root(stack) \in Node /\ insert \in Block
  BY Emitting
<1>2. Top.node \in Node /\ Len(stack) \in DOMAIN stack
  BY <1>1, FrameType, StackType
<1>3. Attached(attached, insert) /\ \A b \in Block : ~Attached(attached, b) => code[b] = <<>>
  BY <1>1 DEF Blocks, Attached
<1>4. ASSUME NEW r \in Role \ {"begin"}, ~(r \in DOMAIN Opens /\ Top.step >= Opens[r])
      PROVE  ~Attached(attached, <<Top.node, r>>) /\ <<Top.node, r>> \in Block
  BY <1>1, <1>2, <1>4 DEF Apart, Top, Block
<1>5. \A b \in New : b \in Block /\ ~Attached(attached, b)
  BY <1>4 DEF New
<1>. QED  BY <1>1, <1>3, <1>5

\* A step that ends the block at the insertion point with a branch and goes on in one
\* new block, which is empty still.
LEMMA OpenBlock ==
  ASSUME EmitInv, phase = "emit", stack # <<>>, Top.step # -1,
         NEW r \in Role \ {"begin"}, ~(r \in DOMAIN Opens /\ Top.step >= Opens[r]),
         NEW x, Ending(x), Emits(<<x>>), Attach({Here(r)}), insert' = Here(r)
  PROVE  /\ Built /\ Grown(attached, attached', Top.node)
         /\ \A q \in Role : Attached(attached', <<Top.node, q>>) => Attached(attached, <<Top.node, q>>) \/ q = r
<1>1. Here(r) \in New
  BY DEF Here, New
<1>2. /\ insert \in Block /\ Here(r) \in Block /\ Here(r) # insert /\ code[Here(r)] = <<>>
  BY <1>1, NewBlocks
<1>3. DOMAIN code = Block /\ Ends(code[insert]) = {} /\ \A b \in Block : Sequence(code[b])
  BY Emitting
<1>4. code' = [code EXCEPT ![insert] = code[insert] \o <<x>>]
  BY DEF Emits
<1>5. Sequence(code[insert] \o <<x>>) /\ Ends(code[insert] \o <<x>>) = {Len(code[insert] \o <<x>>)}
  BY <1>2, <1>3, ExtendedByOne DEF Ending
<1>6. /\ DOMAIN code' = Block /\ code'[insert] = code[insert] \o <<x>>
      /\ \A b \in Block \ {insert} : code'[b] = code[b]
  BY <1>2, <1>3, <1>4
<1>7. \A b \in Block : Sequence(code'[b])
  BY <1>3, <1>5, <1>6
<1>8. Ends(code'[insert']) = {}
  <2>1. code'[insert'] = <<>>
    BY <1>2, <1>6
  <2>. QED  BY <2>1, ShortSequences
<1>9. Ends(code'[insert]) = {Len(code'[insert])}
  BY <1>5, <1>6
<1>. DEFINE N == {Here(r)}
<1>10. N \subseteq New /\ insert' \in N /\ Attach(N)
  BY <1>1
<1>11. \A b \in N \ {insert'} : Ends(code'[b]) = {Len(code'[b])}
  OBVIOUS
<1>12. \A b \in Block \ (N \union {insert}) : code'[b] = code[b]
  BY <1>6
<1>. HIDE DEF N
<1>13. /\ Built /\ Grown(attached, attached', Top.node)
       /\ \A q \in Role : Attached(attached', <<Top.node, q>>) =>
            Attached(attached, <<Top.node, q>>) \/ <<Top.node, q>> \in N
  BY <1>6, <1>7, <1>8, <1>9, <1>10, <1>11, <1>12, NewBlocksBuild
<1>14. \A q : <<Top.node, q>> \in N => q = r
  BY DEF N, Here
<1>. QED  BY <1>13, <1>14

\* A call that stays in its block.
LEMMA CallHere ==
  ASSUME EmitInv, phase = "emit", stack # <<>>, Top.step \in 0 .. Operands(Top.node) - 1,
         Is(Top.node, "module") => pending = {},
         NEW keep \in Seq(Block), CallKeeping(NextOperand, keep), SameBlock, Stay,
         code' = code \/ \E t : Sequence(t) /\ Ends(t) = {} /\ Emits(t)
  PROVE  EmitInv'
<1>1. Calls(stack, stack')
  BY CallStep
<1>2. Built /\ \A n \in Node : Grown(attached, attached', n)
  BY SameBlockBuilds
<1>3. Top \in Frame
  BY Emitting
<1>4. Grown(attached, attached', Top.node)
  BY <1>2, <1>3, FrameType
<1>5. attached' = attached
  BY DEF SameBlock
<1>6. Len(stack) = 1 => pending = {}
  BY HasCaller
<1>. QED  BY <1>1, <1>2, <1>4, <1>5, <1>6, CallInv

\* A call in a new block.
LEMMA CallThere ==
  ASSUME EmitInv, phase = "emit", stack # <<>>, Top.step \in 0 .. Operands(Top.node) - 1, ~Is(Top.node, "module"),
         NEW keep \in Seq(Block), CallKeeping(NextOperand, keep), Stay,
         NEW r \in DOMAIN Opens, Opens[r] = Top.step + 1,
         NEW x, Ending(x), Emits(<<x>>), Attach({Here(r)}), insert' = Here(r)
  PROVE  EmitInv'
<1>1. Calls(stack, stack')
  BY CallStep
<1>2. r \in Role \ {"begin"}
  BY DEF Opens, Role
<1>3. Top.step # -1 /\ ~(Top.step >= Opens[r]) /\ Top.step + 1 >= Opens[r]
  <2>1. program \in Programs /\ Top \in Frame
    BY Emitting
  <2>2. Top.node \in Node
    BY <2>1, FrameType
  <2>3. Operands(Top.node) \in 0 .. 3
    BY <2>1, <2>2, KidsType
  <2>4. \A n \in 0 .. 3 : \A s \in 0 .. n - 1 : s # -1 /\ ~(s >= s + 1) /\ s + 1 >= s + 1
    OBVIOUS
  <2>. QED  BY <2>3, <2>4
<1>4. /\ Built /\ Grown(attached, attached', Top.node)
      /\ \A q \in Role : Attached(attached', <<Top.node, q>>) => Attached(attached, <<Top.node, q>>) \/ q = r
  BY <1>2, <1>3, OpenBlock
<1>5. Len(stack) >= 2
  BY HasCaller
<1>6. Len(stack) # 1
  <2>1. \A n : n >= 2 => n # 1
    OBVIOUS
  <2>. QED  BY <1>5, <2>1, Zenon
<1>7. \A q \in Role \ {"begin"} : Attached(attached', <<Top.node, q>>) =>
        Attached(attached, <<Top.node, q>>) \/ (q \in DOMAIN Opens /\ Top.step + 1 >= Opens[q])
  BY <1>3, <1>4
<1>. QED  BY <1>1, <1>4, <1>6, <1>7, CallInv

\* A return that stays in its block.
LEMMA ReturnHere ==
  ASSUME EmitInv, phase = "emit", stack # <<>>, Top.step # -1, ~Is(Top.node, "module"),
         NEW v \in Operand, Return(v), SameBlock, Stay,
         code' = code \/ \E t : Sequence(t) /\ Ends(t) = {} /\ Emits(t)
  PROVE  EmitInv'
<1>1. Returns(stack, stack')
  BY ReturnStep
<1>2. Built /\ \A n \in Node : Grown(attached, attached', n)
  BY SameBlockBuilds
<1>3. Top \in Frame
  BY Emitting
<1>4. Grown(attached, attached', Top.node)
  BY <1>2, <1>3, FrameType
<1>. QED  BY <1>1, <1>2, <1>4, ReturnInv

\* One instruction that is no terminator, added where the insertion point is.
LEMMA EmitsOne ==
  ASSUME NEW x, Plain(x), Emits(<<x>>)
  PROVE  \E t : Sequence(t) /\ Ends(t) = {} /\ Emits(t)
BY ShortSequences DEF Plain

\* Which instructions are terminators.
LEMMA Terminators ==
  /\ \A b : Ending(Br(b))
  /\ \A v, t, e : Ending(CondBr(v, t, e))
  /\ \A v : Ending(Ret(v))
  /\ \A n, f : Plain(Phi(n, f))
  /\ \A what \in {"eval", "result", "pass", "fail"} : \A n, v : Plain(Do(what, n, v))
  /\ \A n, l, r : Plain(Equal(n, l, r))
BY DEF Ending, Plain, Sound, Terminates, Br, CondBr, Ret, Phi, Do, Equal

\* The value of a list is one of the values of its statements.
LEMMA ListValue ==
  ASSUME NEW s \in Seq(Operand)
  PROVE  LET valued == {i \in DOMAIN s : s[i] # NoValue}
         IN  (IF valued = {} THEN NoValue ELSE s[CHOOSE i \in valued : \A j \in valued : j <= i]) \in Operand
<1>. DEFINE valued == {i \in DOMAIN s : s[i] # NoValue}
<1>1. Len(s) \in Nat /\ DOMAIN s = 1 .. Len(s)
  BY LenProperties
<1>2. \A i \in DOMAIN s : s[i] \in Operand
  BY <1>1, ElementOfSeq
<1>3. valued \subseteq DOMAIN s /\ NoValue \in Operand
  BY DEF Operand
<1>4. valued \subseteq 0 .. Len(s)
  BY <1>1
<1>. HIDE DEF valued
<1>5. ASSUME valued # {}
      PROVE  (CHOOSE i \in valued : \A j \in valued : j <= i) \in valued
  BY <1>1, <1>4, <1>5, GreatestExists
<1>6. (IF valued = {} THEN NoValue ELSE s[CHOOSE i \in valued : \A j \in valued : j <= i]) \in Operand
  BY <1>2, <1>3, <1>5
<1>. QED  BY <1>6 DEF valued

\* The operand called next, and the first arguments that the steps give.
LEMMA NextOperands ==
  ASSUME program \in Programs, Top \in Frame
  PROVE  /\ Operands(Top.node) \in 0 .. 3 /\ Top.node \in Node /\ Top.vals \in Seq(Operand) /\ Top.kept \in Seq(Block)
         /\ ~Is(Top.node, "equal") => NextOperand = Top.step + 1
         /\ Is(Top.node, "equal") => NextOperand = 2 - Top.step
BY FrameType, KidsType DEF NextOperand

\* The visitor at the top of the stack has one kind of expression.
LEMMA OneKind ==
  \A k, j : Is(Top.node, k) /\ k # j => ~Is(Top.node, j)
BY Zenon DEF Is

\* The visitors without branches keep the invariant.
LEMMA PlainKeeps ==
  ASSUME EmitInv,
         EmitLeaf \/ EmitDefinition \/ EmitRight \/ EmitLeft \/ EmitEqual \/ EmitItem \/ EndList \/ EmitLogicalLeft
  PROVE  EmitInv'
<1>1. phase = "emit" /\ stack # <<>>
  BY Zenon DEF EmitLeaf, EmitDefinition, EmitRight, EmitLeft, EmitEqual, EmitItem, EndList, EmitLogicalLeft, At
<1>2. program \in Programs /\ Top \in Frame /\ insert \in Block
  BY <1>1, Emitting
<1>3. /\ Operands(Top.node) \in 0 .. 3 /\ Top.node \in Node /\ Top.vals \in Seq(Operand) /\ Top.kept \in Seq(Block)
      /\ ~Is(Top.node, "equal") => NextOperand = Top.step + 1
      /\ Is(Top.node, "equal") => NextOperand = 2 - Top.step
  BY <1>2, NextOperands
<1>4. /\ Is(Top.node, "equal") => Operands(Top.node) = 2
      /\ Is(Top.node, "and") => Operands(Top.node) = 2
      /\ Is(Top.node, "or") => Operands(Top.node) = 2
  BY <1>2, <1>3, Arities
<1>5. Top.node \in Operand /\ NoValue \in Operand
  BY <1>3 DEF Operand
<1>6. CASE EmitLeaf
  <2>1. Is(Top.node, "leaf") /\ Top.step = 0 /\ Return(Top.node) /\ SameBlock /\ Stay
        /\ Emits(<<Do("eval", Top.node, NoValue)>>)
    BY <1>6 DEF EmitLeaf, At
  <2>2. Top.step # -1 /\ ~Is(Top.node, "module")
    BY <2>1, OneKind
  <2>3. \E t : Sequence(t) /\ Ends(t) = {} /\ Emits(t)
    BY <2>1, Terminators, EmitsOne
  <2>. QED  BY <1>1, <1>5, <2>1, <2>2, <2>3, ReturnHere
<1>7. CASE EmitDefinition
  <2>1. Is(Top.node, "define") /\ Top.step = 0 /\ Return(NoValue) /\ SameBlock /\ Stay /\ code' = code
    BY <1>7 DEF EmitDefinition, At
  <2>2. Top.step # -1 /\ ~Is(Top.node, "module")
    BY <2>1, OneKind
  <2>. QED  BY <1>1, <1>5, <2>1, <2>2, ReturnHere
<1>8. CASE EmitRight
  <2>1. Is(Top.node, "equal") /\ Top.step = 0 /\ CallKeeping(2, Top.kept) /\ SameBlock /\ Stay /\ code' = code
    BY <1>8 DEF EmitRight, At, Call
  <2>2. Top.step \in 0 .. Operands(Top.node) - 1 /\ NextOperand = 2 /\ ~Is(Top.node, "module")
    BY <1>3, <1>4, <2>1, OneKind
  <2>. QED  BY <1>1, <1>3, <2>1, <2>2, CallHere
<1>9. CASE EmitLeft
  <2>1. Is(Top.node, "equal") /\ Top.step = 1 /\ CallKeeping(1, Top.kept) /\ SameBlock /\ Stay /\ code' = code
    BY <1>9 DEF EmitLeft, At, Call
  <2>2. Top.step \in 0 .. Operands(Top.node) - 1 /\ NextOperand = 1 /\ ~Is(Top.node, "module")
    BY <1>3, <1>4, <2>1, OneKind
  <2>. QED  BY <1>1, <1>3, <2>1, <2>2, CallHere
<1>10. CASE EmitEqual
  <2>1. Is(Top.node, "equal") /\ Top.step = 2 /\ Return(Top.node) /\ SameBlock /\ Stay
        /\ Emits(<<Equal(Top.node, Top.vals[2], Top.vals[1])>>)
    BY <1>10 DEF EmitEqual, At
  <2>2. Top.step # -1 /\ ~Is(Top.node, "module")
    BY <2>1, OneKind
  <2>3. \E t : Sequence(t) /\ Ends(t) = {} /\ Emits(t)
    BY <2>1, Terminators, EmitsOne
  <2>. QED  BY <1>1, <1>5, <2>1, <2>2, <2>3, ReturnHere
<1>11. CASE EmitItem
  <2>1. /\ Is(Top.node, "list") /\ Top.step \in 0 .. Operands(Top.node) - 1
        /\ CallKeeping(Top.step + 1, Top.kept) /\ SameBlock /\ Stay /\ code' = code
    BY <1>11 DEF EmitItem, Call
  <2>2. NextOperand = Top.step + 1 /\ ~Is(Top.node, "module")
    BY <1>3, <2>1, OneKind
  <2>. QED  BY <1>1, <1>3, <2>1, <2>2, CallHere
<1>12. CASE EndList
  <2>. DEFINE valued == {i \in DOMAIN Top.vals : Top.vals[i] # NoValue}
              v == IF valued = {} THEN NoValue ELSE Top.vals[CHOOSE i \in valued : \A j \in valued : j <= i]
  <2>1. Is(Top.node, "list") /\ Top.step = Operands(Top.node) /\ Return(v) /\ SameBlock /\ Stay /\ code' = code
    BY <1>12, Zenon DEF EndList, At
  <2>2. Top.step # -1 /\ ~Is(Top.node, "module")
    <3>1. ~Is(Top.node, "module")
      BY <2>1, OneKind
    <3>. QED  BY <1>3, <2>1, <3>1
  <2>3. v \in Operand
    BY <1>3, ListValue
  <2>. HIDE DEF v
  <2>. QED  BY <1>1, <2>1, <2>2, <2>3, ReturnHere
<1>13. CASE EmitLogicalLeft
  <2>1. /\ Is(Top.node, "and") \/ Is(Top.node, "or")
        /\ Top.step = 0 /\ CallKeeping(1, <<insert>>) /\ SameBlock /\ Stay /\ code' = code
    BY <1>13 DEF EmitLogicalLeft
  <2>2. ~Is(Top.node, "module") /\ ~Is(Top.node, "equal")
    BY <2>1, OneKind
  <2>3. Top.step \in 0 .. Operands(Top.node) - 1 /\ NextOperand = 1
    BY <1>3, <1>4, <2>1, <2>2
  <2>4. <<insert>> \in Seq(Block)
    BY <1>2
  <2>. QED  BY <1>1, <2>1, <2>2, <2>3, <2>4, CallHere
<1>. QED  BY <1>6, <1>7, <1>8, <1>9, <1>10, <1>11, <1>12, <1>13

\* The steps that go on with an operand in a new block keep the invariant, and so do
\* those that call the condition of a conditional, of a loop and of an assertion.
LEMMA BranchCallsKeep ==
  ASSUME EmitInv,
         \/ EmitLogicalRight \/ EmitIfCondition \/ EmitThen \/ EmitElse
         \/ EmitWhileCondition \/ EmitWhileBody \/ EmitAssertCondition
  PROVE  EmitInv'
<1>1. phase = "emit" /\ stack # <<>>
  BY Zenon DEF EmitLogicalRight, EmitIfCondition, EmitThen, EmitElse, EmitWhileCondition, EmitWhileBody, EmitAssertCondition, At
<1>2. program \in Programs /\ Top \in Frame /\ insert \in Block
  BY <1>1, Emitting
<1>3. /\ Operands(Top.node) \in 0 .. 3 /\ Top.node \in Node /\ Top.kept \in Seq(Block)
      /\ ~Is(Top.node, "equal") => NextOperand = Top.step + 1
  BY <1>2, NextOperands
<1>4. /\ Is(Top.node, "and") => Operands(Top.node) = 2
      /\ Is(Top.node, "or") => Operands(Top.node) = 2
      /\ Is(Top.node, "if") => Operands(Top.node) \in {2, 3}
      /\ Is(Top.node, "while") => Operands(Top.node) = 2
      /\ Is(Top.node, "assert") => Operands(Top.node) = 1
  BY <1>2, <1>3, Arities
<1>5. /\ DOMAIN Opens = {"condition", "body", "then", "else", "rValue"}
      /\ Opens["condition"] = 1 /\ Opens["body"] = 2 /\ Opens["then"] = 2 /\ Opens["else"] = 3 /\ Opens["rValue"] = 2
  BY DEF Opens
<1>6. CASE EmitLogicalRight
  <2>1. PICK x : /\ Is(Top.node, "and") \/ Is(Top.node, "or")
                 /\ Top.step = 1 /\ Ending(x) /\ Emits(<<x>>) /\ CallKeeping(2, Top.kept) /\ Stay
                 /\ Attach({Here("rValue")}) /\ insert' = Here("rValue")
    <3>1. Ending(IF Is(Top.node, "and") THEN CondBr(Top.vals[1], Here("rValue"), Here("end"))
                                        ELSE CondBr(Top.vals[1], Here("end"), Here("rValue")))
      BY Terminators
    <3>. QED  BY <1>6, <3>1, Zenon DEF EmitLogicalRight, Call
  <2>2. ~Is(Top.node, "module") /\ ~Is(Top.node, "equal")
    BY <2>1, OneKind
  <2>3. Top.step \in 0 .. Operands(Top.node) - 1 /\ NextOperand = 2
    BY <1>3, <1>4, <2>1, <2>2
  <2>. QED  BY <1>1, <1>3, <1>5, <2>1, <2>2, <2>3, CallThere
<1>7. CASE EmitIfCondition
  <2>1. Is(Top.node, "if") /\ Top.step = 0 /\ CallKeeping(1, Top.kept) /\ SameBlock /\ Stay /\ code' = code
    BY <1>7 DEF EmitIfCondition, At, Call
  <2>2. ~Is(Top.node, "module") /\ ~Is(Top.node, "equal")
    BY <2>1, OneKind
  <2>3. Top.step \in 0 .. Operands(Top.node) - 1 /\ NextOperand = 1
    BY <1>3, <1>4, <2>1, <2>2
  <2>. QED  BY <1>1, <1>3, <2>1, <2>2, <2>3, CallHere
<1>8. CASE EmitThen
  <2>1. PICK x : /\ Is(Top.node, "if") /\ Top.step = 1 /\ Ending(x) /\ Emits(<<x>>)
                 /\ CallKeeping(2, Top.kept) /\ Stay
                 /\ Attach({Here("then")}) /\ insert' = Here("then")
    BY <1>8, Terminators DEF EmitThen, Call, At
  <2>2. ~Is(Top.node, "module") /\ ~Is(Top.node, "equal")
    BY <2>1, OneKind
  <2>3. Top.step \in 0 .. Operands(Top.node) - 1 /\ NextOperand = 2
    BY <1>3, <1>4, <2>1, <2>2
  <2>. QED  BY <1>1, <1>3, <1>5, <2>1, <2>2, <2>3, CallThere
<1>9. CASE EmitElse
  <2>1. PICK x : /\ Is(Top.node, "if") /\ Top.step = 2 /\ Operands(Top.node) = 3 /\ Ending(x) /\ Emits(<<x>>)
                 /\ CallKeeping(3, <<insert>>) /\ Stay
                 /\ Attach({Here("else")}) /\ insert' = Here("else")
    BY <1>9, Terminators DEF EmitElse, At
  <2>2. ~Is(Top.node, "module") /\ ~Is(Top.node, "equal")
    BY <2>1, OneKind
  <2>3. Top.step \in 0 .. Operands(Top.node) - 1 /\ NextOperand = 3
    BY <1>3, <2>1, <2>2
  <2>4. <<insert>> \in Seq(Block)
    BY <1>2
  <2>5. "else" \in DOMAIN Opens /\ Opens["else"] = Top.step + 1
    BY <1>5, <2>1
  <2>6. CallKeeping(NextOperand, <<insert>>)
    BY <2>1, <2>3
  <2>. QED  BY <1>1, <2>1, <2>2, <2>3, <2>4, <2>5, <2>6, CallThere
<1>10. CASE EmitWhileCondition
  <2>1. PICK x : /\ Is(Top.node, "while") /\ Top.step = 0 /\ Ending(x) /\ Emits(<<x>>)
                 /\ CallKeeping(1, Top.kept) /\ Stay
                 /\ Attach({Here("condition")}) /\ insert' = Here("condition")
    BY <1>10, Terminators DEF EmitWhileCondition, Call, At
  <2>2. ~Is(Top.node, "module") /\ ~Is(Top.node, "equal")
    BY <2>1, OneKind
  <2>3. Top.step \in 0 .. Operands(Top.node) - 1 /\ NextOperand = 1
    BY <1>3, <1>4, <2>1, <2>2
  <2>. QED  BY <1>1, <1>3, <1>5, <2>1, <2>2, <2>3, CallThere
<1>11. CASE EmitWhileBody
  <2>1. PICK x : /\ Is(Top.node, "while") /\ Top.step = 1 /\ Ending(x) /\ Emits(<<x>>)
                 /\ CallKeeping(2, Top.kept) /\ Stay
                 /\ Attach({Here("body")}) /\ insert' = Here("body")
    BY <1>11, Terminators DEF EmitWhileBody, Call, At
  <2>2. ~Is(Top.node, "module") /\ ~Is(Top.node, "equal")
    BY <2>1, OneKind
  <2>3. Top.step \in 0 .. Operands(Top.node) - 1 /\ NextOperand = 2
    BY <1>3, <1>4, <2>1, <2>2
  <2>. QED  BY <1>1, <1>3, <1>5, <2>1, <2>2, <2>3, CallThere
<1>12. CASE EmitAssertCondition
  <2>1. Is(Top.node, "assert") /\ Top.step = 0 /\ CallKeeping(1, Top.kept) /\ SameBlock /\ Stay /\ code' = code
    BY <1>12 DEF EmitAssertCondition, At, Call
  <2>2. ~Is(Top.node, "module") /\ ~Is(Top.node, "equal")
    BY <2>1, OneKind
  <2>3. Top.step \in 0 .. Operands(Top.node) - 1 /\ NextOperand = 1
    BY <1>3, <1>4, <2>1, <2>2
  <2>. QED  BY <1>1, <1>3, <2>1, <2>2, <2>3, CallHere
<1>. QED  BY <1>6, <1>7, <1>8, <1>9, <1>10, <1>11, <1>12

\* A return from a visitor that ends the block at the insertion point and goes on in one
\* of the blocks that it attaches.
LEMMA ReturnThere ==
  ASSUME EmitInv, phase = "emit", stack # <<>>, Top.step # -1, ~Is(Top.node, "module"),
         NEW v \in Operand, Return(v), Stay,
         NEW N, N \subseteq New, Attach(N), insert' \in N, DOMAIN code' = Block,
         NEW x, Ending(x), code'[insert] = Append(code[insert], x),
         Sequence(code'[insert']), Ends(code'[insert']) = {},
         \A b \in N \ {insert'} : Sequence(code'[b]) /\ Ends(code'[b]) = {Len(code'[b])},
         \A b \in Block \ (N \union {insert}) : code'[b] = code[b]
  PROVE  EmitInv'
<1>1. Returns(stack, stack')
  BY ReturnStep
<1>2. /\ insert \in Block /\ Ends(code[insert]) = {} /\ \A b \in Block : Sequence(code[b])
  BY Emitting
<1>3. Sequence(code'[insert]) /\ Ends(code'[insert]) = {Len(code'[insert])}
  <2>1. Sequence(code[insert]) /\ Ends(code[insert]) = {}
    BY <1>2
  <2>2. /\ code'[insert] = code[insert] \o <<x>> /\ Sequence(code[insert] \o <<x>>)
        /\ Ends(code[insert] \o <<x>>) = {Len(code[insert] \o <<x>>)}
    BY <2>1, ExtendedByOne DEF Ending
  <2>. QED  BY <2>2
<1>4. \A b \in Block : Sequence(code'[b])
  BY <1>2, <1>3
<1>5. \A b \in N \ {insert'} : Ends(code'[b]) = {Len(code'[b])}
  OBVIOUS
<1>6. Built /\ Grown(attached, attached', Top.node)
  BY <1>3, <1>4, <1>5, NewBlocksBuild
<1>. QED  BY <1>1, <1>6, ReturnInv

\* The last steps of the visitors with branches keep the invariant.
LEMMA BranchReturnsKeep ==
  ASSUME EmitInv, EndLogical \/ EndIf \/ EndIfWithoutElse \/ EndWhile \/ EndAssert
  PROVE  EmitInv'
<1>1. phase = "emit" /\ stack # <<>>
  BY Zenon DEF EndLogical, EndIf, EndIfWithoutElse, EndWhile, EndAssert, At
<1>2. program \in Programs /\ Top \in Frame /\ insert \in Block /\ DOMAIN code = Block
  BY <1>1, Emitting
<1>3. Top.node \in Operand /\ NoValue \in Operand /\ IfValue \in Operand
  BY <1>2, FrameType DEF Operand, IfValue
<1>4. ASSUME Top.step # -1
      PROVE  \A b \in New : b \in Block /\ b # insert /\ code[b] = <<>>
  BY <1>1, <1>4, NewBlocks
<1>5. Here("end") \in New /\ Here("pass") \in New /\ Here("fail") \in New
  BY DEF New, Here, Role, Opens
<1>6. /\ Here("end") # Here("pass") /\ Here("end") # Here("fail") /\ Here("pass") # Here("fail")
      /\ Here("end") # Here("else")
  BY DEF Here
<1>7. \A b, n, f : /\ Sequence(<<Phi(n, f)>>) /\ Ends(<<Phi(n, f)>>) = {}
                   /\ Sequence(Merge(n, f)) /\ Ends(Merge(n, f)) = {}
                   /\ Sequence(<<Br(b)>>) /\ Ends(<<Br(b)>>) = {Len(<<Br(b)>>)}
  <2>1. \A n, f : ~Terminates(Phi(n, f)) /\ Sound(Phi(n, f))
    BY Terminators DEF Plain
  <2>2. \A n, f : Sequence(<<Phi(n, f)>>) /\ Ends(<<Phi(n, f)>>) = {}
    BY <2>1, ShortSequences
  <2>3. \A n, f : Sequence(Merge(n, f)) /\ Ends(Merge(n, f)) = {}
    BY <2>2, ShortSequences DEF Merge
  <2>4. ASSUME NEW b
        PROVE  Sequence(<<Br(b)>>) /\ Ends(<<Br(b)>>) = {Len(<<Br(b)>>)}
    <3>1. Sequence(<<Br(b)>>) /\ Ends(<<Br(b)>>) = {1}
      BY Terminators, ShortSequences DEF Ending
    <3>. QED  BY <3>1
  <2>. QED  BY <2>2, <2>3, <2>4
<1>8. CASE EndLogical
  <2>1. /\ Is(Top.node, "and") \/ Is(Top.node, "or")
        /\ Top.step = 2 /\ Return(Top.node) /\ Stay /\ Attach({Here("end")}) /\ insert' = Here("end")
    BY <1>8 DEF EndLogical
  <2>2. PICK n, f : code' = [code EXCEPT ![insert] = Append(@, Br(Here("end"))), ![Here("end")] = <<Phi(n, f)>>]
    BY <1>8, Zenon DEF EndLogical
  <2>3. ~Is(Top.node, "module") /\ Top.step # -1
    BY <2>1, OneKind
  <2>4. Here("end") \in Block /\ Here("end") # insert
    BY <1>4, <1>5, <2>3
  <2>5. /\ DOMAIN code' = Block /\ code'[insert] = Append(code[insert], Br(Here("end")))
        /\ code'[Here("end")] = <<Phi(n, f)>>
        /\ \A b \in Block \ ({Here("end")} \union {insert}) : code'[b] = code[b]
    BY <1>2, <2>2, <2>4
  <2>6. {Here("end")} \subseteq New /\ insert' \in {Here("end")} /\ Ending(Br(Here("end")))
        /\ Sequence(code'[insert']) /\ Ends(code'[insert']) = {}
    <3>1. code'[insert'] = <<Phi(n, f)>> /\ {Here("end")} \subseteq New /\ insert' \in {Here("end")}
      BY <1>5, <2>1, <2>5
    <3>2. Sequence(<<Phi(n, f)>>) /\ Ends(<<Phi(n, f)>>) = {} /\ Ending(Br(Here("end")))
      BY <1>7, Terminators, Zenon
    <3>. QED  BY <3>1, <3>2
  <2>7. \A b \in {Here("end")} \ {insert'} : Sequence(code'[b]) /\ Ends(code'[b]) = {Len(code'[b])}
    BY <2>1
  <2>. QED  BY <1>1, <1>3, <2>1, <2>3, <2>5, <2>6, <2>7, ReturnThere
<1>9. CASE EndIf
  <2>1. /\ Is(Top.node, "if") /\ Top.step = 3 /\ Return(IfValue) /\ Stay
        /\ Attach({Here("end")}) /\ insert' = Here("end")
    BY <1>9 DEF EndIf, At
  <2>2. PICK n, f : code' = [code EXCEPT ![insert] = Append(@, Br(Here("end"))), ![Here("end")] = Merge(n, f)]
    BY <1>9, Zenon DEF EndIf
  <2>3. ~Is(Top.node, "module") /\ Top.step # -1
    BY <2>1, OneKind
  <2>4. Here("end") \in Block /\ Here("end") # insert
    BY <1>4, <1>5, <2>3
  <2>5. /\ DOMAIN code' = Block /\ code'[insert] = Append(code[insert], Br(Here("end")))
        /\ code'[Here("end")] = Merge(n, f)
        /\ \A b \in Block \ ({Here("end")} \union {insert}) : code'[b] = code[b]
    BY <1>2, <2>2, <2>4
  <2>6. {Here("end")} \subseteq New /\ insert' \in {Here("end")} /\ Ending(Br(Here("end")))
        /\ Sequence(code'[insert']) /\ Ends(code'[insert']) = {}
    <3>1. code'[insert'] = Merge(n, f) /\ {Here("end")} \subseteq New /\ insert' \in {Here("end")}
      BY <1>5, <2>1, <2>5
    <3>2. Sequence(Merge(n, f)) /\ Ends(Merge(n, f)) = {} /\ Ending(Br(Here("end")))
      BY <1>7, Terminators, Zenon
    <3>. QED  BY <3>1, <3>2
  <2>7. \A b \in {Here("end")} \ {insert'} : Sequence(code'[b]) /\ Ends(code'[b]) = {Len(code'[b])}
    BY <2>1
  <2>. QED  BY <1>1, <1>3, <2>1, <2>3, <2>5, <2>6, <2>7, ReturnThere
<1>10. CASE EndIfWithoutElse
  <2>. DEFINE N == {Here("else"), Here("end")}
  <2>1. /\ Is(Top.node, "if") /\ Top.step = 2 /\ Return(IfValue) /\ Stay
        /\ Attach(N) /\ insert' = Here("end")
    BY <1>10 DEF EndIfWithoutElse, At
  <2>2. PICK n, f : code' = [code EXCEPT ![insert] = Append(@, Br(Here("end"))), ![Here("else")] = <<Br(Here("end"))>>,
                                         ![Here("end")] = Merge(n, f)]
    BY <1>10, Zenon DEF EndIfWithoutElse
  <2>3. ~Is(Top.node, "module") /\ Top.step # -1
    BY <2>1, OneKind
  <2>4. Here("else") \in New
    <3>1. "else" \in Role \ {"begin"} /\ ~(Top.step >= Opens["else"])
      BY <2>1 DEF Role, Opens
    <3>. QED  BY <3>1 DEF New, Here
  <2>5. Here("end") \in Block /\ Here("end") # insert /\ Here("else") \in Block /\ Here("else") # insert
    BY <1>4, <1>5, <2>3, <2>4
  <2>6. /\ DOMAIN code' = Block /\ code'[insert] = Append(code[insert], Br(Here("end")))
        /\ code'[Here("end")] = Merge(n, f) /\ code'[Here("else")] = <<Br(Here("end"))>>
        /\ \A b \in Block \ (N \union {insert}) : code'[b] = code[b]
    BY <1>2, <1>6, <2>2, <2>5
  <2>7. N \subseteq New /\ insert' \in N /\ Ending(Br(Here("end")))
        /\ Sequence(code'[insert']) /\ Ends(code'[insert']) = {}
    <3>1. code'[insert'] = Merge(n, f) /\ N \subseteq New /\ insert' \in N
      BY <1>5, <2>1, <2>4, <2>6
    <3>2. Sequence(Merge(n, f)) /\ Ends(Merge(n, f)) = {} /\ Ending(Br(Here("end")))
      BY <1>7, Terminators, Zenon
    <3>. QED  BY <3>1, <3>2
  <2>8. \A b \in N \ {insert'} : Sequence(code'[b]) /\ Ends(code'[b]) = {Len(code'[b])}
    BY <1>7, <2>1, <2>6
  <2>. HIDE DEF N
  <2>. QED  BY <1>1, <1>3, <2>1, <2>3, <2>6, <2>7, <2>8, ReturnThere
<1>11. CASE EndWhile
  <2>1. /\ Is(Top.node, "while") /\ Top.step = 2 /\ Return(NoValue) /\ Stay
        /\ Attach({Here("end")}) /\ insert' = Here("end") /\ Emits(<<Br(Here("condition"))>>)
    BY <1>11 DEF EndWhile, At
  <2>2. ~Is(Top.node, "module") /\ Top.step # -1
    BY <2>1, OneKind
  <2>3. "end" \in Role \ {"begin"} /\ ~("end" \in DOMAIN Opens /\ Top.step >= Opens["end"])
    BY DEF Role, Opens
  <2>4. Built /\ Grown(attached, attached', Top.node)
    BY <1>1, <2>1, <2>2, <2>3, OpenBlock, Terminators
  <2>5. Returns(stack, stack')
    BY <1>1, <1>3, <2>1, <2>2, ReturnStep
  <2>. QED  BY <1>1, <2>1, <2>4, <2>5, ReturnInv
<1>12. CASE EndAssert
  <2>. DEFINE N == {Here("pass"), Here("fail"), Here("end")}
              x == CondBr(Top.vals[1], Here("pass"), Here("fail"))
              p == <<Do("pass", Top.node, TrueConst), Br(Here("end"))>>
              q == <<Do("fail", Top.node, FalseConst), Br(Here("end"))>>
  <2>1. /\ Is(Top.node, "assert") /\ Top.step = 1 /\ Return(NoValue) /\ Stay
        /\ Attach(N) /\ insert' = Here("end")
        /\ code' = [code EXCEPT ![insert] = Append(@, x), ![Here("pass")] = p, ![Here("fail")] = q]
    BY <1>12 DEF EndAssert, At
  <2>2. ~Is(Top.node, "module") /\ Top.step # -1
    BY <2>1, OneKind
  <2>3. Ending(x)
    BY Terminators
  <2>4. Sequence(p) /\ Ends(p) = {Len(p)} /\ Sequence(q) /\ Ends(q) = {Len(q)}
    <3>1. Sequence(p) /\ Ends(p) = {2} /\ Sequence(q) /\ Ends(q) = {2}
      BY Terminators, ShortSequences
    <3>2. Len(p) = 2 /\ Len(q) = 2
      OBVIOUS
    <3>. QED  BY <3>1, <3>2
  <2>. HIDE DEF x, p, q
  <2>5. \A b \in N : b \in Block /\ b # insert /\ code[b] = <<>>
    BY <1>4, <1>5, <2>2
  <2>6. /\ DOMAIN code' = Block /\ code'[insert] = Append(code[insert], x)
        /\ code'[Here("pass")] = p /\ code'[Here("fail")] = q /\ code'[Here("end")] = <<>>
        /\ \A b \in Block \ (N \union {insert}) : code'[b] = code[b]
    BY <1>2, <1>6, <2>1, <2>5
  <2>7. N \subseteq New /\ insert' \in N /\ Sequence(code'[insert']) /\ Ends(code'[insert']) = {}
    BY <1>5, <2>1, <2>6, ShortSequences
  <2>8. \A b \in N \ {insert'} : Sequence(code'[b]) /\ Ends(code'[b]) = {Len(code'[b])}
    BY <2>1, <2>4, <2>6
  <2>. HIDE DEF N
  <2>. QED  BY <1>1, <1>3, <2>1, <2>2, <2>3, <2>6, <2>7, <2>8, ReturnThere
<1>. QED  BY <1>8, <1>9, <1>10, <1>11, <1>12

\* A statement of the module, after the report of the one before it.
LEMMA StatementKeeps ==
  ASSUME EmitInv, EmitStatement
  PROVE  EmitInv'
<1>1. /\ phase = "emit" /\ stack # <<>> /\ Is(Top.node, "module") /\ Top.step \in 0 .. Operands(Top.node) - 1
      /\ pending = {} /\ CallKeeping(Top.step + 1, Top.kept) /\ SameBlock /\ Stay /\ Emits(Report)
  BY DEF EmitStatement, Call
<1>2. program \in Programs /\ Top \in Frame
  BY <1>1, Emitting
<1>3. Sequence(Report) /\ Ends(Report) = {}
  <2>1. \A n, v : Plain(Do("result", n, v))
    BY Terminators
  <2>2. \A n, v : Sequence(<<Do("result", n, v)>>) /\ Ends(<<Do("result", n, v)>>) = {}
    BY <2>1, ShortSequences DEF Plain
  <2>. QED  BY <2>2, ShortSequences, Zenon DEF Report
<1>4. Top.kept \in Seq(Block) /\ NextOperand = Top.step + 1
  <2>1. ~Is(Top.node, "equal")
    BY <1>1, OneKind
  <2>. QED  BY <1>2, <2>1, NextOperands
<1>5. CallKeeping(NextOperand, Top.kept)
  BY <1>1, <1>4
<1>6. \E t : Sequence(t) /\ Ends(t) = {} /\ Emits(t)
  BY <1>1, <1>3
<1>. QED  BY <1>1, <1>4, <1>5, <1>6, CallHere

\* The end of the module: nothing is emitted any more.
LEMMA EndModuleKeeps ==
  ASSUME EmitInv, EndModule
  PROVE  EmitInv'
<1>1. /\ phase = "emit" /\ stack # <<>> /\ pending = {} /\ stack' = <<>>
      /\ Emits(Append(Report, Ret(NoValue))) /\ SameBlock /\ Stay
  BY DEF EndModule, At
<1>2. /\ program \in Programs /\ insert \in Block /\ DOMAIN code = Block /\ \A b \in Block : Sequence(code[b])
      /\ Ends(code[insert]) = {} /\ attached \in [Node -> SUBSET Block]
  BY <1>1, Emitting
<1>3. Sequence(Append(Report, Ret(NoValue)))
  <2>1. Sequence(Report) /\ Ends(Report) = {}
    <3>1. \A n, v : Plain(Do("result", n, v))
      BY Terminators
    <3>2. \A n, v : Sequence(<<Do("result", n, v)>>) /\ Ends(<<Do("result", n, v)>>) = {}
      BY <3>1, ShortSequences DEF Plain
    <3>. QED  BY <3>2, ShortSequences, Zenon DEF Report
  <2>2. Sound(Ret(NoValue))
    BY Terminators DEF Ending
  <2>. QED  BY <2>1, <2>2, ExtendedByOne
<1>4. code' = [code EXCEPT ![insert] = code[insert] \o Append(Report, Ret(NoValue))]
  BY <1>1 DEF Emits
<1>5. Sequence(code[insert] \o Append(Report, Ret(NoValue)))
  BY <1>2, <1>3, Extended
<1>6. DOMAIN code' = Block /\ \A b \in Block : Sequence(code'[b])
  BY <1>2, <1>4, <1>5
<1>7. /\ program' = program /\ phase' = phase /\ pending' = pending /\ insert' = insert /\ attached' = attached
      /\ pc' = pc /\ came' = came
  BY <1>1 DEF Stay, SameBlock, sourceVars, machine
<1>8. /\ pending \subseteq program.functions /\ pc[1] \in Block /\ came \in Block
      /\ \A f \in (program.functions \ pending) \union {program.main} : <<f, "begin">> \in attached[f]
  BY <1>1 DEF EmitInv, Typed
<1>9. Typed'
  BY <1>1, <1>2, <1>6, <1>7, <1>8 DEF Typed
<1>10. program' \in Programs /\ pending' \subseteq program'.functions
  BY <1>2, <1>7, <1>8
<1>11. \A f \in (program'.functions \ pending') \union {program'.main} : <<f, "begin">> \in attached'[f]
  BY <1>7, <1>8
<1>12. pending' = {} /\ phase' # "run" /\ \A f \in pending' : attached'[f] = {}
  BY <1>1, <1>7
<1>. QED  BY <1>1, <1>6, <1>9, <1>10, <1>11, <1>12, Zenon DEF EmitInv

\* The module is the first activation; while it is the last one nothing else is on the
\* stack.
LEMMA ModuleAlone ==
  ASSUME EmitInv, phase = "emit", stack # <<>>, Is(Top.node, "module"), Top.step = 0
  PROVE  /\ Len(stack) = 1 /\ stack[1] \in Frame /\ stack[1].node = program.main /\ stack[1].step = 0
         /\ insert = MainBegin /\ Root(stack) = program.main /\ Suspended(stack) = {}
<1>1. /\ program \in Programs /\ Shape(stack, pending) /\ Len(stack) \in Nat \ {0} /\ Top \in Frame
      /\ stack \in Seq(Frame)
  BY Emitting
<1>2. Top.node = program.main
  BY <1>1, FrameType, KidsType
<1>3. /\ stack[1].node = program.main /\ stack[1].step # -1
      /\ \A i, j \in 1 .. Len(stack) : i < j /\ stack[i].node = stack[j].node => stack[i].step = -1
      /\ \A i \in 1 .. Len(stack) : stack[i] \in Frame
  BY <1>1, StackType DEF Shape
<1>4. Len(stack) = 1
  <2>1. SUFFICES ASSUME Len(stack) # 1
                 PROVE  FALSE
    OBVIOUS
  <2>2. \A n \in Nat \ {0} : n # 1 => 1 \in 1 .. n /\ n \in 1 .. n /\ 1 < n
    OBVIOUS
  <2>3. 1 \in 1 .. Len(stack) /\ Len(stack) \in 1 .. Len(stack) /\ 1 < Len(stack)
    BY <1>1, <2>1, <2>2
  <2>. QED  BY <1>2, <1>3, <2>3 DEF Top
<1>5. stack[1] \in Frame /\ stack[1].step = 0
  BY <1>3, <1>4 DEF Top
<1>6. ~Wrapped(stack)
  BY <1>4 DEF Wrapped
<1>7. insert = MainBegin
  BY <1>5, <1>6 DEF EmitInv
<1>. QED  BY <1>3, <1>4, <1>5, <1>6, <1>7 DEF Root, Suspended

\* The stack when the body of function f is started.
Entered(a, f, kept) ==
  <<a>> \o <<[Activation(f) EXCEPT !.step = -1, !.kept = kept], Activation(f)>>

\* Three activations: the module's, the function's, and that of its body.
LEMMA EnteredStack ==
  ASSUME NEW a \in Frame, NEW f \in Node, NEW b \in Block
  PROVE  LET st == Entered(a, f, <<b>>)
         IN  /\ st \in Seq(Frame) /\ Len(st) = 3 /\ DOMAIN st = {1, 2, 3}
             /\ st[1] = a
             /\ st[2].node = f /\ st[2].step = -1 /\ st[2].kept = <<b>>
             /\ st[3].node = f /\ st[3].step = 0
<1>. DEFINE g == [node |-> f, step |-> -1, vals |-> <<>>, kept |-> <<b>>]
            h == Activation(f)
<1>1. <<>> \in Seq(Operand) /\ <<>> \in Seq(Block) /\ <<b>> \in Seq(Block) /\ -1 \in -1 .. 3 /\ 0 \in -1 .. 3
  BY EmptySeq
<1>2. g \in Frame /\ h \in Frame
  BY <1>1 DEF Frame, Activation
<1>3. [h EXCEPT !.step = -1, !.kept = <<b>>] = g
  <2>1. h = [node |-> f, step |-> 0, vals |-> <<>>, kept |-> <<>>]
    BY DEF Activation
  <2>. DEFINE k == [node |-> f, step |-> -1, vals |-> <<>>, kept |-> <<>>]
  <2>2. [h EXCEPT !.step = -1] = k
    BY <2>1
  <2>3. [k EXCEPT !.kept = <<b>>] = g
    OBVIOUS
  <2>. HIDE DEF g, h, k
  <2>4. [[h EXCEPT !.step = -1] EXCEPT !.kept = <<b>>] = g
    BY <2>2, <2>3
  <2>. QED  BY <2>4
<1>4. g.node = f /\ g.step = -1 /\ g.kept = <<b>> /\ h.node = f /\ h.step = 0
  BY DEF Activation
<1>. HIDE DEF g, h
<1>. DEFINE r == <<a>> \o <<g, h>>
<1>5. Entered(a, f, <<b>>) = r
  BY <1>3 DEF Entered, h
<1>6. /\ <<a>> \in Seq(Frame) /\ <<g, h>> \in Seq(Frame) /\ Len(<<a>>) = 1 /\ Len(<<g, h>>) = 2
      /\ <<a>>[1] = a /\ <<g, h>>[1] = g /\ <<g, h>>[2] = h
  BY <1>2
<1>7. r \in Seq(Frame) /\ Len(r) = 3 /\ \A i \in 1 .. 3 : r[i] = IF i <= 1 THEN <<a>>[i] ELSE <<g, h>>[i - 1]
  BY <1>6, ConcatProperties
<1>. HIDE DEF r
<1>8. DOMAIN r = 1 .. 3
  BY <1>7, LenProperties
<1>9. DOMAIN r = {1, 2, 3} /\ r[1] = a /\ r[2] = g /\ r[3] = h
  BY <1>6, <1>7, <1>8
<1>. QED  BY <1>4, <1>5, <1>7, <1>9

\* No function is below another expression.
LEMMA FunctionsAreRoots ==
  ASSUME program \in Programs, NEW f \in program.functions, NEW y \in Node, f \in Below(y)
  PROVE  f = y
<1>1. SUFFICES ASSUME f # y
               PROVE  FALSE
  OBVIOUS
<1>2. PICK p \in Below(y) : \E i \in DOMAIN Kids(p) : f = Kids(p)[i]
  BY <1>1, BelowFacts
<1>3. p \in Node
  BY BelowFacts
<1>. QED  BY <1>2, <1>3, KidsAreApart

\* Code of a function begins in a block of its own.
LEMMA StartFunctionKeeps ==
  ASSUME EmitInv, StartFunction
  PROVE  EmitInv'
<1>1. /\ phase = "emit" /\ stack # <<>> /\ Is(Top.node, "module") /\ Top.step = 0
      /\ UNCHANGED <<sourceVars, phase, code, machine>>
  BY DEF StartFunction, At
<1>2. PICK f \in pending :
        /\ pending' = pending \ {f} /\ insert' = <<f, "begin">>
        /\ attached' = [attached EXCEPT ![f] = {<<f, "begin">>}]
        /\ stack' = stack \o <<[Activation(f) EXCEPT !.step = -1, !.kept = <<insert>>], Activation(f)>>
  BY DEF StartFunction
<1>3. /\ Len(stack) = 1 /\ stack[1] \in Frame /\ stack[1].node = program.main /\ stack[1].step = 0
      /\ insert = MainBegin /\ Root(stack) = program.main /\ Suspended(stack) = {}
  BY <1>1, ModuleAlone
<1>4. /\ program \in Programs /\ Shape(stack, pending) /\ Apart(stack, pending, attached)
      /\ Blocks(program.main, {}, MainBegin, attached, code)
      /\ pending \subseteq program.functions
      /\ insert \in Block /\ attached \in [Node -> SUBSET Block] /\ DOMAIN code = Block
      /\ \A b \in Block : Sequence(code[b])
      /\ stack \in Seq(Frame)
  BY <1>1, <1>3, Emitting
<1>5. /\ f \in program.functions /\ f \in Node /\ program.main \in Node /\ f # program.main
  BY <1>4, KidsType
<1>6. /\ attached[f] = {} /\ Unvisited(stack, attached, f)
      /\ \A g \in (program.functions \ pending) \union {program.main} : <<g, "begin">> \in attached[g]
      /\ \A g \in pending : attached[g] = {}
  BY <1>1, <1>4 DEF EmitInv, Apart
<1>7. stack = <<stack[1]>>
  BY <1>3, <1>4
<1>8. /\ stack' \in Seq(Frame) /\ Len(stack') = 3 /\ DOMAIN stack' = {1, 2, 3}
      /\ stack'[1] = stack[1]
      /\ stack'[2].node = f /\ stack'[2].step = -1 /\ stack'[2].kept = <<MainBegin>>
      /\ stack'[3].node = f /\ stack'[3].step = 0
  <2>1. stack' = Entered(stack[1], f, <<MainBegin>>)
    BY <1>2, <1>3, <1>7, Zenon DEF Entered
  <2>. QED  BY <1>3, <1>4, <1>5, <2>1, EnteredStack
<1>9. Shape(stack', pending')
  <2>1. stack' # <<>>
    <3>1. stack' \in Seq(Frame) /\ Len(stack') # 0
      BY <1>8
    <3>. QED  BY <3>1, EmptySeq
  <2>2. FrameFits(stack', pending', 1)
    <3>1. Operands(program.main) \in 0 .. 3
      BY <1>4, <1>5, KidsType
    <3>. QED  BY <1>3, <1>8, <3>1 DEF FrameFits
  <2>3. FrameFits(stack', pending', 2)
    <3>1. Operands(f) \in 0 .. 3
      BY <1>4, <1>5, KidsType
    <3>. QED  BY <1>2, <1>3, <1>5, <1>8, <3>1 DEF FrameFits
  <2>4. FrameFits(stack', pending', 3)
    <3>1. Operands(f) \in 0 .. 3
      BY <1>4, <1>5, KidsType
    <3>. QED  BY <1>8, <3>1 DEF FrameFits
  <2>5. \A i, j \in {1, 2, 3} : i < j /\ stack'[i].node = stack'[j].node => stack'[i].step = -1
    BY <1>3, <1>5, <1>8
  <2>. QED  BY <1>3, <1>8, <2>1, <2>2, <2>3, <2>4, <2>5 DEF Shape
<1>10. /\ \A b : Attached(attached', b) => Attached(attached, b) \/ b = <<f, "begin">>
       /\ attached' \in [Node -> SUBSET Block] /\ attached'[f] = {<<f, "begin">>}
       /\ \A g \in Node : g # f => attached'[g] = attached[g]
       /\ insert' \in Block
  <2>1. <<f, "begin">> \in Block
    BY <1>5 DEF Block, Role
  <2>2. /\ attached' \in [Node -> SUBSET Block] /\ attached'[f] = {<<f, "begin">>}
        /\ \A g \in Node : g # f => attached'[g] = attached[g]
    BY <1>2, <1>4, <1>5, <2>1
  <2>. QED  BY <1>2, <2>1, <2>2 DEF Attached
<1>11. Apart(stack', pending', attached')
  <2>1. Grown(attached, attached', f)
    BY <1>10 DEF Grown
  <2>2. 1 \in DOMAIN stack
    BY <1>3, <1>4, StackType
  <2>3. ASSUME NEW y \in Node, Untouched(attached, y), program.main \notin Below(y), f \notin Below(y)
        PROVE  Unvisited(stack', attached', y)
    <3>1. \A j \in DOMAIN stack : stack[j].node \notin Below(y)
      <4>1. DOMAIN stack = {1}
        BY <1>3, <1>4, StackType
      <4>. QED  BY <1>3, <2>3, <4>1
    <3>2. \A j \in DOMAIN stack' : stack'[j].node \notin Below(y)
      BY <1>3, <1>8, <2>3
    <3>3. Unvisited(stack, attached, y)
      BY <2>3, <3>1 DEF Unvisited
    <3>. QED  BY <1>5, <2>1, <2>3, <3>2, <3>3, StaysUnvisited
  <2>4. ASSUME NEW y \in Node, Unvisited(stack, attached, y), y # f
        PROVE  Unvisited(stack', attached', y)
    <3>1. Untouched(attached, y) /\ program.main \notin Below(y)
      BY <1>3, <2>2, <2>4 DEF Unvisited
    <3>2. f \notin Below(y)
      BY <1>4, <1>5, <2>4, FunctionsAreRoots
    <3>. QED  BY <2>3, <3>1, <3>2
  <2>5. ASSUME NEW k \in Waiting(stack[1])
        PROVE  Unvisited(stack', attached', Kids(stack[1].node)[k])
    <3>1. k \in DOMAIN Kids(program.main)
      BY <1>3 DEF Waiting
    <3>2. Kids(program.main)[k] \in Node /\ Kids(program.main)[k] # f
      BY <1>4, <1>5, <3>1, KidsAreApart
    <3>3. Unvisited(stack, attached, Kids(stack[1].node)[k])
      BY <1>4, <2>2 DEF Apart
    <3>. QED  BY <1>3, <2>4, <3>2, <3>3
  <2>6. Waiting(stack'[2]) = {}
    BY <1>8 DEF Waiting
  <2>7. ASSUME NEW k \in Waiting(stack'[3])
        PROVE  Unvisited(stack', attached', Kids(f)[k])
    <3>1. k \in DOMAIN Kids(f)
      BY <1>8 DEF Waiting
    <3>2. Kids(f)[k] \in Node /\ Kids(f)[k] > f /\ f \in Nat /\ Kids(f)[k] \in Nat
      BY <1>4, <1>5, <3>1, KidsAreApart
    <3>3. Below(Kids(f)[k]) \subseteq Below(f)
      BY <1>4, <1>5, <3>1, BelowFacts
    <3>4. f \notin Below(Kids(f)[k])
      <4>1. \A m \in Below(Kids(f)[k]) : m >= Kids(f)[k]
        BY <1>4, <3>2, BelowFacts
      <4>. QED  BY <3>2, <4>1
    <3>5. program.main \notin Below(f)
      BY <1>3, <1>6, <2>2 DEF Unvisited
    <3>6. Untouched(attached, Kids(f)[k]) /\ program.main \notin Below(Kids(f)[k])
      BY <1>6, <3>3, <3>5 DEF Unvisited, Untouched
    <3>. QED  BY <2>3, <3>2, <3>4, <3>6
  <2>8. ASSUME NEW g \in pending'
        PROVE  Unvisited(stack', attached', g)
    <3>1. g \in pending /\ g # f /\ g \in Node
      BY <1>2, <1>4, KidsType
    <3>2. Unvisited(stack, attached, g)
      BY <1>4, <3>1 DEF Apart
    <3>. QED  BY <2>4, <3>1, <3>2
  <2>9. ASSUME NEW i \in {1, 3}, NEW r \in Role \ {"begin"}, Attached(attached', <<stack'[i].node, r>>)
        PROVE  r \in DOMAIN Opens /\ stack'[i].step >= Opens[r]
    <3>1. Attached(attached, <<stack'[i].node, r>>)
      <4>1. <<stack'[i].node, r>> # <<f, "begin">>
        OBVIOUS
      <4>. QED  BY <1>10, <2>9, <4>1
    <3>2. CASE i = 1
      BY <1>3, <1>4, <1>8, <2>2, <3>1, <3>2 DEF Apart
    <3>3. CASE i = 3
      <4>1. f \in Below(f)
        BY <1>4, <1>5, BelowFacts
      <4>2. ~Attached(attached, <<f, r>>)
        BY <1>6, <4>1 DEF Unvisited, Untouched
      <4>. QED  BY <1>8, <3>1, <3>3, <4>2
    <3>. QED  BY <3>2, <3>3
  <2>10. \A i \in {1, 2, 3} : \A k \in Waiting(stack'[i]) : Unvisited(stack', attached', Kids(stack'[i].node)[k])
    BY <1>8, <2>5, <2>6, <2>7
  <2>11. \A i \in {1, 2, 3} : stack'[i].step # -1 =>
           \A r \in Role \ {"begin"} : Attached(attached', <<stack'[i].node, r>>) => r \in DOMAIN Opens /\ stack'[i].step >= Opens[r]
    BY <1>8, <2>9
  <2>. QED  BY <1>8, <2>8, <2>10, <2>11 DEF Apart
<1>12. Root(stack') = f /\ Suspended(stack') = {MainBegin} /\ Wrapped(stack')
  <2>1. Wrapped(stack')
    BY <1>8 DEF Wrapped
  <2>. QED  BY <1>8, <2>1 DEF Root, Suspended
<1>13. Blocks(f, {MainBegin}, insert', attached', code')
  <2>1. /\ MainBegin \in attached[program.main]
        /\ \A g, h \in Node : \A b \in attached[g] : b \in attached[h] => g = h
        /\ \A b \in Block : IF Attached(attached, b) THEN Finished(code, b, {MainBegin}) ELSE code[b] = <<>>
    BY <1>4 DEF Blocks
  <2>2. ~Attached(attached, <<f, "begin">>)
    <3>1. f \in Below(f)
      BY <1>4, <1>5, BelowFacts
    <3>. QED  BY <1>6, <3>1 DEF Unvisited, Untouched, Role
  <2>3. insert' = <<f, "begin">> /\ insert' \in attached'[f] /\ insert' # MainBegin
    BY <1>2, <1>5, <1>10 DEF MainBegin
  <2>4. code' = code
    BY <1>1
  <2>5. ASSUME NEW g \in Node, NEW h \in Node, NEW b \in attached'[g], b \in attached'[h]
        PROVE  g = h
    <3>1. CASE b = <<f, "begin">>
      BY <1>10, <2>2, <2>5, <3>1 DEF Attached
    <3>2. CASE b # <<f, "begin">>
      BY <1>10, <2>1, <2>5, <3>2
    <3>. QED  BY <3>1, <3>2
  <2>6. ASSUME NEW b \in Block
        PROVE  IF Attached(attached', b) THEN Finished(code', b, {MainBegin} \union {insert'}) ELSE code'[b] = <<>>
    <3>1. CASE b = <<f, "begin">>
      <4>1. code[b] = <<>> /\ Attached(attached', b)
        BY <1>5, <1>10, <2>1, <2>2, <3>1 DEF Attached
      <4>2. Ends(code'[b]) = {}
        BY <2>4, <4>1, ShortSequences
      <4>. QED  BY <2>3, <3>1, <4>1, <4>2 DEF Finished
    <3>2. CASE b # <<f, "begin">>
      <4>1. Attached(attached', b) <=> Attached(attached, b)
        <5>1. Attached(attached, b) => Attached(attached', b)
          BY <1>6, <1>10 DEF Attached
        <5>. QED  BY <1>10, <3>2, <5>1
      <4>. QED  BY <2>1, <2>3, <2>4, <3>2, <4>1 DEF Finished
    <3>. QED  BY <3>1, <3>2
  <2>. QED  BY <2>3, <2>5, <2>6 DEF Blocks
<1>14. /\ \A g \in (program.functions \ pending') \union {program.main} : <<g, "begin">> \in attached'[g]
       /\ \A g \in pending' : attached'[g] = {}
  <2>1. ASSUME NEW g \in (program.functions \ pending') \union {program.main}
        PROVE  <<g, "begin">> \in attached'[g]
    <3>1. g \in Node
      BY <1>4, KidsType
    <3>2. g = f \/ g \in (program.functions \ pending) \union {program.main}
      BY <1>2
    <3>. QED  BY <1>6, <1>10, <3>1, <3>2
  <2>2. ASSUME NEW g \in pending'
        PROVE  attached'[g] = {}
    <3>1. g \in pending /\ g # f /\ g \in Node
      BY <1>2, <1>4, KidsType
    <3>. QED  BY <1>6, <1>10, <3>1
  <2>. QED  BY <2>1, <2>2
<1>15. /\ UNCHANGED <<sourceVars, phase, machine>> /\ DOMAIN code' = Block /\ \A b \in Block : Sequence(code'[b])
       /\ pending' \subseteq pending /\ stack' # <<>>
  BY <1>1, <1>2, <1>4, <1>9 DEF Shape
<1>16. Blocks(Root(stack'), Suspended(stack'), insert', attached', code')
  BY <1>12, <1>13
<1>. QED  BY <1>1, <1>9, <1>10, <1>11, <1>12, <1>14, <1>15, <1>16, NextInv

\* Code of a function ends, and that of the module goes on where it was.
LEMMA EndFunctionKeeps ==
  ASSUME EmitInv, EndFunction
  PROVE  EmitInv'
<1>1. /\ phase = "emit" /\ stack # <<>> /\ Top.step = -1
      /\ \E v : Emits(<<Ret(v)>>)
      /\ insert' = Top.kept[1] /\ stack' = Front(stack)
      /\ Stay /\ attached' = attached
  BY DEF EndFunction
<1>2. /\ program \in Programs /\ Shape(stack, pending) /\ Apart(stack, pending, attached)
      /\ Blocks(Root(stack), Suspended(stack), insert, attached, code)
      /\ Root(stack) \in Node
      /\ insert \in Block /\ attached \in [Node -> SUBSET Block] /\ DOMAIN code = Block
      /\ \A b \in Block : Sequence(code[b])
      /\ Ends(code[insert]) = {}
      /\ stack \in Seq(Frame) /\ Len(stack) \in Nat \ {0}
  BY <1>1, Emitting
<1>3. /\ DOMAIN stack = 1 .. Len(stack) /\ Len(stack) \in 1 .. Len(stack)
      /\ \A i \in 1 .. Len(stack) : stack[i] \in Frame
  BY <1>1, <1>2, StackType
<1>4. /\ Len(stack) = 2 /\ stack[1].step = 0 /\ stack[2].kept = <<MainBegin>>
      /\ stack[1].node = program.main
  BY <1>1, <1>2, <1>3 DEF Shape, FrameFits, Top
<1>5. Wrapped(stack) /\ Suspended(stack) = {MainBegin} /\ Root(stack) = stack[2].node
  BY <1>1, <1>4 DEF Wrapped, Suspended, Root, Top
<1>6. insert' = MainBegin
  BY <1>1, <1>4 DEF Top
<1>7. /\ stack' \in Seq(Frame) /\ Len(stack') = 1 /\ DOMAIN stack' = {1} /\ stack'[1] = stack[1]
  <2>1. \A r : r = SubSeq(stack, 1, Len(stack) - 1) =>
          /\ r \in Seq(Frame) /\ Len(r) = Len(stack) - 1 /\ DOMAIN r = 1 .. Len(stack) - 1
          /\ \A i \in 1 .. Len(stack) - 1 : r[i] = stack[i]
    BY <1>1, <1>2, SeqPop, Zenon
  <2>2. stack' = SubSeq(stack, 1, Len(stack) - 1)
    BY <1>1 DEF Front
  <2>3. Len(stack) - 1 = 1 /\ 1 .. 1 = {1}
    BY <1>4
  <2>. QED  BY <2>1, <2>2, <2>3
<1>8. /\ program' = program /\ phase' = phase /\ pending' = pending /\ machine' = machine
      /\ UNCHANGED sourceVars
  BY <1>1 DEF Stay, sourceVars
<1>9. stack' # <<>>
  <2>1. stack' \in Seq(Frame) /\ Len(stack') # 0
    BY <1>7
  <2>. QED  BY <2>1, EmptySeq
<1>10. ~Wrapped(stack') /\ Root(stack') = program.main /\ Suspended(stack') = {}
  <2>1. ~Wrapped(stack')
    BY <1>7 DEF Wrapped
  <2>. QED  BY <2>1 DEF Root, Suspended
<1>11. Shape(stack', pending')
  <2>1. /\ stack[1].step <= Operands(stack[1].node) /\ stack[1].step # -1
        /\ 1 \in DOMAIN stack
    BY <1>2, <1>3, <1>4 DEF Shape, FrameFits
  <2>2. FrameFits(stack', pending', 1)
    BY <1>7, <2>1 DEF FrameFits
  <2>3. \A i, j \in {1} : ~(i < j)
    OBVIOUS
  <2>. QED  BY <1>4, <1>7, <1>9, <2>1, <2>2, <2>3 DEF Shape
<1>12. Apart(stack', pending', attached')
  <2>1. 1 \in DOMAIN stack
    BY <1>3, <1>4
  <2>2. \A y : Unvisited(stack, attached, y) => Unvisited(stack', attached', y)
    BY <1>1, <1>7, <2>1 DEF Unvisited, Untouched
  <2>. QED  BY <1>1, <1>2, <1>7, <1>8, <2>1, <2>2 DEF Apart
<1>13. /\ DOMAIN code' = Block /\ \A b \in Block : Sequence(code'[b])
       /\ Ends(code'[insert]) = {Len(code'[insert])}
       /\ \A b \in Block \ {insert} : code'[b] = code[b]
  <2>1. PICK v : Emits(<<Ret(v)>>)
    BY <1>1
  <2>2. code' = [code EXCEPT ![insert] = code[insert] \o <<Ret(v)>>]
    BY <2>1 DEF Emits
  <2>3. Terminates(Ret(v)) /\ Sound(Ret(v))
    BY Terminators DEF Ending
  <2>4. /\ Sequence(code[insert] \o <<Ret(v)>>)
        /\ Ends(code[insert] \o <<Ret(v)>>) = {Len(code[insert] \o <<Ret(v)>>)}
    BY <1>2, <2>3, ExtendedByOne
  <2>5. /\ DOMAIN code' = Block /\ code'[insert] = code[insert] \o <<Ret(v)>>
        /\ \A b \in Block \ {insert} : code'[b] = code[b]
    BY <1>2, <2>2
  <2>. QED  BY <1>2, <2>4, <2>5
<1>14. <<program.main, "begin">> \in attached[program.main]
  BY <1>1 DEF EmitInv
<1>15. Blocks(program.main, {}, MainBegin, attached', code')
  <2>1. /\ insert \in attached[Root(stack)] /\ insert \notin {MainBegin}
        /\ \A g, h \in Node : \A b \in attached[g] : b \in attached[h] => g = h
        /\ \A b \in Block : IF Attached(attached, b) THEN Finished(code, b, {MainBegin, insert}) ELSE code[b] = <<>>
    BY <1>2, <1>5 DEF Blocks
  <2>2. ASSUME NEW b \in Block
        PROVE  IF Attached(attached, b) THEN Finished(code', b, {MainBegin}) ELSE code'[b] = <<>>
    <3>1. CASE b = insert
      <4>1. Attached(attached, b)
        BY <1>2, <2>1, <3>1 DEF Attached
      <4>. QED  BY <1>13, <2>1, <3>1, <4>1 DEF Finished
    <3>2. CASE b # insert
      BY <1>13, <2>1, <3>2 DEF Finished
    <3>. QED  BY <3>1, <3>2
  <2>3. attached' = attached
    BY <1>1
  <2>4. MainBegin \in attached[program.main] /\ MainBegin \notin {} /\ {} \union {MainBegin} = {MainBegin}
    BY <1>14 DEF MainBegin
  <2>5. \A g, h \in Node : \A b \in attached[g] : b \in attached[h] => g = h
    BY <2>1
  <2>. HIDE DEF MainBegin
  <2>. QED  BY <2>2, <2>3, <2>4, <2>5 DEF Blocks
<1>16. /\ \A g \in (program.functions \ pending') \union {program.main} : <<g, "begin">> \in attached'[g]
       /\ \A g \in pending' : attached'[g] = {}
  BY <1>1, <1>8 DEF EmitInv
<1>17. MainBegin \in Block
  BY <1>2, KidsType DEF MainBegin, Block, Role
<1>18. Blocks(Root(stack'), Suspended(stack'), insert', attached', code')
  BY <1>6, <1>10, <1>15
<1>. QED  BY <1>1, <1>2, <1>6, <1>8, <1>9, <1>11, <1>12, <1>13, <1>16, <1>17, <1>18, NextInv

-----------------------------------------------------------------------------
(***************************************************************************)
(* The steps after emission: verification and the run.                     *)
(***************************************************************************)

\* The same module verifies in the next state.
LEMMA SameModuleVerifies ==
  ASSUME UNCHANGED <<attached, code>>
  PROVE  Verifies <=> Verifies'
<1>1. attached' = attached /\ code' = code
  OBVIOUS
<1>2. \A f, b : Predecessors(f, b)' = Predecessors(f, b)
  BY <1>1, Zenon DEF Predecessors
<1>3. \A f, b : BlockVerifies(f, b)' <=> BlockVerifies(f, b)
  BY <1>1, <1>2 DEF BlockVerifies
<1>. QED  BY <1>1, <1>3, Zenon DEF Verifies

\* Steps that emit no code keep the types.
LEMMA StillTyped ==
  ASSUME EmitInv, UNCHANGED <<program, emission>>, phase' \in {"asserted", "run", "over"},
         pc'[1] \in Block, came' \in Block
  PROVE  Typed' /\ program' \in Programs /\ \A b \in Block : Sequence(code'[b])
BY DEF EmitInv, Typed, emission

\* The code that runs is that of a module which verifies, and the instruction that is
\* reached is one of a block of a function.
Reaches(f, at) == at[1] \in attached[f] /\ at[2] \in DOMAIN code[at[1]]

\* A step of the run that reaches an instruction of the function it runs in
\* keeps the invariant.
LEMMA RunsOn ==
  ASSUME EmitInv, phase = "run", UNCHANGED <<program, phase, emission>>, came' \in Block,
         NEW f \in Node, Reaches(f, pc')
  PROVE  EmitInv'
<1>1. /\ attached' = attached /\ code' = code /\ phase' = "run"
      /\ pc'[1] \in attached[f] /\ pc'[2] \in DOMAIN code[pc'[1]]
  BY DEF emission, Reaches
<1>2. Verifies /\ attached \in [Node -> SUBSET Block]
  BY DEF EmitInv, Typed
<1>3. pc'[1] \in Block
  BY <1>1, <1>2
<1>4. Typed' /\ program' \in Programs /\ \A b \in Block : Sequence(code'[b])
  BY <1>1, <1>3, StillTyped
<1>5. Verifies'
  BY <1>1, <1>2, SameModuleVerifies
<1>6. \E g \in Node : pc'[1] \in attached'[g] /\ pc'[2] \in DOMAIN code'[pc'[1]]
  BY <1>1
<1>7. phase' # "emit"
  BY <1>1
<1>. QED  BY <1>4, <1>5, <1>6, <1>7, Zenon DEF EmitInv

\* What verification says of a block, and of the instruction that runs: a terminator is
\* the last of its block and branches to blocks of the same function; after any other
\* instruction there is one more.
LEMMA Reached1 ==
  ASSUME EmitInv, phase = "run"
  PROVE  \E f \in Node :
           /\ pc[1] \in attached[f] /\ attached[f] \subseteq Block
           /\ ~Terminates(Instruction) => Reaches(f, <<pc[1], pc[2] + 1>>)
           /\ Terminates(Instruction) /\ Instruction.op # "ret" =>
                \A b \in Instruction.to : b \in attached[f] /\ Reaches(f, <<b, 1>>)
           /\ Sound(Instruction)
<1>1. /\ Verifies /\ attached \in [Node -> SUBSET Block] /\ \A b \in Block : Sequence(code[b])
      /\ \E f \in Node : pc[1] \in attached[f] /\ pc[2] \in DOMAIN code[pc[1]]
  BY DEF EmitInv, Typed
<1>2. PICK f \in Node : pc[1] \in attached[f] /\ pc[2] \in DOMAIN code[pc[1]]
  BY <1>1
<1>3. attached[f] \subseteq Block
  BY <1>1
<1>4. ASSUME NEW b \in attached[f]
      PROVE  /\ Sequence(code[b]) /\ 1 \in DOMAIN code[b] /\ Len(code[b]) \in Nat /\ DOMAIN code[b] = 1 .. Len(code[b])
             /\ \A i \in 1 .. Len(code[b]) - 1 : ~Terminates(code[b][i])
             /\ Terminates(code[b][Len(code[b])])
             /\ code[b][Len(code[b])].op # "ret" => code[b][Len(code[b])].to \subseteq attached[f]
  <2>1. BlockVerifies(f, b) /\ Sequence(code[b])
    BY <1>1, <1>3 DEF Verifies
  <2>2. /\ code[b] # <<>>
        /\ \A i \in 1 .. Len(code[b]) - 1 : ~Terminates(code[b][i])
        /\ Terminates(code[b][Len(code[b])])
        /\ code[b][Len(code[b])].op # "ret" => code[b][Len(code[b])].to \subseteq attached[f]
    BY <2>1, Zenon DEF BlockVerifies, Last
  <2>3. code[b] \in Seq(Range(code[b])) /\ Len(code[b]) \in Nat /\ DOMAIN code[b] = 1 .. Len(code[b])
    BY <2>1, SequenceDomain DEF Sequence
  <2>4. Len(code[b]) # 0
    BY <2>2, <2>3, EmptySeq
  <2>5. 1 \in 1 .. Len(code[b])
    BY <2>3, <2>4
  <2>. QED  BY <2>1, <2>2, <2>3, <2>5
<1>. DEFINE c == code[pc[1]]
            i == pc[2]
            n == Len(c)
<1>5. /\ Sequence(c) /\ n \in Nat /\ i \in 1 .. n /\ DOMAIN c = 1 .. n
      /\ \A j \in 1 .. n - 1 : ~Terminates(c[j])
      /\ Terminates(c[n])
      /\ c[n].op # "ret" => c[n].to \subseteq attached[f]
  BY <1>2, <1>4
<1>6. Instruction = c[i]
  BY DEF Instruction
<1>7. Sound(c[i])
  BY <1>5 DEF Sequence
<1>8. \A b \in attached[f] : Reaches(f, <<b, 1>>)
  BY <1>4 DEF Reaches
<1>. HIDE DEF c, i, n
<1>9. ASSUME ~Terminates(c[i])
      PROVE  i + 1 \in 1 .. n
  BY <1>5, <1>9
<1>10. ASSUME Terminates(c[i])
       PROVE  i = n
  <2>1. \A m \in Nat : \A j \in 1 .. m : j = m \/ j \in 1 .. m - 1
    OBVIOUS
  <2>. QED  BY <1>5, <1>10, <2>1
<1>11. ~Terminates(Instruction) => Reaches(f, <<pc[1], pc[2] + 1>>)
  <2>1. ~Terminates(Instruction) => pc[2] + 1 \in DOMAIN code[pc[1]]
    BY <1>5, <1>6, <1>9 DEF i, c
  <2>. QED  BY <1>2, <2>1 DEF Reaches
<1>12. Terminates(Instruction) /\ Instruction.op # "ret" =>
         \A b \in Instruction.to : b \in attached[f] /\ Reaches(f, <<b, 1>>)
  BY <1>5, <1>6, <1>8, <1>10
<1>. QED  BY <1>2, <1>3, <1>6, <1>7, <1>11, <1>12, Zenon

\* One instruction runs, or the code returns.
LEMMA RunKeeps ==
  ASSUME EmitInv, Run
  PROVE  EmitInv'
<1>1. phase = "run"
  BY DEF Run, Executing, RunEval, RunEqual, RunPhi, RunVoidResult, RunCall, RunBr, RunCondBr, RunRet
<1>2. PICK f \in Node :
        /\ pc[1] \in attached[f] /\ attached[f] \subseteq Block
        /\ ~Terminates(Instruction) => Reaches(f, <<pc[1], pc[2] + 1>>)
        /\ Terminates(Instruction) /\ Instruction.op # "ret" =>
             \A b \in Instruction.to : b \in attached[f] /\ Reaches(f, <<b, 1>>)
        /\ Sound(Instruction)
  BY <1>1, Reached1
<1>3. pc[1] \in Block /\ came \in Block
  BY DEF EmitInv, Typed
<1>4. ASSUME GoOn, ~Terminates(Instruction)
      PROVE  EmitInv'
  <2>1. /\ pc' = <<pc[1], pc[2] + 1>> /\ came' = came /\ UNCHANGED <<program, phase, emission>>
    BY <1>4 DEF GoOn
  <2>2. Reaches(f, pc') /\ came' \in Block
    BY <1>2, <1>3, <1>4, <2>1
  <2>. QED  BY <1>1, <2>1, <2>2, RunsOn
<1>5. ASSUME NEW b \in Instruction.to, Jump(b), Terminates(Instruction), Instruction.op # "ret"
      PROVE  EmitInv'
  <2>1. /\ pc' = <<b, 1>> /\ came' = pc[1] /\ UNCHANGED <<program, phase, emission>>
    BY <1>5 DEF Jump, sourceVars
  <2>2. Reaches(f, pc') /\ came' \in Block
    BY <1>2, <1>3, <1>5, <2>1
  <2>. QED  BY <1>1, <2>1, <2>2, RunsOn
<1>6. CASE RunEval \/ RunEqual \/ RunPhi \/ RunVoidResult \/ RunCall
  <2>1. GoOn /\ Instruction.op \in {"eval", "equal", "phi", "result", "pass", "fail"}
    BY <1>6 DEF RunEval, RunEqual, RunPhi, RunVoidResult, RunCall, Executing
  <2>2. ~Terminates(Instruction)
    BY <2>1 DEF Terminates
  <2>. QED  BY <1>4, <2>1, <2>2
<1>7. CASE RunBr
  <2>1. Instruction.op = "br" /\ \E b \in Instruction.to : Jump(b)
    BY <1>7 DEF RunBr, Executing
  <2>. QED  BY <1>5, <2>1 DEF Terminates
<1>8. CASE RunCondBr
  <2>1. Instruction.op = "condbr" /\ Jump(IF env[Instruction.cond] THEN Instruction.yes ELSE Instruction.no)
    BY <1>8 DEF RunCondBr, Executing
  <2>2. Instruction.yes \in Instruction.to /\ Instruction.no \in Instruction.to
    BY <1>2, <2>1 DEF Sound
  <2>3. \E b \in Instruction.to : Jump(b)
    BY <2>1, <2>2
  <2>. QED  BY <1>5, <2>1, <2>3 DEF Terminates
<1>9. CASE RunRet
  <2>1. phase' = "over" /\ UNCHANGED <<program, emission, machine>>
    BY <1>9 DEF RunRet
  <2>2. pc'[1] \in Block /\ came' \in Block
    BY <1>3, <2>1 DEF machine
  <2>3. Typed' /\ program' \in Programs /\ \A b \in Block : Sequence(code'[b])
    BY <2>1, <2>2, StillTyped
  <2>. QED  BY <2>1, <2>3, Zenon DEF EmitInv
<1>. QED  BY <1>6, <1>7, <1>8, <1>9 DEF Run

\* The module that was emitted is refused, or starts to run.
LEMMA VerdictKeeps ==
  ASSUME EmitInv, FailVerification \/ Start
  PROVE  EmitInv'
<1>1. pc[1] \in Block /\ came \in Block
  BY DEF EmitInv, Typed
<1>2. CASE FailVerification
  <2>1. phase' = "asserted" /\ UNCHANGED <<program, emission, machine>>
    BY <1>2 DEF FailVerification, Refuse
  <2>2. pc'[1] \in Block /\ came' \in Block
    BY <1>1, <2>1 DEF machine
  <2>3. Typed' /\ program' \in Programs /\ \A b \in Block : Sequence(code'[b])
    BY <2>1, <2>2, StillTyped
  <2>. QED  BY <2>1, <2>3, Zenon DEF EmitInv
<1>3. CASE Start
  <2>1. /\ phase = "emit" /\ stack = <<>> /\ Verifies /\ phase' = "run"
        /\ entry' \in program.functions \union {program.main}
        /\ pc' = <<<<entry', "begin">>, 1>> /\ came' = <<entry', "begin">>
        /\ UNCHANGED <<program, emission>>
    BY <1>3 DEF Start, Emitted, Begin
  <2>2. /\ program \in Programs /\ pending = {} /\ attached \in [Node -> SUBSET Block]
        /\ \A b \in Block : Sequence(code[b])
        /\ \A f \in (program.functions \ pending) \union {program.main} : <<f, "begin">> \in attached[f]
    BY <2>1 DEF EmitInv, Typed
  <2>3. entry' \in Node /\ <<entry', "begin">> \in attached[entry'] /\ <<entry', "begin">> \in Block
    BY <2>1, <2>2, KidsType
  <2>. DEFINE b == <<entry', "begin">>
  <2>4. code[b] # <<>> /\ Sequence(code[b])
    BY <2>1, <2>2, <2>3 DEF Verifies, BlockVerifies
  <2>5. 1 \in DOMAIN code[b]
    <3>1. code[b] \in Seq(Range(code[b])) /\ Len(code[b]) \in Nat /\ DOMAIN code[b] = 1 .. Len(code[b])
      BY <2>4, SequenceDomain DEF Sequence
    <3>2. Len(code[b]) # 0
      BY <2>4, <3>1, EmptySeq
    <3>. QED  BY <3>1, <3>2
  <2>6. attached' = attached /\ code' = code
    BY <2>1 DEF emission
  <2>7. /\ pc'[1] \in Block /\ came' \in Block
        /\ \E f \in Node : pc'[1] \in attached'[f] /\ pc'[2] \in DOMAIN code'[pc'[1]]
    BY <2>1, <2>3, <2>5, <2>6
  <2>8. Typed' /\ program' \in Programs /\ \A d \in Block : Sequence(code'[d])
    <3>. HIDE DEF b
    <3>. QED  BY <2>1, <2>7, StillTyped
  <2>9. Verifies'
    BY <2>1, <2>6, SameModuleVerifies
  <2>10. phase' # "emit"
    BY <2>1
  <2>. QED  BY <2>7, <2>8, <2>9, <2>10, Zenon DEF EmitInv
<1>. QED  BY <1>2, <1>3

\* A step that leaves all as it is.
LEMMA IdleKeeps ==
  ASSUME EmitInv, UNCHANGED vars
  PROVE  EmitInv'
<1>1. /\ program' = program /\ phase' = phase /\ stack' = stack /\ pending' = pending /\ insert' = insert
      /\ attached' = attached /\ code' = code /\ pc' = pc /\ came' = came
  BY DEF vars, sourceVars, emission, machine
<1>2. /\ Shape(stack, pending) => Shape(stack, pending)'
      /\ Apart(stack, pending, attached) => Apart(stack, pending, attached)'
      /\ Root(stack)' = Root(stack) /\ Suspended(stack)' = Suspended(stack) /\ MainBegin' = MainBegin
  BY <1>1, SameProgram
<1>3. Blocks(Root(stack), Suspended(stack), insert, attached, code) =>
        Blocks(Root(stack), Suspended(stack), insert, attached, code)'
  BY <1>1, <1>2, Zenon
<1>4. Verifies => Verifies'
  BY <1>1, SameModuleVerifies
<1>5. Typed => Typed'
  BY <1>1, Zenon DEF Typed
<1>6. Wrapped(stack)' <=> Wrapped(stack)
  BY <1>1, Zenon DEF Wrapped
<1>7. ASSUME phase = "emit"
      PROVE  /\ pending' \subseteq program'.functions
             /\ \A f \in (program'.functions \ pending') \union {program'.main} : <<f, "begin">> \in attached'[f]
             /\ \A f \in pending' : attached'[f] = {}
             /\ stack' = <<>> => pending' = {}
             /\ stack' # <<>> /\ stack'[1].step = 0 => Wrapped(stack)' \/ insert' = MainBegin'
             /\ stack' # <<>> => /\ Shape(stack, pending)' /\ Apart(stack, pending, attached)'
                                 /\ Blocks(Root(stack), Suspended(stack), insert, attached, code)'
  BY <1>1, <1>2, <1>3, <1>6, <1>7 DEF EmitInv
<1>8. ASSUME phase = "run"
      PROVE  /\ Verifies'
             /\ \E f \in Node : pc'[1] \in attached'[f] /\ pc'[2] \in DOMAIN code'[pc'[1]]
  BY <1>1, <1>4, <1>8 DEF EmitInv
<1>9. Typed' /\ program' \in Programs /\ \A b \in Block : Sequence(code'[b])
  BY <1>1, <1>5 DEF EmitInv
<1>. QED  BY <1>1, <1>7, <1>8, <1>9, Zenon DEF EmitInv

-----------------------------------------------------------------------------
(***************************************************************************)
(* The invariant and what follows from it.                                 *)
(***************************************************************************)

\* The module's activation is the only one at the start.
LEMMA EmitInit == Init => EmitInv
<1>. SUFFICES ASSUME Init
              PROVE  EmitInv
  OBVIOUS
<1>1. /\ program \in Programs /\ phase = "emit" /\ pending = program.functions
      /\ stack = <<Activation(program.main)>> /\ insert = MainBegin
      /\ attached = [n \in Node |-> IF n = program.main THEN {insert} ELSE {}]
      /\ code = [b \in Block |-> <<>>]
      /\ pc = <<insert, 1>> /\ came = insert
  BY DEF Init, SourceInit, MainBegin
<1>2. /\ program.main \in Node /\ program.functions \subseteq Node /\ program.main \notin program.functions
      /\ Operands(program.main) \in 0 .. 3
  BY <1>1, KidsType
<1>3. insert \in Block
  BY <1>1, <1>2 DEF MainBegin, Block, Role
<1>4. /\ attached \in [Node -> SUBSET Block] /\ DOMAIN code = Block /\ \A b \in Block : code[b] = <<>>
      /\ attached[program.main] = {MainBegin}
      /\ \A n \in Node : n # program.main => attached[n] = {}
      /\ \A b : Attached(attached, b) <=> b = MainBegin
  <2>1. /\ attached \in [Node -> SUBSET Block] /\ DOMAIN code = Block /\ \A b \in Block : code[b] = <<>>
        /\ attached[program.main] = {MainBegin}
        /\ \A n \in Node : n # program.main => attached[n] = {}
    BY <1>1, <1>2, <1>3
  <2>. QED  BY <1>2, <2>1 DEF Attached
<1>. DEFINE a == Activation(program.main)
<1>5. a \in Frame /\ a.node = program.main /\ a.step = 0
  <2>1. <<>> \in Seq(Operand) /\ <<>> \in Seq(Block) /\ 0 \in -1 .. 3
    BY EmptySeq
  <2>. QED  BY <1>2, <2>1 DEF Activation, Frame
<1>. HIDE DEF a
<1>6. stack = <<a>>
  BY <1>1 DEF a
<1>7. /\ stack \in Seq(Frame) /\ Len(stack) = 1 /\ DOMAIN stack = {1} /\ stack[1] = a
  BY <1>5, <1>6
<1>8. stack # <<>>
  <2>1. stack \in Seq(Frame) /\ Len(stack) # 0
    BY <1>7
  <2>. QED  BY <2>1, EmptySeq
<1>9. ~Wrapped(stack) /\ Root(stack) = program.main /\ Suspended(stack) = {}
  <2>1. ~Wrapped(stack)
    BY <1>7 DEF Wrapped
  <2>. QED  BY <2>1 DEF Root, Suspended
<1>10. Shape(stack, pending)
  <2>1. FrameFits(stack, pending, 1)
    BY <1>2, <1>5, <1>7 DEF FrameFits
  <2>2. \A i, j \in {1} : ~(i < j)
    OBVIOUS
  <2>. QED  BY <1>5, <1>7, <1>8, <2>1, <2>2 DEF Shape
<1>11. Apart(stack, pending, attached)
  <2>1. ASSUME NEW y \in Node, program.main \notin Below(y)
        PROVE  Unvisited(stack, attached, y)
    <3>1. ASSUME NEW m \in Below(y), NEW r \in Role
          PROVE  ~Attached(attached, <<m, r>>)
      BY <1>4, <2>1 DEF MainBegin
    <3>. QED  BY <1>5, <1>7, <2>1, <3>1 DEF Unvisited, Untouched
  <2>2. ASSUME NEW y \in Node, y # program.main
        PROVE  program.main \notin Below(y)
    <3>1. SUFFICES ASSUME program.main \in Below(y)
                   PROVE  FALSE
      OBVIOUS
    <3>2. PICK p \in Below(y) : \E i \in DOMAIN Kids(p) : program.main = Kids(p)[i]
      BY <1>1, <2>2, <3>1, BelowFacts
    <3>3. p \in Node
      BY <1>1, BelowFacts
    <3>. QED  BY <1>1, <3>2, <3>3, KidsAreApart
  <2>3. ASSUME NEW k \in Waiting(stack[1])
        PROVE  Unvisited(stack, attached, Kids(stack[1].node)[k])
    <3>1. k \in DOMAIN Kids(program.main)
      BY <1>5, <1>7 DEF Waiting
    <3>2. Kids(program.main)[k] \in Node /\ Kids(program.main)[k] # program.main
      BY <1>1, <1>2, <3>1, KidsAreApart
    <3>. QED  BY <1>5, <1>7, <2>1, <2>2, <3>2
  <2>4. \A f \in pending : Unvisited(stack, attached, f)
    BY <1>1, <1>2, <2>1, <2>2
  <2>5. \A r \in Role \ {"begin"} : ~Attached(attached, <<stack[1].node, r>>)
    BY <1>4 DEF MainBegin
  <2>. QED  BY <1>7, <2>3, <2>4, <2>5 DEF Apart
<1>12. Blocks(program.main, {}, insert, attached, code)
  <2>1. \A b \in Block : Ends(code[b]) = {}
    BY <1>4, ShortSequences
  <2>2. \A b \in Block : IF Attached(attached, b) THEN Finished(code, b, {} \union {insert}) ELSE code[b] = <<>>
    BY <1>1, <1>4, <2>1 DEF Finished
  <2>3. \A f, g \in Node : \A b \in attached[f] : b \in attached[g] => f = g
    BY <1>4
  <2>. QED  BY <1>1, <1>4, <2>2, <2>3 DEF Blocks
<1>13. Typed
  <2>1. /\ a.node \in Node /\ a.step \in -1 .. 3 /\ Range(a.vals) \subseteq Operand /\ Range(a.kept) \subseteq Block
    <3>1. Range(<<>>) = {}
      BY DEF Range
    <3>. QED  BY <1>2, <3>1 DEF a, Activation
  <2>. QED  BY <1>1, <1>2, <1>3, <1>4, <1>7, <2>1 DEF Typed
<1>14. /\ \A f \in (program.functions \ pending) \union {program.main} : <<f, "begin">> \in attached[f]
       /\ \A f \in pending : attached[f] = {}
       /\ \A b \in Block : Sequence(code[b])
  BY <1>1, <1>2, <1>4, ShortSequences DEF MainBegin
<1>15. Blocks(Root(stack), Suspended(stack), insert, attached, code)
  BY <1>9, <1>12
<1>16. phase # "run" /\ pending \subseteq program.functions
  BY <1>1
<1>. QED  BY <1>1, <1>8, <1>10, <1>11, <1>13, <1>14, <1>15, <1>16, Zenon DEF EmitInv

\* Every step keeps the invariant.
LEMMA EmitNext == EmitInv /\ [Next]_vars => EmitInv'
<1>. SUFFICES ASSUME EmitInv, [Next]_vars
              PROVE  EmitInv'
  OBVIOUS
<1>1. CASE Operators
  BY <1>1, PlainKeeps, BranchCallsKeep, BranchReturnsKeep DEF Operators
<1>2. CASE Branching
  BY <1>2, PlainKeeps, BranchCallsKeep, BranchReturnsKeep DEF Branching
<1>3. CASE Module
  BY <1>3, StartFunctionKeeps, EndFunctionKeeps, StatementKeeps, EndModuleKeeps, VerdictKeeps DEF Module
<1>4. CASE Run
  BY <1>4, RunKeeps
<1>5. CASE Over \/ UNCHANGED vars
  BY <1>5, IdleKeeps DEF Over
<1>. QED  BY <1>1, <1>2, <1>3, <1>4, <1>5 DEF Next

\* The blocks that the functions under way leave open are those the invariant names.
LEMMA OpenFollows == EmitInv => InsertionPointIsOpen
<1>. SUFFICES ASSUME EmitInv, phase = "emit", stack # <<>>
              PROVE  LET suspended == {stack[i].kept[1] : i \in {j \in DOMAIN stack : stack[j].step = -1}}
                     IN  /\ \E f \in Node : insert \in attached[f] /\ \A g \in Node \ {f} : insert \notin attached[g]
                         /\ \A f \in Node : \A b \in attached[f] :
                              LET ends == {i \in DOMAIN code[b] : Terminates(code[b][i])}
                              IN  ends = IF b = insert \/ b \in suspended THEN {} ELSE {Len(code[b])}
  BY DEF InsertionPointIsOpen
<1>. DEFINE suspended == {stack[i].kept[1] : i \in {j \in DOMAIN stack : stack[j].step = -1}}
<1>1. /\ Shape(stack, pending) /\ Blocks(Root(stack), Suspended(stack), insert, attached, code)
      /\ Root(stack) \in Node /\ attached \in [Node -> SUBSET Block] /\ stack \in Seq(Frame)
  BY Emitting
<1>2. DOMAIN stack = 1 .. Len(stack) /\ Len(stack) \in Nat
  BY <1>1, StackType
<1>3. suspended = Suspended(stack)
  <2>1. \A j \in DOMAIN stack : stack[j].step = -1 => j = 2 /\ stack[2].kept = <<MainBegin>>
    BY <1>1 DEF Shape, FrameFits
  <2>2. CASE Wrapped(stack)
    <3>1. 2 \in DOMAIN stack /\ stack[2].step = -1
      BY <1>2, <2>2 DEF Wrapped
    <3>2. {j \in DOMAIN stack : stack[j].step = -1} = {2}
      BY <2>1, <3>1
    <3>3. stack[2].kept[1] = MainBegin
      BY <2>1, <3>1
    <3>. QED  BY <2>2, <3>2, <3>3 DEF Suspended
  <2>3. CASE ~Wrapped(stack)
    <3>1. {j \in DOMAIN stack : stack[j].step = -1} = {}
      BY <1>2, <2>1, <2>3 DEF Wrapped
    <3>. QED  BY <2>3, <3>1 DEF Suspended
  <2>. QED  BY <2>2, <2>3
<1>. HIDE DEF suspended
<1>4. \E f \in Node : insert \in attached[f] /\ \A g \in Node \ {f} : insert \notin attached[g]
  BY <1>1 DEF Blocks
<1>5. ASSUME NEW f \in Node, NEW b \in attached[f]
      PROVE  Ends(code[b]) = IF b = insert \/ b \in suspended THEN {} ELSE {Len(code[b])}
  <2>1. b \in Block /\ Attached(attached, b)
    BY <1>1 DEF Attached
  <2>. QED  BY <1>1, <1>3, <2>1 DEF Blocks, Finished
<1>. QED  BY <1>4, <1>5 DEF Ends, suspended

\* The invariant holds of every program.
THEOREM EmitInvariant == Spec => []EmitInv
<1>. QED  BY EmitInit, EmitNext, PTL DEF Spec

\* Whatever is nested, no activation is entered beyond the operands of its expression,
\* those that wait for the body of a function wait for one, and no instruction is
\* reached that a block of a function does not have (TypeOK; emitExpr and visitors
\* of ExprStmtAstVisitor, llvm::verifyModule).
THEOREM TypeCorrect == Spec => []TypeOK
<1>1. EmitInv => TypeOK
  <2>. SUFFICES ASSUME EmitInv
                PROVE  TypeOK
    OBVIOUS
  <2>1. Typed
    BY DEF EmitInv
  <2>2. ASSUME phase = "emit", NEW i \in DOMAIN stack
        PROVE  IF stack[i].step = -1 THEN stack[i].node \in program.functions
               ELSE stack[i].step \in 0 .. Operands(stack[i].node)
    <3>1. stack # <<>>
      BY <2>2
    <3>2. FrameFits(stack, pending, i)
      BY <2>2, <3>1 DEF EmitInv, Shape
    <3>3. stack[i].node \in Node /\ stack[i].step \in -1 .. 3
      BY <2>1, <2>2 DEF Typed
    <3>4. Operands(stack[i].node) \in 0 .. 3
      BY <3>3, KidsType DEF EmitInv
    <3>5. stack[i].step <= Operands(stack[i].node) /\ (stack[i].step = -1 => stack[i].node \in program.functions)
      BY <3>2 DEF FrameFits
    <3>. QED  BY <3>3, <3>4, <3>5
  <2>3. phase = "run" => \E f \in Node : pc[1] \in attached[f] /\ pc[2] \in DOMAIN code[pc[1]]
    BY DEF EmitInv
  <2>. QED  BY <2>1, <2>2, <2>3 DEF Typed, TypeOK
<1>. QED  BY <1>1, EmitInvariant, PTL

\* However deep functions and branches are nested, the insertion point is in an open
\* block of one function and every other block has its only terminator at its end
\* (InsertionPointIsOpen).
THEOREM InsertionPointCorrect == Spec => []InsertionPointIsOpen
<1>. QED  BY OpenFollows, EmitInvariant, PTL
=============================================================================
