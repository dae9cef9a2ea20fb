---------------------- MODULE TemplateExpansionProofs ----------------------
(***************************************************************************)
(* Proofs, for every set of programs, that the variables of                *)
(* TemplateExpansion keep their types and that expandingTemplates_, the    *)
(* nesting of visits, the context messages and the template index stay in  *)
(* step with the expansions under way.                                     *)
(***************************************************************************)
EXTENDS TemplateExpansion, SequenceLemmas, FiniteSetTheorems, SequenceTheorems, TLAPS

-----------------------------------------------------------------------------
(***************************************************************************)
(* The inductive invariant.                                                *)
(***************************************************************************)

\* A frame below the top is inside the visit of an expansion of a template; a
\* frame that visits nothing has no template set; only the expander visits.
FramesNest ==
  /\ \A i \in 1 .. Len(stack) - 1 :
       /\ stack[i].visiting
       /\ stack[i].templ \in Instance
       /\ stack[i + 1].of = stack[i].templ[1]
  /\ \A i \in DOMAIN stack :
       /\ ~stack[i].visiting => stack[i].templ = Null
       /\ stack[i].visiting => stack[i].pass = "expand"

\* The number of context messages, in terms of the stack.
ContextCounts ==
  context = IF stack = <<>> THEN 0
            ELSE IF Top.visiting THEN Len(stack) ELSE Len(stack) - 1

LineStarted == stack # <<>> => line >= 1

\* Past the recorder, the templates written in a copy are in the index; past
\* the second pass, its tables have their parents.
CopyRecorded(f) ==
  /\ f.pass # "record" =>
       \A j \in DOMAIN Items(f) :
         Items(f)[j].op = "template" => <<Items(f)[j].templ, f.tag>> \in index
  /\ f.pass \in {"populate", "expand"} => f.parented
CopiesRecorded == \A f \in Elements(stack) : CopyRecorded(f)

TypeInv == TypeOK /\ FramesNest /\ ContextCounts /\ LineStarted

-----------------------------------------------------------------------------
\* The statements that a frame works on are statements.
LEMMA ItemsType ==
  ASSUME TypeInv, stack # <<>>, NEW f \in Frame
  PROVE  Items(f) \in Seq(Item)
<1>1. line \in DOMAIN program.lines
  BY DEF TypeInv, TypeOK, LineStarted, Program
<1>2. CASE f.of = Null
  BY <1>1, <1>2 DEF TypeInv, TypeOK, Program, Items
<1>3. CASE f.of # Null
  BY <1>3 DEF TypeInv, TypeOK, Program, Items, Frame
<1>. QED  BY <1>2, <1>3

\* The frame at the top of the stack.
LEMMA TopType ==
  ASSUME TypeInv, stack # <<>>
  PROVE  /\ Len(stack) \in Nat \ {0} /\ Len(stack) \in DOMAIN stack
         /\ Top \in Frame
  BY DEF TypeInv, TypeOK, Top

\* What an expansion finds is a symbol, and its parameters are a sequence.
LEMMA FoundType ==
  ASSUME TypeInv, AtExpansion
  PROVE  /\ Statement \in Item /\ Statement.name \in Name /\ Statement.args \in Nat
         /\ Found \in Symbol
         /\ Found \in Instance => Found[1] \in Template /\ FoundParams \in Seq(Name)
<1>1. Top \in Frame
  BY TopType DEF AtExpansion, AtStatement, Running
<1>2. Items(Top) \in Seq(Item)
  BY <1>1, ItemsType DEF AtExpansion, AtStatement, Running
<1>3. Top.pos \in DOMAIN Items(Top)
  BY <1>1, <1>2 DEF AtExpansion, AtStatement, Frame
<1>4. Statement \in Item
  BY <1>2, <1>3 DEF Statement
<1>5. Statement.name \in Name /\ Statement.args \in Nat
  BY <1>4 DEF AtExpansion, Item
<1>6. Found \in Symbol
  BY <1>5 DEF Found, Lookup, TypeInv, TypeOK, Symbol
<1>7. ASSUME Found \in Instance
      PROVE  Found[1] \in Template /\ FoundParams \in Seq(Name)
  BY <1>7 DEF Instance, FoundParams, Params, TypeInv, TypeOK, Program
<1>. QED  BY <1>4, <1>5, <1>6, <1>7

-----------------------------------------------------------------------------
(***************************************************************************)
(* The three things that a step does to the stack.                         *)
(***************************************************************************)
LEMMA ReplaceTop ==
  ASSUME TypeInv, stack # <<>>, NEW f \in Frame,
         stack' = [stack EXCEPT ![Len(stack)] = f]
  PROVE  /\ stack' \in Seq(Frame) /\ stack' # <<>>
         /\ Len(stack') = Len(stack) /\ DOMAIN stack' = DOMAIN stack
         /\ Top' = f
         /\ \A i \in DOMAIN stack : stack'[i] = IF i = Len(stack) THEN f ELSE stack[i]
<1>1. stack \in Seq(Frame)
  BY DEF TypeInv, TypeOK
<1>. QED  BY <1>1, SeqReplaceLast DEF Top

\* What a return leaves of the stack.
LEMMA PopTop ==
  ASSUME TypeInv, stack # <<>>, Return
  PROVE  /\ stack' \in Seq(Frame)
         /\ Len(stack') = Len(stack) - 1
         /\ DOMAIN stack' = 1 .. Len(stack) - 1
         /\ \A i \in 1 .. Len(stack) - 1 : stack'[i] = stack[i]
<1>1. stack \in Seq(Frame)
  BY DEF TypeInv, TypeOK
<1>. QED  BY <1>1, SeqPop DEF Return, Callers

\* What a call makes of the stack: the caller becomes f, and g runs.
LEMMA PushFrame ==
  ASSUME TypeInv, stack # <<>>, NEW f \in Frame, NEW g \in Frame,
         stack' = Append([stack EXCEPT ![Len(stack)] = f], g)
  PROVE  /\ stack' \in Seq(Frame) /\ stack' # <<>>
         /\ Len(stack') = Len(stack) + 1 /\ DOMAIN stack' = 1 .. Len(stack) + 1
         /\ Top' = g /\ stack'[Len(stack) + 1] = g
         /\ \A i \in DOMAIN stack : stack'[i] = IF i = Len(stack) THEN f ELSE stack[i]
<1>1. stack \in Seq(Frame)
  BY DEF TypeInv, TypeOK
<1>. QED  BY <1>1, SeqReplaceLastPush DEF Top

\* The frames that the actions put on top are frames.
LEMMA NewTops ==
  ASSUME TypeInv, stack # <<>>
  PROVE  /\ \A t \in Template \union {Null} : NewFrame(t, nextTag) \in Frame
         /\ \A t \in Instance \union {Null} : Visiting(t) \in Frame
         /\ [Top EXCEPT !.pos = @ + 1] \in Frame
         /\ [Top EXCEPT !.visiting = FALSE, !.templ = Null, !.pos = @ + 1] \in Frame
         /\ \A q \in Pass : [Top EXCEPT !.pass = q] \in Frame
         /\ \A q \in Pass : [[Top EXCEPT !.parented = TRUE] EXCEPT !.pass = q] \in Frame
<1>1. Top \in Frame /\ nextTag \in Nat
  BY TopType DEF TypeInv, TypeOK
<1>2. \A t \in Template \union {Null} : NewFrame(t, nextTag) \in Frame
  BY <1>1 DEF Frame, NewFrame, Pass
<1>3. \A t \in Instance \union {Null} : Visiting(t) \in Frame
  BY <1>1 DEF Frame, Visiting
<1>4. [Top EXCEPT !.pos = @ + 1] \in Frame
  BY <1>1 DEF Frame
<1>5. [Top EXCEPT !.visiting = FALSE, !.templ = Null, !.pos = @ + 1] \in Frame
  <2>1. Top.pos + 1 \in Nat \ {0}
    BY <1>1 DEF Frame
  <2>2. \A g \in Frame : [g EXCEPT !.visiting = FALSE] \in Frame
    BY DEF Frame
  <2>3. \A g \in Frame : [g EXCEPT !.templ = Null] \in Frame
    BY DEF Frame
  <2>4. \A g \in Frame, n \in Nat \ {0} : [g EXCEPT !.pos = n] \in Frame
    BY DEF Frame
  <2>. QED  BY <1>1, <2>1, <2>2, <2>3, <2>4
<1>6. \A q \in Pass : [Top EXCEPT !.pass = q] \in Frame
  BY <1>1 DEF Frame
<1>7. \A q \in Pass : [[Top EXCEPT !.parented = TRUE] EXCEPT !.pass = q] \in Frame
  BY <1>1 DEF Frame
<1>. QED  BY <1>2, <1>3, <1>4, <1>5, <1>6, <1>7


-----------------------------------------------------------------------------
(***************************************************************************)
(* What each of the three does to the nesting of the visits.               *)
(***************************************************************************)
LEMMA ReplaceNests ==
  ASSUME TypeInv, stack # <<>>, NEW f \in Frame,
         stack' = [stack EXCEPT ![Len(stack)] = f], line' = line,
         f.of = Top.of,
         ~f.visiting => f.templ = Null,
         f.visiting => f.pass = "expand",
         context' = IF f.visiting = Top.visiting THEN context
                    ELSE IF f.visiting THEN context + 1 ELSE context - 1
  PROVE  FramesNest' /\ ContextCounts' /\ LineStarted' /\ context' \in Nat
<1>1. /\ stack' # <<>> /\ Len(stack') = Len(stack) /\ DOMAIN stack' = DOMAIN stack
      /\ Top' = f
      /\ \A i \in DOMAIN stack : stack'[i] = IF i = Len(stack) THEN f ELSE stack[i]
  BY ReplaceTop, Zenon
<1>2. Len(stack) \in Nat \ {0} /\ DOMAIN stack = 1 .. Len(stack) /\ Top = stack[Len(stack)]
  BY TopType DEF TypeInv, TypeOK, Top
<1>3. ASSUME NEW i \in 1 .. Len(stack) - 1
      PROVE  stack'[i] = stack[i] /\ stack'[i + 1].of = stack[i + 1].of
  <2>1. i \in DOMAIN stack /\ i + 1 \in DOMAIN stack /\ i # Len(stack)
    BY <1>2, Positions, Zenon
  <2>2. stack'[i] = stack[i]
    BY <1>1, <2>1
  <2>3. stack'[i + 1] = IF i + 1 = Len(stack) THEN f ELSE stack[i + 1]
    BY <1>1, <2>1
  <2>. QED  BY <1>2, <2>2, <2>3
<1>4. FramesNest'
  <2>1. FramesNest
    BY DEF TypeInv
  <2>2. \A i \in 1 .. Len(stack') - 1 :
          /\ stack'[i].visiting /\ stack'[i].templ \in Instance
          /\ stack'[i + 1].of = stack'[i].templ[1]
    BY <1>1, <1>2, <1>3, <2>1 DEF FramesNest
  <2>3. \A i \in DOMAIN stack' :
          /\ ~stack'[i].visiting => stack'[i].templ = Null
          /\ stack'[i].visiting => stack'[i].pass = "expand"
    BY <1>1, <1>2, <2>1 DEF FramesNest
  <2>. QED  BY <2>2, <2>3 DEF FramesNest
<1>5. ContextCounts' /\ context' \in Nat
  <2>1. context = IF Top.visiting THEN Len(stack) ELSE Len(stack) - 1
    BY DEF TypeInv, ContextCounts
  <2>2. Top.visiting \in BOOLEAN /\ f.visiting \in BOOLEAN
    BY TopType DEF Frame
  <2>3. context' = IF f.visiting THEN Len(stack) ELSE Len(stack) - 1
    BY <1>2, <2>1, <2>2
  <2>. QED  BY <1>1, <1>2, <2>3 DEF ContextCounts
<1>6. LineStarted'
  BY DEF TypeInv, LineStarted
<1>. QED  BY <1>4, <1>5, <1>6

\* A return keeps the frames nested and the contexts counted.
LEMMA PopNests ==
  ASSUME TypeInv, stack # <<>>, ~Top.visiting, Return, line' = line, context' = context
  PROVE  FramesNest' /\ ContextCounts' /\ LineStarted'
<1>1. /\ stack' \in Seq(Frame) /\ Len(stack') = Len(stack) - 1
      /\ DOMAIN stack' = 1 .. Len(stack) - 1
      /\ \A i \in 1 .. Len(stack) - 1 : stack'[i] = stack[i]
  BY PopTop
<1>2. Len(stack) \in Nat \ {0} /\ DOMAIN stack = 1 .. Len(stack) /\ Top = stack[Len(stack)]
  BY TopType DEF TypeInv, TypeOK, Top
<1>3. FramesNest'
  <2>1. FramesNest /\ \A n \in Nat \ {0} : \A i \in 1 .. (n - 1) - 1 : i \in 1 .. n - 1 /\ i + 1 \in 1 .. n - 1
    BY DEF TypeInv
  <2>2. \A i \in 1 .. Len(stack') - 1 :
          /\ stack'[i].visiting /\ stack'[i].templ \in Instance
          /\ stack'[i + 1].of = stack'[i].templ[1]
    BY <1>1, <1>2, <2>1 DEF FramesNest
  <2>3. \A i \in DOMAIN stack' :
          /\ ~stack'[i].visiting => stack'[i].templ = Null
          /\ stack'[i].visiting => stack'[i].pass = "expand"
    BY <1>1, <1>2, <2>1 DEF FramesNest
  <2>. QED  BY <2>2, <2>3 DEF FramesNest
<1>4. ContextCounts'
  <2>1. context = Len(stack) - 1
    BY DEF TypeInv, ContextCounts
  <2>2. CASE stack' = <<>>
    BY <1>1, <1>2, <2>1, <2>2 DEF ContextCounts
  <2>3. CASE stack' # <<>>
    <3>1. Len(stack) - 1 \in 1 .. Len(stack) - 1
      BY <1>1, <1>2, <2>3, EmptySeq
    <3>2. stack'[Len(stack) - 1].visiting
      BY <1>1, <3>1 DEF TypeInv, FramesNest
    <3>. QED  BY <1>1, <2>1, <2>3, <3>2 DEF ContextCounts, Top
  <2>. QED  BY <2>2, <2>3
<1>5. LineStarted'
  BY DEF TypeInv, LineStarted
<1>. QED  BY <1>3, <1>4, <1>5

\* An expansion that is entered keeps the frames nested and the contexts counted.
LEMMA PushNests ==
  ASSUME TypeInv, stack # <<>>, ~Top.visiting, NEW f \in Frame, NEW g \in Frame,
         stack' = Append([stack EXCEPT ![Len(stack)] = f], g), line' = line,
         f.of = Top.of, f.visiting, f.pass = "expand", f.templ \in Instance,
         g.of = f.templ[1], ~g.visiting, g.templ = Null,
         context' = context + 1
  PROVE  FramesNest' /\ ContextCounts' /\ LineStarted' /\ context' \in Nat
<1>1. /\ stack' # <<>> /\ Len(stack') = Len(stack) + 1 /\ DOMAIN stack' = 1 .. Len(stack) + 1
      /\ Top' = g /\ stack'[Len(stack) + 1] = g
      /\ \A i \in DOMAIN stack : stack'[i] = IF i = Len(stack) THEN f ELSE stack[i]
  BY PushFrame
<1>2. Len(stack) \in Nat \ {0} /\ DOMAIN stack = 1 .. Len(stack) /\ Top = stack[Len(stack)]
  BY TopType DEF TypeInv, TypeOK, Top
<1>3. ASSUME NEW i \in 1 .. Len(stack) - 1
      PROVE  stack'[i] = stack[i] /\ stack'[i + 1].of = stack[i + 1].of
  <2>1. i \in DOMAIN stack /\ i + 1 \in DOMAIN stack /\ i # Len(stack)
    BY <1>2, Positions, Zenon
  <2>2. stack'[i] = stack[i]
    BY <1>1, <2>1
  <2>3. stack'[i + 1] = IF i + 1 = Len(stack) THEN f ELSE stack[i + 1]
    BY <1>1, <2>1
  <2>. QED  BY <1>2, <2>2, <2>3
<1>4. stack'[Len(stack)] = f
  BY <1>1, <1>2, Positions, Zenon
<1>5. FramesNest'
  <2>1. ASSUME NEW i \in 1 .. Len(stack') - 1
        PROVE  /\ stack'[i].visiting /\ stack'[i].templ \in Instance
               /\ stack'[i + 1].of = stack'[i].templ[1]
    <3>1. CASE i = Len(stack)
      BY <1>1, <1>4, <3>1
    <3>2. CASE i # Len(stack)
      <4>1. i \in 1 .. Len(stack) - 1
        BY <1>1, <1>2, <3>2, Positions, Zenon
      <4>. QED  BY <1>3, <4>1 DEF FramesNest, TypeInv
    <3>. QED  BY <3>1, <3>2
  <2>2. ASSUME NEW i \in DOMAIN stack'
        PROVE  /\ ~stack'[i].visiting => stack'[i].templ = Null
               /\ stack'[i].visiting => stack'[i].pass = "expand"
    <3>1. CASE i = Len(stack) + 1
      BY <1>1, <3>1
    <3>2. CASE i # Len(stack) + 1
      <4>1. i \in DOMAIN stack
        BY <1>1, <1>2, <3>2, Positions, Zenon
      <4>. QED  BY <1>1, <4>1 DEF FramesNest, TypeInv
    <3>. QED  BY <3>1, <3>2
  <2>. QED  BY <2>1, <2>2 DEF FramesNest
<1>6. ContextCounts' /\ context' \in Nat
  BY <1>1, <1>2 DEF TypeInv, ContextCounts
<1>7. LineStarted'
  BY DEF TypeInv, LineStarted
<1>. QED  BY <1>5, <1>6, <1>7

-----------------------------------------------------------------------------
(***************************************************************************)
(* Types and nesting are inductive.                                        *)
(***************************************************************************)

\* TypeOK but for the part that is about the stack and the messages.
RestOK ==
  /\ program \in Program
  /\ line \in 0 .. Len(program.lines) /\ verdicts \in Seq(Verdict) /\ Len(verdicts) <= line
  /\ halted \in BOOLEAN
  /\ expanding \subseteq Instance /\ index \subseteq Instance
  /\ globals \in [Name -> Symbol] /\ symbols \in [Name -> Symbol]
  /\ errorCount \in Nat /\ firstError \in ErrorKind
  /\ nextTag \in Nat

\* The initial states have the types.
LEMMA TypeInit == Init => TypeInv
<1>. SUFFICES ASSUME Init PROVE TypeInv
  OBVIOUS
<1>1. program \in Program
  BY ProgramsAssumption DEF Init
<1>2. Len(program.lines) \in Nat
  BY <1>1, LenProperties DEF Program
<1>3. line \in 0 .. Len(program.lines) /\ Len(verdicts) <= line
  BY <1>2 DEF Init
<1>4. stack \in Seq(Frame) /\ verdicts \in Seq(Verdict)
  BY DEF Init
<1>5. globals \in [Name -> Symbol] /\ symbols \in [Name -> Symbol]
  BY DEF Init, Symbol
<1>6. TypeOK
  BY <1>1, <1>3, <1>4, <1>5 DEF Init, TypeOK, ErrorKind
<1>7. FramesNest
  BY DEF Init, FramesNest
<1>8. ContextCounts /\ LineStarted
  BY DEF Init, ContextCounts, LineStarted
<1>. QED  BY <1>6, <1>7, <1>8 DEF TypeInv

\* Going on to the next pass, or returning.
LEMMA EndPassNests ==
  ASSUME TypeInv, stack # <<>>, Top.pass \in {"record", "parents", "populate"},
         NEW f \in Frame, f = Top \/ f = [Top EXCEPT !.parented = TRUE], NEW n,
         EndPass(f, n), line' = line, context' = context
  PROVE  /\ stack' \in Seq(Frame)
         /\ FramesNest' /\ ContextCounts' /\ LineStarted'
<1>1. Top \in Frame /\ Top = stack[Len(stack)] /\ Len(stack) \in DOMAIN stack
  BY TopType DEF Top
<1>2. ~Top.visiting /\ Top.templ = Null
  BY <1>1 DEF TypeInv, FramesNest
<1>3. CASE n > 0
  BY <1>2, <1>3, PopTop, PopNests DEF EndPass
<1>4. CASE ~(n > 0)
  <2>. DEFINE g == [f EXCEPT !.pass = NextPass[f.pass]]
  <2>1. f.pass = Top.pass /\ f.of = Top.of /\ f.visiting = Top.visiting /\ f.templ = Top.templ
    BY <1>1 DEF Frame
  <2>2. NextPass[f.pass] \in Pass
    BY <2>1 DEF NextPass, Pass
  <2>3. g \in Frame
    BY <2>2 DEF Frame
  <2>4. g.of = Top.of /\ ~g.visiting /\ g.templ = Null /\ Top.visiting = g.visiting
    BY <1>2, <2>1 DEF Frame
  <2>5. stack' = [stack EXCEPT ![Len(stack)] = g]
    BY <1>4 DEF EndPass
  <2>. HIDE DEF g
  <2>6. stack' \in Seq(Frame)
    BY <2>3, <2>5, ReplaceTop
  <2>7. FramesNest' /\ ContextCounts' /\ LineStarted'
    BY <2>3, <2>4, <2>5, ReplaceNests
  <2>. QED  BY <2>6, <2>7
<1>. QED  BY <1>3, <1>4

\* Starting the visit of an expansion.
LEMMA EnterNests ==
  ASSUME TypeInv, AtExpansion, NEW t \in Instance \union {Null}, Enter(t), line' = line
  PROVE  /\ stack' \in Seq(Frame) /\ context' \in Nat
         /\ FramesNest' /\ ContextCounts' /\ LineStarted'
<1>1. Top \in Frame /\ stack # <<>> /\ ~Top.visiting /\ Top.pass = "expand"
  BY TopType DEF AtExpansion, AtStatement, Running
<1>. DEFINE f == Visiting(t)
<1>2. f \in Frame
  BY <1>1, NewTops
<1>3. f.of = Top.of /\ f.visiting /\ f.pass = "expand" /\ Top.visiting # f.visiting
  BY <1>1 DEF Frame, Visiting
<1>4. stack' = [stack EXCEPT ![Len(stack)] = f] /\ context' = context + 1
  BY DEF Enter
<1>. HIDE DEF f
<1>5. stack' \in Seq(Frame)
  BY <1>1, <1>2, <1>4, ReplaceTop
<1>6. FramesNest' /\ ContextCounts' /\ LineStarted' /\ context' \in Nat
  BY <1>1, <1>2, <1>3, <1>4, ReplaceNests
<1>. QED  BY <1>5, <1>6

\* The statements of a frame and the number of names they define.
LEMMA DefiningFinite ==
  ASSUME TypeInv, stack # <<>>, NEW f \in Frame
  PROVE  /\ IsFiniteSet(Defining(Items(f)))
         /\ \A i \in Defining(Items(f)) :
              DefinedName(Items(f)[i]) \in Name /\ Items(f)[i] \in Item
         /\ \A i \in Defining(Items(f)) :
              Items(f)[i].op = "template" => Items(f)[i].templ \in Template
<1>1. Items(f) \in Seq(Item)
  BY ItemsType
<1>2. DOMAIN Items(f) = 1 .. Len(Items(f)) /\ Len(Items(f)) \in Nat
  BY <1>1, LenProperties
<1>3. IsFiniteSet(DOMAIN Items(f))
  BY <1>2, FS_Interval
<1>4. Defining(Items(f)) \subseteq DOMAIN Items(f)
  BY DEF Defining
<1>5. IsFiniteSet(Defining(Items(f)))
  BY <1>3, <1>4, FS_Subset
<1>6. ASSUME NEW i \in Defining(Items(f))
      PROVE  /\ Items(f)[i] \in Item /\ DefinedName(Items(f)[i]) \in Name
             /\ Items(f)[i].op = "template" => Items(f)[i].templ \in Template
  <2>1. Items(f)[i] \in Item /\ Items(f)[i].op \in {"template", "declare"}
    BY <1>1, <1>4 DEF Defining
  <2>2. Items(f)[i].op = "template" => Items(f)[i].templ \in Template
    BY <2>1 DEF Item
  <2>3. Items(f)[i].op = "declare" => Items(f)[i].name \in Name
    BY <2>1 DEF Item
  <2>4. \A t \in Template : program.templates[t].name \in Name
    BY DEF TypeInv, TypeOK, Program
  <2>. QED  BY <2>1, <2>2, <2>3, <2>4 DEF DefinedName
<1>. QED  BY <1>5, <1>6

\* Every step keeps the types.
LEMMA TypeNext == TypeInv /\ [Next]_vars => TypeInv'
<1>. SUFFICES ASSUME TypeInv, [Next]_vars PROVE TypeInv'
  OBVIOUS
<1>. USE DEF RestOK
<1>0. RestOK /\ stack \in Seq(Frame) /\ context \in Nat
  BY DEF TypeInv, TypeOK
<1>s. ASSUME RestOK', stack' \in Seq(Frame), context' \in Nat,
             FramesNest', ContextCounts', LineStarted'
      PROVE  TypeInv'
  BY <1>s DEF TypeInv, TypeOK
<1>1. CASE BeginLine
  <2>1. NewFrame(Null, nextTag) \in Frame
    BY <1>0 DEF Frame, NewFrame, Pass
  <2>2. stack' \in Seq(Frame) /\ Len(stack') = 1 /\ stack'[1] = NewFrame(Null, nextTag)
    BY <1>1, <2>1 DEF BeginLine
  <2>3. stack' # <<>> /\ DOMAIN stack' = {1}
    BY <1>1 DEF BeginLine
  <2>4. RestOK' /\ context' = 0 /\ line' >= 1
    BY <1>0, <1>1 DEF BeginLine, world, Symbol, ErrorKind
  <2>5. FramesNest'
    BY <2>2, <2>3 DEF FramesNest, NewFrame
  <2>6. ContextCounts' /\ LineStarted'
    BY <2>2, <2>3, <2>4 DEF ContextCounts, LineStarted, Top, NewFrame
  <2>. QED  BY <1>s, <2>2, <2>4, <2>5, <2>6
<1>2. CASE RecordTemplates
  <2>1. stack # <<>> /\ Top \in Frame /\ Top.pass = "record"
    BY <1>2, TopType DEF RecordTemplates, Running
  <2>2. \A t \in Recorded(Items(Top)) : <<t, Top.tag>> \in Instance
    BY <2>1 DEF Recorded, Instance, Frame
  <2>3. RestOK' /\ context' = context /\ line' = line
    BY <1>0, <1>2, <2>2 DEF RecordTemplates, errors
  <2>4. EndPass(Top, errorCount)
    BY <1>2 DEF RecordTemplates
  <2>5. stack' \in Seq(Frame) /\ FramesNest' /\ ContextCounts' /\ LineStarted'
    BY <2>1, <2>3, <2>4, EndPassNests
  <2>. QED  BY <1>0, <1>s, <2>3, <2>5
<1>3. CASE SetParents
  <2>1. stack # <<>> /\ Top \in Frame /\ Top.pass = "parents"
    BY <1>3, TopType DEF SetParents, Running
  <2>2. [Top EXCEPT !.parented = TRUE] \in Frame
    BY <2>1 DEF Frame
  <2>3. RestOK' /\ context' = context /\ line' = line
    BY <1>0, <1>3 DEF SetParents, errors, world
  <2>4. EndPass([Top EXCEPT !.parented = TRUE], errorCount)
    BY <1>3 DEF SetParents
  <2>5. stack' \in Seq(Frame) /\ FramesNest' /\ ContextCounts' /\ LineStarted'
    BY <2>1, <2>2, <2>3, <2>4, EndPassNests
  <2>. QED  BY <1>0, <1>s, <2>3, <2>5
<1>4. CASE PopulateSymbols
  <2>1. stack # <<>> /\ Top \in Frame /\ Top.pass = "populate"
    BY <1>4, TopType DEF PopulateSymbols, Running
  <2>. DEFINE items    == Items(Top)
              adding   == {i \in Defining(items) : IsFirst(i, items)}
              rejected == Cardinality(Defining(items) \ adding)
              NewSymbol(i) == IF items[i].op = "template" THEN <<items[i].templ, Top.tag>>
                                                          ELSE OtherSymbol
  <2>2. rejected \in Nat
    <3>1. IsFiniteSet(Defining(items))
      BY <2>1, DefiningFinite
    <3>2. IsFiniteSet(Defining(items) \ adding)
      BY <3>1, FS_Subset
    <3>. QED  BY <3>2, FS_CardinalityType
  <2>3. \A i \in adding : NewSymbol(i) \in Symbol
    <3>1. \A i \in adding : items[i].op = "template" => items[i].templ \in Template
      BY <2>1, DefiningFinite
    <3>2. Top.tag \in Nat
      BY <2>1 DEF Frame
    <3>. QED  BY <3>1, <3>2 DEF Symbol, Instance
  <2>4. symbols' \in [Name -> Symbol]
    <3>1. symbols' = [n \in Name |->
                       IF \E i \in adding : DefinedName(items[i]) = n
                       THEN NewSymbol(CHOOSE i \in adding : DefinedName(items[i]) = n)
                       ELSE symbols[n]]
      BY <1>4, Zenon DEF PopulateSymbols
    <3>2. ASSUME NEW n \in Name, \E i \in adding : DefinedName(items[i]) = n
          PROVE  NewSymbol(CHOOSE i \in adding : DefinedName(items[i]) = n) \in Symbol
      <4>. DEFINE c == CHOOSE i \in adding : DefinedName(items[i]) = n
      <4>1. c \in adding
        BY <3>2
      <4>. QED  BY <2>3, <4>1
    <3>3. \A n \in Name : symbols[n] \in Symbol
      BY <1>0
    <3>. HIDE DEF adding, NewSymbol
    <3>. QED  BY <3>1, <3>2, <3>3
  <2>5. errorCount' = errorCount + rejected /\ EndPass(Top, errorCount + rejected)
    BY <1>4, Zenon DEF PopulateSymbols, Report
  <2>6. firstError' \in ErrorKind
    <3>1. firstError' = "SymbolAlreadyDefinedInScope" \/ firstError' = firstError
      BY <1>4 DEF PopulateSymbols, Report
    <3>. QED  BY <1>0, <3>1 DEF ErrorKind
  <2>7. /\ program' = program /\ line' = line /\ verdicts' = verdicts /\ halted' = halted
        /\ expanding' = expanding /\ index' = index /\ globals' = globals
        /\ context' = context /\ nextTag' = nextTag
    BY <1>4 DEF PopulateSymbols, world
  <2>. HIDE DEF rejected
  <2>8. RestOK'
    BY <1>0, <2>2, <2>4, <2>5, <2>6, <2>7
  <2>9. stack' \in Seq(Frame) /\ FramesNest' /\ ContextCounts' /\ LineStarted'
    BY <2>1, <2>5, <2>7, EndPassNests
  <2>. QED  BY <1>0, <1>s, <2>7, <2>8, <2>9
<1>5. CASE SkipStatement
  <2>1. stack # <<>> /\ Top \in Frame /\ ~Top.visiting
    BY <1>5, TopType DEF SkipStatement, AtStatement, Running
  <2>. DEFINE f == [Top EXCEPT !.pos = @ + 1]
  <2>2. f \in Frame
    BY <2>1, NewTops
  <2>3. f.of = Top.of /\ f.visiting = Top.visiting /\ f.templ = Top.templ
    BY <2>1 DEF Frame
  <2>4. f.templ = Null
    BY <2>1, <2>3, TopType DEF TypeInv, FramesNest, Top
  <2>5. stack' = [stack EXCEPT ![Len(stack)] = f]
    BY <1>5 DEF SkipStatement, Top
  <2>6. RestOK' /\ context' = context /\ line' = line
    BY <1>0, <1>5 DEF SkipStatement, errors, world
  <2>. HIDE DEF f
  <2>7. stack' \in Seq(Frame)
    BY <2>1, <2>2, <2>5, ReplaceTop
  <2>8. FramesNest' /\ ContextCounts' /\ LineStarted'
    BY <2>1, <2>2, <2>3, <2>4, <2>5, <2>6, ReplaceNests
  <2>. QED  BY <1>0, <1>s, <2>6, <2>7, <2>8
<1>6. CASE VisitUnresolved
  <2>1. RestOK' /\ line' = line
    BY <1>0, <1>6 DEF VisitUnresolved, world, Report, ErrorKind
  <2>. QED  BY <1>s, <1>6, <2>1, EnterNests DEF VisitUnresolved
<1>7. CASE VisitCircular
  <2>1. RestOK' /\ line' = line
    BY <1>0, <1>7 DEF VisitCircular, world, Report, ErrorKind
  <2>. QED  BY <1>s, <1>7, <2>1, EnterNests DEF VisitCircular
<1>8. CASE VisitWrongArguments
  <2>1. RestOK' /\ line' = line
    BY <1>0, <1>8 DEF VisitWrongArguments, Report, ErrorKind
  <2>. QED  BY <1>s, <1>8, <2>1, EnterNests DEF VisitWrongArguments
<1>9. CASE VisitDuplicateParameter
  <2>1. RestOK' /\ line' = line
    BY <1>0, <1>9 DEF VisitDuplicateParameter, errors
  <2>. QED  BY <1>s, <1>9, <2>1, EnterNests DEF VisitDuplicateParameter
<1>10. CASE VisitExpand
  <2>1. AtExpansion /\ stack # <<>> /\ Top \in Frame /\ ~Top.visiting /\ Top.pass = "expand"
    BY <1>10, TopType DEF VisitExpand, AtExpansion, AtStatement, Running
  <2>2. Found \in Instance /\ Found[1] \in Template
    BY <1>10, <2>1, FoundType DEF VisitExpand
  <2>. DEFINE f == Visiting(Found)
              g == NewFrame(Found[1], nextTag)
  <2>3. f \in Frame /\ g \in Frame
    BY <2>1, <2>2, NewTops
  <2>4. f.of = Top.of /\ f.visiting /\ f.pass = "expand" /\ f.templ = Found
    BY <2>1 DEF Visiting, Frame
  <2>5. g.of = Found[1] /\ ~g.visiting /\ g.templ = Null
    BY DEF NewFrame
  <2>6. stack' = Append([stack EXCEPT ![Len(stack)] = f], g) /\ context' = context + 1
    BY <1>10 DEF VisitExpand
  <2>7. RestOK' /\ line' = line
    BY <1>0, <1>10, <2>2 DEF VisitExpand, errors
  <2>. HIDE DEF f, g
  <2>8. stack' \in Seq(Frame)
    BY <2>1, <2>3, <2>6, PushFrame
  <2>9. FramesNest' /\ ContextCounts' /\ LineStarted' /\ context' \in Nat
    BY <2>1, <2>2, <2>3, <2>4, <2>5, <2>6, <2>7, PushNests
  <2>. QED  BY <1>s, <2>7, <2>8, <2>9
<1>11. CASE Leave
  <2>1. stack # <<>> /\ Top \in Frame /\ Top.visiting
    BY <1>11, TopType DEF Leave, Running
  <2>. DEFINE f == [Top EXCEPT !.visiting = FALSE, !.templ = Null, !.pos = @ + 1]
  <2>2. f \in Frame
    BY <2>1, NewTops
  <2>3. f.of = Top.of /\ ~f.visiting /\ f.templ = Null
    BY <2>1 DEF Frame
  <2>4. stack' = [stack EXCEPT ![Len(stack)] = f] /\ context' = context - 1
    BY <1>11 DEF Leave, Top
  <2>5. RestOK' /\ line' = line
    BY <1>0, <1>11 DEF Leave, errors
  <2>. HIDE DEF f
  <2>6. stack' \in Seq(Frame)
    BY <2>1, <2>2, <2>4, ReplaceTop
  <2>7. FramesNest' /\ ContextCounts' /\ LineStarted' /\ context' \in Nat
    BY <2>1, <2>2, <2>3, <2>4, <2>5, ReplaceNests
  <2>. QED  BY <1>s, <2>5, <2>6, <2>7
<1>12. CASE EndExpand
  <2>1. RestOK' /\ line' = line /\ context' = context
    BY <1>0, <1>12 DEF EndExpand, errors, world
  <2>2. stack # <<>> /\ ~Top.visiting /\ Return
    BY <1>12 DEF EndExpand, Running
  <2>3. stack' \in Seq(Frame) /\ FramesNest' /\ ContextCounts' /\ LineStarted'
    BY <2>1, <2>2, PopTop, PopNests
  <2>. QED  BY <1>0, <1>s, <2>1, <2>3
<1>13. ASSUME stack' = stack, context' = context, line' = line, RestOK'
       PROVE  TypeInv'
  BY <1>0, <1>s, <1>13 DEF TypeInv, FramesNest, ContextCounts, LineStarted, Top
<1>14. CASE RejectLine \/ FailLater \/ AcceptLine
  <2>1. \E v \in Verdict : verdicts' = Append(verdicts, v)
    BY <1>14 DEF RejectLine, FailLater, AcceptLine, Judge, Verdict
  <2>2. verdicts' \in Seq(Verdict) /\ Len(verdicts') = Len(verdicts) + 1
    BY <1>0, <2>1
  <2>3. line = Len(verdicts) + 1
    BY <1>14 DEF RejectLine, FailLater, AcceptLine, PassesEnded
  <2>4. globals' \in [Name -> Symbol]
    BY <1>0, <1>14 DEF RejectLine, FailLater, AcceptLine, Exporting, world
  <2>5. /\ program' = program /\ line' = line /\ halted' = halted /\ stack' = stack
        /\ expanding' = expanding /\ index' = index /\ symbols' = symbols
        /\ errorCount' = errorCount /\ firstError' = firstError
        /\ context' = context /\ nextTag' = nextTag
    BY <1>14 DEF RejectLine, FailLater, AcceptLine, world, errors
  <2>6. line \in Nat /\ Len(verdicts') <= line
    BY <1>0, <2>2, <2>3
  <2>7. RestOK'
    BY <1>0, <2>2, <2>4, <2>5, <2>6
  <2>. QED  BY <1>13, <2>5, <2>7
<1>15. CASE CollideLine
  <2>1. globals' \in [Name -> Symbol]
    BY <1>0, <1>15 DEF CollideLine, Exporting
  <2>. QED  BY <1>0, <1>13, <1>15, <2>1 DEF CollideLine, errors
<1>16. CASE SessionOver \/ UNCHANGED vars
  BY <1>0, <1>13, <1>16 DEF SessionOver, vars, world, errors
<1>. QED
  BY <1>1, <1>2, <1>3, <1>4, <1>5, <1>6, <1>7, <1>8, <1>9, <1>10, <1>11, <1>12, <1>14,
     <1>15, <1>16 DEF Next, Passes, Expander, Driver

\* Every session: the variables keep their types.
THEOREM TypeCorrect == Spec => []TypeOK
<1>1. TypeInv => TypeOK
  BY DEF TypeInv
<1>. QED  BY <1>1, TypeInit, TypeNext, PTL DEF Spec

-----------------------------------------------------------------------------
(***************************************************************************)
(* expandingTemplates_ and the expansions under way.                       *)
(***************************************************************************)
Distinct ==
  \A i, j \in DOMAIN stack :
    i # j /\ stack[i].templ # Null => stack[i].templ # stack[j].templ

\* A step that changes no frame's template, or pushes or pops one without.
LEMMA OpenKept ==
  ASSUME TypeInv,
         \/ /\ DOMAIN stack' = DOMAIN stack
            /\ \A i \in DOMAIN stack : stack'[i].templ = stack[i].templ
         \/ /\ stack # <<>> /\ ~Top.visiting /\ Return
  PROVE  Open' = Open /\ (Distinct => Distinct')
<1>1. CASE /\ DOMAIN stack' = DOMAIN stack
           /\ \A i \in DOMAIN stack : stack'[i].templ = stack[i].templ
  BY <1>1 DEF Open, Distinct
<1>2. CASE stack # <<>> /\ ~Top.visiting /\ Return
  <2>1. /\ DOMAIN stack' = 1 .. Len(stack) - 1
        /\ \A i \in 1 .. Len(stack) - 1 : stack'[i] = stack[i]
    BY <1>2, PopTop
  <2>2. Len(stack) \in Nat \ {0} /\ DOMAIN stack = 1 .. Len(stack)
    BY <1>2, TopType DEF TypeInv, TypeOK
  <2>3. stack[Len(stack)].templ = Null
    BY <1>2, TopType DEF TypeInv, FramesNest, Top
  <2>4. \A i \in DOMAIN stack : i = Len(stack) \/ i \in DOMAIN stack'
    BY <2>1, <2>2, Positions, Zenon
  <2>5. \A i \in DOMAIN stack' : i \in DOMAIN stack
    BY <2>1, <2>2, Positions, Zenon
  <2>6. \A i \in DOMAIN stack' : stack'[i] = stack[i]
    BY <2>1
  <2>7. Open' = Open
    BY <2>3, <2>4, <2>5, <2>6 DEF Open
  <2>8. Distinct => Distinct'
    BY <2>5, <2>6 DEF Distinct
  <2>. QED  BY <2>7, <2>8
<1>. QED  BY <1>1, <1>2

\* A step that sets the template of the top frame, which had none, and may push
\* a frame that has none.
LEMMA OpenEntered ==
  ASSUME TypeInv, AtExpansion, NEW t \in Instance \union {Null},
         Enter(t) \/ \E g \in Frame :
                       /\ g.templ = Null
                       /\ stack' = Append([stack EXCEPT ![Len(stack)] = Visiting(t)], g)
  PROVE  /\ Open' = Open \union ({t} \ {Null})
         /\ Distinct /\ t \notin Open => Distinct'
<1>1. Top \in Frame /\ stack # <<>> /\ ~Top.visiting /\ Len(stack) \in DOMAIN stack
  BY TopType DEF AtExpansion, AtStatement, Running
<1>2. stack[Len(stack)].templ = Null
  BY <1>1 DEF TypeInv, FramesNest, Top
<1>3. Visiting(t) \in Frame /\ Visiting(t).templ = t
  BY <1>1, NewTops DEF Visiting, Frame
<1>4. /\ DOMAIN stack \subseteq DOMAIN stack'
      /\ \A i \in DOMAIN stack : stack'[i] = IF i = Len(stack) THEN Visiting(t) ELSE stack[i]
      /\ \A i \in DOMAIN stack' \ DOMAIN stack : stack'[i].templ = Null
  <2>1. CASE Enter(t)
    BY <1>1, <1>3, <2>1, ReplaceTop DEF Enter
  <2>2. ASSUME NEW g \in Frame, g.templ = Null,
               stack' = Append([stack EXCEPT ![Len(stack)] = Visiting(t)], g)
        PROVE  <1>4!:
    <3>1. /\ DOMAIN stack' = 1 .. Len(stack) + 1 /\ stack'[Len(stack) + 1] = g
          /\ \A i \in DOMAIN stack :
               stack'[i] = IF i = Len(stack) THEN Visiting(t) ELSE stack[i]
      BY <1>1, <1>3, <2>2, PushFrame
    <3>2. Len(stack) \in Nat \ {0} /\ DOMAIN stack = 1 .. Len(stack)
      BY <1>1, TopType DEF TypeInv, TypeOK
    <3>3. \A n \in Nat : 1 .. n \subseteq 1 .. n + 1
      OBVIOUS
    <3>4. DOMAIN stack \subseteq DOMAIN stack'
      BY <3>1, <3>2, <3>3
    <3>5. \A i \in DOMAIN stack' \ DOMAIN stack : i = Len(stack) + 1
      BY <3>1, <3>2, Positions, Zenon
    <3>6. \A i \in DOMAIN stack' \ DOMAIN stack : stack'[i].templ = Null
      BY <2>2, <3>1, <3>5
    <3>. QED  BY <3>1, <3>4, <3>6
  <2>. QED  BY <2>1, <2>2
<1>5. ASSUME NEW i \in DOMAIN stack'
      PROVE  \/ i \in DOMAIN stack /\ i # Len(stack) /\ stack'[i] = stack[i]
             \/ i = Len(stack) /\ stack'[i].templ = t
             \/ stack'[i].templ = Null
  <2>1. CASE i \in DOMAIN stack
    BY <1>3, <1>4, <2>1
  <2>2. CASE i \notin DOMAIN stack
    BY <1>4, <2>2
  <2>. QED  BY <2>1, <2>2
<1>6. ASSUME NEW i \in DOMAIN stack
      PROVE  \/ i \in DOMAIN stack' /\ stack'[i] = stack[i]
             \/ i = Len(stack) /\ stack[i].templ = Null
  <2>1. i \in DOMAIN stack'
    BY <1>4
  <2>2. CASE i = Len(stack)
    BY <1>2, <2>2
  <2>3. CASE i # Len(stack)
    BY <1>4, <2>1, <2>3
  <2>. QED  BY <2>2, <2>3
<1>7. stack'[Len(stack)].templ = t /\ Len(stack) \in DOMAIN stack'
  BY <1>1, <1>3, <1>4
<1>8. Open' = Open \union ({t} \ {Null})
  <2>1. \A v : v \in Open' => v \in Open \union ({t} \ {Null})
    BY <1>5 DEF Open
  <2>2. \A v : v \in Open => v \in Open'
    BY <1>6 DEF Open
  <2>3. t # Null => t \in Open'
    BY <1>7 DEF Open
  <2>. QED  BY <2>1, <2>2, <2>3
<1>9. ASSUME Distinct, t \notin Open, NEW i \in DOMAIN stack', NEW j \in DOMAIN stack',
             i # j, stack'[i].templ # Null
      PROVE  stack'[i].templ # stack'[j].templ
  <2>1. \A k \in DOMAIN stack : stack[k].templ # Null => stack[k].templ # t
    BY <1>9 DEF Open
  <2>. QED  BY <1>5, <1>9, <2>1 DEF Distinct
<1>10. Distinct /\ t \notin Open => Distinct'
  BY <1>9 DEF Distinct
<1>. QED  BY <1>8, <1>10

\* The end of a visit clears the template of the top frame.
LEMMA OpenLeft ==
  ASSUME TypeInv, Leave
  PROVE  /\ Open \ {Top.templ} \subseteq Open' /\ Open' \subseteq Open
         /\ Distinct => Distinct' /\ Top.templ \notin Open'
<1>1. Top \in Frame /\ stack # <<>> /\ Len(stack) \in DOMAIN stack /\ Top = stack[Len(stack)]
  BY TopType DEF Leave, Running, Top
<1>. DEFINE f == [Top EXCEPT !.visiting = FALSE, !.templ = Null, !.pos = @ + 1]
<1>2. f \in Frame /\ f.templ = Null
  BY <1>1, NewTops DEF Frame
<1>3. stack' = [stack EXCEPT ![Len(stack)] = f]
  BY DEF Leave
<1>. HIDE DEF f
<1>4. /\ DOMAIN stack' = DOMAIN stack
      /\ \A i \in DOMAIN stack : stack'[i] = IF i = Len(stack) THEN f ELSE stack[i]
  BY <1>1, <1>2, <1>3, ReplaceTop
<1>5. Open \ {Top.templ} \subseteq Open' /\ Open' \subseteq Open
  BY <1>1, <1>2, <1>4 DEF Open
<1>6. Distinct => Distinct'
  BY <1>2, <1>4 DEF Distinct
<1>7. Distinct => Top.templ \notin Open'
  <2>. SUFFICES ASSUME Distinct, NEW i \in DOMAIN stack, stack'[i].templ # Null,
                       stack'[i].templ = Top.templ
                PROVE  FALSE
    BY <1>4 DEF Open
  <2>1. i # Len(stack) /\ stack'[i] = stack[i]
    BY <1>2, <1>4
  <2>. QED  BY <1>1, <2>1 DEF Distinct
<1>. QED  BY <1>5, <1>6, <1>7

\* Every step keeps the expansions under way those on the stack.
LEMMA ExpandingNext ==
  TypeInv /\ ExpandingIsOpen /\ [Next]_vars => ExpandingIsOpen'
<1>. SUFFICES ASSUME TypeInv, ExpandingIsOpen, [Next]_vars PROVE ExpandingIsOpen'
  OBVIOUS
<1>0. /\ expanding \subseteq Open /\ expanding \subseteq Instance /\ errorCount \in Nat
      /\ errorCount = 0 => Open \subseteq expanding /\ Distinct
      /\ Null \notin Instance
  BY SentinelAssumption DEF TypeInv, TypeOK, ExpandingIsOpen, Distinct
<1>s. ASSUME expanding' \subseteq Open',
             errorCount' = 0 => Open' \subseteq expanding' /\ Distinct'
      PROVE  ExpandingIsOpen'
  BY <1>s DEF ExpandingIsOpen, Distinct
<1>kept. ASSUME Open' = Open, Distinct => Distinct', expanding' = expanding,
                errorCount' = 0 => errorCount = 0
         PROVE  ExpandingIsOpen'
  BY <1>0, <1>s, <1>kept
<1>same. ASSUME stack' = stack, expanding' = expanding, errorCount' = errorCount
         PROVE  ExpandingIsOpen'
  BY <1>kept, <1>same DEF Open, Distinct
<1>1. CASE BeginLine
  <2>1. stack = <<>> /\ expanding' = expanding
    BY <1>1 DEF BeginLine, world
  <2>2. Open = {}
    BY <2>1 DEF Open
  <2>3. DOMAIN stack' = {1} /\ stack'[1].templ = Null
    BY <1>1 DEF BeginLine, NewFrame
  <2>4. Open' = {} /\ Distinct'
    BY <2>3 DEF Open, Distinct
  <2>. QED  BY <1>0, <1>s, <2>1, <2>2, <2>4
<1>pass. ASSUME stack # <<>>, Top.pass \in {"record", "parents", "populate"},
                NEW f \in Frame, f = Top \/ f = [Top EXCEPT !.parented = TRUE], NEW n,
                EndPass(f, n)
         PROVE  Open' = Open /\ (Distinct => Distinct')
  <2>1. Top \in Frame /\ Top = stack[Len(stack)] /\ Len(stack) \in DOMAIN stack
    BY <1>pass, TopType DEF Top
  <2>2. ~Top.visiting
    BY <1>pass, <2>1 DEF TypeInv, FramesNest
  <2>3. CASE n > 0
    BY <1>pass, <2>2, <2>3, OpenKept DEF EndPass
  <2>4. CASE ~(n > 0)
    <3>. DEFINE g == [f EXCEPT !.pass = NextPass[f.pass]]
    <3>1. f.pass = Top.pass /\ f.templ = Top.templ
      BY <1>pass, <2>1 DEF Frame
    <3>2. NextPass[f.pass] \in Pass
      BY <1>pass, <3>1 DEF NextPass, Pass
    <3>3. g \in Frame /\ g.templ = Top.templ
      BY <1>pass, <3>1, <3>2 DEF Frame
    <3>4. stack' = [stack EXCEPT ![Len(stack)] = g]
      BY <1>pass, <2>4 DEF EndPass
    <3>. HIDE DEF g
    <3>5. /\ DOMAIN stack' = DOMAIN stack
          /\ \A i \in DOMAIN stack : stack'[i] = IF i = Len(stack) THEN g ELSE stack[i]
      BY <1>pass, <3>3, <3>4, ReplaceTop
    <3>6. \A i \in DOMAIN stack : stack'[i].templ = stack[i].templ
      BY <2>1, <3>3, <3>5
    <3>. QED  BY <3>5, <3>6, OpenKept
  <2>. QED  BY <2>3, <2>4
<1>2. CASE RecordTemplates
  <2>1. stack # <<>> /\ Top \in Frame /\ Top.pass = "record" /\ EndPass(Top, errorCount)
    BY <1>2, TopType DEF RecordTemplates, Running
  <2>. QED  BY <1>2, <1>kept, <1>pass, <2>1 DEF RecordTemplates, errors
<1>3. CASE SetParents
  <2>1. stack # <<>> /\ Top \in Frame /\ Top.pass = "parents"
    BY <1>3, TopType DEF SetParents, Running
  <2>2. [Top EXCEPT !.parented = TRUE] \in Frame
    BY <2>1 DEF Frame
  <2>3. EndPass([Top EXCEPT !.parented = TRUE], errorCount)
    BY <1>3 DEF SetParents
  <2>4. Open' = Open /\ (Distinct => Distinct')
    BY <1>pass, <2>1, <2>2, <2>3
  <2>. QED  BY <1>3, <1>kept, <2>4 DEF SetParents, errors, world
<1>4. CASE PopulateSymbols
  <2>. DEFINE items    == Items(Top)
              adding   == {i \in Defining(items) : IsFirst(i, items)}
              rejected == Cardinality(Defining(items) \ adding)
  <2>1. stack # <<>> /\ Top \in Frame /\ Top.pass = "populate"
    BY <1>4, TopType DEF PopulateSymbols, Running
  <2>2. /\ errorCount' = errorCount + rejected /\ EndPass(Top, errorCount + rejected)
        /\ expanding' = expanding
    BY <1>4, Zenon DEF PopulateSymbols, Report, world
  <2>3. rejected \in Nat
    <3>1. IsFiniteSet(Defining(items) \ adding)
      BY <2>1, DefiningFinite, FS_Subset
    <3>. QED  BY <3>1, FS_CardinalityType
  <2>. HIDE DEF rejected
  <2>4. Open' = Open /\ (Distinct => Distinct')
    BY <1>pass, <2>1, <2>2
  <2>5. errorCount' = 0 => errorCount = 0
    BY <1>0, <2>2, <2>3
  <2>. QED  BY <1>kept, <2>2, <2>4, <2>5
<1>5. CASE SkipStatement
  <2>1. Top \in Frame /\ stack # <<>> /\ Top = stack[Len(stack)]
    BY <1>5, TopType DEF SkipStatement, AtStatement, Running, Top
  <2>. DEFINE f == [Top EXCEPT !.pos = @ + 1]
  <2>2. f \in Frame /\ f.templ = Top.templ
    BY <2>1, NewTops DEF Frame
  <2>3. stack' = [stack EXCEPT ![Len(stack)] = f]
    BY <1>5 DEF SkipStatement, Top
  <2>. HIDE DEF f
  <2>4. /\ DOMAIN stack' = DOMAIN stack
        /\ \A i \in DOMAIN stack : stack'[i].templ = stack[i].templ
    BY <2>1, <2>2, <2>3, ReplaceTop
  <2>5. Open' = Open /\ (Distinct => Distinct')
    BY <2>4, OpenKept
  <2>. QED  BY <1>5, <1>kept, <2>5 DEF SkipStatement, errors, world
<1>6. CASE VisitUnresolved
  <2>1. Open' = Open
    BY <1>6, OpenEntered DEF VisitUnresolved
  <2>2. expanding' = expanding /\ errorCount' = errorCount + 1
    BY <1>6 DEF VisitUnresolved, world, Report
  <2>. QED  BY <1>0, <1>s, <2>1, <2>2
<1>7. CASE VisitCircular
  <2>1. Open \subseteq Open'
    BY <1>7, OpenEntered DEF VisitCircular
  <2>2. expanding' = expanding /\ errorCount' = errorCount + 1
    BY <1>7 DEF VisitCircular, world, Report
  <2>. QED  BY <1>0, <1>s, <2>1, <2>2
<1>8. CASE VisitWrongArguments
  <2>1. Found \in Instance /\ Open' = Open \union ({Found} \ {Null})
    BY <1>8, OpenEntered DEF VisitWrongArguments
  <2>2. expanding' = expanding \union {Found} /\ errorCount' = errorCount + 1
    BY <1>8 DEF VisitWrongArguments, Report
  <2>. QED  BY <1>0, <1>s, <2>1, <2>2
<1>enter. ASSUME Found \in Instance, Found \notin expanding,
                 expanding' = expanding \union {Found}, errorCount' = errorCount,
                 Open' = Open \union ({Found} \ {Null}),
                 Distinct /\ Found \notin Open => Distinct'
          PROVE  ExpandingIsOpen'
  BY <1>0, <1>s, <1>enter
<1>9. CASE VisitDuplicateParameter
  BY <1>9, <1>enter, OpenEntered DEF VisitDuplicateParameter, errors
<1>10. CASE VisitExpand
  <2>1. AtExpansion /\ Found \in Instance /\ Found[1] \in Template
    BY <1>10, FoundType DEF VisitExpand
  <2>2. NewFrame(Found[1], nextTag) \in Frame /\ NewFrame(Found[1], nextTag).templ = Null
    BY <2>1, NewTops DEF NewFrame, AtExpansion, AtStatement, Running
  <2>3. /\ Open' = Open \union ({Found} \ {Null})
        /\ Distinct /\ Found \notin Open => Distinct'
    BY <1>10, <2>1, <2>2, OpenEntered DEF VisitExpand
  <2>. QED  BY <1>10, <1>enter, <2>1, <2>3 DEF VisitExpand, errors
<1>11. CASE Leave
  BY <1>0, <1>11, <1>s, OpenLeft DEF Leave, errors
<1>12. CASE EndExpand
  <2>1. stack # <<>> /\ ~Top.visiting /\ Return
    BY <1>12 DEF EndExpand, Running
  <2>. QED  BY <1>12, <1>kept, <2>1, OpenKept DEF EndExpand, errors, world
<1>13. CASE RejectLine \/ FailLater \/ AcceptLine \/ CollideLine
  BY <1>13, <1>same DEF RejectLine, FailLater, AcceptLine, CollideLine, world, errors
<1>14. CASE SessionOver \/ UNCHANGED vars
  BY <1>14, <1>same DEF SessionOver, vars, world, errors
<1>. QED
  BY <1>1, <1>2, <1>3, <1>4, <1>5, <1>6, <1>7, <1>8, <1>9, <1>10, <1>11, <1>12, <1>13,
     <1>14 DEF Next, Passes, Expander, Driver

\* No expansion is under way at first.
LEMMA ExpandingInit == Init => ExpandingIsOpen
<1>. SUFFICES ASSUME Init PROVE ExpandingIsOpen
  OBVIOUS
<1>1. stack = <<>> /\ expanding = {}
  BY DEF Init
<1>2. DOMAIN stack = {}
  BY <1>1
<1>. QED  BY <1>1, <1>2 DEF ExpandingIsOpen, Open

\* Every session: what expandingTemplates_ holds is being expanded, so that an
\* expansion is refused as circular only inside itself, and nothing is left for
\* the next line.
THEOREM ExpandingCorrect == Spec => []ExpandingIsOpen
BY TypeInit, TypeNext, ExpandingInit, ExpandingNext, PTL DEF Spec

-----------------------------------------------------------------------------
\* An expansion that finds its template being expanded is inside that very
\* expansion, below the top of the stack.
LEMMA FoundBelow ==
  ASSUME TypeInv, ExpandingIsOpen, AtExpansion, Found \in expanding
  PROVE  \E i \in 1 .. Len(stack) - 1 : stack[i].templ = Found
<1>1. stack # <<>> /\ ~Top.visiting
  BY DEF AtExpansion, AtStatement, Running
<1>2. Len(stack) \in Nat \ {0} /\ DOMAIN stack = 1 .. Len(stack)
  BY <1>1, TopType DEF TypeInv, TypeOK
<1>3. stack[Len(stack)].templ = Null
  BY <1>1, <1>2, TopType DEF TypeInv, FramesNest, Top
<1>4. PICK i \in DOMAIN stack : stack[i].templ = Found /\ Found # Null
  BY DEF ExpandingIsOpen, Open
<1>5. i \in 1 .. Len(stack) - 1
  BY <1>2, <1>3, <1>4, Positions, Zenon
<1>. QED  BY <1>4, <1>5

\* Every session: the circular reference that a module reports first is one.
THEOREM CircularCorrect == Spec => CircularIsReal
<1>1. ASSUME TypeInv, ExpandingIsOpen, [Next]_vars,
             firstError = "NoError", firstError' = "CircularTemplateReference"
      PROVE  \E i \in 1 .. Len(stack) - 1 : stack[i].templ = Found
  <2>1. CASE VisitCircular
    BY <1>1, <2>1, FoundBelow DEF VisitCircular
  <2>2. CASE PopulateSymbols
    <3>1. firstError' = firstError \/ firstError' = "SymbolAlreadyDefinedInScope"
      BY <2>2 DEF PopulateSymbols, Report
    <3>. QED  BY <1>1, <3>1
  <2>3. CASE VisitUnresolved \/ VisitWrongArguments
    BY <1>1, <2>3 DEF VisitUnresolved, VisitWrongArguments, Report
  <2>4. CASE BeginLine
    BY <1>1, <2>4 DEF BeginLine
  <2>5. ASSUME UNCHANGED errors  PROVE FALSE
    BY <1>1, <2>5 DEF errors
  <2>6. CASE \/ RecordTemplates \/ SetParents \/ SkipStatement \/ VisitDuplicateParameter
             \/ VisitExpand \/ Leave \/ EndExpand
    BY <2>5, <2>6 DEF RecordTemplates, SetParents, SkipStatement, VisitDuplicateParameter,
                      VisitExpand, Leave, EndExpand
  <2>7. CASE RejectLine \/ FailLater \/ AcceptLine \/ CollideLine
    BY <2>5, <2>7 DEF RejectLine, FailLater, AcceptLine, CollideLine
  <2>8. CASE SessionOver \/ UNCHANGED vars
    BY <2>5, <2>8 DEF SessionOver, vars
  <2>. QED
    BY <1>1, <2>1, <2>2, <2>3, <2>4, <2>6, <2>7, <2>8 DEF Next, Passes, Expander, Driver
<1>. QED
  BY <1>1, TypeInit, TypeNext, ExpandingInit, ExpandingNext, PTL DEF Spec, CircularIsReal

\* Every session: the context messages of an error are those of the expansions
\* that lead to it.
THEOREM VisitsCorrect == Spec => []VisitsNest
<1>1. ASSUME TypeInv  PROVE VisitsNest
  <2>1. CASE stack = <<>>
    <3>1. {i \in DOMAIN stack : stack[i].visiting} = {} /\ Len(stack) = 0
      BY <2>1
    <3>2. context = 0
      BY <1>1, <2>1 DEF TypeInv, ContextCounts
    <3>. QED  BY <3>1, <3>2, FS_EmptySet DEF VisitsNest
  <2>2. CASE stack # <<>>
    <3>1. /\ Len(stack) \in Nat \ {0} /\ DOMAIN stack = 1 .. Len(stack)
          /\ Top = stack[Len(stack)]
      BY <1>1, <2>2, TopType DEF TypeInv, TypeOK, Top
    <3>2. \A i \in 1 .. Len(stack) - 1 : i \in DOMAIN stack
      BY <3>1, Positions, Zenon
    <3>3. \A i \in 1 .. Len(stack) - 1 :
            /\ stack[i].visiting /\ stack[i].pass = "expand"
            /\ stack[i].templ \in Instance /\ stack[i + 1].of = stack[i].templ[1]
      BY <1>1, <3>2 DEF TypeInv, FramesNest
    <3>4. \A i \in DOMAIN stack : i = Len(stack) \/ i \in 1 .. Len(stack) - 1
      BY <3>1, Positions, Zenon
    <3>5. {i \in DOMAIN stack : stack[i].visiting}
            = IF Top.visiting THEN 1 .. Len(stack) ELSE 1 .. Len(stack) - 1
      BY <3>1, <3>2, <3>3, <3>4
    <3>6. \A n \in Nat \ {0} : Cardinality(1 .. n) = n /\ Cardinality(1 .. n - 1) = n - 1
      BY FS_Interval
    <3>7. context = IF Top.visiting THEN Len(stack) ELSE Len(stack) - 1
      BY <1>1, <2>2 DEF TypeInv, ContextCounts
    <3>. QED  BY <3>1, <3>3, <3>5, <3>6, <3>7 DEF VisitsNest
  <2>. QED  BY <2>1, <2>2
<1>. QED  BY <1>1, TypeInit, TypeNext, PTL DEF Spec

-----------------------------------------------------------------------------
(***************************************************************************)
(* The index of templates.                                                 *)
(***************************************************************************)

\* What is recorded stays recorded as long as the line goes on.
LEMMA RecordedStays ==
  ASSUME NEW f, CopyRecorded(f), program' = program, line' = line, index \subseteq index'
  PROVE  CopyRecorded(f)'
BY DEF CopyRecorded, Items

\* The three things that a step does to the stack, again.
LEMMA CopiesStay ==
  ASSUME TypeInv, CopiesRecorded, program' = program, line' = line, index \subseteq index',
         \/ stack' = stack
         \/ stack # <<>> /\ Return
         \/ /\ stack # <<>>
            /\ \E f \in Frame : /\ stack' = [stack EXCEPT ![Len(stack)] = f]
                                /\ CopyRecorded(f)'
         \/ /\ stack # <<>>
            /\ \E f, g \in Frame : /\ stack' = Append([stack EXCEPT ![Len(stack)] = f], g)
                                   /\ CopyRecorded(f)' /\ g.pass = "record"
  PROVE  CopiesRecorded'
<1>1. \A f \in Elements(stack) : CopyRecorded(f)'
  <2>. SUFFICES ASSUME NEW f, CopyRecorded(f)  PROVE CopyRecorded(f)'
    BY DEF CopiesRecorded
  <2>. QED  BY RecordedStays
<1>s. ASSUME \A f \in Elements(stack)' : f \in Elements(stack) \/ CopyRecorded(f)'
      PROVE  CopiesRecorded'
  BY <1>1, <1>s DEF CopiesRecorded
<1>2. CASE stack' = stack
  BY <1>s, <1>2 DEF Elements
<1>3. CASE stack # <<>> /\ Return
  <2>1. /\ DOMAIN stack' = 1 .. Len(stack) - 1
        /\ \A i \in 1 .. Len(stack) - 1 : stack'[i] = stack[i]
    BY <1>3, PopTop
  <2>2. Len(stack) \in Nat \ {0} /\ DOMAIN stack = 1 .. Len(stack)
    BY <1>3, TopType DEF TypeInv, TypeOK
  <2>3. \A i \in DOMAIN stack' : i \in DOMAIN stack /\ stack'[i] = stack[i]
    BY <2>1, <2>2, Positions, Zenon
  <2>. QED  BY <1>s, <2>3 DEF Elements
<1>4. ASSUME stack # <<>>, NEW f \in Frame, stack' = [stack EXCEPT ![Len(stack)] = f],
             CopyRecorded(f)'
      PROVE  CopiesRecorded'
  <2>1. /\ DOMAIN stack' = DOMAIN stack
        /\ \A i \in DOMAIN stack : stack'[i] = IF i = Len(stack) THEN f ELSE stack[i]
    BY <1>4, ReplaceTop
  <2>2. Elements(stack)' \subseteq Elements(stack) \union {f}
    BY <2>1 DEF Elements
  <2>. QED  BY <1>s, <1>4, <2>2
<1>5. ASSUME stack # <<>>, NEW f \in Frame, NEW g \in Frame,
             stack' = Append([stack EXCEPT ![Len(stack)] = f], g),
             CopyRecorded(f)', g.pass = "record"
      PROVE  CopiesRecorded'
  <2>1. /\ DOMAIN stack' = 1 .. Len(stack) + 1 /\ stack'[Len(stack) + 1] = g
        /\ \A i \in DOMAIN stack : stack'[i] = IF i = Len(stack) THEN f ELSE stack[i]
    BY <1>5, PushFrame
  <2>2. Len(stack) \in Nat \ {0} /\ DOMAIN stack = 1 .. Len(stack)
    BY <1>5, TopType DEF TypeInv, TypeOK
  <2>3. CopyRecorded(g)'
    BY <1>5 DEF CopyRecorded
  <2>4. ASSUME NEW i \in DOMAIN stack'
        PROVE  stack'[i] \in Elements(stack) \union {f, g}
    <3>1. CASE i = Len(stack) + 1
      BY <2>1, <3>1
    <3>2. CASE i # Len(stack) + 1
      <4>1. i \in DOMAIN stack
        BY <2>1, <2>2, <3>2, Positions, Zenon
      <4>. QED  BY <2>1, <4>1 DEF Elements
    <3>. QED  BY <3>1, <3>2
  <2>5. Elements(stack)' \subseteq Elements(stack) \union {f, g}
    BY <2>4 DEF Elements
  <2>6. \A h \in {f, g} : CopyRecorded(h)'
    BY <1>5, <2>3
  <2>. QED  BY <1>s, <2>5, <2>6
<1>. QED  BY <1>2, <1>3, <1>4, <1>5

\* A name of either scope stands for no symbol, another one, or a recorded one.
ScopesRecorded ==
  \A n \in Name : {symbols[n], globals[n]} \ {Null, OtherSymbol} \subseteq index

\* Every step keeps the copies recorded.
LEMMA RecordedNext ==
  TypeInv /\ CopiesRecorded /\ ScopesRecorded /\ [Next]_vars
    => CopiesRecorded' /\ ScopesRecorded'
<1>. SUFFICES ASSUME TypeInv, CopiesRecorded, ScopesRecorded, [Next]_vars
              PROVE  CopiesRecorded' /\ ScopesRecorded'
  OBVIOUS
<1>scopes. ASSUME index \subseteq index', symbols' = symbols, globals' = globals
           PROVE  ScopesRecorded'
  BY <1>scopes DEF ScopesRecorded
<1>top. ASSUME stack # <<>>
        PROVE  Top \in Frame /\ CopyRecorded(Top)
  <2>1. Top \in Frame /\ Top \in Elements(stack)
    BY <1>top, TopType DEF Elements, Top
  <2>2. \A f \in Elements(stack) : CopyRecorded(f)
    BY DEF CopiesRecorded
  <2>. QED  BY <2>1, <2>2
<1>1. CASE BeginLine
  <2>1. DOMAIN stack' = {1} /\ stack'[1].pass = "record"
    BY <1>1 DEF BeginLine, NewFrame
  <2>2. CopiesRecorded'
    <3>1. \A f \in Elements(stack)' : f.pass = "record"
      BY <2>1 DEF Elements
    <3>. QED  BY <3>1 DEF CopiesRecorded, CopyRecorded
  <2>3. index' = index /\ globals' = globals /\ \A n \in Name : symbols'[n] = Null
    BY <1>1 DEF BeginLine, world
  <2>4. ScopesRecorded'
    BY <2>3 DEF ScopesRecorded
  <2>. QED  BY <2>2, <2>4
<1>2. CASE RecordTemplates
  <2>1. stack # <<>> /\ Top \in Frame /\ Top.pass = "record" /\ EndPass(Top, errorCount)
    BY <1>2, <1>top DEF RecordTemplates, Running
  <2>2. /\ index' = index \union {<<t, Top.tag>> : t \in Recorded(Items(Top))}
        /\ program' = program /\ line' = line /\ globals' = globals /\ symbols' = symbols
    BY <1>2 DEF RecordTemplates
  <2>3. PICK f \in Frame : f = [Top EXCEPT !.pass = "parents"]
    BY <2>1, NewTops DEF Pass
  <2>4. stack' = [stack EXCEPT ![Len(stack)] = f] \/ Return
    BY <2>1, <2>3 DEF EndPass, NextPass
  <2>5. CopyRecorded(f)'
    <3>1. f.tag = Top.tag /\ f.of = Top.of /\ f.pass = "parents"
      BY <2>1, <2>3 DEF Frame
    <3>2. Items(f)' = Items(Top)
      BY <2>2, <3>1 DEF Items
    <3>3. Items(Top) \in Seq(Item)
      BY <2>1, ItemsType
    <3>4. ASSUME NEW j \in DOMAIN Items(Top), Items(Top)[j].op = "template"
          PROVE  <<Items(Top)[j].templ, Top.tag>> \in index'
      <4>1. Items(Top)[j] \in Item
        BY <3>3
      <4>2. Items(Top)[j].templ \in Template /\ Items(Top)[j] = Define(Items(Top)[j].templ)
        BY <3>4, <4>1 DEF Item, Define
      <4>3. Items(Top)[j].templ \in Recorded(Items(Top))
        BY <4>2 DEF Recorded, TemplatesIn
      <4>. QED  BY <2>2, <4>3
    <3>. QED  BY <3>1, <3>2, <3>4 DEF CopyRecorded
  <2>6. index \subseteq index'
    BY <2>2
  <2>7. CopiesRecorded'
    BY <2>1, <2>2, <2>3, <2>4, <2>5, <2>6, CopiesStay
  <2>. QED  BY <1>scopes, <2>2, <2>6, <2>7
<1>3. CASE SetParents
  <2>1. stack # <<>> /\ Top \in Frame /\ Top.pass = "parents" /\ CopyRecorded(Top)
    BY <1>3, <1>top DEF SetParents, Running
  <2>2. PICK f \in Frame : f = [[Top EXCEPT !.parented = TRUE] EXCEPT !.pass = "populate"]
    BY <2>1, NewTops DEF Pass
  <2>3. f.tag = Top.tag /\ f.of = Top.of /\ f.parented
    BY <2>1, <2>2 DEF Frame
  <2>4. stack' = [stack EXCEPT ![Len(stack)] = f] \/ Return
    <3>1. [Top EXCEPT !.parented = TRUE].pass = "parents"
      BY <2>1 DEF Frame
    <3>2. EndPass([Top EXCEPT !.parented = TRUE], errorCount)
      BY <1>3 DEF SetParents
    <3>3. NextPass[[Top EXCEPT !.parented = TRUE].pass] = "populate"
      BY <3>1 DEF NextPass
    <3>. QED  BY <2>2, <3>2, <3>3, Zenon DEF EndPass
  <2>5. /\ program' = program /\ line' = line /\ index' = index /\ globals' = globals
        /\ symbols' = symbols
    BY <1>3 DEF SetParents, world
  <2>6. CopyRecorded(f)
    BY <2>1, <2>3 DEF CopyRecorded, Items
  <2>7. CopyRecorded(f)'
    BY <2>5, <2>6, RecordedStays
  <2>8. CopiesRecorded'
    BY <2>1, <2>2, <2>4, <2>5, <2>7, CopiesStay
  <2>. QED  BY <1>scopes, <2>5, <2>8
<1>4. CASE PopulateSymbols
  <2>. DEFINE items    == Items(Top)
              adding   == {i \in Defining(items) : IsFirst(i, items)}
              rejected == Cardinality(Defining(items) \ adding)
              NewSymbol(i) == IF items[i].op = "template" THEN <<items[i].templ, Top.tag>>
                                                          ELSE OtherSymbol
  <2>1. stack # <<>> /\ Top \in Frame /\ Top.pass = "populate" /\ CopyRecorded(Top)
    BY <1>4, <1>top DEF PopulateSymbols, Running
  <2>2. /\ program' = program /\ line' = line /\ index' = index /\ globals' = globals
        /\ EndPass(Top, errorCount + rejected)
        /\ symbols' = [n \in Name |->
                         IF \E i \in adding : DefinedName(items[i]) = n
                         THEN NewSymbol(CHOOSE i \in adding : DefinedName(items[i]) = n)
                         ELSE symbols[n]]
    BY <1>4, Zenon DEF PopulateSymbols, world
  <2>3. PICK f \in Frame : f = [Top EXCEPT !.pass = "expand"]
    BY <2>1, NewTops DEF Pass
  <2>4. stack' = [stack EXCEPT ![Len(stack)] = f] \/ Return
    BY <2>1, <2>2, <2>3 DEF EndPass, NextPass
  <2>5. CopyRecorded(f)
    <3>1. f.tag = Top.tag /\ f.of = Top.of /\ f.parented
      BY <2>1, <2>3 DEF Frame, CopyRecorded
    <3>. QED  BY <2>1, <3>1 DEF CopyRecorded, Items
  <2>6. CopyRecorded(f)'
    BY <2>2, <2>5, RecordedStays
  <2>7. CopiesRecorded'
    BY <2>1, <2>2, <2>3, <2>4, <2>6, CopiesStay
  <2>8. \A i \in adding : NewSymbol(i) \in index \union {OtherSymbol}
    BY <2>1 DEF CopyRecorded, Defining
  <2>9. ASSUME NEW n \in Name  PROVE symbols'[n] \in index \union {Null, OtherSymbol}
    <3>1. CASE \E i \in adding : DefinedName(items[i]) = n
      <4>. DEFINE c == CHOOSE i \in adding : DefinedName(items[i]) = n
      <4>1. c \in adding
        BY <3>1
      <4>2. NewSymbol(c) \in index \union {OtherSymbol}
        BY <2>8, <4>1
      <4>. HIDE DEF adding, NewSymbol
      <4>. QED  BY <2>2, <3>1, <4>2
    <3>2. CASE ~\E i \in adding : DefinedName(items[i]) = n
      <4>1. symbols[n] \in index \union {Null, OtherSymbol}
        BY DEF ScopesRecorded
      <4>. HIDE DEF adding, NewSymbol
      <4>. QED  BY <2>2, <3>2, <4>1
    <3>. QED  BY <3>1, <3>2
  <2>10. ScopesRecorded'
    BY <2>2, <2>9 DEF ScopesRecorded
  <2>. QED  BY <2>7, <2>10
<1>replaced. ASSUME stack # <<>>, NEW f \in Frame,
                    stack' = [stack EXCEPT ![Len(stack)] = f],
                    f.of = Top.of, f.tag = Top.tag, f.pass = Top.pass,
                    f.parented = Top.parented,
                    program' = program, line' = line, index' = index,
                    globals' = globals, symbols' = symbols
             PROVE  CopiesRecorded' /\ ScopesRecorded'
  <2>1. CopyRecorded(f)
    BY <1>replaced, <1>top DEF CopyRecorded, Items
  <2>2. CopyRecorded(f)'
    BY <1>replaced, <2>1, RecordedStays
  <2>3. CopiesRecorded'
    BY <1>replaced, <2>2, CopiesStay
  <2>. QED  BY <1>replaced, <1>scopes, <2>3
<1>enter. ASSUME AtExpansion, NEW t \in Instance \union {Null}, Enter(t),
                 program' = program, line' = line, index' = index,
                 globals' = globals, symbols' = symbols
          PROVE  CopiesRecorded' /\ ScopesRecorded'
  <2>1. stack # <<>> /\ Top \in Frame
    BY <1>enter, <1>top DEF AtExpansion, AtStatement, Running
  <2>2. Visiting(t) \in Frame
    BY <2>1, NewTops
  <2>3. /\ Visiting(t).of = Top.of /\ Visiting(t).tag = Top.tag
        /\ Visiting(t).pass = Top.pass /\ Visiting(t).parented = Top.parented
    BY <2>1 DEF Visiting, Frame
  <2>. QED  BY <1>enter, <1>replaced, <2>1, <2>2, <2>3 DEF Enter
<1>5. CASE SkipStatement
  <2>. DEFINE f == [Top EXCEPT !.pos = @ + 1]
  <2>1. stack # <<>> /\ Top \in Frame
    BY <1>5, <1>top DEF SkipStatement, AtStatement, Running
  <2>2. /\ f \in Frame /\ f.of = Top.of /\ f.tag = Top.tag
        /\ f.pass = Top.pass /\ f.parented = Top.parented
    BY <2>1, NewTops DEF Frame
  <2>3. stack' = [stack EXCEPT ![Len(stack)] = f]
    BY <1>5 DEF SkipStatement, Top
  <2>. QED  BY <1>5, <1>replaced, <2>1, <2>2, <2>3 DEF SkipStatement, world
<1>6. CASE VisitUnresolved
  BY <1>6, <1>enter DEF VisitUnresolved, world
<1>7. CASE VisitCircular
  BY <1>7, <1>enter DEF VisitCircular, world
<1>8. CASE VisitWrongArguments
  BY <1>8, <1>enter DEF VisitWrongArguments
<1>9. CASE VisitDuplicateParameter
  BY <1>9, <1>enter DEF VisitDuplicateParameter
<1>10. CASE VisitExpand
  <2>1. AtExpansion /\ Found \in Instance /\ Found[1] \in Template
    BY <1>10, FoundType DEF VisitExpand
  <2>2. stack # <<>> /\ Top \in Frame /\ CopyRecorded(Top)
    BY <2>1, <1>top DEF AtExpansion, AtStatement, Running
  <2>3. PICK f \in Frame : f = Visiting(Found)
    BY <2>1, <2>2, NewTops
  <2>g. PICK g \in Frame : g = NewFrame(Found[1], nextTag)
    BY <2>1, <2>2, NewTops
  <2>r. g.pass = "record"
    BY <2>g DEF NewFrame
  <2>4. f.of = Top.of /\ f.tag = Top.tag /\ f.pass = Top.pass /\ f.parented = Top.parented
    BY <2>2, <2>3 DEF Visiting, Frame
  <2>5. /\ stack' = Append([stack EXCEPT ![Len(stack)] = f], g)
        /\ program' = program /\ line' = line /\ index' = index /\ globals' = globals
        /\ symbols' = symbols
    BY <1>10, <2>3, <2>g DEF VisitExpand
  <2>6. CopyRecorded(f)
    BY <2>2, <2>4 DEF CopyRecorded, Items
  <2>7. CopyRecorded(f)'
    BY <2>5, <2>6, RecordedStays
  <2>8. CopiesRecorded'
    BY <2>2, <2>5, <2>7, <2>r, CopiesStay
  <2>. QED  BY <1>scopes, <2>5, <2>8
<1>11. CASE Leave
  <2>. DEFINE f == [Top EXCEPT !.visiting = FALSE, !.templ = Null, !.pos = @ + 1]
  <2>1. stack # <<>> /\ Top \in Frame
    BY <1>11, <1>top DEF Leave, Running
  <2>2. f \in Frame
    BY <2>1, NewTops
  <2>3. /\ f.of = Top.of /\ f.tag = Top.tag
        /\ f.pass = Top.pass /\ f.parented = Top.parented
    BY <2>1 DEF Frame
  <2>. QED  BY <1>11, <1>replaced, <2>1, <2>2, <2>3 DEF Leave
<1>12. CASE EndExpand
  <2>1. stack # <<>> /\ Return
    BY <1>12 DEF EndExpand, Running
  <2>. QED  BY <1>12, <1>scopes, <2>1, CopiesStay DEF EndExpand, world
<1>13. CASE RejectLine \/ FailLater \/ SessionOver \/ UNCHANGED vars
  BY <1>13, <1>scopes, CopiesStay DEF RejectLine, FailLater, SessionOver, vars, world
<1>14. CASE AcceptLine \/ CollideLine
  <2>1. /\ stack' = stack /\ program' = program /\ line' = line /\ index' = index
        /\ symbols' = symbols
    BY <1>14 DEF AcceptLine, CollideLine
  <2>2. \A n \in Name : globals'[n] \in {symbols[n], globals[n]}
    BY <1>14 DEF AcceptLine, CollideLine, Exporting
  <2>3. ScopesRecorded'
    BY <2>1, <2>2 DEF ScopesRecorded
  <2>. QED  BY <2>1, <2>3, CopiesStay
<1>. QED
  BY <1>1, <1>2, <1>3, <1>4, <1>5, <1>6, <1>7, <1>8, <1>9, <1>10, <1>11, <1>12, <1>13,
     <1>14 DEF Next, Passes, Expander, Driver

\* Every session: a template that an expansion can find is in the index, so
\* that the assertion of getTemplate holds, and the expander's own assertion
\* about the parents of scopes does.
THEOREM RecordedCorrect == Spec => []FoundIsRecorded
<1>1. ASSUME Init  PROVE CopiesRecorded /\ ScopesRecorded
  <2>1. Elements(stack) = {}
    BY <1>1 DEF Init, Elements
  <2>2. \A n \in Name : symbols[n] = Null /\ globals[n] = Null
    BY <1>1 DEF Init
  <2>. QED  BY <2>1, <2>2 DEF CopiesRecorded, ScopesRecorded
<1>2. CopiesRecorded /\ ScopesRecorded => FoundIsRecorded
  BY DEF CopiesRecorded, CopyRecorded, ScopesRecorded, FoundIsRecorded, Elements
<1>. QED  BY <1>1, <1>2, TypeInit, TypeNext, RecordedNext, PTL DEF Spec

-----------------------------------------------------------------------------
(***************************************************************************)
(* What a module in error still does.                                      *)
(***************************************************************************)

\* Once there is an error, the visitor at work is the recorder of the latest
\* copy, or the expander.
ErrorPasses == errorCount > 0 /\ stack # <<>> => Top.pass \in {"record", "expand"}

\* The frame that a return leads back to is expanding.
LEMMA ReturnsToExpander ==
  ASSUME TypeInv, stack # <<>>, Return
  PROVE  /\ Len(stack') = Len(stack) - 1 /\ Len(stack) \in Nat \ {0}
         /\ stack' # <<>> => Top'.pass = "expand"
<1>1. /\ stack' \in Seq(Frame) /\ Len(stack') = Len(stack) - 1
      /\ DOMAIN stack' = 1 .. Len(stack) - 1
      /\ \A i \in 1 .. Len(stack) - 1 : stack'[i] = stack[i]
  BY PopTop
<1>2. Len(stack) \in Nat \ {0} /\ DOMAIN stack = 1 .. Len(stack)
  BY TopType DEF TypeInv, TypeOK
<1>3. ASSUME stack' # <<>>  PROVE Top'.pass = "expand"
  <2>1. Len(stack') \in DOMAIN stack'
    BY <1>1, <1>3
  <2>2. Len(stack') \in 1 .. Len(stack) - 1
    BY <1>1, <2>1
  <2>3. Top' = stack[Len(stack')]
    BY <1>1, <2>2 DEF Top
  <2>4. Len(stack') \in DOMAIN stack
    BY <1>2, <2>2, Positions, Zenon
  <2>. QED  BY <2>2, <2>3, <2>4 DEF TypeInv, FramesNest
<1>. QED  BY <1>1, <1>2, <1>3

\* The expander's steps keep the stack's length and the pass of its top, but
\* for the start of a copy.
LEMMA ExpanderSteps ==
  ASSUME TypeInv, Expander, ~EndExpand
  PROVE  /\ stack # <<>> /\ Top.pass = "expand" /\ stack' # <<>> /\ symbols' = symbols
         /\ Len(stack) \in Nat \ {0}
         /\ \/ Len(stack') = Len(stack) /\ Top'.pass = "expand"
            \/ Len(stack') = Len(stack) + 1 /\ Top'.pass = "record"
<1>1. stack # <<>> /\ Top.pass = "expand" /\ symbols' = symbols
  BY DEF Expander, SkipStatement, VisitUnresolved, VisitCircular, VisitWrongArguments,
         VisitDuplicateParameter, VisitExpand, Leave, AtExpansion, AtStatement, Running
<1>2. Top \in Frame /\ Len(stack) \in Nat \ {0}
  BY <1>1, TopType
<1>3. ASSUME NEW f \in Frame, f.pass = "expand", stack' = [stack EXCEPT ![Len(stack)] = f]
      PROVE  stack' # <<>> /\ Len(stack') = Len(stack) /\ Top'.pass = "expand"
  BY <1>1, <1>3, ReplaceTop
<1>4. ASSUME NEW t \in Instance \union {Null}, Enter(t)
      PROVE  stack' # <<>> /\ Len(stack') = Len(stack) /\ Top'.pass = "expand"
  <2>1. PICK f \in Frame : f = Visiting(t)
    BY <1>1, <1>4, NewTops
  <2>2. f.pass = "expand"
    BY <1>1, <1>2, <2>1 DEF Visiting, Frame
  <2>. QED  BY <1>3, <1>4, <2>1, <2>2 DEF Enter
<1>5. CASE SkipStatement
  <2>1. PICK f \in Frame : f = [Top EXCEPT !.pos = @ + 1]
    BY <1>1, NewTops
  <2>2. f.pass = "expand"
    BY <1>1, <1>2, <2>1 DEF Frame
  <2>3. stack' = [stack EXCEPT ![Len(stack)] = f]
    BY <1>5, <2>1 DEF SkipStatement, Top
  <2>. QED  BY <1>1, <1>2, <1>3, <2>2, <2>3
<1>6. CASE VisitUnresolved \/ VisitCircular \/ VisitWrongArguments \/ VisitDuplicateParameter
  BY <1>1, <1>2, <1>4, <1>6
     DEF VisitUnresolved, VisitCircular, VisitWrongArguments, VisitDuplicateParameter
<1>7. CASE VisitExpand
  <2>1. Found \in Instance /\ Found[1] \in Template
    BY <1>7, FoundType DEF VisitExpand
  <2>2. PICK f \in Frame : f = Visiting(Found)
    BY <1>1, <2>1, NewTops
  <2>3. PICK g \in Frame : g = NewFrame(Found[1], nextTag)
    BY <1>1, <2>1, NewTops
  <2>4. g.pass = "record"
    BY <2>3 DEF NewFrame
  <2>5. stack' = Append([stack EXCEPT ![Len(stack)] = f], g)
    BY <1>7, <2>2, <2>3 DEF VisitExpand
  <2>. QED  BY <1>1, <1>2, <2>4, <2>5, PushFrame
<1>8. CASE Leave
  <2>1. PICK f \in Frame : f = [Top EXCEPT !.visiting = FALSE, !.templ = Null, !.pos = @ + 1]
    BY <1>1, NewTops
  <2>2. f.pass = "expand"
    BY <1>1, <1>2, <2>1 DEF Frame
  <2>3. stack' = [stack EXCEPT ![Len(stack)] = f]
    BY <1>8, <2>1 DEF Leave
  <2>. QED  BY <1>1, <1>2, <1>3, <2>2, <2>3
<1>. QED  BY <1>5, <1>6, <1>7, <1>8 DEF Expander

\* Every step keeps the passes behind an error from running.
LEMMA ErrorNext == TypeInv /\ ErrorPasses /\ [Next]_vars => ErrorPasses'
<1>. SUFFICES ASSUME TypeInv, ErrorPasses, [Next]_vars PROVE ErrorPasses'
  OBVIOUS
<1>1. CASE Expander /\ ~EndExpand
  BY <1>1, ExpanderSteps DEF ErrorPasses
<1>2. CASE EndExpand
  <2>1. stack # <<>> /\ Return
    BY <1>2 DEF EndExpand, Running
  <2>. QED  BY <2>1, ReturnsToExpander DEF ErrorPasses
<1>3. CASE RecordTemplates \/ SetParents
  <2>1. stack # <<>> /\ errorCount' = errorCount /\ errorCount \in Nat
    BY <1>3 DEF RecordTemplates, SetParents, Running, errors, TypeInv, TypeOK
  <2>2. errorCount > 0 => Return
    BY <1>3 DEF RecordTemplates, SetParents, EndPass
  <2>. QED  BY <2>1, <2>2, ReturnsToExpander DEF ErrorPasses
<1>4. CASE PopulateSymbols
  <2>1. PICK n : EndPass(Top, errorCount + n) /\ errorCount' = errorCount + n
    BY <1>4, Zenon DEF PopulateSymbols, Report
  <2>2. stack # <<>>
    BY <1>4 DEF PopulateSymbols, Running
  <2>3. errorCount' > 0 => Return
    BY <2>1 DEF EndPass
  <2>. QED  BY <2>2, <2>3, ReturnsToExpander DEF ErrorPasses
<1>5. CASE BeginLine
  <2>1. errorCount' = 0
    BY <1>5 DEF BeginLine
  <2>. QED  BY <2>1 DEF ErrorPasses
<1>6. CASE RejectLine \/ FailLater \/ AcceptLine \/ CollideLine
  <2>1. stack' = <<>>
    BY <1>6 DEF RejectLine, FailLater, AcceptLine, CollideLine, PassesEnded
  <2>. QED  BY <2>1 DEF ErrorPasses
<1>7. CASE SessionOver \/ UNCHANGED vars
  BY <1>7 DEF SessionOver, vars, errors, ErrorPasses, Top
<1>. QED  BY <1>1, <1>2, <1>3, <1>4, <1>5, <1>6, <1>7 DEF Next, Passes, Driver, Expander

\* Every session: a module in error adds no symbol any more, and the copies that
\* its remaining expansions make are recorded and nothing else.
THEOREM ErrorCorrect == Spec => ErrorStopsExpansion
<1>1. ASSUME TypeInv, ErrorPasses, [Next]_vars, errorCount > 0, line' = line
      PROVE  /\ symbols' = symbols
             /\ Len(stack') > Len(stack) => stack'[Len(stack')].pass = "record"
             /\ Len(stack') = Len(stack) /\ stack # <<>> /\ Top.pass # "expand" =>
                  stack'[Len(stack)].pass = Top.pass
  <2>. USE <1>1
  <2>returns. ASSUME stack # <<>>, Return
              PROVE  ~(Len(stack') > Len(stack)) /\ Len(stack') # Len(stack)
    <3>1. \A n \in Nat \ {0} : ~(n - 1 > n) /\ n - 1 # n
      OBVIOUS
    <3>. QED  BY <2>returns, <3>1, ReturnsToExpander, Zenon
  <2>same. ASSUME stack' = stack
           PROVE  /\ ~(Len(stack') > Len(stack))
                  /\ stack'[Len(stack)].pass = Top.pass
    <3>1. Len(stack) \in Nat
      BY DEF TypeInv, TypeOK
    <3>. QED  BY <2>same, <3>1 DEF Top
  <2>1. CASE Expander /\ ~EndExpand
    <3>1. \A n \in Nat \ {0} : ~(n > n)
      OBVIOUS
    <3>2. /\ stack # <<>> /\ Top.pass = "expand" /\ symbols' = symbols
          /\ Len(stack) \in Nat \ {0}
          /\ \/ Len(stack') = Len(stack) /\ Top'.pass = "expand"
             \/ Len(stack') = Len(stack) + 1 /\ Top'.pass = "record"
      BY <2>1, ExpanderSteps
    <3>. QED  BY <3>1, <3>2 DEF Top
  <2>2. CASE EndExpand
    BY <2>2, <2>returns DEF EndExpand, Running
  <2>3. CASE RecordTemplates \/ SetParents
    <3>1. stack # <<>> /\ Return /\ symbols' = symbols
      BY <2>3 DEF RecordTemplates, SetParents, Running, EndPass
    <3>. QED  BY <2>returns, <3>1
  <2>4. CASE PopulateSymbols
    BY <2>4 DEF PopulateSymbols, Running, ErrorPasses
  <2>5. CASE BeginLine
    <3>1. line' = line + 1 /\ line \in Int
      BY <2>5 DEF BeginLine, TypeInv, TypeOK
    <3>. QED  BY <3>1
  <2>6. CASE RejectLine \/ FailLater \/ AcceptLine \/ CollideLine
    <3>1. stack' = stack /\ symbols' = symbols
      BY <2>6 DEF RejectLine, FailLater, AcceptLine, CollideLine
    <3>. QED  BY <2>same, <3>1
  <2>7. CASE SessionOver \/ UNCHANGED vars
    <3>1. stack' = stack /\ symbols' = symbols
      BY <2>7 DEF SessionOver, vars
    <3>. QED  BY <2>same, <3>1
  <2>. QED  BY <2>1, <2>2, <2>3, <2>4, <2>5, <2>6, <2>7 DEF Next, Passes, Driver, Expander
<1>2. Init => ErrorPasses
  BY DEF Init, ErrorPasses
<1>. QED
  BY <1>1, <1>2, TypeInit, TypeNext, ErrorNext, PTL DEF Spec, ErrorStopsExpansion
=============================================================================
