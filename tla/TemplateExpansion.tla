------------------------- MODULE TemplateExpansion -------------------------
(***************************************************************************)
(* Expansion of named templates by the front end, one module (one line of  *)
(* the REPL) after another.                                                *)
(*                                                                         *)
(* runAllPasses runs four visitors over a module: record the templates,    *)
(* set the parents of the symbol tables, populate the symbol tables,       *)
(* expand the templates.  NamedTemplateExpanderPass, on meeting            *)
(* `expand T<...>`, deep-copies the body of T and runs a fresh set of the  *)
(* same four visitors over the copy before it goes on, so the activations  *)
(* of runPasses form a stack; `stack' is that stack, one frame per         *)
(* activation.  What outlives a module is the AnodeWorld: the global       *)
(* scope, the index of templates and the set of templates being expanded.  *)
(***************************************************************************)
EXTENDS Integers, Sequences, FiniteSets

CONSTANTS
  Name,         \* identifiers a program can use
  Template,     \* the template definitions written in a program
  Programs,     \* the programs the session may be given
  Null,         \* a null pointer: no symbol found, no template set
  OtherSymbol   \* a symbol which is not a TemplateSymbol

\* Statements of a module or of the body of a template.
Expand(n, k) == [op |-> "expand", name |-> n, args |-> k]
Define(t)    == [op |-> "template", templ |-> t]
Declare(n)   == [op |-> "declare", name |-> n]

Item == [op : {"expand"}, name : Name, args : Nat]
          \union [op : {"template"}, templ : Template]
          \union [op : {"declare"}, name : Name]

Program ==
  [templates : [Template -> [name : Name, params : Seq(Name), body : Seq(Item)]],
   lines     : Seq(Seq(Item))]

\* A copy of a template definition: every parse of a line and every deep copy
\* of a body makes new AST nodes, told apart by a fresh tag.
Instance == Template \X Nat
Symbol   == Instance \union {Null, OtherSymbol}

ASSUME ProgramsAssumption == Programs \subseteq Program
ASSUME SentinelAssumption ==
  /\ Null \notin Template \union Instance
  /\ OtherSymbol \notin Instance
  /\ Null # OtherSymbol

VARIABLES
  program,      \* what the user will enter, line by line; never changes
  line,         \* number of lines started
  verdicts,     \* how the front end judged each line that it is done with
  halted,       \* an ASSERT or a duplicate export threw: the session is over
  stack,        \* activations of runPasses, the module's first
  expanding,    \* AnodeWorld::expandingTemplates_
  index,        \* AnodeWorld::templateIndex_
  globals,      \* AnodeWorld::globalScope_
  symbols,      \* the module's scope
  errorCount, firstError, context,   \* the module's ErrorStream
  nextTag       \* the next unique id

world  == <<expanding, index, globals>>
errors == <<errorCount, firstError>>
vars   == <<program, line, verdicts, halted, stack, world, symbols, errors, context, nextTag>>

-----------------------------------------------------------------------------
Pass == {"record", "parents", "populate", "expand"}

ErrorKind == {"NoError", "SymbolNotDefined", "SymbolIsNotATemplate",
              "CircularTemplateReference", "IncorrectNumberOfTemplateArguments",
              "SymbolAlreadyDefinedInScope"}

Verdict == {"accepted", "rejected", "failed later"}

Frame == [of       : Template \union {Null},   \* the template copied; Null for a module
          tag      : Nat,                      \* the copy
          pass     : Pass,                     \* the visitor at work
          parented : BOOLEAN,                  \* have the symbol tables their parents?
          pos      : Nat \ {0},                \* the statement the expander is at
          visiting : BOOLEAN,                  \* visitingExpansion_
          templ    : Instance \union {Null}]   \* template_ of the expansion visited

NewFrame(t, c) ==
  [of |-> t, tag |-> c, pass |-> "record", parented |-> FALSE,
   pos |-> 1, visiting |-> FALSE, templ |-> Null]

Top == stack[Len(stack)]
Callers == SubSeq(stack, 1, Len(stack) - 1)

Items(f) == IF f.of = Null THEN program.lines[line] ELSE program.templates[f.of].body
Params(t) == program.templates[t].params
Elements(s) == {s[i] : i \in DOMAIN s}

\* The statements that put a symbol in the scope, and the name they define.
Defining(items) == {i \in DOMAIN items : items[i].op \in {"template", "declare"}}
DefinedName(item) ==
  IF item.op = "template" THEN program.templates[item.templ].name ELSE item.name

\* Templates written inside a list of statements, at any depth: the recorder
\* descends into the bodies that the other visitors skip.
TemplatesIn(items) ==
  {t \in Template : \E i \in DOMAIN items : items[i] = Define(t)}
Nested[n \in Nat] ==
  [t \in Template |->
     LET inner == TemplatesIn(program.templates[t].body)
     IN  IF n = 0 THEN {} ELSE inner \union UNION {Nested[n - 1][u] : u \in inner}]
Recorded(items) ==
  {t \in Template : \/ t \in TemplatesIn(items)
                     \/ \E u \in TemplatesIn(items) : t \in Nested[Cardinality(Template)][u]}

(***************************************************************************)
(* findQualifiedSymbol for a one-part name, from the scope the expansion   *)
(* stands in: the template parameters of every copy being expanded, then   *)
(* the module, then the global scope.  A parameter is a TypeSymbol.        *)
(***************************************************************************)
ParametersInScope ==
  UNION {Elements(Params(stack[i].of)) : i \in {j \in DOMAIN stack : stack[j].of # Null}}

Lookup(n) == IF n \in ParametersInScope THEN OtherSymbol
             ELSE IF symbols[n] # Null THEN symbols[n]
             ELSE globals[n]

-----------------------------------------------------------------------------
(***************************************************************************)
(* runPasses: the visitors run in order, and the first one after which the *)
(* error count is not zero is the last.                                    *)
(***************************************************************************)
NextPass == [record |-> "parents", parents |-> "populate", populate |-> "expand"]

Return == stack' = Callers

\* Mutant: a pass is followed by the next whatever it reported.
EndPassRegardless(f, count) ==
  IF f.pass = "expand" THEN Return
  ELSE stack' = [stack EXCEPT ![Len(stack)] = [f EXCEPT !.pass = NextPass[f.pass]]]

EndPass(f, count) ==
  IF count > 0 THEN Return
               ELSE stack' = [stack EXCEPT ![Len(stack)] = [f EXCEPT !.pass = NextPass[f.pass]]]

Report(kind, count) ==
  /\ errorCount' = errorCount + count
  /\ firstError' = IF errorCount = 0 /\ count > 0 THEN kind ELSE firstError

Running(pass) == ~halted /\ stack # <<>> /\ Top.pass = pass

-----------------------------------------------------------------------------
Init ==
  /\ program \in Programs
  /\ line = 0 /\ verdicts = <<>> /\ halted = FALSE
  /\ stack = <<>>
  /\ expanding = {} /\ index = {}
  /\ globals = [n \in Name |-> Null]
  /\ symbols = [n \in Name |-> Null]
  /\ errorCount = 0 /\ firstError = "NoError" /\ context = 0
  /\ nextTag = 1

\* A line is parsed, and prepareModule starts runAllPasses over the new module
\* with an ErrorStream of its own.
BeginLine ==
  /\ ~halted /\ stack = <<>> /\ Len(verdicts) = line /\ line < Len(program.lines)
  /\ line' = line + 1
  /\ stack' = <<NewFrame(Null, nextTag)>>
  /\ nextTag' = nextTag + 1
  /\ symbols' = [n \in Name |-> Null]
  /\ errorCount' = 0 /\ firstError' = "NoError" /\ context' = 0
  /\ UNCHANGED <<program, verdicts, halted, world>>

\* Mutant: only the module's own templates are recorded, not those of copies.
RecordModuleOnly ==
  /\ Running("record")
  /\ index' = IF Top.of = Null THEN index \union {<<t, Top.tag>> : t \in Recorded(Items(Top))}
                               ELSE index
  /\ EndPass(Top, errorCount)
  /\ UNCHANGED <<program, line, verdicts, halted, expanding, globals, symbols,
                 errors, context, nextTag>>

\* TemplateWorldRecorderPass: every template of the copy enters the index.
RecordTemplates ==
  /\ Running("record")
  /\ index' = index \union {<<t, Top.tag>> : t \in Recorded(Items(Top))}
  /\ EndPass(Top, errorCount)
  /\ UNCHANGED <<program, line, verdicts, halted, expanding, globals, symbols,
                 errors, context, nextTag>>

\* SetSymbolTableParentsPass.
SetParents ==
  /\ Running("parents")
  /\ EndPass([Top EXCEPT !.parented = TRUE], errorCount)
  /\ UNCHANGED <<program, line, verdicts, halted, world, symbols, errors, context, nextTag>>

\* PopulateSymbolTablesPass: each definition adds its symbol to the scope, or
\* is an error when the scope already has its name.  The scope is the module's
\* also for a copy, whose own table holds only the template parameters.
IsFirst(i, items) ==
  /\ symbols[DefinedName(items[i])] = Null
  /\ \A j \in Defining(items) : DefinedName(items[j]) = DefinedName(items[i]) => i <= j

PopulateSymbols ==
  LET items    == Items(Top)
      adding   == {i \in Defining(items) : IsFirst(i, items)}
      rejected == Cardinality(Defining(items) \ adding)
      NewSymbol(i) == IF items[i].op = "template" THEN <<items[i].templ, Top.tag>>
                                                  ELSE OtherSymbol
  IN  /\ Running("populate")
      /\ symbols' = [n \in Name |->
                       IF \E i \in adding : DefinedName(items[i]) = n
                       THEN NewSymbol(CHOOSE i \in adding : DefinedName(items[i]) = n)
                       ELSE symbols[n]]
      /\ Report("SymbolAlreadyDefinedInScope", rejected)
      /\ EndPass(Top, errorCount + rejected)
      /\ UNCHANGED <<program, line, verdicts, halted, world, context, nextTag>>

-----------------------------------------------------------------------------
(***************************************************************************)
(* NamedTemplateExpanderPass, the fourth visitor.  It goes on to the next  *)
(* statement whatever errors have been reported.                           *)
(***************************************************************************)
AtStatement == Running("expand") /\ ~Top.visiting /\ Top.pos <= Len(Items(Top))
Statement   == Items(Top)[Top.pos]
AtExpansion == AtStatement /\ Statement.op = "expand"
Found       == Lookup(Statement.name)

FoundParams == Params(Found[1])

\* Mutant: the visitor does not go on to the next statement.
SkipNothing ==
  /\ AtStatement /\ Statement.op # "expand"
  /\ UNCHANGED vars

SkipStatement ==
  /\ AtStatement /\ Statement.op # "expand"
  /\ stack' = [stack EXCEPT ![Len(stack)].pos = @ + 1]
  /\ UNCHANGED <<program, line, verdicts, halted, world, symbols, errors, context, nextTag>>

Visiting(t) == [Top EXCEPT !.visiting = TRUE, !.templ = t]
\* Mutant: the early returns of the visit come before the context message.
EnterWithoutContext(t) ==
  /\ stack' = [stack EXCEPT ![Len(stack)] = Visiting(t)]
  /\ UNCHANGED context

Enter(t) ==
  /\ stack' = [stack EXCEPT ![Len(stack)] = Visiting(t)]
  /\ context' = context + 1

VisitUnresolved ==
  /\ AtExpansion /\ Found \notin Instance
  /\ Enter(Null)
  /\ Report(IF Found = Null THEN "SymbolNotDefined" ELSE "SymbolIsNotATemplate", 1)
  /\ UNCHANGED <<program, line, verdicts, halted, world, symbols, nextTag>>

VisitCircular ==
  /\ AtExpansion /\ Found \in Instance /\ Found \in expanding
  /\ Enter(Found)
  /\ Report("CircularTemplateReference", 1)
  /\ UNCHANGED <<program, line, verdicts, halted, world, symbols, nextTag>>

VisitWrongArguments ==
  /\ AtExpansion /\ Found \in Instance /\ Found \notin expanding
  /\ Len(FoundParams) # Statement.args
  /\ Enter(Found)
  /\ expanding' = expanding \union {Found}
  /\ Report("IncorrectNumberOfTemplateArguments", 1)
  /\ UNCHANGED <<program, line, verdicts, halted, index, globals, symbols, nextTag>>

\* Two parameters of one name: SymbolTable::addSymbol asserts, and nothing
\* between here and main catches it.
Duplicate(params) == \E i, j \in DOMAIN params : i # j /\ params[i] = params[j]

VisitDuplicateParameter ==
  /\ AtExpansion /\ Found \in Instance /\ Found \notin expanding
  /\ Len(FoundParams) = Statement.args /\ Duplicate(FoundParams)
  /\ halted' = TRUE
  /\ Enter(Found)
  /\ expanding' = expanding \union {Found}
  /\ UNCHANGED <<program, line, verdicts, index, globals, symbols, errors, nextTag>>

\* The body is copied and the four visitors start over the copy.
VisitExpand ==
  /\ AtExpansion /\ Found \in Instance /\ Found \notin expanding
  /\ Len(FoundParams) = Statement.args /\ ~Duplicate(FoundParams)
  /\ expanding' = expanding \union {Found}
  /\ stack' = Append([stack EXCEPT ![Len(stack)] = Visiting(Found)],
                     NewFrame(Found[1], nextTag))
  /\ context' = context + 1
  /\ nextTag' = nextTag + 1
  /\ UNCHANGED <<program, line, verdicts, halted, index, globals, symbols, errors>>

\* Mutant: a visit that reported an error leaves its template in the set.
LeaveKeeping ==
  /\ Running("expand") /\ Top.visiting
  /\ expanding' = IF errorCount > 0 THEN expanding ELSE expanding \ {Top.templ}
  /\ context' = context - 1
  /\ stack' = [stack EXCEPT ![Len(stack)] =
                 [Top EXCEPT !.visiting = FALSE, !.templ = Null, !.pos = @ + 1]]
  /\ UNCHANGED <<program, line, verdicts, halted, index, globals, symbols, errors, nextTag>>

\* Mutant: every template stays in the set.
LeaveForgetting ==
  /\ Running("expand") /\ Top.visiting
  /\ context' = context - 1
  /\ stack' = [stack EXCEPT ![Len(stack)] =
                 [Top EXCEPT !.visiting = FALSE, !.templ = Null, !.pos = @ + 1]]
  /\ UNCHANGED <<program, line, verdicts, halted, world, symbols, errors, nextTag>>

\* visitedTemplateExpansionExprStmt, on every way out of the visit.
Leave ==
  /\ Running("expand") /\ Top.visiting
  /\ expanding' = expanding \ {Top.templ}
  /\ context' = context - 1
  /\ stack' = [stack EXCEPT ![Len(stack)] =
                 [Top EXCEPT !.visiting = FALSE, !.templ = Null, !.pos = @ + 1]]
  /\ UNCHANGED <<program, line, verdicts, halted, index, globals, symbols, errors, nextTag>>

EndExpand ==
  /\ Running("expand") /\ ~Top.visiting /\ Top.pos > Len(Items(Top))
  /\ Return
  /\ UNCHANGED <<program, line, verdicts, halted, world, symbols, errors, context, nextTag>>

-----------------------------------------------------------------------------
(***************************************************************************)
(* What becomes of the module.  The later passes may reject it too; when   *)
(* nothing does, emitModule copies its symbols to the global scope, where  *)
(* addSymbol asserts on a name that is already there.                      *)
(***************************************************************************)
PassesEnded == ~halted /\ stack = <<>> /\ line = Len(verdicts) + 1
Judge(v)    == verdicts' = Append(verdicts, v)
Exports     == {n \in Name : symbols[n] # Null}
Collisions  == {n \in Exports : globals[n] # Null}
Exporting(names) == [n \in Name |-> IF n \in names THEN symbols[n] ELSE globals[n]]

\* runAllPasses returns at once when the template passes reported an error.
RejectLine ==
  /\ PassesEnded /\ errorCount > 0
  /\ Judge("rejected")
  /\ UNCHANGED <<program, line, halted, stack, world, symbols, errors, context, nextTag>>

\* The expansion succeeded; a later pass reports an error.
FailLater ==
  /\ PassesEnded /\ errorCount = 0
  /\ Judge("failed later")
  /\ UNCHANGED <<program, line, halted, stack, world, symbols, errors, context, nextTag>>

AcceptLine ==
  /\ PassesEnded /\ errorCount = 0 /\ Collisions = {}
  /\ Judge("accepted")
  /\ globals' = Exporting(Exports)
  /\ UNCHANGED <<program, line, halted, stack, expanding, index, symbols, errors,
                 context, nextTag>>

\* The symbols before the colliding one have been exported by then.
CollideLine ==
  /\ PassesEnded /\ errorCount = 0 /\ Collisions # {}
  /\ halted' = TRUE
  /\ \E names \in SUBSET (Exports \ Collisions) : globals' = Exporting(names)
  /\ UNCHANGED <<program, line, verdicts, stack, expanding, index, symbols, errors,
                 context, nextTag>>

SessionOver ==
  /\ halted \/ (stack = <<>> /\ Len(verdicts) = line /\ line = Len(program.lines))
  /\ UNCHANGED vars

Passes == RecordTemplates \/ SetParents \/ PopulateSymbols
Expander ==
  \/ SkipStatement \/ VisitUnresolved \/ VisitCircular \/ VisitWrongArguments
  \/ VisitDuplicateParameter \/ VisitExpand \/ Leave \/ EndExpand
Driver == BeginLine \/ RejectLine \/ FailLater \/ AcceptLine \/ CollideLine \/ SessionOver

Next == Passes \/ Expander \/ Driver

Spec == Init /\ [][Next]_vars

\* One thread runs it all and never waits: a step that can be taken is taken.
FairSpec == Spec /\ WF_vars(Next)

-----------------------------------------------------------------------------
(***************************************************************************)
(* Properties.                                                             *)
(***************************************************************************)

\* The variables keep their types.
TypeOK ==
  /\ program \in Program
  /\ line \in 0 .. Len(program.lines) /\ verdicts \in Seq(Verdict) /\ Len(verdicts) <= line
  /\ halted \in BOOLEAN
  /\ stack \in Seq(Frame)
  /\ expanding \subseteq Instance /\ index \subseteq Instance
  /\ globals \in [Name -> Symbol] /\ symbols \in [Name -> Symbol]
  /\ errorCount \in Nat /\ firstError \in ErrorKind /\ context \in Nat
  /\ nextTag \in Nat

\* Templates whose expansion has begun and not ended.
Open == {stack[i].templ : i \in DOMAIN stack} \ {Null}

\* AnodeWorld::expandingTemplates_ only ever holds templates whose expansion is
\* under way, so that nothing is left in it when a module ends, in error or not
\* (a leftover would make a later line's expansion look circular); and as long
\* as no error has been reported it holds all of them, each of them once.
ExpandingIsOpen ==
  /\ expanding \subseteq Open
  /\ errorCount = 0 =>
       /\ Open \subseteq expanding
       /\ \A i, j \in DOMAIN stack :
            i # j /\ stack[i].templ # Null => stack[i].templ # stack[j].templ

\* Every frame but the topmost is inside the visit of the expansion that made
\* the frame above it, and ErrorStream's context messages are those of the
\* visits under way: the messages printed with an error name where it is.
VisitsNest ==
  /\ \A i \in 1 .. Len(stack) - 1 :
       /\ stack[i].visiting /\ stack[i].pass = "expand"
       /\ stack[i].templ \in Instance /\ stack[i + 1].of = stack[i].templ[1]
  /\ context = Cardinality({i \in DOMAIN stack : stack[i].visiting})

\* Every template symbol that an expansion can find is in the index, so that
\* the ASSERT of AnodeWorld::getTemplate holds; and the expander only reaches
\* scopes whose parents have been set, so that its own ASSERT holds.
FoundIsRecorded ==
  /\ \A n \in Name : {symbols[n], globals[n]} \ {Null, OtherSymbol} \subseteq index
  /\ \A i \in DOMAIN stack : stack[i].pass \in {"populate", "expand"} => stack[i].parented

\* The first error of a module is a circular reference only when the template
\* really is inside an expansion of itself.
CircularIsReal ==
  [][firstError = "NoError" /\ firstError' = "CircularTemplateReference" =>
       \E i \in 1 .. Len(stack) - 1 : stack[i].templ = Found]_vars

\* A module in error adds no symbol any more and expands nothing further: what
\* is still copied is recorded, and no other pass runs over it.
ErrorStopsExpansion ==
  [][errorCount > 0 /\ line' = line =>
       /\ symbols' = symbols
       /\ Len(stack') > Len(stack) => stack'[Len(stack')].pass = "record"
       /\ Len(stack') = Len(stack) /\ stack # <<>> /\ Top.pass # "expand" =>
            stack'[Len(stack)].pass = Top.pass]_vars

\* A line, whatever it expands, ends: circular templates are detected before
\* they exhaust anything, also those written inside other templates.
EveryLineEnds == <>(halted \/ Len(verdicts) = Len(program.lines))
=============================================================================
