----------------------------- MODULE ReplSession -----------------------------
(***************************************************************************)
(* The driver: a REPL session, a script or an AST dump, from the text that *)
(* was read to the code that has run.                                      *)
(*                                                                         *)
(* Each line of a session is a module of its own.  It is parsed, prepared  *)
(* by the passes, emitted as LLVM code, its symbols are copied to the      *)
(* global scope of the AnodeWorld, its code is added to the JIT, and its   *)
(* init function is looked up by name and called.  A failed ASSERT         *)
(* anywhere on the way, and a failed assert() of the program, is an        *)
(* exception that nothing catches.                                         *)
(***************************************************************************)
EXTENDS Integers, Sequences, FiniteSets

CONSTANTS
  Name,         \* identifiers
  Sessions,     \* what the user may do: a mode and the texts entered
  None          \* a null pointer

\* Statements of a line, as far as symbols and modules are concerned.
Variable(n)     == [op |-> "variable", name |-> n]            \* n:int = 1
Function(n)     == [op |-> "function", name |-> n]            \* func n:int() 1
Member(s, n)    == [op |-> "member", space |-> s, name |-> n] \* namespace s func n:int() 1
Use(n)          == [op |-> "use", name |-> n]                 \* n, or n()
UseMember(s, n) == [op |-> "use member", space |-> s, name |-> n]
FailAssert      == [op |-> "assert"]                          \* assert(false)
IllTyped        == [op |-> "ill typed"]

Meta(c)    == [op |-> "meta", command |-> c]
Code(s)    == [op |-> "code", parses |-> TRUE, items |-> s]
Unparsable == [op |-> "code", parses |-> FALSE, items |-> <<>>]

Mode == {"interactive", "script", "dump"}

Statement ==
  [op : {"variable", "function", "use"}, name : Name]
    \union [op : {"member", "use member"}, space : Name, name : Name]
    \union [op : {"assert", "ill typed"}]
Input == [op : {"meta"}, command : STRING]
           \union [op : {"code"}, parses : BOOLEAN, items : Seq(Statement)]

ASSUME NameAssumption == IsFiniteSet(Name)

\* A script and a dump read one file, and it is code.
ASSUME SessionsAssumption ==
  /\ Sessions \subseteq [mode : Mode, inputs : Seq(Input)]
  /\ \A s \in Sessions : s.mode # "interactive" =>
       Len(s.inputs) = 1 /\ s.inputs[1].op = "code"

VARIABLES
  session,      \* what will be entered; never changes
  entered,      \* number of texts read
  stage,        \* what the current line is at
  exitCode,     \* of the process
  shouldCompile, commandCount,
  scope,        \* the module's symbols: name -> symbol or None
  globals,      \* AnodeWorld::globalScope_
  exported,     \* number of symbols of the module copied to globals_
  jit,          \* modules added: [name, id], oldest first
  initOf,       \* id of the module whose init function runs
  next,         \* the statement it is at
  initialised   \* <<id, name>> of the variables whose initialiser has run

input == <<session, entered, shouldCompile, commandCount>>
world == <<globals, jit, initialised>>
vars  == <<input, stage, exitCode, scope, world, exported, initOf, next>>

\* home: the line that defined it, by its number; members of a namespace.
Symbol == [kind : {"variable", "function", "namespace"}, home : Nat, members : SUBSET Name]

Items == session.inputs[entered].items
Indices(kinds) == {i \in DOMAIN Items : Items[i].op \in kinds}

\* The name that a statement puts in the scope of the module.
Defined(i) == IF Items[i].op = "member" THEN Items[i].space ELSE Items[i].name
Definitions == Indices({"variable", "function", "member"})
DefinedNames == {Defined(i) : i \in Definitions}

\* The module is named after the count of commands; a script after its file.
ModuleName == commandCount

-----------------------------------------------------------------------------
Init ==
  /\ session \in Sessions
  /\ entered = 0 /\ stage = "prompt" /\ exitCode = None
  /\ shouldCompile = TRUE /\ commandCount = 0
  /\ scope = [n \in Name |-> None] /\ globals = [n \in Name |-> None] /\ exported = 0
  /\ jit = <<>> /\ initOf = 0 /\ next = 1 /\ initialised = {}

Exit(code) == stage' = "exited" /\ exitCode' = code
Crash      == Exit("uncaught exception")

\* What follows a line: the next prompt, or the end of the process.
LineEnds(failed) ==
  IF session.mode = "interactive" THEN stage' = "prompt" /\ UNCHANGED exitCode
                                  ELSE Exit(IF failed THEN "-1" ELSE "0")

Reading == stage = "prompt" /\ entered < Len(session.inputs) /\ entered' = entered + 1
Entered == session.inputs[entered']

ReadMeta ==
  /\ Reading /\ Entered.op = "meta"
  /\ shouldCompile' = (IF Entered.command = "compile" THEN ~shouldCompile ELSE shouldCompile)
  /\ IF Entered.command = "exit" THEN Exit("0") ELSE UNCHANGED <<stage, exitCode>>
  /\ UNCHANGED <<session, commandCount, scope, world, exported, initOf, next>>

\* Mutant: only a line that will be compiled is counted.
ReadCodeUncounted ==
  /\ Reading /\ Entered.op = "code"
  /\ commandCount' = IF commandCount = 0 THEN 1 ELSE commandCount
  /\ stage' = "parse"
  /\ UNCHANGED <<session, shouldCompile, exitCode, scope, world, exported, initOf, next>>

\* Mutant: the command is counted when it is read and when it is named.
ReadCodeTwice ==
  /\ Reading /\ Entered.op = "code"
  /\ commandCount' = commandCount + 2
  /\ stage' = "parse"
  /\ UNCHANGED <<session, shouldCompile, exitCode, scope, world, exported, initOf, next>>

ReadCode ==
  /\ Reading /\ Entered.op = "code"
  /\ commandCount' = commandCount + 1
  /\ stage' = "parse"
  /\ UNCHANGED <<session, shouldCompile, exitCode, scope, world, exported, initOf, next>>

\* linenoise returns NULL at the end of the input, which reads as an empty
\* line: the loop only ends by /exit.  The model stops there.
EndOfInput ==
  /\ stage = "prompt" /\ entered = Len(session.inputs)
  /\ UNCHANGED vars

\* Mutant: a line that does not parse is tried again.
ParseRetries ==
  /\ stage = "parse" /\ ~session.inputs[entered].parses
  /\ UNCHANGED vars

\* parseModule throws ParseAbortedException, which its callers catch.
ParseFails ==
  /\ stage = "parse" /\ ~session.inputs[entered].parses
  /\ LineEnds(TRUE)
  /\ UNCHANGED <<input, scope, world, exported, initOf, next>>

\* /compile: the line is parsed and forgotten.
ParseOnly ==
  /\ stage = "parse" /\ session.inputs[entered].parses /\ ~shouldCompile
  /\ LineEnds(FALSE)
  /\ UNCHANGED <<input, scope, world, exported, initOf, next>>

-----------------------------------------------------------------------------
(***************************************************************************)
(* prepareModule.  A definition clashes with those of its own module only; *)
(* a name is looked up in the module and then in the global scope.         *)
(***************************************************************************)
SymbolOf(n) ==
  LET spaces == {i \in Definitions : Items[i].op = "member" /\ Items[i].space = n}
      first  == CHOOSE i \in Definitions : Defined(i) = n
  IN  [kind    |-> IF Items[first].op = "member" THEN "namespace" ELSE Items[first].op,
       home    |-> entered,
       members |-> {Items[i].name : i \in spaces}]

Clash ==
  \E i, j \in Definitions :
    /\ i # j /\ Defined(i) = Defined(j)
    /\ Items[i].op = "member" /\ Items[j].op = "member" => Items[i].name = Items[j].name

ModuleScope == [n \in Name |-> IF n \in DefinedNames THEN SymbolOf(n) ELSE None]
Find(table, n) == IF table[n] # None THEN table[n] ELSE globals[n]

Resolves(item) ==
  CASE item.op = "use"        -> Find(ModuleScope, item.name) # None
    [] item.op = "use member" -> LET s == Find(ModuleScope, item.space)
                                 IN  s # None /\ s.kind = "namespace" /\ item.name \in s.members
    [] OTHER -> item.op # "ill typed"

Sound == ~Clash /\ \A i \in DOMAIN Items : Resolves(Items[i])

Preparing == stage = "parse" /\ session.inputs[entered].parses /\ shouldCompile

PrepareFails ==
  /\ Preparing /\ ~Sound
  /\ LineEnds(TRUE)
  /\ UNCHANGED <<input, scope, world, exported, initOf, next>>

Prepare ==
  /\ Preparing /\ Sound
  /\ IF session.mode = "dump" THEN LineEnds(FALSE) ELSE stage' = "emit" /\ UNCHANGED exitCode
  /\ scope' = ModuleScope
  /\ UNCHANGED <<input, world, exported, initOf, next>>

-----------------------------------------------------------------------------
(***************************************************************************)
(* emitModule.  Symbols are mapped to LLVM values by their ids: those that *)
(* this module defines, in namespaces too, and the variables and functions *)
(* that stand directly in the global scope.  A namespace is no value.      *)
(***************************************************************************)
Mapped(item) ==
  CASE item.op = "use"        -> Find(scope, item.name).kind # "namespace"
    [] item.op = "use member" -> Find(scope, item.space).home = entered
    [] OTHER -> TRUE

EmitFails ==
  /\ stage = "emit" /\ \E i \in DOMAIN Items : ~Mapped(Items[i])
  /\ Crash
  /\ UNCHANGED <<input, scope, world, exported, initOf, next>>

Emit ==
  /\ stage = "emit" /\ \A i \in DOMAIN Items : Mapped(Items[i])
  /\ stage' = "export" /\ exported' = 0
  /\ UNCHANGED <<input, exitCode, scope, world, initOf, next>>

\* The copies are made one by one, in the order in which the symbols were made:
\* the first pass to follow the scopes makes the namespaces.
Before(i, j) ==
  IF Items[i].op = "member" <=> Items[j].op = "member" THEN i <= j ELSE Items[i].op = "member"
ExportOrder ==
  LET firsts == {i \in Definitions : \A j \in Definitions : Defined(j) = Defined(i) => i <= j}
  IN  [k \in 1 .. Cardinality(firsts) |->
         Defined(CHOOSE i \in firsts : Cardinality({j \in firsts : Before(j, i)}) = k)]
Exporting == ExportOrder[exported + 1]

ExportCollides ==
  /\ stage = "export" /\ exported < Len(ExportOrder) /\ globals[Exporting] # None
  /\ Crash
  /\ UNCHANGED <<input, scope, world, exported, initOf, next>>

\* Mutant: a name that was exported before gets its new meaning.
ExportReplacing ==
  /\ stage = "export" /\ exported < Len(ExportOrder)
  /\ globals' = [globals EXCEPT ![Exporting] = scope[Exporting]]
  /\ exported' = exported + 1
  /\ UNCHANGED <<input, stage, exitCode, scope, jit, initialised, initOf, next>>

Export ==
  /\ stage = "export" /\ exported < Len(ExportOrder) /\ globals[Exporting] = None
  /\ globals' = [globals EXCEPT ![Exporting] = scope[Exporting]]
  /\ exported' = exported + 1
  /\ UNCHANGED <<input, stage, exitCode, scope, jit, initialised, initOf, next>>

-----------------------------------------------------------------------------
(***************************************************************************)
(* loadModule and executeModule.  The JIT finds the oldest definition of a *)
(* name.                                                                   *)
(***************************************************************************)
FindModule(modules, name) ==
  modules[CHOOSE i \in DOMAIN modules :
            modules[i].name = name /\ \A j \in 1 .. i - 1 : modules[j].name # name].id

Load ==
  /\ stage = "export" /\ exported = Len(ExportOrder)
  /\ jit' = Append(jit, [name |-> ModuleName, id |-> entered])
  /\ initOf' = FindModule(jit', ModuleName)
  /\ stage' = "run" /\ next' = 1
  /\ UNCHANGED <<input, exitCode, scope, globals, exported, initialised>>

Running(ops) == stage = "run" /\ next <= Len(Items) /\ Items[next].op \in ops

RunStatement ==
  /\ Running({"function", "member", "use", "use member"})
  /\ next' = next + 1
  /\ UNCHANGED <<input, stage, exitCode, scope, world, exported, initOf>>

RunInitialiser ==
  /\ Running({"variable"})
  /\ initialised' = initialised \union {<<initOf, Items[next].name>>}
  /\ next' = next + 1
  /\ UNCHANGED <<input, stage, exitCode, scope, globals, jit, exported, initOf>>

\* Mutant: a failed assertion ends the module and is forgotten.
RunAssertForgotten ==
  /\ Running({"assert"})
  /\ LineEnds(FALSE)
  /\ UNCHANGED <<input, scope, world, exported, initOf, next>>

\* assert_fail throws AnodeAssertionFailedException.
RunAssert ==
  /\ Running({"assert"})
  /\ Crash
  /\ UNCHANGED <<input, scope, world, exported, initOf, next>>

\* Mutant: the init function of the module is not called.
RunEndsEarly ==
  /\ stage = "run"
  /\ LineEnds(FALSE)
  /\ UNCHANGED <<input, scope, world, exported, initOf, next>>

RunEnds ==
  /\ stage = "run" /\ next > Len(Items)
  /\ LineEnds(FALSE)
  /\ UNCHANGED <<input, scope, world, exported, initOf, next>>

Exited == stage = "exited" /\ UNCHANGED vars

Read       == ReadMeta \/ ReadCode \/ EndOfInput \/ ParseFails \/ ParseOnly
CompileRun == PrepareFails \/ Prepare \/ EmitFails \/ Emit \/ ExportCollides \/ Export
              \/ Load \/ RunStatement \/ RunInitialiser \/ RunAssert \/ RunEnds

Next == Read \/ CompileRun \/ Exited

Spec == Init /\ [][Next]_vars

\* One thread; what can be done is done.
FairSpec == Spec /\ WF_vars(Next)

-----------------------------------------------------------------------------
(***************************************************************************)
(* Properties.                                                             *)
(***************************************************************************)
Loaded == {jit[i].id : i \in DOMAIN jit}

\* The variables keep their types.
TypeOK ==
  /\ entered \in 0 .. Len(session.inputs) /\ shouldCompile \in BOOLEAN /\ commandCount \in 0 .. entered
  /\ stage \in {"prompt", "parse", "emit", "export", "run", "exited"}
  /\ exitCode \in {None, "0", "-1", "uncaught exception"}
  /\ scope \in [Name -> Symbol \union {None}] /\ globals \in [Name -> Symbol \union {None}]
  /\ exported \in 0 .. Cardinality(Name) /\ initOf \in Nat /\ next \in Nat
  /\ initialised \subseteq Nat \X Name

\* The init function found by name is that of the module just loaded, and not
\* that of an earlier line of the same name.
RunsItself == stage = "run" => initOf = entered

\* At the prompt everything that a line can refer to comes from lines that
\* were loaded and ran to their end: its code can be linked and its variables
\* have had their initialisers run.  A line that was rejected, or only parsed,
\* has left nothing behind.
VisibleHasRun ==
  stage = "prompt" =>
    \A n \in Name : globals[n] # None =>
      /\ globals[n].home \in Loaded
      /\ globals[n].kind = "variable" => <<globals[n].home, n>> \in initialised

\* What prepareModule found for a name is what the emitted code refers to:
\* copying the symbols does not change what an earlier line's name means.
NamesKeepTheirMeaning ==
  [][\A n \in Name : globals[n] # None => globals'[n] = globals[n]]_vars

\* The status of a script tells whether it ran to its end.
StatusIsTrue ==
  stage = "exited" /\ session.mode = "script" =>
    (exitCode = "0" <=> initOf = entered /\ next = Len(Items) + 1)

\* README.md: if all passes succeed, the code is generated and the statement
\* is executed.  Generation does not fail for the symbols a line refers to.
SymbolsAreMapped == stage = "emit" => \A i \in DOMAIN Items : Mapped(Items[i])

\* Every line is dealt with, whatever is wrong with it.
EveryLineIsDealtWith == <>(stage = "exited" \/ (stage = "prompt" /\ entered = Len(session.inputs)))
=============================================================================
