-------------------------- MODULE ReplSessionProofs --------------------------
(***************************************************************************)
(* Proofs, for every set of sessions, that a line runs the code it was     *)
(* compiled to, that what later lines can name has run, that exporting     *)
(* never changes a name's meaning and that a script's status is true.      *)
(***************************************************************************)
EXTENDS ReplSession, SequenceLemmas, FiniteSetTheorems, SequenceTheorems, TLAPS

-----------------------------------------------------------------------------
(***************************************************************************)
(* The inductive invariant.                                                *)
(***************************************************************************)
InLine == stage \notin {"prompt", "exited"}

\* Between two prompts the driver works on a code line, which it has counted.
LineIsCode ==
  InLine => /\ entered \in DOMAIN session.inputs
            /\ session.inputs[entered].op = "code"
            /\ commandCount >= 1

ScopeIsModules == stage \in {"emit", "export", "run"} => scope = ModuleScope

Module == [name : Nat, id : Nat]

\* No module of the JIT has the name of a line that is yet to be loaded.
NamesAreCounted ==
  /\ jit \in Seq(Module)
  /\ \A i \in DOMAIN jit :
       /\ jit[i].name <= commandCount
       /\ stage \in {"parse", "emit", "export"} => jit[i].name < commandCount

\* The module that runs is loaded, and has initialised what it has passed.
RunsInOrder ==
  stage = "run" =>
    /\ entered \in Loaded
    /\ next \in 1 .. Len(Items) + 1
    /\ \A i \in DOMAIN Items :
         i < next /\ Items[i].op = "variable" => <<entered, Items[i].name>> \in initialised

HasRun(n) ==
  /\ globals[n].home \in Loaded
  /\ globals[n].kind = "variable" => <<globals[n].home, n>> \in initialised

\* A global symbol is from a line that has run, or is a copy of one of the
\* symbols of the module under way.
GlobalsHaveRun ==
  stage # "exited" =>
    \A n \in Name : globals[n] # None =>
      \/ HasRun(n)
      \/ stage \in {"export", "run"} /\ n \in DefinedNames /\ globals[n] = SymbolOf(n)

\* A script has one line, always compiles, and has run nothing before.
ScriptIsOneLine ==
  session.mode # "interactive" =>
    /\ shouldCompile
    /\ stage = "prompt" => entered = 0
    /\ stage \notin {"run", "exited"} => initOf = 0

ReplInv ==
  /\ session \in Sessions
  /\ TypeOK /\ LineIsCode /\ ScopeIsModules /\ NamesAreCounted
  /\ RunsInOrder /\ RunsItself /\ GlobalsHaveRun /\ ScriptIsOneLine /\ StatusIsTrue

-----------------------------------------------------------------------------
\* What is counted is a number.
LEMMA Counts ==
  ASSUME session \in Sessions, TypeOK
  PROVE  /\ session.mode \in Mode /\ session.inputs \in Seq(Input)
         /\ Len(session.inputs) \in Nat /\ DOMAIN session.inputs = 1 .. Len(session.inputs)
         /\ Cardinality(Name) \in Nat
         /\ entered \in Nat /\ commandCount \in Nat /\ commandCount <= entered
         /\ exported \in Nat /\ exported <= Cardinality(Name)
<1>1. session.mode \in Mode /\ session.inputs \in Seq(Input)
  BY SessionsAssumption
<1>2. Len(session.inputs) \in Nat /\ DOMAIN session.inputs = 1 .. Len(session.inputs)
  BY <1>1
<1>3. Cardinality(Name) \in Nat
  BY NameAssumption, FS_CardinalityType
<1>4. /\ entered \in 0 .. Len(session.inputs) /\ commandCount \in 0 .. entered
      /\ exported \in 0 .. Cardinality(Name)
  BY DEF TypeOK
<1>. QED  BY <1>1, <1>2, <1>3, <1>4

-----------------------------------------------------------------------------
(***************************************************************************)
(* The symbols of a module and the order of their export.                  *)
(***************************************************************************)

\* The statements of a code line are statements, and what they define is named.
LEMMA LineType ==
  ASSUME session \in Sessions, entered \in DOMAIN session.inputs,
         session.inputs[entered].op = "code"
  PROVE  /\ Items \in Seq(Statement) /\ Len(Items) \in Nat /\ DOMAIN Items = 1 .. Len(Items)
         /\ Definitions \subseteq DOMAIN Items /\ IsFiniteSet(Definitions)
         /\ \A i \in Definitions : Defined(i) \in Name /\ Items[i].name \in Name
         /\ DefinedNames \subseteq Name
<1>1. session.inputs \in Seq(Input)
  BY SessionsAssumption
<1>2. session.inputs[entered] \in Input
  BY <1>1
<1>3. Items \in Seq(Statement)
  BY <1>2 DEF Items, Input
<1>4. Len(Items) \in Nat /\ DOMAIN Items = 1 .. Len(Items)
  BY <1>3
<1>5. Definitions \subseteq DOMAIN Items
  BY DEF Definitions, Indices
<1>6. IsFiniteSet(Definitions)
  <2>1. \A m \in Nat : IsFiniteSet(1 .. m)
    BY FS_Interval
  <2>2. IsFiniteSet(DOMAIN Items)
    BY <1>4, <2>1
  <2>. QED  BY <2>2, <1>5, FS_Subset
<1>7. \A i \in Definitions : Defined(i) \in Name /\ Items[i].name \in Name
  <2>1. ASSUME NEW i \in Definitions
        PROVE  Defined(i) \in Name /\ Items[i].name \in Name
    <3>1. Items[i] \in Statement /\ Items[i].op \in {"variable", "function", "member"}
      BY <1>3, <1>5 DEF Definitions, Indices
    <3>. QED  BY <3>1 DEF Statement, Defined
  <2>. QED  BY <2>1
<1>. QED  BY <1>3, <1>4, <1>5, <1>6, <1>7 DEF DefinedNames

\* The symbol that a module has for a name it defines.
LEMMA SymbolType ==
  ASSUME session \in Sessions, entered \in DOMAIN session.inputs,
         session.inputs[entered].op = "code", entered \in Nat, NEW n \in DefinedNames
  PROVE  /\ SymbolOf(n) \in Symbol /\ SymbolOf(n).home = entered
         /\ SymbolOf(n).kind = "variable" =>
              \E i \in DOMAIN Items : Items[i].op = "variable" /\ Items[i].name = n
<1>. DEFINE first == CHOOSE i \in Definitions : Defined(i) = n
            spaces == {i \in Definitions : Items[i].op = "member" /\ Items[i].space = n}
            kind == IF Items[first].op = "member" THEN "namespace" ELSE Items[first].op
<1>1. first \in Definitions /\ Defined(first) = n
  BY DEF DefinedNames
<1>2. Items[first].op \in {"variable", "function", "member"}
  BY <1>1 DEF Definitions, Indices
<1>3. SymbolOf(n) = [kind |-> kind, home |-> entered, members |-> {Items[i].name : i \in spaces}]
  BY DEF SymbolOf
<1>4. {Items[i].name : i \in spaces} \subseteq Name
  BY LineType
<1>5. kind \in {"variable", "function", "namespace"}
  BY <1>2
<1>6. kind = "variable" => Items[first].op = "variable" /\ Items[first].name = n
  BY <1>1, <1>2 DEF Defined
<1>. HIDE DEF first, spaces, kind
<1>7. first \in DOMAIN Items
  BY <1>1, LineType
<1>. QED  BY <1>3, <1>4, <1>5, <1>6, <1>7 DEF Symbol

\* A name has one entry in the order of export: it is a numbering of the names
\* that the module defines, and there are not more of them than identifiers.
LEMMA OrderNumbersNames ==
  ASSUME session \in Sessions, entered \in DOMAIN session.inputs,
         session.inputs[entered].op = "code"
  PROVE  /\ Len(ExportOrder) \in 0 .. Cardinality(Name)
         /\ \A k \in 1 .. Len(ExportOrder) : ExportOrder[k] \in DefinedNames
<1>. DEFINE firsts == {i \in Definitions : \A j \in Definitions : Defined(j) = Defined(i) => i <= j}
            upTo(i) == {j \in firsts : Before(j, i)}
            rank == [i \in firsts |-> Cardinality(upTo(i))]
            N == Cardinality(firsts)
            at(k) == CHOOSE i \in firsts : Cardinality(upTo(i)) = k
<1>1. firsts \subseteq Definitions /\ firsts \subseteq Nat
  BY LineType
<1>2. IsFiniteSet(firsts) /\ N \in Nat
  BY <1>1, LineType, FS_Subset, FS_CardinalityType
<1>3. ASSUME NEW i \in firsts
      PROVE  /\ upTo(i) \subseteq firsts /\ i \in upTo(i)
             /\ IsFiniteSet(upTo(i)) /\ rank[i] \in 1 .. N
  <2>1. upTo(i) \subseteq firsts /\ i \in upTo(i)
    BY <1>1 DEF Before
  <2>2. IsFiniteSet(upTo(i)) /\ Cardinality(upTo(i)) <= N
    BY <2>1, <1>2, FS_Subset
  <2>3. Cardinality(upTo(i)) \in Nat /\ Cardinality(upTo(i)) # 0
    BY <2>1, <2>2, FS_CardinalityType, FS_EmptySet
  <2>. QED  BY <2>1, <2>2, <2>3, <1>2
<1>4. ASSUME NEW i \in firsts, NEW j \in firsts, rank[i] = rank[j], Before(i, j)
      PROVE  i = j
  <2>1. upTo(i) \subseteq upTo(j)
    BY <1>1, <1>4 DEF Before
  <2>2. upTo(i) = upTo(j)
    BY <2>1, <1>3, <1>4, FS_Subset
  <2>3. Before(j, i)
    BY <2>2, <1>3
  <2>. QED  BY <2>3, <1>1, <1>4 DEF Before
<1>5. \A i, j \in firsts : Before(i, j) \/ Before(j, i)
  BY <1>1 DEF Before
<1>6. rank \in Injection(firsts, 1 .. N)
  <2>1. rank \in [firsts -> 1 .. N]
    BY <1>3
  <2>2. \A i, j \in firsts : rank[i] = rank[j] => i = j
    BY <1>4, <1>5
  <2>. HIDE DEF rank, firsts, N
  <2>. QED  BY <2>1, <2>2 DEF Injection, IsInjective
<1>7. rank \in Surjection(firsts, 1 .. N)
  <2>1. IsFiniteSet(1 .. N) /\ Cardinality(1 .. N) = N
    BY <1>2, FS_Interval
  <2>. QED  BY <2>1, <1>6, FS_Injection
<1>8. ASSUME NEW k \in 1 .. N
      PROVE  at(k) \in firsts
  <2>1. PICK i \in firsts : rank[i] = k
    BY <1>7 DEF Surjection
  <2>2. Cardinality(upTo(i)) = k
    BY <2>1
  <2>. QED  BY <2>2
<1>9. ExportOrder = [k \in 1 .. N |-> Defined(at(k))]
  BY DEF ExportOrder
<1>10. \A k \in 1 .. N : Defined(at(k)) \in DefinedNames
  BY <1>1, <1>8 DEF DefinedNames
<1>11. ExportOrder \in Seq(DefinedNames) /\ Len(ExportOrder) = N
  <2>. HIDE DEF at, N
  <2>. QED  BY <1>2, <1>9, <1>10
<1>12. N <= Cardinality(Name)
  <2>. DEFINE name == [i \in firsts |-> Defined(i)]
  <2>1. name \in [firsts -> Name]
    BY <1>1, LineType
  <2>2. \A i, j \in firsts : name[i] = name[j] => i = j
    BY <1>1
  <2>. HIDE DEF name, firsts
  <2>3. name \in Injection(firsts, Name)
    BY <2>1, <2>2 DEF Injection, IsInjective
  <2>. QED  BY <2>3, NameAssumption, FS_Injection
<1>. QED  BY <1>2, <1>9, <1>10, <1>11, <1>12, NameAssumption, FS_CardinalityType

-----------------------------------------------------------------------------
(***************************************************************************)
(* What the steps have in common.                                          *)
(***************************************************************************)

\* What is said of the line under way depends on the session and the line only.
LEMMA LineStable ==
  ASSUME session' = session, entered' = entered
  PROVE  /\ Items' = Items /\ Definitions' = Definitions /\ DefinedNames' = DefinedNames
         /\ \A n \in Name : SymbolOf(n)' = SymbolOf(n)
         /\ ModuleScope' = ModuleScope
<1>1. Items' = Items
  BY DEF Items
<1>2. Definitions' = Definitions
  BY <1>1 DEF Definitions, Indices
<1>3. \A i : Defined(i)' = Defined(i)
  BY <1>1 DEF Defined
<1>4. DefinedNames' = DefinedNames
  BY <1>2, <1>3 DEF DefinedNames
<1>5. ASSUME NEW n \in Name
      PROVE  SymbolOf(n)' = SymbolOf(n)
  <2>. DEFINE first == CHOOSE i \in Definitions : Defined(i) = n
              spaces == {i \in Definitions : Items[i].op = "member" /\ Items[i].space = n}
              symbol(f, s, items) ==
                [kind    |-> IF items[f].op = "member" THEN "namespace" ELSE items[f].op,
                 home    |-> entered,
                 members |-> {items[i].name : i \in s}]
  <2>1. first' = first
    BY <1>2, <1>3
  <2>2. spaces' = spaces
    BY <1>1, <1>2
  <2>3. SymbolOf(n) = symbol(first, spaces, Items)
    BY DEF SymbolOf
  <2>4. SymbolOf(n)' = symbol(first', spaces', Items')
    BY DEF SymbolOf
  <2>. HIDE DEF first, spaces, symbol
  <2>. QED  BY <1>1, <2>1, <2>2, <2>3, <2>4
<1>6. ModuleScope' = ModuleScope
  BY <1>4, <1>5 DEF ModuleScope
<1>. QED  BY <1>1, <1>2, <1>4, <1>5, <1>6

\* A line ends at the next prompt of a session or with the process.
LEMMA LineEndsAt ==
  ASSUME TypeOK
  PROVE  \A failed \in BOOLEAN : LineEnds(failed) =>
           /\ stage' \in {"prompt", "exited"}
           /\ exitCode' \in {None, "0", "-1", "uncaught exception"}
           /\ stage' = "prompt" <=> session.mode = "interactive"
           /\ stage' = "exited" => exitCode' = IF failed THEN "-1" ELSE "0"
<1>. SUFFICES ASSUME NEW failed \in BOOLEAN, LineEnds(failed)
              PROVE  /\ stage' \in {"prompt", "exited"}
                     /\ exitCode' \in {None, "0", "-1", "uncaught exception"}
                     /\ stage' = "prompt" <=> session.mode = "interactive"
                     /\ stage' = "exited" => exitCode' = IF failed THEN "-1" ELSE "0"
  OBVIOUS
<1>1. CASE session.mode = "interactive"
  <2>1. stage' = "prompt" /\ exitCode' = exitCode
    BY <1>1 DEF LineEnds
  <2>2. exitCode \in {None, "0", "-1", "uncaught exception"}
    BY DEF TypeOK
  <2>. QED  BY <1>1, <2>1, <2>2
<1>2. CASE session.mode # "interactive"
  <2>1. stage' = "exited" /\ exitCode' = IF failed THEN "-1" ELSE "0"
    BY <1>2 DEF LineEnds, Exit
  <2>. QED  BY <1>2, <2>1
<1>. QED  BY <1>1, <1>2

\* The module scope holds symbols.
LEMMA ScopeType ==
  ASSUME session \in Sessions, entered \in DOMAIN session.inputs,
         session.inputs[entered].op = "code", entered \in Nat
  PROVE  ModuleScope \in [Name -> Symbol \union {None}]
  BY SymbolType DEF ModuleScope

\* The name exported next is one that the module defines.
LEMMA ExportingDefined ==
  ASSUME ReplInv, stage = "export", exported < Len(ExportOrder)
  PROVE  /\ Exporting \in DefinedNames /\ Exporting \in Name
         /\ exported + 1 \in 0 .. Cardinality(Name)
         /\ scope[Exporting] = SymbolOf(Exporting)
<1>1. /\ session \in Sessions /\ entered \in DOMAIN session.inputs
      /\ session.inputs[entered].op = "code" /\ exported \in Nat /\ scope = ModuleScope
  BY Counts DEF ReplInv, LineIsCode, InLine, ScopeIsModules
<1>2. Cardinality(Name) \in Nat
  BY NameAssumption, FS_CardinalityType
<1>3. exported + 1 \in 1 .. Len(ExportOrder) /\ exported + 1 \in 0 .. Cardinality(Name)
  BY <1>1, <1>2, OrderNumbersNames
<1>4. Exporting \in DefinedNames
  BY <1>1, <1>3, OrderNumbersNames DEF Exporting
<1>5. Exporting \in Name
  BY <1>1, <1>4, LineType
<1>. QED  BY <1>1, <1>3, <1>4, <1>5 DEF ModuleScope

NewTo(modules, m) == \A i \in DOMAIN modules : modules[i].name < m.name

\* A module whose name no earlier one has is found.
LEMMA OldestIsFound ==
  \A modules \in Seq(Module), m \in Module : NewTo(modules, m) =>
    /\ Append(modules, m) \in Seq(Module)
    /\ FindModule(Append(modules, m), m.name) = m.id
    /\ \A i \in DOMAIN Append(modules, m) : Append(modules, m)[i].name <= m.name
    /\ \A i \in DOMAIN modules : i \in DOMAIN Append(modules, m) /\ Append(modules, m)[i] = modules[i]
    /\ \E i \in DOMAIN Append(modules, m) : Append(modules, m)[i] = m
<1>. SUFFICES
       ASSUME NEW modules \in Seq(Module), NEW m \in Module, NewTo(modules, m)
       PROVE  LET all == Append(modules, m)
              IN  /\ all \in Seq(Module) /\ FindModule(all, m.name) = m.id
                  /\ \A i \in DOMAIN all : all[i].name <= m.name
                  /\ \A i \in DOMAIN modules : i \in DOMAIN all /\ all[i] = modules[i]
                  /\ \E i \in DOMAIN all : all[i] = m
  OBVIOUS
<1>. DEFINE n == Len(modules)
            all == Append(modules, m)
            oldest(i) == all[i].name = m.name /\ \A j \in 1 .. i - 1 : all[j].name # m.name
<1>1. /\ n \in Nat /\ DOMAIN modules = 1 .. n /\ m.name \in Nat
      /\ \A i \in 1 .. n : modules[i].name \in Nat
  <2>1. n \in Nat /\ DOMAIN modules = 1 .. n
    BY LenProperties
  <2>2. \A i \in 1 .. n : modules[i] \in Module
    BY ElementOfSeq
  <2>. QED  BY <2>1, <2>2 DEF Module
<1>2. /\ all \in Seq(Module) /\ DOMAIN all = 1 .. n + 1
      /\ all[n + 1] = m /\ \A i \in 1 .. n : all[i] = modules[i]
  BY AppendProperties
<1>3. \A i \in 1 .. n : all[i].name \in Nat /\ all[i].name < m.name
  BY <1>1, <1>2 DEF NewTo
<1>. HIDE DEF n, all
<1>4. n + 1 \in Nat \ {0} /\ (n + 1) - 1 = n
  BY <1>1
<1>5. \A i \in DOMAIN all : oldest(i) <=> i = n + 1
  <2>1. \A i \in 1 .. n : all[i].name # m.name
    <3>1. \A x, y \in Nat : x < y => x # y
      OBVIOUS
    <3>. QED  BY <1>1, <1>3, <3>1
  <2>2. \A i \in 1 .. n + 1 : i # n + 1 => i \in 1 .. n
    BY <1>4, Positions
  <2>. QED  BY <1>2, <1>4, <2>1, <2>2
<1>6. FindModule(all, m.name) = all[CHOOSE i \in DOMAIN all : oldest(i)].id
  BY DEF FindModule
<1>7. (CHOOSE i \in DOMAIN all : oldest(i)) = n + 1
  <2>. HIDE DEF oldest
  <2>. QED  BY <1>2, <1>4, <1>5, Positions
<1>8. FindModule(all, m.name) = m.id
  BY <1>2, <1>6, <1>7
<1>9. \A i \in DOMAIN all : all[i].name <= m.name
  BY <1>1, <1>2, <1>3
<1>10. n + 1 \in DOMAIN all /\ \A i \in 1 .. n : i \in DOMAIN all
  BY <1>1, <1>2, <1>4, Positions
<1>. QED  BY <1>1, <1>2, <1>8, <1>9, <1>10 DEF all

\* The module that was loaded is the oldest of its name: it is found, and its id
\* is that of the line.
LEMMA LoadFindsItself ==
  ASSUME ReplInv, Load
  PROVE  /\ initOf' = entered /\ jit' \in Seq(Module)
         /\ entered \in Loaded' /\ Loaded \subseteq Loaded'
         /\ \A i \in DOMAIN jit' : jit'[i].name <= commandCount
<1>. DEFINE m == [name |-> commandCount, id |-> entered]
<1>1. NamesAreCounted /\ stage = "export"
  BY DEF ReplInv, Load
<1>2. jit \in Seq(Module) /\ \A i \in DOMAIN jit : jit[i].name < commandCount
  BY <1>1 DEF NamesAreCounted
<1>3. m \in Module /\ m.name = commandCount /\ m.id = entered
  <2>1. commandCount \in Nat /\ entered \in Nat
    BY Counts DEF ReplInv
  <2>. QED  BY <2>1 DEF Module
<1>4. jit' = Append(jit, m) /\ initOf' = FindModule(jit', m.name)
  BY <1>3 DEF Load, ModuleName
<1>. HIDE DEF m
<1>5. NewTo(jit, m)
  BY <1>2, <1>3 DEF NewTo
<1>6. /\ jit' \in Seq(Module) /\ FindModule(jit', m.name) = m.id
      /\ \A i \in DOMAIN jit' : jit'[i].name <= m.name
      /\ \A i \in DOMAIN jit : i \in DOMAIN jit' /\ jit'[i] = jit[i]
      /\ \E i \in DOMAIN jit' : jit'[i] = m
  BY <1>2, <1>3, <1>4, <1>5, OldestIsFound
<1>. QED  BY <1>3, <1>4, <1>6 DEF Loaded

-----------------------------------------------------------------------------
(***************************************************************************)
(* The invariant is inductive: one lemma for each conjunct.                *)
(***************************************************************************)

\* In the initial states nothing was read, loaded or exported.
LEMMA ReplInit == Init => ReplInv
<1>. SUFFICES ASSUME Init PROVE ReplInv
  OBVIOUS
<1>1. /\ session \in Sessions /\ entered = 0 /\ stage = "prompt" /\ exitCode = None
      /\ shouldCompile = TRUE /\ commandCount = 0 /\ exported = 0 /\ jit = <<>>
      /\ initOf = 0 /\ next = 1 /\ initialised = {}
      /\ scope = [n \in Name |-> None] /\ globals = [n \in Name |-> None]
  BY DEF Init
<1>2. Len(session.inputs) \in Nat /\ Cardinality(Name) \in Nat
  BY <1>1, SessionsAssumption, NameAssumption, FS_CardinalityType
<1>3. TypeOK
  BY <1>1, <1>2 DEF TypeOK
<1>4. NamesAreCounted
  BY <1>1, EmptySeq DEF NamesAreCounted
<1>5. GlobalsHaveRun
  BY <1>1 DEF GlobalsHaveRun
<1>6. LineIsCode /\ ScopeIsModules /\ RunsInOrder /\ RunsItself /\ ScriptIsOneLine /\ StatusIsTrue
  BY <1>1 DEF LineIsCode, InLine, ScopeIsModules, RunsInOrder, RunsItself, ScriptIsOneLine, StatusIsTrue
<1>. QED  BY <1>1, <1>3, <1>4, <1>5, <1>6 DEF ReplInv

\* The facts about the line under way that the steps below need.
LEMMA LineFacts ==
  ASSUME ReplInv, InLine
  PROVE  /\ session \in Sessions /\ entered \in DOMAIN session.inputs
         /\ session.inputs[entered].op = "code" /\ entered \in Nat
  BY Counts DEF ReplInv, LineIsCode

\* The steps that leave the line where it is, or end it.
Within == ParseFails \/ ParseOnly \/ CompileRun

\* Such a step is one of a line, and leaves it for the next stage of the line.
LEMMA WithinLine ==
  ASSUME ReplInv, Within
  PROVE  /\ InLine /\ UNCHANGED input
         /\ stage' \in {"prompt", "emit", "export", "run", "exited"}
<1>1. UNCHANGED input
  BY DEF Within, ParseFails, ParseOnly, CompileRun, PrepareFails, Prepare, EmitFails, Emit,
         ExportCollides, Export, Load, RunStatement, RunInitialiser, RunAssert, RunEnds
<1>2. InLine
  BY DEF Within, InLine, ParseFails, ParseOnly, CompileRun, Preparing, PrepareFails, Prepare, EmitFails, Emit,
         ExportCollides, Export, Load, Running, RunStatement, RunInitialiser, RunAssert, RunEnds
<1>3. TypeOK
  BY DEF ReplInv
<1>4. ASSUME ParseFails \/ ParseOnly \/ PrepareFails \/ RunEnds
      PROVE  stage' \in {"prompt", "exited"}
  <2>1. LineEnds(TRUE) \/ LineEnds(FALSE)
    BY <1>4 DEF ParseFails, ParseOnly, PrepareFails, RunEnds
  <2>. QED  BY <1>3, <2>1, LineEndsAt
<1>5. ASSUME Prepare PROVE stage' \in {"prompt", "emit", "exited"}
  <2>1. LineEnds(FALSE) \/ stage' = "emit"
    BY <1>5 DEF Prepare
  <2>. QED  BY <1>3, <2>1, LineEndsAt
<1>6. ASSUME EmitFails \/ ExportCollides \/ RunAssert PROVE stage' = "exited"
  BY <1>6 DEF EmitFails, ExportCollides, RunAssert, Crash, Exit
<1>7. ASSUME Emit \/ Export \/ Load \/ RunStatement \/ RunInitialiser
      PROVE  stage' \in {"export", "run"}
  <2>1. stage' = "export" \/ stage' = "run"
    BY <1>7 DEF Emit, Export, Load, RunStatement, RunInitialiser, Running
  <2>. QED  BY <2>1
<1>. QED  BY <1>1, <1>2, <1>4, <1>5, <1>6, <1>7 DEF Within, CompileRun

\* Which step changes what.
LEMMA Changes ==
  ASSUME Within
  PROVE  /\ scope' = scope \/ Prepare
         /\ exported' = exported \/ Emit \/ Export
         /\ globals' = globals \/ Export
         /\ (jit' = jit /\ initOf' = initOf) \/ Load
         /\ next' = next \/ Load \/ RunStatement \/ RunInitialiser
         /\ initialised' = initialised \/ RunInitialiser
<1>1. CASE Prepare \/ Emit \/ Export \/ Load \/ RunStatement \/ RunInitialiser
  BY <1>1 DEF world, Prepare, Emit, Export, Load, RunStatement, RunInitialiser
<1>2. CASE ParseFails \/ ParseOnly \/ PrepareFails \/ EmitFails \/ ExportCollides \/ RunAssert \/ RunEnds
  BY <1>2 DEF world, ParseFails, ParseOnly, PrepareFails, EmitFails, ExportCollides, RunAssert, RunEnds
<1>. QED  BY <1>1, <1>2 DEF Within, CompileRun

\* Reading a text starts a line, ends the process or changes nothing else.
LEMMA Reads ==
  ASSUME ReplInv, ReadMeta \/ ReadCode
  PROVE  /\ UNCHANGED <<session, scope, world, exported, initOf, next>>
         /\ stage = "prompt" /\ entered < Len(session.inputs) /\ entered' = entered + 1
         /\ shouldCompile' \in BOOLEAN
         /\ \/ /\ ReadMeta /\ session.inputs[entered'].op = "meta"
               /\ commandCount' = commandCount /\ stage' \in {"prompt", "exited"}
               /\ exitCode' \in {exitCode, "0"}
            \/ /\ ReadCode /\ session.inputs[entered'].op = "code"
               /\ commandCount' = commandCount + 1 /\ stage' = "parse"
               /\ exitCode' = exitCode /\ shouldCompile' = shouldCompile
<1>1. shouldCompile \in BOOLEAN
  BY DEF ReplInv, TypeOK
<1>2. CASE ReadMeta
  <2>1. /\ UNCHANGED <<session, scope, world, exported, initOf, next>>
        /\ stage = "prompt" /\ entered < Len(session.inputs) /\ entered' = entered + 1
        /\ session.inputs[entered'].op = "meta" /\ commandCount' = commandCount
    BY <1>2 DEF ReadMeta, Reading, Entered
  <2>2. stage' \in {"prompt", "exited"} /\ exitCode' \in {exitCode, "0"}
    BY <1>2, <2>1 DEF ReadMeta, Exit
  <2>3. shouldCompile' \in BOOLEAN
    BY <1>1, <1>2 DEF ReadMeta
  <2>. QED  BY <1>2, <2>1, <2>2, <2>3
<1>3. CASE ReadCode
  BY <1>1, <1>3 DEF ReadCode, Reading, Entered
<1>. QED  BY <1>2, <1>3

\* The steps that change nothing.
Stays == EndOfInput \/ Exited \/ UNCHANGED vars

\* Every step reads a line, works on one, or changes nothing.
LEMMA StepKinds ==
  ASSUME [Next]_vars
  PROVE  ReadMeta \/ ReadCode \/ Within \/ Stays
  BY DEF Next, Read, Within, Stays

\* A step that changes nothing leaves every variable of the session alone.
LEMMA StaysStill ==
  ASSUME Stays
  PROVE  UNCHANGED <<session, entered, shouldCompile, commandCount, stage, exitCode, scope, globals, jit,
                     initialised, exported, initOf, next>>
  BY DEF Stays, EndOfInput, Exited, vars, input, world

-----------------------------------------------------------------------------
\* Every step keeps the types.
LEMMA TypeNext == ReplInv /\ [Next]_vars => TypeOK'
<1>. SUFFICES ASSUME ReplInv, [Next]_vars PROVE TypeOK'
  OBVIOUS
<1>. USE DEF world
<1>1. TypeOK
  BY DEF ReplInv
<1>2. CASE Stays
  BY <1>1, <1>2, StaysStill DEF TypeOK
<1>3. CASE ReadMeta \/ ReadCode
  <2>1. entered' \in 0 .. Len(session'.inputs) /\ commandCount' \in 0 .. entered'
    BY <1>1, <1>3, Reads, Counts DEF ReplInv
  <2>2. /\ stage' \in {"prompt", "parse", "emit", "export", "run", "exited"}
        /\ shouldCompile' \in BOOLEAN
    BY <1>3, Reads
  <2>3. exitCode' \in {None, "0", "-1", "uncaught exception"}
    <3>1. exitCode \in {None, "0", "-1", "uncaught exception"}
      BY <1>1 DEF TypeOK
    <3>. QED  BY <1>3, <3>1, Reads
  <2>4. UNCHANGED <<scope, world, exported, initOf, next>>
    BY <1>3, Reads
  <2>. QED  BY <1>1, <2>1, <2>2, <2>3, <2>4 DEF TypeOK
<1>4. CASE Within
  <2>1. UNCHANGED input /\ stage' \in {"prompt", "parse", "emit", "export", "run", "exited"}
    BY <1>4, WithinLine
  <2>2. exitCode' \in {None, "0", "-1", "uncaught exception"}
    <3>1. exitCode \in {None, "0", "-1", "uncaught exception"}
      BY <1>1 DEF TypeOK
    <3>2. CASE ParseFails \/ ParseOnly \/ PrepareFails \/ RunEnds
      <4>1. LineEnds(TRUE) \/ LineEnds(FALSE)
        BY <3>2 DEF ParseFails, ParseOnly, PrepareFails, RunEnds
      <4>. QED  BY <1>1, <4>1, LineEndsAt
    <3>3. CASE Prepare
      <4>1. LineEnds(FALSE) \/ exitCode' = exitCode
        BY <3>3 DEF Prepare
      <4>. QED  BY <1>1, <3>1, <4>1, LineEndsAt
    <3>4. CASE EmitFails \/ ExportCollides \/ RunAssert
      BY <3>4 DEF EmitFails, ExportCollides, RunAssert, Crash, Exit
    <3>5. CASE Emit \/ Export \/ Load \/ RunStatement \/ RunInitialiser
      BY <3>1, <3>5 DEF Emit, Export, Load, RunStatement, RunInitialiser
    <3>. QED  BY <1>4, <3>2, <3>3, <3>4, <3>5 DEF Within, CompileRun
  <2>3. scope' \in [Name -> Symbol \union {None}]
    <3>1. CASE Prepare
      BY <1>4, <3>1, WithinLine, LineFacts, ScopeType DEF Prepare
    <3>. QED  BY <1>1, <1>4, <3>1, Changes DEF TypeOK
  <2>4. globals' \in [Name -> Symbol \union {None}]
    <3>1. globals \in [Name -> Symbol \union {None}] /\ scope \in [Name -> Symbol \union {None}]
      BY <1>1 DEF TypeOK
    <3>2. CASE Export
      <4>1. Exporting \in Name /\ globals' = [globals EXCEPT ![Exporting] = scope[Exporting]]
        BY <3>2, ExportingDefined DEF Export
      <4>. QED  BY <3>1, <4>1
    <3>. QED  BY <1>4, <3>1, <3>2, Changes
  <2>5. exported' \in 0 .. Cardinality(Name)
    <3>1. CASE Emit
      BY <1>1, <3>1, Counts DEF Emit, ReplInv
    <3>2. CASE Export
      BY <3>2, ExportingDefined DEF Export
    <3>. QED  BY <1>1, <1>4, <3>1, <3>2, Changes DEF TypeOK
  <2>6. initOf' \in Nat
    <3>1. CASE Load
      BY <1>1, <3>1, LoadFindsItself, Counts DEF ReplInv
    <3>2. initOf \in Nat
      BY <1>1 DEF TypeOK
    <3>. QED  BY <1>4, <3>1, <3>2, Changes
  <2>7. next' \in Nat
    <3>1. next \in Nat
      BY <1>1 DEF TypeOK
    <3>2. Load \/ RunStatement \/ RunInitialiser => next' \in {1, next + 1}
      BY DEF Load, RunStatement, RunInitialiser
    <3>. QED  BY <1>4, <3>1, <3>2, Changes
  <2>8. initialised' \subseteq Nat \X Name
    <3>1. CASE RunInitialiser
      <4>1. /\ stage = "run" /\ next <= Len(Items) /\ Items[next].op = "variable"
            /\ initialised' = initialised \union {<<initOf, Items[next].name>>}
        BY <3>1 DEF RunInitialiser, Running
      <4>2. RunsInOrder /\ initOf \in Nat /\ initialised \subseteq Nat \X Name
        BY <1>1 DEF ReplInv, TypeOK
      <4>3. DOMAIN Items = 1 .. Len(Items) /\ Len(Items) \in Nat
        BY <1>4, WithinLine, LineFacts, LineType
      <4>4. next \in DOMAIN Items
        BY <4>1, <4>2, <4>3 DEF RunsInOrder
      <4>5. Items[next].name \in Name
        BY <1>4, <4>1, <4>4, WithinLine, LineFacts, LineType DEF Definitions, Indices
      <4>. QED  BY <4>1, <4>2, <4>5
    <3>2. initialised \subseteq Nat \X Name
      BY <1>1 DEF TypeOK
    <3>. QED  BY <1>4, <3>1, <3>2, Changes
  <2>. QED  BY <1>1, <2>1, <2>2, <2>3, <2>4, <2>5, <2>6, <2>7, <2>8 DEF TypeOK, input
<1>. QED  BY <1>2, <1>3, <1>4, StepKinds

\* Which steps lead to which stage.
LEMMA StageMoves ==
  ASSUME ReplInv, Within
  PROVE  /\ stage' = "emit" => Prepare
         /\ stage' = "export" => Emit \/ Export
         /\ stage' = "run" => Load \/ RunStatement \/ RunInitialiser
         /\ stage' = "prompt" => /\ session.mode = "interactive"
                                 /\ Prepare \/ ParseFails \/ ParseOnly \/ PrepareFails \/ RunEnds
<1>1. TypeOK
  BY DEF ReplInv
<1>2. CASE ParseFails \/ ParseOnly \/ PrepareFails \/ RunEnds
  <2>1. LineEnds(TRUE) \/ LineEnds(FALSE)
    BY <1>2 DEF ParseFails, ParseOnly, PrepareFails, RunEnds
  <2>2. stage' \in {"prompt", "exited"} /\ (stage' = "prompt" => session.mode = "interactive")
    BY <1>1, <2>1, LineEndsAt
  <2>. QED  BY <1>2, <2>2
<1>3. CASE Prepare
  <2>1. LineEnds(FALSE) \/ stage' = "emit"
    BY <1>3 DEF Prepare
  <2>2. stage' = "emit" \/ stage' = "exited" \/ (stage' = "prompt" /\ session.mode = "interactive")
    BY <1>1, <2>1, LineEndsAt
  <2>. QED  BY <1>3, <2>2
<1>4. CASE EmitFails \/ ExportCollides \/ RunAssert
  <2>1. stage' = "exited"
    BY <1>4 DEF EmitFails, ExportCollides, RunAssert, Crash, Exit
  <2>. QED  BY <2>1
<1>5. CASE Emit
  <2>1. stage' = "export"
    BY <1>5 DEF Emit
  <2>. QED  BY <1>5, <2>1
<1>6. CASE Export
  <2>1. stage' = "export"
    BY <1>6 DEF Export
  <2>. QED  BY <1>6, <2>1
<1>7. CASE Load \/ RunStatement \/ RunInitialiser
  <2>1. stage' = "run"
    BY <1>7 DEF Load, RunStatement, RunInitialiser, Running
  <2>. QED  BY <1>7, <2>1
<1>. QED  BY <1>2, <1>3, <1>4, <1>5, <1>6, <1>7 DEF Within, CompileRun

\* The line under way is code.
LEMMA LineNext == ReplInv /\ [Next]_vars => LineIsCode'
<1>. SUFFICES ASSUME ReplInv, [Next]_vars PROVE LineIsCode'
  OBVIOUS
<1>1. TypeOK /\ session \in Sessions /\ LineIsCode
  BY DEF ReplInv
<1>2. CASE Stays
  BY <1>1, <1>2, StaysStill DEF LineIsCode, InLine
<1>3. CASE ReadMeta \/ ReadCode
  <2>1. \/ stage' \in {"prompt", "exited"}
        \/ /\ session' = session /\ entered' \in DOMAIN session.inputs
           /\ session.inputs[entered'].op = "code" /\ commandCount' >= 1
    <3>1. entered \in Nat /\ commandCount \in Nat /\ DOMAIN session.inputs = 1 .. Len(session.inputs)
          /\ Len(session.inputs) \in Nat
      BY <1>1, Counts
    <3>2. session' = session /\ entered < Len(session.inputs) /\ entered' = entered + 1
      BY <1>3, Reads
    <3>3. entered' \in DOMAIN session.inputs
      BY <3>1, <3>2
    <3>4. \/ stage' \in {"prompt", "exited"}
          \/ session.inputs[entered'].op = "code" /\ commandCount' = commandCount + 1
      BY <1>3, Reads
    <3>. QED  BY <3>1, <3>2, <3>3, <3>4
  <2>. QED  BY <2>1 DEF LineIsCode, InLine
<1>4. CASE Within
  <2>1. UNCHANGED <<session, entered, commandCount>> /\ InLine
    BY <1>4, WithinLine DEF input
  <2>. QED  BY <1>1, <2>1 DEF LineIsCode
<1>. QED  BY <1>2, <1>3, <1>4, StepKinds

\* From emitModule on, the scope is that of the module.
LEMMA ScopeNext == ReplInv /\ [Next]_vars => ScopeIsModules'
<1>. SUFFICES ASSUME ReplInv, [Next]_vars, stage' \in {"emit", "export", "run"}
              PROVE  scope' = ModuleScope'
  BY DEF ScopeIsModules
<1>1. ScopeIsModules
  BY DEF ReplInv
<1>2. CASE Stays
  <2>1. UNCHANGED <<session, entered, stage, scope>>
    BY <1>2, StaysStill
  <2>. QED  BY <1>1, <2>1, LineStable DEF ScopeIsModules
<1>3. CASE ReadMeta \/ ReadCode
  BY <1>3, Reads
<1>4. CASE Within
  <2>1. ModuleScope' = ModuleScope
    BY <1>4, WithinLine, LineStable DEF input
  <2>2. CASE Prepare
    BY <2>1, <2>2 DEF Prepare
  <2>3. CASE ~Prepare
    <3>1. scope' = scope
      BY <1>4, <2>3, Changes
    <3>2. stage \in {"emit", "export", "run"}
      BY <1>4, <2>3, StageMoves DEF Emit, Export, Load, RunStatement, RunInitialiser, Running
    <3>. QED  BY <1>1, <2>1, <3>1, <3>2 DEF ScopeIsModules
  <2>. QED  BY <2>2, <2>3
<1>. QED  BY <1>2, <1>3, <1>4, StepKinds

\* The names in the JIT are older than that of the line to be loaded.
LEMMA NamesNext == ReplInv /\ [Next]_vars => NamesAreCounted'
<1>. SUFFICES ASSUME ReplInv, [Next]_vars PROVE NamesAreCounted'
  OBVIOUS
<1>1. NamesAreCounted /\ TypeOK /\ session \in Sessions
  BY DEF ReplInv
<1>2. /\ commandCount \in Nat /\ jit \in Seq(Module)
      /\ \A i \in DOMAIN jit : jit[i].name \in Nat /\ jit[i].name <= commandCount
  <2>1. commandCount \in Nat
    BY <1>1, Counts
  <2>2. jit \in Seq(Module) /\ \A i \in DOMAIN jit : jit[i].name <= commandCount
    BY <1>1 DEF NamesAreCounted
  <2>3. ASSUME NEW i \in DOMAIN jit
        PROVE  jit[i].name \in Nat
    <3>1. jit[i] \in Module
      BY <2>2
    <3>. QED  BY <3>1 DEF Module
  <2>. QED  BY <2>1, <2>2, <2>3
<1>3. CASE Stays
  BY <1>1, <1>3, StaysStill DEF NamesAreCounted
<1>4. CASE ReadMeta \/ ReadCode
  <2>1. /\ jit' = jit
        /\ commandCount' = commandCount + 1 \/ (commandCount' = commandCount /\ stage' \in {"prompt", "exited"})
    <3>1. UNCHANGED world
      BY <1>4, Reads
    <3>2. commandCount' = commandCount + 1 \/ (commandCount' = commandCount /\ stage' \in {"prompt", "exited"})
      BY <1>4, Reads
    <3>. QED  BY <3>1, <3>2 DEF world
  <2>2. ASSUME NEW i \in DOMAIN jit
        PROVE  jit[i].name <= commandCount /\ jit[i].name < commandCount + 1 /\ jit[i].name <= commandCount + 1
    <3>1. \A x, y \in Nat : x <= y => x < y + 1 /\ x <= y + 1
      OBVIOUS
    <3>. QED  BY <1>2, <3>1
  <2>. QED  BY <1>2, <2>1, <2>2 DEF NamesAreCounted
<1>5. CASE Load
  <2>1. stage' = "run" /\ commandCount' = commandCount
    BY <1>5 DEF Load, input
  <2>2. jit' \in Seq(Module) /\ \A i \in DOMAIN jit' : jit'[i].name <= commandCount
    BY <1>5, LoadFindsItself
  <2>. QED  BY <2>1, <2>2 DEF NamesAreCounted
<1>6. CASE Within /\ ~Load
  <2>1. jit' = jit /\ commandCount' = commandCount
    BY <1>6, WithinLine, Changes DEF input
  <2>2. stage' \in {"parse", "emit", "export"} => stage \in {"parse", "emit", "export"}
    BY <1>6, WithinLine, StageMoves DEF Prepare, Preparing, Emit, Export
  <2>. QED  BY <1>1, <2>1, <2>2 DEF NamesAreCounted
<1>. QED  BY <1>3, <1>4, <1>5, <1>6, StepKinds

\* Code stays loaded and variables stay initialised.
LEMMA HasRunStays ==
  ASSUME ReplInv, Within
  PROVE  /\ Loaded \subseteq Loaded' /\ initialised \subseteq initialised'
         /\ \A n \in Name : HasRun(n) /\ globals'[n] = globals[n] => HasRun(n)'
<1>1. Loaded \subseteq Loaded'
  <2>1. CASE Load
    BY <2>1, LoadFindsItself
  <2>2. CASE ~Load
    BY <2>2, Changes DEF Loaded
  <2>. QED  BY <2>1, <2>2
<1>2. initialised \subseteq initialised'
  <2>1. RunInitialiser => initialised \subseteq initialised'
    BY DEF RunInitialiser
  <2>. QED  BY <2>1, Changes
<1>. QED  BY <1>1, <1>2 DEF HasRun

\* The module that runs is the one under way.
LEMMA RunsNext == ReplInv /\ [Next]_vars => RunsInOrder' /\ RunsItself'
<1>. SUFFICES ASSUME ReplInv, [Next]_vars, stage' = "run"
              PROVE  /\ entered' \in Loaded' /\ next' \in 1 .. Len(Items') + 1
                     /\ \A i \in DOMAIN Items' :
                          i < next' /\ Items'[i].op = "variable" => <<entered', Items'[i].name>> \in initialised'
                     /\ initOf' = entered'
  BY DEF RunsInOrder, RunsItself
<1>1. RunsInOrder /\ RunsItself /\ TypeOK
  BY DEF ReplInv
<1>2. CASE Stays
  <2>1. UNCHANGED <<session, entered, stage, jit, initOf, next, initialised>>
    BY <1>2, StaysStill
  <2>. QED  BY <1>1, <2>1, LineStable DEF RunsInOrder, RunsItself, Loaded
<1>3. CASE ReadMeta \/ ReadCode
  BY <1>3, Reads
<1>4. CASE Within
  <2>1. UNCHANGED <<session, entered>> /\ Items' = Items
    BY <1>4, WithinLine, LineStable DEF input
  <2>2. Len(Items) \in Nat /\ DOMAIN Items = 1 .. Len(Items)
    BY <1>4, WithinLine, LineFacts, LineType
  <2>3. CASE Load
    <3>1. next' = 1 /\ initOf' = entered /\ entered \in Loaded'
      BY <2>3, LoadFindsItself DEF Load
    <3>2. \A i \in DOMAIN Items : ~(i < 1)
      BY <2>2
    <3>3. 1 \in 1 .. Len(Items) + 1
      BY <2>2
    <3>. QED  BY <2>1, <3>1, <3>2, <3>3
  <2>4. CASE RunStatement \/ RunInitialiser
    <3>1. /\ stage = "run" /\ next <= Len(Items) /\ next' = next + 1 /\ initOf' = initOf /\ jit' = jit
          /\ \/ Items[next].op # "variable" /\ initialised' = initialised
             \/ initialised' = initialised \union {<<initOf, Items[next].name>>}
      BY <2>4 DEF RunStatement, RunInitialiser, Running, world
    <3>2. /\ entered \in Loaded /\ next \in 1 .. Len(Items) + 1 /\ initOf = entered
          /\ \A i \in DOMAIN Items :
               i < next /\ Items[i].op = "variable" => <<entered, Items[i].name>> \in initialised
      BY <1>1, <3>1 DEF RunsInOrder, RunsItself
    <3>3. next' \in 1 .. Len(Items) + 1
      BY <2>2, <3>1, <3>2
    <3>4. \A i \in DOMAIN Items : i < next' => i < next \/ i = next
      BY <2>2, <3>1, <3>2
    <3>5. ASSUME NEW i \in DOMAIN Items, i < next', Items[i].op = "variable"
          PROVE  <<entered, Items[i].name>> \in initialised'
      BY <3>1, <3>2, <3>4, <3>5
    <3>6. entered \in Loaded'
      BY <3>1, <3>2 DEF Loaded
    <3>. QED  BY <2>1, <3>1, <3>2, <3>3, <3>5, <3>6
  <2>. QED  BY <1>4, <2>3, <2>4, StageMoves
<1>. QED  BY <1>2, <1>3, <1>4, StepKinds

\* What is in the global scope has run, or is of the line under way.
LEMMA GlobalsNext == ReplInv /\ [Next]_vars => GlobalsHaveRun'
<1>. SUFFICES ASSUME ReplInv, [Next]_vars, stage' # "exited", NEW n \in Name, globals'[n] # None
              PROVE  \/ HasRun(n)'
                     \/ stage' \in {"export", "run"} /\ n \in DefinedNames' /\ globals'[n] = SymbolOf(n)'
  BY DEF GlobalsHaveRun
<1>1. GlobalsHaveRun /\ TypeOK
  BY DEF ReplInv
<1>2. CASE Stays
  <2>1. UNCHANGED <<session, entered, stage, globals, jit, initialised>>
    BY <1>2, StaysStill
  <2>2. HasRun(n)' <=> HasRun(n)
    BY <2>1 DEF HasRun, Loaded
  <2>. QED  BY <1>1, <2>1, <2>2, LineStable DEF GlobalsHaveRun
<1>3. CASE ReadMeta \/ ReadCode
  <2>1. UNCHANGED <<globals, jit, initialised>> /\ stage = "prompt"
    BY <1>3, Reads DEF world
  <2>. QED  BY <1>1, <2>1 DEF GlobalsHaveRun, HasRun, Loaded
<1>4. CASE Within
  <2>. USE <1>4
  <2>1. UNCHANGED <<session, entered>> /\ InLine
    BY WithinLine DEF input
  <2>2. DefinedNames' = DefinedNames /\ SymbolOf(n)' = SymbolOf(n)
    BY <2>1, LineStable
  <2>3. CASE globals'[n] = globals[n]
    <3>1. HasRun(n) \/ (stage \in {"export", "run"} /\ n \in DefinedNames /\ globals[n] = SymbolOf(n))
      BY <1>1, <2>1, <2>3 DEF GlobalsHaveRun, InLine
    <3>2. CASE HasRun(n)
      BY <2>3, <3>2, HasRunStays
    <3>3. CASE stage \in {"export", "run"} /\ n \in DefinedNames /\ globals[n] = SymbolOf(n) /\ ~RunEnds
      <4>1. stage' \in {"export", "run"}
        BY <3>3, WithinLine, StageMoves DEF Prepare, Preparing, ParseFails, ParseOnly, PrepareFails
      <4>. QED  BY <2>2, <2>3, <3>3, <4>1
    <3>4. CASE RunEnds /\ n \in DefinedNames /\ globals[n] = SymbolOf(n)
      <4>1. stage = "run" /\ next > Len(Items) /\ jit' = jit /\ initialised' = initialised
        BY <3>4 DEF RunEnds, world
      <4>2. /\ entered \in Loaded /\ next \in 1 .. Len(Items) + 1
            /\ \A i \in DOMAIN Items :
                 i < next /\ Items[i].op = "variable" => <<entered, Items[i].name>> \in initialised
        BY <4>1 DEF ReplInv, RunsInOrder
      <4>3. DOMAIN Items = 1 .. Len(Items) /\ Len(Items) \in Nat
        BY <2>1, LineFacts, LineType
      <4>4. \A i \in DOMAIN Items : i < next
        BY <4>1, <4>2, <4>3
      <4>5. /\ SymbolOf(n).home = entered
            /\ SymbolOf(n).kind = "variable" =>
                 \E i \in DOMAIN Items : Items[i].op = "variable" /\ Items[i].name = n
        BY <2>1, <3>4, LineFacts, SymbolType
      <4>6. SymbolOf(n).kind = "variable" => <<entered, n>> \in initialised
        BY <4>2, <4>4, <4>5
      <4>7. HasRun(n)
        BY <3>4, <4>2, <4>5, <4>6 DEF HasRun
      <4>. QED  BY <2>3, <4>7, HasRunStays
    <3>. QED  BY <3>1, <3>2, <3>3, <3>4
  <2>4. CASE globals'[n] # globals[n]
    <3>1. Export /\ globals \in [Name -> Symbol \union {None}]
      BY <1>1, <2>4, Changes DEF TypeOK
    <3>2. globals' = [globals EXCEPT ![Exporting] = scope[Exporting]] /\ stage' = "export"
      BY <3>1 DEF Export
    <3>3. Exporting \in DefinedNames /\ scope[Exporting] = SymbolOf(Exporting)
      BY <3>1, ExportingDefined DEF Export
    <3>4. n = Exporting /\ globals'[n] = scope[Exporting]
      BY <2>4, <3>1, <3>2
    <3>. QED  BY <2>2, <3>2, <3>3, <3>4
  <2>. QED  BY <2>3, <2>4
<1>. QED  BY <1>2, <1>3, <1>4, StepKinds

\* A script or a dump is at its only line.
LEMMA ScriptNext == ReplInv /\ [Next]_vars => ScriptIsOneLine'
<1>. SUFFICES ASSUME ReplInv, [Next]_vars, session'.mode # "interactive"
              PROVE  /\ shouldCompile'
                     /\ stage' = "prompt" => entered' = 0
                     /\ stage' \notin {"run", "exited"} => initOf' = 0
  BY DEF ScriptIsOneLine
<1>1. ScriptIsOneLine /\ session \in Sessions
  BY DEF ReplInv
<1>2. CASE Stays
  BY <1>1, <1>2, StaysStill DEF ScriptIsOneLine
<1>3. CASE ReadMeta \/ ReadCode
  <2>1. session' = session /\ stage = "prompt" /\ entered' = entered + 1 /\ initOf' = initOf
    BY <1>3, Reads
  <2>2. shouldCompile /\ entered = 0 /\ initOf = 0
    BY <1>1, <2>1 DEF ScriptIsOneLine
  <2>3. session.inputs[entered'].op = "code"
    BY <1>1, <2>1, <2>2, SessionsAssumption
  <2>4. ReadCode /\ stage' = "parse" /\ shouldCompile' = shouldCompile
    BY <1>3, <2>3, Reads
  <2>. QED  BY <2>1, <2>2, <2>4
<1>4. CASE Within
  <2>1. UNCHANGED <<session, entered, shouldCompile>> /\ InLine
    BY <1>4, WithinLine DEF input
  <2>2. shouldCompile /\ (stage # "run" => initOf = 0)
    BY <1>1, <2>1 DEF ScriptIsOneLine, InLine
  <2>3. stage' # "prompt"
    BY <1>4, <2>1, StageMoves
  <2>4. ASSUME stage' \notin {"run", "exited"}
        PROVE  initOf' = 0
    <3>1. stage' \in {"emit", "export"}
      BY <1>4, <2>3, <2>4, WithinLine
    <3>2. stage # "run" /\ ~Load
      BY <1>4, <3>1, StageMoves DEF Prepare, Preparing, Emit, Export, Load
    <3>. QED  BY <1>4, <2>2, <3>2, Changes
  <2>. QED  BY <2>1, <2>2, <2>3, <2>4
<1>. QED  BY <1>2, <1>3, <1>4, StepKinds

\* The status of a script that has ended.
LEMMA StatusNext == ReplInv /\ [Next]_vars => StatusIsTrue'
<1>. SUFFICES ASSUME ReplInv, [Next]_vars, stage' = "exited", session'.mode = "script"
              PROVE  exitCode' = "0" <=> initOf' = entered' /\ next' = Len(Items') + 1
  BY DEF StatusIsTrue
<1>1. ScriptIsOneLine /\ session \in Sessions /\ TypeOK /\ StatusIsTrue
  BY DEF ReplInv
<1>2. CASE Stays
  <2>1. UNCHANGED <<session, entered, stage, exitCode, initOf, next>>
    BY <1>2, StaysStill
  <2>. QED  BY <1>1, <2>1, LineStable DEF StatusIsTrue
<1>3. CASE ReadMeta \/ ReadCode
  <2>1. session' = session /\ stage = "prompt" /\ entered' = entered + 1
    BY <1>3, Reads
  <2>2. entered = 0
    BY <1>1, <2>1 DEF ScriptIsOneLine
  <2>3. session.inputs[entered'].op = "code"
    BY <1>1, <2>1, <2>2, SessionsAssumption
  <2>. QED  BY <1>3, <2>3, Reads
<1>4. CASE Within
  <2>1. UNCHANGED <<session, entered, shouldCompile>> /\ InLine /\ Items' = Items
    BY <1>4, WithinLine, LineStable DEF input
  <2>2. shouldCompile /\ (stage # "run" => initOf = 0)
    BY <1>1, <2>1 DEF ScriptIsOneLine, InLine
  <2>3. entered # 0 /\ DOMAIN Items = 1 .. Len(Items) /\ Len(Items) \in Nat
    BY <2>1, <1>1, LineFacts, LineType, Counts
  <2>4. CASE ParseFails \/ PrepareFails
    <3>1. LineEnds(TRUE) /\ initOf' = initOf /\ stage = "parse"
      BY <2>4 DEF ParseFails, PrepareFails, Preparing
    <3>2. exitCode' = "-1"
      BY <1>1, <3>1, LineEndsAt
    <3>. QED  BY <2>1, <2>2, <2>3, <3>1, <3>2
  <2>5. CASE ParseOnly
    BY <2>2, <2>5 DEF ParseOnly
  <2>6. CASE Prepare
    <3>1. session.mode # "dump"
      BY <2>1
    <3>. QED  BY <2>6, <3>1 DEF Prepare
  <2>7. CASE EmitFails \/ ExportCollides
    <3>1. exitCode' = "uncaught exception" /\ initOf' = initOf /\ stage # "run"
      BY <2>7 DEF EmitFails, ExportCollides, Crash, Exit
    <3>. QED  BY <2>1, <2>2, <2>3, <3>1
  <2>8. CASE RunAssert
    <3>1. /\ exitCode' = "uncaught exception" /\ next' = next
          /\ stage = "run" /\ next <= Len(Items)
      BY <2>8 DEF RunAssert, Running, Crash, Exit
    <3>2. next # Len(Items) + 1
      <4>1. \A x, y \in Nat : x <= y => x # y + 1
        OBVIOUS
      <4>2. next \in Nat
        BY <1>1 DEF TypeOK
      <4>. QED  BY <2>3, <3>1, <4>1, <4>2
    <3>. QED  BY <2>1, <3>1, <3>2
  <2>9. CASE RunEnds
    <3>1. LineEnds(FALSE) /\ next > Len(Items) /\ next' = next /\ initOf' = initOf /\ stage = "run"
      BY <2>9 DEF RunEnds
    <3>2. next \in 1 .. Len(Items) + 1 /\ initOf = entered
      BY <3>1 DEF ReplInv, RunsInOrder, RunsItself
    <3>3. next = Len(Items) + 1
      BY <2>3, <3>1, <3>2
    <3>4. exitCode' = "0"
      BY <1>1, <3>1, LineEndsAt
    <3>. QED  BY <2>1, <3>1, <3>2, <3>3, <3>4
  <2>10. CASE Emit \/ Export \/ Load \/ RunStatement \/ RunInitialiser
    BY <2>10 DEF Emit, Export, Load, RunStatement, RunInitialiser, Running
  <2>. QED  BY <1>4, <2>4, <2>5, <2>6, <2>7, <2>8, <2>9, <2>10 DEF Within, CompileRun
<1>. QED  BY <1>2, <1>3, <1>4, StepKinds

\* The invariant holds in every session.
LEMMA ReplInvariant == Spec => []ReplInv
<1>1. ReplInv /\ [Next]_vars => ReplInv'
  <2>1. ReplInv /\ [Next]_vars => session' \in Sessions
    BY StepKinds, StaysStill, Reads, WithinLine DEF ReplInv, input
  <2>. QED  BY <2>1, TypeNext, LineNext, ScopeNext, NamesNext, RunsNext, GlobalsNext, ScriptNext, StatusNext
            DEF ReplInv
<1>. QED  BY <1>1, ReplInit, PTL DEF Spec

-----------------------------------------------------------------------------
(***************************************************************************)
(* The theorems.                                                           *)
(***************************************************************************)

\* The driver's variables keep their types, whatever is entered.
THEOREM TypeCorrect == Spec => []TypeOK
  BY ReplInvariant, PTL DEF ReplInv

\* The init function that executeModule finds by name is that of the module it
\* has just loaded: the JIT's search from the oldest module on meets no earlier
\* line of that name, since commandCount names every line anew.
THEOREM RunsItselfCorrect == Spec => []RunsItself
  BY ReplInvariant, PTL DEF ReplInv

\* What a line can name at the prompt was loaded, and its initialisers have run,
\* whatever lines were rejected, only parsed or entered twice before.
THEOREM VisibleCorrect == Spec => []VisibleHasRun
<1>1. ReplInv => VisibleHasRun
  BY DEF ReplInv, GlobalsHaveRun, HasRun, VisibleHasRun
<1>. QED  BY <1>1, ReplInvariant, PTL

\* The process ends with status 0 exactly when the script has run to its end.
THEOREM StatusCorrect == Spec => []StatusIsTrue
  BY ReplInvariant, PTL DEF ReplInv

\* Exporting a module's symbols never changes what a name of the global scope
\* refers to.
THEOREM MeaningCorrect == Spec => NamesKeepTheirMeaning
<1>1. ASSUME ReplInv, [Next]_vars, NEW n \in Name, globals[n] # None
      PROVE  globals'[n] = globals[n]
  <2>1. globals \in [Name -> Symbol \union {None}]
    BY <1>1 DEF ReplInv, TypeOK
  <2>2. CASE Stays
    BY <2>2, StaysStill
  <2>3. CASE ReadMeta \/ ReadCode
    BY <1>1, <2>3, Reads DEF world
  <2>4. CASE Within /\ ~Export
    BY <2>4, Changes
  <2>5. CASE Export
    <3>1. globals' = [globals EXCEPT ![Exporting] = scope[Exporting]] /\ globals[Exporting] = None
      BY <2>5 DEF Export
    <3>. QED  BY <1>1, <2>1, <3>1
  <2>. QED  BY <1>1, <2>2, <2>3, <2>4, <2>5, StepKinds
<1>2. ReplInv /\ [Next]_vars => \A n \in Name : globals[n] # None => globals'[n] = globals[n]
  BY <1>1
<1>. QED  BY <1>2, ReplInvariant, PTL DEF Spec, NamesKeepTheirMeaning
=============================================================================
