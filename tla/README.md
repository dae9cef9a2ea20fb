# A TLA+ model of Anode

Anode is a small statically typed language with a REPL.  A text is scanned,
parsed, rewritten and checked by a dozen AST passes, turned into LLVM code,
added to a JIT and run; what one line defines the next lines can use.  The
program has one thread.  What makes it hard is not concurrency but control that
is spread over recursion and shared state: visitors that start other visitors,
one error stream and one insertion point used by all activations of a recursive
function, passes that rely on what earlier passes rewrote, and a world that
outlives every line.

The modules here model that control, translated from the sources under
`src/src`.  TLC checks them on small instances; what matters most about seven of
them is also proved, for all programs, sessions and inputs, in the modules whose
names end in `Proofs`.

## The system

| component | state | operations | talks to |
|---|---|---|---|
| source reader, lexer (`SourceReader.h`, `AnodeLexer.*`) | stream, lookahead, line and column, token start | `match`, `peek`, `next`, `discard...`, `extract...` | parser (calls it), error stream |
| parser (`PrattParser.h`, `AnodeParser.*`) | tokens, `storageKindStack_`, `templateParameterStack_`, the C++ stack | one parselet for each construct, `parseExpr(precedence)` | lexer; builds the tree |
| syntax tree, types (`ast.h`, `type.h`) | nodes, `AnodeWorld`: template index, set of expanding templates, global scope | `accept`, `deepCopyExpandTemplate`, `exprType`, `canImplicitCastTo` | every pass and the generator |
| symbol tables (`scope.h`, `symbol_search.cpp`) | tables with parents | `addSymbol`, `findQualifiedSymbol`, `cloneForExport` | passes, generator |
| pass pipeline (`ast_passes.cpp`, `ErrorStream.h`) | error count, context messages, scope stack | `runPasses`, `runAllPasses` | started by the execution context, and by two of its own passes |
| named templates (`NamedTemplateExpanderPass.h`) | `visitingExpansion_`, the world's expanding set | `visiting`/`visitedTemplateExpansionExprStmt` | copies bodies, starts the pipeline on each copy |
| generic classes (`PopulateGenericTypesWithCompleteTypesPass.h`, ...) | expanded classes of a generic type | `ExpandClassesWithinAnonymousTemplates`, ... | starts the pipeline on each completed class |
| casts and checks (`AddImplicitCastsPass.h`, `BinaryExprSemanticsPass.h`, `CastExprSemanticPass.h`, `FuncCallSemanticsPass.h`) | the tree | one visit for each kind of node | types, error stream |
| generator (`back/`) | IRBuilder's insertion point, symbol map | `emitExpr`, `emitModule` | tree, world (export), LLVM |
| execution (`execute/`, `runtime/`) | JIT, context | `prepareModule`, `loadModule`, `executeModule`, `assert_fail` | all of the above |
| drivers (`anode/main.cpp`) | command count, compile switch, exit status | `runInteractive`, `executeLine`, `executeScript`, `dumpAst` | execution |

What is hard in each of them, at its line, and which property would notice it
going wrong, is the list `hazards` of `PROJECT.json`.  What makes each correct:

- **lexer**: nothing that was read ahead is lost, every token is the longest
  one at its true location, comments nest, the end is found;
- **parser**: the tree is the one the precedences call for and keeps the text;
  the two stacks say at every moment which definition the parser is in;
- **template expansion**: a template is being expanded exactly while its visit
  is under way, an error names a real circle, an error stops everything that
  relies on what failed, and a line ends whatever its templates do;
- **symbol tables**: a name means the declaration in the nearest scope that is
  reached by the text, whatever is nested, reopened or expanded there; every pass
  finds the namespaces that the first one made;
- **generic classes**: references with the same arguments are one class, over all
  the lines of a session; what the generator is given is complete;
- **casts**: what is accepted is well typed with the casts that were inserted,
  nothing well typed is refused or trips an assertion;
- **generator**: what the blocks compute is what the source means, and every
  module that is made verifies;
- **session**: a line sees only what ran, a name never changes its meaning, and
  the status of the process is true.

## The modules

`map` in `PROJECT.json` names the lines of code behind every definition.

### TemplateExpansion, ExpansionContract, TemplateExpansionProofs

`TemplateExpansion` is a session of lines.  `stack` is the stack of activations
of `runPasses`: the module's own, and above it one for each template body being
expanded, since `NamedTemplateExpanderPass` runs all four passes over the copy
it made before it returns from a visit.  A frame holds what an activation keeps:
which template it is a copy of, the pass it is in, whether the parents of its
scopes are set, the statement the expander is at, `visitingExpansion_` and the
`template_` of the visit.  `expanding`, `index` and `globals` are the
`AnodeWorld`; `errorCount` and `context` the `ErrorStream`.  One action per pass
(`RecordTemplates`, `SetParents`, `PopulateSymbols`), one per outcome of a visit
(`VisitUnresolved`, `VisitCircular`, `VisitWrongArguments`,
`VisitDuplicateParameter`, `VisitExpand`), `Leave` for the end of a visit, and
`AcceptLine`, `RejectLine`, `FailLater` and `CollideLine` for the end of a line.
`FailLater` is a line that one of the remaining passes rejects.

`ExpansionContract` says what the driver is promised, without stacks, passes or
copies: which lines are rejected (graph reachability decides what is circular)
and what a line leaves in the global scope.  `MCTemplateFlat` shows that
`TemplateExpansion` implements it, `globals` being mapped from copies of
templates to the templates.  The contract is for flat programs: no template
inside another, no parameter that hides a template.

Two details of the code that the model leaves out because they cannot be
observed: the early return when an expansion already has an expanded template
(line 28 of the pass; every expansion is visited once), and the outer visitor's
`accept` of the expanded template, which `visitingExpansion_` makes empty.  When
nothing was found, `Leave` removes a null template, as the code does.

### SourceSemantics, EmitControlFlow

`SourceSemantics` says what a tree of control flow means: the sequence of leaf
evaluations, results and assertion failures, by a stack of what is still to be
done.  `EmitControlFlow` is `emitExpr` as a stack of activations around one
IRBuilder: each action appends instructions to the block at the insertion point
and may move it.  Then the module is verified, and its blocks are run
instruction by instruction by an external machine with LLVM's rules for `br`,
`phi` and `ret`.  `ImplementsSource` is the refinement between the two.
Arithmetic, calls, loads and stores are leaves that compute a fresh value.
`MaxEvents` bounds how many events a run shows, since a loop may run for ever.
Verification and the machine belong to LLVM and are marked external.

### LexicalScan

The reader is a record (position in the stream, the stream's eof bit, lookahead,
line, column) and its methods are functions of it; a step is a turn of one of
the lexer's loops.  Against it stand definitions that know of no reader
(`CommentEnd`, `BlankEnd`, `TokenEnd`, `TokensFrom`): what the text means by
position.  One digit, four letters and one keyword stand for the others, tab and
carriage return read like a blank, and only ASCII is modelled.  `IntDigits` and
`FloatDigits` bound what `stoi` and `stof` accept.  Some of what the model shows
is surprising but is what the code does: `1.2.3` is one float, `1-1` is `1`
followed by `-1`.

### PrattParse

A parselet is a list of things to do (consume, take if present, parse an
expression, follow a shared rule, push or pop one of the two stacks); `stack`
holds the lists that are under way, so an action is a call the parser makes.
Nodes live on a heap.  Tokens that parse alike are one token (`TokenKind`), and source spans
are left out.  An infix operator without a parselet (`!`) is reported and then
called as an empty `std::function`: outcome `"crashed"`.  At the end of the
input the parser aborts without reporting an error.  Two statements of which the
second begins with a parenthesis read as a call, as in the code.  The ternary
operator takes `;` between its parts (`AnodeParser.h:227`), where the project's
README writes a comma.

### SymbolScopes

The tree is a sequence of nodes in the order they are visited, closed by `end`,
into which the expander inserts the copies it makes; so "the scopes around a
node" is a set of positions.  A frame is one run of passes over the module or
over a copy: the pass, the node it is at and `symbolTableStack_`.  The passes are
those that enter or look up names: the recorder, `SetSymbolTableParentsPass`,
`PopulateSymbolTablesPass`, the expander, `ResolveTypesPass`,
`ResolveSymbolsPass`.  All but the expander inherit from
`ScopeFollowingAstVisitor`, and its methods are one action each; what a pass adds
is an action of its own (`DeclareFunction`, `ResolveUse`, ...).  A leaf is a
variable, a class (its body is the block behind it) or a use.

`meaning` collects what was found for every name, and `NamesMeanNearest` compares
it with definitions that know of no table and no pass (`Home`, `Layers`,
`Declared`, `Candidates`): scopes are read off the tree, a namespace is the
scope around it together with its path.  Where the code's rule is not what one
would expect, those definitions state the code's rule:

- a namespace in the body of a template exists in the template's scope even if
  the template is never expanded, since the recorder walks into it;
- the parent of a namespace is the scope around the expansion it is copied
  from, so a template's parameters are not visible inside a namespace in it;
- only locals have to be defined before their use, not those of a class type; a
  local namespace or template used as a value is always "used before its
  definition".

A symbol is given its full name (`fullyQualifiedName_`) when it is entered: the
names of the tables from the world down to its own, of which a block's is the
span of its brace, and an expansion's is the path it names.  A node keeps its
`span` when it is copied, but not its `id`: `LinkedToOwnText` uses the span to
tell whether two declarations are copies of one text.  What the generator does
with the names is abstracted to `Linked`, the symbols that it looks up by them;
that LLVM hands out what is there under a name already is external.

Circular expansions and wrong numbers of arguments belong to
`TemplateExpansion`, and `ExpansionsAssumption` leaves them out.
`ProgramsAssumption` says what `parseModule` hands over (`WellFormed`): one module
around everything, blocks that differ in the span of their brace, expansions that
are empty yet.  `ParametersAssumption` leaves out a template that names a parameter
twice, which no pass refuses and `addSymbol` asserts on.  `Exported` are symbols of
earlier lines.

### GenericExpansion

A session of lines over generic classes whose fields use generics.  Type
references are nodes with what they were resolved to (`UnresolvedType`, a scalar,
a `GenericType`, a `ClassType`); a completed class is a record with the argument
types it was made for.  The passes are `ResolveTypesPass`,
`ExpandClassesWithinAnonymousTemplates` (the walk that appends a completed class
to the module it is walking), `ConvertGenericTypeRefsToCompletePass`, a verdict
of `ResolveSymbolsPass`, `PrepareClassesVisitor`, `ResolveDotExprMemberPass` and
a verdict of the others; then `TypeMap::toLlvmType` maps what is left.
`PopulateGenericTypesWithCompleteTypesPass` proper finds nothing to do after the
expander and is left out.  What the model shows of the
code:

- the arguments are compared through `actualType`, so `Item<Item<int>>` written
  twice is completed twice, and references agree all the same, because the first
  match is the one that is taken;
- fields of a completed class are not walked by the pass that completes classes:
  a generic that mentions itself or another one with the arguments it has been
  given needs each of these written somewhere in the lines so far, otherwise the
  line is refused as "not expanded".

### TypeConversion

A program is a forest of nodes on a heap; the four passes walk it by an agenda of
visits and put cast nodes between parents and operands.  A visit sees the types
of that moment: asking a binary operator for its type while its operands do not
agree trips the assertion in `operandsType`.  Afterwards `Emit` or `EmitAsserts`
says whether the generator has a case for every operator and cast that is left:
it has none for `>` on bools, for equality of objects, for arithmetic on doubles
and for casts from and to them, although every pass accepts these.  Method
receivers, dot expressions and anonymous templates are left out, three kinds of
error about conditions are one, and only variables can be assigned to.
`cast<int>(1)` is rejected, as in the code.  `VerdictIsRight` says exactly which
well-typed programs trip an assertion: a loop whose condition is an operator
(`while(1 + 2.0)`, `while(a && 1)`; the condition is converted before its operands
are, `AddImplicitCastsPass.h:104`) and a block without expressions.

### ReplSession

The driver around all of it: a line is read, parsed, prepared, emitted, its
symbols exported to the global scope one by one, its code loaded, its init
function looked up by name and run.  A failed `ASSERT`, a failed assertion of the
program and every other exception end the process.  At the end of its input
`linenoise` returns NULL, which reads as an empty line, so that an interactive
session only ends by `/exit`; the model stops there (`EndOfInput`).

## The runs

| run | instance | shows |
|---|---|---|
| `template_nested` | two lines over three templates, nested in each other or not, with parameters that hide names, repeated definitions, wrong numbers of arguments | the invariants of the expansion and that every line ends |
| `template_flat` | every body of up to two expansions for one template, six bodies for the second, four for the third, in eight orders of definition and use over two lines | the contract is implemented |
| `emit` | every well-typed operator over operators, in the module or in a function | no code behind a terminator; what verifies runs as the source means; only a branch inside an operand of a logical operator is refused |
| `emit_nested` | the same | **violation**: such a branch makes a module that does not verify |
| `lexical` | every text of up to six characters for comments and four for tokens | the scan is exact and ends |
| `pratt` | every text of up to four tokens, chains of three operators, pairs of constructs nested and in sequence | tree, stacks and end of the parse |
| `types` | every operator on leaves of every type and on operators of its own | the passes judge and rewrite rightly |
| `scopes` | 3069 modules of three parts that share six names: sixteen outer parts, fourteen middle ones, fourteen inner ones | names mean the nearest declaration, passes find the same namespaces, only copies of one text share a name for the linker, where the branch "unreachable" is reached |
| `generics` | three lines over eight generics: self-referring, mutually referring, two parameters, nested arguments, an undefined field type, arguments for a class without parameters, an ever growing one; mistakes that are found by an early and by a late pass | completed classes are unique, complete and prepared unless their line was rejected |
| `generics_stale` | the same | **violation**: a rejected line leaves a class without fields behind |
| `repl` | every session of three texts out of sixteen, scripts and dumps | what lines see of each other, exit status |
| `repl_namespace` | the same | **violation**: members of an earlier line's namespace are never declared |

**Why the bounds are enough.**  A circle needs two templates to be indirect and
a third to be a diamond or a bystander; state that survives a line is read by
the next, so two lines reach it.  Two levels of operators put a branch into
every operand position, and what an activation keeps on the stack does not
depend on what is above it.  The reader looks at most two characters ahead, and
six characters hold a comment inside a comment with a character to spare.
Whether an operator takes an operand is decided by comparing two precedences,
which chains of three exercise on both sides of each; a pair of constructs
reaches every push of a stack inside every other.  Three lines let one define,
one fail and one use.  Three parts of a module let a name be declared, hidden by a
second declaration or by a copy, and used; paths of three parts have a middle.

Passing runs check deadlock, since every specification has a step to take in its
final states.  None uses symmetry.

**Fairness** is `WF_vars(Next)` everywhere it is used.  The program has a single
thread and waits for nothing but its input, which the models are given: whatever
can be done next is done.

**Liveness** (`EveryLineEnds`, `EveryTextIsScanned`, `EveryInputIsAnswered`,
`EveryLineIsDealtWith`) is about loops and recursion that end
only because something is consumed, an error is counted, or a set grows.

Every property of a passing run is shown to depend on the code by a mutant: an
operator next to the definition it replaces, marked `Mutant:`, that is what a
slip in that code would be.

## What the runs found

Each is a run of its own, quoted in `findings` of `PROJECT.json`:

- `ExprStmtAstVisitor.cpp:410`: the PHI of a logical operator names the block in
  which its operand began, not the one in which it ended, so `a || b || c` fails
  verification and ends the process;
- `CompileContext.h:54`: a function in a namespace of an earlier REPL line passes
  every pass and then trips an assertion of the generator;
- `PopulateGenericTypesWithCompleteTypesPass.h:107`: a completed class is entered
  in its `GenericType` before the line is known to be good.  After a line that is
  rejected by a later pass, the next line that uses the class is accepted with a
  class to which no field was ever added.

Others have no run of their own:

- a name exported by an earlier line can be defined again, passes every pass, and
  trips `addSymbol` when it is exported (`ModuleEmitter.cpp:93` asks "naming
  collisions here?"): `ExportCollides` in `ReplSession`, `CollideLine` in
  `TemplateExpansion`;
- `AddImplicitCastsPass.h:104`: `while(1 + 2.0) ...` trips an assertion, because
  the condition is converted before its operands are; `VerdictIsRight` has it as
  an exception;
- `AddImplicitCastsPass.h:18`: an object as an operand of `&&` trips the assertion
  in `CastExprSemanticPass.h:26` instead of being reported (`CastAsserts`);
- `AnodeParser.h:158`: the operand of `!` is parsed with precedence 0, so that
  `! a == b` is `! (a == b)`, against the table of C++ that the precedences are
  said to come from (`AnodeParser.cpp:31`); `RespectsPrecedence` speaks of the
  other operators;
- `ScopeFollowingAstVisitor.h:92`: "this code should be unreacahble" is reached
  when a template with `namespace foo` is expanded where `foo` is a variable or a
  function; `AssertedInCopyOnly` says that it is reached in no other way;
- `ResolveSymbolsPass.h:28`: a local of a class type may be used before its
  definition, and its address is then missing in the generator;
- `FuncDefStmtVistors.cpp:40`, `GlobalVariableAstVisitor.h:13`: a template with a
  block that declares a function or a variable, expanded twice in one scope (or
  as `t` inside a namespace `a` and as `a::t` beside it), gives two definitions
  one name for the linker; the second function is appended, out of reach, to the
  first, and calls of it run the first, whatever the arguments of the expansion
  were.  `LinkedToOwnText` says that this befalls copies of one text only;
- `ResolveSymbolsPass.h:28`: a function inside a function may use the locals of
  the one around it, which are then not its own in the generator; a comment in
  `tests/suites/nested_scopes.an` knows of it ("will almost certainly create an
  invalid LLVM module").

## The proofs

A theorem holds for every value of the constants that satisfies the assumptions
it names; each of these is evaluated by TLC in the runs of its module.  Every
proof has the same form: an inductive invariant that entails the property, a
lemma for the initial states, a lemma for the steps with one part for each
action, and a theorem that joins them.

| theorem | property | says |
|---|---|---|
| **TemplateExpansionProofs** | | for every set of programs: |
| `TypeCorrect` | `TypeOK` | variables keep their types |
| `ExpandingCorrect` | `ExpandingIsOpen` | the expanding set is exactly the templates of the visits under way, while there was no error, and never more |
| `CircularCorrect` | `CircularIsReal` | the first circular reference reported is one |
| `VisitsCorrect` | `VisitsNest` | activations and context messages follow the visits |
| `RecordedCorrect` | `FoundIsRecorded` | what an expansion finds is in the index, and its scopes have parents |
| `ErrorCorrect` | `ErrorStopsExpansion` | a module in error gets no more symbols |
| **EmitControlFlowProofs** | | for every set of programs: |
| `TypeCorrect` | `TypeOK` | while code is emitted no activation goes beyond the operands of its expression; while it runs the next instruction is one of a block of some function |
| `InsertionPointCorrect` | `InsertionPointIsOpen` | code is emitted into an open block of the function being emitted, every other block is finished by its only terminator |
| **ReplSessionProofs** | | for every set of sessions: |
| `TypeCorrect` | `TypeOK` | the driver's variables keep their types |
| `RunsItselfCorrect` | `RunsItself` | the init function found by name is that of the line just loaded |
| `VisibleCorrect` | `VisibleHasRun` | what a line can name was loaded and initialised |
| `MeaningCorrect` | `NamesKeepTheirMeaning` | an export never changes what a global name means |
| `StatusCorrect` | `StatusIsTrue` | a script's status is 0 exactly when it ran to its end |
| **PrattParseProofs** | | for every set of inputs: |
| `PrattInvariant` | | the stacks hold one entry for each parselet that owes one |
| `PrattTypes` | `TypeOK` | no token behind the end is read and none becomes two nodes; the heap is a forest: no node is an operand twice, the statements are different roots |
| `ForestInvariant` | | no node is held twice by nodes, activations and the module; no token twice by parselets and nodes |
| `GenericsKeepTheirParameters` | `GenericsOwnTheirParameters` | a generic class gets the parameters its own brackets listed |
| `StacksAreBalanced` | | between statements both stacks are as they were at the beginning, so that the exception at the end of `parseModule` is never thrown |
| `PrecedenceInvariant` | | every node is made as the precedences call for, and each activation allows what the next one returns |
| `PrecedenceCorrect` | `RespectsPrecedence` | the tree is the one that precedences and associativities call for |
| **GenericExpansionProofs** | | for every set of generics and every session: |
| `GenInvariant` | | the heap, the walk over it and what earlier lines settled fit together |
| `TypesAreCorrect` | `TypeOK` | arguments and aliases point back, lists hold classes of their own generic |
| `LinesAreComplete` | `AcceptedIsComplete` | an accepted line has no open reference, and the right class for each |
| `ClassesAreUnique` | `OneClassPerArguments` | the same generic with the same argument types is one class, over all the lines |
| `ClassesArePrepared` | `PreparedUnlessRejected` | a class that is used has its fields, unless its line was rejected |
| `WrittenAreExpanded` | `WrittenIsExpanded` | a reference written in the line is never the first refused as not expanded |
| **LexicalScanProofs** | | for every text: |
| `LookaheadCorrect` | `LookaheadIsNext` | the reader loses no character and returns none twice, and knows where it is |
| `TokensCorrect` | `TokensAreRight` | the tokens returned are those of the text, then its end; or the comment that is never closed is reported, where the tokens stop |
| **SymbolScopesProofs** | | for every set of modules: |
| `TypeIsOK` | `TypeOK` | no table is above itself, no name is entered twice in a table, the table of a namespace hangs below the one that names it, and every visitor has as many nodes open as it is deep in the tree and as many tables on its stack as those pushed |
| `NamespacesAreStable` | `NamespaceIsStable` | every pass that follows scopes comes, for a namespace, to the table that the first one came to |
| `AssertsInCopyOnly` | `AssertedInCopyOnly` | the branch of `visitingNamespaceExpr` marked unreachable is reached by the recorder over a copy of a template, and in no other way |

**TemplateExpansionProofs** assumes `ProgramsAssumption` (programs are well-formed
data) and `SentinelAssumption` (a null pointer is not a template, nor a symbol of
another kind).  None of the properties is inductive by itself.  `TypeInv`
strengthens `TypeOK` by `FramesNest`: every frame but the top one is the expander
in the middle of a visit, and the frame above it is a copy of the template of
that visit.  Without it nothing is known of the caller that a `Return` uncovers,
and with it a `Return` always meets a frame that waits for it.  `ContextCounts`
counts context messages by those visits.  `ExpandingIsOpen` then needs
`Distinct`: no two frames visit the same template while there is no error, which
is why removing one at `Leave` leaves the others in the set.  It also accounts
for the code's quirk that a refused visit removes the template of an outer one:
after an error the set is only a subset.  `FoundIsRecorded` needs `ScopesRecorded`
(symbols of every scope are indexed) and `CopiesRecorded` (so are the templates
inside a copy whose recorder has run).  `ErrorStopsExpansion` needs
`ErrorPasses`: once there is an error the top frame is either the recorder over a
fresh copy or an expander.

**EmitControlFlowProofs** assumes `ProgramsAssumption` and `ForestAssumption` of
`SourceSemantics`: an expression is an operand once, of one expression, and never
below itself, as the tree of `unique_ptr`s is.  That the insertion point is open
depends on what every activation on the stack will do when it gets the control
back, so `EmitInv` has three parts.  `Shape`: each activation has called the next
one as its operand, except that the module, at its first step, emits the
functions.  `Apart`: what an activation has yet to visit, and functions yet to be
emitted, have no blocks, nor has anything below them; this is where the forest is
needed, since otherwise a block named after a node could be there already.
`Blocks`: each block belongs to one function and ends in its only terminator,
except the one at the insertion point and, while a function is emitted, the
entry of the module's init function that is left behind.  For `TypeOK`, `Shape` says
how far each activation is among the operands of its expression; and a module that
runs has been verified, so that an instruction which is no terminator has a
successor and one which is branches inside its function.

**ReplSessionProofs** assumes `NameAssumption` (names are finitely many) and
`SessionsAssumption` (a script is one line of code).  `ReplInv` relates the driver's
counter to the JIT, `NamesAreCounted`: a line being compiled has a number that no
module of the JIT has, while a module whose line failed after it was loaded keeps
its number to itself.  `RunsInOrder` says that what runs has initialised what it
has passed; `GlobalsHaveRun`, that a global symbol is of a line that has run or is
one of the line under way, which is what makes `VisibleHasRun` hold at the next
prompt; `ScriptIsOneLine` and `LineIsCode` tie the stages to the input.
`NamesKeepTheirMeaning` then follows since `cloneForExport` asserts that the name is
free.

**PrattParseProofs** assumes `InputsAssumption` (inputs are sequences of tokens).
The stacks are pushed and popped by parselets that run each other, so that it has
to be said of a parselet at any moment whether it owes a pop.  `Follows` says it
of the list of things to do: items that touch neither stack and then one of the
few endings of that construct (`EndingsOf`), such as `pop, leave`; rules,
options and turns of a construct into another keep to that (`GrammarIsNeutral`,
`PrefixFollows`, `InfixFollows`).  `StorageMatches` and `TemplatesMatch` enumerate
the parselets between push and pop, and between enter and leave, from the outermost
one inwards; the entry a parselet pops is the last, since the parselets above
it have returned, and is therefore its own.

`PrecedenceCorrect` needs a second inductive invariant, `PrecInv`.  A parselet
makes a node long after it chose how tightly its operand binds, and an operand is
not an operator's own if it ends in a construct that takes everything to its
right (such as `!`, `if`, `while`, `func` and `class`: their last operand is parsed
at precedence 0).  `Arranged` says of every node of the heap that it was `Ripe` when it
was made: its first operand may stand to the left of it (`FitsLeft`) and its
last one to the right (`FitsRight`).  `Grouped` says the same of nodes that are not made
yet: of each activation and the one it called (`Pair`), and of the top one and the
token it is about to see (`OnTop`).  What a construct has left to do
tells whether its last operand is still to come (`Coming`) or being parsed and then
there (`Rests`).  The argument
turns on the one comparison of `parseExpr`: it goes on while the next token binds
tighter than its precedence, so that what it returns is followed by a token that
does not (`ReturnedYields`), and what the loop hands to an infix parselet may stand
to the left of that token (`LeftOfNext`).  A construct that is open to the right ends
in an operand of precedence 0; hence a token behind it is no infix at all.  Which nodes
are open is a recursion over the heap (`EndsOpen`); it is shown to obey its
equation, and not to change when nodes are added, by induction over nodes
(`OpensIs`, `OpensLater`).

That the heap is a forest (`PrattTypes`) needs a third one, `ForestInv`, about who
holds a node or a token, each at most once: a node is an operand of one other, or
is kept by one activation that is going to make something of it, or is a statement;
the token that a node stands for was its parselet's before.  No step copies a holding:
`InfixFound` and `ExprReturns` pass a node from one activation to the next, and what
makes a node gives it all that the activation held.  Tokens just read and nodes just
made were held by none before (`Known`: what is held is in the heap, or behind
`pos`).

**GenericExpansionProofs** assumes `DefinitionAssumption` (a generic has
parameters, and in its body arguments come before what they are arguments of)
and `LinesAssumption` (so they do in a line).  A type is found by following
aliases through the heap, and it changes while the passes point references
somewhere else; whether two references have the same class depends on the types
their arguments had at three different moments.  `GenInv` therefore orders
everything by the time it was made.  `References`: what the type of a reference
depends on stands before it, in its line.  `Before`: the classes up to the one
that was made for a reference, or found for it, have arguments that precede it.
So when the conversion, which goes through the line in that order, comes to a
reference, all the arguments that decide about its class have got their final
types (`Done`), whereas those of later classes may still be generic, which is
the same type as none.  `Awaits` says of a reference between the two walks that
a class of its list is made for the very arguments it has, or matches them
already; `AwaitedMatches` that this class matches when its turn comes, from which
`WrittenAreExpanded` follows; `Chosen` that the class it gets is the first that
does, which makes it the same for all of them (`ClassesAreUnique`).  `Settled` and
`LinesKept` are the argument that nothing of this changes for the lines before:
heaps only grow at the end, and references of earlier lines are not touched.
`Populated` ties fields and layouts to the verdicts: a class of the line has
no layout before `Emit`, which finds it prepared.  The functions that `Actual`,
`Collect` and `Mapped` define by recursion are shown to exist by induction over
sets (`TypesUpTo`, `GatherUpTo`, `ReachUpTo`).

**LexicalScanProofs** assumes `InputsAssumption` (the end of the stream is no
character).  `LexInv` says how many characters were consumed, that the lookahead
holds the next ones and then ends of the stream, and that it has at most two; line
and column count the line breaks before.  What each method of the reader does is
one lemma, and the loops of the lexer are compositions of these.

`TokensCorrect` needs more than that the reader is right: what the tokens of a text are
is defined by recursion over positions (`CommentEnd`, `BlankEnd`, `TokensFrom`,
`StopFrom`), with no reader and no loops.  These functions are first shown to exist and
to obey their equations (`CommentEndIs`, `BlankEndIs`, `TokensFromAre`), which
`DownRecursion` gives for functions that look ahead only, and to stay in range, by
`DownInduction`.  The run of a word or number ends at exactly one place (`RunEndIs`), and
the first of the registered tokens that match is a longest one (`LongestIs`), since all
of two characters are registered before all of one.  `ScanInv` is the inductive
invariant: c characters were consumed, and what was returned, followed by the
tokens from c + 1 on, are the tokens of the text (`Rest`).  Inside a comment the place
is not c + 1 but where the comment closes; if it never does, the tokens returned
are all there are and the beginning of the comment is where they stop (`Within`).  Inside
a word or a number the place is where it began, and the characters since then
are those of the token and belong to it (`Under`).  Behind the end of the input the
tokens are complete and only the end was told, once for each time it was asked for
(`Told`).  Each action then moves along one equation.

**SymbolScopesProofs** assumes the three assumptions of `SymbolScopes`; the invariants
are in **SymbolScopesInvariant**, part by part, in the order of the proofs.  That tables
form a forest depends on when their parents are set: a pass over a copy hangs
tables below others while the passes over the module wait, and a table that
got a parent must not get it twice, nor one that is below it.  `IInv` therefore ties
the tables to the text and to the frames.  `TextInv`: the sequence of nodes stays a
tree, whatever is inserted (`Height` of a place, and what is `Within` it, are
the notions in which openers, their ends and the copies between them are spoken
of).  `TableInv`: nodes own their tables, a table of parameters holds
parameters only and no other table does, the table of a namespace belongs to no node,
and the tables are ranked: going up ends, so that none is above itself.  `Frames`: every frame but the last is
an expander at an expansion, the next one began behind it with its table on the
stack; the stack has as many tables as the open nodes pushed; whatever is on it is
a table other than the world; and a table of parameters that hangs nowhere yet is
that of the expansion just entered.  In the second pass everything on the stack
already hangs below the world, so setting a parent makes no cycle.  `Progress`
says which tables have no parent yet: those of nodes that the recorder or the
second pass of the last frame has not come to, or that are behind the first error;
it also says that the table of an expansion is empty before it is expanded, which
is why its parameters are entered once.

The theorems about namespaces build on that.  Each pass looks the path of a namespace up anew,
from where its own stack then stands, and may declare parts of it that are missing;
so two passes agree only if they start from the same table and find the same way
down.  `Led` says where the start is: the table that a namespace led to lies, by a
chain of namespaces named as its path, below the table of the nearest open
node that is not a template (`Top`), which is a matter of the text and not of the
pass.  `Follows` says that this is what every visitor has on its stack: not only the
top entry but, for each open node, the entry that will be uncovered when it
closes.  Names are entered once, so there is one way down (`OneWay`), and tables only
grow, so the way stays (`WayGrows`): a pass that comes back finds it
(`WayAgain`), whereas the recorder may be the first to come (`Unrecorded`).  It alone
can therefore meet a part of the path that is something else, and not over the
module itself, since `Plain` says that nothing but namespaces is in a table other
than the world while it works there: templates, functions and variables are
declared by later passes.

**SequenceLemmas** says what replacing, pushing, popping and concatenating does to
a sequence, and to the heights of a stack that is pushed on by several at a time; it
states induction over the naturals as a lemma about a set that has
zero and all successors, derived from the well-foundedness of `<`.  `DownInduction`
is the same from the end of an interval downwards, and `DownRecursion` shows
that a function exists which is defined by what it is further on.  A definition
by recursion can be reasoned about in this form only where a set can be
named that the claim is about.

**Only model-checked**:
- liveness (`EveryLineEnds`, `EveryTextIsScanned`, `EveryInputIsAnswered`,
  `EveryLineIsDealtWith`) and the refinements `ImplementsContract` and
  `ImplementsSource`: the former need fairness, the latter rest on reachability in
  a graph and on what a recursive evaluation computes;
- properties that compare with a recursion over a heap or a tree:
  `TextIsKept`, `StorageIsEnclosing`, and `VerdictIsRight` and `CastsAreComplete` of
  `TypeConversion`, whose `TypeOK` is not proved either.  The library's rules for
  induction take an operator, which the installed provers cannot instantiate; where
  a set can be named that the claim is about, the rules of `SequenceLemmas` do instead
  (tokens of a text, classes of references, nodes open to the right), which has not been
  done for these;
- `RefusedForOperandsOnly`, which quantifies over paths of the verified module;
- `NamesMeanNearest` and `LinkedToOwnText` of `SymbolScopes`, which compare what the
  passes found with recursions over the tree.

## Not modelled

- **Methods, constructors, `this`**: fields of classes are in `GenericExpansion`;
  methods would repeat what it and `SymbolScopes` say of fields and functions.
- **Anonymous templates** other than as the place where generic classes stand:
  `AnonymousTemplateSemanticPass` is a verdict on one statement.
- **Arithmetic, structures, loads and stores of the generator**: they keep no
  control; LLVM decides what they do.
- **The JIT's layers, the optimiser, the collector**: external.
- **Visualiser, command line options, history, formatting of messages**: output.
- **Two contexts in one process**: the program makes one.

## Plan

1. *(done)* TemplateExpansion with its contract and proofs; EmitControlFlow over
   SourceSemantics; ReplSession; PrattParse; TypeConversion; LexicalScan.
2. *(done)* SymbolScopes and GenericExpansion: what names mean, and which classes
   generic references are completed to.
3. **Proofs**: *(done)* TemplateExpansion, EmitControlFlow, ReplSession, the stacks,
   types and precedences of PrattParse, the reader and the tokens of LexicalScan, all of
   GenericExpansion, the tables, stacks and namespaces of SymbolScopes; *(left)* the properties listed above as
   only model-checked.
4. **Composition**: a session whose lines expand templates, to replace the
   verdict `FailLater` by the checks of TypeConversion on small trees.
