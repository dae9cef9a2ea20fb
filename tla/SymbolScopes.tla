---------------------------- MODULE SymbolScopes ----------------------------
(***************************************************************************)
(* Symbol tables: which table a name is entered in and which symbol a name *)
(* means, for one module with blocks, functions, classes, namespaces,      *)
(* named templates and their expansions.                                   *)
(*                                                                         *)
(* The syntax tree is the sequence `code' of its nodes in the order they   *)
(* are visited; a node with children is closed by an "end".  The expander  *)
(* inserts the copy of a template's body, new nodes all of them, behind    *)
(* the expansion, and runs the first four passes over the copy before it   *)
(* goes on.  Each run of passes is a frame: the visitor at work, where it  *)
(* is, and its stack of symbol tables (symbolTableStack_).                 *)
(***************************************************************************)
EXTENDS Integers, Sequences, FiniteSets

CONSTANTS
  Programs,     \* the modules compiled, as the parser hands them over
  Exported,     \* variables that earlier lines left in the global table
  Keyword       \* keywords of the scalar types

Opener == {"module", "block", "func", "namespace", "template", "expand"}
Leaf   == {"var", "class", "use"}

\* name: the path that is declared or used; params: names of the parameters of a
\* function or template; types: paths of the types of a variable or of a
\* function's parameters, or the arguments of an expansion.
\* A block is named by the span of its brace.  span: the place in the text, which a
\* copy keeps; id: a number that it does not keep.
Path == Seq(STRING)
Node == [op : Opener \union Leaf \union {"end"}, name : Path, params : Path,
         types : Seq(Path), span : Nat, id : Nat]

Least(S)    == CHOOSE i \in S : \A j \in S : i <= j
Greatest(S) == CHOOSE i \in S : \A j \in S : i >= j

Depth(text, i, j) ==
  Cardinality({k \in i..j : text[k].op \in Opener}) - Cardinality({k \in i..j : text[k].op = "end"})
EndOf(text, i) == Least({j \in i..Len(text) : Depth(text, i, j) = 0})
Around(text, i) == {j \in 1..(i - 1) : text[j].op \in Opener /\ EndOf(text, j) > i}

\* What the parser hands over: one module around everything, expansions that are
\* empty yet, a name on whatever is declared, used or opened.
WellFormed(text) ==
  /\ text \in Seq(Node) /\ text # <<>> /\ text[1].op = "module"
  /\ Depth(text, 1, Len(text)) = 0
  /\ \A j \in 1..(Len(text) - 1) : Depth(text, 1, j) > 0
  /\ \A i \in DOMAIN text :
       /\ text[i].id = i /\ text[i].span = i
       /\ text[i].op # "end" => text[i].name # <<>>
       /\ text[i].op = "expand" => text[i + 1].op = "end"
  /\ \A i, j \in DOMAIN text : text[i].op = "block" /\ text[i].name = text[j].name => i = j

ASSUME ProgramsAssumption == \A text \in Programs : WellFormed(text)

\* Circular expansions and wrong numbers of arguments are TemplateExpansion's: here
\* a template expands only what is declared before it or in it.  Nothing refuses a
\* template that names a parameter twice, addSymbol asserts when it is expanded.
ASSUME ParametersAssumption ==
  \A text \in Programs : \A i \in DOMAIN text : text[i].op = "template" =>
    \A k, l \in DOMAIN text[i].params : text[i].params[k] = text[i].params[l] => k = l

ASSUME ExpansionsAssumption ==
  \A text \in Programs : \A i, j \in DOMAIN text :
    /\ text[i].op = "template" /\ text[j].op = "expand"
    /\ text[i].name[1] = text[j].name[Len(text[j].name)]
    => /\ Len(text[i].params) = Len(text[j].types)
       /\ (\E k \in Around(text, j) : text[k].op = "template") => EndOf(text, i) < j

VARIABLES
  code,         \* the syntax tree
  tables,       \* symbol tables, by the node that owns them or a number of their own
  frames,       \* runs of passes, the one at work last
  scopeOf,      \* scope_ of the namespaces visited
  meaning,      \* symbols found for the names of a node
  definedSymbols,
  errorCount, firstError,
  verdict       \* "running" until the module is accepted, rejected or aborted

errors == <<errorCount, firstError>>
vars   == <<code, tables, frames, scopeOf, meaning, definedSymbols, errors, verdict>>

-----------------------------------------------------------------------------
World == 0      \* globalScope_
NoTable == -1

\* of, arg: the declaration, and which of its parameters; or a namespace's table.
\* full: fullyQualifiedName_.
Symbol(n, is, of, arg) ==
  [name |-> n, is |-> is, of |-> of, arg |-> arg, storage |-> "NotSet", full |-> <<>>]
None  == Symbol("", "none", -1, 0)
Early == Symbol("", "early", -1, 0)
Scalar == Symbol("", "scalar", -1, 0)

Table(kind, name, parent) == [kind |-> kind, name |-> name, parent |-> parent, symbols |-> {}]

\* storageKindStack_ of the parser: the innermost function or class body decides.
BlockKind(text, i) ==
  LET ClassBody(j) == j > 1 /\ text[j].op = "block" /\ text[j - 1].op = "class"
      deciding == {j \in Around(text, i) \union {i} : text[j].op = "func" \/ ClassBody(j)}
  IN  IF deciding = {} THEN "Global"
      ELSE IF text[Greatest(deciding)].op = "func" THEN "Local" ELSE "Instance"

OwnsTable == {"module", "block", "func", "expand"}
TableKind(text, i) ==
  CASE text[i].op = "module" -> "Global"
    [] text[i].op = "func"   -> "Argument"
    [] text[i].op = "expand" -> "TemplateParameter"
    [] text[i].op = "block"  -> BlockKind(text, i)

\* Mutant: all the blocks of one scope have one name.
NamedWithoutSpan(node) ==
  CASE node.op = "block"  -> <<"block">>
    [] node.op = "module" -> node.name
    [] node.op = "func"   -> node.name \o <<"parameters">>
    [] node.op = "expand" -> node.name \o <<"expanded_arguments">>

TableName(node) ==
  CASE node.op \in {"module", "block"} -> node.name
    [] node.op = "func"   -> node.name \o <<"parameters">>
    [] node.op = "expand" -> node.name \o <<"expanded_arguments">>

FindIn(ts, t, n) ==
  IF \E s \in ts[t].symbols : s.name = n THEN CHOOSE s \in ts[t].symbols : s.name = n ELSE None
Find(t, n) == FindIn(tables, t, n)

FindUp(t, n) ==
  LET search[s \in DOMAIN tables] ==
        IF Find(s, n) # None \/ tables[s].parent = NoTable THEN Find(s, n)
                                                           ELSE search[tables[s].parent]
  IN  search[t]

\* findQualifiedSymbol: only the first part is searched for in the parents.
Parts(t, path) ==
  LET part[i \in DOMAIN path] ==
        IF i = 1 THEN FindUp(t, path[1])
        ELSE IF part[i - 1].is = "namespace" THEN Find(part[i - 1].of, path[i]) ELSE None
  IN  part
FindQualified(t, path) == Parts(t, path)[Len(path)]

QualifiedError(t, path) ==
  LET part == Parts(t, path)
      i    == Least({k \in DOMAIN path : part[k] = None \/ (k < Len(path) /\ part[k].is # "namespace")})
  IN  CASE Len(path) = 1 -> "SymbolNotDefined"
        [] i = 1 /\ i < Len(path) /\ part[i] = None -> "NamespaceDoesNotExist"
        [] i = 1 /\ i < Len(path) /\ part[i] # None -> "IdentifierIsNotNamespace"
        [] i > 1 /\ i < Len(path) /\ part[i] = None -> "ChildNamespaceDoesNotExist"
        [] i > 1 /\ i < Len(path) /\ part[i] # None -> "MemberOfNamespaceIsNotNamespace"
        [] i > 1 /\ i = Len(path) -> "NamespaceMemberDoesNotExist"

FullName(ts, t) ==
  LET full[u \in DOMAIN ts] ==
        IF ts[u].parent = NoTable THEN ts[u].name ELSE full[ts[u].parent] \o ts[u].name
  IN  full[t]

\* Mutant: the symbol of a namespace is not entered in the table around it.
AddUnlessNamespace(ts, t, s) ==
  IF s.is = "namespace" THEN ts
  ELSE [ts EXCEPT ![t].symbols =
          @ \union {[s EXCEPT !.storage = ts[t].kind, !.full = Append(FullName(ts, t), s.name)]}]

AddSymbol(ts, t, s) ==
  [ts EXCEPT ![t].symbols =
     @ \union {[s EXCEPT !.storage = ts[t].kind, !.full = Append(FullName(ts, t), s.name)]}]

-----------------------------------------------------------------------------
NewFrame(at, base) ==
  [pass |-> "record", first |-> at, at |-> at, base |-> base, scopes |-> base,
   open |-> <<>>]

Init ==
  /\ code \in Programs
  /\ tables = [t \in {World} \union {i \in DOMAIN code : code[i].op \in OwnsTable} |->
                 IF t = World
                 THEN [Table("Global", <<"::">>, NoTable) EXCEPT !.symbols =
                         {[Symbol(n, "variable", 0, 1) EXCEPT !.storage = "Global"] : n \in Exported}]
                 ELSE Table(TableKind(code, t), TableName(code[t]), NoTable)]
  /\ frames = <<NewFrame(1, <<>>)>>
  /\ scopeOf = <<>> /\ meaning = <<>> /\ definedSymbols = {}
  /\ errorCount = 0 /\ firstError = "NoError" /\ verdict = "running"

Frame == frames[Len(frames)]
Here  == code[Frame.at]
Walked == Frame.at \in DOMAIN code => (Frame.open = <<>> /\ Here.op = "end")

Visiting(passes, ops) ==
  verdict = "running" /\ ~Walked /\ Frame.pass \in passes /\ Here.op \in ops

TopScope == Frame.scopes[Len(Frame.scopes)]

\* A namespace, or a declaration, in an expansion belongs to the scope around it.  A
\* table of parameters without a parent would be an assertion: it is never on top.
OutsideExpansions(ts, t) ==
  LET up[u \in DOMAIN ts] ==
        IF ts[u].kind # "TemplateParameter" \/ ts[u].parent = NoTable THEN u ELSE up[ts[u].parent]
  IN  up[t]
CurrentScope == OutsideExpansions(tables, TopScope)

GoTo(i)       == frames' = [frames EXCEPT ![Len(frames)].at = i]
Step          == GoTo(Frame.at + 1)
SkipChildren  == GoTo(EndOf(code, Frame.at) + 1)
Enter(scopes) ==
  frames' = [frames EXCEPT ![Len(frames)] =
               [Frame EXCEPT !.at = Frame.at + 1, !.scopes = Frame.scopes \o scopes,
                             !.open = Append(Frame.open, Len(scopes))]]

Report(kind, count) ==
  /\ errorCount' = errorCount + count
  /\ firstError' = IF errorCount = 0 /\ count > 0 THEN kind ELSE firstError

\* SetSymbolTableParentsPass.
WithParent(t, parent) == IF tables[t].parent = NoTable THEN [tables EXCEPT ![t].parent = parent]
                                                       ELSE tables

FollowScopes == {"record", "parents", "populate", "types", "symbols"}

EnterBlock ==
  /\ Visiting(FollowScopes, {"module", "block"})
  /\ tables' = IF Frame.pass = "parents"
               THEN WithParent(Here.id, IF Here.op = "module" THEN World ELSE TopScope) ELSE tables
  /\ Enter(<<Here.id>>)
  /\ UNCHANGED <<code, scopeOf, meaning, definedSymbols, errors, verdict>>

\* visitingNamespaceExpr: in every pass that follows scopes, a part of the path
\* that is not there is made.
EnterNamespace ==
  /\ Visiting(FollowScopes, {"namespace"})
  /\ LET fresh == 1 + Greatest(DOMAIN tables \union {code[i].id : i \in DOMAIN code})
         descend[i \in 0..Len(Here.name)] ==
           IF i = 0 THEN [tables |-> tables, path |-> <<CurrentScope>>, found |-> TRUE]
           ELSE LET d == descend[i - 1]
                    t == d.path[Len(d.path)]
                    s == FindIn(d.tables, t, Here.name[i])
                    new == fresh + i
                IN  CASE ~d.found -> d
                      [] d.found /\ s = None ->
                           [d EXCEPT !.path = Append(@, new),
                              !.tables = [u \in DOMAIN d.tables \union {new} |->
                                            IF u = new THEN Table("Global", <<Here.name[i]>>, t)
                                            ELSE AddSymbol(d.tables, t,
                                                   Symbol(Here.name[i], "namespace", new, 0))[u]]]
                      [] d.found /\ s.is = "namespace" -> [d EXCEPT !.path = Append(@, s.of)]
                      [] OTHER -> [d EXCEPT !.found = FALSE]
         last == descend[Len(Here.name)]
     IN  /\ tables' = last.tables
         /\ IF last.found
            THEN /\ Enter(Tail(last.path))
                 /\ scopeOf' = [n \in DOMAIN scopeOf \union {Here.id} |->
                                  IF n = Here.id THEN last.path[Len(last.path)] ELSE scopeOf[n]]
                 /\ UNCHANGED verdict
            ELSE verdict' = "asserted" /\ UNCHANGED <<frames, scopeOf>>
  /\ UNCHANGED <<code, meaning, definedSymbols, errors>>

\* Mutant: the second declaration of a name takes the place of the first.
DeclareAgain(ts, t, s) ==
  AddSymbol([ts EXCEPT ![t].symbols = {q \in @ : q.name # s.name}], t, s)

\* A name is entered once in a table; the second time is an error.
Declare(ts, t, s) ==
  IF FindIn(ts, t, s.name) = None THEN AddSymbol(ts, t, s) ELSE ts

Resolved(t, path) ==
  IF Len(path) = 1 /\ path[1] \in Keyword THEN Scalar ELSE FindQualified(t, path)
TypeError(t, path) ==
  LET found == Resolved(t, path)
  IN  CASE found = None -> QualifiedError(t, path)
        [] found # None /\ found.is \notin {"scalar", "class", "type"} -> "SymbolIsNotAType"
        [] OTHER -> "NoError"

\* ResolveTypesPass on the types of a node, in the scope t.
ResolveTypesIn(t) ==
  LET wrong == {k \in DOMAIN Here.types : TypeError(t, Here.types[k]) # "NoError"}
      at    == {<<Here.id, k>> : k \in DOMAIN Here.types}
  IN  /\ meaning' = [m \in DOMAIN meaning \union at |->
                       IF m \in at THEN Resolved(t, Here.types[m[2]]) ELSE meaning[m]]
      /\ Report(IF wrong = {} THEN "NoError" ELSE TypeError(t, Here.types[Least(wrong)]),
                Cardinality(wrong))

EnterFunction ==
  /\ Visiting({"record", "parents", "symbols"}, {"func"})
  /\ tables' = IF Frame.pass = "parents" THEN WithParent(Here.id, TopScope) ELSE tables
  /\ Enter(<<Here.id>>)
  /\ UNCHANGED <<code, scopeOf, meaning, definedSymbols, errors, verdict>>

\* The parameters of a function that is declared twice are not entered.
DeclareFunction ==
  /\ Visiting({"populate"}, {"func"})
  /\ LET function == Symbol(Here.name[1], "function", Here.id, 0)
         repeated == {k \in DOMAIN Here.params : \E j \in 1..(k - 1) : Here.params[j] = Here.params[k]}
         entered[k \in 0..Len(Here.params)] ==
           IF k = 0 THEN Declare(tables, CurrentScope, function)
           ELSE Declare(entered[k - 1], Here.id, Symbol(Here.params[k], "variable", Here.id, k))
     IN  IF Find(CurrentScope, Here.name[1]) = None
         THEN /\ tables' = entered[Len(Here.params)]
              /\ Report("SymbolAlreadyDefinedInScope", Cardinality(repeated))
         ELSE Report("SymbolAlreadyDefinedInScope", 1) /\ UNCHANGED tables
  /\ Enter(<<Here.id>>)
  /\ UNCHANGED <<code, scopeOf, meaning, definedSymbols, verdict>>

\* The types of the parameters are looked up with the function's table on the stack.
ResolveParameters ==
  /\ Visiting({"types"}, {"func"})
  /\ ResolveTypesIn(Here.id)
  /\ Enter(<<Here.id>>)
  /\ UNCHANGED <<code, tables, scopeOf, definedSymbols, verdict>>

\* The arguments of an expansion are visited before its table is on the stack.
EnterExpansion ==
  /\ Visiting(FollowScopes, {"expand"})
  /\ tables' = IF Frame.pass = "parents" THEN WithParent(Here.id, TopScope) ELSE tables
  /\ IF Frame.pass = "types" THEN ResolveTypesIn(TopScope) ELSE UNCHANGED <<meaning, errors>>
  /\ Enter(<<Here.id>>)
  /\ UNCHANGED <<code, scopeOf, definedSymbols, verdict>>

LeaveScope ==
  /\ verdict = "running" /\ ~Walked /\ Here.op = "end"
  /\ LET pushed == Frame.open[Len(Frame.open)]
     IN  frames' = [frames EXCEPT ![Len(frames)] =
                      [Frame EXCEPT !.at = Frame.at + 1,
                                    !.open = SubSeq(Frame.open, 1, Len(Frame.open) - 1),
                                    !.scopes = SubSeq(Frame.scopes, 1, Len(Frame.scopes) - pushed)]]
  /\ UNCHANGED <<code, tables, scopeOf, meaning, definedSymbols, errors, verdict>>

-----------------------------------------------------------------------------
\* The recorder alone looks into templates that are not expanded.
RecordTemplate ==
  /\ Visiting({"record"}, {"template"})
  /\ Enter(<<>>)
  /\ UNCHANGED <<code, tables, scopeOf, meaning, definedSymbols, errors, verdict>>

SkipTemplate ==
  /\ Visiting({"parents", "expand", "types", "symbols"}, {"template"})
  /\ SkipChildren
  /\ UNCHANGED <<code, tables, scopeOf, meaning, definedSymbols, errors, verdict>>

DeclareIn(t, s) ==
  /\ tables' = Declare(tables, t, s)
  /\ Report("SymbolAlreadyDefinedInScope", IF Find(t, s.name) = None THEN 0 ELSE 1)

DeclareTemplate ==
  /\ Visiting({"populate"}, {"template"})
  /\ DeclareIn(CurrentScope, Symbol(Here.name[1], "template", Here.id, 0))
  /\ SkipChildren
  /\ UNCHANGED <<code, scopeOf, meaning, definedSymbols, verdict>>

\* Mutant: the table on top of the stack is taken, be it that of an expansion.
DeclareInExpansion ==
  /\ Visiting({"populate"}, {"var", "class"})
  /\ LET is == IF Here.op = "var" THEN "variable" ELSE "class"
     IN  DeclareIn(TopScope, Symbol(Here.name[1], is, Here.id, IF is = "variable" THEN 1 ELSE 0))
  /\ Step
  /\ UNCHANGED <<code, scopeOf, meaning, definedSymbols, verdict>>

DeclareVariableOrClass ==
  /\ Visiting({"populate"}, {"var", "class"})
  /\ LET is == IF Here.op = "var" THEN "variable" ELSE "class"
     IN  DeclareIn(CurrentScope, Symbol(Here.name[1], is, Here.id, IF is = "variable" THEN 1 ELSE 0))
  /\ Step
  /\ UNCHANGED <<code, scopeOf, meaning, definedSymbols, verdict>>

ResolveVariableType ==
  /\ Visiting({"types"}, {"var"})
  /\ ResolveTypesIn(TopScope)
  /\ Step
  /\ UNCHANGED <<code, tables, scopeOf, definedSymbols, verdict>>

-----------------------------------------------------------------------------
(***************************************************************************)
(* ResolveSymbolsPass.  A local has to be defined before it is used; this  *)
(* does not apply to classes, to functions and to variables of class type. *)
(***************************************************************************)
SymbolOf(i) == {s \in tables[CurrentScope].symbols : s.of = code[i].id}

DefineVariable ==
  /\ Visiting({"symbols"}, {"var"})
  /\ definedSymbols' = definedSymbols \union {s \in SymbolOf(Frame.at) : s.storage = "Local"}
  /\ Step
  /\ UNCHANGED <<code, tables, scopeOf, meaning, errors, verdict>>

\* actualType() of the symbol's type, as a symbol.
ActualType(s) ==
  LET after[n \in 0..Len(code)] ==
        IF n = 0 THEN s
        ELSE LET t == after[n - 1]
             IN  IF t.is \in {"variable", "type"} /\ t.of # World THEN meaning[<<t.of, t.arg>>] ELSE t
  IN  after[Len(code)]
IsClass(s) == ActualType(s).is = "class"

\* Mutant: a use before the definition is not noticed.
UsedEarlyUnnoticed(s) == FALSE

UsedEarly(s) ==
  /\ s.storage = "Local" /\ s \notin definedSymbols
  /\ s.is # "function" /\ ~IsClass(s)

ResolveUse ==
  /\ Visiting({"symbols"}, {"use"})
  /\ LET found == FindQualified(TopScope, Here.name)
         early == found # None /\ UsedEarly(found)
     IN  /\ meaning' = [m \in DOMAIN meaning \union {<<Here.id, 0>>} |->
                          IF m = <<Here.id, 0>> THEN (IF early THEN Early ELSE found) ELSE meaning[m]]
         /\ Report(CASE found = None -> QualifiedError(TopScope, Here.name)
                     [] early -> "VariableUsedBeforeDefinition"
                     [] OTHER -> "NoError",
                   IF found = None \/ early THEN 1 ELSE 0)
  /\ Step
  /\ UNCHANGED <<code, tables, scopeOf, definedSymbols, verdict>>

SkipLeaf ==
  /\ \/ Visiting({"record", "parents", "expand"}, Leaf)
     \/ Visiting({"populate", "types"}, {"use"})
     \/ Visiting({"types", "symbols"}, {"class"})
  /\ Step
  /\ UNCHANGED <<code, tables, scopeOf, meaning, definedSymbols, errors, verdict>>

-----------------------------------------------------------------------------
(***************************************************************************)
(* NamedTemplateExpanderPass: it keeps no scopes, and looks the template   *)
(* up from the parent of the expansion's table.                            *)
(***************************************************************************)
WalkInto ==
  /\ Visiting({"expand"}, {"module", "block", "func", "namespace"})
  /\ Enter(<<>>)
  /\ UNCHANGED <<code, tables, scopeOf, meaning, definedSymbols, errors, verdict>>

Expanding == Visiting({"expand"}, {"expand"})
Sought    == FindQualified(tables[Here.id].parent, Here.name)
SoughtAt  == CHOOSE i \in DOMAIN code : code[i].op = "template" /\ code[i].id = Sought.of

ExpandRefused ==
  /\ Expanding /\ Sought.is # "template"
  /\ Report(IF Sought = None THEN QualifiedError(tables[Here.id].parent, Here.name)
                             ELSE "SymbolIsNotATemplate", 1)
  /\ SkipChildren
  /\ UNCHANGED <<code, tables, scopeOf, meaning, definedSymbols, verdict>>

Expand ==
  /\ Expanding /\ Sought.is = "template"
  /\ LET body   == SubSeq(code, SoughtAt + 1, EndOf(code, SoughtAt) - 1)
         fresh  == Greatest(DOMAIN tables \union {code[i].id : i \in DOMAIN code})
         copy   == [i \in DOMAIN body |-> [body[i] EXCEPT !.id = fresh + i]]
         owners == {i \in DOMAIN body : body[i].op \in OwnsTable}
         params == code[SoughtAt].params
         argument[k \in 0..Len(params)] ==
           IF k = 0 THEN tables
           ELSE AddSymbol(argument[k - 1], Here.id, Symbol(params[k], "type", Here.id, k))
         before == SubSeq(code, 1, Frame.at)
         after  == SubSeq(code, Frame.at + 1, Len(code))
     IN  /\ code' = before \o copy \o after
         /\ tables' = [t \in DOMAIN tables \union {copy[i].id : i \in owners} |->
                         IF t > fresh
                         THEN Table(tables[body[t - fresh].id].kind, TableName(body[t - fresh]), NoTable)
                         ELSE argument[Len(params)][t]]
         /\ frames' = Append(frames, NewFrame(Frame.at + 1, <<Here.id>>))
  /\ UNCHANGED <<scopeOf, meaning, definedSymbols, errors, verdict>>

(***************************************************************************)
(* runPasses: over a copy the first four passes, over the module all of    *)
(* them; the first one that leaves an error is the last.                   *)
(***************************************************************************)
NextPass == [record |-> "parents", parents |-> "populate", populate |-> "expand",
             expand |-> "types", types |-> "symbols", symbols |-> "over"]
LastPass == IF Len(frames) > 1 THEN "expand" ELSE "symbols"

EndPass ==
  /\ verdict = "running" /\ Walked
  /\ errorCount = 0 /\ Frame.pass # LastPass
  /\ frames' = [frames EXCEPT ![Len(frames)] =
                  [Frame EXCEPT !.pass = NextPass[Frame.pass], !.at = Frame.first, !.scopes = Frame.base]]
  /\ UNCHANGED <<code, tables, scopeOf, meaning, definedSymbols, errors, verdict>>

PassesOver == verdict = "running" /\ Walked /\ (errorCount > 0 \/ Frame.pass = LastPass)

\* The expander that asked for the copy goes on behind it.
EndExpansion ==
  /\ PassesOver /\ Len(frames) > 1
  /\ frames' = [SubSeq(frames, 1, Len(frames) - 1) EXCEPT ![Len(frames) - 1].at = Frame.at + 1]
  /\ UNCHANGED <<code, tables, scopeOf, meaning, definedSymbols, errors, verdict>>

EndModule ==
  /\ PassesOver /\ Len(frames) = 1
  /\ verdict' = IF errorCount > 0 THEN "rejected" ELSE "accepted"
  /\ UNCHANGED <<code, tables, frames, scopeOf, meaning, definedSymbols, errors>>

Over == verdict # "running" /\ UNCHANGED vars

\* What DeclareFuncsAstVisitor and GlobalVariableAstVisitor look up by name.
Linked == {s \in UNION {tables[t].symbols : t \in DOMAIN tables} :
             s.of # World /\ (s.is = "function" \/ (s.is = "variable" /\ s.storage = "Global"))}

Next ==
  \/ EnterBlock \/ EnterNamespace \/ EnterFunction \/ DeclareFunction \/ ResolveParameters
  \/ EnterExpansion \/ LeaveScope
  \/ RecordTemplate \/ SkipTemplate \/ DeclareTemplate \/ DeclareVariableOrClass
  \/ ResolveVariableType \/ DefineVariable \/ ResolveUse \/ SkipLeaf
  \/ WalkInto \/ ExpandRefused \/ Expand
  \/ EndPass \/ EndExpansion \/ EndModule \/ Over

Spec == Init /\ [][Next]_vars

-----------------------------------------------------------------------------
(***************************************************************************)
(* What names mean, read off the tree alone.  A scope is the node that     *)
(* opens it, and for a namespace the node around it with the path from     *)
(* there: namespaces of one path in one scope are one scope, wherever they *)
(* are reopened.  An expansion is a scope for the template's parameters    *)
(* only; what its copy declares belongs around it, and a namespace in the  *)
(* copy does not see the parameters.  Namespaces in a template count also  *)
(* where it is not expanded: the recorder makes them.                      *)
(***************************************************************************)
Home(i)      == Greatest({j \in Around(code, i) : code[j].op \notin {"expand", "template"}})
Innermost(i) == Greatest({j \in Around(code, i) : code[j].op # "template"})
Reached(i)   == ~\E j \in Around(code, i) : code[j].op = "template"

Identity[i \in 1..Len(code)] ==
  IF code[i].op = "namespace" THEN Identity[Home(i)] \o code[i].name ELSE <<code[i].id>>

\* The scopes that are searched from inside the opener i.
Layers[i \in 1..Len(code)] ==
  LET path == code[i].name
  IN  CASE code[i].op = "module"    -> <<Identity[i]>>
        [] code[i].op = "namespace" ->
             [k \in DOMAIN path |-> Identity[Home(i)] \o SubSeq(path, 1, Len(path) + 1 - k)]
             \o Layers[Home(i)]
        [] OTHER -> <<Identity[i]>> \o Layers[Innermost(i)]

Declaration(is, of, arg, scope) ==
  [is |-> is, of |-> of, arg |-> arg,
   local |-> \E i \in DOMAIN code : /\ code[i].op = "block" /\ <<code[i].id>> = scope
                                     /\ tables[code[i].id].kind = "Local"]
IsOf == [var |-> "variable", func |-> "function", class |-> "class", template |-> "template"]

Declared(scope, n) ==
  {Declaration(IsOf[code[i].op], code[i].id, IF code[i].op = "var" THEN 1 ELSE 0, scope) :
     i \in {j \in DOMAIN code : /\ code[j].op \in DOMAIN IsOf /\ code[j].name[1] = n
                                /\ Reached(j) /\ Identity[Home(j)] = scope}}
  \union UNION {{Declaration("variable", code[i].id, k, scope) :
                   k \in {l \in DOMAIN code[i].params : code[i].params[l] = n}} :
                 i \in {j \in DOMAIN code : code[j].op = "func" /\ <<code[j].id>> = scope}}
  \union {Declaration("type", s.of, s.arg, scope) :
            s \in {q \in UNION {tables[code[i].id].symbols :
                                 i \in {j \in DOMAIN code : code[j].op = "expand"}} :
                     q.is = "type" /\ q.name = n /\ <<q.of>> = scope}}
  \union (IF \E i \in DOMAIN code :
               /\ code[i].op = "namespace"
               /\ \E k \in DOMAIN code[i].name :
                    /\ code[i].name[k] = n
                    /\ Identity[Home(i)] \o SubSeq(code[i].name, 1, k - 1) = scope
          THEN {Declaration("namespace", 0, 0, scope)} ELSE {})

\* The innermost scope that declares the first part decides; the other parts are
\* members of namespaces.
Candidates(i, path) ==
  LET layers == Layers[IF code[i].op = "func" THEN i ELSE Innermost(i)]
      hits   == {k \in DOMAIN layers : Declared(layers[k], path[1]) # {}}
      scope(k) == layers[Least(hits)] \o SubSeq(path, 1, k - 1)
      last   == Len(path)
  IN  CASE hits = {} /\ path[1] \in Exported /\ last = 1 -> {Declaration("variable", World, 1, <<World>>)}
        [] hits # {} /\ \A k \in 1..(last - 1) :
                          \E d \in Declared(scope(k), path[k]) : d.is = "namespace" ->
             Declared(scope(last), path[last])
        [] OTHER -> {}

\* A use of a local variable that stands before its definition.  A local namespace
\* or template is never defined in this sense.
PlaceOf(d) == CHOOSE i \in DOMAIN code : code[i].id = d.of
TooEarly(i, d) ==
  /\ d.local
  /\ \/ d.is \in {"namespace", "template"}
     \/ d.is = "variable" /\ PlaceOf(d) > i /\ ~IsClass(d)

MeansRight(i, k) ==
  LET found == meaning[<<code[i].id, k>>]
      path  == IF k = 0 THEN code[i].name ELSE code[i].types[k]
      right == Candidates(i, path)
  IN  CASE k > 0 /\ Len(path) = 1 /\ path[1] \in Keyword -> found = Scalar
        [] found = None  -> right = {}
        [] found = Early -> \E d \in right : TooEarly(i, d)
        [] OTHER -> \E d \in right :
                      /\ d.is = found.is /\ ~(k = 0 /\ TooEarly(i, d))
                      /\ d.is = "namespace" \/ (d.of = found.of /\ d.arg = found.arg)

-----------------------------------------------------------------------------
\* The tables that are at most n steps above t.
Ancestors(t, n) ==
  LET above[i \in 0 .. n] ==
        [u \in DOMAIN tables |-> IF i = 0 \/ tables[u].parent = NoTable THEN {}
                                 ELSE {tables[u].parent} \union above[i - 1][tables[u].parent]]
  IN  above[n][t]

\* The height of a stack that the open nodes pushed on.
Heaped(base, open) ==
  LET height[i \in 0 .. Len(open)] == IF i = 0 THEN Len(base) ELSE height[i - 1] + open[i]
  IN  height[Len(open)]

\* The type invariant.  The tables are a forest: no table is above itself, however far
\* one goes up, and the table of a namespace hangs below the one that names it.
\* Every visitor is as deep in the tree as it has nodes open, and has on its stack
\* what it set out with and as many tables as those nodes pushed.
TypeOK ==
  /\ \A i, j \in DOMAIN code : code[i].id = code[j].id => i = j
  /\ \A t \in DOMAIN tables :
       /\ tables[t].kind \in {"Global", "Argument", "TemplateParameter", "Local", "Instance"}
       /\ tables[t].parent \in {NoTable} \union DOMAIN tables /\ t \notin Ancestors(t, Cardinality(DOMAIN tables))
       /\ \A s, r \in tables[t].symbols : s.name = r.name => s = r
       /\ \A s \in tables[t].symbols :
            /\ s.storage = tables[t].kind
            /\ s.is = "namespace" => tables[s.of].parent = t
            /\ tables[t].kind = "TemplateParameter" <=> s.is = "type"
  /\ \A f \in DOMAIN frames :
       /\ frames[f].pass \in DOMAIN NextPass
       /\ \A i \in DOMAIN frames[f].scopes : frames[f].scopes[i] \in DOMAIN tables \ {World}
       /\ Len(frames[f].open) = Depth(code, frames[f].first, frames[f].at - 1)
       /\ Len(frames[f].scopes) = Heaped(frames[f].base, frames[f].open)
  /\ \A n \in DOMAIN scopeOf : scopeOf[n] \in DOMAIN tables
  /\ errorCount = 0 <=> firstError = "NoError"
  /\ verdict \in {"running", "accepted", "rejected", "asserted"}

(***************************************************************************)
(* Whatever is nested, reopened, shadowed or expanded where, each name     *)
(* that the passes look up means the declaration in the nearest scope, or  *)
(* is refused because there is none or because it is a local that is not   *)
(* defined yet.                                                            *)
(***************************************************************************)
NamesMeanNearest ==
  verdict # "running" =>
    \A m \in DOMAIN meaning : \E i \in DOMAIN code : code[i].id = m[1] /\ MeansRight(i, m[2])

(***************************************************************************)
(* Every pass finds its way into the namespaces anew; it finds the tables  *)
(* that the first has made, whatever has been declared since.              *)
(***************************************************************************)
NamespaceIsStable == [][\A n \in DOMAIN scopeOf : scopeOf'[n] = scopeOf[n]]_vars

(***************************************************************************)
(* "Hrm... this code should be unreacahble" (ScopeFollowingAstVisitor.h):  *)
(* it is reached, but only by the recorder in the copy of a template that  *)
(* is expanded where a part of a namespace's path is something else.       *)
(***************************************************************************)
AssertedInCopyOnly ==
  verdict = "asserted" => Len(frames) > 1 /\ Frame.pass = "record"

(***************************************************************************)
(* The generator looks functions and global variables up in the LLVM       *)
(* module by their full names and takes what is there: of two with one     *)
(* name the later one is linked to the earlier.  Blocks, parameters,       *)
(* namespaces and expansions name their tables so that this befalls only   *)
(* two copies of one text, which blocks in a template that is expanded     *)
(* twice in one place give.                                                *)
(***************************************************************************)
LinkedToOwnText ==
  verdict = "accepted" =>
    \A s, r \in Linked :
      s.full = r.full => code[PlaceOf(s)].span = code[PlaceOf(r)].span
=============================================================================
