-------------------------- MODULE GenericExpansion --------------------------
(***************************************************************************)
(* Completion of generic classes, one module (one line of the REPL) after  *)
(* another.                                                                *)
(*                                                                         *)
(* A reference to a type that the parser cannot know is an object, a       *)
(* ResolutionDeferredTypeRef with the ResolutionDeferredType it owns; here *)
(* both are one entry of the heap `refs'.  A type is found in four passes: *)
(* ResolveTypesPass points a reference at a scalar, a class, a generic or  *)
(* (for a template parameter) another reference;                           *)
(* ExpandClassesWithinAnonymousTemplates makes a class for every generic   *)
(* that is referenced with arguments it has no class for and appends it to *)
(* the module it is walking; ConvertGenericTypeRefsToCompletePass points   *)
(* each reference to a generic at the class; PrepareClassesVisitor gives   *)
(* the classes of the module their fields.  What outlives a line is the    *)
(* list of classes of each GenericType, also when the line is rejected.    *)
(*                                                                         *)
(* Left out: PopulateGenericTypesWithCompleteTypesPass.  It looks, inside  *)
(* the copies of named templates, for classes that have a generic type;    *)
(* such a class is only made by the expansion modelled here, which appends *)
(* it to the module's body and never to a copy, so the pass finds none.    *)
(***************************************************************************)
EXTENDS Integers, Sequences, FiniteSets

CONSTANTS
  Definition,   \* generic -> [params, body], declared by an earlier line
  ClassName,    \* classes that are not generic, declared there too
  Keyword,      \* keywords of the scalar types
  Variable,     \* names that are defined and are no types
  Lines         \* a session is Len(Lines) lines; Lines[i]: what its i-th may be

Generic == DOMAIN Definition

\* The references of a text in the order the visitors reach them: arguments
\* come before the reference they are arguments of, which names them by place.
Text == Seq([name : STRING, args : Seq(Nat \ {0})])
WellFormed(text) ==
  \A i \in DOMAIN text : \A k \in DOMAIN text[i].args : text[i].args[k] < i

\* reads: references to the type of an object of which the line reads the first
\* field; fault: the pass that finds another mistake in the line.
Line == [uses : Text, reads : SUBSET Nat, fault : {"none", "symbols", "casts"}]

ASSUME DefinitionAssumption ==
  \A g \in Generic : /\ Definition[g].params \in Seq(STRING) \ {<<>>}
                     /\ Definition[g].body \in Text
                     /\ WellFormed(Definition[g].body)
ASSUME LinesAssumption ==
  /\ Lines \in Seq(SUBSET Line)
  /\ \A i \in DOMAIN Lines : \A l \in Lines[i] :
       WellFormed(l.uses) /\ l.reads \subseteq DOMAIN l.uses

VARIABLES
  line,         \* number of lines started
  source,       \* the last of them
  verdicts,     \* of the lines finished
  pass,         \* the visitor at work, or "prompt"
  todo,         \* references it has still to visit
  refs,         \* the heap of references
  classes,      \* the classes completed from generics, in the order they were made
  expanded,     \* expandedClasses_ of each GenericType: places in `classes'
  appended,     \* the classes appended to the module being compiled
  errorCount, firstError

errors == <<errorCount, firstError>>
heap   == <<refs, classes, expanded, appended>>
vars   == <<line, source, verdicts, pass, todo, heap, errors>>

-----------------------------------------------------------------------------
\* What actualType_ of a ResolutionDeferredType can point at.
Unresolved     == [is |-> "unresolved"]
Scalar(n)      == [is |-> "scalar", name |-> n]
Plain(n)       == [is |-> "class", name |-> n]
GenericType(g) == [is |-> "generic", name |-> g]
Completed(c)   == [is |-> "completed", class |-> c]
AliasOf(r)     == [is |-> "alias", ref |-> r]

Target == {Unresolved} \union {Scalar(n) : n \in Keyword} \union {Plain(n) : n \in ClassName}
          \union {GenericType(g) : g \in Generic}
          \union {Completed(c) : c \in DOMAIN classes} \union {AliasOf(r) : r \in DOMAIN refs}

ErrorKind == {"NoError", "SymbolNotDefined", "SymbolIsNotAType",
              "TypeIsNotGenericButIsReferencedWithGenericArgs",
              "IncorrectNumberOfGenericArguments",
              "GenericTypeWasNotExpandedWithSpecifiedArguments",
              "LeftOfDotNotClass", "ClassMemberNotFound", "Other"}

Unmapped == -1

\* actualType(): a deferred type that points at another asks that one.
Actual(r) ==
  LET actualType[q \in DOMAIN refs] ==
        IF refs[q].target.is = "alias" THEN actualType[refs[q].target.ref] ELSE refs[q].target
  IN  actualType[r]

(***************************************************************************)
(* findExpandedClassType.  A GenericType compares itself, as a pointer,    *)
(* with the deferred type it is asked about: it is the same type as none.  *)
(***************************************************************************)
SameType(r, other) == Actual(r).is # "generic" /\ Actual(other) = Actual(r)

ArgsMatch(c, args) == \A k \in DOMAIN args : SameType(classes[c].args[k], args[k])

Matches(g, args) == {i \in DOMAIN expanded[g] : ArgsMatch(expanded[g][i], args)}
First(S) == CHOOSE i \in S : \A j \in S : i <= j

\* Mutant: the newest class is taken instead of the oldest.
FoundLast(g, args) == expanded[g][CHOOSE i \in Matches(g, args) :
                                    \A j \in Matches(g, args) : i >= j]

Found(g, args) == expanded[g][First(Matches(g, args))]

(***************************************************************************)
(* ResolveTypesPass: a name is a keyword, a parameter of the class the     *)
(* reference stands in (a TypeSymbol of the scope that wraps a completed   *)
(* class), or a name of the line's surroundings.                           *)
(***************************************************************************)
LookUp(n, parameters, args) ==
  IF n \in Keyword THEN Scalar(n)
  ELSE IF \E k \in DOMAIN parameters : parameters[k] = n
       THEN AliasOf(args[First({k \in DOMAIN parameters : parameters[k] = n})])
  ELSE IF n \in Generic THEN GenericType(n)
  ELSE IF n \in ClassName THEN Plain(n)
  ELSE Unresolved

LookUpError(n) == IF n \in Variable THEN "SymbolIsNotAType" ELSE "SymbolNotDefined"

\* Parsing, or deep-copying, a text makes new references for all of it.
Copy(text, of, in, parameters, args, resolved) ==
  [i \in DOMAIN text |->
     [name   |-> text[i].name,
      args   |-> [k \in DOMAIN text[i].args |-> text[i].args[k] + Len(refs)],
      line   |-> of, in |-> in,
      target |-> IF resolved THEN LookUp(text[i].name, parameters, args) ELSE Unresolved]]

Places(text) == [i \in DOMAIN text |-> i + Len(refs)]

-----------------------------------------------------------------------------
Blank == [uses |-> <<>>, reads |-> {}, fault |-> "none"]

Init ==
  /\ line = 0 /\ source = Blank /\ verdicts = <<>> /\ pass = "prompt" /\ todo = <<>>
  /\ refs = <<>> /\ classes = <<>> /\ expanded = [g \in Generic |-> <<>>] /\ appended = <<>>
  /\ errorCount = 0 /\ firstError = "NoError"

\* Mutant: the error is written but not counted.
ReportUncounted(kind) ==
  /\ firstError' = IF errorCount = 0 THEN kind ELSE firstError
  /\ UNCHANGED errorCount

Report(kind) ==
  /\ errorCount' = errorCount + 1
  /\ firstError' = IF errorCount = 0 THEN kind ELSE firstError

BeginLine ==
  /\ pass = "prompt" /\ line < Len(Lines)
  /\ line' = line + 1
  /\ source' \in Lines[line + 1]
  /\ refs' = refs \o Copy(source'.uses, line + 1, 0, <<>>, <<>>, FALSE)
  /\ todo' = Places(source'.uses)
  /\ pass' = "resolve" /\ appended' = <<>>
  /\ errorCount' = 0 /\ firstError' = "NoError"
  /\ UNCHANGED <<verdicts, classes, expanded>>

Visiting(p) == pass = p /\ todo # <<>>
Here == Head(todo)
Ref  == refs[Here]

\* visitedResolutionDeferredTypeRef of ResolveTypesPass.
ResolveType ==
  /\ Visiting("resolve")
  /\ todo' = Tail(todo)
  /\ LET found == LookUp(Ref.name, <<>>, <<>>)
     IN  IF found = Unresolved
         THEN Report(LookUpError(Ref.name)) /\ UNCHANGED refs
         ELSE refs' = [refs EXCEPT ![Here].target = found] /\ UNCHANGED errors
  /\ UNCHANGED <<line, source, verdicts, pass, classes, expanded, appended>>

-----------------------------------------------------------------------------
(***************************************************************************)
(* ExpandClassesWithinAnonymousTemplates.  The walk is over the statements *)
(* the module had when it began: the references inside the classes that it *)
(* appends are resolved, and never expanded.                               *)
(***************************************************************************)
Expanding == Visiting("expand") /\ todo' = Tail(todo)
NothingMade == UNCHANGED heap

SkipUnlessGenericRef ==
  /\ Expanding /\ Ref.args = <<>>
  /\ NothingMade
  /\ UNCHANGED <<line, source, verdicts, pass, errors>>

ExpandNotGeneric ==
  /\ Expanding /\ Ref.args # <<>> /\ Actual(Here).is # "generic"
  /\ Report("TypeIsNotGenericButIsReferencedWithGenericArgs")
  /\ NothingMade
  /\ UNCHANGED <<line, source, verdicts, pass>>

ToExpand(g) == Expanding /\ Ref.args # <<>> /\ Actual(Here) = GenericType(g)
RightNumber(g) == Len(Ref.args) = Len(Definition[g].params)

ExpandWrongNumber ==
  \E g \in Generic :
    /\ ToExpand(g) /\ ~RightNumber(g)
    /\ Report("IncorrectNumberOfGenericArguments")
    /\ NothingMade
    /\ UNCHANGED <<line, source, verdicts, pass>>

AlreadyExpanded ==
  \E g \in Generic :
    /\ ToExpand(g) /\ RightNumber(g) /\ Matches(g, Ref.args) # {}
    /\ NothingMade
    /\ UNCHANGED <<line, source, verdicts, pass, errors>>

\* Mutant: the types of the copy are resolved before its parameters have a scope.
MakeClassUnscoped(g) ==
  LET body == Definition[g].body
  IN  /\ refs' = refs \o Copy(body, line, Len(classes) + 1, <<>>, <<>>, TRUE)
      /\ classes' = Append(classes, [of |-> g, args |-> Ref.args, body |-> Places(body),
                                     line |-> line, prepared |-> FALSE, layout |-> Unmapped])
      /\ expanded' = [expanded EXCEPT ![g] = Append(@, Len(classes) + 1)]
      /\ appended' = Append(appended, Len(classes) + 1)
      /\ UNCHANGED errors

\* deepCopyExpandTemplate, addExpandedClass, the scope of the parameters, and
\* ResolveTypesPass over the copy, unless the line already has an error.
MakeClass(g) ==
  LET body     == Definition[g].body
      copy     == Copy(body, line, Len(classes) + 1, Definition[g].params, Ref.args, errorCount = 0)
      unknown  == {i \in DOMAIN copy : copy[i].target = Unresolved}
  IN  /\ refs' = refs \o copy
      /\ classes' = Append(classes, [of |-> g, args |-> Ref.args, body |-> Places(body),
                                     line |-> line, prepared |-> FALSE, layout |-> Unmapped])
      /\ expanded' = [expanded EXCEPT ![g] = Append(@, Len(classes) + 1)]
      /\ appended' = Append(appended, Len(classes) + 1)
      /\ IF errorCount = 0 /\ unknown # {}
         THEN /\ errorCount' = Cardinality(unknown)
              /\ firstError' = LookUpError(body[First(unknown)].name)
         ELSE UNCHANGED errors

\* Mutant: no class is made for arguments that are themselves generic.
ExpandFlatOnly ==
  \E g \in Generic :
    /\ ToExpand(g) /\ RightNumber(g) /\ Matches(g, Ref.args) = {}
    /\ IF \E k \in DOMAIN Ref.args : Actual(Ref.args[k]).is = "generic"
       THEN NothingMade /\ UNCHANGED errors
       ELSE MakeClass(g)
    /\ UNCHANGED <<line, source, verdicts, pass>>

ExpandClass ==
  \E g \in Generic :
    /\ ToExpand(g) /\ RightNumber(g) /\ Matches(g, Ref.args) = {}
    /\ MakeClass(g)
    /\ UNCHANGED <<line, source, verdicts, pass>>

-----------------------------------------------------------------------------
(***************************************************************************)
(* ConvertGenericTypeRefsToCompletePass, over the line's references and    *)
(* those of the classes the line has appended.                             *)
(***************************************************************************)
Converting == Visiting("convert") /\ todo' = Tail(todo)

SkipUnlessGeneric ==
  /\ Converting /\ Actual(Here).is # "generic" /\ Ref.args = <<>>
  /\ UNCHANGED <<line, source, verdicts, pass, heap, errors>>

ConvertNotGeneric ==
  /\ Converting /\ Actual(Here).is # "generic" /\ Ref.args # <<>>
  /\ Report("TypeIsNotGenericButIsReferencedWithGenericArgs")
  /\ UNCHANGED <<line, source, verdicts, pass, heap>>

ToConvert(g) == Converting /\ Actual(Here) = GenericType(g)

ConvertWrongNumber ==
  \E g \in Generic :
    /\ ToConvert(g) /\ ~RightNumber(g)
    /\ Report("IncorrectNumberOfGenericArguments")
    /\ UNCHANGED <<line, source, verdicts, pass, heap>>

NotExpanded ==
  \E g \in Generic :
    /\ ToConvert(g) /\ RightNumber(g) /\ Matches(g, Ref.args) = {}
    /\ Report("GenericTypeWasNotExpandedWithSpecifiedArguments")
    /\ UNCHANGED <<line, source, verdicts, pass, heap>>

Convert ==
  \E g \in Generic :
    /\ ToConvert(g) /\ RightNumber(g) /\ Matches(g, Ref.args) # {}
    /\ refs' = [refs EXCEPT ![Here].target = Completed(Found(g, Ref.args))]
    /\ UNCHANGED <<line, source, verdicts, pass, classes, expanded, appended, errors>>

-----------------------------------------------------------------------------
(***************************************************************************)
(* runPasses: a visitor walks to the end; the first one after which there  *)
(* is an error is the last.  What the line made stays where it was put.    *)
(***************************************************************************)
LineEnds(verdict) ==
  /\ pass' = "prompt"
  /\ verdicts' = Append(verdicts, verdict)
  /\ UNCHANGED <<line, source, todo>>

OfLine  == {r \in DOMAIN refs : refs[r].line = line}
Written == {r \in OfLine : refs[r].in = 0}

Collect(S) ==
  LET visited[r \in 0..Len(refs)] ==
        IF r = 0 THEN <<>> ELSE IF r \in S THEN Append(visited[r - 1], r) ELSE visited[r - 1]
  IN  visited[Len(refs)]

Walked == todo = <<>> /\ pass \in {"resolve", "expand", "convert"}

EndWalk ==
  /\ Walked /\ errorCount = 0
  /\ CASE pass = "resolve" -> pass' = "expand"  /\ todo' = Collect(Written)
       [] pass = "expand"  -> pass' = "convert" /\ todo' = Collect(OfLine)
       [] pass = "convert" -> pass' = "symbols" /\ todo' = <<>>
  /\ UNCHANGED <<line, source, verdicts, heap, errors>>

Rejected ==
  /\ Walked /\ errorCount > 0
  /\ LineEnds("rejected")
  /\ UNCHANGED <<heap, errors>>

\* ResolveSymbolsPass.
ResolveSymbols ==
  /\ pass = "symbols"
  /\ IF source.fault = "symbols"
     THEN Report("Other") /\ LineEnds("rejected")
     ELSE pass' = "prepare" /\ UNCHANGED <<line, source, verdicts, todo, errors>>
  /\ UNCHANGED heap

\* Mutant: only the last class appended is prepared.
PrepareLast ==
  /\ pass = "prepare"
  /\ classes' = [c \in DOMAIN classes |->
                   [classes[c] EXCEPT !.prepared = @ \/ (appended # <<>> /\ c = appended[Len(appended)])]]
  /\ pass' = "members"
  /\ UNCHANGED <<line, source, verdicts, todo, refs, expanded, appended, errors>>

\* PrepareClassesVisitor: populateClassType of every class of the module.
PrepareClasses ==
  /\ pass = "prepare"
  /\ classes' = [c \in DOMAIN classes |->
                   [classes[c] EXCEPT !.prepared = @ \/ \E i \in DOMAIN appended : appended[i] = c]]
  /\ pass' = "members"
  /\ UNCHANGED <<line, source, verdicts, todo, refs, expanded, appended, errors>>

\* The fields that a class has, as ClassType::fields gives them.
Fields(c) == IF classes[c].prepared THEN classes[c].body ELSE <<>>

\* ResolveDotExprMemberPass: the first field of the object is looked up.
MemberError(r) ==
  IF Actual(r).is = "scalar" THEN "LeftOfDotNotClass"
  ELSE IF Actual(r).is = "completed" /\ Fields(Actual(r).class) # <<>> THEN "NoError"
  ELSE "ClassMemberNotFound"

ReadOf(i) == Collect(Written)[i]
Unreadable == {i \in source.reads : MemberError(ReadOf(i)) # "NoError"}

ResolveMembers ==
  /\ pass = "members"
  /\ IF Unreadable = {}
     THEN pass' = "casts" /\ UNCHANGED <<line, source, verdicts, todo, errors>>
     ELSE /\ errorCount' = Cardinality(Unreadable)
          /\ firstError' = MemberError(ReadOf(First(Unreadable)))
          /\ LineEnds("rejected")
  /\ UNCHANGED heap

\* AddImplicitCastsPass and the passes after it.
CheckRest ==
  /\ pass = "casts"
  /\ IF source.fault = "casts"
     THEN Report("Other") /\ LineEnds("rejected")
     ELSE pass' = "emit" /\ UNCHANGED <<line, source, verdicts, todo, errors>>
  /\ UNCHANGED heap

(***************************************************************************)
(* Code generation: TypeMap::toLlvmType makes a struct for a class when it *)
(* is first asked for it, and for the classes of its fields with it.  The  *)
(* map outlives the line.                                                  *)
(***************************************************************************)
ClassesAt(rs) == {Actual(r).class : r \in {q \in rs : Actual(q).is = "completed"}}
FieldsOf(c)   == {Fields(c)[i] : i \in DOMAIN Fields(c)}
Mapped ==
  LET reach[n \in 0..Len(classes)] ==
        IF n = 0 THEN ClassesAt(Written)
        ELSE reach[n - 1] \union UNION {ClassesAt(FieldsOf(c)) : c \in reach[n - 1]}
  IN  reach[Len(classes)]

Emit ==
  /\ pass = "emit"
  /\ classes' = [c \in DOMAIN classes |->
                   IF c \in Mapped /\ classes[c].layout = Unmapped
                   THEN [classes[c] EXCEPT !.layout = Len(Fields(c))] ELSE classes[c]]
  /\ LineEnds("accepted")
  /\ UNCHANGED <<refs, expanded, appended, errors>>

SessionOver == pass = "prompt" /\ line = Len(Lines) /\ UNCHANGED vars

Next ==
  \/ BeginLine \/ ResolveType
  \/ SkipUnlessGenericRef \/ ExpandNotGeneric \/ ExpandWrongNumber \/ AlreadyExpanded \/ ExpandClass
  \/ SkipUnlessGeneric \/ ConvertNotGeneric \/ ConvertWrongNumber \/ NotExpanded \/ Convert
  \/ EndWalk \/ Rejected
  \/ ResolveSymbols \/ PrepareClasses \/ ResolveMembers \/ CheckRest \/ Emit
  \/ SessionOver

Spec == Init /\ [][Next]_vars

-----------------------------------------------------------------------------
(***************************************************************************)
(* The type invariant: arguments precede the references they belong to,    *)
(* aliases point back, and each list of classes is a list of its own.      *)
(***************************************************************************)
TypeOK ==
  /\ line \in 0..Len(Lines)
  /\ source \in IF line = 0 THEN {Blank} ELSE Lines[line]
  /\ verdicts \in Seq({"accepted", "rejected"})
  /\ Len(verdicts) = IF pass = "prompt" THEN line ELSE line - 1
  /\ pass \in {"prompt", "resolve", "expand", "convert", "symbols", "prepare", "members",
               "casts", "emit"}
  /\ todo \in Seq(DOMAIN refs)
  /\ \A r \in DOMAIN refs :
       /\ refs[r].target \in Target /\ refs[r].line \in 1..line
       /\ refs[r].in \in 0..Len(classes)
       /\ \A k \in DOMAIN refs[r].args : refs[r].args[k] \in 1..(r - 1)
       /\ refs[r].target.is = "alias" => refs[r].target.ref < r
  /\ \A c \in DOMAIN classes :
       /\ classes[c].body = [i \in DOMAIN classes[c].body |-> classes[c].body[1] + i - 1]
       /\ \A r \in DOMAIN refs :
            refs[r].in = c <=> \E i \in DOMAIN classes[c].body : classes[c].body[i] = r
  /\ \A g \in Generic : \A i \in DOMAIN expanded[g] :
       /\ expanded[g][i] \in DOMAIN classes /\ classes[expanded[g][i]].of = g
       /\ \A j \in 1..(i - 1) : expanded[g][j] < expanded[g][i]
  /\ appended \in Seq(DOMAIN classes)
  /\ errorCount \in Nat /\ firstError \in ErrorKind
  /\ errorCount = 0 <=> firstError = "NoError"

Accepted(i) == i \in DOMAIN verdicts /\ verdicts[i] = "accepted"
InAccepted(r) == Accepted(refs[r].line)

(***************************************************************************)
(* An accepted line has no reference, written or in a class it completed,  *)
(* that is still open: each names a scalar, a class, or the class          *)
(* completed from the generic it names with the arguments it gives         *)
(* (what the code generator asks of every type: actualType() must be a     *)
(* type with a layout).                                                    *)
(***************************************************************************)
IsClassFor(r, c) ==
  /\ classes[c].of = refs[r].name
  /\ Len(classes[c].args) = Len(refs[r].args)
  /\ \A k \in DOMAIN refs[r].args : Actual(classes[c].args[k]) = Actual(refs[r].args[k])

AcceptedIsComplete ==
  \A r \in DOMAIN refs :
    InAccepted(r) =>
      /\ Actual(r).is \in {"scalar", "class", "completed"}
      /\ refs[r].args # <<>> => Actual(r).is = "completed" /\ IsClassFor(r, Actual(r).class)

(***************************************************************************)
(* Class types are compared by identity ("We don't expect multiple         *)
(* instances of ClassType", type.h): two references to a generic, whatever *)
(* lines they are in, have the same type exactly when their arguments      *)
(* have, although a nested argument makes the expander complete a generic  *)
(* more than once.                                                         *)
(***************************************************************************)
OneClassPerArguments ==
  LET Done == {r \in DOMAIN refs : /\ InAccepted(r) /\ refs[r].args # <<>>
                                   /\ Actual(r).is = "completed"}
  IN  \A q, r \in Done :
        Actual(q) = Actual(r) <=>
          /\ refs[q].name = refs[r].name
          /\ \A k \in DOMAIN refs[q].args : Actual(refs[q].args[k]) = Actual(refs[r].args[k])

(***************************************************************************)
(* A line is never rejected with "Generic type was not expanded" for a     *)
(* reference written in it: the walk before has made the class or found    *)
(* it.  The message may be the first only for a reference inside a class   *)
(* the expansion appended (a generic given without arguments is refused    *)
(* before the reference it is an argument of).                             *)
(***************************************************************************)
WrittenIsExpanded == [][NotExpanded /\ errorCount = 0 => Ref.in # 0]_vars

(***************************************************************************)
(* Fields are added by a pass that only sees the classes of the module     *)
(* being compiled; a class of an earlier line has its fields, and a struct *)
(* with all of them, unless the line that made it was rejected.            *)
(***************************************************************************)
Uses(i) == ClassesAt({r \in DOMAIN refs : refs[r].line = i /\ refs[r].in = 0})

PreparedUnlessRejected ==
  \A i \in DOMAIN verdicts : Accepted(i) =>
    \A c \in Uses(i) :
      Accepted(classes[c].line) => /\ classes[c].prepared
                                   /\ classes[c].layout = Len(classes[c].body)

(***************************************************************************)
(* What ast_passes.cpp says of the pass: "populate all the fields, for all *)
(* classes".  A class that a rejected line left in its GenericType never   *)
(* gets them.                                                              *)
(***************************************************************************)
AllFieldsArePopulated ==
  \A i \in DOMAIN verdicts : Accepted(i) => \A c \in Uses(i) : classes[c].prepared
=============================================================================
