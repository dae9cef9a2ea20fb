------------------------- MODULE ExpansionContract -------------------------
(***************************************************************************)
(* What the expansion of templates promises the driver, said without       *)
(* stacks, passes or copies: a line is rejected exactly when some          *)
(* statement that its expansions reach is wrong or some template reaches   *)
(* itself; a line which is not accepted leaves the global scope alone; an  *)
(* accepted line adds its definitions to it.                               *)
(*                                                                         *)
(* The contract is for flat programs: templates are defined by lines, not  *)
(* inside templates, their bodies only expand templates, and their         *)
(* parameters do not hide template names.                                  *)
(***************************************************************************)
EXTENDS Integers, Sequences, FiniteSets

CONSTANTS Name, Template, Programs, Null, OtherSymbol

VARIABLES
  program,    \* the session's program
  verdicts,   \* the judgement of every line so far
  globals,    \* what the names of accepted lines mean
  halted      \* the process ended

vars == <<program, verdicts, globals, halted>>

Current == program.lines[Len(verdicts) + 1]

Elements(s) == {s[i] : i \in DOMAIN s}
NameOf(item) ==
  IF item.op = "template" THEN program.templates[item.templ].name ELSE item.name
Meaning(item) == IF item.op = "template" THEN item.templ ELSE OtherSymbol

Definitions == {item \in Elements(Current) : item.op # "expand"}
Defined == {NameOf(item) : item \in Definitions}

\* What a name means while the current line is processed: the line's own first
\* definition of it, or what an earlier line left.
Scope(n) ==
  IF n \in Defined
  THEN LET first == CHOOSE i \in DOMAIN Current :
                      /\ Current[i] \in Definitions /\ NameOf(Current[i]) = n
                      /\ \A j \in 1 .. i - 1 :
                           Current[j] \in Definitions => NameOf(Current[j]) # n
       IN  Meaning(Current[first])
  ELSE globals[n]

Expansions(items) == {item \in Elements(items) : item.op = "expand"}
Targets(items) == {Scope(item.name) : item \in Expansions(items)} \cap Template
Calls(t) == Targets(program.templates[t].body)

\* Templates that a set of templates reaches in at most n expansions.
Within[n \in Nat] ==
  [S \in SUBSET Template |->
     IF n = 0 THEN S ELSE S \union Within[n - 1][UNION {Calls(t) : t \in S}]]
Reach(S) == Within[Cardinality(Template)][S]
Reached == Reach(Targets(Current))

\* A circular reference: some reached template is reached from its own body.
Circular == \E t \in Reached : t \in Reach(Calls(t))

Params(t) == program.templates[t].params
Fits(item) ==
  /\ Scope(item.name) \in Template
  /\ Len(Params(Scope(item.name))) = item.args
AllFit ==
  \A items \in {Current} \union {program.templates[t].body : t \in Reached} :
    \A item \in Expansions(items) : Fits(item)

NoRedefinition ==
  \A i, j \in DOMAIN Current :
    Current[i] \in Definitions /\ Current[j] \in Definitions
      /\ NameOf(Current[i]) = NameOf(Current[j]) => i = j

WellFormed == NoRedefinition /\ AllFit /\ ~Circular

Ambiguous == \E t \in Reached : \E i, j \in DOMAIN Params(t) :
               i # j /\ Params(t)[i] = Params(t)[j]
Clash == \E n \in Defined : globals[n] # Null

-----------------------------------------------------------------------------
Init ==
  /\ program \in Programs
  /\ verdicts = <<>> /\ halted = FALSE
  /\ globals = [n \in Name |-> Null]

Pending == ~halted /\ Len(verdicts) < Len(program.lines)
Judge(v) == verdicts' = Append(verdicts, v) /\ UNCHANGED <<program, halted>>

Accept ==
  /\ Pending /\ WellFormed /\ ~Clash
  /\ Judge("accepted")
  /\ globals' = [n \in Name |-> Scope(n)]

Reject ==
  /\ Pending /\ ~WellFormed
  /\ Judge("rejected")
  /\ UNCHANGED globals

FailLater ==
  /\ Pending /\ WellFormed /\ ~Ambiguous
  /\ Judge("failed later")
  /\ UNCHANGED globals

\* The process only ends on a template with two parameters of one name, or on
\* a redefinition of what an earlier line defined.
Halt ==
  /\ Pending
  /\ Ambiguous \/ (WellFormed /\ Clash)
  /\ halted' = TRUE
  /\ \E names \in SUBSET Defined :
       globals' = [n \in Name |-> IF n \in names THEN Scope(n) ELSE globals[n]]
  /\ UNCHANGED <<program, verdicts>>

Next == Accept \/ Reject \/ FailLater \/ Halt

Spec == Init /\ [][Next]_vars /\ WF_vars(Next)
=============================================================================
