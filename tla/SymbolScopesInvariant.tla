----------------------- MODULE SymbolScopesInvariant -----------------------
(***************************************************************************)
(* What holds of the tree, the tables and the visitors in every state of   *)
(* SymbolScopes: the inductive invariants, IInv and, for namespaces, NInv, *)
(* part by part, with what the operations do to each part.  The proofs are *)
(* in SymbolScopesProofs.                                                  *)
(***************************************************************************)
EXTENDS SymbolScopes, SequenceLemmas

-----------------------------------------------------------------------------
(***************************************************************************)
(* The text as a tree.  Its height at a place is the number of nodes that  *)
(* are open behind it; what follows b without falling below the height     *)
(* there is within b, and an opener encloses what is within it.            *)
(***************************************************************************)
Lift(op) == IF op \in Opener THEN 1 ELSE IF op = "end" THEN -1 ELSE 0
Height(text, k) == Depth(text, 1, k)
Within(text, b, i) == b < i /\ \A k \in b .. (i - 1) : Height(text, k) >= Height(text, b)
Encloses(text, j, i) == j \in DOMAIN text /\ text[j].op \in Opener /\ Within(text, j, i)

\* Not in a template; and the innermost node around i that is not a template.
Live(text, i) == \A j \in DOMAIN text : Encloses(text, j, i) => text[j].op # "template"
Nearest(text, j, i) ==
  /\ Encloses(text, j, i) /\ text[j].op # "template"
  /\ \A k \in DOMAIN text : k > j /\ Encloses(text, k, i) => text[k].op = "template"

\* From one place to a later one at the same height, never below it in between.
Jump(text, a, c) ==
  /\ a \in DOMAIN text /\ c \in (a + 1) .. (Len(text) + 1)
  /\ Height(text, c - 1) = Height(text, a - 1)
  /\ \A k \in a .. (c - 1) : Height(text, k) >= Height(text, a - 1)

-----------------------------------------------------------------------------
(***************************************************************************)
(* What the proofs know of the text: one module is around everything, ids  *)
(* are different, and expansions in a template are empty.                  *)
(***************************************************************************)
TextInv(text) ==
  /\ text \in Seq(Node) /\ text # <<>> /\ text[1].op = "module"
  /\ Height(text, Len(text)) = 0
  /\ \A k \in 1 .. (Len(text) - 1) : Height(text, k) > 0
  /\ \A i \in DOMAIN text : text[i].id > 0
  /\ \A i, j \in DOMAIN text : text[i].id = text[j].id => i = j
  /\ \A i \in DOMAIN text : text[i].op # "end" => text[i].name # <<>>
  /\ \A i \in DOMAIN text : text[i].op = "template" =>
       \A k, l \in DOMAIN text[i].params : text[i].params[k] = text[i].params[l] => k = l
  /\ \A i \in DOMAIN text : text[i].op = "expand" /\ ~Live(text, i) => text[i + 1].op = "end"

-----------------------------------------------------------------------------
(***************************************************************************)
(* The copy of a template's body that the expander inserts.  The nodes     *)
(* behind it move, and nothing else changes in the tree.                   *)
(***************************************************************************)
Inserts(text, new, a, s, n, fresh) ==
  /\ a \in DOMAIN text /\ text[a].op = "expand" /\ Live(text, a)
  /\ s \in DOMAIN text /\ text[s].op = "template" /\ n \in Nat /\ EndOf(text, s) = s + n + 1
  /\ fresh \in Nat /\ \A i \in DOMAIN text : text[i].id <= fresh
  /\ new \in Seq(Node) /\ Len(new) = Len(text) + n
  /\ \A i \in 1 .. a : new[i] = text[i]
  /\ \A k \in 1 .. n : new[a + k] = [text[s + k] EXCEPT !.id = fresh + k]
  /\ \A i \in (a + 1) .. Len(text) : new[i + n] = text[i]

Moved(a, n, i) == IF i <= a THEN i ELSE i + n

\* Where two texts have the same nodes they rise and fall alike.
SameNodes(text, new, p, q, m) ==
  p \in Nat /\ q \in Nat /\ m \in Nat /\ \A k \in 1 .. m : new[p + k].op = text[q + k].op
SameRise(text, new, p, q, m) ==
  \A k \in 0 .. m : Height(new, p + k) = Height(new, p) + (Height(text, q + k) - Height(text, q))

-----------------------------------------------------------------------------
(***************************************************************************)
(* Symbol tables as a forest: the rank of a table is above that of its     *)
(* parent, so what is searched from parent to parent is found or ends.     *)
(***************************************************************************)
Kinds == {"Global", "Argument", "TemplateParameter", "Local", "Instance"}
SymbolKinds == {"variable", "function", "class", "template", "namespace", "type"}

IsTable(r) == r = [kind |-> r.kind, name |-> r.name, parent |-> r.parent, symbols |-> r.symbols]

\* A table of parameters that hangs below another one hangs below one that has a parent.
Shape(ts) ==
  /\ ts = [t \in DOMAIN ts |-> ts[t]] /\ DOMAIN ts \in SUBSET Nat /\ World \in DOMAIN ts
  /\ ts[World].kind = "Global" /\ ts[World].parent = NoTable
  /\ \A t \in DOMAIN ts :
       /\ IsTable(ts[t]) /\ ts[t].kind \in Kinds
       /\ ts[t].parent \in DOMAIN ts \union {NoTable}
       /\ ts[t].kind = "TemplateParameter" => ts[t].parent # World
       /\ ts[t].parent # NoTable /\ ts[ts[t].parent].kind = "TemplateParameter" => ts[ts[t].parent].parent # NoTable

Ranked(ts) ==
  \E n \in Nat : \E rank \in [DOMAIN ts -> 0 .. n] :
    \A t \in DOMAIN ts : ts[t].parent # NoTable => rank[ts[t].parent] < rank[t]

\* The tables above u in one step more.
AboveStep(ts, f, i, u) ==
  IF i = 0 \/ ts[u].parent = NoTable THEN {} ELSE {ts[u].parent} \union f[i - 1][ts[u].parent]

\* f: the tables that are at most i steps above each table, for every i up to n.
Climbs(ts, n, f) == f = [i \in 0 .. n |-> [u \in DOMAIN ts |-> AboveStep(ts, f, i, u)]]

\* A value that is looked for in C, from parent to parent, exists for all tables.
Upward(ts, C, V, f) ==
  f = [s \in DOMAIN ts |-> IF s \in C \/ ts[s].parent = NoTable THEN V[s] ELSE f[ts[s].parent]]

\* Hanging below the global table.
Rooted(ts, t) ==
  \E R \in SUBSET DOMAIN ts : t \in R /\ \A v \in R : v = World \/ ts[v].parent \in R

\* Symbols are of the kinds there are.
Known(ts) == \A t \in DOMAIN ts : \A s \in ts[t].symbols : s.is \in SymbolKinds

\* All of them.
Symbols(ts) == UNION {ts[t].symbols : t \in DOMAIN ts}

\* The symbol of a namespace leads to a table.
Leads(ts) == \A t \in DOMAIN ts : \A s \in ts[t].symbols : s.is = "namespace" => s.of \in DOMAIN ts

-----------------------------------------------------------------------------
(***************************************************************************)
(* What the proofs know of the tables.  No name is entered twice, a symbol *)
(* has the storage of its table, types are in tables of parameters only, a *)
(* namespace's table hangs below the one that its symbol is in; nodes own  *)
(* tables, and those that hang hang below the global one; what has been    *)
(* expanded hangs.                                                         *)
(***************************************************************************)
SymbolFits(text, ts, t, s) ==
  /\ s.storage = ts[t].kind /\ s.is \in SymbolKinds
  /\ ts[t].kind = "TemplateParameter" <=> s.is = "type"
  /\ s.is = "namespace" => /\ s.of \in DOMAIN ts \ {World}
                           /\ ts[s.of].parent = t /\ ts[s.of].kind = "Global"
                           /\ \A i \in DOMAIN text : text[i].id # s.of
  /\ s.is = "template" => \E i \in DOMAIN text : text[i].op = "template" /\ text[i].id = s.of

Entries(text, ts) ==
  \A t \in DOMAIN ts : /\ \A s, r \in ts[t].symbols : s.name = r.name => s = r
                       /\ \A s \in ts[t].symbols : SymbolFits(text, ts, t, s)

Numbered(text, ts) ==
  \E n \in Nat : (\A t \in DOMAIN ts : t \in 0 .. n) /\ (\A i \in DOMAIN text : text[i].id \in 0 .. n)

Owned(text, ts) ==
  \A i \in DOMAIN text : text[i].op \in OwnsTable =>
    /\ text[i].id \in DOMAIN ts \ {World}
    /\ ts[text[i].id].kind = "TemplateParameter" <=> text[i].op = "expand"
    /\ ts[text[i].id].parent # NoTable => Rooted(ts, text[i].id)
    /\ text[i].op = "expand" /\ text[i + 1].op # "end" => ts[text[i].id].parent # NoTable

TableInv(text, ts) ==
  Shape(ts) /\ Ranked(ts) /\ Numbered(text, ts) /\ Owned(text, ts) /\ Entries(text, ts)

\* Tables are added, and what there is stays; what has no parent may get one.
Grows(ts, ts2) ==
  /\ DOMAIN ts \subseteq DOMAIN ts2
  /\ \A t \in DOMAIN ts : /\ ts2[t].kind = ts[t].kind
                          /\ ts[t].parent # NoTable => ts2[t].parent = ts[t].parent
                          /\ ts[t].symbols \subseteq ts2[t].symbols

\* A symbol is entered: nothing else changes.
Entered(ts, ts2, t, n, is, of) ==
  /\ ts2 = [u \in DOMAIN ts |-> ts2[u]] /\ t \in DOMAIN ts
  /\ \A u \in DOMAIN ts : /\ IsTable(ts2[u]) /\ ts2[u].kind = ts[u].kind /\ ts2[u].parent = ts[u].parent
                          /\ u # t => ts2[u].symbols = ts[u].symbols
  /\ \E q : /\ q.name = n /\ q.is = is /\ q.of = of /\ q.storage = ts[t].kind
            /\ ts2[t].symbols = ts[t].symbols \union {q}

\* A table gets a parent.
HangsAt(ts, u, p, ts2) == ts2 = [ts EXCEPT ![u].parent = p]

\* Nothing is hung anywhere else, and nothing is entered in a table of parameters.
Keeps(ts, ts2) ==
  /\ Grows(ts, ts2)
  /\ \A t \in DOMAIN ts : /\ ts2[t].parent = ts[t].parent
                          /\ ts[t].kind = "TemplateParameter" => ts2[t].symbols = ts[t].symbols

\* All that is entered is namespaces.
OnlyNamespaces(ts, ts2) ==
  \A v \in DOMAIN ts2 : \A s \in ts2[v].symbols : (v \in DOMAIN ts /\ s \in ts[v].symbols) \/ s.is = "namespace"

\* Where a namespace can be made, under the name n and with the number new; what there
\* is once it is made.
Wanting(text, ts, t, n, new) ==
  /\ TableInv(text, ts) /\ t \in DOMAIN ts /\ ts[t].kind # "TemplateParameter"
  /\ \A s \in ts[t].symbols : s.name # n
  /\ new \in Nat /\ new \notin DOMAIN ts /\ \A i \in DOMAIN text : text[i].id # new

Wanted(text, ts, ts2, t, n, new) ==
  /\ TableInv(text, ts2) /\ Keeps(ts, ts2) /\ OnlyNamespaces(ts, ts2)
  /\ DOMAIN ts2 = DOMAIN ts \union {new} /\ ts2[new].kind = "Global" /\ ts2[new].parent = t
  /\ Rooted(ts, t) => Rooted(ts2, new)
  /\ \E q \in ts2[t].symbols : q.name = n /\ q.is = "namespace" /\ q.of = new

\* A namespace is made: its table, and its symbol in the table around it.
Makes(ts, ts2, t, n, new) ==
  ts2 = [u \in DOMAIN ts \union {new} |->
           IF u = new THEN Table("Global", <<n>>, t) ELSE AddSymbol(ts, t, Symbol(n, "namespace", new, 0))[u]]

-----------------------------------------------------------------------------
(***************************************************************************)
(* The way into a namespace: part after part is looked up, and made where  *)
(* it is not there.                                                        *)
(***************************************************************************)
DescendStep(names, fresh, d, i) ==
  LET t == d.path[Len(d.path)]
      s == FindIn(d.tables, t, names[i])
      new == fresh + i
  IN  CASE ~d.found -> d
        [] d.found /\ s = None ->
             [d EXCEPT !.path = Append(@, new),
                !.tables = [u \in DOMAIN d.tables \union {new} |->
                              IF u = new THEN Table("Global", <<names[i]>>, t)
                              ELSE AddSymbol(d.tables, t, Symbol(names[i], "namespace", new, 0))[u]]]
        [] d.found /\ s.is = "namespace" -> [d EXCEPT !.path = Append(@, s.of)]
        [] OTHER -> [d EXCEPT !.found = FALSE]

Descends(names, fresh, ts, scope, f, n) ==
  f = [i \in 0 .. n |-> IF i = 0 THEN [tables |-> ts, path |-> <<scope>>, found |-> TRUE]
                                 ELSE DescendStep(names, fresh, f[i - 1], i)]

\* Numbers above fresh are free.
Above(text, ts, fresh) ==
  fresh \in Nat /\ (\A t \in DOMAIN ts : t <= fresh) /\ (\A i \in DOMAIN text : text[i].id \in 0 .. fresh)

\* The tables passed through: each is in the one before it, under the name of the part.
WayDown(ts, path, names) ==
  \A k \in 1 .. (Len(path) - 1) :
    \E s \in ts[path[k]].symbols : s.name = names[k] /\ s.is = "namespace" /\ s.of = path[k + 1]

Descent(text, ts, scope, names, fresh, d, i) ==
  /\ d = [tables |-> d.tables, path |-> d.path, found |-> d.found] /\ d.found \in BOOLEAN
  /\ TableInv(text, d.tables) /\ Keeps(ts, d.tables) /\ OnlyNamespaces(ts, d.tables)
  /\ \A u \in DOMAIN d.tables : u <= fresh + i
  /\ d.path \in Seq(Nat) /\ d.path # <<>> /\ Len(d.path) <= i + 1 /\ d.path[1] = scope
  /\ d.found => Len(d.path) = i + 1
  /\ ~d.found => /\ Len(d.path) <= i
                 /\ \E s \in d.tables[d.path[Len(d.path)]].symbols :
                      s.name = names[Len(d.path)] /\ s.is # "namespace"
  /\ \A k \in DOMAIN d.path :
       /\ d.path[k] \in DOMAIN d.tables /\ d.tables[d.path[k]].kind # "TemplateParameter"
       /\ k > 1 => d.path[k] # World /\ \A j \in DOMAIN text : text[j].id # d.path[k]
       /\ Rooted(ts, scope) => Rooted(d.tables, d.path[k])
  /\ WayDown(d.tables, d.path, names)

-----------------------------------------------------------------------------
(***************************************************************************)
(* Names entered one after another: a function with its parameters, and    *)
(* the parameters of a template in the table of its expansion.             *)
(***************************************************************************)
Declares(ts, scope, s, u, params, f, n) ==
  f = [k \in 0 .. n |-> IF k = 0 THEN Declare(ts, scope, s)
                        ELSE Declare(f[k - 1], u, Symbol(params[k], "variable", u, k))]

Fills(ts, u, params, f, n) ==
  f = [k \in 0 .. n |-> IF k = 0 THEN ts ELSE AddSymbol(f[k - 1], u, Symbol(params[k], "type", u, k))]

\* Only the table of the expansion is filled, with the parameters.
Filled(text, ts, u, params, k, d) ==
  /\ TableInv(text, d) /\ Grows(ts, d) /\ DOMAIN d = DOMAIN ts
  /\ \A v \in DOMAIN ts : /\ d[v].parent = ts[v].parent
                          /\ v # u => d[v].symbols = ts[v].symbols
  /\ \A s \in d[u].symbols : \E l \in 1 .. k : s.name = params[l]

-----------------------------------------------------------------------------
(***************************************************************************)
(* The tables of a copy: new ones, of the kinds of the body's, that hang   *)
(* nowhere yet.                                                            *)
(***************************************************************************)
Copies(text, s, n, fresh, ts, d, ts2) ==
  /\ \A k \in 1 .. n : text[s + k].op \in OwnsTable =>
       /\ fresh + k \in DOMAIN ts2
       /\ \E name : ts2[fresh + k] = Table(ts[text[s + k].id].kind, name, NoTable)
  /\ ts2 = [t \in DOMAIN ts2 |-> ts2[t]]
  /\ \A t \in DOMAIN ts2 : \/ t \in DOMAIN ts
                           \/ \E k \in 1 .. n : text[s + k].op \in OwnsTable /\ t = fresh + k
  /\ \A t \in DOMAIN ts : t \in DOMAIN ts2 /\ ts2[t] = d[t]

-----------------------------------------------------------------------------
(***************************************************************************)
(* A frame: where its visitor stands, what it has pushed, and what is on   *)
(* its stack.                                                              *)
(***************************************************************************)
Passes == {"record", "parents", "populate", "expand", "types", "symbols"}
FrameSet == [pass : Passes, first : Nat, at : Nat, base : Seq(Nat), scopes : Seq(Nat), open : Seq(Nat)]

\* The visitor has left nothing that was open when it set out; n nodes are open now.
Standing(text, pass, first, at, n) ==
  /\ first \in Nat \ {0} /\ at \in 1 .. (Len(text) + 1) /\ Within(text, first - 1, at)
  /\ n = Height(text, at - 1) - Height(text, first - 1)
  /\ pass # "record" => Live(text, at)

\* The stack of scopes has a height inside each open node (Sums).
Stacked(pass, first, base, scopes, open) ==
  /\ base \in Seq(Nat) /\ scopes \in Seq(Nat) /\ open \in Seq(Nat)
  /\ \E m : Sums(base, scopes, open, m)
  /\ first = 1 /\ pass # "expand" /\ open # <<>> => open[1] > 0
  /\ pass = "expand" => scopes = base /\ \A k \in DOMAIN open : open[k] = 0

\* The table of an expansion that hangs nowhere yet is on top, and its expansion
\* has just been entered.
Loose(ts, t) == ts[t].kind = "TemplateParameter" /\ ts[t].parent = NoTable
JustEntered(text, at, scopes, open, k) ==
  /\ k = Len(scopes) /\ open # <<>> /\ open[Len(open)] > 0
  /\ at - 1 \in DOMAIN text /\ text[at - 1].op = "expand" /\ text[at - 1].id = scopes[k]

Bound(text, ts, pass, at, scopes, open) ==
  \A k \in DOMAIN scopes :
    /\ scopes[k] \in DOMAIN ts \ {World}
    /\ Loose(ts, scopes[k]) => JustEntered(text, at, scopes, open, k)
    /\ pass = "parents" => Rooted(ts, scopes[k])

Based(ts, base) == \A k \in DOMAIN base : base[k] \in DOMAIN ts \ {World} /\ Rooted(ts, base[k])

FrameOK(text, ts, fr) ==
  /\ fr \in FrameSet
  /\ Standing(text, fr.pass, fr.first, fr.at, Len(fr.open))
  /\ Stacked(fr.pass, fr.first, fr.base, fr.scopes, fr.open)
  /\ Bound(text, ts, fr.pass, fr.at, fr.scopes, fr.open)
  /\ Based(ts, fr.base)

\* What is popped with a node is what was pushed with it.
Popped(scopes, open, s2, o2) ==
  /\ open[Len(open)] \in 0 .. Len(scopes) /\ Len(o2) = Len(open) - 1
  /\ Len(s2) = Len(scopes) - open[Len(open)] /\ \A k \in DOMAIN s2 : k \in DOMAIN scopes /\ s2[k] = scopes[k]

\* The scopes that may be pushed with a node.
Pushable(text, ts, pass, at, p) ==
  /\ p \in Seq(Nat)
  /\ \A k \in DOMAIN p :
       /\ p[k] \in DOMAIN ts \ {World}
       /\ Loose(ts, p[k]) => Len(p) = 1 /\ text[at].op = "expand" /\ text[at].id = p[k]
       /\ pass = "parents" => Rooted(ts, p[k])

\* Two stacks after a push.
Pushed(scopes, open, p, s2, o2) ==
  /\ s2 \in Seq(Nat) /\ Len(s2) = Len(scopes) + Len(p)
  /\ \A k \in 1 .. (Len(scopes) + Len(p)) : s2[k] = IF k <= Len(scopes) THEN scopes[k] ELSE p[k - Len(scopes)]
  /\ o2 \in Seq(Nat) /\ o2 # <<>> /\ Len(o2) = Len(open) + 1 /\ o2[Len(open) + 1] = Len(p)

\* The moves of a visitor.
GoneTo(fr, c) == [fr EXCEPT !.at = c]
Entering(fr, p) == [fr EXCEPT !.at = @ + 1, !.scopes = @ \o p, !.open = Append(@, Len(p))]
Leaving(fr) ==
  [fr EXCEPT !.at = @ + 1, !.open = SubSeq(@, 1, Len(@) - 1),
             !.scopes = SubSeq(@, 1, Len(@) - fr.open[Len(fr.open)])]

-----------------------------------------------------------------------------
(***************************************************************************)
(* The runs of passes: the one at work last, each of the others with its   *)
(* expander at the expansion whose copy the next one is about.             *)
(***************************************************************************)
Chain(text, frs) ==
  /\ frs \in Seq(FrameSet) /\ frs # <<>>
  /\ frs[1].first = 1 /\ frs[1].base = <<>>
  /\ \A f \in DOMAIN frs : f + 1 \in DOMAIN frs =>
       /\ frs[f].pass = "expand" /\ frs[f].at \in DOMAIN text /\ text[frs[f].at].op = "expand"
       /\ frs[f + 1].first = frs[f].at + 1 /\ frs[f + 1].base # <<>>
       /\ frs[f + 1].pass \notin {"types", "symbols"}
  /\ \A f, g \in DOMAIN frs : f < g => frs[f].at < frs[g].first

Frames(text, ts, frs) == Chain(text, frs) /\ \A f \in DOMAIN frs : FrameOK(text, ts, frs[f])

\* The frame at work changes.
Replaces(frs, f2, frs2) == frs2 = [frs EXCEPT ![Len(frs)] = f2]

\* The frame at work moves, in the same run, over tables that have grown.
Advances(text, ts2, frs, f2) ==
  /\ FrameOK(text, ts2, f2) /\ f2.first = frs[Len(frs)].first /\ f2.base = frs[Len(frs)].base
  /\ Len(frs) > 1 => f2.pass \notin {"types", "symbols"}

\* A run of passes ends at the end of what it is over.
Done(text, fr) == fr.at \in DOMAIN text => (fr.open = <<>> /\ text[fr.at].op = "end")

\* The passes over a copy set out behind the expansion.
Behind(a, u) == NewFrame(a + 1, <<u>>)
Waits(text, ts, frs, a) == Frames(text, ts, frs) /\ frs[Len(frs)].at = a /\ frs[Len(frs)].pass = "expand"
Hangs(ts, ts2, u) == Shape(ts) /\ Grows(ts, ts2) /\ Shape(ts2) /\ u \in DOMAIN ts2 \ {World} /\ Rooted(ts2, u)
Pushes(frs, a, u, frs2) == frs2 = Append(frs, Behind(a, u))

\* The visitor sets out again, for another pass.
SetsOut(fr, pass) == [fr EXCEPT !.pass = pass, !.at = fr.first, !.scopes = fr.base]

\* The passes over a copy are over: the expander goes on behind the copy.
Pops(frs, frs2) == frs2 = [SubSeq(frs, 1, Len(frs) - 1) EXCEPT ![Len(frs) - 1].at = frs[Len(frs)].at + 1]

-----------------------------------------------------------------------------
(***************************************************************************)
(* How far the passes are: which tables may have no parent yet, and which  *)
(* expansions may have been filled.                                        *)
(***************************************************************************)
Unset(text, ts, pass, first, at, e) ==
  \A i \in DOMAIN text : text[i].op \in OwnsTable /\ ts[text[i].id].parent = NoTable /\ Live(text, i) =>
    \/ pass = "record" /\ Within(text, first - 1, i)
    \/ pass = "parents" /\ i >= at /\ Within(text, first - 1, i)
    \/ e > 0 /\ i < at

Unfilled(text, ts, pass, first, at) ==
  \A i \in DOMAIN text : text[i].op = "expand" /\ ts[text[i].id].symbols # {} =>
    i < first \/ pass \in {"types", "symbols"} \/ (pass = "expand" /\ i < at)

Progress(text, ts, fr, e) ==
  Unset(text, ts, fr.pass, fr.first, fr.at, e) /\ Unfilled(text, ts, fr.pass, fr.first, fr.at)

\* The tables of parameters hold what they held.
Still(ts, ts2) == \A t \in DOMAIN ts : ts[t].kind = "TemplateParameter" => ts2[t].symbols = ts[t].symbols

\* Where the nodes come from.
Sources(text, new, a, n) ==
  \A i \in DOMAIN new : (\E o \in DOMAIN text : i = Moved(a, n, o)) \/ (\E k \in 1 .. n : i = a + k)

-----------------------------------------------------------------------------
(***************************************************************************)
(* The tree, the tables, the runs of passes and how far they are; and what *)
(* the moves of the visitor at work, over tables that grow, do to them.    *)
(***************************************************************************)
Inv(text, ts, frs, e) ==
  TextInv(text) /\ TableInv(text, ts) /\ Frames(text, ts, frs) /\ Progress(text, ts, frs[Len(frs)], e)

Grown(text, ts, ts2) == TableInv(text, ts2) /\ Grows(ts, ts2) /\ Still(ts, ts2)

-----------------------------------------------------------------------------
(***************************************************************************)
(* The inductive invariant, and the moves as the actions make them.        *)
(***************************************************************************)
ScopesKnown == \A n \in DOMAIN scopeOf : scopeOf[n] \in DOMAIN tables
Counted     == errorCount \in Nat /\ (errorCount = 0 <=> firstError = "NoError")
Verdicts    == {"running", "accepted", "rejected", "asserted"}

IInv == Inv(code, tables, frames, errorCount) /\ ScopesKnown /\ Counted /\ verdict \in Verdicts

\* Errors are counted, and the first one is kept.
Counting == Counted' /\ errorCount' \in Nat /\ errorCount <= errorCount'

\* A namespace is entered: what is not there is made.
Descending(f) ==
  Descends(Here.name, 1 + Greatest(DOMAIN tables \union {code[i].id : i \in DOMAIN code}), tables, CurrentScope,
           f, Len(Here.name))

\* The way into a namespace: the tables passed through, and what the action does then.
WayTaken(last, fresh) ==
  /\ fresh \in Nat /\ Descent(code, tables, CurrentScope, Here.name, fresh, last, Len(Here.name))
  /\ tables' = last.tables /\ UNCHANGED <<code, meaning, definedSymbols, errors>>
  /\ IF last.found
     THEN /\ Enter(Tail(last.path))
          /\ scopeOf' = [n \in DOMAIN scopeOf \union {Here.id} |->
                           IF n = Here.id THEN last.path[Len(last.path)] ELSE scopeOf[n]]
          /\ UNCHANGED verdict
     ELSE verdict' = "asserted" /\ UNCHANGED <<frames, scopeOf>>

\* A copy is put in, and where everything is then.
Splices(text, a, copy, new) == new = SubSeq(text, 1, a) \o copy \o SubSeq(text, a + 1, Len(text))

\* The body of a template, and its copy.
Renumbers(body, fresh, copy) == copy = [i \in DOMAIN body |-> [body[i] EXCEPT !.id = fresh + i]]
CopyOf(text, s, n, fresh, body, copy) ==
  /\ n \in Nat /\ DOMAIN body = 1 .. n /\ (\A k \in 1 .. n : body[k] = text[s + k])
  /\ copy \in Seq(Node) /\ Len(copy) = n
  /\ \A k \in 1 .. n : copy[k] = [text[s + k] EXCEPT !.id = fresh + k]

\* The tables of the copy, as the action makes them.
TablesMade(ts, body, copy, fresh, d, ts2) ==
  ts2 = [t \in DOMAIN ts \union {copy[i].id : i \in {j \in DOMAIN body : body[j].op \in OwnsTable}} |->
           IF t > fresh THEN Table(ts[body[t - fresh].id].kind, TableName(body[t - fresh]), NoTable) ELSE d[t]]

\* A copy of the template's body is put in, and the passes over it begin.
Inserted(s, n, fresh, params, k, d) ==
  /\ Inserts(code, code', Frame.at, s, n, fresh)
  /\ tables[Here.id].parent # NoTable /\ \A t \in DOMAIN tables : t <= fresh
  /\ Filled(code, tables, Here.id, params, k, d) /\ Copies(code, s, n, fresh, tables, d, tables')
  /\ Pushes(frames, Frame.at, Here.id, frames')

-----------------------------------------------------------------------------
(***************************************************************************)
(* The beginning: the tree as the parser hands it over, and the tables     *)
(* that its nodes own, which hang nowhere yet.                             *)
(***************************************************************************)
FirstTables(text, ts) ==
  ts = [t \in {World} \union {i \in DOMAIN text : text[i].op \in OwnsTable} |->
          IF t = World
          THEN [Table("Global", <<"::">>, NoTable) EXCEPT !.symbols =
                  {[Symbol(n, "variable", 0, 1) EXCEPT !.storage = "Global"] : n \in Exported}]
          ELSE Table(TableKind(text, t), TableName(text[t]), NoTable)]

-----------------------------------------------------------------------------
(***************************************************************************)
(* The ways into the namespaces.  What is on the stack inside of an open   *)
(* node is the table of the nearest node that is not a template, so that   *)
(* every pass begins its way into a namespace where the first one did; and *)
(* the way that the first one took is still there.                         *)
(***************************************************************************)
Upto(text, j, i, h) ==
  /\ Encloses(text, j, i) /\ Height(text, j) <= h /\ text[j].op # "template"
  /\ \A k \in DOMAIN text : k > j /\ Encloses(text, k, i) /\ Height(text, k) <= h => text[k].op = "template"

StandsFor(text, so, j, x) ==
  IF text[j].op = "namespace" THEN text[j].id \in DOMAIN so /\ x = so[text[j].id] ELSE x = text[j].id

\* x: the table of the nearest node around i, and of the nearest one up to a height.
Top(text, so, i, x)      == \E j : Nearest(text, j, i) /\ StandsFor(text, so, j, x)
Under(text, so, i, h, x) == \E j : Upto(text, j, i, h) /\ StandsFor(text, so, j, x)

\* More namespaces are entered, and those that were stay what they were.
Agrees(so, so2) == \A n \in DOMAIN so : n \in DOMAIN so2 /\ so2[n] = so[n]

\* A way of the names from the table x to another one.
Leading(ts, x, names, y) ==
  /\ OutsideExpansions(ts, x) \in DOMAIN ts /\ ts[OutsideExpansions(ts, x)].kind # "TemplateParameter"
  /\ \E path \in Seq(DOMAIN ts) :
       /\ Len(path) = Len(names) + 1 /\ path[1] = OutsideExpansions(ts, x) /\ path[Len(path)] = y
       /\ WayDown(ts, path, names)

\* What is on the stack inside of each open node.
Follows(text, so, first, at, base, scopes, open) ==
  \E m : /\ Sums(base, scopes, open, m)
         /\ \A k \in 0 .. Len(open) : m[k] > 0 => Under(text, so, at, Height(text, first - 1) + k, scopes[m[k]])

\* Each namespace that has been entered is reached from the table of the nearest node.
Led(text, ts, so) ==
  \A i \in DOMAIN text : text[i].op = "namespace" /\ text[i].id \in DOMAIN so =>
    \E x \in DOMAIN ts : Top(text, so, i, x) /\ Leading(ts, x, text[i].name, so[text[i].id])

\* Those that have not been entered are in front of the recorder.
Unrecorded(text, so, pass, first, at) ==
  \A i \in DOMAIN text : text[i].op = "namespace" /\ text[i].id \notin DOMAIN so =>
    pass = "record" /\ i >= at /\ Within(text, first - 1, i)

Recorded(text, so) == \A n \in DOMAIN so : \E i \in DOMAIN text : text[i].id = n

\* What the passes know of namespaces, with the visitor of the last one.
Scoped(text, ts, so, fr) ==
  /\ Recorded(text, so) /\ Led(text, ts, so) /\ Unrecorded(text, so, fr.pass, fr.first, fr.at)
  /\ fr.pass # "expand" =>
       /\ Follows(text, so, fr.first, fr.at, fr.base, fr.scopes, fr.open)
       /\ fr.base # <<>> => Top(text, so, fr.first, fr.base[Len(fr.base)])

-----------------------------------------------------------------------------
(***************************************************************************)
(* What the passes know of namespaces: those that have been entered are    *)
(* reached from where they stand, the others are before the recorder, and  *)
(* while it is at work on the module nothing but namespaces is declared.   *)
(***************************************************************************)
Plain(ts, n, fr) ==
  n = 1 /\ fr.pass = "record" => \A t \in DOMAIN ts \ {World} : \A s \in ts[t].symbols : s.is = "namespace"

NInv == Scoped(code, tables, scopeOf, Frame) /\ Plain(tables, Len(frames), Frame) /\ AssertedInCopyOnly
=============================================================================
