----------------------- MODULE GenericExpansionProofs -----------------------
(***************************************************************************)
(* Proofs, for every set of generics and every session, that references    *)
(* with the same arguments are one class over all the lines, that an       *)
(* accepted line has no open reference, that what it uses is prepared      *)
(* unless its line was rejected, and that what is written is expanded.     *)
(***************************************************************************)
EXTENDS GenericExpansion, SequenceLemmas, SequenceTheorems, FiniteSetTheorems, TLAPS

-----------------------------------------------------------------------------
(***************************************************************************)
(* The heap.  Its parts are parameters, so that what is said of them can   *)
(* be said of the next state too: rs are the references, cs the classes,   *)
(* ex the lists of classes, ln the number of the line.                     *)
(***************************************************************************)
TargetType ==
  [is : {"unresolved"}] \union [is : {"scalar"}, name : Keyword] \union [is : {"class"}, name : ClassName]
    \union [is : {"generic"}, name : Generic] \union [is : {"completed"}, class : Nat \ {0}]
    \union [is : {"alias"}, ref : Nat \ {0}]

Number == Nat \ {0}

RefType   == [name : STRING, args : Seq(Number), line : Nat, in : Nat, target : TargetType]
ClassType == [of : Generic, args : Seq(Number), body : Seq(Number), line : Nat,
              prepared : BOOLEAN, layout : Int]

\* What a reference's type depends on stands before it, in the same line; only
\* the references inside of classes are aliases, of arguments written in the line.
RefFits(rs, r, ln, n) ==
  /\ rs[r].line \in 1 .. ln /\ rs[r].in \in 0 .. n
  /\ \A k \in DOMAIN rs[r].args : /\ rs[r].args[k] \in 1 .. r - 1
                                  /\ rs[rs[r].args[k]].line = rs[r].line
                                  /\ rs[rs[r].args[k]].in = rs[r].in
  /\ rs[r].target.is = "alias" => /\ rs[r].target.ref \in 1 .. r - 1
                                  /\ rs[rs[r].target.ref].line = rs[r].line
                                  /\ rs[rs[r].target.ref].in = 0 /\ rs[r].in # 0
  /\ rs[r].target.is = "completed" => rs[r].target.class \in 1 .. n
  /\ rs[r].target.is = "generic" => rs[r].target.name = rs[r].name

\* Lines follow each other, and what is written in a line precedes its classes.
InOrder(rs) ==
  \A q, r \in DOMAIN rs :
    q < r => /\ rs[q].line <= rs[r].line
             /\ rs[q].line = rs[r].line /\ rs[q].in # 0 => rs[r].in # 0

References(rs, ln, n) ==
  /\ rs \in Seq(RefType) /\ \A r \in DOMAIN rs : RefFits(rs, r, ln, n)
  /\ InOrder(rs)

\* The arguments of a class are written in its line, and its body is contiguous.
ClassFits(cs, c, rs, ln) ==
  /\ cs[c].line \in 1 .. ln /\ Len(cs[c].args) = Len(Definition[cs[c].of].params)
  /\ \A k \in DOMAIN cs[c].args : /\ cs[c].args[k] \in DOMAIN rs
                                  /\ rs[cs[c].args[k]].line = cs[c].line
                                  /\ rs[cs[c].args[k]].in = 0
  /\ \A i \in DOMAIN cs[c].body : /\ cs[c].body[i] \in DOMAIN rs
                                  /\ cs[c].body[i] = cs[c].body[1] + i - 1
  /\ \A r \in DOMAIN rs : rs[r].in = c <=> \E i \in DOMAIN cs[c].body : cs[c].body[i] = r

Lists(ex, cs) ==
  /\ ex \in [Generic -> Seq(Number)]
  /\ \A g \in Generic : \A i \in DOMAIN ex[g] :
       /\ ex[g][i] \in DOMAIN cs /\ cs[ex[g][i]].of = g
       /\ \A j \in 1 .. i - 1 : ex[g][j] < ex[g][i]

\* The classes that were appended are those of the line.
Appended(ap, cs, ln) ==
  /\ ap \in Seq(Number)
  /\ \A i \in DOMAIN ap : ap[i] \in DOMAIN cs
  /\ \A c \in DOMAIN cs : cs[c].line = ln <=> \E i \in DOMAIN ap : ap[i] = c

Heap(rs, cs, ex, ap, ln) ==
  /\ References(rs, ln, Len(cs))
  /\ cs \in Seq(ClassType) /\ \A c \in DOMAIN cs : ClassFits(cs, c, rs, ln)
  /\ Lists(ex, cs) /\ Appended(ap, cs, ln)

-----------------------------------------------------------------------------
(***************************************************************************)
(* The walks: what is still to be visited are all references of the line   *)
(* from some place on, of those the pass visits.                           *)
(***************************************************************************)
Ascends(td)     == \A i, j \in DOMAIN td : i < j => td[i] < td[j]
IsAhead(td, r)  == \E i \in DOMAIN td : td[i] = r
IsPassed(td, r) == \A i \in DOMAIN td : r < td[i]

Walks(td, ps, rs, ln) ==
  /\ td \in Seq(Number) /\ Ascends(td)
  /\ \A i \in DOMAIN td : td[i] \in DOMAIN rs /\ rs[td[i]].line = ln
  /\ ps \in {"resolve", "expand"} => \A i \in DOMAIN td : rs[td[i]].in = 0
  /\ ps \notin {"resolve", "expand", "convert"} => td = <<>>
  /\ \A r \in DOMAIN rs : rs[r].line = ln /\ (rs[r].in = 0 \/ ps = "convert") =>
       IsAhead(td, r) \/ IsPassed(td, r)

-----------------------------------------------------------------------------
(***************************************************************************)
(* Types of references, and what they are compared with.                   *)
(***************************************************************************)
TypesOf(rs) ==
  LET actualType[q \in DOMAIN rs] ==
        IF rs[q].target.is = "alias" THEN actualType[rs[q].target.ref] ELSE rs[q].target
  IN  actualType

Same(ty, r, other) == ty[r].is # "generic" /\ ty[other] = ty[r]
Match(ty, cs, c, args) == \A k \in DOMAIN args : Same(ty, cs[c].args[k], args[k])

\* The classes of the list up to the i-th have arguments that precede r.
Before(cs, list, i, r) == \A j \in 1 .. i : \A k \in DOMAIN cs[list[j]].args : cs[list[j]].args[k] < r

\* A class was made, or found, for the reference, which does not point at it yet.
Awaits(ty, rs, cs, ex, r) ==
  \E g \in Generic :
    /\ rs[r].name = g /\ rs[r].target = GenericType(g)
    /\ Len(rs[r].args) = Len(Definition[g].params)
    /\ \E i \in DOMAIN ex[g] : /\ cs[ex[g][i]].args = rs[r].args \/ Match(ty, cs, ex[g][i], rs[r].args)
                               /\ Before(cs, ex[g], i, r)

\* The reference has the type that is the first of those with its arguments.
Chosen(ty, rs, cs, ex, r) ==
  \E g \in Generic :
    /\ rs[r].name = g
    /\ Len(rs[r].args) = Len(Definition[g].params)
    /\ \E i \in DOMAIN ex[g] : /\ ty[r] = Completed(ex[g][i])
                               /\ Match(ty, cs, ex[g][i], rs[r].args)
                               /\ \A j \in 1 .. i - 1 : ~Match(ty, cs, ex[g][j], rs[r].args)
                               /\ Before(cs, ex[g], i, r)

Done(ty, rs, cs, ex, r) ==
  /\ ty[r].is \in {"scalar", "class", "completed"}
  /\ rs[r].args # <<>> => Chosen(ty, rs, cs, ex, r)

\* How far the line has come, as long as it is without an error.
Resolving(ps, td, rs, ln) ==
  \A r \in DOMAIN rs : rs[r].line = ln =>
    /\ rs[r].target.is = "unresolved" => ps = "resolve" /\ IsAhead(td, r)
    /\ ps \in {"resolve", "expand"} => rs[r].target.is # "completed"

\* The expansion has visited it, and the conversion has not.
IsExpanded(ps, td, r) == IF ps = "expand" THEN ~IsAhead(td, r) ELSE ps = "convert" /\ IsAhead(td, r)

Progress(ps, td, rs, cs, ex, ln) ==
  /\ Resolving(ps, td, rs, ln)
  /\ ps = "expand" => \A c \in DOMAIN cs : \A k \in DOMAIN cs[c].args : IsPassed(td, cs[c].args[k])
  /\ \A r \in DOMAIN rs : rs[r].line = ln =>
       /\ rs[r].in = 0 /\ rs[r].args # <<>> /\ IsExpanded(ps, td, r) => Awaits(TypesOf(rs), rs, cs, ex, r)
       /\ ps \notin {"resolve", "expand"} /\ ~IsAhead(td, r) => Done(TypesOf(rs), rs, cs, ex, r)

\* The references of the lines that were accepted.
AllDone(vs, rs, cs, ex) ==
  \A r \in DOMAIN rs : rs[r].line \in DOMAIN vs /\ vs[rs[r].line] = "accepted" =>
    Done(TypesOf(rs), rs, cs, ex, r)

-----------------------------------------------------------------------------
(***************************************************************************)
(* Fields and layouts of the classes.                                      *)
(***************************************************************************)
HasFields(cs, c) == cs[c].prepared /\ cs[c].layout = Len(cs[c].body)

UsedBy(ty, rs, i) == {ty[r].class : r \in {q \in DOMAIN rs : /\ rs[q].line = i /\ rs[q].in = 0
                                                            /\ ty[q].is = "completed"}}

Populated(vs, ps, rs, cs, ln) ==
  /\ \A c \in DOMAIN cs :
       /\ cs[c].line \in DOMAIN vs /\ vs[cs[c].line] = "accepted" => cs[c].prepared
       /\ cs[c].line = ln /\ ps \in {"members", "casts", "emit"} => cs[c].prepared
       /\ cs[c].line = ln /\ ps # "prompt" => cs[c].layout = Unmapped
       /\ cs[c].prepared => cs[c].layout \in {Unmapped, Len(cs[c].body)}
  /\ \A i \in DOMAIN vs : vs[i] = "accepted" =>
       \A c \in UsedBy(TypesOf(rs), rs, i) :
         cs[c].line \in 1 .. i /\ (vs[cs[c].line] = "accepted" => HasFields(cs, c))

-----------------------------------------------------------------------------
(***************************************************************************)
(* The inductive invariant.                                                *)
(***************************************************************************)
Late == {"symbols", "prepare", "members", "casts", "emit"}

Session ==
  /\ line \in 0 .. Len(Lines) /\ source \in IF line = 0 THEN {Blank} ELSE Lines[line]
  /\ pass \in {"prompt", "resolve", "expand", "convert"} \union Late
  /\ verdicts \in Seq({"accepted", "rejected"})
  /\ Len(verdicts) = IF pass = "prompt" THEN line ELSE line - 1
  /\ errorCount \in Nat /\ firstError \in ErrorKind /\ (errorCount = 0 <=> firstError = "NoError")
  /\ pass \in Late => errorCount = 0
  /\ pass = "resolve" => appended = <<>>

GenInv ==
  /\ Session
  /\ Heap(refs, classes, expanded, appended, line)
  /\ Walks(todo, pass, refs, line)
  /\ pass # "prompt" /\ errorCount = 0 => Progress(pass, todo, refs, classes, expanded, line)
  /\ AllDone(verdicts, refs, classes, expanded)
  /\ Populated(verdicts, pass, refs, classes, line)

-----------------------------------------------------------------------------
(***************************************************************************)
(* Types of references.                                                    *)
(***************************************************************************)

\* A sequence of references has the types that its definition by recursion asks for.
AreTypes(rs, f, m) ==
  /\ DOMAIN f = 1 .. m
  /\ \A q \in 1 .. m : f[q] = IF rs[q].target.is = "alias" THEN f[rs[q].target.ref] ELSE rs[q].target

\* A function that the recursion of TypesOf asks for exists, since aliases point back.
LEMMA TypesUpTo ==
  ASSUME NEW rs, NEW n \in Nat,
         \A q \in 1 .. n : rs[q].target.is = "alias" => rs[q].target.ref \in 1 .. q - 1
  PROVE  \E f : f = [q \in 1 .. n |-> IF rs[q].target.is = "alias" THEN f[rs[q].target.ref] ELSE rs[q].target]
<1>. DEFINE T(f, m) == f = [q \in 1 .. m |-> IF rs[q].target.is = "alias" THEN f[rs[q].target.ref]
                                                                          ELSE rs[q].target]
            S == {m \in Nat : m <= n => \E f : T(f, m)}
<1>1. 0 \in S
  <2>. DEFINE f == [q \in 1 .. 0 |-> rs[q].target]
  <2>1. T(f, 0)
    OBVIOUS
  <2>. HIDE DEF T
  <2>. QED  BY <2>1
<1>2. ASSUME NEW m \in S
      PROVE  m + 1 \in S
  <2>. SUFFICES ASSUME m + 1 <= n
                PROVE  \E f : T(f, m + 1)
    <3>. HIDE DEF T
    <3>. QED  OBVIOUS
  <2>1. m \in Nat /\ m <= n
    OBVIOUS
  <2>2. PICK f : T(f, m)
    BY <2>1
  <2>. DEFINE last == IF rs[m + 1].target.is = "alias" THEN f[rs[m + 1].target.ref] ELSE rs[m + 1].target
              g == [q \in 1 .. m + 1 |-> IF q \in 1 .. m THEN f[q] ELSE last]
  <2>3. \A q \in 1 .. m : g[q] = f[q] /\ f[q] = IF rs[q].target.is = "alias" THEN f[rs[q].target.ref] ELSE rs[q].target
    <3>1. \A q \in 1 .. m : q \in 1 .. m + 1
      BY <2>1
    <3>2. \A q \in 1 .. m : g[q] = f[q]
      BY <3>1
    <3>3. \A q \in 1 .. m : f[q] = IF rs[q].target.is = "alias" THEN f[rs[q].target.ref] ELSE rs[q].target
      BY <2>2
    <3>. QED  BY <3>2, <3>3
  <2>4. g[m + 1] = last
    BY <2>1
  <2>5. ASSUME NEW q \in 1 .. m + 1
        PROVE  g[q] = IF rs[q].target.is = "alias" THEN g[rs[q].target.ref] ELSE rs[q].target
    <3>1. rs[q].target.is = "alias" => rs[q].target.ref \in 1 .. m
      BY <2>1
    <3>2. rs[q].target.is = "alias" => g[rs[q].target.ref] = f[rs[q].target.ref]
      BY <2>3, <3>1
    <3>. HIDE DEF g
    <3>3. CASE q \in 1 .. m
      BY <2>3, <3>2, <3>3
    <3>4. CASE q = m + 1
      BY <2>4, <3>2, <3>4
    <3>. QED  BY <2>1, <3>3, <3>4
  <2>6. T(g, m + 1)
    BY <2>5
  <2>. HIDE DEF T, g
  <2>. QED  BY <2>6
<1>3. S \in SUBSET Nat
  OBVIOUS
<1>. HIDE DEF S
<1>4. \A m \in Nat : m \in S
  BY <1>1, <1>2, <1>3, Induction
<1>5. n \in S
  BY <1>4
<1>. HIDE DEF T
<1>6. \E f : T(f, n)
  BY <1>5 DEF S
<1>. QED  BY <1>6 DEF T

\* What is said of sequences of references below.
LEMMA ReferencesType ==
  ASSUME NEW rs, NEW ln, NEW n, References(rs, ln, n)
  PROVE  /\ rs \in Seq(RefType) /\ Len(rs) \in Nat /\ DOMAIN rs = 1 .. Len(rs)
         /\ \A r \in DOMAIN rs : /\ rs[r] \in RefType /\ RefFits(rs, r, ln, n)
                                 /\ rs[r].args \in Seq(Number) /\ rs[r].target \in TargetType
<1>1. rs \in Seq(RefType) /\ \A r \in DOMAIN rs : RefFits(rs, r, ln, n)
  BY DEF References
<1>2. Len(rs) \in Nat /\ DOMAIN rs = 1 .. Len(rs) /\ \A r \in DOMAIN rs : rs[r] \in RefType
  BY <1>1
<1>3. \A x \in RefType : x.args \in Seq(Number) /\ x.target \in TargetType
  BY DEF RefType
<1>. QED  BY <1>1, <1>2, <1>3

\* A reference has the type it points at, or that of the reference it points at.
LEMMA TypesAre ==
  ASSUME NEW rs, NEW ln, NEW n, References(rs, ln, n)
  PROVE  AreTypes(rs, TypesOf(rs), Len(rs))
<1>1. /\ Len(rs) \in Nat /\ DOMAIN rs = 1 .. Len(rs)
      /\ \A q \in 1 .. Len(rs) : rs[q].target.is = "alias" => rs[q].target.ref \in 1 .. q - 1
  BY ReferencesType DEF RefFits
<1>2. \E f : f = [q \in 1 .. Len(rs) |-> IF rs[q].target.is = "alias" THEN f[rs[q].target.ref]
                                                                      ELSE rs[q].target]
  BY <1>1, TypesUpTo
<1>3. PICK f : f = TypesOf(rs)
  OBVIOUS
<1>4. f = [q \in DOMAIN rs |-> IF rs[q].target.is = "alias" THEN f[rs[q].target.ref] ELSE rs[q].target]
  BY <1>1, <1>2, <1>3 DEF TypesOf
<1>5. AreTypes(rs, f, Len(rs))
  BY <1>1, <1>4 DEF AreTypes
<1>. QED  BY <1>3, <1>5

\* It is the type that the model asks for, in this state and in the next.
LEMMA ActualIs ==
  ASSUME NEW r
  PROVE  Actual(r) = TypesOf(refs)[r] /\ Actual(r)' = TypesOf(refs')[r]
BY DEF Actual, TypesOf

\* A statement about the references up to the last one, from the ones before each.
LEMMA FromBefore ==
  ASSUME NEW n \in Nat, NEW P, \A r \in 1 .. n : (\A q \in 1 .. r - 1 : q \in P) => r \in P
  PROVE  \A r \in 1 .. n : r \in P
<1>. DEFINE S == {m \in Nat : \A r \in 1 .. n : r <= m => r \in P}
<1>1. 0 \in S /\ S \in SUBSET Nat
  OBVIOUS
<1>2. ASSUME NEW m \in S
      PROVE  m + 1 \in S
  <2>1. m \in Nat /\ \A r \in 1 .. n : r <= m => r \in P
    OBVIOUS
  <2>2. ASSUME NEW r \in 1 .. n, r <= m + 1
        PROVE  r \in P
    <3>1. CASE r <= m
      BY <2>1, <3>1
    <3>2. CASE r = m + 1
      <4>1. \A q \in 1 .. r - 1 : q \in 1 .. n /\ q <= m
        BY <2>1, <3>2
      <4>. QED  BY <2>1, <4>1
    <3>. QED  BY <2>1, <2>2, <3>1, <3>2
  <2>. QED  BY <2>1, <2>2
<1>. HIDE DEF S
<1>3. \A m \in Nat : m \in S
  BY <1>1, <1>2, Induction
<1>4. n \in S
  BY <1>3
<1>. QED  BY <1>4 DEF S

\* The type of a reference is no other reference, and a class that there is.
LEMMA TypesFit ==
  ASSUME NEW rs, NEW ln, NEW n, References(rs, ln, n)
  PROVE  \A r \in DOMAIN rs : LET t == TypesOf(rs)[r]
                              IN  /\ t \in TargetType /\ t.is # "alias"
                                  /\ t.is = "completed" => t.class \in 1 .. n
<1>. DEFINE ty == TypesOf(rs)
            Fits(t) == t \in TargetType /\ t.is # "alias" /\ (t.is = "completed" => t.class \in 1 .. n)
            P == {r \in DOMAIN rs : Fits(ty[r])}
<1>1. /\ Len(rs) \in Nat /\ DOMAIN rs = 1 .. Len(rs)
      /\ \A r \in DOMAIN rs : RefFits(rs, r, ln, n) /\ rs[r].target \in TargetType
  BY ReferencesType
<1>2. \A q \in 1 .. Len(rs) : ty[q] = IF rs[q].target.is = "alias" THEN ty[rs[q].target.ref] ELSE rs[q].target
  BY TypesAre DEF AreTypes
<1>. HIDE DEF ty
<1>3. ASSUME NEW r \in 1 .. Len(rs), \A q \in 1 .. r - 1 : q \in P
      PROVE  r \in P
  <2>1. CASE rs[r].target.is = "alias"
    <3>1. rs[r].target.ref \in 1 .. r - 1
      BY <1>1, <2>1 DEF RefFits
    <3>2. Fits(ty[rs[r].target.ref])
      BY <1>3, <3>1
    <3>3. ty[r] = ty[rs[r].target.ref]
      BY <1>2, <2>1
    <3>. HIDE DEF Fits
    <3>. QED  BY <1>1, <3>2, <3>3
  <2>2. CASE rs[r].target.is # "alias"
    <3>1. ty[r] = rs[r].target /\ r \in DOMAIN rs
      BY <1>1, <1>2, <2>2
    <3>2. Fits(rs[r].target)
      BY <1>1, <2>2, <3>1 DEF RefFits
    <3>. HIDE DEF Fits
    <3>. QED  BY <3>1, <3>2
  <2>. QED  BY <2>1, <2>2
<1>. HIDE DEF P
<1>4. \A r \in 1 .. Len(rs) : r \in P
  BY <1>1, <1>3, FromBefore
<1>. QED  BY <1>1, <1>4 DEF P, ty

\* References that point where they pointed keep their types, if those they
\* are aliases of do.
Agree(rs, rs2, K) ==
  /\ K \subseteq DOMAIN rs /\ K \subseteq DOMAIN rs2
  /\ \A r \in K : /\ rs2[r].target = rs[r].target
                  /\ rs[r].target.is = "alias" => rs[r].target.ref \in K

\* References that point at the same things, and only at each other, have the same
\* types in both heaps.
LEMMA TypesAgree ==
  ASSUME NEW rs, NEW ln, NEW n, References(rs, ln, n),
         NEW rs2, NEW ln2, NEW n2, References(rs2, ln2, n2),
         NEW K, Agree(rs, rs2, K)
  PROVE  \A r \in K : TypesOf(rs2)[r] = TypesOf(rs)[r]
<1>. DEFINE ty == TypesOf(rs)
            ty2 == TypesOf(rs2)
            P == {r \in DOMAIN rs : r \in K => ty2[r] = ty[r]}
<1>1. /\ Len(rs) \in Nat /\ DOMAIN rs = 1 .. Len(rs)
      /\ Len(rs2) \in Nat /\ DOMAIN rs2 = 1 .. Len(rs2)
      /\ \A r \in DOMAIN rs : RefFits(rs, r, ln, n)
  BY ReferencesType
<1>2. /\ \A q \in 1 .. Len(rs) : ty[q] = IF rs[q].target.is = "alias" THEN ty[rs[q].target.ref]
                                                                      ELSE rs[q].target
      /\ \A q \in 1 .. Len(rs2) : ty2[q] = IF rs2[q].target.is = "alias" THEN ty2[rs2[q].target.ref]
                                                                         ELSE rs2[q].target
  BY TypesAre DEF AreTypes
<1>3. /\ K \subseteq DOMAIN rs /\ K \subseteq DOMAIN rs2
      /\ \A r \in K : /\ rs2[r].target = rs[r].target
                      /\ rs[r].target.is = "alias" => rs[r].target.ref \in K
  BY DEF Agree
<1>. HIDE DEF ty, ty2
<1>4. ASSUME NEW r \in 1 .. Len(rs), \A q \in 1 .. r - 1 : q \in P
      PROVE  r \in P
  <2>. SUFFICES ASSUME r \in K
                PROVE  ty2[r] = ty[r]
    BY <1>1
  <2>1. r \in 1 .. Len(rs2) /\ rs2[r].target = rs[r].target
    BY <1>1, <1>3
  <2>2. CASE rs[r].target.is = "alias"
    <3>1. rs[r].target.ref \in 1 .. r - 1 /\ rs[r].target.ref \in K
      BY <1>1, <1>3, <2>2 DEF RefFits
    <3>2. ty2[rs[r].target.ref] = ty[rs[r].target.ref]
      BY <1>4, <3>1
    <3>. QED  BY <1>2, <2>1, <2>2, <3>2
  <2>3. CASE rs[r].target.is # "alias"
    BY <1>2, <2>1, <2>3
  <2>. QED  BY <2>2, <2>3
<1>. HIDE DEF P
<1>5. \A r \in 1 .. Len(rs) : r \in P
  BY <1>1, <1>4, FromBefore
<1>. QED  BY <1>1, <1>3, <1>5 DEF P, ty, ty2

\* The references up to m agree.
LEMMA PrefixAgrees ==
  ASSUME NEW rs, NEW ln, NEW n, References(rs, ln, n),
         NEW rs2, NEW ln2, NEW n2, References(rs2, ln2, n2),
         NEW m, m \in 0 .. Len(rs), Len(rs) <= Len(rs2),
         \A r \in 1 .. m : rs2[r].target = rs[r].target
  PROVE  \A r \in 1 .. m : TypesOf(rs2)[r] = TypesOf(rs)[r]
<1>. DEFINE K == 1 .. m
<1>1. /\ Len(rs) \in Nat /\ DOMAIN rs = 1 .. Len(rs)
      /\ Len(rs2) \in Nat /\ DOMAIN rs2 = 1 .. Len(rs2)
      /\ \A r \in DOMAIN rs : RefFits(rs, r, ln, n)
  BY ReferencesType
<1>2. K \subseteq DOMAIN rs /\ K \subseteq DOMAIN rs2
  BY <1>1
<1>3. \A r \in K : rs[r].target.is = "alias" => rs[r].target.ref \in K
  BY <1>1, <1>2 DEF RefFits
<1>4. Agree(rs, rs2, K)
  BY <1>2, <1>3 DEF Agree
<1>. HIDE DEF K
<1>5. \A r \in K : TypesOf(rs2)[r] = TypesOf(rs)[r]
  BY <1>4, TypesAgree
<1>. QED  BY <1>5 DEF K

-----------------------------------------------------------------------------
(***************************************************************************)
(* Heaps that grow: references and classes are added and references are    *)
(* pointed somewhere else, but what was written stays as it is.            *)
(***************************************************************************)
KeepsReferences(rs, rs2) ==
  /\ Len(rs) <= Len(rs2)
  /\ \A r \in DOMAIN rs : /\ rs2[r].name = rs[r].name /\ rs2[r].args = rs[r].args
                          /\ rs2[r].line = rs[r].line /\ rs2[r].in = rs[r].in

KeepsClasses(cs, cs2) ==
  /\ DOMAIN cs \subseteq DOMAIN cs2
  /\ \A c \in DOMAIN cs : /\ cs2[c].of = cs[c].of /\ cs2[c].args = cs[c].args
                          /\ cs2[c].body = cs[c].body /\ cs2[c].line = cs[c].line

KeepsLists(ex, ex2) ==
  \A g \in Generic : /\ DOMAIN ex[g] \subseteq DOMAIN ex2[g]
                     /\ \A i \in DOMAIN ex[g] : ex2[g][i] = ex[g][i]

Grows(rs, cs, ex, rs2, cs2, ex2) ==
  KeepsReferences(rs, rs2) /\ KeepsClasses(cs, cs2) /\ KeepsLists(ex, ex2)

\* What the lists of a heap hold.
LEMMA ListType ==
  ASSUME NEW rs, NEW cs, NEW ex, NEW ap, NEW ln, Heap(rs, cs, ex, ap, ln),
         NEW g \in Generic
  PROVE  /\ ex[g] \in Seq(Number) /\ Len(ex[g]) \in Nat /\ DOMAIN ex[g] = 1 .. Len(ex[g])
         /\ \A i \in DOMAIN ex[g] : /\ ex[g][i] \in DOMAIN cs /\ cs[ex[g][i]].of = g
                                    /\ Len(cs[ex[g][i]].args) = Len(Definition[g].params)
                                    /\ cs[ex[g][i]].args \in Seq(Number)
<1>1. Lists(ex, cs) /\ cs \in Seq(ClassType) /\ \A c \in DOMAIN cs : ClassFits(cs, c, rs, ln)
  BY DEF Heap
<1>2. ex[g] \in Seq(Number)
  BY <1>1 DEF Lists
<1>3. \A i \in DOMAIN ex[g] : ex[g][i] \in DOMAIN cs /\ cs[ex[g][i]].of = g
  BY <1>1 DEF Lists
<1>4. \A c \in DOMAIN cs : Len(cs[c].args) = Len(Definition[cs[c].of].params)
  BY <1>1 DEF ClassFits
<1>5. \A c \in DOMAIN cs : cs[c] \in ClassType
  BY <1>1
<1>6. \A x \in ClassType : x.args \in Seq(Number)
  BY DEF ClassType
<1>. QED  BY <1>2, <1>3, <1>4, <1>5, <1>6

\* Matching an argument only depends on the types of the references compared.
LEMMA MatchKept ==
  ASSUME NEW ty, NEW ty2, NEW cs, NEW cs2, NEW c, NEW args,
         cs2[c].args = cs[c].args,
         \A k \in DOMAIN args : ty2[cs[c].args[k]] = ty[cs[c].args[k]] /\ ty2[args[k]] = ty[args[k]]
  PROVE  Match(ty2, cs2, c, args) <=> Match(ty, cs, c, args)
BY DEF Match, Same

\* A reference that has its type keeps it, and remains the first that was
\* made for its arguments, if the references before it keep theirs.
LEMMA DoneKept ==
  ASSUME NEW rs, NEW cs, NEW ex, NEW ap, NEW ln, Heap(rs, cs, ex, ap, ln),
         NEW rs2, NEW cs2, NEW ex2, Grows(rs, cs, ex, rs2, cs2, ex2),
         NEW ty, NEW ty2, NEW r \in DOMAIN rs, \A q \in 1 .. r : ty2[q] = ty[q],
         Done(ty, rs, cs, ex, r)
  PROVE  Done(ty2, rs2, cs2, ex2, r)
<1>1. References(rs, ln, Len(cs))
  BY DEF Heap
<1>2. /\ Len(rs) \in Nat /\ DOMAIN rs = 1 .. Len(rs) /\ r \in Nat \ {0}
      /\ RefFits(rs, r, ln, Len(cs))
  BY <1>1, ReferencesType
<1>3. \A k \in DOMAIN rs[r].args : rs[r].args[k] \in 1 .. r
  BY <1>2 DEF RefFits
<1>4. rs2[r].args = rs[r].args /\ rs2[r].name = rs[r].name /\ ty2[r] = ty[r]
  BY <1>2 DEF Grows, KeepsReferences
<1>5. ASSUME rs[r].args # <<>>
      PROVE  Chosen(ty2, rs2, cs2, ex2, r)
  <2>1. PICK g \in Generic :
          /\ rs[r].name = g /\ Len(rs[r].args) = Len(Definition[g].params)
          /\ \E i \in DOMAIN ex[g] : /\ ty[r] = Completed(ex[g][i])
                                     /\ Match(ty, cs, ex[g][i], rs[r].args)
                                     /\ \A j \in 1 .. i - 1 : ~Match(ty, cs, ex[g][j], rs[r].args)
                                     /\ Before(cs, ex[g], i, r)
    BY <1>5 DEF Done, Chosen
  <2>2. PICK i \in DOMAIN ex[g] : /\ ty[r] = Completed(ex[g][i])
                                  /\ Match(ty, cs, ex[g][i], rs[r].args)
                                  /\ \A j \in 1 .. i - 1 : ~Match(ty, cs, ex[g][j], rs[r].args)
                                  /\ Before(cs, ex[g], i, r)
    BY <2>1
  <2>3. /\ Len(ex[g]) \in Nat /\ DOMAIN ex[g] = 1 .. Len(ex[g])
        /\ \A j \in DOMAIN ex[g] : /\ ex[g][j] \in DOMAIN cs
                                   /\ Len(cs[ex[g][j]].args) = Len(Definition[g].params)
                                   /\ cs[ex[g][j]].args \in Seq(Number)
    BY ListType
  <2>4. \A j \in 1 .. i : j \in DOMAIN ex[g]
    BY <2>3
  <2>5. /\ i \in DOMAIN ex2[g] /\ \A j \in 1 .. i : ex2[g][j] = ex[g][j]
        /\ \A j \in 1 .. i : cs2[ex[g][j]].args = cs[ex[g][j]].args
    BY <2>3, <2>4 DEF Grows, KeepsLists, KeepsClasses
  <2>6. \A j \in 1 .. i : \A k \in DOMAIN rs[r].args :
          ty2[cs[ex[g][j]].args[k]] = ty[cs[ex[g][j]].args[k]] /\ ty2[rs[r].args[k]] = ty[rs[r].args[k]]
    <3>. SUFFICES ASSUME NEW j \in 1 .. i, NEW k \in DOMAIN rs[r].args
                  PROVE  /\ ty2[cs[ex[g][j]].args[k]] = ty[cs[ex[g][j]].args[k]]
                         /\ ty2[rs[r].args[k]] = ty[rs[r].args[k]]
      OBVIOUS
    <3>1. PICK a : a = cs[ex[g][j]].args
      OBVIOUS
    <3>2. a \in Seq(Number) /\ Len(a) = Len(rs[r].args)
      BY <2>1, <2>3, <2>4, <3>1
    <3>3. rs[r].args \in Seq(Number)
      BY <1>1, ReferencesType
    <3>4. k \in DOMAIN a /\ a[k] \in Number
      BY <3>2, <3>3
    <3>5. a[k] < r
      BY <2>2, <3>1, <3>4 DEF Before
    <3>6. a[k] \in 1 .. r
      BY <1>2, <3>4, <3>5 DEF Number
    <3>. QED  BY <1>3, <3>1, <3>6
  <2>7. \A j \in 1 .. i : Match(ty2, cs2, ex[g][j], rs[r].args) <=> Match(ty, cs, ex[g][j], rs[r].args)
    BY <2>5, <2>6, MatchKept
  <2>8. i \in 1 .. i /\ \A j \in 1 .. i - 1 : j \in 1 .. i
    BY <2>3
  <2>9. ty2[r] = Completed(ex2[g][i]) /\ Match(ty2, cs2, ex2[g][i], rs2[r].args)
    BY <1>4, <2>2, <2>5, <2>7, <2>8
  <2>10. \A j \in 1 .. i - 1 : ~Match(ty2, cs2, ex2[g][j], rs2[r].args)
    BY <1>4, <2>2, <2>5, <2>7, <2>8
  <2>11. Before(cs2, ex2[g], i, r)
    BY <2>2, <2>5 DEF Before
  <2>. QED  BY <1>4, <2>1, <2>5, <2>9, <2>10, <2>11 DEF Chosen
<1>. QED  BY <1>4, <1>5 DEF Done

\* A reference that awaits its type awaits it still, if those references keep
\* their types that are complete.
LEMMA AwaitsKept ==
  ASSUME NEW rs, NEW cs, NEW ex, NEW ap, NEW ln, Heap(rs, cs, ex, ap, ln),
         NEW rs2, NEW cs2, NEW ex2, Grows(rs, cs, ex, rs2, cs2, ex2),
         NEW ty, NEW ty2, NEW r \in DOMAIN rs, rs2[r].target = rs[r].target,
         \A q \in DOMAIN rs : ty[q].is # "generic" => ty2[q] = ty[q],
         Awaits(ty, rs, cs, ex, r)
  PROVE  Awaits(ty2, rs2, cs2, ex2, r)
<1>1. References(rs, ln, Len(cs))
  BY DEF Heap
<1>2. /\ Len(rs) \in Nat /\ DOMAIN rs = 1 .. Len(rs) /\ r \in Nat \ {0}
      /\ RefFits(rs, r, ln, Len(cs)) /\ rs[r].args \in Seq(Number)
  BY <1>1, ReferencesType
<1>3. \A k \in DOMAIN rs[r].args : rs[r].args[k] \in DOMAIN rs
  BY <1>2 DEF RefFits
<1>4. rs2[r].args = rs[r].args /\ rs2[r].name = rs[r].name
  BY <1>2 DEF Grows, KeepsReferences
<1>5. PICK g \in Generic :
        /\ rs[r].name = g /\ rs[r].target = GenericType(g)
        /\ Len(rs[r].args) = Len(Definition[g].params)
        /\ \E i \in DOMAIN ex[g] : /\ cs[ex[g][i]].args = rs[r].args \/ Match(ty, cs, ex[g][i], rs[r].args)
                                   /\ Before(cs, ex[g], i, r)
  BY DEF Awaits
<1>6. PICK i \in DOMAIN ex[g] : /\ cs[ex[g][i]].args = rs[r].args \/ Match(ty, cs, ex[g][i], rs[r].args)
                                /\ Before(cs, ex[g], i, r)
  BY <1>5
<1>7. /\ Len(ex[g]) \in Nat /\ DOMAIN ex[g] = 1 .. Len(ex[g])
      /\ \A j \in DOMAIN ex[g] : /\ ex[g][j] \in DOMAIN cs
                                 /\ Len(cs[ex[g][j]].args) = Len(Definition[g].params)
                                 /\ cs[ex[g][j]].args \in Seq(Number)
  BY ListType
<1>8. \A j \in 1 .. i : j \in DOMAIN ex[g]
  BY <1>7
<1>9. /\ i \in DOMAIN ex2[g] /\ \A j \in 1 .. i : ex2[g][j] = ex[g][j]
      /\ \A j \in 1 .. i : cs2[ex[g][j]].args = cs[ex[g][j]].args
  BY <1>7, <1>8 DEF Grows, KeepsLists, KeepsClasses
<1>10. i \in 1 .. i
  BY <1>7
<1>11. ASSUME Match(ty, cs, ex[g][i], rs[r].args)
       PROVE  Match(ty2, cs2, ex[g][i], rs[r].args)
  <2>1. PICK a : a = cs[ex[g][i]].args
    OBVIOUS
  <2>2. a \in Seq(Number) /\ Len(a) = Len(rs[r].args) /\ cs2[ex[g][i]].args = a
    BY <1>5, <1>7, <1>9, <1>10, <2>1
  <2>3. ASSUME NEW k \in DOMAIN rs[r].args
        PROVE  Same(ty2, a[k], rs[r].args[k])
    <3>1. ty[a[k]].is # "generic" /\ ty[rs[r].args[k]] = ty[a[k]]
      BY <1>11, <2>1 DEF Match, Same
    <3>2. a[k] \in DOMAIN rs /\ rs[r].args[k] \in DOMAIN rs
      <4>1. k \in DOMAIN a
        BY <1>2, <2>2
      <4>2. ClassFits(cs, ex[g][i], rs, ln)
        BY <1>7 DEF Heap
      <4>. QED  BY <1>3, <2>1, <4>1, <4>2 DEF ClassFits
    <3>. QED  BY <3>1, <3>2 DEF Same
  <2>. QED  BY <2>2, <2>3 DEF Match
<1>12. cs2[ex2[g][i]].args = rs2[r].args \/ Match(ty2, cs2, ex2[g][i], rs2[r].args)
  BY <1>4, <1>6, <1>9, <1>10, <1>11
<1>13. Before(cs2, ex2[g], i, r)
  BY <1>6, <1>9 DEF Before
<1>. QED  BY <1>4, <1>5, <1>9, <1>12, <1>13 DEF Awaits

-----------------------------------------------------------------------------
(***************************************************************************)
(* The next state.                                                         *)
(***************************************************************************)

\* The invariant of the next state, part by part.
LEMMA NextInv ==
  ASSUME Session', Heap(refs', classes', expanded', appended', line'), Walks(todo', pass', refs', line'),
         pass' # "prompt" /\ errorCount' = 0 => Progress(pass', todo', refs', classes', expanded', line'),
         AllDone(verdicts', refs', classes', expanded'),
         Populated(verdicts', pass', refs', classes', line')
  PROVE  GenInv'
BY DEF GenInv

\* What is known of the numbers of lines.
LEMMA SessionFacts ==
  ASSUME Session
  PROVE  /\ line \in Nat /\ Len(verdicts) \in Nat /\ DOMAIN verdicts = 1 .. Len(verdicts)
         /\ pass # "prompt" => line >= 1 /\ Len(verdicts) = line - 1 /\ source \in Lines[line]
         /\ pass # "prompt" => line \in DOMAIN Lines
         /\ Len(Lines) \in Nat
<1>1. Len(Lines) \in Nat /\ DOMAIN Lines = 1 .. Len(Lines)
  BY LinesAssumption
<1>2. line \in 0 .. Len(Lines) /\ verdicts \in Seq({"accepted", "rejected"})
  BY DEF Session
<1>3. Len(verdicts) \in Nat /\ DOMAIN verdicts = 1 .. Len(verdicts)
  BY <1>2
<1>4. line \in Nat
  BY <1>1, <1>2
<1>5. ASSUME pass # "prompt"
      PROVE  line >= 1 /\ Len(verdicts) = line - 1 /\ source \in Lines[line]
  <2>1. Len(verdicts) = line - 1
    BY <1>5 DEF Session
  <2>2. line >= 1
    BY <1>3, <1>4, <2>1
  <2>. QED  BY <1>4, <2>1, <2>2 DEF Session
<1>. QED  BY <1>1, <1>2, <1>3, <1>4, <1>5

\* The verdict on the line is added.
LEMMA VerdictAdded ==
  ASSUME Session, pass # "prompt", NEW v \in {"accepted", "rejected"}, NEW vs, vs = Append(verdicts, v)
  PROVE  /\ vs \in Seq({"accepted", "rejected"}) /\ Len(vs) = line /\ DOMAIN vs = 1 .. line
         /\ DOMAIN verdicts = 1 .. line - 1 /\ line \in Nat /\ line >= 1
         /\ \A i \in 1 .. line - 1 : vs[i] = verdicts[i]
         /\ vs[line] = v
<1>1. verdicts \in Seq({"accepted", "rejected"})
  BY DEF Session
<1>2. line \in Nat /\ line >= 1 /\ Len(verdicts) = line - 1 /\ DOMAIN verdicts = 1 .. Len(verdicts)
  BY SessionFacts
<1>. DEFINE V == {"accepted", "rejected"}
<1>3. verdicts \in Seq(V) /\ v \in V
  BY <1>1
<1>. HIDE DEF V
<1>4. /\ vs \in Seq(V) /\ Len(vs) = Len(verdicts) + 1
      /\ \A i \in 1 .. Len(verdicts) : vs[i] = verdicts[i]
      /\ vs[Len(verdicts) + 1] = v
  BY <1>3, AppendProperties
<1>5. Len(vs) = line
  BY <1>2, <1>4
<1>6. DOMAIN vs = 1 .. line
  BY <1>4, <1>5, LenProperties
<1>7. vs[line] = v
  BY <1>2, <1>4
<1>. QED  BY <1>2, <1>4, <1>5, <1>6, <1>7 DEF V

\* One more reference is visited.
LEMMA WalkOn ==
  ASSUME NEW td, NEW ps, NEW rs, NEW ln, Walks(td, ps, rs, ln), td # <<>>
  PROVE  /\ Walks(Tail(td), ps, rs, ln)
         /\ ps \in {"resolve", "expand", "convert"}
         /\ Head(td) \in DOMAIN rs /\ rs[Head(td)].line = ln
         /\ ps \in {"resolve", "expand"} => rs[Head(td)].in = 0
         /\ \A r : IsAhead(td, r) <=> r = Head(td) \/ IsAhead(Tail(td), r)
         /\ \A r : IsPassed(td, r) => IsPassed(Tail(td), r)
         /\ IsPassed(Tail(td), Head(td))
         /\ \A r : IsAhead(td, r) => r = Head(td) \/ r > Head(td)
         /\ ~IsAhead(Tail(td), Head(td)) /\ Head(td) \in Nat
<1>. DEFINE tl == Tail(td)
            h  == Head(td)
<1>1. td \in Seq(Number) /\ Ascends(td)
  BY DEF Walks
<1>2. /\ Len(td) \in Nat \ {0} /\ DOMAIN td = 1 .. Len(td)
      /\ h = td[1] /\ tl \in Seq(Number) /\ Len(tl) = Len(td) - 1
      /\ \A i \in 1 .. Len(td) - 1 : tl[i] = td[i + 1]
  BY <1>1, EmptySeq, HeadTailProperties
<1>3. DOMAIN tl = 1 .. Len(td) - 1
  BY <1>2, LenProperties
<1>4. /\ \A i \in DOMAIN tl : i + 1 \in DOMAIN td /\ tl[i] = td[i + 1] /\ i + 1 \in Nat /\ 1 < i + 1
      /\ \A i \in DOMAIN td : i = 1 \/ (i - 1 \in DOMAIN tl /\ td[i] = tl[i - 1])
      /\ 1 \in DOMAIN td
  <2>1. \A n \in Nat \ {0} : /\ \A i \in 1 .. n - 1 : i + 1 \in 1 .. n /\ 1 < i + 1 /\ i + 1 \in Nat
                             /\ \A i \in 1 .. n : i = 1 \/ (i - 1 \in 1 .. n - 1 /\ (i - 1) + 1 = i)
                             /\ 1 \in 1 .. n
    OBVIOUS
  <2>. QED  BY <1>2, <1>3, <2>1
<1>5. \A i \in DOMAIN td : td[i] \in Nat
  BY <1>1 DEF Number
<1>. HIDE DEF tl, h
<1>6. \A i, j \in DOMAIN tl : i < j => tl[i] < tl[j]
  <2>. SUFFICES ASSUME NEW i \in DOMAIN tl, NEW j \in DOMAIN tl, i < j
                PROVE  tl[i] < tl[j]
    OBVIOUS
  <2>1. i + 1 < j + 1
    BY <1>2, <1>3
  <2>. QED  BY <1>1, <1>4, <2>1 DEF Ascends
<1>7. \A i \in DOMAIN tl : h < tl[i]
  BY <1>1, <1>2, <1>4 DEF Ascends
<1>8. \A r : IsAhead(td, r) <=> r = h \/ IsAhead(tl, r)
  BY <1>2, <1>4 DEF IsAhead
<1>9. \A r : IsPassed(td, r) => IsPassed(tl, r)
  BY <1>4 DEF IsPassed
<1>10. IsPassed(tl, h)
  BY <1>7 DEF IsPassed
<1>11. h \in Nat
  BY <1>2, <1>4, <1>5
<1>12. ~IsAhead(tl, h)
  BY <1>7, <1>11 DEF IsAhead
<1>13. \A r : IsAhead(td, r) => r = h \/ r > h
  BY <1>4, <1>5, <1>7, <1>8, <1>11 DEF IsAhead
<1>14. /\ ps \in {"resolve", "expand", "convert"}
       /\ \A i \in DOMAIN td : td[i] \in DOMAIN rs /\ rs[td[i]].line = ln
       /\ ps \in {"resolve", "expand"} => \A i \in DOMAIN td : rs[td[i]].in = 0
       /\ \A r \in DOMAIN rs : rs[r].line = ln /\ (rs[r].in = 0 \/ ps = "convert") =>
            IsAhead(td, r) \/ IsPassed(td, r)
  BY DEF Walks
<1>15. \A r \in DOMAIN rs : rs[r].line = ln /\ (rs[r].in = 0 \/ ps = "convert") =>
            IsAhead(tl, r) \/ IsPassed(tl, r)
  BY <1>8, <1>9, <1>10, <1>14
<1>16. Walks(tl, ps, rs, ln)
  BY <1>2, <1>4, <1>6, <1>14, <1>15 DEF Walks, Ascends
<1>17. h \in DOMAIN rs /\ rs[h].line = ln /\ (ps \in {"resolve", "expand"} => rs[h].in = 0)
  BY <1>2, <1>4, <1>14
<1>. QED  BY <1>8, <1>9, <1>10, <1>11, <1>12, <1>13, <1>14, <1>16, <1>17 DEF tl, h

-----------------------------------------------------------------------------
(***************************************************************************)
(* Where a type is found, and the references that a pass collects.         *)
(***************************************************************************)

\* A reference has the type that it points at, or that the reference written in
\* its line points at which it is an alias of.
Root(rs, r, b) ==
  /\ b \in 1 .. r /\ b \in DOMAIN rs /\ rs[b].line = rs[r].line /\ rs[b].target.is # "alias"
  /\ TypesOf(rs)[b] = rs[b].target /\ TypesOf(rs)[r] = rs[b].target
  /\ b # r => rs[b].in = 0 /\ rs[r].in # 0 /\ rs[r].target.is = "alias" /\ rs[r].target.ref = b
  /\ rs[r].target.is = "alias" => b # r

\* Every reference comes to one that is no alias, before it or itself.
LEMMA RootExists ==
  ASSUME NEW rs, NEW ln, NEW n, References(rs, ln, n), NEW r \in DOMAIN rs
  PROVE  \E b : Root(rs, r, b)
<1>. DEFINE ty == TypesOf(rs)
<1>1. /\ Len(rs) \in Nat /\ DOMAIN rs = 1 .. Len(rs) /\ RefFits(rs, r, ln, n)
      /\ \A q \in DOMAIN rs : RefFits(rs, q, ln, n)
  BY ReferencesType
<1>2. \A q \in 1 .. Len(rs) : ty[q] = IF rs[q].target.is = "alias" THEN ty[rs[q].target.ref] ELSE rs[q].target
  BY TypesAre DEF AreTypes
<1>. HIDE DEF ty
<1>3. CASE rs[r].target.is # "alias"
  <2>1. r \in 1 .. r /\ ty[r] = rs[r].target
    BY <1>1, <1>2, <1>3
  <2>. QED  BY <1>3, <2>1 DEF Root, ty
<1>4. CASE rs[r].target.is = "alias"
  <2>1. PICK b : b = rs[r].target.ref
    OBVIOUS
  <2>2. b \in 1 .. r - 1 /\ rs[b].line = rs[r].line /\ rs[b].in = 0 /\ rs[r].in # 0
    BY <1>1, <1>4, <2>1 DEF RefFits
  <2>3. b \in 1 .. Len(rs) /\ b \in 1 .. r /\ b # r
    BY <1>1, <2>2
  <2>4. rs[b].target.is # "alias"
    BY <1>1, <2>2, <2>3 DEF RefFits
  <2>5. ty[b] = rs[b].target /\ ty[r] = ty[b]
    BY <1>1, <1>2, <1>4, <2>1, <2>3, <2>4
  <2>. QED  BY <1>1, <1>4, <2>1, <2>2, <2>3, <2>4, <2>5 DEF Root, ty
<1>. QED  BY <1>3, <1>4

\* The members of a set of places up to the m-th, in their order.
Gathered(s, S, m) ==
  /\ s \in Seq(Number) /\ Ascends(s)
  /\ \A i \in DOMAIN s : s[i] \in S /\ s[i] \in 1 .. m
  /\ \A r \in S : r \in 1 .. m => IsAhead(s, r)

\* One more place is gathered, or is not.
LEMMA GatherNext ==
  ASSUME NEW S, NEW m \in Nat, NEW s, Gathered(s, S, m), NEW t,
         t = IF m + 1 \in S THEN Append(s, m + 1) ELSE s
  PROVE  Gathered(t, S, m + 1)
<1>1. /\ s \in Seq(Number) /\ Len(s) \in Nat /\ DOMAIN s = 1 .. Len(s)
      /\ \A i \in DOMAIN s : s[i] \in S /\ s[i] \in 1 .. m
      /\ \A r \in S : r \in 1 .. m => IsAhead(s, r)
  BY DEF Gathered
<1>2. /\ \A i \in 1 .. m : i \in 1 .. m + 1 /\ i < m + 1
      /\ \A i \in 1 .. m + 1 : i \in 1 .. m \/ i = m + 1
      /\ m + 1 \in Number /\ m + 1 \in 1 .. m + 1
  BY DEF Number
<1>3. CASE m + 1 \notin S
  <2>1. t = s
    BY <1>3
  <2>2. \A i \in DOMAIN t : t[i] \in S /\ t[i] \in 1 .. m + 1
    BY <1>1, <1>2, <2>1
  <2>3. \A r \in S : r \in 1 .. m + 1 => IsAhead(t, r)
    BY <1>1, <1>2, <1>3, <2>1
  <2>. QED  BY <2>1, <2>2, <2>3 DEF Gathered
<1>4. CASE m + 1 \in S
  <2>1. /\ t \in Seq(Number) /\ Len(t) = Len(s) + 1
        /\ \A i \in 1 .. Len(s) : t[i] = s[i]
        /\ t[Len(t)] = m + 1
    <3>1. t = Append(s, m + 1)
      BY <1>4
    <3>. QED  BY <1>1, <1>2, <3>1, SeqPush
  <2>2. /\ DOMAIN t = 1 .. Len(s) + 1 /\ t[Len(s) + 1] = m + 1 /\ Len(s) + 1 \in 1 .. Len(s) + 1
        /\ \A i \in 1 .. Len(s) + 1 : i \in 1 .. Len(s) \/ i = Len(s) + 1
        /\ \A i \in 1 .. Len(s) : i \in 1 .. Len(s) + 1 /\ i < Len(s) + 1
    BY <1>1, <2>1, LenProperties
  <2>3. \A i \in DOMAIN t : t[i] \in S /\ t[i] \in 1 .. m + 1
    BY <1>1, <1>2, <1>4, <2>1, <2>2
  <2>4. \A r \in S : r \in 1 .. m + 1 => IsAhead(t, r)
    BY <1>1, <1>2, <2>1, <2>2 DEF IsAhead
  <2>5. ASSUME NEW i \in DOMAIN t, NEW j \in DOMAIN t, i < j
        PROVE  t[i] < t[j]
    <3>1. i \in 1 .. Len(s)
      BY <1>1, <2>2, <2>5
    <3>2. CASE j \in 1 .. Len(s)
      BY <1>1, <2>1, <2>5, <3>1, <3>2 DEF Gathered, Ascends
    <3>3. CASE j = Len(s) + 1
      <4>1. t[i] = s[i] /\ s[i] \in 1 .. m /\ t[j] = m + 1
        BY <1>1, <2>1, <2>2, <3>1, <3>3
      <4>. QED  BY <1>2, <4>1
    <3>. QED  BY <2>2, <3>2, <3>3
  <2>. QED  BY <2>1, <2>3, <2>4, <2>5 DEF Gathered, Ascends
<1>. QED  BY <1>3, <1>4

\* What the recursion of Collect asks of a function.
Gathering(f, S, n) ==
  [r \in 0 .. n |-> IF r = 0 THEN <<>> ELSE IF r \in S THEN Append(f[r - 1], r) ELSE f[r - 1]]

\* A function that it asks for exists, for every number of references.
LEMMA GatherUpTo ==
  ASSUME NEW S, NEW n \in Nat
  PROVE  \E f : f = Gathering(f, S, n)
<1>. DEFINE T(f, m) == f = [r \in 0 .. m |-> IF r = 0 THEN <<>>
                                             ELSE IF r \in S THEN Append(f[r - 1], r) ELSE f[r - 1]]
            N == {m \in Nat : \E f : T(f, m)}
<1>1. 0 \in N
  <2>. DEFINE f == [r \in 0 .. 0 |-> <<>>]
  <2>1. 0 .. 0 = {0} /\ \A r \in 0 .. 0 : r = 0
    OBVIOUS
  <2>2. f = [r \in 0 .. 0 |-> IF r = 0 THEN <<>> ELSE IF r \in S THEN Append(f[r - 1], r) ELSE f[r - 1]]
    BY <2>1
  <2>3. T(f, 0)
    BY <2>2
  <2>. HIDE DEF T, f
  <2>. QED  BY <2>3
<1>2. ASSUME NEW m \in N
      PROVE  m + 1 \in N
  <2>1. m \in Nat
    OBVIOUS
  <2>2. PICK f : T(f, m)
    OBVIOUS
  <2>. DEFINE last == IF m + 1 \in S THEN Append(f[m], m + 1) ELSE f[m]
              g == [r \in 0 .. m + 1 |-> IF r = m + 1 THEN last ELSE f[r]]
  <2>3. /\ \A r \in 0 .. m : r \in 0 .. m + 1 /\ r # m + 1 /\ (r # 0 => r - 1 \in 0 .. m)
        /\ \A r \in 0 .. m + 1 : r \in 0 .. m \/ r = m + 1
        /\ m + 1 \in 0 .. m + 1 /\ m + 1 # 0 /\ (m + 1) - 1 = m /\ m \in 0 .. m
    BY <2>1
  <2>4. \A r \in 0 .. m : f[r] = IF r = 0 THEN <<>> ELSE IF r \in S THEN Append(f[r - 1], r) ELSE f[r - 1]
    BY <2>2
  <2>5. g[m + 1] = last /\ \A r \in 0 .. m : g[r] = f[r]
    BY <2>3
  <2>6. \A r \in 0 .. m + 1 : g[r] = IF r = 0 THEN <<>> ELSE IF r \in S THEN Append(g[r - 1], r) ELSE g[r - 1]
    <3>. HIDE DEF g
    <3>1. \A r \in 0 .. m : g[r] = IF r = 0 THEN <<>> ELSE IF r \in S THEN Append(g[r - 1], r) ELSE g[r - 1]
      BY <2>3, <2>4, <2>5
    <3>2. g[m + 1] = IF m + 1 \in S THEN Append(g[m], m + 1) ELSE g[m]
      BY <2>3, <2>5
    <3>. HIDE DEF last
    <3>. QED  BY <2>3, <3>1, <3>2
  <2>7. g = [r \in 0 .. m + 1 |-> IF r = 0 THEN <<>> ELSE IF r \in S THEN Append(g[r - 1], r) ELSE g[r - 1]]
    <3>. DEFINE G(r) == IF r = 0 THEN <<>> ELSE IF r \in S THEN Append(g[r - 1], r) ELSE g[r - 1]
    <3>1. \A r \in 0 .. m + 1 : g[r] = G(r)
      BY <2>6
    <3>2. g = [r \in 0 .. m + 1 |-> g[r]]
      OBVIOUS
    <3>. HIDE DEF g
    <3>. QED  BY <3>1, <3>2
  <2>8. T(g, m + 1)
    <3>. HIDE DEF g
    <3>. QED  BY <2>7
  <2>. HIDE DEF T, g
  <2>. QED  BY <2>8, <2>1
<1>3. N \in SUBSET Nat
  OBVIOUS
<1>. HIDE DEF N
<1>4. \A m \in Nat : m \in N
  BY <1>1, <1>2, <1>3, Induction
<1>5. n \in N
  BY <1>4
<1>. HIDE DEF T
<1>6. \E f : T(f, n)
  BY <1>5 DEF N
<1>. QED  BY <1>6 DEF T, Gathering

\* What Collect returns: the members of a set of references in their order.
LEMMA CollectIs ==
  ASSUME refs \in Seq(RefType), NEW S \in SUBSET DOMAIN refs
  PROVE  Gathered(Collect(S), S, Len(refs)) /\ S \subseteq 1 .. Len(refs)
<1>1. Len(refs) \in Nat /\ DOMAIN refs = 1 .. Len(refs)
  OBVIOUS
<1>2. PICK n \in Nat : n = Len(refs)
  BY <1>1
<1>. DEFINE G(f) == [r \in 0 .. n |-> IF r = 0 THEN <<>>
                                      ELSE IF r \in S THEN Append(f[r - 1], r) ELSE f[r - 1]]
<1>3. \E f : f = G(f)
  <2>1. \E f : f = Gathering(f, S, n)
    BY GatherUpTo
  <2>. QED  BY <2>1 DEF Gathering
<1>4. PICK c : c = CHOOSE f : f = G(f)
  OBVIOUS
<1>5. c = G(c)
  <2>. HIDE DEF G
  <2>. QED  BY <1>3, <1>4
<1>6. Collect(S) = c[n]
  BY <1>2, <1>4 DEF Collect
<1>7. \A r \in 0 .. n : c[r] = IF r = 0 THEN <<>> ELSE IF r \in S THEN Append(c[r - 1], r) ELSE c[r - 1]
  BY <1>5
<1>. DEFINE N == {m \in Nat : m <= n => Gathered(c[m], S, m)}
<1>8. 0 \in N
  <2>1. <<>> \in Seq(Number) /\ DOMAIN <<>> = {} /\ 1 .. 0 = {} /\ 0 \in 0 .. n
    OBVIOUS
  <2>2. Gathered(<<>>, S, 0)
    BY <2>1 DEF Gathered, Ascends
  <2>. QED  BY <1>7, <2>1, <2>2
<1>9. ASSUME NEW m \in N
      PROVE  m + 1 \in N
  <2>. SUFFICES ASSUME m + 1 <= n
                PROVE  Gathered(c[m + 1], S, m + 1)
    OBVIOUS
  <2>1. m \in Nat /\ m + 1 \in 0 .. n /\ m + 1 # 0 /\ (m + 1) - 1 = m /\ Gathered(c[m], S, m)
    OBVIOUS
  <2>2. c[m + 1] = IF m + 1 \in S THEN Append(c[m], m + 1) ELSE c[m]
    BY <1>7, <2>1
  <2>. QED  BY <2>1, <2>2, GatherNext
<1>10. N \in SUBSET Nat
  OBVIOUS
<1>. HIDE DEF N, G
<1>11. \A m \in Nat : m \in N
  BY <1>8, <1>9, <1>10, Induction
<1>12. n \in N
  BY <1>11
<1>13. Gathered(c[n], S, n)
  BY <1>12 DEF N
<1>. QED  BY <1>1, <1>2, <1>6, <1>13

-----------------------------------------------------------------------------
(***************************************************************************)
(* First members, and what a name is found to be.                          *)
(***************************************************************************)

\* First takes the least member of a set of numbers that has one.
LEMMA FirstIs ==
  ASSUME NEW S, S \subseteq Nat, S # {}
  PROVE  First(S) \in S /\ \A j \in S : First(S) <= j
<1>. DEFINE R == OpToRel(<, Nat)
<1>1. IsWellFoundedOn(R, Nat)
  BY NatLessThanWellFounded, Zenon
<1>2. \A a, b \in Nat : a < b => <<a, b>> \in R
  BY DEF OpToRel
<1>. HIDE DEF R
<1>3. PICK x \in S : \A y \in S : ~(<<y, x>> \in R)
  BY <1>1, WFMin, Zenon
<1>4. ASSUME NEW y \in S
      PROVE  x <= y
  <2>1. x \in Nat /\ y \in Nat
    OBVIOUS
  <2>2. ~(y < x)
    BY <1>2, <1>3, <2>1
  <2>. QED  BY <2>1, <2>2
<1>5. \E i \in S : \A j \in S : i <= j
  BY <1>4
<1>. QED  BY <1>5 DEF First

\* A name is not found to be a completed class; it is an alias only for the name
\* of a parameter, of one of the arguments; it is a generic only of that name.
Finds(t, n, params, args) ==
  /\ t \in TargetType
  /\ t.is # "completed"
  /\ t.is = "generic" => t.name = n
  /\ t.is = "alias" => \E k \in DOMAIN params : t.ref = args[k]
  /\ t.is = "unresolved" => t = Unresolved

\* LookUp finds no completed class, and an alias of an argument only.
LEMMA LookUpFinds ==
  ASSUME NEW n, NEW params \in Seq(STRING), NEW args \in Seq(Number), Len(args) = Len(params)
  PROVE  Finds(LookUp(n, params, args), n, params, args)
<1>. DEFINE K == {k \in DOMAIN params : params[k] = n}
            t == LookUp(n, params, args)
<1>1. CASE n \in Keyword
  <2>1. t = Scalar(n)
    BY <1>1 DEF LookUp
  <2>. HIDE DEF t
  <2>2. Finds(t, n, params, args)
    BY <1>1, <2>1 DEF Scalar, Finds, TargetType
  <2>. QED  BY <2>2 DEF t
<1>2. CASE n \notin Keyword /\ \E k \in DOMAIN params : params[k] = n
  <2>1. t = AliasOf(args[First(K)])
    BY <1>2 DEF LookUp
  <2>2. K \subseteq Nat /\ K # {}
    BY <1>2
  <2>3. First(K) \in K
    <3>. HIDE DEF K
    <3>. QED  BY <2>2, FirstIs
  <2>4. First(K) \in DOMAIN params /\ args[First(K)] \in Nat \ {0}
    <3>1. DOMAIN params = DOMAIN args
      OBVIOUS
    <3>. QED  BY <2>3, <3>1 DEF Number
  <2>. HIDE DEF t, K
  <2>5. Finds(t, n, params, args)
    BY <2>1, <2>4 DEF AliasOf, Finds, TargetType
  <2>. QED  BY <2>5 DEF t
<1>3. CASE n \notin Keyword /\ ~(\E k \in DOMAIN params : params[k] = n) /\ n \in Generic
  <2>1. t = GenericType(n)
    BY <1>3 DEF LookUp
  <2>. HIDE DEF t
  <2>2. Finds(t, n, params, args)
    BY <1>3, <2>1 DEF GenericType, Finds, TargetType
  <2>. QED  BY <2>2 DEF t
<1>4. CASE n \notin Keyword /\ ~(\E k \in DOMAIN params : params[k] = n) /\ n \notin Generic /\ n \in ClassName
  <2>1. t = Plain(n)
    BY <1>4 DEF LookUp
  <2>. HIDE DEF t
  <2>2. Finds(t, n, params, args)
    BY <1>4, <2>1 DEF Plain, Finds, TargetType
  <2>. QED  BY <2>2 DEF t
<1>5. CASE n \notin Keyword /\ ~(\E k \in DOMAIN params : params[k] = n) /\ n \notin Generic /\ n \notin ClassName
  <2>1. t = Unresolved
    BY <1>5 DEF LookUp
  <2>. HIDE DEF t
  <2>2. Finds(t, n, params, args)
    BY <2>1 DEF Unresolved, Finds, TargetType
  <2>. QED  BY <2>2 DEF t
<1>. QED  BY <1>1, <1>2, <1>3, <1>4, <1>5

\* What a text and its references are.
LEMMA TextType ==
  ASSUME NEW text \in Text, WellFormed(text)
  PROVE  /\ Len(text) \in Nat /\ DOMAIN text = 1 .. Len(text)
         /\ \A i \in DOMAIN text : /\ text[i].name \in STRING /\ text[i].args \in Seq(Number)
                                   /\ \A k \in DOMAIN text[i].args : text[i].args[k] \in 1 .. i - 1
<1>1. Len(text) \in Nat /\ DOMAIN text = 1 .. Len(text)
  BY DEF Text
<1>2. ASSUME NEW i \in DOMAIN text
      PROVE  text[i].name \in STRING /\ text[i].args \in Seq(Number)
  <2>. DEFINE E == [name : STRING, args : Seq(Nat \ {0})]
  <2>1. text \in Seq(E)
    BY DEF Text
  <2>2. \A e \in E : e.name \in STRING /\ e.args \in Seq(Number)
    BY DEF Number
  <2>. HIDE DEF E
  <2>. QED  BY <2>1, <2>2
<1>3. ASSUME NEW i \in DOMAIN text, NEW k \in DOMAIN text[i].args
      PROVE  text[i].args[k] \in 1 .. i - 1
  <2>1. text[i].args[k] \in Number
    BY <1>2
  <2>2. text[i].args[k] < i
    BY DEF WellFormed
  <2>. QED  BY <1>1, <2>1, <2>2 DEF Number
<1>. QED  BY <1>1, <1>2, <1>3

-----------------------------------------------------------------------------
(***************************************************************************)
(* References that are added to the heap.                                  *)
(***************************************************************************)

\* New references of a line, which follow rs.
IsCopy(copy, rs, of, in, args) ==
  /\ copy \in Seq(RefType)
  /\ \A i \in DOMAIN copy :
       /\ copy[i].line = of /\ copy[i].in = in
       /\ \A k \in DOMAIN copy[i].args : copy[i].args[k] \in Len(rs) + 1 .. Len(rs) + i - 1
       /\ copy[i].target.is # "completed"
       /\ copy[i].target.is = "generic" => copy[i].target.name = copy[i].name
       /\ copy[i].target.is = "alias" => \E k \in DOMAIN args : copy[i].target.ref = args[k]

\* What Copy is called with.
CanCopy(rs, text, of, in, params, args, resolved) ==
  /\ rs \in Seq(RefType) /\ text \in Text /\ WellFormed(text) /\ of \in Nat /\ in \in Nat
  /\ params \in Seq(STRING) /\ args \in Seq(Number) /\ Len(args) = Len(params) /\ resolved \in BOOLEAN

\* Copy makes them, and finds what each of them is when it is asked to.
LEMMA CopyIs ==
  ASSUME NEW text, NEW of, NEW in, NEW params, NEW args, NEW resolved,
         CanCopy(refs, text, of, in, params, args, resolved),
         NEW copy, copy = Copy(text, of, in, params, args, resolved)
  PROVE  /\ IsCopy(copy, refs, of, in, args) /\ Len(copy) = Len(text) /\ DOMAIN copy = DOMAIN text
         /\ \A i \in DOMAIN copy : IF resolved
                                   THEN copy[i].target.is = "unresolved" => copy[i].target = Unresolved
                                   ELSE copy[i].target = Unresolved
<1>. DEFINE Entry(i) == [name   |-> text[i].name,
                         args   |-> [k \in DOMAIN text[i].args |-> text[i].args[k] + Len(refs)],
                         line   |-> of, in |-> in,
                         target |-> IF resolved THEN LookUp(text[i].name, params, args) ELSE Unresolved]
            shift(i) == [k \in DOMAIN text[i].args |-> text[i].args[k] + Len(refs)]
<1>. /\ refs \in Seq(RefType) /\ text \in Text /\ WellFormed(text) /\ of \in Nat /\ in \in Nat
     /\ params \in Seq(STRING) /\ args \in Seq(Number) /\ Len(args) = Len(params) /\ resolved \in BOOLEAN
  BY DEF CanCopy
<1>1. copy = [i \in DOMAIN text |-> Entry(i)]
  BY DEF Copy
<1>2. /\ Len(text) \in Nat /\ DOMAIN text = 1 .. Len(text) /\ Len(refs) \in Nat
      /\ \A i \in DOMAIN text : /\ text[i].name \in STRING /\ text[i].args \in Seq(Number)
                                /\ \A k \in DOMAIN text[i].args : text[i].args[k] \in 1 .. i - 1
  BY TextType
<1>3. ASSUME NEW i \in DOMAIN text
      PROVE  /\ shift(i) \in Seq(Number) /\ DOMAIN shift(i) = DOMAIN text[i].args
             /\ \A k \in DOMAIN shift(i) : shift(i)[k] \in Len(refs) + 1 .. Len(refs) + i - 1
  <2>1. PICK m \in Nat : DOMAIN text[i].args = 1 .. m
    BY <1>2
  <2>2. ASSUME NEW k \in 1 .. m
        PROVE  shift(i)[k] \in Number /\ shift(i)[k] \in Len(refs) + 1 .. Len(refs) + i - 1
    <3>1. text[i].args[k] \in 1 .. i - 1 /\ shift(i)[k] = text[i].args[k] + Len(refs)
      BY <1>2, <2>1
    <3>2. i \in Nat
      BY <1>2
    <3>. HIDE DEF shift
    <3>3. \A m1, i1 \in Nat : \A x \in 1 .. i1 - 1 : x + m1 \in Nat \ {0} /\ x + m1 \in m1 + 1 .. m1 + i1 - 1
      OBVIOUS
    <3>4. text[i].args[k] + Len(refs) \in Nat \ {0}
          /\ text[i].args[k] + Len(refs) \in Len(refs) + 1 .. Len(refs) + i - 1
      BY <1>2, <3>1, <3>2, <3>3
    <3>. QED  BY <3>1, <3>4 DEF Number
  <2>3. shift(i) = [k \in 1 .. m |-> shift(i)[k]]
    BY <2>1
  <2>. HIDE DEF shift
  <2>4. shift(i) \in [1 .. m -> Number]
    BY <2>2, <2>3
  <2>5. shift(i) \in Seq(Number)
    BY <2>4, SeqDef
  <2>. QED  BY <2>1, <2>2, <2>3, <2>5
<1>4. ASSUME NEW i \in DOMAIN text
      PROVE  /\ Entry(i).target \in TargetType
             /\ Entry(i).target.is # "completed"
             /\ Entry(i).target.is = "generic" => Entry(i).target.name = text[i].name
             /\ Entry(i).target.is = "alias" => \E k \in DOMAIN args : Entry(i).target.ref = args[k]
             /\ IF resolved THEN Entry(i).target.is = "unresolved" => Entry(i).target = Unresolved
                ELSE Entry(i).target = Unresolved
  <2>1. CASE ~resolved
    <3>1. Entry(i).target = Unresolved
      BY <2>1
    <3>. HIDE DEF Entry
    <3>. QED  BY <2>1, <3>1 DEF Unresolved, TargetType
  <2>2. CASE resolved
    <3>1. Finds(LookUp(text[i].name, params, args), text[i].name, params, args)
      BY LookUpFinds
    <3>2. Entry(i).target = LookUp(text[i].name, params, args)
      BY <2>2
    <3>3. DOMAIN params = DOMAIN args
      OBVIOUS
    <3>. HIDE DEF Entry
    <3>. QED  BY <2>2, <3>1, <3>2, <3>3 DEF Finds
  <2>. QED  BY <2>1, <2>2
<1>5. ASSUME NEW i \in DOMAIN text
      PROVE  Entry(i) \in RefType
  <2>1. Entry(i).target \in TargetType
    BY <1>4
  <2>2. shift(i) \in Seq(Number) /\ text[i].name \in STRING
    BY <1>2, <1>3
  <2>3. Entry(i) = [name |-> text[i].name, args |-> shift(i), line |-> of, in |-> in,
                    target |-> Entry(i).target]
    OBVIOUS
  <2>. HIDE DEF Entry, shift
  <2>. QED  BY <2>1, <2>2, <2>3 DEF RefType
<1>6. ASSUME NEW i \in DOMAIN text
      PROVE  /\ Entry(i).name = text[i].name /\ Entry(i).args = shift(i)
             /\ Entry(i).line = of /\ Entry(i).in = in
  OBVIOUS
<1>. HIDE DEF Entry, shift
<1>7. DOMAIN copy = DOMAIN text /\ \A i \in DOMAIN text : copy[i] = Entry(i)
  BY <1>1
<1>8. copy \in Seq(RefType) /\ Len(copy) = Len(text)
  BY <1>1, <1>2, <1>5
<1>9. ASSUME NEW i \in DOMAIN copy
      PROVE  /\ copy[i].line = of /\ copy[i].in = in
             /\ \A k \in DOMAIN copy[i].args : copy[i].args[k] \in Len(refs) + 1 .. Len(refs) + i - 1
             /\ copy[i].target.is # "completed"
             /\ copy[i].target.is = "generic" => copy[i].target.name = copy[i].name
             /\ copy[i].target.is = "alias" => \E k \in DOMAIN args : copy[i].target.ref = args[k]
  <2>1. i \in DOMAIN text /\ copy[i] = Entry(i)
    BY <1>7
  <2>2. copy[i].args = shift(i) /\ copy[i].line = of /\ copy[i].in = in /\ copy[i].name = text[i].name
    BY <1>6, <2>1
  <2>3. \A k \in DOMAIN copy[i].args : copy[i].args[k] \in Len(refs) + 1 .. Len(refs) + i - 1
    BY <1>3, <2>1, <2>2
  <2>. QED  BY <1>4, <2>1, <2>2, <2>3
<1>10. IsCopy(copy, refs, of, in, args)
  BY <1>8, <1>9 DEF IsCopy
<1>. QED  BY <1>4, <1>7, <1>8, <1>10

\* What the references are to which others were added.
Added(rs, rs2, copy) ==
  /\ rs2 \in Seq(RefType) /\ Len(rs2) = Len(rs) + Len(copy) /\ Len(rs) <= Len(rs2)
  /\ \A r \in DOMAIN rs : r \in DOMAIN rs2 /\ rs2[r] = rs[r]
  /\ \A i \in DOMAIN copy : Len(rs) + i \in DOMAIN rs2 /\ rs2[Len(rs) + i] = copy[i]
  /\ \A r \in DOMAIN rs2 : r \in DOMAIN rs \/ (r > Len(rs) /\ r - Len(rs) \in DOMAIN copy
                                               /\ rs2[r] = copy[r - Len(rs)])

\* Concatenation adds them so.
LEMMA AddedIs ==
  ASSUME NEW rs \in Seq(RefType), NEW copy \in Seq(RefType), NEW rs2, rs2 = rs \o copy
  PROVE  Added(rs, rs2, copy)
<1>1. /\ Len(rs) \in Nat /\ DOMAIN rs = 1 .. Len(rs)
      /\ Len(copy) \in Nat /\ DOMAIN copy = 1 .. Len(copy)
  OBVIOUS
<1>2. /\ rs2 \in Seq(RefType) /\ Len(rs2) = Len(rs) + Len(copy)
      /\ \A i \in 1 .. Len(rs) + Len(copy) : rs2[i] = IF i <= Len(rs) THEN rs[i] ELSE copy[i - Len(rs)]
  BY ConcatProperties
<1>3. DOMAIN rs2 = 1 .. Len(rs) + Len(copy)
  BY <1>2, LenProperties
<1>4. \A m, n \in Nat : /\ m <= m + n
                        /\ \A r \in 1 .. m : r \in 1 .. m + n /\ r <= m
                        /\ \A i \in 1 .. n : m + i \in 1 .. m + n /\ ~(m + i <= m) /\ (m + i) - m = i
                        /\ \A r \in 1 .. m + n : r \in 1 .. m \/ (r > m /\ r - m \in 1 .. n /\ ~(r <= m))
  OBVIOUS
<1>5. PICK m \in Nat, n \in Nat : m = Len(rs) /\ n = Len(copy)
  BY <1>1
<1>. QED  BY <1>1, <1>2, <1>3, <1>4, <1>5 DEF Added

\* They fit, if they are of the line at work, or the only ones of a new line.
LEMMA CopyAdded ==
  ASSUME NEW rs, NEW ln \in Nat, NEW n \in Nat, References(rs, ln, n),
         NEW copy, NEW of \in Nat \ {0}, NEW in \in Nat, NEW args, IsCopy(copy, rs, of, in, args),
         NEW n2 \in Nat, ln <= of, n <= n2, in <= n2,
         \A k \in DOMAIN args : args[k] \in DOMAIN rs /\ rs[args[k]].line = of /\ rs[args[k]].in = 0,
         in = 0 => DOMAIN args = {} /\ ln < of,
         NEW rs2, Added(rs, rs2, copy)
  PROVE  References(rs2, of, n2)
<1>1. /\ rs \in Seq(RefType) /\ Len(rs) \in Nat /\ DOMAIN rs = 1 .. Len(rs)
      /\ \A r \in DOMAIN rs : RefFits(rs, r, ln, n)
  BY ReferencesType
<1>2. /\ copy \in Seq(RefType)
      /\ \A i \in DOMAIN copy :
           /\ copy[i].line = of /\ copy[i].in = in
           /\ \A k \in DOMAIN copy[i].args : copy[i].args[k] \in Len(rs) + 1 .. Len(rs) + i - 1
           /\ copy[i].target.is # "completed"
           /\ copy[i].target.is = "generic" => copy[i].target.name = copy[i].name
           /\ copy[i].target.is = "alias" => \E k \in DOMAIN args : copy[i].target.ref = args[k]
  BY DEF IsCopy
<1>3. /\ rs2 \in Seq(RefType)
      /\ \A r \in DOMAIN rs : r \in DOMAIN rs2 /\ rs2[r] = rs[r]
      /\ \A i \in DOMAIN copy : Len(rs) + i \in DOMAIN rs2 /\ rs2[Len(rs) + i] = copy[i]
      /\ \A r \in DOMAIN rs2 : r \in DOMAIN rs \/ (r > Len(rs) /\ r - Len(rs) \in DOMAIN copy
                                                   /\ rs2[r] = copy[r - Len(rs)])
  BY DEF Added
<1>4. Len(copy) \in Nat /\ DOMAIN copy = 1 .. Len(copy) /\ Len(rs2) \in Nat /\ DOMAIN rs2 = 1 .. Len(rs2)
  BY <1>2, <1>3
<1>5. ASSUME NEW r \in DOMAIN rs
      PROVE  RefFits(rs2, r, of, n2)
  <2>1. rs2[r] = rs[r] /\ RefFits(rs, r, ln, n) /\ r \in Nat /\ r <= Len(rs)
    BY <1>1, <1>3
  <2>2. \A q \in 1 .. r - 1 : q \in DOMAIN rs /\ rs2[q] = rs[q]
    BY <1>1, <1>3, <2>1
  <2>3. rs[r].line \in 1 .. of /\ rs[r].in \in 0 .. n2
    BY <2>1 DEF RefFits
  <2>4. rs[r].target.is = "completed" => rs[r].target.class \in 1 .. n2
    BY <2>1 DEF RefFits
  <2>5. \A k \in DOMAIN rs[r].args : /\ rs[r].args[k] \in 1 .. r - 1
                                     /\ rs2[rs[r].args[k]].line = rs[r].line
                                     /\ rs2[rs[r].args[k]].in = rs[r].in
    BY <2>1, <2>2 DEF RefFits
  <2>6. rs[r].target.is = "alias" => /\ rs[r].target.ref \in 1 .. r - 1
                                     /\ rs2[rs[r].target.ref].line = rs[r].line
                                     /\ rs2[rs[r].target.ref].in = 0 /\ rs[r].in # 0
    BY <2>1, <2>2 DEF RefFits
  <2>. QED  BY <2>1, <2>3, <2>4, <2>5, <2>6 DEF RefFits
<1>6. ASSUME NEW r \in DOMAIN rs2, r \notin DOMAIN rs
      PROVE  RefFits(rs2, r, of, n2)
  <2>1. PICK i \in DOMAIN copy : r = Len(rs) + i /\ rs2[r] = copy[i]
    <3>1. Len(rs) + (r - Len(rs)) = r
      BY <1>1, <1>4
    <3>. QED  BY <1>3, <1>6, <3>1
  <2>2. i \in Nat \ {0} /\ r \in Nat
    BY <1>1, <1>4, <2>1
  <2>3. rs2[r].line \in 1 .. of /\ rs2[r].in \in 0 .. n2
    BY <1>2, <2>1
  <2>4. rs2[r].target.is # "completed" /\ (rs2[r].target.is = "generic" => rs2[r].target.name = rs2[r].name)
    BY <1>2, <2>1
  <2>5. ASSUME NEW k \in DOMAIN rs2[r].args
        PROVE  /\ rs2[r].args[k] \in 1 .. r - 1 /\ rs2[rs2[r].args[k]].line = rs2[r].line
               /\ rs2[rs2[r].args[k]].in = rs2[r].in
    <3>1. PICK a : a = rs2[r].args[k]
      OBVIOUS
    <3>2. a \in Len(rs) + 1 .. Len(rs) + i - 1
      BY <1>2, <2>1, <3>1
    <3>3. a \in 1 .. r - 1 /\ a \in DOMAIN rs2 /\ a \notin DOMAIN rs
      BY <1>1, <1>4, <2>1, <2>2, <3>2
    <3>4. rs2[a].line = of /\ rs2[a].in = in
      BY <1>2, <1>3, <3>3
    <3>. QED  BY <1>2, <2>1, <3>1, <3>3, <3>4
  <2>6. ASSUME rs2[r].target.is = "alias"
        PROVE  /\ rs2[r].target.ref \in 1 .. r - 1
               /\ rs2[rs2[r].target.ref].line = rs2[r].line
               /\ rs2[rs2[r].target.ref].in = 0 /\ rs2[r].in # 0
    <3>1. PICK k \in DOMAIN args : rs2[r].target.ref = args[k]
      BY <1>2, <2>1, <2>6
    <3>2. args[k] \in DOMAIN rs /\ rs2[args[k]] = rs[args[k]] /\ rs[args[k]].line = of /\ rs[args[k]].in = 0
      BY <1>3
    <3>3. args[k] \in 1 .. r - 1
      BY <1>1, <2>1, <2>2, <3>2
    <3>. QED  BY <1>2, <2>1, <3>1, <3>2, <3>3
  <2>. QED  BY <2>3, <2>4, <2>5, <2>6 DEF RefFits
<1>7. ASSUME NEW q \in DOMAIN rs2, NEW r \in DOMAIN rs2, q < r
      PROVE  /\ rs2[q].line <= rs2[r].line
             /\ rs2[q].line = rs2[r].line /\ rs2[q].in # 0 => rs2[r].in # 0
  <2>1. \A x \in DOMAIN rs : rs[x].line \in Nat /\ rs[x].line <= ln
    BY <1>1 DEF RefFits
  <2>2. \A x \in DOMAIN rs2 : x \notin DOMAIN rs => rs2[x].line = of /\ rs2[x].in = in
    BY <1>2, <1>3
  <2>3. CASE r \in DOMAIN rs
    <3>1. q \in DOMAIN rs
      BY <1>1, <1>4, <1>7, <2>3
    <3>. QED  BY <1>3, <1>7, <2>3, <3>1 DEF References, InOrder
  <2>4. CASE r \notin DOMAIN rs /\ q \in DOMAIN rs
    <3>1. rs2[q] = rs[q] /\ rs2[r].line = of /\ rs2[r].in = in /\ rs[q].line \in Nat /\ rs[q].line <= ln
      BY <1>3, <2>1, <2>2, <2>4
    <3>. QED  BY <3>1
  <2>5. CASE r \notin DOMAIN rs /\ q \notin DOMAIN rs
    BY <2>2, <2>5
  <2>. QED  BY <2>3, <2>4, <2>5
<1>8. \A r \in DOMAIN rs2 : RefFits(rs2, r, of, n2)
  BY <1>5, <1>6
<1>9. InOrder(rs2)
  BY <1>7 DEF InOrder
<1>. QED  BY <1>3, <1>8, <1>9 DEF References

-----------------------------------------------------------------------------
(***************************************************************************)
(* What a change of the heap leaves as it was.                             *)
(***************************************************************************)

\* A class fits when references are added that are in another one.
LEMMA ClassFitsKept ==
  ASSUME NEW rs, NEW rs2, KeepsReferences(rs, rs2), rs \in Seq(RefType), rs2 \in Seq(RefType),
         NEW ln \in Nat, NEW ln2 \in Nat, ln <= ln2,
         NEW cs, NEW cs2, NEW c, ClassFits(cs, c, rs, ln),
         cs2[c].of = cs[c].of, cs2[c].args = cs[c].args, cs2[c].body = cs[c].body, cs2[c].line = cs[c].line,
         \A r \in DOMAIN rs2 : r \in DOMAIN rs \/ rs2[r].in # c
  PROVE  ClassFits(cs2, c, rs2, ln2)
<1>1. \A r \in DOMAIN rs : /\ r \in DOMAIN rs2
                           /\ rs2[r].line = rs[r].line /\ rs2[r].in = rs[r].in
  <2>1. \A m, n \in Nat : m <= n => \A r \in 1 .. m : r \in 1 .. n
    OBVIOUS
  <2>2. /\ Len(rs) \in Nat /\ DOMAIN rs = 1 .. Len(rs)
        /\ Len(rs2) \in Nat /\ DOMAIN rs2 = 1 .. Len(rs2) /\ Len(rs) <= Len(rs2)
    BY DEF KeepsReferences
  <2>3. DOMAIN rs \subseteq DOMAIN rs2
    BY <2>1, <2>2
  <2>. QED  BY <2>3 DEF KeepsReferences
<1>2. cs[c].line \in 1 .. ln2
  BY DEF ClassFits
<1>3. \A k \in DOMAIN cs[c].args : /\ cs[c].args[k] \in DOMAIN rs2
                                   /\ rs2[cs[c].args[k]].line = cs[c].line
                                   /\ rs2[cs[c].args[k]].in = 0
  BY <1>1 DEF ClassFits
<1>4. \A i \in DOMAIN cs[c].body : /\ cs[c].body[i] \in DOMAIN rs2
                                   /\ cs[c].body[i] = cs[c].body[1] + i - 1
  BY <1>1 DEF ClassFits
<1>5. \A r \in DOMAIN rs2 : rs2[r].in = c <=> \E i \in DOMAIN cs[c].body : cs[c].body[i] = r
  BY <1>1 DEF ClassFits
<1>6. Len(cs[c].args) = Len(Definition[cs[c].of].params)
  BY DEF ClassFits
<1>. QED  BY <1>2, <1>3, <1>4, <1>5, <1>6 DEF ClassFits

\* One reference is pointed at what it refers to.
Retargets(rs, rs2, h, t) ==
  /\ rs2 \in Seq(RefType) /\ Len(rs2) = Len(rs) /\ DOMAIN rs2 = DOMAIN rs
  /\ KeepsReferences(rs, rs2)
  /\ \A r \in DOMAIN rs : rs2[r].target = IF r = h THEN t ELSE rs[r].target

\* An EXCEPT of the target does so.
LEMMA RetargetsIs ==
  ASSUME NEW rs \in Seq(RefType), NEW h \in DOMAIN rs, NEW t \in TargetType,
         NEW rs2, rs2 = [rs EXCEPT ![h].target = t]
  PROVE  Retargets(rs, rs2, h, t)
<1>. DEFINE e == [rs[h] EXCEPT !.target = t]
<1>1. rs2 = [rs EXCEPT ![h] = e]
  OBVIOUS
<1>2. Len(rs) \in Nat /\ DOMAIN rs = 1 .. Len(rs) /\ rs[h] \in RefType
  OBVIOUS
<1>3. /\ e \in RefType /\ e.target = t /\ e.name = rs[h].name /\ e.args = rs[h].args
      /\ e.line = rs[h].line /\ e.in = rs[h].in
  BY <1>2 DEF RefType
<1>. HIDE DEF e
<1>4. /\ rs2 \in Seq(RefType) /\ Len(rs2) = Len(rs)
  BY <1>1, <1>2, <1>3, ExceptSeq
<1>5. DOMAIN rs2 = DOMAIN rs /\ \A r \in DOMAIN rs : rs2[r] = IF r = h THEN e ELSE rs[r]
  BY <1>1
<1>6. \A r \in DOMAIN rs : /\ rs2[r].name = rs[r].name /\ rs2[r].args = rs[r].args
                           /\ rs2[r].line = rs[r].line /\ rs2[r].in = rs[r].in
                           /\ rs2[r].target = IF r = h THEN t ELSE rs[r].target
  BY <1>3, <1>5
<1>7. KeepsReferences(rs, rs2)
  BY <1>2, <1>4, <1>6 DEF KeepsReferences
<1>. QED  BY <1>4, <1>5, <1>6, <1>7 DEF Retargets

\* The heap is one still.
LEMMA HeapRetargeted ==
  ASSUME NEW rs, NEW cs, NEW ex, NEW ap, NEW ln \in Nat, Heap(rs, cs, ex, ap, ln),
         NEW h \in DOMAIN rs, NEW t, t.is # "alias",
         t.is = "completed" => t.class \in DOMAIN cs,
         t.is = "generic" => t.name = rs[h].name,
         NEW rs2, Retargets(rs, rs2, h, t)
  PROVE  Heap(rs2, cs, ex, ap, ln) /\ Grows(rs, cs, ex, rs2, cs, ex)
<1>1. References(rs, ln, Len(cs)) /\ cs \in Seq(ClassType)
  BY DEF Heap
<1>2. Len(cs) \in Nat /\ DOMAIN cs = 1 .. Len(cs)
  BY <1>1
<1>3. /\ rs \in Seq(RefType) /\ Len(rs) \in Nat /\ DOMAIN rs = 1 .. Len(rs)
      /\ \A r \in DOMAIN rs : RefFits(rs, r, ln, Len(cs))
  BY <1>1, ReferencesType
<1>4. /\ rs2 \in Seq(RefType) /\ DOMAIN rs2 = DOMAIN rs /\ KeepsReferences(rs, rs2)
      /\ \A r \in DOMAIN rs : rs2[r].target = IF r = h THEN t ELSE rs[r].target
      /\ \A r \in DOMAIN rs : /\ rs2[r].name = rs[r].name /\ rs2[r].args = rs[r].args
                              /\ rs2[r].line = rs[r].line /\ rs2[r].in = rs[r].in
  BY DEF Retargets, KeepsReferences
<1>5. ASSUME NEW r \in DOMAIN rs
      PROVE  RefFits(rs2, r, ln, Len(cs))
  <2>1. RefFits(rs, r, ln, Len(cs)) /\ r \in Nat /\ r <= Len(rs)
    BY <1>3
  <2>2. \A q \in 1 .. r - 1 : q \in DOMAIN rs
    BY <1>3, <2>1
  <2>3. rs2[r].line \in 1 .. ln /\ rs2[r].in \in 0 .. Len(cs)
    BY <1>4, <2>1 DEF RefFits
  <2>4. \A k \in DOMAIN rs2[r].args : /\ rs2[r].args[k] \in 1 .. r - 1
                                      /\ rs2[rs2[r].args[k]].line = rs2[r].line
                                      /\ rs2[rs2[r].args[k]].in = rs2[r].in
    <3>1. \A k \in DOMAIN rs[r].args : /\ rs[r].args[k] \in 1 .. r - 1
                                       /\ rs[rs[r].args[k]].line = rs[r].line
                                       /\ rs[rs[r].args[k]].in = rs[r].in
      BY <2>1 DEF RefFits
    <3>2. \A q \in DOMAIN rs : rs2[q].args = rs[q].args /\ rs2[q].line = rs[q].line /\ rs2[q].in = rs[q].in
      BY <1>4
    <3>. QED  BY <2>2, <3>1, <3>2
  <2>5. rs2[r].target.is = "alias" => /\ rs2[r].target.ref \in 1 .. r - 1
                                      /\ rs2[rs2[r].target.ref].line = rs2[r].line
                                      /\ rs2[rs2[r].target.ref].in = 0 /\ rs2[r].in # 0
    <3>1. CASE r = h
      BY <1>4, <3>1
    <3>2. CASE r # h
      <4>1. rs2[r].target = rs[r].target
        BY <1>4, <3>2
      <4>. QED  BY <1>4, <2>1, <2>2, <4>1 DEF RefFits
    <3>. QED  BY <3>1, <3>2
  <2>6. /\ rs2[r].target.is = "completed" => rs2[r].target.class \in 1 .. Len(cs)
        /\ rs2[r].target.is = "generic" => rs2[r].target.name = rs2[r].name
    <3>1. CASE r = h
      BY <1>2, <1>4, <3>1
    <3>2. CASE r # h
      <4>1. rs2[r].target = rs[r].target
        BY <1>4, <3>2
      <4>. QED  BY <1>4, <2>1, <4>1 DEF RefFits
    <3>. QED  BY <3>1, <3>2
  <2>. QED  BY <2>3, <2>4, <2>5, <2>6 DEF RefFits
<1>6. InOrder(rs2)
  <2>1. InOrder(rs)
    BY <1>1 DEF References
  <2>. QED  BY <1>4, <2>1 DEF InOrder
<1>7. References(rs2, ln, Len(cs))
  BY <1>4, <1>5, <1>6 DEF References
<1>8. \A c \in DOMAIN cs : ClassFits(cs, c, rs2, ln)
  <2>1. \A c \in DOMAIN cs : ClassFits(cs, c, rs, ln)
    BY DEF Heap
  <2>2. ln <= ln
    OBVIOUS
  <2>. QED  BY <1>3, <1>4, <2>1, <2>2, ClassFitsKept
<1>9. KeepsClasses(cs, cs) /\ KeepsLists(ex, ex)
  BY DEF KeepsClasses, KeepsLists
<1>. QED  BY <1>4, <1>7, <1>8, <1>9 DEF Heap, Grows

\* Nothing but fields and layouts of classes changes.
LEMMA HeapReclassed ==
  ASSUME NEW rs, NEW cs, NEW ex, NEW ap, NEW ln \in Nat, Heap(rs, cs, ex, ap, ln),
         NEW cs2 \in Seq(ClassType), Len(cs2) = Len(cs), KeepsClasses(cs, cs2)
  PROVE  Heap(rs, cs2, ex, ap, ln) /\ Grows(rs, cs, ex, rs, cs2, ex)
<1>1. References(rs, ln, Len(cs2)) /\ cs \in Seq(ClassType) /\ rs \in Seq(RefType)
  BY DEF Heap, References
<1>2. DOMAIN cs2 = DOMAIN cs
  BY <1>1
<1>3. \A c \in DOMAIN cs : /\ cs2[c].of = cs[c].of /\ cs2[c].args = cs[c].args
                           /\ cs2[c].body = cs[c].body /\ cs2[c].line = cs[c].line
  BY DEF KeepsClasses
<1>4. Len(rs) \in Nat /\ Len(rs) <= Len(rs)
  BY <1>1
<1>5. KeepsReferences(rs, rs) /\ KeepsLists(ex, ex)
  BY <1>4 DEF KeepsReferences, KeepsLists
<1>6. \A c \in DOMAIN cs2 : ClassFits(cs2, c, rs, ln)
  <2>1. \A c \in DOMAIN cs : ClassFits(cs, c, rs, ln)
    BY DEF Heap
  <2>. QED  BY <1>2, <1>3, <2>1 DEF ClassFits
<1>7. Lists(ex, cs2)
  BY <1>2, <1>3 DEF Heap, Lists
<1>8. Appended(ap, cs2, ln)
  BY <1>2, <1>3 DEF Heap, Appended
<1>. QED  BY <1>1, <1>5, <1>6, <1>7, <1>8 DEF Heap, Grows

-----------------------------------------------------------------------------
(***************************************************************************)
(* The lines that are finished.                                            *)
(***************************************************************************)

\* The references of the lines up to the m-th stay what they are.
Settled(rs, rs2, m) ==
  /\ \A r \in DOMAIN rs : rs[r].line <= m => rs2[r].target = rs[r].target
  /\ \A r \in DOMAIN rs2 : r \in DOMAIN rs \/ rs2[r].line > m

\* So the types of those references, and of all before them, stay what they are.
LEMMA SettledTypes ==
  ASSUME NEW rs, NEW ln, NEW n, References(rs, ln, n),
         NEW rs2, NEW ln2, NEW n2, References(rs2, ln2, n2),
         KeepsReferences(rs, rs2), NEW m \in Nat, Settled(rs, rs2, m)
  PROVE  \A r \in DOMAIN rs : rs[r].line <= m => \A q \in 1 .. r : TypesOf(rs2)[q] = TypesOf(rs)[q]
<1>1. /\ Len(rs) \in Nat /\ DOMAIN rs = 1 .. Len(rs) /\ Len(rs) <= Len(rs2)
      /\ \A r \in DOMAIN rs : RefFits(rs, r, ln, n)
  BY ReferencesType DEF KeepsReferences
<1>. SUFFICES ASSUME NEW r \in DOMAIN rs, rs[r].line <= m
              PROVE  \A q \in 1 .. r : TypesOf(rs2)[q] = TypesOf(rs)[q]
  OBVIOUS
<1>2. r \in 0 .. Len(rs) /\ \A q \in 1 .. r : q \in DOMAIN rs /\ (q < r \/ q = r)
  BY <1>1
<1>3. \A q \in DOMAIN rs : rs[q].line \in Nat
  BY <1>1 DEF RefFits
<1>4. ASSUME NEW q \in 1 .. r
      PROVE  rs2[q].target = rs[q].target
  <2>1. rs[q].line <= rs[r].line
    BY <1>2, <1>3 DEF References, InOrder
  <2>2. rs[q].line <= m
    BY <1>2, <1>3, <2>1
  <2>. QED  BY <1>2, <2>2 DEF Settled
<1>. QED  BY <1>1, <1>2, <1>4, PrefixAgrees

\* So do their types, and the classes that they use.
LEMMA LinesKept ==
  ASSUME NEW rs, NEW cs, NEW ex, NEW ap, NEW ln, Heap(rs, cs, ex, ap, ln),
         NEW rs2, NEW cs2, NEW ex2, NEW ap2, NEW ln2, Heap(rs2, cs2, ex2, ap2, ln2),
         Grows(rs, cs, ex, rs2, cs2, ex2), NEW m \in Nat, Settled(rs, rs2, m),
         NEW vs, DOMAIN vs \subseteq 1 .. m
  PROVE  /\ AllDone(vs, rs, cs, ex) => AllDone(vs, rs2, cs2, ex2)
         /\ \A i \in DOMAIN vs : UsedBy(TypesOf(rs2), rs2, i) = UsedBy(TypesOf(rs), rs, i)
<1>. DEFINE ty == TypesOf(rs)
            ty2 == TypesOf(rs2)
<1>1. References(rs, ln, Len(cs)) /\ References(rs2, ln2, Len(cs2)) /\ KeepsReferences(rs, rs2)
  BY DEF Heap, Grows
<1>2. \A r \in DOMAIN rs : rs[r].line <= m => \A q \in 1 .. r : ty2[q] = ty[q]
  BY <1>1, SettledTypes
<1>3. /\ Len(rs) \in Nat /\ DOMAIN rs = 1 .. Len(rs) /\ \A r \in DOMAIN rs : rs2[r].line = rs[r].line /\ rs2[r].in = rs[r].in
      /\ \A r \in DOMAIN rs : r \in 1 .. r
      /\ DOMAIN rs2 = 1 .. Len(rs2) /\ Len(rs2) \in Nat /\ Len(rs) <= Len(rs2)
  BY <1>1, ReferencesType DEF KeepsReferences
<1>4. \A i \in DOMAIN vs : i <= m /\ ~(i > m)
  BY DEF Settled
<1>5. \A r \in DOMAIN rs2 : rs2[r].line \in DOMAIN vs => r \in DOMAIN rs
  BY <1>4 DEF Settled
<1>6. DOMAIN rs \subseteq DOMAIN rs2
  <2>1. \A a, b \in Nat : a <= b => 1 .. a \subseteq 1 .. b
    OBVIOUS
  <2>. QED  BY <1>3, <2>1
<1>. HIDE DEF ty, ty2
<1>7. ASSUME AllDone(vs, rs, cs, ex)
      PROVE  AllDone(vs, rs2, cs2, ex2)
  <2>. SUFFICES ASSUME NEW r \in DOMAIN rs2, rs2[r].line \in DOMAIN vs, vs[rs2[r].line] = "accepted"
                PROVE  Done(ty2, rs2, cs2, ex2, r)
    BY DEF AllDone, ty2
  <2>1. r \in DOMAIN rs /\ rs2[r].line = rs[r].line /\ rs[r].line <= m
    BY <1>3, <1>4, <1>5
  <2>2. Done(ty, rs, cs, ex, r)
    BY <1>7, <2>1 DEF AllDone, ty
  <2>3. \A q \in 1 .. r : ty2[q] = ty[q]
    BY <1>2, <2>1
  <2>. QED  BY <2>1, <2>2, <2>3, DoneKept
<1>8. ASSUME NEW i \in DOMAIN vs
      PROVE  UsedBy(ty2, rs2, i) = UsedBy(ty, rs, i)
  <2>. DEFINE Q == {q \in DOMAIN rs : rs[q].line = i /\ rs[q].in = 0 /\ ty[q].is = "completed"}
              Q2 == {q \in DOMAIN rs2 : rs2[q].line = i /\ rs2[q].in = 0 /\ ty2[q].is = "completed"}
  <2>1. \A q \in DOMAIN rs : rs[q].line = i => ty2[q] = ty[q]
    BY <1>2, <1>3, <1>4
  <2>2. Q = Q2
    BY <1>3, <1>5, <1>6, <2>1
  <2>3. \A q \in Q : ty2[q] = ty[q]
    BY <2>1
  <2>. HIDE DEF Q, Q2
  <2>4. {ty[q].class : q \in Q} = {ty2[q].class : q \in Q2}
    BY <2>2, <2>3
  <2>. QED  BY <2>4 DEF UsedBy, Q, Q2
<1>. QED  BY <1>7, <1>8 DEF ty, ty2

\* The classes that a line uses are there.
LEMMA UsedAreClasses ==
  ASSUME NEW rs, NEW ln, NEW n, References(rs, ln, n), NEW i
  PROVE  UsedBy(TypesOf(rs), rs, i) \subseteq 1 .. n
<1>1. \A r \in DOMAIN rs : TypesOf(rs)[r].is = "completed" => TypesOf(rs)[r].class \in 1 .. n
  BY TypesFit
<1>. QED  BY <1>1 DEF UsedBy

\* A step that changes no class there was, and accepts no line.
Carries(vs, ps, cs, ln, vs2, ps2, cs2, ln2) ==
  /\ \A c \in DOMAIN cs : c \in DOMAIN cs2 /\ cs2[c] = cs[c]
  /\ \A c \in DOMAIN cs2 : \/ c \in DOMAIN cs
                           \/ cs2[c].line = ln2 /\ ~cs2[c].prepared /\ cs2[c].layout = Unmapped
                              /\ ln2 \notin DOMAIN vs2
  /\ \A i \in DOMAIN vs2 : /\ vs2[i] = "accepted" => i \in DOMAIN vs /\ vs[i] = "accepted"
                           /\ \A j \in 1 .. i : j \in DOMAIN vs2
  /\ ps2 \in {"members", "casts", "emit"} => /\ ps \in {"members", "casts", "emit"} /\ ln2 = ln
                                             /\ DOMAIN cs2 = DOMAIN cs
  /\ ps2 # "prompt" => (ln2 = ln /\ ps # "prompt") \/ \A c \in DOMAIN cs : cs[c].line # ln2

\* Such a step keeps what is known of fields and layouts.
LEMMA PopulatedKept ==
  ASSUME NEW rs, NEW ln, NEW cs, References(rs, ln, Len(cs)), cs \in Seq(ClassType),
         NEW vs, NEW ps, Populated(vs, ps, rs, cs, ln),
         NEW vs2, NEW ps2, NEW rs2, NEW cs2, NEW ln2, Carries(vs, ps, cs, ln, vs2, ps2, cs2, ln2),
         \A i \in DOMAIN vs : UsedBy(TypesOf(rs2), rs2, i) = UsedBy(TypesOf(rs), rs, i)
  PROVE  Populated(vs2, ps2, rs2, cs2, ln2)
<1>. DEFINE Ready == {"members", "casts", "emit"}
<1>1. /\ \A c \in DOMAIN cs : c \in DOMAIN cs2 /\ cs2[c] = cs[c]
      /\ \A c \in DOMAIN cs2 : \/ c \in DOMAIN cs
                               \/ cs2[c].line = ln2 /\ ~cs2[c].prepared /\ cs2[c].layout = Unmapped
                                  /\ ln2 \notin DOMAIN vs2
      /\ \A i \in DOMAIN vs2 : /\ vs2[i] = "accepted" => i \in DOMAIN vs /\ vs[i] = "accepted"
                               /\ \A j \in 1 .. i : j \in DOMAIN vs2
      /\ ps2 \in Ready => ps \in Ready /\ ln2 = ln /\ DOMAIN cs2 = DOMAIN cs
      /\ ps2 # "prompt" => (ln2 = ln /\ ps # "prompt") \/ \A c \in DOMAIN cs : cs[c].line # ln2
  BY DEF Carries
<1>2. \A c \in DOMAIN cs :
        /\ cs[c].line \in DOMAIN vs /\ vs[cs[c].line] = "accepted" => cs[c].prepared
        /\ cs[c].line = ln /\ ps \in Ready => cs[c].prepared
        /\ cs[c].line = ln /\ ps # "prompt" => cs[c].layout = Unmapped
        /\ cs[c].prepared => cs[c].layout \in {Unmapped, Len(cs[c].body)}
  BY DEF Populated
<1>3. \A i \in DOMAIN vs : vs[i] = "accepted" =>
        \A c \in UsedBy(TypesOf(rs), rs, i) :
          cs[c].line \in 1 .. i /\ (vs[cs[c].line] = "accepted" => HasFields(cs, c))
  BY DEF Populated
<1>. HIDE DEF Ready
<1>4. ASSUME NEW c \in DOMAIN cs2
      PROVE  /\ cs2[c].line \in DOMAIN vs2 /\ vs2[cs2[c].line] = "accepted" => cs2[c].prepared
             /\ cs2[c].line = ln2 /\ ps2 \in Ready => cs2[c].prepared
             /\ cs2[c].line = ln2 /\ ps2 # "prompt" => cs2[c].layout = Unmapped
             /\ cs2[c].prepared => cs2[c].layout \in {Unmapped, Len(cs2[c].body)}
  <2>1. CASE c \in DOMAIN cs
    BY <1>1, <1>2, <2>1
  <2>2. CASE c \notin DOMAIN cs
    BY <1>1, <2>2
  <2>. QED  BY <2>1, <2>2
<1>5. ASSUME NEW i \in DOMAIN vs2, vs2[i] = "accepted", NEW c \in UsedBy(TypesOf(rs2), rs2, i)
      PROVE  cs2[c].line \in 1 .. i /\ (vs2[cs2[c].line] = "accepted" => HasFields(cs2, c))
  <2>1. i \in DOMAIN vs /\ vs[i] = "accepted" /\ c \in UsedBy(TypesOf(rs), rs, i)
    BY <1>1, <1>5
  <2>2. c \in DOMAIN cs
    <3>1. UsedBy(TypesOf(rs), rs, i) \subseteq 1 .. Len(cs)
      BY UsedAreClasses
    <3>. QED  BY <2>1, <3>1
  <2>3. cs2[c] = cs[c] /\ cs[c].line \in 1 .. i /\ (vs[cs[c].line] = "accepted" => HasFields(cs, c))
    BY <1>1, <1>3, <2>1, <2>2
  <2>4. vs2[cs[c].line] = "accepted" => vs[cs[c].line] = "accepted"
    BY <1>1, <2>3
  <2>. QED  BY <2>3, <2>4 DEF HasFields
<1>. QED  BY <1>4, <1>5 DEF Populated, Ready

-----------------------------------------------------------------------------
(***************************************************************************)
(* Steps.                                                                  *)
(***************************************************************************)

\* What the invariant says of the numbers of lines and of the heap.
LEMMA InvFacts ==
  ASSUME GenInv
  PROVE  /\ References(refs, line, Len(classes)) /\ refs \in Seq(RefType) /\ classes \in Seq(ClassType)
         /\ DOMAIN refs = 1 .. Len(refs) /\ Len(refs) \in Nat
         /\ DOMAIN classes = 1 .. Len(classes) /\ Len(classes) \in Nat
         /\ line \in Nat /\ DOMAIN verdicts = 1 .. Len(verdicts) /\ Len(verdicts) \in Nat
         /\ DOMAIN verdicts = IF pass = "prompt" THEN 1 .. line ELSE 1 .. line - 1
         /\ pass # "prompt" => line >= 1 /\ line \in DOMAIN Lines /\ source \in Lines[line] /\ line - 1 \in Nat
<1>1. Session /\ Heap(refs, classes, expanded, appended, line)
  BY DEF GenInv
<1>2. References(refs, line, Len(classes)) /\ refs \in Seq(RefType) /\ classes \in Seq(ClassType)
  BY <1>1 DEF Heap, References
<1>3. /\ line \in Nat /\ Len(verdicts) \in Nat /\ DOMAIN verdicts = 1 .. Len(verdicts)
      /\ pass # "prompt" => line >= 1 /\ Len(verdicts) = line - 1 /\ source \in Lines[line]
      /\ pass # "prompt" => line \in DOMAIN Lines
  BY <1>1, SessionFacts
<1>4. Len(verdicts) = IF pass = "prompt" THEN line ELSE line - 1
  BY <1>1 DEF Session
<1>5. DOMAIN verdicts = IF pass = "prompt" THEN 1 .. line ELSE 1 .. line - 1
  BY <1>3, <1>4
<1>. QED  BY <1>2, <1>3, <1>5

\* A step inside of a line, or one that rejects it, that leaves the heap alone.
LEMMA QuietStep ==
  ASSUME GenInv, UNCHANGED <<heap, line>>, pass # "prompt",
         Session', Walks(todo', pass', refs, line),
         pass' # "prompt" /\ errorCount' = 0 => Progress(pass', todo', refs, classes, expanded, line),
         \/ verdicts' = verdicts /\ pass' # "prompt"
         \/ verdicts' = Append(verdicts, "rejected") /\ pass' = "prompt",
         pass' \in {"members", "casts", "emit"} => pass \in {"members", "casts", "emit"}
  PROVE  GenInv'
<1>1. refs' = refs /\ classes' = classes /\ expanded' = expanded /\ appended' = appended /\ line' = line
  BY DEF heap
<1>2. /\ Session /\ Heap(refs, classes, expanded, appended, line)
      /\ AllDone(verdicts, refs, classes, expanded)
      /\ Populated(verdicts, pass, refs, classes, line)
  BY DEF GenInv
<1>3. /\ line \in Nat /\ line >= 1 /\ DOMAIN verdicts = 1 .. line - 1
      /\ References(refs, line, Len(classes)) /\ classes \in Seq(ClassType)
  BY InvFacts
<1>4. /\ \A i \in DOMAIN verdicts' : /\ verdicts'[i] = "accepted" => i \in DOMAIN verdicts /\ verdicts[i] = "accepted"
                                     /\ \A j \in 1 .. i : j \in DOMAIN verdicts'
  <2>1. CASE verdicts' = verdicts
    BY <1>3, <2>1
  <2>2. CASE verdicts' = Append(verdicts, "rejected")
    <3>1. PICK vs : vs = Append(verdicts, "rejected")
      OBVIOUS
    <3>2. "rejected" \in {"accepted", "rejected"}
      OBVIOUS
    <3>3. /\ DOMAIN vs = 1 .. line /\ vs[line] = "rejected"
          /\ \A i \in 1 .. line - 1 : vs[i] = verdicts[i]
      BY <1>2, <3>1, <3>2, VerdictAdded
    <3>4. \A i \in 1 .. line : i \in 1 .. line - 1 \/ i = line
      BY <1>3
    <3>5. \A i \in DOMAIN vs : /\ vs[i] = "accepted" => i \in DOMAIN verdicts /\ verdicts[i] = "accepted"
                               /\ \A j \in 1 .. i : j \in DOMAIN vs
      BY <1>3, <3>3, <3>4
    <3>. QED  BY <2>2, <3>1, <3>5
  <2>. QED  BY <2>1, <2>2
<1>5. Carries(verdicts, pass, classes, line, verdicts', pass', classes', line')
  BY <1>1, <1>4 DEF Carries
<1>6. Populated(verdicts', pass', refs', classes', line')
  BY <1>1, <1>2, <1>3, <1>5, PopulatedKept
<1>7. AllDone(verdicts', refs', classes', expanded')
  BY <1>1, <1>2, <1>4 DEF AllDone
<1>. QED  BY <1>1, <1>2, <1>6, <1>7, NextInv

\* The session moves on within a line.
LEMMA SessionOn ==
  ASSUME Session, UNCHANGED <<line, source, verdicts>>, pass # "prompt",
         pass' \in {"resolve", "expand", "convert"} \union Late,
         errorCount' \in Nat, firstError' \in ErrorKind, errorCount' = 0 <=> firstError' = "NoError",
         pass' \in Late => errorCount' = 0, pass' = "resolve" => appended' = <<>>
  PROVE  Session'
<1>1. pass' # "prompt"
  BY DEF Late
<1>2. Len(verdicts) = line - 1
  BY SessionFacts
<1>. QED  BY <1>1, <1>2 DEF Session, Late

\* The line is rejected, with an error.
LEMMA SessionEnds ==
  ASSUME Session, pass # "prompt", NEW v \in {"accepted", "rejected"}, LineEnds(v),
         errorCount' \in Nat, firstError' \in ErrorKind, errorCount' = 0 <=> firstError' = "NoError"
  PROVE  Session'
<1>1. UNCHANGED <<line, source>> /\ verdicts' = Append(verdicts, v) /\ pass' = "prompt"
  BY DEF LineEnds
<1>2. PICK vs : vs = Append(verdicts, v)
  OBVIOUS
<1>3. vs \in Seq({"accepted", "rejected"}) /\ Len(vs) = line
  BY <1>2, VerdictAdded
<1>. QED  BY <1>1, <1>2, <1>3 DEF Session, Late

\* What reporting an error does to the count and to the first error.
LEMMA Reports ==
  ASSUME Session, NEW kind \in ErrorKind \ {"NoError"}, Report(kind)
  PROVE  /\ errorCount' \in Nat /\ firstError' \in ErrorKind /\ (errorCount' = 0 <=> firstError' = "NoError")
         /\ errorCount' # 0
<1>1. errorCount \in Nat /\ firstError \in ErrorKind /\ (errorCount = 0 <=> firstError = "NoError")
  BY DEF Session
<1>2. errorCount' = errorCount + 1 /\ firstError' = IF errorCount = 0 THEN kind ELSE firstError
  BY DEF Report
<1>. QED  BY <1>1, <1>2

\* A walk that is over.
LEMMA EmptyWalk ==
  ASSUME NEW ps, NEW rs, NEW ln
  PROVE  /\ Walks(<<>>, ps, rs, ln)
         /\ \A r : ~IsAhead(<<>>, r) /\ IsPassed(<<>>, r)
<1>1. <<>> \in Seq(Number) /\ DOMAIN <<>> = {}
  OBVIOUS
<1>. QED  BY <1>1 DEF Walks, Ascends, IsAhead, IsPassed

\* The first state.
LEMMA InitHolds ==
  ASSUME Init
  PROVE  GenInv
<1>1. /\ line = 0 /\ source = Blank /\ verdicts = <<>> /\ pass = "prompt" /\ todo = <<>>
      /\ refs = <<>> /\ classes = <<>> /\ expanded = [g \in Generic |-> <<>>] /\ appended = <<>>
      /\ errorCount = 0 /\ firstError = "NoError"
  BY DEF Init
<1>2. DOMAIN <<>> = {} /\ Len(<<>>) = 0 /\ \A S : <<>> \in Seq(S)
  OBVIOUS
<1>3. Session
  BY <1>1, <1>2, LinesAssumption DEF Session, Late, ErrorKind
<1>4. References(refs, line, Len(classes))
  BY <1>1, <1>2 DEF References, InOrder
<1>5. Lists(expanded, classes)
  <2>1. expanded \in [Generic -> Seq(Number)] /\ \A g \in Generic : DOMAIN expanded[g] = {}
    BY <1>1, <1>2
  <2>. QED  BY <2>1 DEF Lists
<1>6. Heap(refs, classes, expanded, appended, line)
  BY <1>1, <1>2, <1>4, <1>5 DEF Heap, Appended
<1>7. AllDone(verdicts, refs, classes, expanded) /\ Populated(verdicts, pass, refs, classes, line)
  BY <1>1, <1>2 DEF AllDone, Populated
<1>. QED  BY <1>1, <1>3, <1>6, <1>7, EmptyWalk DEF GenInv

\* A visitor reports an error and goes on.
LEMMA ErrorStep ==
  ASSUME GenInv, pass \in {"resolve", "expand", "convert"}, todo # <<>>, todo' = Tail(todo),
         NEW kind \in ErrorKind \ {"NoError"}, Report(kind),
         UNCHANGED <<line, source, verdicts, pass, heap>>
  PROVE  GenInv'
<1>1. Session /\ Walks(todo, pass, refs, line)
  BY DEF GenInv
<1>2. /\ errorCount' \in Nat /\ firstError' \in ErrorKind /\ (errorCount' = 0 <=> firstError' = "NoError")
      /\ errorCount' # 0
  BY <1>1, Reports
<1>3. Walks(todo', pass', refs, line)
  BY <1>1, WalkOn
<1>4. pass # "prompt" /\ pass \notin Late /\ appended' = appended /\ (pass = "resolve" => appended = <<>>)
  BY <1>1 DEF Late, heap, Session
<1>5. Session'
  BY <1>1, <1>2, <1>4, SessionOn
<1>6. /\ UNCHANGED <<heap, line>> /\ verdicts' = verdicts /\ pass' = pass
  OBVIOUS
<1>. QED  BY <1>2, <1>3, <1>4, <1>5, <1>6, QuietStep

\* The errors of the passes are errors.
LEMMA Kinds ==
  /\ \A n : LookUpError(n) \in ErrorKind \ {"NoError"}
  /\ "TypeIsNotGenericButIsReferencedWithGenericArgs" \in ErrorKind \ {"NoError"}
  /\ "IncorrectNumberOfGenericArguments" \in ErrorKind \ {"NoError"}
  /\ "GenericTypeWasNotExpandedWithSpecifiedArguments" \in ErrorKind \ {"NoError"}
  /\ "Other" \in ErrorKind \ {"NoError"}
BY DEF LookUpError, ErrorKind

\* The expansion has nothing to do for a reference, or has found its class.
LEMMA ExpandPassed ==
  ASSUME GenInv, pass = "expand", todo # <<>>, todo' = Tail(todo),
         UNCHANGED <<line, source, verdicts, pass, heap, errors>>,
         errorCount = 0 /\ refs[Head(todo)].args # <<>> =>
           Awaits(TypesOf(refs), refs, classes, expanded, Head(todo))
  PROVE  GenInv'
<1>1. /\ Session /\ Walks(todo, pass, refs, line)
      /\ errorCount = 0 => Progress(pass, todo, refs, classes, expanded, line)
  BY DEF GenInv
<1>2. PICK h : h = Head(todo)
  OBVIOUS
<1>3. /\ Walks(todo', pass, refs, line)
      /\ \A r : IsAhead(todo, r) <=> r = h \/ IsAhead(todo', r)
      /\ \A r : IsPassed(todo, r) => IsPassed(todo', r)
  BY <1>1, <1>2, WalkOn
<1>4. errorCount' = errorCount /\ firstError' = firstError
  BY DEF errors
<1>5. Session'
  BY <1>1, <1>4, SessionOn DEF Session, Late
<1>6. ASSUME errorCount = 0
      PROVE  Progress("expand", todo', refs, classes, expanded, line)
  <2>1. Progress("expand", todo, refs, classes, expanded, line)
    BY <1>1, <1>6
  <2>2. Resolving("expand", todo', refs, line)
    BY <2>1 DEF Progress, Resolving
  <2>3. \A c \in DOMAIN classes : \A k \in DOMAIN classes[c].args : IsPassed(todo', classes[c].args[k])
    BY <1>3, <2>1 DEF Progress
  <2>4. ASSUME NEW r \in DOMAIN refs, refs[r].line = line, refs[r].in = 0, refs[r].args # <<>>,
               IsExpanded("expand", todo', r)
        PROVE  Awaits(TypesOf(refs), refs, classes, expanded, r)
    <3>1. CASE r = h
      BY <1>2, <1>6, <2>4, <3>1
    <3>2. CASE r # h
      <4>1. IsExpanded("expand", todo, r)
        BY <1>3, <2>4, <3>2 DEF IsExpanded
      <4>. QED  BY <2>1, <2>4, <4>1 DEF Progress
    <3>. QED  BY <3>1, <3>2
  <2>. QED  BY <2>2, <2>3, <2>4 DEF Progress
<1>. QED  BY <1>3, <1>4, <1>5, <1>6, QuietStep DEF heap

\* A class with the same arguments was made for an earlier reference.
LEMMA AlreadyExpandedStep ==
  ASSUME GenInv, AlreadyExpanded
  PROVE  GenInv'
<1>1. PICK g \in Generic : /\ ToExpand(g) /\ RightNumber(g) /\ Matches(g, Ref.args) # {}
                           /\ NothingMade /\ UNCHANGED <<line, source, verdicts, pass, errors>>
  BY DEF AlreadyExpanded
<1>2. PICK h : h = Head(todo)
  OBVIOUS
<1>3. /\ pass = "expand" /\ todo # <<>> /\ todo' = Tail(todo) /\ Actual(h) = GenericType(g)
      /\ refs[h].args # <<>> /\ Len(refs[h].args) = Len(Definition[g].params) /\ Matches(g, refs[h].args) # {}
      /\ UNCHANGED <<line, source, verdicts, pass, heap, errors>>
  BY <1>1, <1>2 DEF ToExpand, Expanding, Visiting, RightNumber, NothingMade, Here, Ref
<1>4. ASSUME errorCount = 0
      PROVE  Awaits(TypesOf(refs), refs, classes, expanded, h)
  <2>. DEFINE ty == TypesOf(refs)
  <2>1. /\ Heap(refs, classes, expanded, appended, line) /\ Walks(todo, pass, refs, line)
        /\ Progress(pass, todo, refs, classes, expanded, line)
    BY <1>3, <1>4 DEF GenInv
  <2>2. h \in DOMAIN refs /\ refs[h].in = 0 /\ DOMAIN todo = 1 .. Len(todo) /\ h = todo[1] /\ 1 \in DOMAIN todo
    <3>1. h \in DOMAIN refs /\ refs[h].in = 0
      BY <1>2, <1>3, <2>1, WalkOn
    <3>2. todo \in Seq(Number)
      BY <2>1 DEF Walks
    <3>. QED  BY <1>2, <1>3, <3>1, <3>2, EmptySeq
  <2>3. References(refs, line, Len(classes))
    BY InvFacts
  <2>4. PICK b : Root(refs, h, b)
    BY <2>2, <2>3, RootExists
  <2>5. b = h /\ ty[h] = refs[h].target
    BY <2>2, <2>4 DEF Root
  <2>6. refs[h].target = GenericType(g)
    BY <1>3, <2>5, ActualIs
  <2>7. refs[h].name = g
    <3>1. RefFits(refs, h, line, Len(classes))
      BY <2>2, <2>3, ReferencesType
    <3>. QED  BY <2>6, <3>1 DEF RefFits, GenericType
  <2>8. PICK i \in DOMAIN expanded[g] : ArgsMatch(expanded[g][i], refs[h].args)
    BY <1>3 DEF Matches
  <2>9. Match(ty, classes, expanded[g][i], refs[h].args)
    BY <2>8, ActualIs DEF ArgsMatch, SameType, Match, Same
  <2>10. Before(classes, expanded[g], i, h)
    <3>1. \A j \in 1 .. i : expanded[g][j] \in DOMAIN classes
      <4>1. Len(expanded[g]) \in Nat /\ DOMAIN expanded[g] = 1 .. Len(expanded[g])
            /\ \A j \in DOMAIN expanded[g] : expanded[g][j] \in DOMAIN classes
        BY <2>1, ListType
      <4>. QED  BY <4>1
    <3>2. \A c \in DOMAIN classes : \A k \in DOMAIN classes[c].args : classes[c].args[k] < h
      BY <1>3, <2>1, <2>2 DEF Progress, IsPassed
    <3>. QED  BY <3>1, <3>2 DEF Before
  <2>. QED  BY <1>3, <2>6, <2>7, <2>9, <2>10 DEF Awaits
<1>. QED  BY <1>2, <1>3, <1>4, ExpandPassed

\* A reference that is not generic is what it is.
LEMMA SkipUnlessGenericStep ==
  ASSUME GenInv, SkipUnlessGeneric
  PROVE  GenInv'
<1>1. PICK h : h = Head(todo)
  OBVIOUS
<1>2. /\ pass = "convert" /\ todo # <<>> /\ todo' = Tail(todo) /\ Actual(h).is # "generic"
      /\ refs[h].args = <<>> /\ UNCHANGED <<line, source, verdicts, pass, heap, errors>>
  BY <1>1 DEF SkipUnlessGeneric, Converting, Visiting, Here, Ref
<1>3. /\ Session /\ Walks(todo, pass, refs, line)
      /\ errorCount = 0 => Progress(pass, todo, refs, classes, expanded, line)
  BY <1>2 DEF GenInv
<1>4. /\ Walks(todo', pass, refs, line) /\ h \in DOMAIN refs /\ refs[h].line = line
      /\ \A r : IsAhead(todo, r) <=> r = h \/ IsAhead(todo', r)
  BY <1>1, <1>2, <1>3, WalkOn
<1>5. errorCount' = errorCount /\ firstError' = firstError
  BY <1>2 DEF errors
<1>6. Session'
  BY <1>2, <1>3, <1>5, SessionOn DEF Session, Late
<1>7. ASSUME errorCount = 0
      PROVE  Progress("convert", todo', refs, classes, expanded, line)
  <2>. DEFINE ty == TypesOf(refs)
  <2>1. Progress("convert", todo, refs, classes, expanded, line)
    BY <1>2, <1>3, <1>7
  <2>2. Resolving("convert", todo', refs, line)
    BY <2>1 DEF Progress, Resolving
  <2>3. References(refs, line, Len(classes))
    BY InvFacts
  <2>4. PICK b : Root(refs, h, b)
    BY <1>4, <2>3, RootExists
  <2>5. ty[h] = refs[b].target /\ refs[b].line = line /\ b \in DOMAIN refs
    BY <1>4, <2>4 DEF Root
  <2>6. ty[h].is # "unresolved" /\ ty[h].is # "generic"
    BY <1>2, <2>1, <2>5, ActualIs DEF Progress, Resolving
  <2>7. ty[h] \in TargetType /\ ty[h].is # "alias"
    BY <1>4, <2>3, TypesFit
  <2>8. ty[h].is \in {"scalar", "class", "completed"}
    <3>. HIDE DEF ty
    <3>. QED  BY <2>6, <2>7 DEF TargetType
  <2>9. Done(ty, refs, classes, expanded, h)
    BY <1>2, <2>8 DEF Done
  <2>10. ASSUME NEW r \in DOMAIN refs, refs[r].line = line, refs[r].in = 0, refs[r].args # <<>>,
               IsExpanded("convert", todo', r)
        PROVE  Awaits(ty, refs, classes, expanded, r)
    <3>1. IsExpanded("convert", todo, r)
      BY <1>4, <2>10 DEF IsExpanded
    <3>. QED  BY <2>1, <2>10, <3>1 DEF Progress
  <2>11. ASSUME NEW r \in DOMAIN refs, refs[r].line = line, ~IsAhead(todo', r)
        PROVE  Done(ty, refs, classes, expanded, r)
    <3>1. CASE r = h
      BY <2>9, <3>1
    <3>2. CASE r # h
      BY <1>4, <2>1, <2>11, <3>2 DEF Progress
    <3>. QED  BY <3>1, <3>2
  <2>. QED  BY <2>2, <2>10, <2>11 DEF Progress
<1>. QED  BY <1>2, <1>4, <1>5, <1>6, <1>7, QuietStep DEF heap

\* The references of the line, collected, are a walk over them.
LEMMA CollectWalks ==
  ASSUME GenInv, NEW ps \in {"expand", "convert"},
         NEW S, S = IF ps = "expand" THEN Written ELSE OfLine, NEW td, td = Collect(S)
  PROVE  /\ Walks(td, ps, refs, line)
         /\ \A r : IsAhead(td, r) <=> r \in S
         /\ \A q : (\A r \in S : q < r) => IsPassed(td, q)
<1>1. refs \in Seq(RefType) /\ DOMAIN refs = 1 .. Len(refs)
  BY InvFacts
<1>2. \A r : r \in S <=> r \in DOMAIN refs /\ refs[r].line = line /\ (ps = "expand" => refs[r].in = 0)
  BY DEF Written, OfLine
<1>3. S \in SUBSET DOMAIN refs
  BY <1>2
<1>4. Gathered(td, S, Len(refs)) /\ S \subseteq 1 .. Len(refs)
  BY <1>1, <1>3, CollectIs
<1>5. /\ td \in Seq(Number) /\ Ascends(td) /\ \A i \in DOMAIN td : td[i] \in S
      /\ \A r \in S : IsAhead(td, r)
  BY <1>4 DEF Gathered
<1>6. \A r : IsAhead(td, r) <=> r \in S
  BY <1>5 DEF IsAhead
<1>7. \A q : (\A r \in S : q < r) => IsPassed(td, q)
  BY <1>5 DEF IsPassed
<1>8. Walks(td, ps, refs, line)
  BY <1>2, <1>5, <1>6 DEF Walks
<1>. QED  BY <1>6, <1>7, <1>8

\* One pass has walked to the end without an error, and the next one begins.
LEMMA EndWalkStep ==
  ASSUME GenInv, EndWalk
  PROVE  GenInv'
<1>1. /\ todo = <<>> /\ errorCount = 0 /\ UNCHANGED <<line, source, verdicts, heap, errors>>
      /\ \/ pass = "resolve" /\ pass' = "expand" /\ todo' = Collect(Written)
         \/ pass = "expand" /\ pass' = "convert" /\ todo' = Collect(OfLine)
         \/ pass = "convert" /\ pass' = "symbols" /\ todo' = <<>>
  BY DEF EndWalk, Walked
<1>2. /\ Session /\ Heap(refs, classes, expanded, appended, line)
      /\ Progress(pass, todo, refs, classes, expanded, line)
  BY <1>1 DEF GenInv
<1>3. errorCount' = 0 /\ firstError' = firstError /\ pass # "prompt"
  BY <1>1 DEF errors
<1>4. Session'
  <2>1. pass' \in {"resolve", "expand", "convert"} \union Late /\ pass' # "resolve"
    BY <1>1 DEF Late
  <2>. QED  BY <1>1, <1>2, <1>3, <2>1, SessionOn DEF Session
<1>5. \A r : ~IsAhead(todo, r) /\ IsPassed(todo, r)
  BY <1>1, EmptyWalk
<1>. DEFINE ty == TypesOf(refs)
<1>6. CASE pass = "resolve"
  <2>1. pass' = "expand" /\ todo' = Collect(Written)
    BY <1>1, <1>6
  <2>2. PICK S : S = Written
    OBVIOUS
  <2>3. PICK td : td = Collect(S)
    OBVIOUS
  <2>4. /\ Walks(td, "expand", refs, line)
        /\ \A r : IsAhead(td, r) <=> r \in S
        /\ \A q : (\A r \in S : q < r) => IsPassed(td, q)
    BY <2>2, <2>3, CollectWalks
  <2>5. todo' = td
    BY <2>1, <2>2, <2>3
  <2>6. Resolving("expand", td, refs, line)
    BY <1>2, <1>5, <1>6 DEF Progress, Resolving
  <2>7. ASSUME NEW c \in DOMAIN classes, NEW k \in DOMAIN classes[c].args
        PROVE  IsPassed(td, classes[c].args[k])
    <3>1. PICK a : a = classes[c].args[k]
      OBVIOUS
    <3>2. ClassFits(classes, c, refs, line)
      BY <1>2 DEF Heap
    <3>3. a \in DOMAIN refs /\ refs[a].line = classes[c].line /\ classes[c].line \in 1 .. line
      BY <3>1, <3>2 DEF ClassFits
    <3>4. classes[c].line # line
      <4>1. appended = <<>>
        BY <1>2, <1>6 DEF Session
      <4>2. DOMAIN appended = {}
        BY <4>1
      <4>. QED  BY <1>2, <4>2 DEF Heap, Appended
    <3>5. line \in Nat /\ refs[a].line < line /\ DOMAIN refs = 1 .. Len(refs) /\ Len(refs) \in Nat
      BY <3>3, <3>4, InvFacts
    <3>6. ASSUME NEW r \in S
          PROVE  a < r
      <4>1. r \in DOMAIN refs /\ refs[r].line = line
        BY <2>2 DEF Written, OfLine
      <4>2. InOrder(refs)
        BY <1>2 DEF Heap, References
      <4>3. r # a /\ (r < a => line <= refs[a].line)
        BY <3>3, <3>5, <4>1, <4>2 DEF InOrder
      <4>4. ~(line <= refs[a].line)
        BY <3>3, <3>5
      <4>. QED  BY <3>3, <3>5, <4>1, <4>3, <4>4
    <3>. QED  BY <2>4, <3>1, <3>6
  <2>8. ASSUME NEW r \in DOMAIN refs, refs[r].line = line, refs[r].in = 0
        PROVE  ~IsExpanded("expand", td, r)
    BY <2>2, <2>4, <2>8 DEF IsExpanded, Written, OfLine
  <2>9. Progress("expand", td, refs, classes, expanded, line)
    BY <2>6, <2>7, <2>8 DEF Progress
  <2>. QED  BY <1>1, <1>3, <1>4, <2>1, <2>4, <2>5, <2>9, QuietStep DEF heap
<1>7. CASE pass = "expand"
  <2>1. pass' = "convert" /\ todo' = Collect(OfLine)
    BY <1>1, <1>7
  <2>2. PICK S : S = OfLine
    OBVIOUS
  <2>3. PICK td : td = Collect(S)
    OBVIOUS
  <2>4. /\ Walks(td, "convert", refs, line)
        /\ \A r : IsAhead(td, r) <=> r \in S
    BY <2>2, <2>3, CollectWalks
  <2>5. todo' = td
    BY <2>1, <2>2, <2>3
  <2>6. Resolving("convert", td, refs, line)
    BY <1>2, <1>7 DEF Progress, Resolving
  <2>7. ASSUME NEW r \in DOMAIN refs, refs[r].line = line, refs[r].in = 0, refs[r].args # <<>>
        PROVE  Awaits(ty, refs, classes, expanded, r)
    <3>1. IsExpanded("expand", todo, r)
      BY <1>5 DEF IsExpanded
    <3>. QED  BY <1>2, <1>7, <2>7, <3>1 DEF Progress
  <2>8. \A r \in DOMAIN refs : refs[r].line = line => IsAhead(td, r)
    BY <2>2, <2>4 DEF OfLine
  <2>9. Progress("convert", td, refs, classes, expanded, line)
    BY <2>6, <2>7, <2>8 DEF Progress
  <2>. QED  BY <1>1, <1>3, <1>4, <2>1, <2>4, <2>5, <2>9, QuietStep DEF heap
<1>8. CASE pass = "convert"
  <2>1. pass' = "symbols" /\ todo' = <<>>
    BY <1>1, <1>8
  <2>2. Resolving("symbols", <<>>, refs, line)
    BY <1>2, <1>8 DEF Progress, Resolving
  <2>3. \A r \in DOMAIN refs : ~IsExpanded("symbols", <<>>, r)
    BY DEF IsExpanded
  <2>4. \A r \in DOMAIN refs : refs[r].line = line => Done(ty, refs, classes, expanded, r)
    BY <1>2, <1>5, <1>8 DEF Progress
  <2>5. Progress("symbols", <<>>, refs, classes, expanded, line)
    BY <2>2, <2>3, <2>4 DEF Progress
  <2>. QED  BY <1>1, <1>3, <1>4, <2>1, <2>5, EmptyWalk, QuietStep DEF heap
<1>. QED  BY <1>1, <1>6, <1>7, <1>8

\* Between the walks, nothing is to be visited; a pass that finds nothing is followed by the next.
LEMMA LateStep ==
  ASSUME GenInv, pass \in Late, pass' \in Late, UNCHANGED <<line, source, verdicts, todo, heap, errors>>,
         pass' \in {"members", "casts", "emit"} => pass \in {"members", "casts", "emit"}
  PROVE  GenInv'
<1>1. Session /\ Walks(todo, pass, refs, line) /\ errorCount = 0
  BY DEF GenInv, Session
<1>2. pass # "prompt" /\ pass \notin {"resolve", "expand", "convert"}
      /\ pass' # "prompt" /\ pass' \notin {"resolve", "expand", "convert"}
  BY DEF Late
<1>3. Progress(pass, todo, refs, classes, expanded, line)
  BY <1>1, <1>2 DEF GenInv
<1>4. todo = <<>> /\ todo' = <<>> /\ errorCount' = errorCount /\ firstError' = firstError
  BY <1>1, <1>2 DEF Walks, errors
<1>5. Session'
  BY <1>1, <1>2, <1>4, SessionOn DEF Session
<1>6. Progress(pass', todo', refs, classes, expanded, line)
  BY <1>2, <1>3, <1>4 DEF Progress, Resolving, IsExpanded
<1>. QED  BY <1>2, <1>4, <1>5, <1>6, EmptyWalk, QuietStep DEF heap

\* A line that is rejected leaves what it made where it was put.
LEMMA RejectingStep ==
  ASSUME GenInv, pass # "prompt", todo = <<>>, LineEnds("rejected"), UNCHANGED heap,
         errorCount' \in Nat, firstError' \in ErrorKind, errorCount' = 0 <=> firstError' = "NoError"
  PROVE  GenInv'
<1>1. Session
  BY DEF GenInv
<1>2. UNCHANGED <<line, source, todo>> /\ verdicts' = Append(verdicts, "rejected") /\ pass' = "prompt"
  BY DEF LineEnds
<1>3. Session'
  BY <1>1, SessionEnds
<1>4. Walks(todo', pass', refs, line)
  BY <1>2, EmptyWalk
<1>. QED  BY <1>2, <1>3, <1>4, QuietStep DEF heap

\* The walk that found an error is the last.
LEMMA RejectedStep ==
  ASSUME GenInv, Rejected
  PROVE  GenInv'
<1>1. /\ todo = <<>> /\ pass # "prompt" /\ LineEnds("rejected") /\ UNCHANGED <<heap, errors>>
  BY DEF Rejected, Walked
<1>2. errorCount \in Nat /\ firstError \in ErrorKind /\ (errorCount = 0 <=> firstError = "NoError")
  BY DEF GenInv, Session
<1>. QED  BY <1>1, <1>2, RejectingStep DEF errors

\* Nothing is to be visited after the walks.
LEMMA LateFacts ==
  ASSUME GenInv, pass \in Late
  PROVE  Session /\ todo = <<>> /\ pass # "prompt"
BY DEF GenInv, Walks, Late

\* Another mistake is found, or is not.
LEMMA FaultStep ==
  ASSUME GenInv, pass \in Late, Report("Other"), LineEnds("rejected"), UNCHANGED heap
  PROVE  GenInv'
<1>1. Session /\ todo = <<>> /\ pass # "prompt"
  BY LateFacts
<1>2. errorCount' \in Nat /\ firstError' \in ErrorKind /\ (errorCount' = 0 <=> firstError' = "NoError")
  BY <1>1, Kinds, Reports
<1>. QED  BY <1>1, <1>2, RejectingStep

\* The names in the line's expressions are resolved, or the line is rejected.
LEMMA ResolveSymbolsStep ==
  ASSUME GenInv, ResolveSymbols
  PROVE  GenInv'
<1>1. pass = "symbols" /\ pass \in Late /\ UNCHANGED heap
  BY DEF ResolveSymbols, Late
<1>2. CASE source.fault = "symbols"
  BY <1>1, <1>2, FaultStep DEF ResolveSymbols
<1>3. CASE source.fault # "symbols"
  <2>1. pass' = "prepare" /\ UNCHANGED <<line, source, verdicts, todo, errors>>
    BY <1>3 DEF ResolveSymbols
  <2>. QED  BY <1>1, <2>1, LateStep DEF Late
<1>. QED  BY <1>2, <1>3

\* The casts are added, or the line is rejected.
LEMMA CheckRestStep ==
  ASSUME GenInv, CheckRest
  PROVE  GenInv'
<1>1. pass = "casts" /\ pass \in Late /\ UNCHANGED heap
  BY DEF CheckRest, Late
<1>2. CASE source.fault = "casts"
  BY <1>1, <1>2, FaultStep DEF CheckRest
<1>3. CASE source.fault # "casts"
  <2>1. pass' = "emit" /\ UNCHANGED <<line, source, verdicts, todo, errors>>
    BY <1>3 DEF CheckRest
  <2>. QED  BY <1>1, <2>1, LateStep DEF Late
<1>. QED  BY <1>2, <1>3

\* A set of places of a text is finite, and has no members only if it has no member.
LEMMA CountOfSome ==
  ASSUME NEW S, NEW n \in Nat, S \subseteq 1 .. n, S # {}
  PROVE  Cardinality(S) \in Nat /\ Cardinality(S) # 0
<1>1. IsFiniteSet(1 .. n)
  BY FS_Interval
<1>2. IsFiniteSet(S)
  BY <1>1, FS_Subset
<1>. QED  BY <1>2, FS_CardinalityType, FS_EmptySet

\* Fields that are not found are errors, as many as there are.
LEMMA ResolveMembersStep ==
  ASSUME GenInv, ResolveMembers
  PROVE  GenInv'
<1>1. pass = "members" /\ pass \in Late /\ UNCHANGED heap
  BY DEF ResolveMembers, Late
<1>2. CASE Unreadable = {}
  <2>1. pass' = "casts" /\ UNCHANGED <<line, source, verdicts, todo, errors>>
    BY <1>2 DEF ResolveMembers
  <2>. QED  BY <1>1, <2>1, LateStep DEF Late
<1>3. CASE Unreadable # {}
  <2>. DEFINE U == Unreadable
  <2>1. /\ errorCount' = Cardinality(U) /\ firstError' = MemberError(ReadOf(First(U)))
        /\ LineEnds("rejected")
    BY <1>3 DEF ResolveMembers
  <2>2. Session /\ todo = <<>> /\ pass # "prompt"
    BY <1>1, LateFacts
  <2>3. PICK n \in Nat : U \subseteq 1 .. n
    <3>1. line \in DOMAIN Lines /\ source \in Lines[line]
      BY <2>2, InvFacts
    <3>2. source.reads \subseteq DOMAIN source.uses /\ source.uses \in Text
      <4>1. source \in Line
        BY <3>1, LinesAssumption
      <4>. QED  BY <3>1, <4>1, LinesAssumption DEF Line
    <3>3. DOMAIN source.uses = 1 .. Len(source.uses) /\ Len(source.uses) \in Nat
      BY <3>2 DEF Text
    <3>. QED  BY <3>2, <3>3 DEF Unreadable
  <2>4. Cardinality(U) \in Nat /\ Cardinality(U) # 0
    <3>. HIDE DEF U
    <3>1. U # {}
      BY <1>3 DEF U
    <3>. QED  BY <2>3, <3>1, CountOfSome
  <2>5. First(U) \in U
    <3>. HIDE DEF U
    <3>1. U # {} /\ U \subseteq Nat
      BY <1>3, <2>3 DEF U
    <3>. QED  BY <3>1, FirstIs
  <2>6. firstError' # "NoError"
    BY <2>1, <2>5 DEF Unreadable
  <2>7. firstError' \in ErrorKind
    BY <2>1 DEF MemberError, ErrorKind
  <2>. QED  BY <1>1, <2>1, <2>2, <2>4, <2>6, <2>7, RejectingStep
<1>. QED  BY <1>2, <1>3

-----------------------------------------------------------------------------
(***************************************************************************)
(* Steps that change the heap.                                             *)
(***************************************************************************)

\* A step inside of a line that changes the heap for the line only.
LEMMA HeapStep ==
  ASSUME GenInv, pass # "prompt", line' = line, verdicts' = verdicts,
         Session', Heap(refs', classes', expanded', appended', line),
         Grows(refs, classes, expanded, refs', classes', expanded'),
         Settled(refs, refs', line - 1),
         Carries(verdicts, pass, classes, line, verdicts, pass', classes', line),
         Walks(todo', pass', refs', line),
         pass' # "prompt" /\ errorCount' = 0 => Progress(pass', todo', refs', classes', expanded', line)
  PROVE  GenInv'
<1>1. /\ Heap(refs, classes, expanded, appended, line)
      /\ AllDone(verdicts, refs, classes, expanded)
      /\ Populated(verdicts, pass, refs, classes, line)
  BY DEF GenInv
<1>2. /\ line - 1 \in Nat /\ DOMAIN verdicts = 1 .. line - 1
      /\ References(refs, line, Len(classes)) /\ classes \in Seq(ClassType)
  BY InvFacts
<1>3. DOMAIN verdicts \subseteq 1 .. line - 1
  BY <1>2
<1>4. PICK m \in Nat : m = line - 1
  BY <1>2
<1>5. /\ AllDone(verdicts, refs', classes', expanded')
      /\ \A i \in DOMAIN verdicts : UsedBy(TypesOf(refs'), refs', i) = UsedBy(TypesOf(refs), refs, i)
  <2>1. DOMAIN verdicts \subseteq 1 .. m /\ Settled(refs, refs', m)
    BY <1>3, <1>4
  <2>. QED  BY <1>1, <2>1, LinesKept
<1>6. Populated(verdicts, pass', refs', classes', line)
  BY <1>1, <1>2, <1>5, PopulatedKept
<1>. QED  BY <1>5, <1>6, NextInv

\* A reference of the line is pointed somewhere else.
LEMMA RetargetStep ==
  ASSUME GenInv, pass \in {"resolve", "expand", "convert"}, todo # <<>>, todo' = Tail(todo),
         UNCHANGED <<line, source, verdicts, pass, classes, expanded, appended, errors>>,
         NEW h, h = Head(todo), NEW t \in TargetType, t.is # "alias",
         t.is = "completed" => t.class \in DOMAIN classes,
         t.is = "generic" => t.name = refs[h].name,
         refs' = [refs EXCEPT ![h].target = t],
         errorCount = 0 => Progress(pass, todo', refs', classes, expanded, line)
  PROVE  GenInv'
<1>1. /\ Session /\ Heap(refs, classes, expanded, appended, line) /\ Walks(todo, pass, refs, line)
  BY DEF GenInv
<1>2. /\ Walks(todo', pass, refs, line) /\ h \in DOMAIN refs /\ refs[h].line = line
  BY <1>1, WalkOn
<1>3. /\ refs \in Seq(RefType) /\ line \in Nat /\ DOMAIN refs = 1 .. Len(refs)
      /\ References(refs, line, Len(classes)) /\ classes \in Seq(ClassType) /\ line >= 1
      /\ DOMAIN verdicts = 1 .. line - 1 /\ pass # "prompt"
  BY InvFacts
<1>4. PICK rs2 : rs2 = refs'
  OBVIOUS
<1>5. Retargets(refs, rs2, h, t)
  BY <1>2, <1>3, <1>4, RetargetsIs
<1>6. /\ Heap(rs2, classes, expanded, appended, line)
      /\ Grows(refs, classes, expanded, rs2, classes, expanded)
  BY <1>1, <1>2, <1>3, <1>5, HeapRetargeted
<1>7. /\ DOMAIN rs2 = DOMAIN refs
      /\ \A r \in DOMAIN refs : /\ rs2[r].target = IF r = h THEN t ELSE refs[r].target
                                /\ rs2[r].line = refs[r].line /\ rs2[r].in = refs[r].in
  BY <1>5 DEF Retargets, KeepsReferences
<1>8. Settled(refs, rs2, line - 1)
  <2>1. ~(refs[h].line <= line - 1)
    BY <1>2, <1>3
  <2>. QED  BY <1>7, <2>1 DEF Settled
<1>9. Walks(todo', pass, rs2, line)
  BY <1>2, <1>7 DEF Walks
<1>10. \A i \in DOMAIN verdicts : \A j \in 1 .. i : j \in DOMAIN verdicts
  BY <1>3
<1>11. Carries(verdicts, pass, classes, line, verdicts, pass, classes, line)
  BY <1>3, <1>10 DEF Carries
<1>12. errorCount' = errorCount /\ firstError' = firstError
  BY DEF errors
<1>13. Session'
  BY <1>1, <1>3, <1>12, SessionOn DEF Session, Late
<1>. QED  BY <1>3, <1>4, <1>6, <1>8, <1>9, <1>11, <1>12, <1>13, HeapStep

\* The types of the line are resolved.
LEMMA ResolveTypeStep ==
  ASSUME GenInv, ResolveType
  PROVE  GenInv'
<1>1. PICK h : h = Head(todo)
  OBVIOUS
<1>2. PICK t : t = LookUp(refs[h].name, <<>>, <<>>)
  OBVIOUS
<1>3. /\ pass = "resolve" /\ todo # <<>> /\ todo' = Tail(todo)
      /\ IF t = Unresolved THEN Report(LookUpError(refs[h].name)) /\ UNCHANGED refs
         ELSE refs' = [refs EXCEPT ![h].target = t] /\ UNCHANGED errors
      /\ UNCHANGED <<line, source, verdicts, pass, classes, expanded, appended>>
  BY <1>1, <1>2 DEF ResolveType, Visiting, Here, Ref
<1>4. CASE t = Unresolved
  <2>1. Report(LookUpError(refs[h].name)) /\ UNCHANGED heap
    BY <1>3, <1>4 DEF heap
  <2>2. LookUpError(refs[h].name) \in ErrorKind \ {"NoError"}
    BY Kinds
  <2>. QED  BY <1>3, <2>1, <2>2, ErrorStep
<1>5. CASE t # Unresolved
  <2>1. <<>> \in Seq(STRING) /\ <<>> \in Seq(Number) /\ DOMAIN <<>> = {} /\ Len(<<>>) = Len(<<>>)
    OBVIOUS
  <2>2. Finds(t, refs[h].name, <<>>, <<>>)
    BY <1>2, <2>1, LookUpFinds
  <2>3. /\ t \in TargetType /\ t.is \notin {"completed", "alias", "unresolved"}
        /\ t.is = "generic" => t.name = refs[h].name
    BY <1>5, <2>1, <2>2 DEF Finds
  <2>4. refs' = [refs EXCEPT ![h].target = t] /\ UNCHANGED errors
    BY <1>3, <1>5
  <2>5. ASSUME errorCount = 0
        PROVE  Progress("resolve", todo', refs', classes, expanded, line)
    <3>1. Progress("resolve", todo, refs, classes, expanded, line) /\ Walks(todo, pass, refs, line)
      BY <1>3, <2>5 DEF GenInv
    <3>2. \A r : IsAhead(todo, r) <=> r = h \/ IsAhead(todo', r)
      BY <1>1, <1>3, <3>1, WalkOn
    <3>3. h \in DOMAIN refs /\ refs \in Seq(RefType)
      BY <1>1, <1>3, <3>1, WalkOn, InvFacts
    <3>4. Retargets(refs, refs', h, t)
      <4>1. PICK rs2 : rs2 = refs'
        OBVIOUS
      <4>2. Retargets(refs, rs2, h, t)
        BY <2>3, <2>4, <3>3, <4>1, RetargetsIs
      <4>. QED  BY <4>1, <4>2
    <3>5. Resolving("resolve", todo', refs', line)
      BY <2>3, <3>1, <3>2, <3>4 DEF Progress, Resolving, Retargets, KeepsReferences
    <3>. QED  BY <3>5 DEF Progress, IsExpanded
  <2>. QED  BY <1>1, <1>3, <2>3, <2>4, <2>5, RetargetStep
<1>. QED  BY <1>4, <1>5

\* The places of the references of a line that begins.
LEMMA PlacesAre ==
  ASSUME refs \in Seq(RefType), NEW text \in Text, WellFormed(text), NEW td, td = Places(text)
  PROVE  /\ td \in Seq(Number) /\ Ascends(td) /\ DOMAIN td = DOMAIN text /\ Len(td) = Len(text)
         /\ \A i \in DOMAIN text : td[i] = i + Len(refs)
<1>1. Len(text) \in Nat /\ DOMAIN text = 1 .. Len(text) /\ Len(refs) \in Nat
  BY TextType
<1>2. td = [i \in 1 .. Len(text) |-> i + Len(refs)]
  BY <1>1 DEF Places
<1>3. \A i \in 1 .. Len(text) : i + Len(refs) \in Number
  BY <1>1 DEF Number
<1>4. td \in Seq(Number) /\ Len(td) = Len(text)
  BY <1>1, <1>2, <1>3
<1>5. DOMAIN td = 1 .. Len(text) /\ \A i \in 1 .. Len(text) : td[i] = i + Len(refs)
  BY <1>2
<1>6. Ascends(td)
  BY <1>1, <1>5 DEF Ascends
<1>. QED  BY <1>1, <1>4, <1>5, <1>6

\* A line begins: all of its references are new, and to be visited.
LEMMA BeginLineStep ==
  ASSUME GenInv, BeginLine
  PROVE  GenInv'
<1>1. /\ pass = "prompt" /\ line < Len(Lines) /\ line' = line + 1
      /\ source' \in Lines[line + 1]
      /\ refs' = refs \o Copy(source'.uses, line + 1, 0, <<>>, <<>>, FALSE)
      /\ todo' = Places(source'.uses)
      /\ pass' = "resolve" /\ appended' = <<>>
      /\ errorCount' = 0 /\ firstError' = "NoError"
      /\ verdicts' = verdicts /\ classes' = classes /\ expanded' = expanded
  BY DEF BeginLine
<1>2. /\ Session /\ Heap(refs, classes, expanded, appended, line)
      /\ AllDone(verdicts, refs, classes, expanded)
      /\ Populated(verdicts, pass, refs, classes, line)
  BY DEF GenInv
<1>3. /\ References(refs, line, Len(classes)) /\ refs \in Seq(RefType) /\ classes \in Seq(ClassType)
      /\ DOMAIN refs = 1 .. Len(refs) /\ Len(refs) \in Nat
      /\ DOMAIN classes = 1 .. Len(classes) /\ Len(classes) \in Nat
      /\ line \in Nat /\ DOMAIN verdicts = 1 .. line
  BY <1>1, InvFacts
<1>4. Len(Lines) \in Nat /\ DOMAIN Lines = 1 .. Len(Lines)
  BY LinesAssumption
<1>5. line + 1 \in DOMAIN Lines /\ line + 1 \in 0 .. Len(Lines) /\ line + 1 # 0
  BY <1>1, <1>3, <1>4
<1>6. PICK text : text = source'.uses
  OBVIOUS
<1>7. text \in Text /\ WellFormed(text)
  <2>1. source' \in Line
    BY <1>1, <1>5, LinesAssumption
  <2>. QED  BY <1>1, <1>5, <1>6, <2>1, LinesAssumption DEF Line
<1>8. PICK copy : copy = Copy(text, line + 1, 0, <<>>, <<>>, FALSE)
  OBVIOUS
<1>9. /\ IsCopy(copy, refs, line + 1, 0, <<>>) /\ DOMAIN copy = DOMAIN text
      /\ \A i \in DOMAIN copy : copy[i].target = Unresolved
  <2>1. <<>> \in Seq(STRING) /\ <<>> \in Seq(Number) /\ Len(<<>>) = Len(<<>>) /\ 0 \in Nat /\ FALSE \in BOOLEAN
    OBVIOUS
  <2>2. CanCopy(refs, text, line + 1, 0, <<>>, <<>>, FALSE)
    BY <1>3, <1>7, <2>1 DEF CanCopy
  <2>3. PICK of, args, b : of = line + 1 /\ args = <<>> /\ b = FALSE
    OBVIOUS
  <2>4. CanCopy(refs, text, of, 0, args, args, b) /\ copy = Copy(text, of, 0, args, args, b)
    BY <1>8, <2>2, <2>3
  <2>5. /\ IsCopy(copy, refs, of, 0, args) /\ DOMAIN copy = DOMAIN text
        /\ \A i \in DOMAIN copy : IF b THEN copy[i].target.is = "unresolved" => copy[i].target = Unresolved
                                  ELSE copy[i].target = Unresolved
    BY <2>4, CopyIs
  <2>. QED  BY <2>3, <2>5
<1>10. PICK rs2 : rs2 = refs'
  OBVIOUS
<1>11. Added(refs, rs2, copy)
  <2>1. copy \in Seq(RefType) /\ rs2 = refs \o copy
    BY <1>1, <1>6, <1>8, <1>9, <1>10 DEF IsCopy
  <2>. QED  BY <1>3, <2>1, AddedIs
<1>12. References(rs2, line + 1, Len(classes))
  <2>1. DOMAIN <<>> = {} /\ 0 \in Nat
    OBVIOUS
  <2>2. PICK of \in Nat \ {0} : of = line + 1
    BY <1>3
  <2>3. line <= of /\ line < of /\ Len(classes) <= Len(classes) /\ 0 <= Len(classes)
    BY <1>3, <2>2
  <2>4. IsCopy(copy, refs, of, 0, <<>>)
    BY <1>9, <2>2
  <2>5. References(rs2, of, Len(classes))
    BY <1>3, <1>11, <2>1, <2>3, <2>4, CopyAdded
  <2>. QED  BY <2>2, <2>5
<1>13. /\ rs2 \in Seq(RefType) /\ Len(refs) <= Len(rs2)
       /\ \A r \in DOMAIN refs : r \in DOMAIN rs2 /\ rs2[r] = refs[r]
       /\ \A i \in DOMAIN copy : Len(refs) + i \in DOMAIN rs2 /\ rs2[Len(refs) + i] = copy[i]
       /\ \A r \in DOMAIN rs2 : r \in DOMAIN refs \/ (r > Len(refs) /\ r - Len(refs) \in DOMAIN copy
                                                      /\ rs2[r] = copy[r - Len(refs)])
  BY <1>11 DEF Added
<1>14. \A i \in DOMAIN copy : copy[i].line = line + 1 /\ copy[i].in = 0
  BY <1>9 DEF IsCopy
<1>15. KeepsReferences(refs, rs2)
  BY <1>13 DEF KeepsReferences
<1>16. \A r \in DOMAIN refs : refs[r].line \in Nat /\ refs[r].line <= line
  <2>1. \A r \in DOMAIN refs : refs[r].line \in 1 .. line
    BY <1>3, ReferencesType DEF RefFits
  <2>. QED  BY <1>3, <2>1
<1>17. Heap(rs2, classes, expanded, <<>>, line + 1)
  <2>1. ASSUME NEW c \in DOMAIN classes
        PROVE  ClassFits(classes, c, rs2, line + 1)
    <3>1. PICK ln2 \in Nat : ln2 = line + 1
      BY <1>3
    <3>2. ClassFits(classes, c, refs, line) /\ line <= ln2
      BY <1>2, <1>3, <3>1 DEF Heap
    <3>3. \A r \in DOMAIN rs2 : r \in DOMAIN refs \/ rs2[r].in # c
      BY <1>3, <1>13, <1>14
    <3>4. ClassFits(classes, c, rs2, ln2)
      BY <1>3, <1>13, <1>15, <3>2, <3>3, ClassFitsKept
    <3>. QED  BY <3>1, <3>4
  <2>2. Lists(expanded, classes)
    BY <1>2 DEF Heap
  <2>3. Appended(<<>>, classes, line + 1)
    <3>1. \A c \in DOMAIN classes : classes[c].line # line + 1
      <4>1. \A c \in DOMAIN classes : classes[c].line \in 1 .. line
        BY <1>2 DEF Heap, ClassFits
      <4>. QED  BY <1>3, <4>1
    <3>2. <<>> \in Seq(Number) /\ DOMAIN <<>> = {}
      OBVIOUS
    <3>. QED  BY <3>1, <3>2 DEF Appended
  <2>. QED  BY <1>3, <1>12, <2>1, <2>2, <2>3 DEF Heap
<1>18. Grows(refs, classes, expanded, rs2, classes, expanded)
  BY <1>15 DEF Grows, KeepsClasses, KeepsLists
<1>19. Settled(refs, rs2, line)
  <2>1. line + 1 > line
    BY <1>3
  <2>. QED  BY <1>13, <1>14, <2>1 DEF Settled
<1>20. /\ AllDone(verdicts, rs2, classes, expanded)
       /\ \A i \in DOMAIN verdicts : UsedBy(TypesOf(rs2), rs2, i) = UsedBy(TypesOf(refs), refs, i)
  <2>1. DOMAIN verdicts \subseteq 1 .. line
    BY <1>3
  <2>. QED  BY <1>2, <1>3, <1>17, <1>18, <1>19, <2>1, LinesKept
<1>21. Populated(verdicts, "resolve", rs2, classes, line + 1)
  <2>1. \A c \in DOMAIN classes : classes[c].line # line + 1
    <3>1. \A c \in DOMAIN classes : classes[c].line \in 1 .. line
      BY <1>2 DEF Heap, ClassFits
    <3>. QED  BY <1>3, <3>1
  <2>2. \A i \in DOMAIN verdicts : \A j \in 1 .. i : j \in DOMAIN verdicts
    BY <1>3
  <2>3. Carries(verdicts, pass, classes, line, verdicts, "resolve", classes, line + 1)
    BY <2>1, <2>2 DEF Carries
  <2>. QED  BY <1>2, <1>3, <1>20, <2>3, PopulatedKept
<1>22. /\ todo' \in Seq(Number) /\ Ascends(todo') /\ DOMAIN todo' = DOMAIN text
       /\ \A i \in DOMAIN text : todo'[i] = i + Len(refs)
  <2>1. PICK td : td = Places(text)
    OBVIOUS
  <2>2. td = todo'
    BY <1>1, <1>6, <2>1
  <2>. QED  BY <1>3, <1>7, <2>1, <2>2, PlacesAre
<1>23. \A i \in DOMAIN text : i \in Nat /\ i + Len(refs) = Len(refs) + i
  BY <1>3, <1>7, TextType
<1>24. \A r \in DOMAIN rs2 : rs2[r].line = line + 1 => /\ IsAhead(todo', r) /\ rs2[r].target = Unresolved
  <2>. SUFFICES ASSUME NEW r \in DOMAIN rs2, rs2[r].line = line + 1
                PROVE  IsAhead(todo', r) /\ rs2[r].target = Unresolved
    OBVIOUS
  <2>1. r \notin DOMAIN refs
    <3>1. r \in DOMAIN refs => rs2[r].line \in Nat /\ rs2[r].line <= line
      BY <1>13, <1>16
    <3>2. ~(line + 1 <= line)
      BY <1>3
    <3>. QED  BY <3>1, <3>2
  <2>2. PICK i \in DOMAIN text : i = r - Len(refs) /\ rs2[r] = copy[i]
    BY <1>9, <1>13, <2>1
  <2>3. r \in Nat
    BY <1>13
  <2>4. i + Len(refs) = r
    BY <1>3, <2>2, <2>3
  <2>. QED  BY <1>9, <1>22, <2>2, <2>4 DEF IsAhead
<1>25. Walks(todo', "resolve", rs2, line + 1)
  <2>1. \A i \in DOMAIN todo' : /\ todo'[i] \in DOMAIN rs2 /\ rs2[todo'[i]].line = line + 1
                                /\ rs2[todo'[i]].in = 0
    BY <1>9, <1>13, <1>14, <1>22, <1>23
  <2>. QED  BY <1>22, <1>24, <2>1 DEF Walks
<1>26. Progress("resolve", todo', rs2, classes, expanded, line + 1)
  <2>1. Resolving("resolve", todo', rs2, line + 1)
    BY <1>24 DEF Resolving, Unresolved
  <2>. QED  BY <2>1 DEF Progress, IsExpanded
<1>27. Session'
  <2>1. Len(verdicts) = line
    BY <1>1, <1>2 DEF Session
  <2>2. Len(verdicts) = (line + 1) - 1
    BY <1>3, <2>1
  <2>. QED  BY <1>1, <1>2, <1>5, <2>2 DEF Session, Late, ErrorKind
<1>28. /\ Heap(refs', classes', expanded', appended', line') /\ Walks(todo', pass', refs', line')
       /\ Progress(pass', todo', refs', classes', expanded', line')
       /\ AllDone(verdicts', refs', classes', expanded')
       /\ Populated(verdicts', pass', refs', classes', line')
  BY <1>1, <1>10, <1>17, <1>20, <1>21, <1>25, <1>26
<1>. QED  BY <1>27, <1>28, NextInv

\* The classes that differ in fields and layouts at most.
Reclasses(cs, cs2) ==
  /\ cs2 \in Seq(ClassType) /\ Len(cs2) = Len(cs) /\ DOMAIN cs2 = DOMAIN cs
  /\ KeepsClasses(cs, cs2)

\* The references of a line are what they were when its passes are over.
LEMMA AllLineDone ==
  ASSUME GenInv, pass \in Late, NEW cs2, Reclasses(classes, cs2)
  PROVE  /\ Heap(refs, cs2, expanded, appended, line)
         /\ \A r \in DOMAIN refs : refs[r].line = line => Done(TypesOf(refs), refs, cs2, expanded, r)
         /\ AllDone(verdicts, refs, cs2, expanded)
<1>1. /\ Heap(refs, classes, expanded, appended, line) /\ AllDone(verdicts, refs, classes, expanded)
      /\ pass # "prompt" /\ errorCount = 0 /\ pass \notin {"resolve", "expand"} /\ todo = <<>>
  BY LateFacts DEF GenInv, Session, Late
<1>2. Progress(pass, todo, refs, classes, expanded, line)
  BY <1>1 DEF GenInv
<1>3. line \in Nat /\ DOMAIN refs = 1 .. Len(refs)
  BY InvFacts
<1>4. /\ cs2 \in Seq(ClassType) /\ Len(cs2) = Len(classes) /\ KeepsClasses(classes, cs2)
  BY DEF Reclasses
<1>5. /\ Heap(refs, cs2, expanded, appended, line)
      /\ Grows(refs, classes, expanded, refs, cs2, expanded)
  BY <1>1, <1>3, <1>4, HeapReclassed
<1>6. ASSUME NEW r \in DOMAIN refs, Done(TypesOf(refs), refs, classes, expanded, r)
      PROVE  Done(TypesOf(refs), refs, cs2, expanded, r)
  <2>1. PICK ty : ty = TypesOf(refs)
    OBVIOUS
  <2>2. Done(ty, refs, classes, expanded, r) /\ \A q \in 1 .. r : ty[q] = ty[q]
    BY <1>6, <2>1
  <2>3. Done(ty, refs, cs2, expanded, r)
    BY <1>1, <1>5, <2>2, DoneKept
  <2>. QED  BY <2>1, <2>3
<1>7. \A r \in DOMAIN refs : refs[r].line = line => Done(TypesOf(refs), refs, classes, expanded, r)
  <2>1. \A r : ~IsAhead(todo, r)
    BY <1>1, EmptyWalk
  <2>. QED  BY <1>1, <1>2, <2>1 DEF Progress
<1>8. AllDone(verdicts, refs, cs2, expanded)
  BY <1>1, <1>6 DEF AllDone
<1>. QED  BY <1>5, <1>6, <1>7, <1>8

\* The classes of the line get their fields.
LEMMA PrepareClassesStep ==
  ASSUME GenInv, PrepareClasses
  PROVE  GenInv'
<1>. DEFINE ty == TypesOf(refs)
            Entry(c) == [classes[c] EXCEPT !.prepared = @ \/ \E i \in DOMAIN appended : appended[i] = c]
<1>1. /\ pass = "prepare" /\ pass' = "members"
      /\ classes' = [c \in DOMAIN classes |-> Entry(c)]
      /\ UNCHANGED <<line, source, verdicts, todo, refs, expanded, appended, errors>>
  BY DEF PrepareClasses
<1>2. /\ Session /\ Heap(refs, classes, expanded, appended, line)
      /\ Populated(verdicts, pass, refs, classes, line)
  BY DEF GenInv
<1>3. /\ todo = <<>> /\ pass # "prompt" /\ errorCount = 0 /\ pass \in Late
      /\ errorCount' = errorCount /\ firstError' = firstError
  BY <1>1, LateFacts DEF errors, Late, GenInv, Session
<1>4. /\ References(refs, line, Len(classes)) /\ classes \in Seq(ClassType)
      /\ DOMAIN classes = 1 .. Len(classes) /\ Len(classes) \in Nat
      /\ DOMAIN verdicts = 1 .. line - 1 /\ line \in Nat
  BY <1>1, InvFacts
<1>5. ASSUME NEW c \in DOMAIN classes
      PROVE  /\ Entry(c) \in ClassType
             /\ Entry(c).of = classes[c].of /\ Entry(c).args = classes[c].args
             /\ Entry(c).body = classes[c].body /\ Entry(c).line = classes[c].line
             /\ Entry(c).layout = classes[c].layout
             /\ Entry(c).prepared <=> classes[c].prepared \/ classes[c].line = line
  <2>1. classes[c] \in ClassType
    BY <1>4
  <2>2. classes[c].line = line <=> \E i \in DOMAIN appended : appended[i] = c
    BY <1>2 DEF Heap, Appended
  <2>. QED  BY <2>1, <2>2 DEF ClassType
<1>. HIDE DEF Entry
<1>6. PICK cs2 : cs2 = classes'
  OBVIOUS
<1>7. DOMAIN cs2 = DOMAIN classes /\ \A c \in DOMAIN classes : cs2[c] = Entry(c)
  BY <1>1, <1>6
<1>8. Reclasses(classes, cs2)
  <2>1. cs2 = [c \in 1 .. Len(classes) |-> Entry(c)]
    BY <1>1, <1>4, <1>6
  <2>2. cs2 \in Seq(ClassType) /\ Len(cs2) = Len(classes)
    BY <1>4, <1>5, <2>1
  <2>3. KeepsClasses(classes, cs2)
    BY <1>5, <1>7 DEF KeepsClasses
  <2>. QED  BY <1>7, <2>2, <2>3 DEF Reclasses
<1>9. /\ Heap(refs, cs2, expanded, appended, line)
      /\ \A r \in DOMAIN refs : refs[r].line = line => Done(ty, refs, cs2, expanded, r)
      /\ AllDone(verdicts, refs, cs2, expanded)
  BY <1>3, <1>8, AllLineDone
<1>10. Session'
  BY <1>1, <1>2, <1>3, SessionOn DEF Session, Late
<1>11. Progress("members", <<>>, refs, cs2, expanded, line)
  <2>1. Progress(pass, todo, refs, classes, expanded, line)
    BY <1>3 DEF GenInv
  <2>2. Resolving("members", <<>>, refs, line)
    BY <1>1, <1>3, <2>1 DEF Progress, Resolving
  <2>. QED  BY <1>9, <2>2 DEF Progress, IsExpanded
<1>12. Populated(verdicts, "members", refs, cs2, line)
  <2>1. ASSUME NEW c \in DOMAIN cs2
        PROVE  /\ cs2[c].line \in DOMAIN verdicts /\ verdicts[cs2[c].line] = "accepted" => cs2[c].prepared
               /\ cs2[c].line = line => cs2[c].prepared
               /\ cs2[c].line = line => cs2[c].layout = Unmapped
               /\ cs2[c].prepared => cs2[c].layout \in {Unmapped, Len(cs2[c].body)}
    <3>1. /\ classes[c].line \in DOMAIN verdicts /\ verdicts[classes[c].line] = "accepted" => classes[c].prepared
          /\ classes[c].line = line => classes[c].layout = Unmapped
          /\ classes[c].prepared => classes[c].layout \in {Unmapped, Len(classes[c].body)}
      BY <1>2, <1>3, <1>7 DEF Populated
    <3>. QED  BY <1>5, <1>7, <3>1
  <2>2. ASSUME NEW i \in DOMAIN verdicts, verdicts[i] = "accepted", NEW c \in UsedBy(ty, refs, i)
        PROVE  cs2[c].line \in 1 .. i /\ (verdicts[cs2[c].line] = "accepted" => HasFields(cs2, c))
    <3>1. c \in DOMAIN classes
      BY <1>4, UsedAreClasses
    <3>2. classes[c].line \in 1 .. i /\ (verdicts[classes[c].line] = "accepted" => HasFields(classes, c))
      BY <1>2, <2>2 DEF Populated
    <3>. QED  BY <1>5, <1>7, <3>1, <3>2 DEF HasFields
  <2>. QED  BY <2>1, <2>2 DEF Populated
<1>13. /\ Heap(refs', classes', expanded', appended', line') /\ Walks(todo', pass', refs', line')
       /\ Progress(pass', todo', refs', classes', expanded', line')
       /\ AllDone(verdicts', refs', classes', expanded')
       /\ Populated(verdicts', pass', refs', classes', line')
  BY <1>1, <1>3, <1>6, <1>9, <1>11, <1>12, EmptyWalk
<1>. QED  BY <1>10, <1>13, NextInv

\* What the recursion of Mapped asks of a function.
Reaching(f, n) ==
  [m \in 0 .. n |-> IF m = 0 THEN ClassesAt(Written)
                    ELSE f[m - 1] \union UNION {ClassesAt(FieldsOf(c)) : c \in f[m - 1]}]

\* A function that Mapped asks for exists, for every number of classes.
LEMMA ReachUpTo ==
  ASSUME NEW n \in Nat
  PROVE  \E f : f = Reaching(f, n)
<1>. DEFINE T(f, m) == f = Reaching(f, m)
            N == {m \in Nat : \E f : T(f, m)}
            K(X) == X \union UNION {ClassesAt(FieldsOf(c)) : c \in X}
<1>. HIDE DEF K
<1>0. \A f, m : Reaching(f, m) = [k \in 0 .. m |-> IF k = 0 THEN ClassesAt(Written) ELSE K(f[k - 1])]
  BY DEF Reaching, K
<1>1. 0 \in N
  <2>. DEFINE f == [m \in 0 .. 0 |-> ClassesAt(Written)]
  <2>1. \A k \in 0 .. 0 : k = 0
    OBVIOUS
  <2>2. f = [k \in 0 .. 0 |-> IF k = 0 THEN ClassesAt(Written) ELSE K(f[k - 1])]
    BY <2>1
  <2>. HIDE DEF f
  <2>3. T(f, 0)
    BY <1>0, <2>2
  <2>. HIDE DEF T
  <2>. QED  BY <2>3
<1>2. ASSUME NEW m \in N
      PROVE  m + 1 \in N
  <2>1. m \in Nat
    OBVIOUS
  <2>2. PICK f : T(f, m)
    OBVIOUS
  <2>. DEFINE g == [k \in 0 .. m + 1 |-> IF k = m + 1 THEN K(f[m]) ELSE f[k]]
              G(k) == IF k = 0 THEN ClassesAt(Written) ELSE K(g[k - 1])
  <2>3. /\ \A k \in 0 .. m : k \in 0 .. m + 1 /\ k # m + 1 /\ (k # 0 => k - 1 \in 0 .. m)
        /\ \A k \in 0 .. m + 1 : k \in 0 .. m \/ k = m + 1
        /\ m + 1 \in 0 .. m + 1 /\ m + 1 # 0 /\ (m + 1) - 1 = m /\ m \in 0 .. m
    BY <2>1
  <2>4. \A k \in 0 .. m : f[k] = IF k = 0 THEN ClassesAt(Written) ELSE K(f[k - 1])
    <3>1. f = [k \in 0 .. m |-> IF k = 0 THEN ClassesAt(Written) ELSE K(f[k - 1])]
      BY <1>0, <2>2
    <3>. QED  BY <3>1
  <2>5. g[m + 1] = K(f[m]) /\ \A k \in 0 .. m : g[k] = f[k]
    BY <2>3
  <2>6. g = [k \in 0 .. m + 1 |-> g[k]]
    OBVIOUS
  <2>. HIDE DEF g
  <2>7. \A k \in 0 .. m : g[k] = G(k)
    BY <2>3, <2>4, <2>5
  <2>8. g[m + 1] = G(m + 1)
    BY <2>3, <2>5
  <2>9. \A k \in 0 .. m + 1 : g[k] = G(k)
    <3>. HIDE DEF G
    <3>. QED  BY <2>3, <2>7, <2>8
  <2>10. g = [k \in 0 .. m + 1 |-> G(k)]
    <3>. HIDE DEF G
    <3>. QED  BY <2>6, <2>9
  <2>11. T(g, m + 1)
    BY <1>0, <2>10
  <2>. HIDE DEF T
  <2>. QED  BY <2>1, <2>11
<1>3. N \in SUBSET Nat
  OBVIOUS
<1>. HIDE DEF N
<1>4. \A m \in Nat : m \in N
  BY <1>1, <1>2, <1>3, Induction
<1>5. n \in N
  BY <1>4
<1>. HIDE DEF T
<1>6. \E f : T(f, n)
  BY <1>5 DEF N
<1>. QED  BY <1>6 DEF T

\* Code is generated for the classes of the references of the line.
LEMMA WrittenAreMapped ==
  ASSUME Len(classes) \in Nat
  PROVE  ClassesAt(Written) \subseteq Mapped
<1>1. PICK n \in Nat : n = Len(classes)
  OBVIOUS
<1>2. PICK f : f = CHOOSE g : g = Reaching(g, n)
  OBVIOUS
<1>3. f = Reaching(f, n)
  BY <1>2, ReachUpTo
<1>4. Mapped = f[n]
  BY <1>1, <1>2 DEF Mapped, Reaching
<1>5. \A m \in 0 .. n : f[m] = IF m = 0 THEN ClassesAt(Written)
                               ELSE f[m - 1] \union UNION {ClassesAt(FieldsOf(c)) : c \in f[m - 1]}
  BY <1>3 DEF Reaching
<1>. DEFINE W == ClassesAt(Written)
            N == {m \in Nat : m <= n => W \subseteq f[m]}
<1>6. 0 \in N
  <2>1. 0 \in 0 .. n
    OBVIOUS
  <2>2. f[0] = W
    BY <1>5, <2>1
  <2>. HIDE DEF W
  <2>. QED  BY <2>2
<1>7. ASSUME NEW m \in N
      PROVE  m + 1 \in N
  <2>. SUFFICES ASSUME m + 1 <= n
                PROVE  W \subseteq f[m + 1]
    OBVIOUS
  <2>1. m \in Nat /\ m + 1 \in 0 .. n /\ m + 1 # 0 /\ (m + 1) - 1 = m /\ W \subseteq f[m]
    OBVIOUS
  <2>2. f[m] \subseteq f[m + 1]
    BY <1>5, <2>1
  <2>. HIDE DEF W, N
  <2>. QED  BY <2>1, <2>2
<1>8. N \in SUBSET Nat
  OBVIOUS
<1>. HIDE DEF N
<1>9. \A m \in Nat : m \in N
  BY <1>6, <1>7, <1>8, Induction
<1>10. n \in N
  BY <1>9
<1>11. W \subseteq f[n]
  BY <1>10 DEF N
<1>. QED  BY <1>4, <1>11

\* The line is accepted: its references have their types, and the classes it uses
\* their structs.
LEMMA EmitStep ==
  ASSUME GenInv, Emit
  PROVE  GenInv'
<1>. DEFINE ty == TypesOf(refs)
            Entry(c) == IF c \in Mapped /\ classes[c].layout = Unmapped
                        THEN [classes[c] EXCEPT !.layout = Len(Fields(c))] ELSE classes[c]
<1>1. /\ pass = "emit" /\ LineEnds("accepted")
      /\ classes' = [c \in DOMAIN classes |-> Entry(c)]
      /\ UNCHANGED <<refs, expanded, appended, errors>>
  BY DEF Emit
<1>2. /\ Session /\ Heap(refs, classes, expanded, appended, line)
      /\ Populated(verdicts, pass, refs, classes, line)
  BY DEF GenInv
<1>3. /\ todo = <<>> /\ pass # "prompt" /\ pass \in Late
      /\ errorCount' = errorCount /\ firstError' = firstError
      /\ errorCount \in Nat /\ firstError \in ErrorKind /\ (errorCount = 0 <=> firstError = "NoError")
  BY <1>1, LateFacts DEF errors, Late, GenInv, Session
<1>4. /\ References(refs, line, Len(classes)) /\ classes \in Seq(ClassType)
      /\ DOMAIN classes = 1 .. Len(classes) /\ Len(classes) \in Nat
      /\ DOMAIN verdicts = 1 .. line - 1 /\ line \in Nat /\ line >= 1
  BY <1>1, InvFacts
<1>5. \A x \in ClassType : x.body \in Seq(Number) /\ Len(x.body) \in Nat
  <2>1. \A x \in ClassType : x.body \in Seq(Number)
    BY DEF ClassType
  <2>2. \A s \in Seq(Number) : Len(s) \in Nat
    OBVIOUS
  <2>. QED  BY <2>1, <2>2
<1>6. ASSUME NEW c \in DOMAIN classes
      PROVE  Len(Fields(c)) \in Nat /\ (classes[c].prepared => Fields(c) = classes[c].body)
  <2>1. classes[c] \in ClassType /\ Len(<<>>) = 0
    BY <1>4
  <2>. QED  BY <1>5, <2>1 DEF Fields
<1>7. ASSUME NEW c \in DOMAIN classes
      PROVE  /\ Entry(c) \in ClassType
             /\ Entry(c).of = classes[c].of /\ Entry(c).args = classes[c].args
             /\ Entry(c).body = classes[c].body /\ Entry(c).line = classes[c].line
             /\ Entry(c).prepared = classes[c].prepared
             /\ classes[c].layout # Unmapped => Entry(c).layout = classes[c].layout
             /\ classes[c].prepared /\ classes[c].layout = Unmapped =>
                  Entry(c).layout \in {Unmapped, Len(classes[c].body)}
             /\ classes[c].prepared /\ classes[c].layout = Unmapped /\ c \in Mapped =>
                  Entry(c).layout = Len(classes[c].body)
  <2>1. classes[c] \in ClassType
    BY <1>4
  <2>2. \A x \in ClassType : \A n \in Nat :
          /\ [x EXCEPT !.layout = n] \in ClassType
          /\ [x EXCEPT !.layout = n].of = x.of /\ [x EXCEPT !.layout = n].args = x.args
          /\ [x EXCEPT !.layout = n].body = x.body /\ [x EXCEPT !.layout = n].line = x.line
          /\ [x EXCEPT !.layout = n].prepared = x.prepared /\ [x EXCEPT !.layout = n].layout = n
    BY DEF ClassType
  <2>3. CASE c \in Mapped /\ classes[c].layout = Unmapped
    <3>1. Entry(c) = [classes[c] EXCEPT !.layout = Len(Fields(c))]
      BY <2>3
    <3>. HIDE DEF Entry
    <3>. QED  BY <1>6, <2>1, <2>2, <2>3, <3>1
  <2>4. CASE ~(c \in Mapped /\ classes[c].layout = Unmapped)
    BY <2>1, <2>4
  <2>. QED  BY <2>3, <2>4
<1>. HIDE DEF Entry
<1>8. PICK cs2 : cs2 = classes'
  OBVIOUS
<1>9. DOMAIN cs2 = DOMAIN classes /\ \A c \in DOMAIN classes : cs2[c] = Entry(c)
  BY <1>1, <1>8
<1>10. Reclasses(classes, cs2)
  <2>1. cs2 = [c \in 1 .. Len(classes) |-> Entry(c)]
    BY <1>1, <1>4, <1>8
  <2>2. cs2 \in Seq(ClassType) /\ Len(cs2) = Len(classes)
    BY <1>4, <1>7, <2>1
  <2>3. KeepsClasses(classes, cs2)
    BY <1>7, <1>9 DEF KeepsClasses
  <2>. QED  BY <1>9, <2>2, <2>3 DEF Reclasses
<1>11. /\ Heap(refs, cs2, expanded, appended, line)
       /\ \A r \in DOMAIN refs : refs[r].line = line => Done(ty, refs, cs2, expanded, r)
       /\ AllDone(verdicts, refs, cs2, expanded)
  BY <1>3, <1>10, AllLineDone
<1>12. UNCHANGED <<line, source, todo>> /\ verdicts' = Append(verdicts, "accepted") /\ pass' = "prompt"
  BY <1>1 DEF LineEnds
<1>13. Session'
  BY <1>1, <1>2, <1>3, SessionEnds
<1>14. PICK vs : vs = Append(verdicts, "accepted")
  OBVIOUS
<1>15. /\ DOMAIN vs = 1 .. line /\ vs[line] = "accepted"
       /\ \A i \in 1 .. line - 1 : vs[i] = verdicts[i]
  <2>1. "accepted" \in {"accepted", "rejected"}
    OBVIOUS
  <2>. QED  BY <1>2, <1>3, <1>14, <2>1, VerdictAdded
<1>16. \A i \in 1 .. line : i = line \/ i \in 1 .. line - 1
  BY <1>4
<1>17. AllDone(vs, refs, cs2, expanded)
  <2>1. ASSUME NEW r \in DOMAIN refs, refs[r].line \in DOMAIN vs, vs[refs[r].line] = "accepted"
        PROVE  Done(ty, refs, cs2, expanded, r)
    <3>1. CASE refs[r].line = line
      BY <1>11, <3>1
    <3>2. CASE refs[r].line # line
      <4>1. refs[r].line \in DOMAIN verdicts /\ verdicts[refs[r].line] = "accepted"
        BY <1>4, <1>15, <1>16, <2>1, <3>2
      <4>. QED  BY <1>11, <4>1 DEF AllDone
    <3>. QED  BY <3>1, <3>2
  <2>. QED  BY <2>1 DEF AllDone
<1>18. \A c \in DOMAIN classes :
         /\ classes[c].line \in DOMAIN verdicts /\ verdicts[classes[c].line] = "accepted" => classes[c].prepared
         /\ classes[c].line = line => classes[c].prepared
         /\ classes[c].prepared => classes[c].layout \in {Unmapped, Len(classes[c].body)}
  BY <1>1, <1>2 DEF Populated
<1>19. \A c \in DOMAIN classes : classes[c].line \in DOMAIN vs /\ vs[classes[c].line] = "accepted" => classes[c].prepared
  BY <1>4, <1>15, <1>16, <1>18
<1>20. \A c \in DOMAIN classes : classes[c].prepared => cs2[c].layout \in {Unmapped, Len(cs2[c].body)}
  BY <1>7, <1>9, <1>18
<1>21. ASSUME NEW i \in 1 .. line - 1, vs[i] = "accepted", NEW c \in UsedBy(ty, refs, i)
       PROVE  cs2[c].line \in 1 .. i /\ (vs[cs2[c].line] = "accepted" => HasFields(cs2, c))
  <2>1. c \in DOMAIN classes
    BY <1>4, UsedAreClasses
  <2>2. classes[c].line \in 1 .. i /\ (verdicts[classes[c].line] = "accepted" => HasFields(classes, c))
    BY <1>2, <1>4, <1>15, <1>21 DEF Populated
  <2>3. classes[c].line \in 1 .. line - 1
    BY <1>4, <2>2
  <2>4. HasFields(classes, c) => HasFields(cs2, c)
    <3>1. HasFields(classes, c) => classes[c].layout # Unmapped
      <4>1. Len(classes[c].body) \in Nat
        BY <1>4, <1>5, <2>1
      <4>. QED  BY <4>1 DEF HasFields, Unmapped
    <3>. QED  BY <1>7, <1>9, <2>1, <3>1 DEF HasFields
  <2>. QED  BY <1>7, <1>9, <1>15, <2>1, <2>2, <2>3, <2>4
<1>22. ASSUME NEW c \in UsedBy(ty, refs, line)
       PROVE  cs2[c].line \in 1 .. line /\ (vs[cs2[c].line] = "accepted" => HasFields(cs2, c))
  <2>1. c \in DOMAIN classes
    BY <1>4, UsedAreClasses
  <2>2. ClassFits(classes, c, refs, line)
    BY <1>2, <2>1 DEF Heap
  <2>3. classes[c].line \in 1 .. line
    BY <2>2 DEF ClassFits
  <2>4. c \in Mapped
    <3>1. ClassesAt(Written) \subseteq Mapped
      BY <1>4, WrittenAreMapped
    <3>2. PICK r \in DOMAIN refs : refs[r].line = line /\ refs[r].in = 0 /\ ty[r].is = "completed" /\ c = ty[r].class
      BY DEF UsedBy
    <3>3. r \in Written /\ Actual(r).is = "completed" /\ c = Actual(r).class
      BY <3>2, ActualIs DEF Written, OfLine
    <3>4. c \in ClassesAt(Written)
      BY <3>3 DEF ClassesAt
    <3>. QED  BY <3>1, <3>4
  <2>5. ASSUME vs[classes[c].line] = "accepted"
        PROVE  HasFields(cs2, c)
    <3>1. classes[c].prepared
      BY <1>15, <1>19, <2>1, <2>3, <2>5
    <3>2. classes[c].layout = Unmapped \/ classes[c].layout = Len(classes[c].body)
      BY <1>18, <2>1, <3>1
    <3>3. CASE classes[c].layout = Unmapped
      BY <1>7, <1>9, <2>1, <2>4, <3>1, <3>3 DEF HasFields
    <3>4. CASE classes[c].layout # Unmapped
      BY <1>7, <1>9, <2>1, <3>1, <3>2, <3>4 DEF HasFields
    <3>. QED  BY <3>3, <3>4
  <2>. QED  BY <1>7, <1>9, <2>1, <2>3, <2>5
<1>23. Populated(vs, "prompt", refs, cs2, line)
  <2>1. \A c \in DOMAIN cs2 :
          /\ cs2[c].line \in DOMAIN vs /\ vs[cs2[c].line] = "accepted" => cs2[c].prepared
          /\ cs2[c].prepared => cs2[c].layout \in {Unmapped, Len(cs2[c].body)}
    BY <1>7, <1>9, <1>19, <1>20
  <2>2. \A i \in DOMAIN vs : vs[i] = "accepted" => \A c \in UsedBy(ty, refs, i) :
          cs2[c].line \in 1 .. i /\ (vs[cs2[c].line] = "accepted" => HasFields(cs2, c))
    BY <1>15, <1>16, <1>21, <1>22
  <2>. QED  BY <2>1, <2>2 DEF Populated
<1>24. /\ Heap(refs', classes', expanded', appended', line') /\ Walks(todo', pass', refs', line')
       /\ AllDone(verdicts', refs', classes', expanded')
       /\ Populated(verdicts', pass', refs', classes', line')
  BY <1>1, <1>3, <1>8, <1>11, <1>12, <1>14, <1>17, <1>23, EmptyWalk
<1>. QED  BY <1>12, <1>13, <1>24, NextInv

\* When the conversion is without an error, what precedes the reference it is at has
\* its type, and a class that is made for it, or was found, is among the matches.
LEMMA AwaitedMatches ==
  ASSUME GenInv, pass = "convert", todo # <<>>, errorCount = 0, NEW h, h = Head(todo)
  PROVE  /\ \A q \in DOMAIN refs : refs[q].line = line /\ q < h =>
              Done(TypesOf(refs), refs, classes, expanded, q)
         /\ refs[h].in = 0 /\ refs[h].args # <<>> =>
              \E g \in Generic : /\ refs[h].target = GenericType(g)
                                 /\ \E i \in DOMAIN expanded[g] :
                                      /\ Match(TypesOf(refs), classes, expanded[g][i], refs[h].args)
                                      /\ Before(classes, expanded[g], i, h)
<1>. DEFINE ty == TypesOf(refs)
<1>1. /\ Heap(refs, classes, expanded, appended, line) /\ Walks(todo, pass, refs, line)
      /\ Progress("convert", todo, refs, classes, expanded, line)
  BY DEF GenInv
<1>2. References(refs, line, Len(classes)) /\ DOMAIN refs = 1 .. Len(refs) /\ Len(refs) \in Nat
  BY InvFacts
<1>3. /\ h \in DOMAIN refs /\ refs[h].line = line /\ h \in Nat
      /\ \A r : IsAhead(todo, r) => r = h \/ r > h
      /\ IsAhead(todo, h)
  BY <1>1, WalkOn
<1>4. ASSUME NEW q \in DOMAIN refs, refs[q].line = line, q < h
      PROVE  Done(ty, refs, classes, expanded, q)
  <2>1. q \in Nat
    BY <1>2
  <2>2. ~IsAhead(todo, q)
    BY <1>3, <1>4, <2>1
  <2>. QED  BY <1>1, <1>4, <2>2 DEF Progress
<1>5. ASSUME refs[h].in = 0, refs[h].args # <<>>
      PROVE  \E g \in Generic : /\ refs[h].target = GenericType(g)
                                /\ \E i \in DOMAIN expanded[g] :
                                     /\ Match(ty, classes, expanded[g][i], refs[h].args)
                                     /\ Before(classes, expanded[g], i, h)
  <2>1. Awaits(ty, refs, classes, expanded, h)
    BY <1>1, <1>3, <1>5 DEF Progress, IsExpanded
  <2>2. PICK g \in Generic :
          /\ refs[h].name = g /\ refs[h].target = GenericType(g)
          /\ Len(refs[h].args) = Len(Definition[g].params)
          /\ \E i \in DOMAIN expanded[g] :
               /\ classes[expanded[g][i]].args = refs[h].args \/ Match(ty, classes, expanded[g][i], refs[h].args)
               /\ Before(classes, expanded[g], i, h)
    BY <2>1 DEF Awaits
  <2>3. PICK i \in DOMAIN expanded[g] :
          /\ classes[expanded[g][i]].args = refs[h].args \/ Match(ty, classes, expanded[g][i], refs[h].args)
          /\ Before(classes, expanded[g], i, h)
    BY <2>2
  <2>4. ASSUME NEW k \in DOMAIN refs[h].args
        PROVE  ty[refs[h].args[k]].is # "generic"
    <3>1. RefFits(refs, h, line, Len(classes))
      BY <1>2, <1>3, ReferencesType
    <3>2. PICK a : a = refs[h].args[k]
      OBVIOUS
    <3>3. a \in 1 .. h - 1 /\ refs[a].line = line
      BY <1>3, <3>1, <3>2 DEF RefFits
    <3>4. a \in DOMAIN refs /\ a < h
      BY <1>2, <1>3, <3>3
    <3>5. Done(ty, refs, classes, expanded, a)
      BY <1>4, <3>3, <3>4
    <3>. QED  BY <3>2, <3>5 DEF Done
  <2>5. Match(ty, classes, expanded[g][i], refs[h].args)
    <3>1. CASE classes[expanded[g][i]].args = refs[h].args
      BY <2>4, <3>1 DEF Match, Same
    <3>2. CASE Match(ty, classes, expanded[g][i], refs[h].args)
      BY <3>2
    <3>. QED  BY <2>3, <3>1, <3>2
  <2>. QED  BY <2>2, <2>3, <2>5
<1>. QED  BY <1>4, <1>5

\* What the model asks of the lists of classes, in terms of the types of references.
LEMMA MatchesAre ==
  ASSUME NEW g, NEW args
  PROVE  Matches(g, args) = {i \in DOMAIN expanded[g] : Match(TypesOf(refs), classes, expanded[g][i], args)}
BY ActualIs DEF Matches, ArgsMatch, SameType, Match, Same

\* The classes up to the one that is found were made from references before it.
LEMMA FoundIsBefore ==
  ASSUME GenInv, pass = "convert", todo # <<>>, errorCount = 0, NEW h, h = Head(todo),
         NEW g \in Generic, refs[h].target = GenericType(g), refs[h].args # <<>>,
         NEW i \in DOMAIN expanded[g],
         \A j \in DOMAIN expanded[g] : Match(TypesOf(refs), classes, expanded[g][j], refs[h].args) => i <= j
  PROVE  Before(classes, expanded[g], i, h)
<1>1. Heap(refs, classes, expanded, appended, line) /\ Walks(todo, pass, refs, line)
  BY DEF GenInv
<1>2. References(refs, line, Len(classes)) /\ DOMAIN refs = 1 .. Len(refs) /\ Len(refs) \in Nat /\ line \in Nat
  BY InvFacts
<1>3. h \in DOMAIN refs /\ refs[h].line = line
  BY <1>1, WalkOn
<1>4. /\ Len(expanded[g]) \in Nat /\ DOMAIN expanded[g] = 1 .. Len(expanded[g])
      /\ \A j \in DOMAIN expanded[g] : expanded[g][j] \in DOMAIN classes
  BY <1>1, ListType
<1>5. CASE refs[h].in = 0
  <2>1. PICK f \in Generic : /\ refs[h].target = GenericType(f)
                             /\ \E j \in DOMAIN expanded[f] :
                                  /\ Match(TypesOf(refs), classes, expanded[f][j], refs[h].args)
                                  /\ Before(classes, expanded[f], j, h)
    BY <1>5, AwaitedMatches
  <2>2. f = g
    BY <2>1 DEF GenericType
  <2>3. PICK j \in DOMAIN expanded[g] : /\ Match(TypesOf(refs), classes, expanded[g][j], refs[h].args)
                                        /\ Before(classes, expanded[g], j, h)
    BY <2>1, <2>2
  <2>4. i <= j
    BY <2>3
  <2>5. \A x \in 1 .. i : x \in 1 .. j
    BY <1>4, <2>4
  <2>. QED  BY <2>3, <2>5 DEF Before
<1>6. CASE refs[h].in # 0
  <2>. SUFFICES ASSUME NEW j \in 1 .. i, NEW k \in DOMAIN classes[expanded[g][j]].args
                PROVE  classes[expanded[g][j]].args[k] < h
    BY DEF Before
  <2>1. PICK a : a = classes[expanded[g][j]].args[k]
    OBVIOUS
  <2>2. expanded[g][j] \in DOMAIN classes
    BY <1>4
  <2>3. ClassFits(classes, expanded[g][j], refs, line)
    BY <1>1, <2>2 DEF Heap
  <2>4. a \in DOMAIN refs /\ refs[a].in = 0 /\ refs[a].line \in 1 .. line
    BY <2>1, <2>3 DEF ClassFits
  <2>5. InOrder(refs)
    BY <1>2 DEF References
  <2>6. ~(h < a)
    <3>1. h < a => refs[h].line <= refs[a].line /\ (refs[h].line = refs[a].line => refs[a].in # 0)
      BY <1>3, <1>6, <2>4, <2>5 DEF InOrder
    <3>2. refs[h].line <= refs[a].line => refs[a].line = line
      BY <1>2, <1>3, <2>4
    <3>. QED  BY <1>3, <2>4, <3>1, <3>2
  <2>7. a # h
    BY <1>6, <2>4
  <2>8. a \in Nat /\ h \in Nat
    BY <1>2, <1>3, <2>4
  <2>. QED  BY <2>1, <2>6, <2>7, <2>8
<1>. QED  BY <1>5, <1>6

\* The reference is pointed at the first class with its arguments.
LEMMA ConvertStep ==
  ASSUME GenInv, Convert
  PROVE  GenInv'
<1>. DEFINE ty == TypesOf(refs)
<1>1. PICK h : h = Head(todo)
  OBVIOUS
<1>2. PICK args : args = refs[h].args
  OBVIOUS
<1>3. PICK g \in Generic : /\ ToConvert(g) /\ RightNumber(g) /\ Matches(g, Ref.args) # {}
                           /\ refs' = [refs EXCEPT ![Here].target = Completed(Found(g, Ref.args))]
  BY DEF Convert
<1>4. PICK i : i = First(Matches(g, args))
  OBVIOUS
<1>5. PICK t : t = Completed(expanded[g][i])
  OBVIOUS
<1>6. /\ pass = "convert" /\ todo # <<>> /\ todo' = Tail(todo) /\ ty[h] = GenericType(g)
      /\ Len(args) = Len(Definition[g].params) /\ Matches(g, args) # {}
      /\ refs' = [refs EXCEPT ![h].target = t]
  BY <1>1, <1>2, <1>3, <1>4, <1>5, ActualIs
  DEF ToConvert, Converting, Visiting, RightNumber, Here, Ref, Found
<1>7. UNCHANGED <<line, source, verdicts, pass, classes, expanded, appended, errors>>
  BY DEF Convert
<1>8. /\ Session /\ Heap(refs, classes, expanded, appended, line) /\ Walks(todo, pass, refs, line)
  BY DEF GenInv
<1>9. /\ References(refs, line, Len(classes)) /\ refs \in Seq(RefType) /\ line \in Nat
      /\ DOMAIN refs = 1 .. Len(refs) /\ Len(refs) \in Nat
      /\ DOMAIN classes = 1 .. Len(classes) /\ Len(classes) \in Nat
  BY InvFacts
<1>10. /\ Len(expanded[g]) \in Nat /\ DOMAIN expanded[g] = 1 .. Len(expanded[g])
       /\ \A j \in DOMAIN expanded[g] : /\ expanded[g][j] \in DOMAIN classes
                                        /\ Len(classes[expanded[g][j]].args) = Len(Definition[g].params)
                                        /\ classes[expanded[g][j]].args \in Seq(Number)
  BY <1>8, ListType
<1>11. /\ i \in DOMAIN expanded[g] /\ Match(ty, classes, expanded[g][i], args)
       /\ \A j \in DOMAIN expanded[g] : Match(ty, classes, expanded[g][j], args) => i <= j
  <2>1. PICK M : M = Matches(g, args)
    OBVIOUS
  <2>2. M = {j \in DOMAIN expanded[g] : Match(ty, classes, expanded[g][j], args)}
    BY <2>1, MatchesAre
  <2>3. M \subseteq Nat /\ M # {}
    BY <1>6, <1>10, <2>1, <2>2
  <2>4. i \in M /\ \A j \in M : i <= j
    BY <1>4, <2>1, <2>3, FirstIs
  <2>. QED  BY <2>2, <2>4
<1>12. expanded[g][i] \in DOMAIN classes
  BY <1>10, <1>11
<1>13. /\ t \in TargetType /\ t.is = "completed" /\ t.class = expanded[g][i]
       /\ t.is # "alias" /\ t.is # "generic"
  BY <1>5, <1>9, <1>12 DEF Completed, TargetType
<1>14. /\ h \in DOMAIN refs /\ refs[h].line = line /\ h \in Nat
       /\ \A r : IsAhead(todo, r) <=> r = h \/ IsAhead(todo', r)
       /\ Walks(todo', pass, refs, line)
       /\ ~IsAhead(todo', h)
       /\ \A r : IsAhead(todo, r) => r = h \/ r > h
       /\ IsPassed(todo', h)
  BY <1>1, <1>6, <1>8, WalkOn
<1>15. ASSUME errorCount = 0
       PROVE  Progress("convert", todo', refs', classes, expanded, line)
  <2>1. PICK rs2 : rs2 = refs'
    OBVIOUS
  <2>. DEFINE ty2 == TypesOf(rs2)
  <2>2. Retargets(refs, rs2, h, t)
    BY <1>6, <1>9, <1>13, <1>14, <2>1, RetargetsIs
  <2>3. /\ Heap(rs2, classes, expanded, appended, line)
        /\ Grows(refs, classes, expanded, rs2, classes, expanded)
    BY <1>8, <1>9, <1>12, <1>13, <1>14, <2>2, HeapRetargeted
  <2>4. References(rs2, line, Len(classes))
    BY <2>3 DEF Heap
  <2>5. /\ DOMAIN rs2 = DOMAIN refs /\ Len(rs2) = Len(refs)
        /\ \A r \in DOMAIN refs : /\ rs2[r].target = IF r = h THEN t ELSE refs[r].target
                                  /\ rs2[r].line = refs[r].line /\ rs2[r].in = refs[r].in
                                  /\ rs2[r].args = refs[r].args /\ rs2[r].name = refs[r].name
    BY <2>2 DEF Retargets, KeepsReferences
  <2>6. Progress("convert", todo, refs, classes, expanded, line)
    BY <1>6, <1>15 DEF GenInv
  <2>7. \A q \in DOMAIN refs : refs[q].line = line /\ q < h => Done(ty, refs, classes, expanded, q)
    BY <1>1, <1>6, <1>15, AwaitedMatches
  <2>8. refs[h].target = GenericType(g)
    <3>1. PICK b : Root(refs, h, b)
      BY <1>9, <1>14, RootExists
    <3>2. CASE b = h
      BY <1>6, <3>1, <3>2 DEF Root
    <3>3. CASE b # h
      <4>1. /\ b \in DOMAIN refs /\ refs[b].line = line /\ b \in 1 .. h /\ ty[b] = ty[h]
        BY <1>14, <3>1 DEF Root
      <4>2. b < h
        BY <1>14, <3>3, <4>1
      <4>3. ty[b].is # "generic"
        BY <2>7, <4>1, <4>2 DEF Done
      <4>. QED  BY <1>6, <4>1, <4>3 DEF GenericType
    <3>. QED  BY <3>2, <3>3
  <2>9. args # <<>>
    <3>1. Len(args) # 0
      <4>1. Definition[g].params \in Seq(STRING) \ {<<>>}
        BY DefinitionAssumption
      <4>. QED  BY <1>6, <4>1, EmptySeq
    <3>. QED  BY <3>1
  <2>10. Before(classes, expanded[g], i, h)
    BY <1>1, <1>2, <1>6, <1>11, <1>15, <2>8, <2>9, FoundIsBefore
  <2>11. \A q \in 1 .. h - 1 : ty2[q] = ty[q]
    <3>1. PICK m \in 0 .. Len(refs) : m = h - 1
      BY <1>9, <1>14
    <3>2. \A q \in 1 .. m : q \in DOMAIN refs /\ q # h
      BY <1>9, <1>14, <3>1
    <3>3. \A q \in 1 .. m : rs2[q].target = refs[q].target
      BY <2>5, <3>2
    <3>4. Len(refs) <= Len(rs2)
      BY <1>9, <2>5
    <3>5. \A q \in 1 .. m : ty2[q] = ty[q]
      BY <1>9, <2>4, <3>3, <3>4, PrefixAgrees
    <3>. QED  BY <3>1, <3>5
  <2>12. ty2[h] = t
    <3>1. AreTypes(rs2, ty2, Len(rs2))
      BY <2>4, TypesAre
    <3>2. h \in 1 .. Len(rs2) /\ rs2[h].target = t
      BY <1>9, <1>14, <2>5
    <3>. QED  BY <1>13, <3>1, <3>2 DEF AreTypes
  <2>13. \A q \in DOMAIN refs : ty[q].is # "generic" => ty2[q] = ty[q]
    <3>. DEFINE K == {q \in DOMAIN refs : ty[q].is # "generic"}
    <3>1. AreTypes(refs, ty, Len(refs)) /\ \A q \in DOMAIN refs : RefFits(refs, q, line, Len(classes))
      BY <1>9, TypesAre, ReferencesType
    <3>2. ASSUME NEW q \in K
          PROVE  /\ rs2[q].target = refs[q].target
                 /\ refs[q].target.is = "alias" => refs[q].target.ref \in K
      <4>1. q # h
        BY <1>6 DEF GenericType
      <4>2. refs[q].target.is = "alias" => refs[q].target.ref \in 1 .. q - 1 /\ ty[q] = ty[refs[q].target.ref]
        BY <1>9, <3>1 DEF AreTypes, RefFits
      <4>3. \A x \in 1 .. q - 1 : x \in DOMAIN refs
        BY <1>9
      <4>. HIDE DEF ty
      <4>. QED  BY <2>5, <4>1, <4>2, <4>3
    <3>3. Agree(refs, rs2, K)
      BY <2>5, <3>2 DEF Agree
    <3>. HIDE DEF K
    <3>4. \A q \in K : ty2[q] = ty[q]
      BY <1>9, <2>4, <3>3, TypesAgree
    <3>. QED  BY <3>4 DEF K
  <2>14. refs[h].name = g /\ args \in Seq(Number) /\ \A k \in DOMAIN args : args[k] \in 1 .. h - 1
    <3>1. RefFits(refs, h, line, Len(classes)) /\ refs[h].args \in Seq(Number)
      BY <1>9, <1>14, ReferencesType
    <3>. QED  BY <1>2, <2>8, <3>1 DEF RefFits, GenericType
  <2>. HIDE DEF ty, ty2
  <2>15. \A j \in 1 .. i : Match(ty2, classes, expanded[g][j], args) <=> Match(ty, classes, expanded[g][j], args)
    <3>1. ASSUME NEW j \in 1 .. i, NEW k \in DOMAIN args
          PROVE  /\ ty2[classes[expanded[g][j]].args[k]] = ty[classes[expanded[g][j]].args[k]]
                 /\ ty2[args[k]] = ty[args[k]]
      <4>1. PICK a : a = classes[expanded[g][j]].args
        OBVIOUS
      <4>2. j \in DOMAIN expanded[g]
        BY <1>10, <1>11
      <4>3. a \in Seq(Number) /\ Len(a) = Len(args)
        BY <1>6, <1>10, <4>1, <4>2
      <4>4. k \in DOMAIN a /\ a[k] \in Number
        BY <2>14, <4>3
      <4>5. a[k] < h
        BY <2>10, <4>1, <4>4 DEF Before
      <4>6. a[k] \in 1 .. h - 1
        BY <1>14, <4>4, <4>5 DEF Number
      <4>. QED  BY <2>11, <2>14, <4>1, <4>6
    <3>. QED  BY <3>1, MatchKept
  <2>16. Chosen(ty2, rs2, classes, expanded, h)
    <3>1. rs2[h].args = args /\ rs2[h].name = g
      BY <1>2, <1>14, <2>5, <2>14
    <3>2. i \in 1 .. i /\ \A j \in 1 .. i - 1 : j \in 1 .. i /\ ~(i <= j) /\ j \in DOMAIN expanded[g]
      BY <1>10, <1>11
    <3>3. Match(ty2, classes, expanded[g][i], args)
      BY <1>11, <2>15, <3>2
    <3>4. \A j \in 1 .. i - 1 : ~Match(ty2, classes, expanded[g][j], args)
      BY <1>11, <2>15, <3>2
    <3>. QED  BY <1>5, <1>6, <1>11, <2>10, <2>12, <3>1, <3>3, <3>4 DEF Chosen
  <2>17. Done(ty2, rs2, classes, expanded, h)
    BY <1>13, <2>12, <2>16 DEF Done
  <2>18. ASSUME NEW r \in DOMAIN refs, refs[r].line = line, ~IsAhead(todo', r)
         PROVE  Done(ty2, rs2, classes, expanded, r)
    <3>1. CASE r = h
      BY <2>17, <3>1
    <3>2. CASE r # h
      <4>1. ~IsAhead(todo, r)
        BY <1>14, <2>18, <3>2
      <4>2. Done(ty, refs, classes, expanded, r)
        BY <2>6, <2>18, <4>1 DEF Progress, ty
      <4>3. r < h
        <5>1. IsPassed(todo, r)
          BY <1>6, <1>8, <2>18, <4>1 DEF Walks
        <5>2. h = todo[1] /\ 1 \in DOMAIN todo
          <6>1. todo \in Seq(Number)
            BY <1>8 DEF Walks
          <6>. QED  BY <1>1, <1>6, <6>1, EmptySeq
        <5>. QED  BY <5>1, <5>2 DEF IsPassed
      <4>4. \A q \in 1 .. r : ty2[q] = ty[q]
        <5>1. \A q \in 1 .. r : q \in 1 .. h - 1
          BY <1>9, <1>14, <4>3
        <5>. QED  BY <2>11, <5>1
      <4>. QED  BY <1>8, <2>3, <4>2, <4>4, DoneKept
    <3>. QED  BY <3>1, <3>2
  <2>19. ASSUME NEW r \in DOMAIN refs, refs[r].line = line, refs[r].in = 0, refs[r].args # <<>>, IsAhead(todo', r)
         PROVE  Awaits(ty2, rs2, classes, expanded, r)
    <3>1. r # h /\ IsAhead(todo, r)
      BY <1>14, <2>19
    <3>2. Awaits(ty, refs, classes, expanded, r)
      BY <2>6, <2>19, <3>1 DEF Progress, IsExpanded, ty
    <3>3. rs2[r].target = refs[r].target
      BY <2>5, <3>1
    <3>. QED  BY <1>8, <2>3, <2>13, <3>2, <3>3, AwaitsKept
  <2>20. Resolving("convert", todo', rs2, line)
    <3>1. Resolving("convert", todo, refs, line)
      BY <2>6 DEF Progress
    <3>. QED  BY <1>13, <2>5, <3>1 DEF Resolving
  <2>21. Progress("convert", todo', rs2, classes, expanded, line)
    BY <2>5, <2>18, <2>19, <2>20 DEF Progress, IsExpanded, ty2
  <2>. QED  BY <2>1, <2>21
<1>. QED  BY <1>1, <1>6, <1>7, <1>12, <1>13, <1>15, RetargetStep

\* A class is appended to the lists and to the line.
NewClass(g, args, body, ln) ==
  [of |-> g, args |-> args, body |-> body, line |-> ln, prepared |-> FALSE, layout |-> Unmapped]

\* What MakeClass puts into the heap.
Makes(g, h, copy, cs2, ex2, ap2) ==
  LET n == Len(classes)
  IN  /\ DOMAIN cs2 = 1 .. n + 1 /\ Len(cs2) = n + 1 /\ cs2 \in Seq(ClassType)
      /\ \A c \in DOMAIN classes : c \in DOMAIN cs2 /\ cs2[c] = classes[c]
      /\ \A c \in DOMAIN cs2 : c \in DOMAIN classes \/ c = n + 1
      /\ n + 1 \in DOMAIN cs2
      /\ cs2[n + 1].of = g /\ cs2[n + 1].args = refs[h].args /\ cs2[n + 1].line = line
      /\ ~cs2[n + 1].prepared /\ cs2[n + 1].layout = Unmapped
      /\ DOMAIN cs2[n + 1].body = DOMAIN copy
      /\ \A i \in DOMAIN copy : cs2[n + 1].body[i] = i + Len(refs)
      /\ ex2 \in [Generic -> Seq(Number)]
      /\ \A f \in Generic \ {g} : ex2[f] = expanded[f]
      /\ DOMAIN ex2[g] = 1 .. Len(expanded[g]) + 1
      /\ \A i \in 1 .. Len(expanded[g]) : ex2[g][i] = expanded[g][i]
      /\ ex2[g][Len(expanded[g]) + 1] = n + 1
      /\ ap2 \in Seq(Number) /\ DOMAIN ap2 = 1 .. Len(appended) + 1
      /\ \A i \in 1 .. Len(appended) : ap2[i] = appended[i]
      /\ ap2[Len(appended) + 1] = n + 1

\* Appending the class does so.
LEMMA MakesIs ==
  ASSUME GenInv, NEW g \in Generic, NEW h \in DOMAIN refs, NEW copy, NEW body \in Seq(Number),
         DOMAIN body = DOMAIN copy, \A i \in DOMAIN copy : body[i] = i + Len(refs),
         NEW cs2, cs2 = Append(classes, NewClass(g, refs[h].args, body, line)),
         NEW ex2, ex2 = [expanded EXCEPT ![g] = Append(@, Len(classes) + 1)],
         NEW ap2, ap2 = Append(appended, Len(classes) + 1)
  PROVE  Makes(g, h, copy, cs2, ex2, ap2)
<1>1. /\ Heap(refs, classes, expanded, appended, line)
  BY DEF GenInv
<1>2. /\ References(refs, line, Len(classes)) /\ classes \in Seq(ClassType) /\ line \in Nat
      /\ DOMAIN classes = 1 .. Len(classes) /\ Len(classes) \in Nat
  BY InvFacts
<1>3. PICK n \in Nat : n = Len(classes)
  BY <1>2
<1>4. /\ expanded \in [Generic -> Seq(Number)] /\ expanded[g] \in Seq(Number) /\ appended \in Seq(Number)
  BY <1>1 DEF Heap, Lists, Appended
<1>5. n + 1 \in Number
  BY DEF Number
<1>6. PICK nc : nc = NewClass(g, refs[h].args, body, line)
  OBVIOUS
<1>7. refs[h].args \in Seq(Number)
  BY <1>2, ReferencesType
<1>8. /\ nc \in ClassType /\ nc.of = g /\ nc.args = refs[h].args /\ nc.line = line /\ nc.body = body
      /\ ~nc.prepared /\ nc.layout = Unmapped
  BY <1>2, <1>6, <1>7 DEF NewClass, ClassType, Unmapped
<1>9. /\ cs2 \in Seq(ClassType) /\ Len(cs2) = n + 1 /\ \A c \in 1 .. n : cs2[c] = classes[c]
      /\ cs2[n + 1] = nc
  <2>1. cs2 = Append(classes, nc)
    BY <1>6
  <2>. QED  BY <1>2, <1>3, <1>8, <2>1, SeqPush
<1>10. \A m \in Nat : /\ m + 1 \in 1 .. m + 1
                      /\ \A c \in 1 .. m : c \in 1 .. m + 1
                      /\ \A c \in 1 .. m + 1 : c \in 1 .. m \/ c = m + 1
  OBVIOUS
<1>11. DOMAIN cs2 = 1 .. n + 1
  BY <1>9, LenProperties
<1>12. /\ DOMAIN cs2 = 1 .. n + 1 /\ Len(cs2) = n + 1 /\ cs2 \in Seq(ClassType)
       /\ \A c \in DOMAIN classes : c \in DOMAIN cs2 /\ cs2[c] = classes[c]
       /\ \A c \in DOMAIN cs2 : c \in DOMAIN classes \/ c = n + 1
       /\ n + 1 \in DOMAIN cs2
  BY <1>2, <1>3, <1>9, <1>10, <1>11
<1>13. PICK l : l = Append(expanded[g], n + 1)
  OBVIOUS
<1>14. /\ l \in Seq(Number) /\ Len(l) = Len(expanded[g]) + 1
       /\ \A i \in 1 .. Len(expanded[g]) : l[i] = expanded[g][i]
       /\ l[Len(l)] = n + 1
  BY <1>4, <1>5, <1>13, SeqPush
<1>15. DOMAIN l = 1 .. Len(expanded[g]) + 1 /\ l[Len(expanded[g]) + 1] = n + 1
  BY <1>14, LenProperties
<1>16. /\ ex2 \in [Generic -> Seq(Number)] /\ ex2[g] = l /\ \A f \in Generic \ {g} : ex2[f] = expanded[f]
  BY <1>3, <1>4, <1>13, <1>14
<1>17. /\ ap2 \in Seq(Number) /\ Len(ap2) = Len(appended) + 1
       /\ \A i \in 1 .. Len(appended) : ap2[i] = appended[i]
       /\ ap2[Len(ap2)] = n + 1
  BY <1>3, <1>4, <1>5, SeqPush
<1>18. DOMAIN ap2 = 1 .. Len(appended) + 1 /\ ap2[Len(appended) + 1] = n + 1
  BY <1>17, LenProperties
<1>. QED  BY <1>3, <1>8, <1>9, <1>12, <1>14, <1>15, <1>16, <1>17, <1>18 DEF Makes

\* The heap that a class and the references in it are added to is one still.
LEMMA HeapExtended ==
  ASSUME GenInv, pass # "prompt", NEW g \in Generic, NEW h \in DOMAIN refs, refs[h].line = line, refs[h].in = 0,
         Len(refs[h].args) = Len(Definition[g].params),
         NEW copy, IsCopy(copy, refs, line, Len(classes) + 1, refs[h].args),
         NEW rs2, Added(refs, rs2, copy),
         NEW cs2, NEW ex2, NEW ap2, Makes(g, h, copy, cs2, ex2, ap2)
  PROVE  Heap(rs2, cs2, ex2, ap2, line) /\ Grows(refs, classes, expanded, rs2, cs2, ex2)
<1>1. Heap(refs, classes, expanded, appended, line)
  BY DEF GenInv
<1>2. /\ References(refs, line, Len(classes)) /\ refs \in Seq(RefType) /\ classes \in Seq(ClassType)
      /\ line \in Nat /\ line >= 1
      /\ DOMAIN refs = 1 .. Len(refs) /\ Len(refs) \in Nat
      /\ DOMAIN classes = 1 .. Len(classes) /\ Len(classes) \in Nat
  BY InvFacts
<1>3. PICK n \in Nat : n = Len(classes)
  BY <1>2
<1>4. /\ RefFits(refs, h, line, n) /\ refs[h].args \in Seq(Number) /\ h \in Nat
  BY <1>2, <1>3, ReferencesType
<1>5. \A k \in DOMAIN refs[h].args : /\ refs[h].args[k] \in DOMAIN refs
                                     /\ refs[refs[h].args[k]].line = line
                                     /\ refs[refs[h].args[k]].in = 0
  <2>1. \A q \in 1 .. h - 1 : q \in DOMAIN refs
    BY <1>2, <1>4
  <2>. QED  BY <1>4, <2>1 DEF RefFits
<1>6. /\ DOMAIN cs2 = 1 .. n + 1 /\ Len(cs2) = n + 1 /\ cs2 \in Seq(ClassType)
      /\ \A c \in DOMAIN classes : c \in DOMAIN cs2 /\ cs2[c] = classes[c]
      /\ \A c \in DOMAIN cs2 : c \in DOMAIN classes \/ c = n + 1
      /\ n + 1 \in DOMAIN cs2
      /\ cs2[n + 1].of = g /\ cs2[n + 1].args = refs[h].args /\ cs2[n + 1].line = line
      /\ DOMAIN cs2[n + 1].body = DOMAIN copy
      /\ \A i \in DOMAIN copy : cs2[n + 1].body[i] = i + Len(refs)
  BY <1>3 DEF Makes
<1>7. /\ ex2 \in [Generic -> Seq(Number)]
      /\ \A f \in Generic \ {g} : ex2[f] = expanded[f]
      /\ DOMAIN ex2[g] = 1 .. Len(expanded[g]) + 1
      /\ \A i \in 1 .. Len(expanded[g]) : ex2[g][i] = expanded[g][i]
      /\ ex2[g][Len(expanded[g]) + 1] = n + 1
  BY <1>3 DEF Makes
<1>8. /\ ap2 \in Seq(Number) /\ DOMAIN ap2 = 1 .. Len(appended) + 1
      /\ \A i \in 1 .. Len(appended) : ap2[i] = appended[i]
      /\ ap2[Len(appended) + 1] = n + 1
  BY <1>3 DEF Makes
<1>9. References(rs2, line, Len(cs2))
  <2>1. PICK of, in, args : of \in Nat \ {0} /\ in \in Nat /\ of = line /\ in = n + 1 /\ args = refs[h].args
    BY <1>2
  <2>2. /\ IsCopy(copy, refs, of, in, args) /\ line <= of /\ n <= in /\ in <= in
        /\ line \in Nat /\ of \in Nat \ {0} /\ in \in Nat
    BY <1>2, <1>3, <2>1
  <2>6. in = 0 => DOMAIN args = {} /\ line < of
    BY <1>3, <2>1
  <2>3. \A k \in DOMAIN args : args[k] \in DOMAIN refs /\ refs[args[k]].line = of /\ refs[args[k]].in = 0
    BY <1>5, <2>1
  <2>4. References(refs, line, n)
    BY <1>2, <1>3
  <2>5. References(rs2, of, in)
    BY <2>2, <2>3, <2>4, <2>6, CopyAdded
  <2>. QED  BY <1>6, <2>1, <2>5
<1>10. /\ rs2 \in Seq(RefType) /\ Len(refs) <= Len(rs2)
       /\ \A r \in DOMAIN refs : r \in DOMAIN rs2 /\ rs2[r] = refs[r]
       /\ \A i \in DOMAIN copy : Len(refs) + i \in DOMAIN rs2 /\ rs2[Len(refs) + i] = copy[i]
       /\ \A r \in DOMAIN rs2 : r \in DOMAIN refs \/ (r > Len(refs) /\ r - Len(refs) \in DOMAIN copy
                                                      /\ rs2[r] = copy[r - Len(refs)])
  BY DEF Added
<1>11. /\ \A i \in DOMAIN copy : copy[i].line = line /\ copy[i].in = n + 1
       /\ DOMAIN copy = 1 .. Len(copy) /\ Len(copy) \in Nat
  BY <1>3 DEF IsCopy
<1>12. KeepsReferences(refs, rs2)
  BY <1>10 DEF KeepsReferences
<1>13. KeepsClasses(classes, cs2)
  BY <1>6 DEF KeepsClasses
<1>14. /\ \A f \in Generic : expanded[f] \in Seq(Number) /\ DOMAIN expanded[f] = 1 .. Len(expanded[f])
       /\ \A f \in Generic : \A i \in DOMAIN expanded[f] :
            /\ expanded[f][i] \in DOMAIN classes /\ classes[expanded[f][i]].of = f
            /\ \A j \in 1 .. i - 1 : expanded[f][j] < expanded[f][i]
       /\ Len(expanded[g]) \in Nat
  <2>1. \A f \in Generic : expanded[f] \in Seq(Number)
    BY <1>1 DEF Heap, Lists
  <2>2. \A s \in Seq(Number) : DOMAIN s = 1 .. Len(s) /\ Len(s) \in Nat
    OBVIOUS
  <2>. QED  BY <1>1, <2>1, <2>2 DEF Heap, Lists
<1>15. \A m \in Nat : /\ \A i \in 1 .. m : i \in 1 .. m + 1 /\ i # m + 1
                      /\ \A i \in 1 .. m + 1 : i \in 1 .. m \/ i = m + 1
                      /\ \A i \in 1 .. (m + 1) - 1 : i \in 1 .. m
                      /\ m + 1 \in 1 .. m + 1 /\ m + 1 \in Nat
  OBVIOUS
<1>16. KeepsLists(expanded, ex2)
  <2>1. ASSUME NEW f \in Generic, NEW i \in DOMAIN expanded[f]
        PROVE  i \in DOMAIN ex2[f] /\ ex2[f][i] = expanded[f][i]
    <3>1. CASE f = g
      <4>1. i \in 1 .. Len(expanded[g])
        BY <1>14, <2>1, <3>1
      <4>. QED  BY <1>7, <1>14, <1>15, <3>1, <4>1
    <3>2. CASE f # g
      <4>1. ex2[f] = expanded[f]
        BY <1>7, <3>2
      <4>. QED  BY <4>1
    <3>. QED  BY <3>1, <3>2
  <2>. QED  BY <2>1 DEF KeepsLists
<1>17. Lists(ex2, cs2)
  <2>1. ASSUME NEW f \in Generic, NEW i \in DOMAIN ex2[f]
        PROVE  /\ ex2[f][i] \in DOMAIN cs2 /\ cs2[ex2[f][i]].of = f
               /\ \A j \in 1 .. i - 1 : ex2[f][j] < ex2[f][i]
    <3>1. CASE f # g
      <4>1. ex2[f] = expanded[f]
        BY <1>7, <3>1
      <4>2. /\ expanded[f][i] \in DOMAIN classes /\ classes[expanded[f][i]].of = f
            /\ \A j \in 1 .. i - 1 : expanded[f][j] < expanded[f][i]
        BY <1>14, <4>1
      <4>. QED  BY <1>6, <4>1, <4>2
    <3>2. CASE f = g /\ i \in 1 .. Len(expanded[g])
      <4>1. ex2[f][i] = expanded[g][i] /\ expanded[g][i] \in DOMAIN classes /\ classes[expanded[g][i]].of = g
        BY <1>7, <1>14, <3>2
      <4>2. \A j \in 1 .. i - 1 : ex2[f][j] = expanded[g][j]
        <5>1. \A j \in 1 .. i - 1 : j \in 1 .. Len(expanded[g])
          BY <1>14, <3>2
        <5>. QED  BY <1>7, <3>2, <5>1
      <4>3. \A j \in 1 .. i - 1 : expanded[g][j] < expanded[g][i]
        BY <1>14, <3>2
      <4>4. ex2[f][i] \in DOMAIN cs2 /\ cs2[ex2[f][i]].of = f
        BY <1>6, <3>2, <4>1
      <4>. QED  BY <4>1, <4>2, <4>3, <4>4
    <3>3. CASE f = g /\ i = Len(expanded[g]) + 1
      <4>1. ex2[f][i] = n + 1
        BY <1>7, <3>3
      <4>2. \A j \in 1 .. i - 1 : ex2[f][j] \in DOMAIN classes
        BY <1>7, <1>14, <1>15, <3>3
      <4>3. \A j \in 1 .. i - 1 : ex2[f][j] < n + 1
        BY <1>2, <1>3, <4>2
      <4>. QED  BY <1>6, <3>3, <4>1, <4>3
    <3>. QED  BY <1>7, <1>14, <1>15, <3>1, <3>2, <3>3
  <2>. QED  BY <1>7, <2>1 DEF Lists
<1>18. Appended(ap2, cs2, line)
  <2>1. /\ appended \in Seq(Number) /\ \A i \in DOMAIN appended : appended[i] \in DOMAIN classes
        /\ \A c \in DOMAIN classes : classes[c].line = line <=> \E i \in DOMAIN appended : appended[i] = c
    BY <1>1 DEF Heap, Appended
  <2>2. DOMAIN appended = 1 .. Len(appended) /\ Len(appended) \in Nat
    BY <2>1
  <2>3. /\ \A i \in DOMAIN appended : i \in DOMAIN ap2 /\ ap2[i] = appended[i]
        /\ \A i \in DOMAIN ap2 : i \in DOMAIN appended \/ i = Len(appended) + 1
        /\ Len(appended) + 1 \in DOMAIN ap2
    BY <1>8, <1>15, <2>2
  <2>4. \A i \in DOMAIN ap2 : ap2[i] \in DOMAIN cs2
    BY <1>6, <1>8, <2>1, <2>3
  <2>5. n + 1 \notin DOMAIN classes
    BY <1>2, <1>3
  <2>6. ASSUME NEW c \in DOMAIN cs2
        PROVE  cs2[c].line = line <=> \E i \in DOMAIN ap2 : ap2[i] = c
    <3>1. CASE c = n + 1
      BY <1>6, <1>8, <2>3, <3>1
    <3>2. CASE c # n + 1
      <4>1. c \in DOMAIN classes /\ cs2[c] = classes[c]
        BY <1>6, <3>2
      <4>. QED  BY <1>8, <2>1, <2>3, <3>2, <4>1
    <3>. QED  BY <3>1, <3>2
  <2>. QED  BY <1>8, <2>4, <2>6 DEF Appended
<1>19. ASSUME NEW c \in DOMAIN classes
       PROVE  ClassFits(cs2, c, rs2, line)
  <2>1. cs2[c] = classes[c]
    BY <1>6
  <2>5. PICK ln \in Nat, ln2 \in Nat : ln = line /\ ln2 = line
    BY <1>2
  <2>6. ClassFits(classes, c, refs, ln) /\ ln <= ln2
    BY <1>1, <2>5 DEF Heap
  <2>2. \A r \in DOMAIN rs2 : r \in DOMAIN refs \/ rs2[r].in # c
    BY <1>2, <1>3, <1>10, <1>11
  <2>3. line \in Nat /\ refs \in Seq(RefType) /\ rs2 \in Seq(RefType)
    BY <1>2, <1>10
  <2>4. ClassFits(classes, c, rs2, ln2)
    BY <1>12, <2>2, <2>3, <2>6, ClassFitsKept
  <2>. QED  BY <2>1, <2>4, <2>5 DEF ClassFits
<1>20. ClassFits(cs2, n + 1, rs2, line)
  <2>1. cs2[n + 1].line \in 1 .. line /\ Len(cs2[n + 1].args) = Len(Definition[cs2[n + 1].of].params)
    BY <1>2, <1>6
  <2>2. \A k \in DOMAIN cs2[n + 1].args : /\ cs2[n + 1].args[k] \in DOMAIN rs2
                                          /\ rs2[cs2[n + 1].args[k]].line = cs2[n + 1].line
                                          /\ rs2[cs2[n + 1].args[k]].in = 0
    BY <1>5, <1>6, <1>10
  <2>3. \A i \in DOMAIN copy : i \in Nat /\ 1 \in DOMAIN copy /\ i + Len(refs) = Len(refs) + i
                               /\ i + Len(refs) = (1 + Len(refs)) + i - 1
    BY <1>2, <1>11
  <2>4. \A i \in DOMAIN cs2[n + 1].body : /\ cs2[n + 1].body[i] \in DOMAIN rs2
                                          /\ cs2[n + 1].body[i] = cs2[n + 1].body[1] + i - 1
    BY <1>6, <1>10, <2>3
  <2>5. ASSUME NEW r \in DOMAIN rs2
        PROVE  rs2[r].in = n + 1 <=> \E i \in DOMAIN cs2[n + 1].body : cs2[n + 1].body[i] = r
    <3>1. CASE r \in DOMAIN refs
      <4>1. rs2[r].in # n + 1
        <5>1. RefFits(refs, r, line, n) /\ rs2[r] = refs[r]
          BY <1>2, <1>3, <1>10, <3>1, ReferencesType
        <5>2. rs2[r].in \in 0 .. n
          BY <5>1 DEF RefFits
        <5>. QED  BY <5>2
      <4>2. \A i \in DOMAIN copy : i + Len(refs) # r
        BY <1>2, <1>11, <3>1
      <4>. QED  BY <1>6, <4>1, <4>2
    <3>2. CASE r \notin DOMAIN refs
      <4>1. PICK i \in DOMAIN copy : i = r - Len(refs) /\ rs2[r] = copy[i]
        BY <1>10, <3>2
      <4>2. r \in Nat
        BY <1>10
      <4>3. i + Len(refs) = r
        BY <1>2, <4>1, <4>2
      <4>4. rs2[r].in = n + 1
        BY <1>11, <4>1
      <4>. QED  BY <1>6, <4>1, <4>3, <4>4
    <3>. QED  BY <3>1, <3>2
  <2>. QED  BY <2>1, <2>2, <2>4, <2>5 DEF ClassFits
<1>21. \A c \in DOMAIN cs2 : ClassFits(cs2, c, rs2, line)
  BY <1>6, <1>19, <1>20
<1>22. Heap(rs2, cs2, ex2, ap2, line)
  BY <1>6, <1>9, <1>17, <1>18, <1>21 DEF Heap
<1>23. Grows(refs, classes, expanded, rs2, cs2, ex2)
  BY <1>12, <1>13, <1>16 DEF Grows
<1>. QED  BY <1>22, <1>23

\* A line without an error expands its references on: the new class is made
\* for the one at hand, and nothing that had a type has lost it.
LEMMA MadeProgress ==
  ASSUME GenInv, pass = "expand", errorCount = 0, todo # <<>>,
         NEW g \in Generic, NEW h, h = Head(todo), TypesOf(refs)[h] = GenericType(g),
         Len(refs[h].args) = Len(Definition[g].params),
         NEW copy, IsCopy(copy, refs, line, Len(classes) + 1, refs[h].args),
         \A i \in DOMAIN copy : copy[i].target.is # "unresolved",
         NEW rs2, Added(refs, rs2, copy),
         NEW cs2, NEW ex2, NEW ap2, Makes(g, h, copy, cs2, ex2, ap2)
  PROVE  Progress("expand", Tail(todo), rs2, cs2, ex2, line)
<1>. DEFINE ty  == TypesOf(refs)
            ty2 == TypesOf(rs2)
            td2 == Tail(todo)
<1>1. /\ Heap(refs, classes, expanded, appended, line) /\ Walks(todo, "expand", refs, line)
      /\ Progress("expand", todo, refs, classes, expanded, line)
  BY DEF GenInv
<1>2. /\ h \in DOMAIN refs /\ refs[h].line = line /\ refs[h].in = 0 /\ h \in Nat
      /\ \A r : IsAhead(todo, r) <=> r = h \/ IsAhead(td2, r)
      /\ \A r : IsPassed(todo, r) => IsPassed(td2, r)
      /\ IsPassed(td2, h)
  BY <1>1, WalkOn
<1>3. /\ References(refs, line, Len(classes)) /\ refs \in Seq(RefType) /\ line \in Nat
      /\ DOMAIN refs = 1 .. Len(refs) /\ Len(refs) \in Nat
      /\ DOMAIN classes = 1 .. Len(classes) /\ Len(classes) \in Nat
  BY InvFacts
<1>4. Heap(rs2, cs2, ex2, ap2, line) /\ Grows(refs, classes, expanded, rs2, cs2, ex2)
  BY <1>2, HeapExtended
<1>5. /\ Len(refs) <= Len(rs2)
      /\ \A r \in DOMAIN refs : r \in DOMAIN rs2 /\ rs2[r] = refs[r]
      /\ \A r \in DOMAIN rs2 : r \in DOMAIN refs \/ (r - Len(refs) \in DOMAIN copy /\ rs2[r] = copy[r - Len(refs)])
  BY DEF Added
<1>6. /\ \A i \in DOMAIN copy : copy[i].in # 0 /\ copy[i].target.is # "completed"
  BY <1>3 DEF IsCopy
<1>7. /\ \A c \in DOMAIN classes : cs2[c] = classes[c]
      /\ \A c \in DOMAIN cs2 : c \in DOMAIN classes \/ c = Len(classes) + 1
      /\ cs2[Len(classes) + 1].args = refs[h].args
      /\ DOMAIN ex2[g] = 1 .. Len(expanded[g]) + 1
      /\ ex2[g][Len(expanded[g]) + 1] = Len(classes) + 1
  BY DEF Makes
<1>8. RefFits(refs, h, line, Len(classes)) /\ refs[h].args \in Seq(Number)
  BY <1>2, <1>3, ReferencesType
<1>9. Resolving("expand", td2, rs2, line)
  <2>1. Resolving("expand", todo, refs, line)
    BY <1>1 DEF Progress
  <2>2. ASSUME NEW r \in DOMAIN rs2, rs2[r].line = line
        PROVE  rs2[r].target.is # "unresolved" /\ rs2[r].target.is # "completed"
    <3>1. CASE r \in DOMAIN refs
      <4>1. rs2[r] = refs[r]
        BY <1>5, <3>1
      <4>. QED  BY <2>1, <2>2, <3>1, <4>1 DEF Resolving
    <3>2. CASE r \notin DOMAIN refs
      BY <1>5, <1>6, <3>2
    <3>. QED  BY <3>1, <3>2
  <2>. QED  BY <2>2 DEF Resolving
<1>10. \A k \in DOMAIN refs[h].args : refs[h].args[k] \in 1 .. h - 1
  BY <1>8 DEF RefFits
<1>11. ASSUME NEW c \in DOMAIN cs2, NEW k \in DOMAIN cs2[c].args
       PROVE  IsPassed(td2, cs2[c].args[k])
  <2>1. CASE c \in DOMAIN classes
    <3>1. cs2[c] = classes[c]
      BY <1>7, <2>1
    <3>. QED  BY <1>1, <1>2, <1>11, <2>1, <3>1 DEF Progress
  <2>2. CASE c = Len(classes) + 1
    <3>1. cs2[c].args[k] \in 1 .. h - 1
      BY <1>7, <1>10, <1>11, <2>2
    <3>2. PICK q \in 1 .. h - 1 : q = cs2[c].args[k]
      BY <3>1
    <3>3. td2 \in Seq(Number)
      BY <1>1, WalkOn DEF Walks
    <3>4. \A i \in DOMAIN td2 : q < td2[i]
      <4>1. \A i \in DOMAIN td2 : td2[i] \in Nat /\ h < td2[i]
        BY <1>2, <3>3 DEF IsPassed, Number
      <4>. HIDE DEF td2
      <4>. QED  BY <1>2, <4>1
    <3>. QED  BY <3>2, <3>4 DEF IsPassed
  <2>. QED  BY <1>7, <2>1, <2>2
<1>12. \A q \in DOMAIN refs : ty2[q] = ty[q]
  <2>1. PICK m : m = Len(refs) /\ m \in 0 .. Len(refs)
    <3>1. \A n \in Nat : n \in 0 .. n
      OBVIOUS
    <3>. QED  BY <1>3, <3>1
  <2>2. \A q \in 1 .. m : rs2[q].target = refs[q].target
    <3>1. \A q \in 1 .. m : q \in DOMAIN refs
      BY <1>3, <2>1
    <3>. QED  BY <1>5, <3>1
  <2>3. References(rs2, line, Len(cs2))
    BY <1>4 DEF Heap
  <2>5. References(refs, line, Len(classes)) /\ Len(refs) <= Len(rs2)
    BY <1>3, <1>5
  <2>4. \A q \in 1 .. m : ty2[q] = ty[q]
    BY <2>1, <2>2, <2>3, <2>5, PrefixAgrees
  <2>. QED  BY <1>3, <2>1, <2>4
<1>13. refs[h].target = GenericType(g) /\ refs[h].name = g
  <2>1. PICK b : Root(refs, h, b)
    BY <1>2, <1>3, RootExists
  <2>2. b = h /\ ty[h] = refs[h].target
    BY <1>2, <2>1 DEF Root
  <2>. QED  BY <1>8, <2>2 DEF RefFits, GenericType
<1>14. /\ Len(expanded[g]) \in Nat /\ DOMAIN expanded[g] = 1 .. Len(expanded[g])
  BY <1>1, ListType
<1>. HIDE DEF ty, ty2, td2
<1>15. Awaits(ty2, rs2, cs2, ex2, h)
  <2>1. PICK i : i = Len(expanded[g]) + 1
    OBVIOUS
  <2>2. i \in DOMAIN ex2[g] /\ cs2[ex2[g][i]].args = refs[h].args
    BY <1>7, <1>14, <2>1
  <2>3. \A j \in 1 .. i : j \in DOMAIN ex2[g]
    BY <1>7, <2>1
  <2>4. \A j \in DOMAIN ex2[g] : ex2[g][j] \in DOMAIN cs2
    BY <1>4, ListType
  <2>5. ASSUME NEW c \in DOMAIN cs2, NEW k \in DOMAIN cs2[c].args
        PROVE  cs2[c].args[k] < h
    <3>1. CASE c \in DOMAIN classes
      <4>1. cs2[c] = classes[c]
        BY <1>7, <3>1
      <4>2. IsPassed(todo, cs2[c].args[k])
        BY <1>1, <2>5, <3>1, <4>1 DEF Progress
      <4>3. h = todo[1] /\ 1 \in DOMAIN todo
        <5>1. todo \in Seq(Number)
          BY <1>1 DEF Walks
        <5>. QED  BY <5>1, EmptySeq
      <4>. QED  BY <4>2, <4>3 DEF IsPassed
    <3>2. CASE c = Len(classes) + 1
      <4>1. cs2[c].args[k] \in 1 .. h - 1
        BY <1>7, <1>10, <2>5, <3>2
      <4>. QED  BY <1>2, <4>1
    <3>. QED  BY <1>7, <3>1, <3>2
  <2>6. Before(cs2, ex2[g], i, h)
    BY <2>3, <2>4, <2>5 DEF Before
  <2>7. rs2[h] = refs[h]
    BY <1>2, <1>5
  <2>8. rs2[h].name = g /\ rs2[h].target = GenericType(g) /\ Len(rs2[h].args) = Len(Definition[g].params)
    BY <1>13, <2>7
  <2>9. cs2[ex2[g][i]].args = rs2[h].args
    BY <2>2, <2>7
  <2>. QED  BY <2>2, <2>6, <2>8, <2>9 DEF Awaits
<1>16. ASSUME NEW r \in DOMAIN rs2, rs2[r].line = line, rs2[r].in = 0, rs2[r].args # <<>>, ~IsAhead(td2, r)
       PROVE  Awaits(ty2, rs2, cs2, ex2, r)
  <2>1. r \in DOMAIN refs /\ rs2[r] = refs[r]
    BY <1>5, <1>6, <1>16
  <2>2. CASE r = h
    BY <1>15, <2>2
  <2>3. CASE r # h
    <3>1. ~IsAhead(todo, r)
      BY <1>2, <1>16, <2>3
    <3>2. Awaits(ty, refs, classes, expanded, r)
      BY <1>1, <1>16, <2>1, <3>1 DEF Progress, IsExpanded, ty
    <3>3. rs2[r].target = refs[r].target
      BY <2>1
    <3>. QED  BY <1>1, <1>4, <1>12, <2>1, <3>2, <3>3, AwaitsKept
  <2>. QED  BY <2>2, <2>3
<1>. QED  BY <1>9, <1>11, <1>16 DEF Progress, IsExpanded, ty2, td2

\* Nothing but the class, its references and its places in the lists is new.
LEMMA ExpandClassStep ==
  ASSUME GenInv, ExpandClass
  PROVE  GenInv'
<1>1. PICK h : h = Head(todo)
  OBVIOUS
<1>2. PICK g \in Generic : /\ ToExpand(g) /\ RightNumber(g) /\ MakeClass(g)
                           /\ UNCHANGED <<line, source, verdicts, pass>>
  BY DEF ExpandClass
<1>3. PICK n : n = Len(classes) + 1
  OBVIOUS
<1>4. PICK b : b = (errorCount = 0)
  OBVIOUS
<1>5. PICK text, params, args : text = Definition[g].body /\ params = Definition[g].params /\ args = refs[h].args
  OBVIOUS
<1>6. PICK copy : copy = Copy(text, line, n, params, args, b)
  OBVIOUS
<1>7. PICK U : U = {i \in DOMAIN copy : copy[i].target = Unresolved}
  OBVIOUS
<1>8. PICK body : body = Places(text)
  OBVIOUS
<1>9. /\ pass = "expand" /\ todo # <<>> /\ todo' = Tail(todo) /\ TypesOf(refs)[h] = GenericType(g)
      /\ Len(args) = Len(params)
  BY <1>1, <1>2, <1>5, ActualIs DEF ToExpand, Expanding, Visiting, RightNumber, Here, Ref
<1>10. /\ refs' = refs \o copy /\ classes' = Append(classes, NewClass(g, args, body, line))
       /\ expanded' = [expanded EXCEPT ![g] = Append(@, n)] /\ appended' = Append(appended, n)
       /\ IF errorCount = 0 /\ U # {}
          THEN errorCount' = Cardinality(U) /\ firstError' = LookUpError(text[First(U)].name)
          ELSE UNCHANGED errors
  BY <1>1, <1>2, <1>3, <1>4, <1>5, <1>6, <1>7, <1>8 DEF MakeClass, NewClass, Here, Ref
<1>11. /\ Session /\ Heap(refs, classes, expanded, appended, line) /\ Walks(todo, "expand", refs, line)
       /\ errorCount = 0 => Progress("expand", todo, refs, classes, expanded, line)
  BY <1>9 DEF GenInv
<1>12. /\ References(refs, line, Len(classes)) /\ refs \in Seq(RefType) /\ classes \in Seq(ClassType)
       /\ line \in Nat /\ line >= 1 /\ DOMAIN verdicts = 1 .. line - 1
       /\ DOMAIN refs = 1 .. Len(refs) /\ Len(refs) \in Nat
       /\ DOMAIN classes = 1 .. Len(classes) /\ Len(classes) \in Nat
  BY <1>9, InvFacts
<1>13. /\ Walks(todo', "expand", refs, line)
       /\ h \in DOMAIN refs /\ refs[h].line = line /\ refs[h].in = 0 /\ args \in Seq(Number)
  BY <1>1, <1>5, <1>9, <1>11, <1>12, WalkOn, ReferencesType
<1>14. /\ IsCopy(copy, refs, line, n, args) /\ DOMAIN copy = DOMAIN text /\ copy \in Seq(RefType)
       /\ \A i \in DOMAIN copy : errorCount = 0 /\ copy[i].target.is = "unresolved" => i \in U
       /\ text \in Text /\ WellFormed(text)
  <2>1. text \in Text /\ WellFormed(text) /\ params \in Seq(STRING)
    BY <1>5, DefinitionAssumption
  <2>2. CanCopy(refs, text, line, n, params, args, b)
    BY <1>3, <1>4, <1>9, <1>12, <1>13, <2>1 DEF CanCopy
  <2>3. /\ IsCopy(copy, refs, line, n, args) /\ DOMAIN copy = DOMAIN text
        /\ \A i \in DOMAIN copy : b => (copy[i].target.is = "unresolved" => copy[i].target = Unresolved)
    BY <1>6, <2>2, CopyIs
  <2>. QED  BY <1>4, <1>7, <2>1, <2>3 DEF IsCopy
<1>15. PICK rs2, cs2, ex2, ap2 : rs2 = refs' /\ cs2 = classes' /\ ex2 = expanded' /\ ap2 = appended'
  OBVIOUS
<1>16. Added(refs, rs2, copy)
  BY <1>10, <1>12, <1>14, <1>15, AddedIs
<1>17. Makes(g, h, copy, cs2, ex2, ap2)
  <2>1. /\ body \in Seq(Number) /\ DOMAIN body = DOMAIN copy
        /\ \A i \in DOMAIN copy : body[i] = i + Len(refs)
    BY <1>8, <1>12, <1>14, PlacesAre
  <2>2. /\ cs2 = Append(classes, NewClass(g, refs[h].args, body, line))
        /\ ex2 = [expanded EXCEPT ![g] = Append(@, Len(classes) + 1)]
        /\ ap2 = Append(appended, Len(classes) + 1)
    BY <1>3, <1>5, <1>10, <1>15
  <2>. QED  BY <1>13, <2>1, <2>2, MakesIs
<1>18. IsCopy(copy, refs, line, Len(classes) + 1, refs[h].args) /\ Len(refs[h].args) = Len(Definition[g].params)
  BY <1>3, <1>5, <1>9, <1>14
<1>19. Heap(rs2, cs2, ex2, ap2, line) /\ Grows(refs, classes, expanded, rs2, cs2, ex2)
  BY <1>9, <1>13, <1>16, <1>17, <1>18, HeapExtended
<1>20. /\ \A r \in DOMAIN refs : r \in DOMAIN rs2 /\ rs2[r] = refs[r]
       /\ \A r \in DOMAIN rs2 : r \in DOMAIN refs \/ (r - Len(refs) \in DOMAIN copy /\ rs2[r] = copy[r - Len(refs)])
  BY <1>16 DEF Added
<1>21. \A i \in DOMAIN copy : copy[i].line = line /\ copy[i].in = n
  BY <1>14 DEF IsCopy
<1>22. Settled(refs, rs2, line - 1)
  <2>1. line > line - 1
    BY <1>12
  <2>2. \A r \in DOMAIN rs2 : r \in DOMAIN refs \/ rs2[r].line = line
    BY <1>20, <1>21
  <2>. QED  BY <1>20, <2>1, <2>2 DEF Settled
<1>23. Carries(verdicts, "expand", classes, line, verdicts, "expand", cs2, line)
  <2>1. line \notin DOMAIN verdicts /\ \A i \in DOMAIN verdicts : \A j \in 1 .. i : j \in DOMAIN verdicts
    BY <1>12
  <2>2. /\ \A c \in DOMAIN classes : c \in DOMAIN cs2 /\ cs2[c] = classes[c]
        /\ \A c \in DOMAIN cs2 : c \in DOMAIN classes \/ (cs2[c].line = line /\ ~cs2[c].prepared /\ cs2[c].layout = Unmapped)
    BY <1>17 DEF Makes
  <2>. QED  BY <2>1, <2>2 DEF Carries
<1>24. Walks(todo', "expand", rs2, line)
  <2>1. \A i \in DOMAIN todo' : todo'[i] \in DOMAIN rs2 /\ rs2[todo'[i]].line = line /\ rs2[todo'[i]].in = 0
    BY <1>13, <1>20 DEF Walks
  <2>2. n # 0
    BY <1>3, <1>12
  <2>3. \A r \in DOMAIN rs2 : rs2[r].line = line /\ rs2[r].in = 0 => IsAhead(todo', r) \/ IsPassed(todo', r)
    BY <1>13, <1>20, <1>21, <2>2 DEF Walks
  <2>. QED  BY <1>13, <2>1, <2>3 DEF Walks
<1>25. U # {} => Cardinality(U) \in Nat /\ Cardinality(U) # 0
  <2>1. Len(copy) \in Nat /\ DOMAIN copy = 1 .. Len(copy)
    BY <1>14
  <2>2. U \subseteq 1 .. Len(copy)
    BY <1>7, <2>1
  <2>. QED  BY <2>1, <2>2, CountOfSome
<1>26. /\ errorCount' \in Nat /\ firstError' \in ErrorKind /\ (errorCount' = 0 <=> firstError' = "NoError")
       /\ errorCount' = 0 => errorCount = 0 /\ U = {}
  <2>1. errorCount \in Nat /\ firstError \in ErrorKind /\ (errorCount = 0 <=> firstError = "NoError")
    BY <1>11 DEF Session
  <2>2. CASE errorCount = 0 /\ U # {}
    <3>1. errorCount' = Cardinality(U) /\ firstError' = LookUpError(text[First(U)].name)
      BY <1>10, <2>2
    <3>2. firstError' \in ErrorKind \ {"NoError"}
      BY <3>1, Kinds
    <3>. QED  BY <1>25, <2>2, <3>1, <3>2
  <2>3. CASE ~(errorCount = 0 /\ U # {})
    <3>1. errorCount' = errorCount /\ firstError' = firstError
      BY <1>10, <2>3 DEF errors
    <3>. QED  BY <2>1, <2>3, <3>1
  <2>. QED  BY <2>2, <2>3
<1>27. UNCHANGED <<line, source, verdicts>> /\ pass' = "expand" /\ pass # "prompt"
  BY <1>2, <1>9
<1>28. Session'
  BY <1>11, <1>26, <1>27, SessionOn DEF Late
<1>29. ASSUME errorCount' = 0
       PROVE  Progress("expand", todo', rs2, cs2, ex2, line)
  <2>1. errorCount = 0 /\ \A i \in DOMAIN copy : copy[i].target.is # "unresolved"
    BY <1>14, <1>26, <1>29
  <2>. QED  BY <1>1, <1>9, <1>16, <1>17, <1>18, <2>1, MadeProgress
<1>. QED  BY <1>9, <1>15, <1>19, <1>22, <1>23, <1>24, <1>27, <1>28, <1>29, HeapStep

-----------------------------------------------------------------------------
(***************************************************************************)
(* Every step.                                                             *)
(***************************************************************************)

\* The expansion skips a reference without arguments.
LEMMA SkipUnlessGenericRefStep ==
  ASSUME GenInv, SkipUnlessGenericRef
  PROVE  GenInv'
<1>1. /\ pass = "expand" /\ todo # <<>> /\ todo' = Tail(todo) /\ refs[Head(todo)].args = <<>>
      /\ UNCHANGED <<line, source, verdicts, pass, heap, errors>>
  BY DEF SkipUnlessGenericRef, Expanding, Visiting, NothingMade, Here, Ref
<1>. QED  BY <1>1, ExpandPassed

\* The mistakes that the expansion and the conversion find in a reference.
LEMMA MistakeStep ==
  ASSUME GenInv, ExpandNotGeneric \/ ExpandWrongNumber \/ ConvertNotGeneric \/ ConvertWrongNumber \/ NotExpanded
  PROVE  GenInv'
<1>1. CASE ExpandNotGeneric
  <2>1. /\ pass = "expand" /\ todo # <<>> /\ todo' = Tail(todo)
        /\ Report("TypeIsNotGenericButIsReferencedWithGenericArgs")
        /\ UNCHANGED <<line, source, verdicts, pass, heap>>
    BY <1>1 DEF ExpandNotGeneric, Expanding, Visiting, NothingMade
  <2>. QED  BY <2>1, Kinds, ErrorStep
<1>2. CASE ExpandWrongNumber
  <2>1. /\ pass = "expand" /\ todo # <<>> /\ todo' = Tail(todo)
        /\ Report("IncorrectNumberOfGenericArguments")
        /\ UNCHANGED <<line, source, verdicts, pass, heap>>
    BY <1>2 DEF ExpandWrongNumber, ToExpand, Expanding, Visiting, NothingMade
  <2>. QED  BY <2>1, Kinds, ErrorStep
<1>3. CASE ConvertNotGeneric
  <2>1. /\ pass = "convert" /\ todo # <<>> /\ todo' = Tail(todo)
        /\ Report("TypeIsNotGenericButIsReferencedWithGenericArgs")
        /\ UNCHANGED <<line, source, verdicts, pass, heap>>
    BY <1>3 DEF ConvertNotGeneric, Converting, Visiting
  <2>. QED  BY <2>1, Kinds, ErrorStep
<1>4. CASE ConvertWrongNumber
  <2>1. /\ pass = "convert" /\ todo # <<>> /\ todo' = Tail(todo)
        /\ Report("IncorrectNumberOfGenericArguments")
        /\ UNCHANGED <<line, source, verdicts, pass, heap>>
    BY <1>4 DEF ConvertWrongNumber, ToConvert, Converting, Visiting
  <2>. QED  BY <2>1, Kinds, ErrorStep
<1>5. CASE NotExpanded
  <2>1. /\ pass = "convert" /\ todo # <<>> /\ todo' = Tail(todo)
        /\ Report("GenericTypeWasNotExpandedWithSpecifiedArguments")
        /\ UNCHANGED <<line, source, verdicts, pass, heap>>
    BY <1>5 DEF NotExpanded, ToConvert, Converting, Visiting
  <2>. QED  BY <2>1, Kinds, ErrorStep
<1>. QED  BY <1>1, <1>2, <1>3, <1>4, <1>5

\* A step that changes nothing.
LEMMA StutterStep ==
  ASSUME GenInv, UNCHANGED vars
  PROVE  GenInv'
<1>1. /\ line' = line /\ source' = source /\ verdicts' = verdicts /\ pass' = pass /\ todo' = todo
      /\ refs' = refs /\ classes' = classes /\ expanded' = expanded /\ appended' = appended
      /\ errorCount' = errorCount /\ firstError' = firstError
  BY DEF vars, heap, errors
<1>2. Session' <=> Session
  BY <1>1 DEF Session
<1>. QED  BY <1>1, <1>2 DEF GenInv

\* Every step keeps the invariant.
LEMMA NextHolds ==
  ASSUME GenInv, [Next]_vars
  PROVE  GenInv'
<1>1. CASE BeginLine
  BY <1>1, BeginLineStep
<1>2. CASE ResolveType
  BY <1>2, ResolveTypeStep
<1>3. CASE SkipUnlessGenericRef
  BY <1>3, SkipUnlessGenericRefStep
<1>4. CASE ExpandNotGeneric \/ ExpandWrongNumber \/ ConvertNotGeneric \/ ConvertWrongNumber \/ NotExpanded
  BY <1>4, MistakeStep
<1>5. CASE AlreadyExpanded
  BY <1>5, AlreadyExpandedStep
<1>6. CASE ExpandClass
  BY <1>6, ExpandClassStep
<1>7. CASE SkipUnlessGeneric
  BY <1>7, SkipUnlessGenericStep
<1>8. CASE Convert
  BY <1>8, ConvertStep
<1>9. CASE EndWalk
  BY <1>9, EndWalkStep
<1>10. CASE Rejected
  BY <1>10, RejectedStep
<1>11. CASE ResolveSymbols
  BY <1>11, ResolveSymbolsStep
<1>12. CASE PrepareClasses
  BY <1>12, PrepareClassesStep
<1>13. CASE ResolveMembers
  BY <1>13, ResolveMembersStep
<1>14. CASE CheckRest
  BY <1>14, CheckRestStep
<1>15. CASE Emit
  BY <1>15, EmitStep
<1>16. CASE SessionOver \/ UNCHANGED vars
  BY <1>16, StutterStep DEF SessionOver
<1>. QED  BY <1>1, <1>2, <1>3, <1>4, <1>5, <1>6, <1>7, <1>8, <1>9, <1>10, <1>11, <1>12, <1>13,
             <1>14, <1>15, <1>16 DEF Next

\* In every state of every session the references, the classes and the lists
\* of the generics fit together: what the passes of GenericExpansion.tla have
\* done so far, in this line and in those before it, is what GenInv says.
THEOREM GenInvariant == Spec => []GenInv
<1>1. Init => GenInv
  BY InitHolds
<1>2. GenInv /\ [Next]_vars => GenInv'
  BY NextHolds
<1>. QED  BY <1>1, <1>2, PTL DEF Spec

-----------------------------------------------------------------------------
(***************************************************************************)
(* What the invariant is for.                                              *)
(***************************************************************************)

\* A reference points at what is there.
LEMMA TargetIs ==
  ASSUME GenInv, NEW r \in DOMAIN refs
  PROVE  refs[r].target \in Target
<1>1. /\ References(refs, line, Len(classes)) /\ DOMAIN refs = 1 .. Len(refs) /\ Len(refs) \in Nat
      /\ DOMAIN classes = 1 .. Len(classes)
  BY InvFacts
<1>2. RefFits(refs, r, line, Len(classes)) /\ refs[r].target \in TargetType /\ r \in Nat
  BY <1>1, ReferencesType
<1>3. PICK t : t = refs[r].target
  OBVIOUS
<1>4. /\ t \in TargetType
      /\ t.is = "completed" => t.class \in DOMAIN classes
      /\ t.is = "alias" => t.ref \in DOMAIN refs
  <2>1. \A q \in 1 .. r - 1 : q \in DOMAIN refs
    BY <1>1, <1>2
  <2>. QED  BY <1>1, <1>2, <1>3, <2>1 DEF RefFits
<1>5. CASE t \in [is : {"unresolved"}]
  <2>1. t = Unresolved
    BY <1>5 DEF Unresolved
  <2>. QED  BY <1>3, <2>1 DEF Target
<1>6. CASE t \in [is : {"scalar"}, name : Keyword]
  <2>1. t = Scalar(t.name) /\ t.name \in Keyword
    BY <1>6 DEF Scalar
  <2>. QED  BY <1>3, <2>1 DEF Target
<1>7. CASE t \in [is : {"class"}, name : ClassName]
  <2>1. t = Plain(t.name) /\ t.name \in ClassName
    BY <1>7 DEF Plain
  <2>. QED  BY <1>3, <2>1 DEF Target
<1>8. CASE t \in [is : {"generic"}, name : Generic]
  <2>1. t = GenericType(t.name) /\ t.name \in Generic
    BY <1>8 DEF GenericType
  <2>. QED  BY <1>3, <2>1 DEF Target
<1>9. CASE t \in [is : {"completed"}, class : Nat \ {0}]
  <2>1. t = Completed(t.class) /\ t.class \in DOMAIN classes
    BY <1>4, <1>9 DEF Completed
  <2>. QED  BY <1>3, <2>1 DEF Target
<1>10. CASE t \in [is : {"alias"}, ref : Nat \ {0}]
  <2>1. t = AliasOf(t.ref) /\ t.ref \in DOMAIN refs
    BY <1>4, <1>10 DEF AliasOf
  <2>. QED  BY <1>3, <2>1 DEF Target
<1>. QED  BY <1>4, <1>5, <1>6, <1>7, <1>8, <1>9, <1>10 DEF TargetType

\* A sequence of numbers is one over any set that its members are in.
LEMMA Narrowed ==
  ASSUME NEW s \in Seq(Number), NEW S, \A i \in DOMAIN s : s[i] \in S
  PROVE  s \in Seq(S)
<1>1. Len(s) \in Nat /\ DOMAIN s = 1 .. Len(s)
  OBVIOUS
<1>2. s = [i \in 1 .. Len(s) |-> s[i]]
  BY <1>1
<1>. QED  BY <1>1, <1>2

\* The variables keep their types, arguments and aliases point back, and each
\* list of classes is one of its own generic (the vectors and pointers that
\* type.h and ast.h declare, and addExpandedClass).
THEOREM TypesAreCorrect == Spec => []TypeOK
<1>1. ASSUME GenInv
      PROVE  TypeOK
  <2>1. Session /\ Heap(refs, classes, expanded, appended, line) /\ Walks(todo, pass, refs, line)
    BY <1>1 DEF GenInv
  <2>2. /\ line \in 0..Len(Lines) /\ source \in IF line = 0 THEN {Blank} ELSE Lines[line]
        /\ verdicts \in Seq({"accepted", "rejected"})
        /\ Len(verdicts) = IF pass = "prompt" THEN line ELSE line - 1
        /\ pass \in {"prompt", "resolve", "expand", "convert", "symbols", "prepare", "members", "casts", "emit"}
        /\ errorCount \in Nat /\ firstError \in ErrorKind /\ (errorCount = 0 <=> firstError = "NoError")
    BY <2>1 DEF Session, Late
  <2>3. todo \in Seq(DOMAIN refs)
    <3>1. todo \in Seq(Number) /\ \A i \in DOMAIN todo : todo[i] \in DOMAIN refs
      BY <2>1 DEF Walks
    <3>. QED  BY <3>1, Narrowed
  <2>4. appended \in Seq(DOMAIN classes)
    <3>1. appended \in Seq(Number) /\ \A i \in DOMAIN appended : appended[i] \in DOMAIN classes
      BY <2>1 DEF Heap, Appended
    <3>. QED  BY <3>1, Narrowed
  <2>5. ASSUME NEW r \in DOMAIN refs
        PROVE  /\ refs[r].target \in Target /\ refs[r].line \in 1..line
               /\ refs[r].in \in 0..Len(classes)
               /\ \A k \in DOMAIN refs[r].args : refs[r].args[k] \in 1..(r - 1)
               /\ refs[r].target.is = "alias" => refs[r].target.ref < r
    <3>1. refs[r].target \in Target
      BY <1>1, TargetIs
    <3>2. RefFits(refs, r, line, Len(classes)) /\ r \in Nat
      BY <1>1, InvFacts, ReferencesType
    <3>3. refs[r].target.is = "alias" => refs[r].target.ref \in 1 .. r - 1
      BY <3>2 DEF RefFits
    <3>4. refs[r].target.is = "alias" => refs[r].target.ref < r
      BY <3>2, <3>3
    <3>. QED  BY <3>1, <3>2, <3>4 DEF RefFits
  <2>6. ASSUME NEW c \in DOMAIN classes
        PROVE  /\ classes[c].body = [i \in DOMAIN classes[c].body |-> classes[c].body[1] + i - 1]
               /\ \A r \in DOMAIN refs : refs[r].in = c <=> \E i \in DOMAIN classes[c].body : classes[c].body[i] = r
    <3>1. ClassFits(classes, c, refs, line) /\ classes \in Seq(ClassType)
      BY <2>1 DEF Heap
    <3>2. PICK b : b = classes[c].body
      OBVIOUS
    <3>3. b \in Seq(Number)
      <4>1. classes[c] \in ClassType
        BY <3>1
      <4>. QED  BY <3>2, <4>1 DEF ClassType
    <3>4. \A i \in DOMAIN b : b[i] = b[1] + i - 1
      BY <3>1, <3>2 DEF ClassFits
    <3>5. b = [i \in DOMAIN b |-> b[i]]
      BY <3>3
    <3>6. b = [i \in DOMAIN b |-> b[1] + i - 1]
      BY <3>4, <3>5
    <3>. QED  BY <3>1, <3>2, <3>6 DEF ClassFits
  <2>7. \A g \in Generic : \A i \in DOMAIN expanded[g] :
          /\ expanded[g][i] \in DOMAIN classes /\ classes[expanded[g][i]].of = g
          /\ \A j \in 1..(i - 1) : expanded[g][j] < expanded[g][i]
    BY <2>1 DEF Heap, Lists
  <2>. QED  BY <2>2, <2>3, <2>4, <2>5, <2>6, <2>7 DEF TypeOK
<1>. QED  BY <1>1, GenInvariant, PTL

\* The references of accepted lines are done.
LEMMA AcceptedIsDone ==
  ASSUME GenInv, NEW r \in DOMAIN refs, InAccepted(r)
  PROVE  Done(TypesOf(refs), refs, classes, expanded, r)
BY DEF GenInv, AllDone, InAccepted, Accepted

\* What a reference with arguments has when it is done: the first class of the
\* generic it names that was made with arguments of the same types.
LEMMA ChosenIs ==
  ASSUME GenInv, NEW r \in DOMAIN refs, InAccepted(r), refs[r].args # <<>>
  PROVE  \E g \in Generic : \E i \in DOMAIN expanded[g] :
           /\ refs[r].name = g /\ Actual(r) = Completed(expanded[g][i])
           /\ expanded[g][i] \in DOMAIN classes /\ classes[expanded[g][i]].of = g
           /\ Len(refs[r].args) = Len(Definition[g].params)
           /\ Len(classes[expanded[g][i]].args) = Len(Definition[g].params)
           /\ ArgsMatch(expanded[g][i], refs[r].args)
           /\ \A j \in 1 .. i - 1 : ~ArgsMatch(expanded[g][j], refs[r].args)
<1>. DEFINE ty == TypesOf(refs)
<1>1. Chosen(ty, refs, classes, expanded, r)
  BY AcceptedIsDone DEF Done
<1>2. PICK g \in Generic : /\ refs[r].name = g /\ Len(refs[r].args) = Len(Definition[g].params)
                           /\ \E i \in DOMAIN expanded[g] :
                                /\ ty[r] = Completed(expanded[g][i])
                                /\ Match(ty, classes, expanded[g][i], refs[r].args)
                                /\ \A j \in 1 .. i - 1 : ~Match(ty, classes, expanded[g][j], refs[r].args)
  BY <1>1 DEF Chosen
<1>3. PICK i \in DOMAIN expanded[g] : /\ ty[r] = Completed(expanded[g][i])
                                      /\ Match(ty, classes, expanded[g][i], refs[r].args)
                                      /\ \A j \in 1 .. i - 1 : ~Match(ty, classes, expanded[g][j], refs[r].args)
  BY <1>2
<1>4. \A c : ArgsMatch(c, refs[r].args) <=> Match(ty, classes, c, refs[r].args)
  BY ActualIs DEF ArgsMatch, SameType, Match, Same
<1>5. /\ expanded[g][i] \in DOMAIN classes /\ classes[expanded[g][i]].of = g
      /\ Len(classes[expanded[g][i]].args) = Len(Definition[g].params)
  <2>1. Heap(refs, classes, expanded, appended, line)
    BY DEF GenInv
  <2>. QED  BY <2>1, ListType
<1>6. Actual(r) = ty[r]
  BY ActualIs
<1>. HIDE DEF ty
<1>. QED  BY <1>2, <1>3, <1>4, <1>5, <1>6

\* After a line was accepted no reference of it is open, and one with arguments
\* has the class completed from the generic it names with those arguments, as
\* the code generator relies on (TypeMap::toLlvmType asks actualType()).
THEOREM LinesAreComplete == Spec => []AcceptedIsComplete
<1>1. ASSUME GenInv, NEW r \in DOMAIN refs, InAccepted(r)
      PROVE  /\ Actual(r).is \in {"scalar", "class", "completed"}
             /\ refs[r].args # <<>> => Actual(r).is = "completed" /\ IsClassFor(r, Actual(r).class)
  <2>1. Actual(r).is \in {"scalar", "class", "completed"}
    BY <1>1, AcceptedIsDone, ActualIs DEF Done
  <2>2. ASSUME refs[r].args # <<>>
        PROVE  Actual(r).is = "completed" /\ IsClassFor(r, Actual(r).class)
    <3>1. PICK g \in Generic : \E i \in DOMAIN expanded[g] :
             /\ refs[r].name = g /\ Actual(r) = Completed(expanded[g][i])
             /\ classes[expanded[g][i]].of = g
             /\ Len(refs[r].args) = Len(Definition[g].params)
             /\ Len(classes[expanded[g][i]].args) = Len(Definition[g].params)
             /\ ArgsMatch(expanded[g][i], refs[r].args)
      BY <1>1, <2>2, ChosenIs
    <3>2. PICK c : /\ refs[r].name = g /\ Actual(r) = Completed(c) /\ classes[c].of = g
                   /\ Len(classes[c].args) = Len(refs[r].args) /\ ArgsMatch(c, refs[r].args)
      BY <3>1
    <3>3. Actual(r).is = "completed" /\ Actual(r).class = c
      BY <3>2 DEF Completed
    <3>4. \A k \in DOMAIN refs[r].args : Actual(classes[c].args[k]) = Actual(refs[r].args[k])
      BY <3>2 DEF ArgsMatch, SameType
    <3>. QED  BY <3>2, <3>3, <3>4 DEF IsClassFor
  <2>. QED  BY <2>1, <2>2
<1>2. GenInv => AcceptedIsComplete
  BY <1>1 DEF AcceptedIsComplete
<1>. QED  BY <1>2, GenInvariant, PTL

\* Of two references that have their types, and whose arguments have the same
\* types, the class of neither was made after the other's.
LEMMA NoLaterClass ==
  ASSUME NEW g, NEW q, NEW r,
         NEW i \in DOMAIN expanded[g], NEW j \in Nat, i \in Nat,
         Len(refs[q].args) = Len(refs[r].args), refs[q].args \in Seq(Number), refs[r].args \in Seq(Number),
         ArgsMatch(expanded[g][i], refs[q].args),
         \A l \in 1 .. j - 1 : ~ArgsMatch(expanded[g][l], refs[r].args),
         \A k \in DOMAIN refs[q].args : Actual(refs[q].args[k]) = Actual(refs[r].args[k])
  PROVE  ~(1 <= i /\ i < j)
<1>1. DOMAIN refs[q].args = DOMAIN refs[r].args
  OBVIOUS
<1>2. ArgsMatch(expanded[g][i], refs[r].args)
  BY <1>1 DEF ArgsMatch, SameType
<1>3. 1 <= i /\ i < j => i \in 1 .. j - 1
  OBVIOUS
<1>. QED  BY <1>2, <1>3

\* References with arguments, whatever accepted lines they are in, have the same
\* class exactly when they name the same generic and their arguments have the
\* same types: findExpandedClassType always comes to the oldest of the classes.
THEOREM ClassesAreUnique == Spec => []OneClassPerArguments
<1>1. ASSUME GenInv, NEW q \in DOMAIN refs, NEW r \in DOMAIN refs, InAccepted(q), InAccepted(r),
             refs[q].args # <<>>, refs[r].args # <<>>
      PROVE  Actual(q) = Actual(r) <=>
               /\ refs[q].name = refs[r].name
               /\ \A k \in DOMAIN refs[q].args : Actual(refs[q].args[k]) = Actual(refs[r].args[k])
  <2>1. PICK f \in Generic : \E i \in DOMAIN expanded[f] :
           /\ refs[q].name = f /\ Actual(q) = Completed(expanded[f][i])
           /\ expanded[f][i] \in DOMAIN classes /\ classes[expanded[f][i]].of = f
           /\ Len(refs[q].args) = Len(Definition[f].params)
           /\ Len(classes[expanded[f][i]].args) = Len(Definition[f].params)
           /\ ArgsMatch(expanded[f][i], refs[q].args)
           /\ \A j \in 1 .. i - 1 : ~ArgsMatch(expanded[f][j], refs[q].args)
    BY <1>1, ChosenIs
  <2>2. PICK i \in DOMAIN expanded[f] :
           /\ refs[q].name = f /\ Actual(q) = Completed(expanded[f][i])
           /\ classes[expanded[f][i]].of = f
           /\ Len(refs[q].args) = Len(Definition[f].params)
           /\ ArgsMatch(expanded[f][i], refs[q].args)
           /\ \A j \in 1 .. i - 1 : ~ArgsMatch(expanded[f][j], refs[q].args)
    BY <2>1
  <2>3. PICK g \in Generic : \E j \in DOMAIN expanded[g] :
           /\ refs[r].name = g /\ Actual(r) = Completed(expanded[g][j])
           /\ expanded[g][j] \in DOMAIN classes /\ classes[expanded[g][j]].of = g
           /\ Len(refs[r].args) = Len(Definition[g].params)
           /\ Len(classes[expanded[g][j]].args) = Len(Definition[g].params)
           /\ ArgsMatch(expanded[g][j], refs[r].args)
           /\ \A l \in 1 .. j - 1 : ~ArgsMatch(expanded[g][l], refs[r].args)
    BY <1>1, ChosenIs
  <2>4. PICK j \in DOMAIN expanded[g] :
           /\ refs[r].name = g /\ Actual(r) = Completed(expanded[g][j])
           /\ classes[expanded[g][j]].of = g
           /\ Len(refs[r].args) = Len(Definition[g].params)
           /\ ArgsMatch(expanded[g][j], refs[r].args)
           /\ \A l \in 1 .. j - 1 : ~ArgsMatch(expanded[g][l], refs[r].args)
    BY <2>3
  <2>5. References(refs, line, Len(classes)) /\ Heap(refs, classes, expanded, appended, line)
    BY <1>1, InvFacts DEF GenInv
  <2>6. refs[q].args \in Seq(Number) /\ refs[r].args \in Seq(Number)
    BY <1>1, <2>5, ReferencesType
  <2>7. /\ Len(expanded[f]) \in Nat /\ DOMAIN expanded[f] = 1 .. Len(expanded[f])
        /\ Len(expanded[g]) \in Nat /\ DOMAIN expanded[g] = 1 .. Len(expanded[g])
    BY <2>5, ListType
  <2>8. i \in Nat /\ 1 <= i /\ j \in Nat /\ 1 <= j
    BY <2>7
  <2>9. Actual(q) = Actual(r) <=> expanded[f][i] = expanded[g][j]
    BY <2>2, <2>4 DEF Completed
  <2>10. ASSUME expanded[f][i] = expanded[g][j]
         PROVE  /\ refs[q].name = refs[r].name
                /\ \A k \in DOMAIN refs[q].args : Actual(refs[q].args[k]) = Actual(refs[r].args[k])
    <3>1. f = g
      BY <2>2, <2>4, <2>10
    <3>2. DOMAIN refs[q].args = DOMAIN refs[r].args
      BY <2>2, <2>4, <2>6, <3>1
    <3>3. PICK c : c = expanded[f][i] /\ ArgsMatch(c, refs[q].args) /\ ArgsMatch(c, refs[r].args)
      BY <2>2, <2>4, <2>10
    <3>4. \A k \in DOMAIN refs[q].args : Actual(refs[q].args[k]) = Actual(refs[r].args[k])
      BY <3>2, <3>3 DEF ArgsMatch, SameType
    <3>. QED  BY <2>2, <2>4, <3>1, <3>4
  <2>11. ASSUME refs[q].name = refs[r].name,
                \A k \in DOMAIN refs[q].args : Actual(refs[q].args[k]) = Actual(refs[r].args[k])
         PROVE  expanded[f][i] = expanded[g][j]
    <3>1. f = g /\ j \in DOMAIN expanded[f]
      BY <2>2, <2>4, <2>11
    <3>2. Len(refs[q].args) = Len(refs[r].args)
      BY <2>2, <2>4, <3>1
    <3>3. \A k \in DOMAIN refs[r].args : Actual(refs[r].args[k]) = Actual(refs[q].args[k])
      BY <2>6, <2>11, <3>2
    <3>4. ArgsMatch(expanded[f][j], refs[r].args) /\ \A l \in 1 .. j - 1 : ~ArgsMatch(expanded[f][l], refs[r].args)
      BY <2>4, <3>1
    <3>5. ~(1 <= i /\ i < j)
      BY <2>2, <2>6, <2>8, <2>11, <3>2, <3>4, NoLaterClass
    <3>6. ~(1 <= j /\ j < i)
      BY <2>2, <2>6, <2>8, <3>1, <3>2, <3>3, <3>4, NoLaterClass
    <3>7. i = j
      BY <2>8, <3>5, <3>6
    <3>. QED  BY <3>1, <3>7
  <2>. QED  BY <2>9, <2>10, <2>11
<1>2. GenInv => OneClassPerArguments
  BY <1>1 DEF OneClassPerArguments
<1>. QED  BY <1>2, GenInvariant, PTL

\* The class of a reference in an accepted line has its fields, and a struct with
\* all of them, unless the line that made the class was rejected (only the
\* classes of the module at work are visited by PrepareClassesVisitor).
THEOREM ClassesArePrepared == Spec => []PreparedUnlessRejected
<1>1. ASSUME GenInv, NEW i \in DOMAIN verdicts, Accepted(i), NEW c \in Uses(i), Accepted(classes[c].line)
      PROVE  classes[c].prepared /\ classes[c].layout = Len(classes[c].body)
  <2>1. Uses(i) = UsedBy(TypesOf(refs), refs, i)
    BY ActualIs DEF Uses, ClassesAt, UsedBy
  <2>2. Populated(verdicts, pass, refs, classes, line)
    BY <1>1 DEF GenInv
  <2>3. verdicts[classes[c].line] = "accepted" => HasFields(classes, c)
    BY <1>1, <2>1, <2>2 DEF Populated, Accepted
  <2>. QED  BY <1>1, <2>3 DEF HasFields, Accepted
<1>2. GenInv => PreparedUnlessRejected
  BY <1>1 DEF PreparedUnlessRejected
<1>. QED  BY <1>2, GenInvariant, PTL

\* The first error of a line is never "Generic type was not expanded" at a
\* reference written in the line: the expansion has made the class, or found it,
\* and nothing that it was found by has changed its type since.
THEOREM WrittenAreExpanded == Spec => WrittenIsExpanded
<1>1. ASSUME GenInv, NotExpanded, errorCount = 0
      PROVE  Ref.in # 0
  <2>. SUFFICES ASSUME Ref.in = 0
                PROVE  FALSE
    OBVIOUS
  <2>1. PICK h : h = Head(todo)
    OBVIOUS
  <2>2. PICK g \in Generic : ToConvert(g) /\ RightNumber(g) /\ Matches(g, Ref.args) = {}
    BY <1>1 DEF NotExpanded
  <2>3. /\ pass = "convert" /\ todo # <<>> /\ Actual(h) = GenericType(g) /\ refs[h].in = 0
        /\ Len(refs[h].args) = Len(Definition[g].params) /\ Matches(g, refs[h].args) = {}
    BY <2>1, <2>2 DEF ToConvert, Converting, Visiting, RightNumber, Here, Ref
  <2>4. refs[h].args # <<>>
    <3>1. Definition[g].params \in Seq(STRING) \ {<<>>}
      BY DefinitionAssumption
    <3>. QED  BY <2>3, <3>1, EmptySeq
  <2>5. PICK f \in Generic : /\ refs[h].target = GenericType(f)
                             /\ \E i \in DOMAIN expanded[f] :
                                  Match(TypesOf(refs), classes, expanded[f][i], refs[h].args)
    BY <1>1, <2>1, <2>3, <2>4, AwaitedMatches
  <2>6. f = g
    <3>1. h \in DOMAIN refs /\ References(refs, line, Len(classes))
      <4>1. Walks(todo, pass, refs, line)
        BY <1>1 DEF GenInv
      <4>. QED  BY <1>1, <2>1, <2>3, <4>1, WalkOn, InvFacts
    <3>2. PICK b : Root(refs, h, b)
      BY <3>1, RootExists
    <3>3. TypesOf(refs)[h] = refs[h].target
      BY <2>3, <3>2 DEF Root
    <3>. QED  BY <2>3, <2>5, <3>3, ActualIs DEF GenericType
  <2>7. Matches(g, refs[h].args) # {}
    BY <2>5, <2>6, MatchesAre
  <2>. QED  BY <2>3, <2>7
<1>2. GenInv /\ [Next]_vars => [NotExpanded /\ errorCount = 0 => Ref.in # 0]_vars
  BY <1>1
<1>. QED  BY <1>2, GenInvariant, PTL DEF Spec, WrittenIsExpanded
=============================================================================
