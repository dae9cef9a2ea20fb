--------------------------- MODULE EmitControlFlow ---------------------------
(***************************************************************************)
(* Code generation for control flow: emitExpr and the visitors it starts,  *)
(* the module verification that ends it, and the run of the result.        *)
(*                                                                         *)
(* emitExpr is recursive, and one IRBuilder with one insertion point is    *)
(* shared by all its activations: an operand that contains branches leaves *)
(* the insertion point in another block than it found it in.  `stack' is   *)
(* the stack of activations, each with what it keeps in local variables    *)
(* while it emits an operand.                                              *)
(***************************************************************************)
EXTENDS SourceSemantics, FiniteSets

VARIABLES
  phase,        \* "emit", "run", "over"; "asserted" when verification failed
  stack,        \* activations of emitExpr and of the visitor that started it
  pending,      \* functions not emitted yet
  insert,       \* the IRBuilder's insertion point
  attached,     \* blocks in the block list of each root's function
  code,         \* the instructions of each block
  pc, came,     \* run: the instruction reached, and the block control came from
  env           \* run: values computed, for the nodes that have one

emission == <<stack, pending, insert, attached, code>>
machine  == <<pc, came, env>>
vars     == <<sourceVars, phase, emission, machine>>

-----------------------------------------------------------------------------
\* Values: the result of a node's instruction, two constants, a null pointer.
NoValue == 0
TrueConst == -1
FalseConst == -2
Operand == Node \union {NoValue, TrueConst, FalseConst}

Role  == {"begin", "then", "else", "end", "rValue", "condition", "body", "pass", "fail"}
Block == Node \X Role

Br(b)           == [op |-> "br", to |-> {b}]
CondBr(v, t, e) == [op |-> "condbr", use |-> {v}, to |-> {t, e}, cond |-> v, yes |-> t, no |-> e]
Phi(n, f)       == [op |-> "phi", node |-> n, from |-> f]
Do(what, n, v)  == [op |-> what, node |-> n, arg |-> v]
Equal(n, l, r)  == [op |-> "equal", node |-> n, left |-> l, right |-> r]
Ret(v)          == [op |-> "ret", value |-> v]

Terminates(i) == i.op \in {"br", "condbr", "ret"}

Activation(n) == [node |-> n, step |-> 0, vals |-> <<>>, kept |-> <<>>]
Top == stack[Len(stack)]
At(k, s) == phase = "emit" /\ stack # <<>> /\ Is(Top.node, k) /\ Top.step = s
Operands(n) == Len(Kids(n))

\* emitExpr(operand i) is called; `keep' is what the caller has in locals.
CallKeeping(i, keep) ==
  stack' = Append([stack EXCEPT ![Len(stack)].step = @ + 1, ![Len(stack)].kept = keep],
                  Activation(Kids(Top.node)[i]))
Call(i) == CallKeeping(i, Top.kept)

\* setValue(v), and emitExpr returns it to the caller.
Return(v) ==
  stack' = LET callers == Front(stack)
           IN  [callers EXCEPT ![Len(callers)].vals = Append(@, v)]

Emits(instrs) == code' = [code EXCEPT ![insert] = @ \o instrs]
Here(role) == <<Top.node, role>>

\* GetInsertBlock()->getParent(): the function the code goes to.
CurrentFunc == CHOOSE f \in Node : insert \in attached[f]
Attach(blocks) == attached' = [attached EXCEPT ![CurrentFunc] = @ \union blocks]

Stay == UNCHANGED <<sourceVars, phase, pending, machine>>
SameBlock == UNCHANGED <<insert, attached>>

-----------------------------------------------------------------------------
Init ==
  /\ SourceInit
  /\ phase = "emit" /\ pending = program.functions
  /\ stack = <<Activation(program.main)>>      \* startModuleInitFunc
  /\ insert = <<program.main, "begin">>
  /\ attached = [n \in Node |-> IF n = program.main THEN {insert} ELSE {}]
  /\ code = [b \in Block |-> <<>>]
  /\ pc = <<insert, 1>> /\ came = insert /\ env = <<>>

\* visitingFuncDefStmt: the functions come before the statements of the module.
\* It keeps the insertion point of the init function while it emits a body.
StartFunction ==
  /\ At("module", 0)
  /\ \E f \in pending :
       /\ pending' = pending \ {f}
       /\ insert' = <<f, "begin">>
       /\ attached' = [attached EXCEPT ![f] = {<<f, "begin">>}]
       /\ stack' = stack \o <<[Activation(f) EXCEPT !.step = -1, !.kept = <<insert>>],
                              Activation(f)>>
  /\ UNCHANGED <<sourceVars, phase, code, machine>>

\* Mutant: the insertion point is cleared, not restored.
EndFunctionClearing ==
  /\ phase = "emit" /\ stack # <<>> /\ Top.step = -1 /\ Top.vals # <<>>
  /\ Emits(<<Ret(IF Void[Top.node] THEN NoValue ELSE Top.vals[1])>>)
  /\ insert' = <<NoValue, "begin">>
  /\ stack' = Front(stack)
  /\ Stay /\ UNCHANGED attached

\* Mutant: the insertion point stays in the function.
EndFunctionStaying ==
  /\ phase = "emit" /\ stack # <<>> /\ Top.step = -1 /\ Top.vals # <<>>
  /\ Emits(<<Ret(IF Void[Top.node] THEN NoValue ELSE Top.vals[1])>>)
  /\ stack' = Front(stack)
  /\ Stay /\ SameBlock

EndFunction ==
  /\ phase = "emit" /\ stack # <<>> /\ Top.step = -1 /\ Top.vals # <<>>
  /\ Emits(<<Ret(IF Void[Top.node] THEN NoValue ELSE Top.vals[1])>>)
  /\ insert' = Top.kept[1]
  /\ stack' = Front(stack)
  /\ Stay /\ UNCHANGED attached

\* Literals, variables, calls, casts...: code in the current block.
EmitLeaf ==
  /\ At("leaf", 0)
  /\ Emits(<<Do("eval", Top.node, NoValue)>>)
  /\ Return(Top.node)
  /\ SameBlock /\ Stay

EmitDefinition ==
  /\ At("define", 0)
  /\ Return(NoValue)
  /\ SameBlock /\ Stay /\ UNCHANGED code

\* emitBinaryArithmetic emits the right operand first.
EmitRight == At("equal", 0) /\ Call(2) /\ SameBlock /\ Stay /\ UNCHANGED code
EmitLeft  == At("equal", 1) /\ Call(1) /\ SameBlock /\ Stay /\ UNCHANGED code
EmitEqual ==
  /\ At("equal", 2)
  /\ Emits(<<Equal(Top.node, Top.vals[2], Top.vals[1])>>)
  /\ Return(Top.node)
  /\ SameBlock /\ Stay

\* visitExpressions: the value is the last one that is not null.
EmitItem ==
  /\ phase = "emit" /\ stack # <<>> /\ Is(Top.node, "list")
  /\ Top.step \in 0 .. Operands(Top.node) - 1
  /\ Call(Top.step + 1)
  /\ SameBlock /\ Stay /\ UNCHANGED code
EndList ==
  LET valued == {i \in DOMAIN Top.vals : Top.vals[i] # NoValue}
  IN  /\ At("list", Operands(Top.node))
      /\ Return(IF valued = {} THEN NoValue ELSE Top.vals[CHOOSE i \in valued : \A j \in valued : j <= i])
      /\ SameBlock /\ Stay /\ UNCHANGED code

\* emitModuleLevelExprStmt: a statement, then the report of its value, if it
\* has one, as a value of the type of the statement (which may be void).
Report == IF Top.vals = <<>> \/ Last(Top.vals) = NoValue THEN <<>>
          ELSE <<Do("result", Kids(Top.node)[Top.step], Last(Top.vals))>>
EmitStatement ==
  /\ phase = "emit" /\ stack # <<>> /\ Is(Top.node, "module")
  /\ Top.step \in 0 .. Operands(Top.node) - 1 /\ pending = {}
  /\ Call(Top.step + 1)
  /\ SameBlock /\ Stay
  /\ Emits(Report)
EndModule ==
  /\ At("module", Operands(Top.node)) /\ pending = {}
  /\ stack' = <<>>
  /\ Emits(Append(Report, Ret(NoValue)))
  /\ SameBlock /\ Stay
-----------------------------------------------------------------------------
\* emitBinaryLogical.  The block of the left operand is the insertion point
\* before it is emitted; that of the right operand, the block made for it.
EmitLogicalLeft ==
  /\ phase = "emit" /\ stack # <<>> /\ Top.step = 0 /\ (Is(Top.node, "and") \/ Is(Top.node, "or"))
  /\ CallKeeping(1, <<insert>>)
  /\ SameBlock /\ Stay /\ UNCHANGED code

ShortCircuit(n) == IF Is(n, "and") THEN FalseConst ELSE TrueConst
\* Mutant: the short circuit is taken on the wrong value.
EmitRightSwapped ==
  /\ phase = "emit" /\ stack # <<>> /\ Top.step = 1 /\ (Is(Top.node, "and") \/ Is(Top.node, "or"))
  /\ Emits(<<CondBr(Top.vals[1], Here("rValue"), Here("end"))>>)
  /\ Attach({Here("rValue")}) /\ insert' = Here("rValue")
  /\ Call(2)
  /\ Stay

EmitLogicalRight ==
  /\ phase = "emit" /\ stack # <<>> /\ Top.step = 1 /\ (Is(Top.node, "and") \/ Is(Top.node, "or"))
  /\ Emits(<<IF Is(Top.node, "and") THEN CondBr(Top.vals[1], Here("rValue"), Here("end"))
                                    ELSE CondBr(Top.vals[1], Here("end"), Here("rValue"))>>)
  /\ Attach({Here("rValue")}) /\ insert' = Here("rValue")
  /\ Call(2)
  /\ Stay

EndLogical ==
  /\ phase = "emit" /\ stack # <<>> /\ Top.step = 2 /\ (Is(Top.node, "and") \/ Is(Top.node, "or"))
  /\ code' = [code EXCEPT
       ![insert] = Append(@, Br(Here("end"))),
       ![Here("end")] = <<Phi(Top.node, <<<<ShortCircuit(Top.node), Top.kept[1]>>,
                                          <<Top.vals[2], Here("rValue")>>>>)>>]
  /\ Attach({Here("end")}) /\ insert' = Here("end")
  /\ Return(Top.node)
  /\ Stay

\* visitingIfExpr, which takes the insertion point again after each branch.
EmitIfCondition == At("if", 0) /\ Call(1) /\ SameBlock /\ Stay /\ UNCHANGED code

EmitThen ==
  /\ At("if", 1)
  /\ Emits(<<CondBr(Top.vals[1], Here("then"), Here("else"))>>)
  /\ Attach({Here("then")}) /\ insert' = Here("then")
  /\ Call(2)
  /\ Stay

\* Mutant: the block of the first branch is the one made for it.
EmitElseOldBlock ==
  /\ At("if", 2) /\ Operands(Top.node) = 3
  /\ Emits(<<Br(Here("end"))>>)
  /\ Attach({Here("else")}) /\ insert' = Here("else")
  /\ CallKeeping(3, <<Here("then")>>)
  /\ Stay

EmitElse ==
  /\ At("if", 2) /\ Operands(Top.node) = 3
  /\ Emits(<<Br(Here("end"))>>)
  /\ Attach({Here("else")}) /\ insert' = Here("else")
  /\ CallKeeping(3, <<insert>>)
  /\ Stay

\* The result of an if that is not void is the PHI of its branches.
Merge(n, f) == IF Void[n] THEN <<>> ELSE <<Phi(n, f)>>
IfValue == IF Void[Top.node] THEN NoValue ELSE Top.node

EndIf ==
  /\ At("if", 3)
  /\ code' = [code EXCEPT
       ![insert] = Append(@, Br(Here("end"))),
       ![Here("end")] = Merge(Top.node, <<<<Top.vals[2], Top.kept[1]>>, <<Top.vals[3], insert>>>>)]
  /\ Attach({Here("end")}) /\ insert' = Here("end")
  /\ Return(IfValue)
  /\ Stay

EndIfWithoutElse ==
  /\ At("if", 2) /\ Operands(Top.node) = 2
  /\ code' = [code EXCEPT
       ![insert] = Append(@, Br(Here("end"))),
       ![Here("else")] = <<Br(Here("end"))>>,
       ![Here("end")] = Merge(Top.node, <<<<Top.vals[2], insert>>>>)]
  /\ Attach({Here("else"), Here("end")}) /\ insert' = Here("end")
  /\ Return(IfValue)
  /\ Stay

\* visitingWhileExpr.
EmitWhileCondition ==
  /\ At("while", 0)
  /\ Emits(<<Br(Here("condition"))>>)
  /\ Attach({Here("condition")}) /\ insert' = Here("condition")
  /\ Call(1)
  /\ Stay

EmitWhileBody ==
  /\ At("while", 1)
  /\ Emits(<<CondBr(Top.vals[1], Here("body"), Here("end"))>>)
  /\ Attach({Here("body")}) /\ insert' = Here("body")
  /\ Call(2)
  /\ Stay

EndWhile ==
  /\ At("while", 2)
  /\ Emits(<<Br(Here("condition"))>>)
  /\ Attach({Here("end")}) /\ insert' = Here("end")
  /\ Return(NoValue)
  /\ Stay

\* visitingAssertExprStmt.
EmitAssertCondition == At("assert", 0) /\ Call(1) /\ SameBlock /\ Stay /\ UNCHANGED code

EndAssert ==
  /\ At("assert", 1)
  /\ code' = [code EXCEPT
       ![insert] = Append(@, CondBr(Top.vals[1], Here("pass"), Here("fail"))),
       ![Here("pass")] = <<Do("pass", Top.node, TrueConst), Br(Here("end"))>>,
       ![Here("fail")] = <<Do("fail", Top.node, FalseConst), Br(Here("end"))>>]
  /\ Attach({Here("pass"), Here("fail"), Here("end")}) /\ insert' = Here("end")
  /\ Return(NoValue)
  /\ Stay

-----------------------------------------------------------------------------
(***************************************************************************)
(* llvm::verifyModule: every block of a function ends with its only        *)
(* terminator, branches stay in the function, a PHI names exactly the      *)
(* predecessors of its block and no value is missing.                      *)
(***************************************************************************)
Predecessors(f, b) == {a \in attached[f] : code[a] # <<>> /\ Last(code[a]).op # "ret" /\ b \in Last(code[a]).to}

BlockVerifies(f, b) ==
  LET c == code[b]
  IN  /\ c # <<>> /\ Terminates(Last(c))
      /\ \A i \in 1 .. Len(c) - 1 : ~Terminates(c[i])
      /\ Last(c).op # "ret" => Last(c).to \subseteq attached[f]
      /\ Last(c).op = "condbr" => Last(c).cond # NoValue
      /\ \A i \in DOMAIN c : c[i].op = "phi" =>
           /\ Len(c[i].from) = Cardinality(Predecessors(f, b))
           /\ {c[i].from[j][2] : j \in DOMAIN c[i].from} = Predecessors(f, b)
           /\ \A j \in DOMAIN c[i].from : c[i].from[j][1] # NoValue

Verifies == \A f \in Node : \A b \in attached[f] : BlockVerifies(f, b)

Emitted == phase = "emit" /\ stack = <<>>

FailVerification ==
  /\ Emitted /\ ~Verifies
  /\ phase' = "asserted" /\ Refuse
  /\ UNCHANGED <<emission, machine>>

\* The module is loaded; its init function or one of its functions is called.
Start ==
  /\ Emitted /\ Verifies
  /\ phase' = "run" /\ Begin
  /\ pc' = <<<<entry', "begin">>, 1>> /\ came' = <<entry', "begin">>
  /\ env' = (TrueConst :> TRUE) @@ (FalseConst :> FALSE)
  /\ UNCHANGED emission

-----------------------------------------------------------------------------
(***************************************************************************)
(* The run of the compiled code, one instruction a step.                   *)
(***************************************************************************)
Instruction == code[pc[1]][pc[2]]
Executing(what) == phase = "run" /\ Instruction.op = what
Computed(v) == env' = (Instruction.node :> v) @@ env
GoOn == pc' = <<pc[1], pc[2] + 1>> /\ UNCHANGED <<came, phase, emission, program, status, entry>>
Occurs(e) == Len(trace) < MaxEvents /\ trace' = Append(trace, e)

RunEval ==
  /\ Executing("eval")
  /\ \E v \in BOOLEAN : Occurs(<<"eval", Instruction.node, v>>) /\ Computed(v)
  /\ GoOn

RunEqual ==
  /\ Executing("equal")
  /\ Computed(env[Instruction.left] = env[Instruction.right])
  /\ GoOn /\ UNCHANGED trace

RunPhi ==
  /\ Executing("phi")
  /\ \E j \in DOMAIN Instruction.from :
       Instruction.from[j][2] = came /\ Computed(env[Instruction.from[j][1]])
  /\ GoOn /\ UNCHANGED trace

\* A report of type void shows nothing.
RunVoidResult ==
  /\ Executing("result") /\ Void[Instruction.node]
  /\ GoOn /\ UNCHANGED <<trace, env>>

RunCall ==
  /\ phase = "run" /\ Instruction.op \in {"result", "pass", "fail"}
  /\ ~(Instruction.op = "result" /\ Void[Instruction.node])
  /\ Occurs(<<Instruction.op, Instruction.node, env[Instruction.arg]>>)
  /\ GoOn /\ UNCHANGED env

Jump(b) ==
  /\ pc' = <<b, 1>> /\ came' = pc[1]
  /\ UNCHANGED <<sourceVars, phase, emission, env>>
RunBr     == Executing("br") /\ \E b \in Instruction.to : Jump(b)
RunCondBr == Executing("condbr") /\ Jump(IF env[Instruction.cond] THEN Instruction.yes ELSE Instruction.no)

RunRet ==
  /\ Executing("ret")
  /\ phase' = "over" /\ status' = "returned"
  /\ trace' = IF Instruction.value = NoValue THEN trace
              ELSE Append(trace, <<"return", entry, env[Instruction.value]>>)
  /\ UNCHANGED <<program, entry, emission, machine>>

Over ==
  /\ phase \in {"asserted", "over"} \/ (phase = "run" /\ Len(trace) = MaxEvents)
  /\ UNCHANGED vars

Operators ==
  \/ EmitLeaf \/ EmitDefinition \/ EmitRight \/ EmitLeft \/ EmitEqual \/ EmitItem \/ EndList
  \/ EmitLogicalLeft \/ EmitLogicalRight \/ EndLogical
Branching ==
  \/ EmitIfCondition \/ EmitThen \/ EmitElse \/ EndIf \/ EndIfWithoutElse
  \/ EmitWhileCondition \/ EmitWhileBody \/ EndWhile \/ EmitAssertCondition \/ EndAssert
Module == StartFunction \/ EndFunction \/ EmitStatement \/ EndModule \/ FailVerification \/ Start
Run == RunEval \/ RunEqual \/ RunPhi \/ RunVoidResult \/ RunCall \/ RunBr \/ RunCondBr \/ RunRet

Next == Operators \/ Branching \/ Module \/ Run \/ Over

Spec == Init /\ [][Next]_vars

-----------------------------------------------------------------------------
(***************************************************************************)
(* Properties.                                                             *)
(***************************************************************************)

\* Blocks stay blocks and the stack holds activations of this program.  While it is
\* emitted, no activation goes beyond the operands of its expression, and those
\* that wait for the body of a function wait for one; while it runs, the next
\* instruction is one of a block of some function.
TypeOK ==
  /\ phase \in {"emit", "asserted", "run", "over"}
  /\ insert \in Block /\ attached \in [Node -> SUBSET Block] /\ pending \subseteq Node
  /\ DOMAIN code = Block /\ pc[1] \in Block /\ came \in Block
  /\ \A i \in DOMAIN stack : /\ stack[i].node \in Node /\ stack[i].step \in -1 .. 3
                             /\ Range(stack[i].vals) \subseteq Operand
                             /\ Range(stack[i].kept) \subseteq Block
  /\ phase = "emit" =>
       \A i \in DOMAIN stack : IF stack[i].step = -1 THEN stack[i].node \in program.functions
                              ELSE stack[i].step \in 0 .. Operands(stack[i].node)
  /\ phase = "run" => \E f \in Node : pc[1] \in attached[f] /\ pc[2] \in DOMAIN code[pc[1]]

\* While code is emitted the insertion point is in a block of exactly one
\* function and no instruction lands behind a terminator; every other block
\* is finished, but those which a function under way leaves open behind it.
InsertionPointIsOpen ==
  phase = "emit" /\ stack # <<>> =>
    LET suspended == {stack[i].kept[1] : i \in {j \in DOMAIN stack : stack[j].step = -1}}
    IN  /\ \E f \in Node : insert \in attached[f] /\ \A g \in Node \ {f} : insert \notin attached[g]
        /\ \A f \in Node : \A b \in attached[f] :
             LET ends == {i \in DOMAIN code[b] : Terminates(code[b][i])}
             IN  ends = IF b = insert \/ b \in suspended THEN {} ELSE {Len(code[b])}

\* An expression with a branch in it, at whatever depth.
Branches[n \in Node] ==
  \/ program.kind[n] \in {"and", "or", "if", "while", "assert"}
  \/ \E i \in DOMAIN Kids(n) : Branches[Kids(n)[i]]
Reached[n \in Node] == {n} \union UNION {Reached[Kids(n)[i]] : i \in DOMAIN Kids(n)}
BranchInOperand ==
  \E r \in program.functions \union {program.main} : \E n \in Reached[r] :
    /\ program.kind[n] \in {"and", "or"}
    /\ \E i \in DOMAIN Kids(n) : Branches[Kids(n)[i]]

\* Verification refuses a module only for a logical operator one of whose
\* operands contains a branch, and refuses every such module.
RefusedForOperandsOnly ==
  /\ phase = "asserted" => BranchInOperand
  /\ phase \in {"run", "over"} => ~BranchInOperand

\* emitModule asserts that the module it made passes verification.
ModuleVerifies == phase # "asserted"

\* The compiled code does what the source means: the same leaves in the same
\* order, short-circuited as the source says, the same assertions, the same
\* results reported and the same value returned.
ImplementsSource == SourceSpec
=============================================================================
