------------------------------- MODULE Engine -------------------------------
(***************************************************************************)
(* The arkade tapscript engine (pkg/arkade/engine.go): construction of an  *)
(* Engine by NewEngine, the Execute loop of Step calls with its script     *)
(* boundaries and the taproot witness verification done on the boundary   *)
(* from the public key script to the leaf, and the terminal check          *)
(* CheckErrorCondition.                                                    *)
(*                                                                         *)
(* Data is abstract: a stack element is its byte length and the class of   *)
(* its content (0 = all zero bytes, 1 = the single byte 0x01, 2 = any     *)
(* other non-zero content); a script is the sequence of tokens its         *)
(* tokenizer yields; a witness element carries what the two decoders the   *)
(* engine applies to it return (the tokens of the element read as a        *)
(* script, the parsed control block).  Signature checks are the crypto     *)
(* library's verdict, chosen nondeterministically.                         *)
(***************************************************************************)
EXTENDS Integers, Sequences

CONSTANTS
  MaxStackSize,          \* txscript.MaxStackSize: data + alt stack depth bound
  MaxScriptElementSize,  \* txscript.MaxScriptElementSize: bytes per element
  MaxScriptSize,         \* txscript.MaxScriptSize: bytes per script
  Inputs,                \* <<signature script, pk script, witness>> triples
  Nil                    \* absent witness program / taproot context / control block

ASSUME SizesAssumption ==
  /\ MaxStackSize \in Nat \ {0}
  /\ MaxScriptElementSize \in Nat \ {0}   \* 520; OP_1 pushes one byte
  /\ MaxScriptSize \in Nat

\* sigOpsDelta (engine.go): starting sig-ops budget and cost of one check.
sigOpsDelta == 50

\* The conditional execution states of txscript (OpCondFalse/True/Skip).
OpCondFalse == 0
OpCondTrue == 1
OpCondSkip == 2
CondValues == {OpCondFalse, OpCondTrue, OpCondSkip}

Elem == [len : Nat, v : 0..2]
Ops == {"PUSH", "OP_1", "IF", "NOTIF", "ELSE", "ENDIF", "VERIF", "DROP",
        "DUP", "TOALTSTACK", "FROMALTSTACK", "CHECKSIG", "BAD"}
\* A token: its opcode, the data it pushes and whether its push encoding is
\* the minimal one; "BAD" is where the tokenizer reports a malformed push.
Token == [op : Ops, data : Elem, minimal : BOOLEAN]
Script == Seq(Token)
\* A parsed control block: the leaf its Merkle proof commits to (for the
\* one output key of the model) and its leaf version.
ControlBlock == [leaf : Script, leafVersion : {"base", "other"}]
WitElem == [len : Nat, v : 0..2, annex : BOOLEAN, script : Script,
            cb : ControlBlock \cup {Nil}]
TaprootCtx == [sigOpsBudget : Int, mustSucceed : BOOLEAN,
               tapLeafHash : Script \cup {Nil}]
Status == {"running", "done", "accepted", "rejected"}

VARIABLES
  witnessProgram,  \* vm.witnessProgram (the program push of the pk script) or Nil
  witness,         \* vm.tx.TxIn[vm.txIdx].Witness
  scripts,         \* vm.scripts
  scriptIdx,       \* vm.scriptIdx (0-based, as in the code)
  opcodeIdx,       \* vm.opcodeIdx, doubling as the tokenizer position
  dstack,          \* vm.dstack, top is the last element
  astack,          \* vm.astack
  condStack,       \* vm.condStack
  taprootCtx,      \* vm.taprootCtx or Nil
  status,          \* where Execute is: stepping, done stepping, returned
  err,             \* the error Execute returns ("none" while there is none)
  sigOps           \* history: signature checks executed by the leaf script

vars == <<witnessProgram, witness, scripts, scriptIdx, opcodeIdx, dstack,
          astack, condStack, taprootCtx, status, err, sigOps>>

-----------------------------------------------------------------------------
(* Helpers on elements, tokens and scripts.                                *)

Top(s) == s[Len(s)]
Pop(s) == SubSeq(s, 1, Len(s) - 1)
Truthy(e) == e.v # 0
OneByte == [len |-> 1, v |-> 1]

\* The byte length of a token: opcode byte, push length prefix, data.
TokenSize(t) ==
  IF t.op # "PUSH" THEN 1
  ELSE t.data.len + (IF t.data.len <= 75 THEN 1
                     ELSE IF t.data.len <= 255 THEN 2 ELSE 3)
                  + (IF t.minimal THEN 0 ELSE 1)

ScriptSize(s) ==
  LET sz[i \in 0..Len(s)] == IF i = 0 THEN 0 ELSE sz[i - 1] + TokenSize(s[i])
  IN  sz[Len(s)]

\* wire.VarIntSerializeSize: the CompactSize prefix of a count or length
\* (n \div 65536 <= 65535 is n <= 2^32 - 1, written within TLC's integers).
VarIntSize(n) ==
  IF n < 253 THEN 1 ELSE IF n <= 65535 THEN 3 ELSE IF n \div 65536 <= 65535 THEN 5 ELSE 9

\* wire.TxWitness.SerializeSize: the element count's prefix, then each
\* element with its own length prefix.
WitnessSize(w) ==
  LET sz[i \in 0..Len(w)] ==
        IF i = 0 THEN VarIntSize(Len(w))
        ELSE sz[i - 1] + VarIntSize(w[i].len) + w[i].len
  IN  sz[Len(w)]

ASSUME InputsAssumption ==
  /\ Inputs \subseteq Script \X Script \X Seq(WitElem)
  /\ Nil \notin ControlBlock \cup Script \cup TaprootCtx \cup Elem

\* checkScriptParses: the tokenizer walks the script without error.
checkScriptParses(s) == \A i \in 1..Len(s) : s[i].op # "BAD"

\* txscript.IsPushOnlyScript: every opcode is at most OP_16 and it parses.
IsPushOnly(s) == \A i \in 1..Len(s) : s[i].op \in {"PUSH", "OP_1"}

\* txscript.IsWitnessProgram: a version opcode (OP_0 or OP_1..OP_16) and
\* one canonical push of 2 to 40 bytes.
IsWitnessProgram(s) ==
  /\ Len(s) = 2
  /\ \/ s[1].op = "OP_1"
     \/ s[1].op = "PUSH" /\ s[1].data.len = 0 /\ s[1].minimal
  /\ s[2].op = "PUSH" /\ s[2].minimal /\ s[2].data.len \in 2..40

\* txscript.ExtractWitnessProgramInfo: the version and the program push.
WitnessVersion(s) == IF s[1].op = "OP_1" THEN 1 ELSE 0
ProgramOf(s) == [version |-> WitnessVersion(s), len |-> s[2].data.len]

\* The witness element read as a stack element.
AsElem(w) == [len |-> w.len, v |-> w.v]

\* isAnnexedWitness: at least two elements, the last starts with the tag.
isAnnexedWitness(w) == Len(w) >= 2 /\ Top(w).len > 0 /\ Top(w).annex

\* Mutant: the commitment is not checked.
LeafCommittedUnchecked(cb, leaf) == TRUE

\* txscript.VerifyTaprootLeafCommitment for the model's one output key.
LeafCommitted(cb, leaf) == cb.leaf = leaf

\* Mutant: the budget starts at the witness size alone.
newTaprootExecutionCtxNoDelta(witnessSize) ==
  [sigOpsBudget |-> witnessSize, mustSucceed |-> FALSE, tapLeafHash |-> Nil]

\* newTaprootExecutionCtx
newTaprootExecutionCtx(witnessSize) ==
  [sigOpsBudget |-> sigOpsDelta + witnessSize, mustSucceed |-> FALSE,
   tapLeafHash |-> Nil]

\* tallysigOp: the budget after one more signature check (the caller fails
\* the script when it is below zero).
tallysigOp(ctx) == [ctx EXCEPT !.sigOpsBudget = @ - sigOpsDelta]

\* isBranchExecuting
isBranchExecuting == IF condStack = <<>> THEN TRUE ELSE Top(condStack) = OpCondTrue

\* isOpcodeConditional, isOpcodeAlwaysIllegal
isOpcodeConditional(op) == op \in {"IF", "NOTIF", "ELSE", "ENDIF"}
isOpcodeAlwaysIllegal(op) == op = "VERIF"

CurrentScript == scripts[scriptIdx + 1]
CurrentToken == CurrentScript[opcodeIdx + 1]

\* Mutant: empty scripts are not skipped.
SkipEmptyNot(scr, i) == i

\* Skip one empty script (the "Skip empty scripts" step of Step).
SkipEmpty(scr, i) == IF i < Len(scr) /\ Len(scr[i + 1]) = 0 THEN i + 1 ELSE i

-----------------------------------------------------------------------------
(* NewEngine: the engine built from the input, or its construction error. *)

ConstructionError(sig, pk, w) ==
  IF Len(sig) = 0 /\ Len(pk) = 0 THEN "EvalFalse"
  ELSE IF ~IsPushOnly(sig) THEN "NotPushOnly"
  ELSE IF ScriptSize(sig) > MaxScriptSize THEN "ScriptTooBig"
  ELSE IF ~checkScriptParses(sig) THEN "Malformed"
  ELSE IF ScriptSize(pk) > MaxScriptSize THEN "ScriptTooBig"
  ELSE IF ~checkScriptParses(pk) THEN "Malformed"
  ELSE IF IsWitnessProgram(pk) /\ Len(sig) # 0 THEN "WitnessMalleated"
  ELSE IF ~IsWitnessProgram(pk) /\ Len(w) # 0 THEN "WitnessUnexpected"
  ELSE "none"

NewEngine(sig, pk, w) ==
  /\ witness = w
  /\ scripts = <<sig, pk>>
  /\ scriptIdx = IF Len(sig) = 0 THEN 1 ELSE 0
  /\ opcodeIdx = 0
  /\ dstack = <<>>
  /\ astack = <<>>
  /\ condStack = <<>>
  /\ taprootCtx = Nil
  /\ sigOps = 0
  /\ witnessProgram = IF IsWitnessProgram(pk) THEN ProgramOf(pk) ELSE Nil
  /\ err = ConstructionError(sig, pk, w)
  /\ status = IF err = "none" THEN "running" ELSE "rejected"

Init == \E in \in Inputs : NewEngine(in[1], in[2], in[3])

-----------------------------------------------------------------------------
(* Step: the end of a step, after its opcode handler returned.             *)

Fail(kind) ==
  /\ status' = "rejected"
  /\ err' = kind
  /\ UNCHANGED <<witnessProgram, witness, scripts, scriptIdx, opcodeIdx,
                 dstack, astack, condStack, taprootCtx, sigOps>>

\* Mutant: the done test is off by one, counting the last script as run.
EnterScriptEarlyDone(scr, i, ds, ctx) ==
  LET j == SkipEmpty(scr, i) IN
  /\ scripts' = scr
  /\ scriptIdx' = j
  /\ opcodeIdx' = 0
  /\ dstack' = ds
  /\ astack' = <<>>
  /\ taprootCtx' = ctx
  /\ condStack' = <<>>
  /\ status' = IF j + 1 >= Len(scr) THEN "done" ELSE "running"
  /\ UNCHANGED <<witnessProgram, witness, err>>

\* Move the program counter to script i of scr ("Skip empty scripts" and
\* the done test of Step).
EnterScript(scr, i, ds, ctx) ==
  LET j == SkipEmpty(scr, i) IN
  /\ scripts' = scr
  /\ scriptIdx' = j
  /\ opcodeIdx' = 0
  /\ dstack' = ds
  /\ astack' = <<>>
  /\ taprootCtx' = ctx
  /\ condStack' = <<>>
  /\ status' = IF j >= Len(scr) THEN "done" ELSE "running"
  /\ UNCHANGED <<witnessProgram, witness, err>>

\* Variants with a plausible defect, used as mutants of LeafStackError.
LeafStackErrorNoDepth(st) ==
  IF \E i \in 1..Len(st) : st[i].len > MaxScriptElementSize THEN "ElementTooBig"
  ELSE "none"
LeafStackErrorNoElem(st) ==
  IF Len(st) > MaxStackSize THEN "StackOverflow" ELSE "none"

\* The checks on the starting stack at the end of verifyWitnessProgram:
\* its depth, then the size of every element.
LeafStackError(st) ==
  IF Len(st) > MaxStackSize THEN "StackOverflow"
  ELSE IF \E i \in 1..Len(st) : st[i].len > MaxScriptElementSize
       THEN "ElementTooBig"
  ELSE "none"

\* The tail of verifyWitnessProgram: the starting stack st is checked, then
\* Step goes on with script 2 of scr (the leaf, or past the end for a key
\* spend).
EnterChecked(scr, st, ctx) ==
  IF LeafStackError(st) # "none" THEN Fail(LeafStackError(st))
  ELSE EnterScript(scr, 2, st, ctx) /\ UNCHANGED sigOps

\* verifyWitnessProgram, entered with the data stack left by the public
\* key script (the alt stack has just been cleared).
verifyWitnessProgram(ds) ==
  IF witnessProgram.version # 1 \/ witnessProgram.len # 32
  THEN Fail("NotTaproot")
  ELSE IF witness = <<>> THEN Fail("WitnessProgramEmpty")
  ELSE
    LET ctx == newTaprootExecutionCtx(WitnessSize(witness))
        w == IF isAnnexedWitness(witness) THEN Pop(witness) ELSE witness
        n == Len(w)
    IN IF n = 1
       THEN \* key spend: the Schnorr check decides, the script is not run
            \/ Fail("KeySpendFailed")
            \/ /\ EnterScript(scripts, 2, ds, [ctx EXCEPT !.mustSucceed = TRUE])
               /\ UNCHANGED sigOps
       ELSE
         LET cb == w[n].cb
             ws == w[n - 1].script
             st == [i \in 1..n - 2 |-> AsElem(w[i])]
         IN IF cb = Nil THEN Fail("InvalidControlBlock")
            ELSE IF ~LeafCommitted(cb, ws) THEN Fail("TaprootMerkleProofInvalid")
            ELSE IF cb.leafVersion # "base"
                 THEN Fail("DiscourageUpgradeableTaprootVersion")
            ELSE IF ~checkScriptParses(ws) THEN Fail("Malformed")
            ELSE EnterChecked(Append(scripts, ws), st,
                              [ctx EXCEPT !.tapLeafHash = ws])

\* Mutant: the program counter is not advanced within a script.
AfterOpcodeStall(ds, as, cs, ctx, ops) ==
  IF Len(ds) + Len(as) > MaxStackSize THEN Fail("StackOverflow")
  ELSE IF opcodeIdx + 1 < Len(CurrentScript)
  THEN /\ dstack' = ds /\ astack' = as /\ condStack' = cs
       /\ taprootCtx' = ctx /\ sigOps' = ops
       /\ UNCHANGED <<witnessProgram, witness, scripts, scriptIdx, opcodeIdx,
                      status, err>>
  ELSE IF cs # <<>> THEN Fail("UnbalancedConditional")
  ELSE IF scriptIdx = 1 /\ witnessProgram # Nil
       THEN verifyWitnessProgram(ds)
       ELSE /\ EnterScript(scripts, scriptIdx + 1, ds, ctx)
            /\ sigOps' = ops

\* The rest of Step once the opcode returned: the combined stack bound,
\* then, at the end of a script, the script boundary.
AfterOpcode(ds, as, cs, ctx, ops) ==
  IF Len(ds) + Len(as) > MaxStackSize THEN Fail("StackOverflow")
  ELSE IF opcodeIdx + 1 < Len(CurrentScript)
  THEN /\ dstack' = ds /\ astack' = as /\ condStack' = cs
       /\ taprootCtx' = ctx /\ sigOps' = ops
       /\ opcodeIdx' = opcodeIdx + 1
       /\ UNCHANGED <<witnessProgram, witness, scripts, scriptIdx, status, err>>
  ELSE IF cs # <<>> THEN Fail("UnbalancedConditional")
  ELSE IF scriptIdx = 1 /\ witnessProgram # Nil
       THEN verifyWitnessProgram(ds)
       ELSE /\ EnterScript(scripts, scriptIdx + 1, ds, ctx)
            /\ sigOps' = ops

-----------------------------------------------------------------------------
(* Step: executeOpcode and the handlers it dispatches to.                  *)

\* Mutant: the element size is checked after the branch test, as in the
\* pre-taproot order, so a dead branch may hide an oversized push.
DispatchableLate(t) ==
  /\ status = "running"
  /\ CurrentToken = t
  /\ ~isOpcodeAlwaysIllegal(t.op)
  /\ (isBranchExecuting \/ isOpcodeConditional(t.op))
       => t.data.len <= MaxScriptElementSize

\* The checks executeOpcode makes before the branch test.
Dispatchable(t) ==
  /\ status = "running"
  /\ CurrentToken = t
  /\ ~isOpcodeAlwaysIllegal(t.op)
  /\ t.data.len <= MaxScriptElementSize

\* The opcode executes: the branch is live or the opcode is conditional,
\* and a live push passed checkMinimalDataPush.
Executes(op) ==
  /\ Dispatchable(CurrentToken)
  /\ CurrentToken.op = op
  /\ isBranchExecuting \/ isOpcodeConditional(op)
  /\ (isBranchExecuting /\ op = "PUSH") => CurrentToken.minimal

StepReservedOpcode ==
  /\ status = "running"
  /\ isOpcodeAlwaysIllegal(CurrentToken.op)
  /\ Fail("ReservedOpcode")

StepElementTooBig ==
  /\ status = "running"
  /\ ~isOpcodeAlwaysIllegal(CurrentToken.op)
  /\ CurrentToken.data.len > MaxScriptElementSize
  /\ Fail("ElementTooBig")

StepSkipped ==
  /\ Dispatchable(CurrentToken)
  /\ ~isBranchExecuting
  /\ ~isOpcodeConditional(CurrentToken.op)
  /\ AfterOpcode(dstack, astack, condStack, taprootCtx, sigOps)

StepMinimalData ==
  /\ Dispatchable(CurrentToken)
  /\ isBranchExecuting
  /\ CurrentToken.op = "PUSH"
  /\ ~CurrentToken.minimal
  /\ Fail("MinimalData")

\* Handlers of opcode.go (not part of src/, modelled from the spec).

OpPush ==
  /\ Executes("PUSH")
  /\ AfterOpcode(Append(dstack, CurrentToken.data), astack, condStack,
                 taprootCtx, sigOps)

OpTrue ==
  /\ Executes("OP_1")
  /\ AfterOpcode(Append(dstack, OneByte), astack, condStack, taprootCtx, sigOps)

\* popIfBool: tapscript requires an empty vector or the single byte 0x01.
MinimalIfOK(e) == e.len = 0 \/ e = OneByte

OpIfNotIf(op) ==
  /\ Executes(op)
  /\ \/ /\ ~isBranchExecuting
        /\ AfterOpcode(dstack, astack, Append(condStack, OpCondSkip),
                       taprootCtx, sigOps)
     \/ /\ isBranchExecuting
        /\ dstack = <<>>
        /\ Fail("InvalidStackOperation")
     \/ /\ isBranchExecuting
        /\ dstack # <<>>
        /\ taprootCtx # Nil /\ ~MinimalIfOK(Top(dstack))
        /\ Fail("MinimalIf")
     \/ /\ isBranchExecuting
        /\ dstack # <<>>
        /\ taprootCtx = Nil \/ MinimalIfOK(Top(dstack))
        /\ LET b == IF op = "IF" THEN Truthy(Top(dstack))
                    ELSE ~Truthy(Top(dstack))
           IN AfterOpcode(Pop(dstack), astack,
                          Append(condStack, IF b THEN OpCondTrue ELSE OpCondFalse),
                          taprootCtx, sigOps)

OpIf == OpIfNotIf("IF")
OpNotIf == OpIfNotIf("NOTIF")

\* Mutants: a skipped branch is toggled too; the toggle is arithmetic.
ToggleNoSkip(c) == IF c = OpCondTrue THEN OpCondFalse ELSE OpCondTrue
ToggleArith(c) == 1 - c

\* OP_ELSE toggles a live or dead branch and leaves a skipped one.
Toggle(c) == CASE c = OpCondTrue -> OpCondFalse
              []  c = OpCondFalse -> OpCondTrue
              []  c = OpCondSkip -> OpCondSkip

OpElse ==
  /\ Executes("ELSE")
  /\ \/ /\ condStack = <<>>
        /\ Fail("UnbalancedConditional")
     \/ /\ condStack # <<>>
        /\ AfterOpcode(dstack, astack,
                       [condStack EXCEPT ![Len(condStack)] = Toggle(@)],
                       taprootCtx, sigOps)

OpEndIf ==
  /\ Executes("ENDIF")
  /\ \/ /\ condStack = <<>>
        /\ Fail("UnbalancedConditional")
     \/ /\ condStack # <<>>
        /\ AfterOpcode(dstack, astack, Pop(condStack), taprootCtx, sigOps)

\* Mutant: the empty-stack case is not handled.
OpStackNoUnderflow(op, src, ds, as) ==
  /\ Executes(op)
  /\ src # <<>>
  /\ AfterOpcode(ds, as, condStack, taprootCtx, sigOps)

\* Stack manipulation: pop from an empty stack fails.
OpStack(op, src, ds, as) ==
  /\ Executes(op)
  /\ \/ /\ src = <<>>
        /\ Fail("InvalidStackOperation")
     \/ /\ src # <<>>
        /\ AfterOpcode(ds, as, condStack, taprootCtx, sigOps)

OpDrop == OpStack("DROP", dstack, Pop(dstack), astack)
OpDup == OpStack("DUP", dstack, Append(dstack, Top(dstack)), astack)
OpToAltStack ==
  OpStack("TOALTSTACK", dstack, Pop(dstack), Append(astack, Top(dstack)))
OpFromAltStack ==
  OpStack("FROMALTSTACK", astack, Append(dstack, Top(astack)), Pop(astack))

\* OP_CHECKSIG in tapscript: pop the key and the signature, tally one sig
\* op (tallysigOp), check the key and signature encodings, then push the
\* library's verdict.
OpCheckSig ==
  /\ Executes("CHECKSIG")
  /\ taprootCtx # Nil
  /\ \/ /\ Len(dstack) < 2
        /\ Fail("InvalidStackOperation")
     \/ /\ Len(dstack) >= 2
        /\ LET pk == Top(dstack)
               sig == dstack[Len(dstack) - 1]
               ctx == tallysigOp(taprootCtx)
           IN \/ /\ ctx.sigOpsBudget < 0
                 /\ Fail("TaprootMaxSigOps")
              \/ /\ ctx.sigOpsBudget >= 0
                 /\ pk.len = 0
                 /\ Fail("TaprootPubkeyIsEmpty")
              \/ /\ ctx.sigOpsBudget >= 0
                 /\ pk.len \notin {0, 32}
                 /\ Fail("DiscourageUpgradeablePubKeyType")
              \/ /\ ctx.sigOpsBudget >= 0
                 /\ pk.len = 32
                 /\ sig.len \notin {64, 65}
                 /\ Fail("InvalidTaprootSigLen")
              \/ /\ ctx.sigOpsBudget >= 0
                 /\ pk.len = 32
                 /\ sig.len \in {64, 65}
                 /\ \E valid \in BOOLEAN :
                      AfterOpcode(Append(Pop(Pop(dstack)),
                                         IF valid THEN OneByte
                                         ELSE [len |-> 0, v |-> 0]),
                                  astack, condStack, ctx, sigOps + 1)

-----------------------------------------------------------------------------
(* CheckErrorCondition(true), called by Execute once Step reports done.   *)

\* taprootCtx.mustSucceed, read only when there is a taproot context.
MustSucceed == taprootCtx # Nil /\ taprootCtx.mustSucceed

CheckErrorCondition ==
  /\ status = "done"
  /\ \/ /\ MustSucceed
        /\ status' = "accepted"
        /\ UNCHANGED <<witnessProgram, witness, scripts, scriptIdx, opcodeIdx,
                       dstack, astack, condStack, taprootCtx, err, sigOps>>
     \/ /\ ~MustSucceed
        /\ Len(dstack) # 1
        /\ Fail("CleanStack")
     \/ /\ ~MustSucceed
        /\ Len(dstack) = 1
        /\ IF Truthy(Top(dstack))
           THEN /\ status' = "accepted"
                /\ dstack' = <<>>
                /\ UNCHANGED <<witnessProgram, witness, scripts, scriptIdx,
                               opcodeIdx, astack, condStack, taprootCtx, err,
                               sigOps>>
           ELSE Fail("EvalFalse")

Step ==
  \/ StepReservedOpcode \/ StepElementTooBig \/ StepSkipped \/ StepMinimalData
  \/ OpPush \/ OpTrue \/ OpIf \/ OpNotIf \/ OpElse \/ OpEndIf
  \/ OpDrop \/ OpDup \/ OpToAltStack \/ OpFromAltStack \/ OpCheckSig

\* Execute returns once CheckErrorCondition has run or a step failed: the
\* states with status "accepted" or "rejected" have no successor.
Next == Step \/ CheckErrorCondition

\* Execute runs Step in a loop until it is done, with nothing in between:
\* each enabled step is eventually taken.
Spec == Init /\ [][Next]_vars /\ WF_vars(Next)

-----------------------------------------------------------------------------
(* Properties.                                                             *)

ErrKinds == {"none", "EvalFalse", "NotPushOnly", "ScriptTooBig", "Malformed",
             "WitnessMalleated", "WitnessUnexpected", "NotTaproot",
             "WitnessProgramEmpty", "KeySpendFailed", "InvalidControlBlock",
             "TaprootMerkleProofInvalid", "DiscourageUpgradeableTaprootVersion",
             "StackOverflow", "ElementTooBig", "UnbalancedConditional",
             "ReservedOpcode", "MinimalData", "MinimalIf",
             "InvalidStackOperation", "TaprootMaxSigOps", "TaprootPubkeyIsEmpty",
             "DiscourageUpgradeablePubKeyType", "InvalidTaprootSigLen",
             "CleanStack"}

ElemsOf(s) == {s[i] : i \in 1..Len(s)}

\* Every variable holds a value of its kind.
TypeOK ==
  /\ witnessProgram \in [version : {0, 1}, len : 2..40] \cup {Nil}
  /\ witness \in Seq(WitElem)
  /\ scripts \in Seq(Script)
  /\ scriptIdx \in Nat
  /\ opcodeIdx \in Nat
  /\ dstack \in Seq(Elem)
  /\ astack \in Seq(Elem)
  /\ condStack \in Seq(CondValues)
  /\ taprootCtx \in TaprootCtx \cup {Nil}
  /\ status \in Status
  /\ err \in ErrKinds
  /\ sigOps \in Nat

\* Step, verifyWitnessProgram: while Execute has not failed, the data and
\* alt stacks together never hold more than MaxStackSize elements, also
\* right after the witness became the leaf's initial stack.
StackBound ==
  status # "rejected" => Len(dstack) + Len(astack) <= MaxStackSize

\* executeOpcode and verifyWitnessProgram: while Execute has not failed, no
\* element on either stack is longer than MaxScriptElementSize, whether it
\* was pushed by the script or came from the witness.
ElementBound ==
  status # "rejected" =>
    \A e \in ElemsOf(dstack) \cup ElemsOf(astack) : e.len <= MaxScriptElementSize

\* OP_IF/OP_NOTIF/OP_ELSE and isBranchExecuting: below a non-true entry of
\* the conditional stack every entry is OpCondSkip, so the top alone tells
\* whether every enclosing branch is live (isBranchExecuting reads only
\* the top).
CondStackNesting ==
  /\ \A i, j \in 1..Len(condStack) :
       i < j /\ condStack[i] # OpCondTrue => condStack[j] = OpCondSkip
  /\ isBranchExecuting <=> \A i \in 1..Len(condStack) : condStack[i] = OpCondTrue

\* The witness with its annex removed, as verifyWitnessProgram reads it.
StrippedWitness == IF isAnnexedWitness(witness) THEN Pop(witness) ELSE witness

\* verifyWitnessProgram and CheckErrorCondition: an accepted witness-program
\* spend is a taproot spend, and either a key spend (one witness element
\* left, no leaf run) or a script path spend whose executed leaf is the one
\* the control block commits to with the base leaf version, recorded as
\* the leaf hash used for signatures.
TaprootSpendBinding ==
  (status = "accepted" /\ witnessProgram # Nil) =>
    /\ witnessProgram = [version |-> 1, len |-> 32]
    /\ taprootCtx # Nil
    /\ \/ /\ taprootCtx.mustSucceed
          /\ Len(StrippedWitness) = 1
          /\ Len(scripts) = 2
       \/ LET w == StrippedWitness IN
          /\ ~taprootCtx.mustSucceed
          /\ Len(w) >= 2 /\ Len(scripts) = 3
          /\ w[Len(w)].cb # Nil
          /\ w[Len(w)].cb.leaf = scripts[3]
          /\ w[Len(w)].cb.leafVersion = "base"
          /\ taprootCtx.tapLeafHash = scripts[3]

\* tallysigOp and the signature opcodes: while the leaf runs, its budget is
\* the initial 50 + witness size less 50 per signature check executed, and
\* never below zero.
SigOpsBudgetSound ==
  (taprootCtx # Nil /\ status # "rejected") =>
    /\ taprootCtx.sigOpsBudget
         = sigOpsDelta + WitnessSize(witness) - sigOpsDelta * sigOps
    /\ taprootCtx.sigOpsBudget >= 0

\* Step (the tokenizer branch the code comments call unreachable): while
\* Execute steps, the program counter is on a token of an existing script
\* and that token parses.
PCValid ==
  status = "running" =>
    /\ scriptIdx < Len(scripts)
    /\ opcodeIdx < Len(CurrentScript)
    /\ CurrentToken.op # "BAD"

\* executeOpcode's order of checks: a reserved opcode, then an oversized
\* element, fail the step whether or not the branch executes; only then is
\* an opcode of a dead branch (other than a conditional) skipped, changing
\* neither stack, context nor tally and failing at most on the open
\* conditional at the script's end; and only an executed push is held to
\* the minimal encoding.
OpcodeOrderStep ==
  status = "running" =>
    LET t == CurrentToken IN
    IF isOpcodeAlwaysIllegal(t.op) THEN err' = "ReservedOpcode"
    ELSE IF t.data.len > MaxScriptElementSize THEN err' = "ElementTooBig"
    ELSE IF ~isBranchExecuting /\ ~isOpcodeConditional(t.op)
    THEN /\ UNCHANGED <<dstack, astack, condStack, taprootCtx, sigOps>>
         /\ \/ UNCHANGED <<status, err>> /\ opcodeIdx' = opcodeIdx + 1
            \/ status' = "rejected" /\ err' = "UnbalancedConditional"
    ELSE IF isBranchExecuting /\ t.op = "PUSH" /\ ~t.minimal
    THEN err' = "MinimalData"
    ELSE TRUE
ExecuteOpcodeOrder == [][OpcodeOrderStep]_vars

\* NewEngine and verifyWitnessProgram against the specification's "each
\* script <= MaxScriptSize and parses cleanly before execution": no script
\* the engine holds, the tapscript leaf included, is larger than
\* MaxScriptSize bytes.
ScriptSizeBound ==
  \A i \in 1..Len(scripts) : ScriptSize(scripts[i]) <= MaxScriptSize

\* The progress measure of Execute's loop: the status (Step runs before
\* CheckErrorCondition, which runs before the verdict), then, while Step
\* runs, the scripts still to enter (at most three: signature, public key
\* and tapscript leaf) and the opcodes left in the current script.
StatusRank(s) == CASE s = "running" -> 2 [] s = "done" -> 1 [] OTHER -> 0
MaxScripts == 3
Variant ==
  <<StatusRank(status),
    IF status = "running" THEN MaxScripts - scriptIdx ELSE 0,
    IF status = "running" THEN Len(CurrentScript) - opcodeIdx ELSE 0>>
LexLess(u, v) ==
  \/ u[1] < v[1]
  \/ u[1] = v[1] /\ u[2] < v[2]
  \/ u[1] = v[1] /\ u[2] = v[2] /\ u[3] < v[3]

\* Step and CheckErrorCondition: every step of Execute's loop takes the
\* measure, a triple of naturals, strictly down in lexicographic order (each
\* opcode advances the program counter, each script boundary moves to a later
\* script, the done check and every failure end the loop), so Execute cannot
\* run for ever whatever the scheduling.
VariantStep ==
  /\ Variant \in Nat \X Nat \X Nat
  /\ Variant' \in Nat \X Nat \X Nat
  /\ LexLess(Variant', Variant)
VariantDecreases == [][VariantStep]_vars

\* Execute: every execution returns, accepted or rejected.
Termination == <>(status \in {"accepted", "rejected"})


-----------------------------------------------------------------------------
(* Refinement: Engine implements the contract of Execute.                  *)

\* The engine seen through its verdict, the index of its script and the
\* number of scripts it holds.
Abstract == INSTANCE ExecuteAbstract
              WITH script <- scriptIdx, count <- Len(scripts), verdict <- status

\* NewEngine, Step and CheckErrorCondition together keep the safety part
\* of the promise of Execute: scripts are run in order and never revisited,
\* the list of scripts only grows, the engine is done only past its last
\* script, only a done engine is accepted, and the verdict is final. (The
\* fairness part, a verdict is eventually given, is Termination: the
\* abstract Next is enabled exactly until a verdict.)
ImplementsExecuteContract == Abstract!SafeSpec

=============================================================================
