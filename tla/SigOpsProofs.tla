----------------------------- MODULE SigOpsProofs -----------------------------
(***************************************************************************)
(* Proof of SigOpsBudgetSound: the taproot sig-ops budget is the initial   *)
(* 50 + witness size, less 50 per signature check executed, and is never   *)
(* negative while the engine has not failed.  It is not inductive alone:   *)
(* verifyWitnessProgram creates the context from the witness size with     *)
(* the tally of checks still at zero, so the strengthening says that no    *)
(* signature is checked before the context exists, and that the context    *)
(* does not exist while Step is on the first two scripts.                  *)
(***************************************************************************)
EXTENDS EngineProofs

\* The budget ctx carries after ops signature checks, as tallysigOp leaves
\* it and OP_CHECKSIG requires it.
Budgeted(ctx, ops) ==
  /\ ctx.sigOpsBudget = sigOpsDelta + WitnessSize(witness) - sigOpsDelta * ops
  /\ ctx.sigOpsBudget >= 0

\* The context and tally a step may leave, whether committed or not.
CtxTally(ctx, ops) ==
  /\ ctx = Nil => ops = 0
  /\ (status = "running" /\ scriptIdx < 2) => ctx = Nil
  /\ ctx # Nil => Budgeted(ctx, ops)

\* The strengthening of SigOpsBudgetSound.
SigInv ==
  /\ taprootCtx = Nil => sigOps = 0
  /\ (status = "running" /\ scriptIdx < 2) => taprootCtx = Nil
  /\ SigOpsBudgetSound

-----------------------------------------------------------------------------

\* A failing step keeps the context and the tally, and leaves nothing to
\* budget.
LEMMA FailSig ==
  ASSUME SigInv, NEW k, Fail(k)
  PROVE  SigInv'
BY DEF SigInv, SigOpsBudgetSound, Fail

\* EnterScript, entered past the public key script with no check done yet
\* and a fresh context: the leaf (or the end) starts with the full budget.
LEMMA EnterFreshSig ==
  ASSUME SigInv, sigOps = 0, WitnessSize(witness) \in Nat,
         NEW scr, NEW st, NEW ctx,
         ctx.sigOpsBudget = sigOpsDelta + WitnessSize(witness),
         EnterScript(scr, 2, st, ctx), UNCHANGED sigOps
  PROVE  SigInv'
<1>1. /\ scriptIdx' = SkipEmpty(scr, 2)
      /\ SkipEmpty(scr, 2) \in Nat /\ SkipEmpty(scr, 2) >= 2
      /\ taprootCtx' = ctx /\ witness' = witness
  BY DEF EnterScript, SkipEmpty
<1>2. ctx.sigOpsBudget
        = sigOpsDelta + WitnessSize(witness) - sigOpsDelta * 0
      /\ ctx.sigOpsBudget >= 0
  BY DEF sigOpsDelta
<1>3. sigOps' = 0 /\ ~(scriptIdx' < 2)
  BY <1>1
<1>4. (taprootCtx = Nil => sigOps = 0)'
  BY <1>3
<1>5. ((status = "running" /\ scriptIdx < 2) => taprootCtx = Nil)'
  BY <1>3
<1>6. SigOpsBudgetSound'
  BY <1>1, <1>2, <1>3 DEF SigOpsBudgetSound
<1>7. QED
  BY <1>4, <1>5, <1>6 DEF SigInv

\* EnterChecked, entered in the same state: it fails on the starting stack
\* or enters the leaf with the full budget.
LEMMA EnterCheckedSig ==
  ASSUME SigInv, sigOps = 0, WitnessSize(witness) \in Nat,
         NEW scr, NEW st, NEW ctx,
         ctx.sigOpsBudget = sigOpsDelta + WitnessSize(witness),
         EnterChecked(scr, st, ctx)
  PROVE  SigInv'
<1>1. CASE LeafStackError(st) # "none"
  BY <1>1, FailSig DEF EnterChecked
<1>2. CASE LeafStackError(st) = "none"
  BY <1>2, EnterFreshSig DEF EnterChecked
<1>3. QED
  BY <1>1, <1>2

\* verifyWitnessProgram fails or starts the leaf with a fresh context.
LEMMA VerifySig ==
  ASSUME IInv, SigInv, status = "running", scriptIdx = 1,
         NEW ds, verifyWitnessProgram(ds)
  PROVE  SigInv'
<1> DEFINE ctx == newTaprootExecutionCtx(WitnessSize(witness))
           w == IF isAnnexedWitness(witness) THEN Pop(witness) ELSE witness
           n == Len(w)
<1>1. sigOps = 0 /\ WitnessSize(witness) \in Nat
  BY DEF SigInv, IInv, WitnessSized
<1>2. /\ [ctx EXCEPT !.mustSucceed = TRUE].sigOpsBudget
           = sigOpsDelta + WitnessSize(witness)
      /\ \A ws : [ctx EXCEPT !.tapLeafHash = ws].sigOpsBudget
                   = sigOpsDelta + WitnessSize(witness)
  BY DEF newTaprootExecutionCtx
<1>3. CASE witnessProgram.version # 1 \/ witnessProgram.len # 32
            \/ witness = <<>>
  BY <1>3, FailSig DEF verifyWitnessProgram
<1>4. CASE ~(witnessProgram.version # 1 \/ witnessProgram.len # 32)
           /\ witness # <<>> /\ n = 1
  <2>1. Fail("KeySpendFailed")
        \/ (EnterScript(scripts, 2, ds, [ctx EXCEPT !.mustSucceed = TRUE])
            /\ UNCHANGED sigOps)
    BY <1>4 DEF verifyWitnessProgram
  <2> HIDE DEF ctx
  <2>2. QED
    BY <2>1, <1>1, <1>2, FailSig, EnterFreshSig
<1>5. CASE ~(witnessProgram.version # 1 \/ witnessProgram.len # 32)
           /\ witness # <<>> /\ n # 1
  <2> DEFINE cb == w[n].cb
             ws == w[n - 1].script
             st == [i \in 1..n - 2 |-> AsElem(w[i])]
  <2>1. IF cb = Nil THEN Fail("InvalidControlBlock")
        ELSE IF ~LeafCommitted(cb, ws) THEN Fail("TaprootMerkleProofInvalid")
        ELSE IF cb.leafVersion # "base"
             THEN Fail("DiscourageUpgradeableTaprootVersion")
        ELSE IF ~checkScriptParses(ws) THEN Fail("Malformed")
        ELSE EnterChecked(Append(scripts, ws), st,
                          [ctx EXCEPT !.tapLeafHash = ws])
    BY <1>5 DEF verifyWitnessProgram
  <2> HIDE DEF ctx, ws, st, cb
  <2>2. QED
    BY <2>1, <1>1, <1>2, FailSig, EnterCheckedSig
<1>6. QED
  BY <1>3, <1>4, <1>5

\* AfterOpcode commits the context and tally the handler left, fails, or
\* crosses into the next script with them (verifyWitnessProgram makes its
\* own context).
LEMMA AfterOpcodeSig ==
  ASSUME IInv, SigInv, status = "running",
         NEW ds, NEW alt, NEW cs, NEW ctx, NEW ops, CtxTally(ctx, ops),
         AfterOpcode(ds, alt, cs, ctx, ops)
  PROVE  SigInv'
<1>1. scriptIdx \in Nat
  BY DEF IInv, TypeOK
<1>2. CASE Len(ds) + Len(alt) > MaxStackSize
  BY <1>2, FailSig DEF AfterOpcode
<1>3. CASE ~(Len(ds) + Len(alt) > MaxStackSize)
           /\ opcodeIdx + 1 < Len(CurrentScript)
  <2>1. /\ taprootCtx' = ctx /\ sigOps' = ops
        /\ UNCHANGED <<witness, scriptIdx, status>>
    BY <1>3 DEF AfterOpcode
  <2>2. QED
    BY <2>1 DEF CtxTally, Budgeted, SigInv, SigOpsBudgetSound
<1>4. CASE ~(Len(ds) + Len(alt) > MaxStackSize)
           /\ ~(opcodeIdx + 1 < Len(CurrentScript))
           /\ cs # <<>>
  BY <1>4, FailSig DEF AfterOpcode
<1>5. CASE ~(Len(ds) + Len(alt) > MaxStackSize)
           /\ ~(opcodeIdx + 1 < Len(CurrentScript))
           /\ cs = <<>>
           /\ scriptIdx = 1 /\ witnessProgram # Nil
  BY <1>5, VerifySig DEF AfterOpcode
<1>6. CASE ~(Len(ds) + Len(alt) > MaxStackSize)
           /\ ~(opcodeIdx + 1 < Len(CurrentScript))
           /\ cs = <<>>
           /\ ~(scriptIdx = 1 /\ witnessProgram # Nil)
  <2>1. EnterScript(scripts, scriptIdx + 1, ds, ctx) /\ sigOps' = ops
    BY <1>6 DEF AfterOpcode
  <2>2. /\ scriptIdx' = SkipEmpty(scripts, scriptIdx + 1)
        /\ scriptIdx' \in Nat /\ scriptIdx' >= scriptIdx + 1
        /\ taprootCtx' = ctx /\ witness' = witness
        /\ status' # "rejected"
    BY <2>1, <1>1 DEF EnterScript, SkipEmpty
  <2>3. scriptIdx' < 2 => scriptIdx < 2
    BY <2>2, <1>1
  <2>4. QED
    BY <2>1, <2>2, <2>3 DEF CtxTally, Budgeted, SigInv, SigOpsBudgetSound
<1>7. QED
  BY <1>2, <1>3, <1>4, <1>5, <1>6

\* A handler that leaves the context and the tally as they were.
LEMMA KeepSig ==
  ASSUME IInv, SigInv, status = "running", NEW ds, NEW alt, NEW cs,
         AfterOpcode(ds, alt, cs, taprootCtx, sigOps)
  PROVE  SigInv'
<1>1. CtxTally(taprootCtx, sigOps)
  BY DEF SigInv, SigOpsBudgetSound, CtxTally, Budgeted
<1>2. QED
  BY <1>1, AfterOpcodeSig

\* OP_CHECKSIG tallies one check: the budget it commits is 50 lower, which
\* is the formula for one more check, and it fails below zero.
LEMMA OpCheckSigSig ==
  ASSUME IInv, SigInv, OpCheckSig
  PROVE  SigInv'
<1>1. status = "running" /\ taprootCtx # Nil
  BY DEF OpCheckSig, Executes, Dispatchable
<1>2. taprootCtx \in TaprootCtx /\ sigOps \in Nat /\ scriptIdx \in Nat
      /\ WitnessSize(witness) \in Nat
  BY <1>1 DEF IInv, TypeOK, WitnessSized
<1> DEFINE ctx == tallysigOp(taprootCtx)
<1>3. ctx \in TaprootCtx /\ ctx # Nil
  BY <1>2, TallyType, InputsAssumption
<1>4. ctx.sigOpsBudget >= 0 => CtxTally(ctx, sigOps + 1)
  <2>1. taprootCtx.sigOpsBudget
          = sigOpsDelta + WitnessSize(witness) - sigOpsDelta * sigOps
    BY <1>1 DEF SigInv, SigOpsBudgetSound
  <2>2. ctx.sigOpsBudget = taprootCtx.sigOpsBudget - sigOpsDelta
    BY <1>2 DEF tallysigOp, TaprootCtx
  <2>3. ctx.sigOpsBudget
          = sigOpsDelta + WitnessSize(witness) - sigOpsDelta * (sigOps + 1)
    BY <1>2, <2>1, <2>2 DEF sigOpsDelta, TaprootCtx
  <2>4. scriptIdx >= 2
    BY <1>1, <1>2 DEF SigInv
  <2> HIDE DEF ctx
  <2>5. QED
    BY <1>2, <1>3, <2>3, <2>4 DEF CtxTally, Budgeted
<1>5. (\E k : Fail(k))
      \/ (/\ ctx.sigOpsBudget >= 0
          /\ \E ds : AfterOpcode(ds, astack, condStack, ctx, sigOps + 1))
  BY DEF OpCheckSig
<1> HIDE DEF ctx
<1>6. QED
  BY <1>1, <1>4, <1>5, FailSig, AfterOpcodeSig

\* Every step of Execute keeps the strengthening.
LEMMA NextSig == IInv /\ SigInv /\ [Next]_vars => SigInv'
<1> SUFFICES ASSUME IInv, SigInv, [Next]_vars PROVE SigInv'
  OBVIOUS
<1>1. CASE StepReservedOpcode \/ StepElementTooBig \/ StepMinimalData
  BY <1>1, FailSig
     DEF StepReservedOpcode, StepElementTooBig, StepMinimalData
<1>2. CASE StepSkipped \/ OpPush \/ OpTrue
  BY <1>2, KeepSig DEF StepSkipped, OpPush, OpTrue, Executes, Dispatchable
<1>3. CASE OpIf \/ OpNotIf
  <2>1. PICK op : OpIfNotIf(op)
    BY <1>3 DEF OpIf, OpNotIf
  <2>2. status = "running"
    BY <2>1 DEF OpIfNotIf, Executes, Dispatchable
  <2>3. (\E k : Fail(k))
        \/ \E ds, cs : AfterOpcode(ds, astack, cs, taprootCtx, sigOps)
    BY <2>1 DEF OpIfNotIf
  <2>4. QED
    BY <2>2, <2>3, FailSig, KeepSig
<1>4. CASE OpElse \/ OpEndIf
  <2>1. status = "running"
    BY <1>4 DEF OpElse, OpEndIf, Executes, Dispatchable
  <2>2. (\E k : Fail(k))
        \/ \E cs : AfterOpcode(dstack, astack, cs, taprootCtx, sigOps)
    BY <1>4 DEF OpElse, OpEndIf
  <2>3. QED
    BY <2>1, <2>2, FailSig, KeepSig
<1>5. CASE OpDrop \/ OpDup \/ OpToAltStack \/ OpFromAltStack
  <2>1. PICK op, src, ds, alt : OpStack(op, src, ds, alt)
    BY <1>5 DEF OpDrop, OpDup, OpToAltStack, OpFromAltStack
  <2>2. status = "running"
    BY <2>1 DEF OpStack, Executes, Dispatchable
  <2>3. Fail("InvalidStackOperation")
        \/ AfterOpcode(ds, alt, condStack, taprootCtx, sigOps)
    BY <2>1 DEF OpStack
  <2>4. QED
    BY <2>2, <2>3, FailSig, KeepSig
<1>6. CASE OpCheckSig
  BY <1>6, OpCheckSigSig
<1>7. CASE CheckErrorCondition
  <2>1. CASE \E k : Fail(k)
    BY <2>1, FailSig
  <2>2. CASE ~\E k : Fail(k)
    <3>1. /\ status = "done" /\ status' = "accepted"
          /\ UNCHANGED <<witness, scriptIdx, taprootCtx, sigOps>>
      BY <1>7, <2>2 DEF CheckErrorCondition
    <3>2. QED
      BY <3>1 DEF SigInv, SigOpsBudgetSound
  <2>3. QED
    BY <2>1, <2>2
<1>8. CASE UNCHANGED vars
  BY <1>8 DEF vars, SigInv, SigOpsBudgetSound
<1>9. QED
  BY <1>1, <1>2, <1>3, <1>4, <1>5, <1>6, <1>7, <1>8 DEF Next, Step

\* NewEngine starts with no taproot context and no check done.
LEMMA InitSig == Init => SigInv
BY DEF Init, NewEngine, SigInv, SigOpsBudgetSound

\* tallysigOp and OP_CHECKSIG: for every witness and every script, the
\* sig-ops budget of a running tapscript leaf is exactly 50 + witness size
\* less 50 per executed signature check, and never negative.
THEOREM SigOpsBudgetHolds == Spec => []SigOpsBudgetSound
<1>1. Spec => [](IInv /\ SigInv)
  BY InitIInv, NextIInv, InitSig, NextSig, PTL DEF Spec
<1>2. QED
  BY <1>1, PTL DEF SigInv

====
