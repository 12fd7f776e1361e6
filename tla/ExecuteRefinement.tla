-------------------------- MODULE ExecuteRefinement --------------------------
(***************************************************************************)
(* Proof that Engine implements the safety part of ExecuteAbstract under   *)
(* the mapping script <- scriptIdx, count <- Len(scripts), verdict <-      *)
(* status: every initial state of NewEngine is an initial state of the     *)
(* contract, and every step of Step or CheckErrorCondition is an Advance,  *)
(* a Reject, an Accept, or leaves the three mapped values alone (a step    *)
(* inside a script).  The steps need the inductive invariant IInv of       *)
(* EngineProofs for the types and for PCValid.                             *)
(***************************************************************************)
EXTENDS EngineProofs

\* The mapped variables of the contract.
AbsVars == <<scriptIdx, Len(scripts), status>>

\* A step of the engine seen through the mapping.
AbsStep == Abstract!Next \/ UNCHANGED AbsVars

-----------------------------------------------------------------------------
(* The pieces of Step.                                                     *)

\* Fail: an error ends the execution where it stands.
LEMMA FailAbs ==
  ASSUME status \in {"running", "done"}, NEW k, Fail(k)
  PROVE  Abstract!Next
BY DEF Fail, Abstract!Next, Abstract!Reject

\* EnterScript: moving forward to script i, or past the end, of a script
\* list that did not shrink is an Advance: the done test is the contract's.
LEMMA EnterScriptAbs ==
  ASSUME status = "running", scriptIdx \in Nat,
         NEW scr, Len(scr) \in Nat, Len(scr) >= Len(scripts),
         NEW i \in Nat, i >= scriptIdx, NEW ds, NEW ctx,
         EnterScript(scr, i, ds, ctx)
  PROVE  Abstract!Next
<1> DEFINE j == SkipEmpty(scr, i)
<1>1. j \in Nat /\ j >= i
  BY DEF SkipEmpty
<1>2. /\ scriptIdx' = j /\ scripts' = scr
      /\ status' = IF j >= Len(scr) THEN "done" ELSE "running"
  BY DEF EnterScript
<1>3. scriptIdx' >= scriptIdx
  BY <1>1, <1>2
<1>4. Abstract!Positioned'
  BY <1>1, <1>2 DEF Abstract!Positioned
<1>5. QED
  BY <1>2, <1>3, <1>4 DEF Abstract!Next, Abstract!Advance

\* EnterChecked: the starting stack fails its checks, or the engine moves
\* on to script 2 (it stood on script 1).
LEMMA EnterCheckedAbs ==
  ASSUME status = "running", scriptIdx = 1,
         NEW scr, Len(scr) \in Nat, Len(scr) >= Len(scripts),
         NEW st, NEW ctx, EnterChecked(scr, st, ctx)
  PROVE  Abstract!Next
<1>1. CASE LeafStackError(st) # "none"
  BY <1>1, FailAbs DEF EnterChecked
<1>2. CASE LeafStackError(st) = "none"
  <2>1. EnterScript(scr, 2, st, ctx)
    BY <1>2 DEF EnterChecked
  <2>2. QED
    BY <2>1, EnterScriptAbs
<1>3. QED
  BY <1>1, <1>2

\* verifyWitnessProgram fails, or enters the leaf or the end with the
\* script list kept or extended by the leaf.
LEMMA VerifyAbs ==
  ASSUME IInv, status = "running", scriptIdx = 1,
         NEW ds, verifyWitnessProgram(ds)
  PROVE  Abstract!Next
<1> DEFINE ctx == newTaprootExecutionCtx(WitnessSize(witness))
           w == IF isAnnexedWitness(witness) THEN Pop(witness) ELSE witness
           n == Len(w)
<1>1. scripts \in Seq(Script) /\ Len(scripts) \in Nat
  BY DEF IInv, TypeOK
<1>2. CASE witnessProgram.version # 1 \/ witnessProgram.len # 32
            \/ witness = <<>>
  BY <1>2, FailAbs DEF verifyWitnessProgram
<1>3. CASE ~(witnessProgram.version # 1 \/ witnessProgram.len # 32)
           /\ witness # <<>> /\ n = 1
  <2>1. Fail("KeySpendFailed")
        \/ (EnterScript(scripts, 2, ds, [ctx EXCEPT !.mustSucceed = TRUE])
            /\ UNCHANGED sigOps)
    BY <1>3 DEF verifyWitnessProgram
  <2> HIDE DEF ctx
  <2>2. CASE EnterScript(scripts, 2, ds, [ctx EXCEPT !.mustSucceed = TRUE])
    <3>1. /\ 2 \in Nat /\ 2 >= scriptIdx /\ scriptIdx \in Nat
          /\ Len(scripts) >= Len(scripts)
      BY <1>1
    <3>2. QED
      BY <2>2, <3>1, <1>1, EnterScriptAbs, Zenon
  <2>3. QED
    BY <2>1, <2>2, FailAbs
<1>4. CASE ~(witnessProgram.version # 1 \/ witnessProgram.len # 32)
           /\ witness # <<>> /\ n # 1
  <2> DEFINE cb == w[n].cb
             ws == w[n - 1].script
             st == [i \in 1..n - 2 |-> AsElem(w[i])]
             scr == Append(scripts, ws)
  <2>1. IF cb = Nil THEN Fail("InvalidControlBlock")
        ELSE IF ~LeafCommitted(cb, ws) THEN Fail("TaprootMerkleProofInvalid")
        ELSE IF cb.leafVersion # "base"
             THEN Fail("DiscourageUpgradeableTaprootVersion")
        ELSE IF ~checkScriptParses(ws) THEN Fail("Malformed")
        ELSE EnterChecked(scr, st, [ctx EXCEPT !.tapLeafHash = ws])
    BY <1>4 DEF verifyWitnessProgram
  <2>2. CASE cb = Nil \/ ~LeafCommitted(cb, ws) \/ cb.leafVersion # "base"
             \/ ~checkScriptParses(ws)
    BY <2>1, <2>2, FailAbs
  <2>3. CASE ~(cb = Nil \/ ~LeafCommitted(cb, ws) \/ cb.leafVersion # "base"
               \/ ~checkScriptParses(ws))
    <3>1. EnterChecked(scr, st, [ctx EXCEPT !.tapLeafHash = ws])
      BY <2>1, <2>3
    <3>2. Len(scr) \in Nat /\ Len(scr) >= Len(scripts)
      <4> HIDE DEF scr, ws
      <4>1. Len(Append(scripts, ws)) = Len(scripts) + 1
        BY <1>1
      <4>2. QED
        BY <1>1, <4>1 DEF scr
    <3> HIDE DEF scr, st, ctx
    <3>3. QED
      BY <3>1, <3>2, EnterCheckedAbs
  <2>4. QED
    BY <2>2, <2>3
<1>5. QED
  BY <1>2, <1>3, <1>4

\* AfterOpcode: the end of a step moves within the script (no change seen
\* through the mapping), fails, or crosses to the next script.
LEMMA AfterOpcodeAbs ==
  ASSUME IInv, status = "running",
         NEW ds, NEW alt, NEW cs, NEW ctx, NEW ops,
         AfterOpcode(ds, alt, cs, ctx, ops)
  PROVE  AbsStep
<1>1. scripts \in Seq(Script) /\ Len(scripts) \in Nat /\ scriptIdx \in Nat
  BY DEF IInv, TypeOK
<1>2. CASE Len(ds) + Len(alt) > MaxStackSize
  BY <1>2, FailAbs DEF AfterOpcode, AbsStep
<1>3. CASE ~(Len(ds) + Len(alt) > MaxStackSize)
           /\ opcodeIdx + 1 < Len(CurrentScript)
  <2>1. UNCHANGED <<scripts, scriptIdx, status>>
    BY <1>3 DEF AfterOpcode
  <2>2. QED
    BY <2>1 DEF AbsStep, AbsVars
<1>4. CASE ~(Len(ds) + Len(alt) > MaxStackSize)
           /\ ~(opcodeIdx + 1 < Len(CurrentScript))
           /\ cs # <<>>
  BY <1>4, FailAbs DEF AfterOpcode, AbsStep
<1>5. CASE ~(Len(ds) + Len(alt) > MaxStackSize)
           /\ ~(opcodeIdx + 1 < Len(CurrentScript))
           /\ cs = <<>>
           /\ scriptIdx = 1 /\ witnessProgram # Nil
  BY <1>5, VerifyAbs DEF AfterOpcode, AbsStep
<1>6. CASE ~(Len(ds) + Len(alt) > MaxStackSize)
           /\ ~(opcodeIdx + 1 < Len(CurrentScript))
           /\ cs = <<>>
           /\ ~(scriptIdx = 1 /\ witnessProgram # Nil)
  <2>1. EnterScript(scripts, scriptIdx + 1, ds, ctx)
    BY <1>6 DEF AfterOpcode
  <2>2. scriptIdx + 1 \in Nat /\ scriptIdx + 1 >= scriptIdx
    BY <1>1
  <2>3. QED
    BY <2>1, <2>2, <1>1, EnterScriptAbs DEF AbsStep
<1>7. QED
  BY <1>2, <1>3, <1>4, <1>5, <1>6

\* A stack opcode fails on an empty source stack or ends like any step.
LEMMA OpStackAbs ==
  ASSUME IInv, NEW op, NEW src, NEW ds, NEW alt, OpStack(op, src, ds, alt)
  PROVE  AbsStep
<1>1. status = "running"
  BY DEF OpStack, Executes, Dispatchable
<1>2. Fail("InvalidStackOperation")
      \/ AfterOpcode(ds, alt, condStack, taprootCtx, sigOps)
  BY DEF OpStack
<1>3. QED
  BY <1>1, <1>2, FailAbs, AfterOpcodeAbs DEF AbsStep

\* OP_CHECKSIG fails on one of its checks or ends like any step.
LEMMA OpCheckSigAbs ==
  ASSUME IInv, OpCheckSig
  PROVE  AbsStep
<1>1. status = "running"
  BY DEF OpCheckSig, Executes, Dispatchable
<1>2. (\E k : Fail(k))
      \/ \E ds, ctx : AfterOpcode(ds, astack, condStack, ctx, sigOps + 1)
  BY DEF OpCheckSig
<1>3. QED
  BY <1>1, <1>2, FailAbs, AfterOpcodeAbs DEF AbsStep

\* Every step of Step, seen through the mapping.
LEMMA StepAbs ==
  ASSUME IInv, Step
  PROVE  AbsStep
<1>1. CASE StepReservedOpcode \/ StepElementTooBig \/ StepMinimalData
  BY <1>1, FailAbs
     DEF StepReservedOpcode, StepElementTooBig, StepMinimalData, Dispatchable,
         AbsStep
<1>2. CASE StepSkipped \/ OpPush \/ OpTrue
  BY <1>2, AfterOpcodeAbs
     DEF StepSkipped, OpPush, OpTrue, Executes, Dispatchable
<1>3. CASE OpIf \/ OpNotIf
  <2>1. PICK op : OpIfNotIf(op)
    BY <1>3 DEF OpIf, OpNotIf
  <2>2. status = "running"
    BY <2>1 DEF OpIfNotIf, Executes, Dispatchable
  <2>3. (\E k : Fail(k))
        \/ \E ds, cs : AfterOpcode(ds, astack, cs, taprootCtx, sigOps)
    BY <2>1 DEF OpIfNotIf
  <2>4. QED
    BY <2>2, <2>3, FailAbs, AfterOpcodeAbs DEF AbsStep
<1>4. CASE OpElse \/ OpEndIf
  <2>1. status = "running"
    BY <1>4 DEF OpElse, OpEndIf, Executes, Dispatchable
  <2>2. (\E k : Fail(k))
        \/ \E cs : AfterOpcode(dstack, astack, cs, taprootCtx, sigOps)
    BY <1>4 DEF OpElse, OpEndIf
  <2>3. QED
    BY <2>1, <2>2, FailAbs, AfterOpcodeAbs DEF AbsStep
<1>5. CASE OpDrop \/ OpDup \/ OpToAltStack \/ OpFromAltStack
  BY <1>5, OpStackAbs DEF OpDrop, OpDup, OpToAltStack, OpFromAltStack
<1>6. CASE OpCheckSig
  BY <1>6, OpCheckSigAbs
<1>7. QED
  BY <1>1, <1>2, <1>3, <1>4, <1>5, <1>6 DEF Step

\* CheckErrorCondition accepts a done engine or rejects it.
LEMMA CheckErrorConditionAbs ==
  ASSUME CheckErrorCondition
  PROVE  Abstract!Next
<1>1. status = "done"
  BY DEF CheckErrorCondition
<1>2. CASE status' = "accepted"
  <2>1. UNCHANGED <<scripts, scriptIdx>>
    BY <1>2 DEF CheckErrorCondition, Fail
  <2>2. QED
    BY <1>1, <1>2, <2>1 DEF Abstract!Next, Abstract!Accept
<1>3. CASE status' # "accepted"
  <2>1. \E k : Fail(k)
    BY <1>3 DEF CheckErrorCondition
  <2>2. QED
    BY <1>1, <2>1, FailAbs
<1>4. QED
  BY <1>2, <1>3

-----------------------------------------------------------------------------
(* The refinement.                                                         *)

\* NewEngine starts the contract: an engine that failed construction is
\* rejected, one that did not stands on script 0 or 1 of its two.
LEMMA InitAbs == Init => Abstract!Init
<1> SUFFICES ASSUME NEW in \in Inputs, NewEngine(in[1], in[2], in[3])
             PROVE  Abstract!Init
  BY DEF Init
<1>1. /\ Len(scripts) = 2 /\ scriptIdx \in {0, 1}
      /\ status \in {"running", "rejected"}
  BY DEF NewEngine
<1>2. QED
  BY <1>1 DEF Abstract!Init, Abstract!Positioned

\* Every step of Execute is a step of the contract or leaves the mapped
\* values alone.
LEMMA NextAbs == IInv /\ [Next]_vars => [Abstract!Next]_AbsVars
<1> SUFFICES ASSUME IInv, [Next]_vars PROVE AbsStep
  BY DEF AbsStep
<1>1. CASE Step
  BY <1>1, StepAbs
<1>2. CASE CheckErrorCondition
  BY <1>2, CheckErrorConditionAbs DEF AbsStep
<1>3. CASE UNCHANGED vars
  BY <1>3 DEF vars, AbsStep, AbsVars
<1>4. QED
  BY <1>1, <1>2, <1>3 DEF Next

\* Engine implements the contract of Execute for every value of the
\* constants: NewEngine, Step and CheckErrorCondition run the scripts in
\* order without revisiting one, only append to the script list, report
\* done only past the last script, accept only a done engine, and never
\* revise a verdict.
THEOREM Refinement == Spec => ImplementsExecuteContract
<1>1. Spec => []IInv
  BY InitIInv, NextIInv, PTL DEF Spec
<1>2. QED
  BY <1>1, InitAbs, NextAbs, PTL
     DEF Spec, ImplementsExecuteContract, Abstract!SafeSpec, Abstract!avars,
         AbsVars

====
