---------------------------- MODULE TaprootProofs ----------------------------
(***************************************************************************)
(* Proof of TaprootSpendBinding: an accepted witness-program spend is a    *)
(* taproot key spend, or a script path spend that ran the leaf its control *)
(* block commits to.  The shape of the spend is fixed by the one call of   *)
(* verifyWitnessProgram at the end of the public key script; the           *)
(* strengthening says that before that call the engine stands on script 1  *)
(* with no taproot context, and after it the shape holds and the index is  *)
(* past script 1, so the call is never repeated.  OP_CHECKSIG changes the  *)
(* context's budget only, never its mustSucceed flag or its leaf hash.     *)
(***************************************************************************)
EXTENDS EngineProofs

\* The spend shape TaprootSpendBinding asks of an accepted engine, for the
\* taproot context c and the script list scr.
BindingOf(c, scr) ==
  /\ witnessProgram = [version |-> 1, len |-> 32]
  /\ c # Nil
  /\ \/ /\ c.mustSucceed
        /\ Len(StrippedWitness) = 1
        /\ Len(scr) = 2
     \/ LET w == StrippedWitness IN
        /\ ~c.mustSucceed
        /\ Len(w) >= 2 /\ Len(scr) = 3
        /\ w[Len(w)].cb # Nil
        /\ w[Len(w)].cb.leaf = scr[3]
        /\ w[Len(w)].cb.leafVersion = "base"
        /\ c.tapLeafHash = scr[3]

Binding(c) == BindingOf(c, scripts)

\* Step has not reached the end of the public key script yet.
PreLeaf ==
  /\ status = "running" /\ scriptIdx = 1
  /\ taprootCtx = Nil /\ Len(scripts) = 2

\* The strengthening of TaprootSpendBinding.
TInv ==
  (witnessProgram # Nil /\ status # "rejected") =>
    \/ PreLeaf
    \/ scriptIdx >= 2 /\ Binding(taprootCtx)

\* The context a step commits differs from the current one at most in its
\* budget.
SameFlags(c) ==
  \/ c = taprootCtx
  \/ /\ taprootCtx # Nil /\ c # Nil
     /\ c.mustSucceed = taprootCtx.mustSucceed
     /\ c.tapLeafHash = taprootCtx.tapLeafHash

-----------------------------------------------------------------------------

LEMMA FailT ==
  ASSUME NEW k, Fail(k)
  PROVE  TInv'
BY DEF TInv, Fail

\* Binding reads only the flags of the context.
LEMMA BindingFlags ==
  ASSUME NEW c, SameFlags(c), Binding(taprootCtx)
  PROVE  Binding(c)
BY DEF SameFlags, Binding, BindingOf

\* EnterScript from the end of the public key script: the engine enters the
\* leaf (or the end) with the context and script list the caller built.
LEMMA EnterScriptT ==
  ASSUME NEW scr, NEW st, NEW ctx, BindingOf(ctx, scr),
         EnterScript(scr, 2, st, ctx)
  PROVE  TInv'
<1>1. /\ scriptIdx' = SkipEmpty(scr, 2)
      /\ SkipEmpty(scr, 2) \in Nat /\ SkipEmpty(scr, 2) >= 2
      /\ scripts' = scr /\ taprootCtx' = ctx
      /\ witness' = witness /\ witnessProgram' = witnessProgram
  BY DEF EnterScript, SkipEmpty
<1>2. StrippedWitness' = StrippedWitness
  BY <1>1 DEF StrippedWitness, isAnnexedWitness, Top, Pop
<1>3. Binding(taprootCtx)'
  BY <1>1, <1>2 DEF Binding, BindingOf
<1>4. QED
  BY <1>1, <1>3 DEF TInv

\* EnterChecked: the engine fails on the starting stack, or enters as above.
LEMMA EnterCheckedT ==
  ASSUME NEW scr, NEW st, NEW ctx, BindingOf(ctx, scr),
         EnterChecked(scr, st, ctx)
  PROVE  TInv'
<1>1. CASE LeafStackError(st) # "none"
  BY <1>1, FailT DEF EnterChecked
<1>2. CASE LeafStackError(st) = "none"
  BY <1>2, EnterScriptT DEF EnterChecked
<1>3. QED
  BY <1>1, <1>2

\* verifyWitnessProgram, called once at the end of the public key script,
\* fails or fixes the spend shape.
LEMMA VerifyT ==
  ASSUME IInv, status = "running", scriptIdx = 1, witnessProgram # Nil,
         NEW ds, verifyWitnessProgram(ds)
  PROVE  TInv'
<1> DEFINE ctx == newTaprootExecutionCtx(WitnessSize(witness))
           w == IF isAnnexedWitness(witness) THEN Pop(witness) ELSE witness
           n == Len(w)
<1>1. /\ witnessProgram \in [version : {0, 1}, len : 2..40]
      /\ witness \in Seq(WitElem)
      /\ Len(scripts) = 2 /\ scripts \in Seq(Script)
  BY DEF IInv, TypeOK, ScriptLayout
<1>2. /\ w \in Seq(WitElem) /\ n \in Nat
      /\ witness # <<>> => n >= 1
      /\ w = StrippedWitness
  BY <1>1 DEF isAnnexedWitness, Pop, StrippedWitness
<1>3. /\ ctx \in TaprootCtx
      /\ ~ctx.mustSucceed
  BY DEF IInv, WitnessSized, newTaprootExecutionCtx, TaprootCtx, sigOpsDelta
<1>4. CASE witnessProgram.version # 1 \/ witnessProgram.len # 32
            \/ witness = <<>>
  BY <1>4, FailT DEF verifyWitnessProgram
<1>5. CASE ~(witnessProgram.version # 1 \/ witnessProgram.len # 32)
  <2>1. witnessProgram = [version |-> 1, len |-> 32]
    BY <1>1, <1>5
  <2>2. CASE witness # <<>> /\ n = 1
    <3>1. Fail("KeySpendFailed")
          \/ (EnterScript(scripts, 2, ds, [ctx EXCEPT !.mustSucceed = TRUE])
              /\ UNCHANGED sigOps)
      BY <1>5, <2>2 DEF verifyWitnessProgram
    <3>2. /\ [ctx EXCEPT !.mustSucceed = TRUE] \in TaprootCtx
          /\ [ctx EXCEPT !.mustSucceed = TRUE].mustSucceed
      BY <1>3 DEF TaprootCtx
    <3>3. [ctx EXCEPT !.mustSucceed = TRUE] # Nil
      BY <3>2, InputsAssumption
    <3>4. BindingOf([ctx EXCEPT !.mustSucceed = TRUE], scripts)
      BY <1>1, <1>2, <2>1, <2>2, <3>2, <3>3 DEF BindingOf
    <3> HIDE DEF ctx
    <3>5. QED
      BY <3>1, <3>4, FailT, EnterScriptT
  <2>3. CASE witness # <<>> /\ n # 1
    <3> DEFINE cb == w[n].cb
               ws == w[n - 1].script
               st == [i \in 1..n - 2 |-> AsElem(w[i])]
               scr == Append(scripts, ws)
               c2 == [ctx EXCEPT !.tapLeafHash = ws]
    <3>1. IF cb = Nil THEN Fail("InvalidControlBlock")
          ELSE IF ~LeafCommitted(cb, ws) THEN Fail("TaprootMerkleProofInvalid")
          ELSE IF cb.leafVersion # "base"
               THEN Fail("DiscourageUpgradeableTaprootVersion")
          ELSE IF ~checkScriptParses(ws) THEN Fail("Malformed")
          ELSE EnterChecked(scr, st, c2)
      BY <1>5, <2>3 DEF verifyWitnessProgram
    <3>2. CASE cb = Nil \/ ~LeafCommitted(cb, ws) \/ cb.leafVersion # "base"
               \/ ~checkScriptParses(ws)
      BY <3>1, <3>2, FailT
    <3>3. CASE ~(cb = Nil \/ ~LeafCommitted(cb, ws) \/ cb.leafVersion # "base"
                 \/ ~checkScriptParses(ws))
      <4>1. n >= 2
        <5>1. n >= 1 /\ n # 1 /\ n \in Nat
          BY <1>2, <2>3
        <5> HIDE DEF n
        <5>2. QED
          BY <5>1
      <4>2. /\ ws \in Script
            /\ Len(scr) = 3 /\ scr[3] = ws
        <5>1. w[n - 1] \in WitElem
          BY <1>2, <4>1
        <5>2. ws \in Script
          BY <5>1 DEF WitElem
        <5> HIDE DEF scr, ws
        <5>3. /\ Len(Append(scripts, ws)) = Len(scripts) + 1
              /\ Append(scripts, ws)[Len(scripts) + 1] = ws
          <6>1. scripts \in Seq(Script)
            BY <1>1
          <6>2. QED
            BY <6>1, <5>2, AppendFacts, Zenon
        <5>4. QED
          BY <1>1, <5>2, <5>3 DEF scr
      <4>3. /\ c2 \in TaprootCtx /\ ~c2.mustSucceed /\ c2.tapLeafHash = ws
        BY <1>3, <4>2 DEF TaprootCtx
      <4>4. c2 # Nil
        BY <4>3, InputsAssumption
      <4>5. /\ cb # Nil /\ cb.leaf = ws /\ cb.leafVersion = "base"
        BY <3>3 DEF LeafCommitted
      <4>6. BindingOf(c2, scr)
        <5> HIDE DEF cb, ws, scr, c2, w, n
        <5>1. Len(w) >= 2 /\ w[Len(w)].cb = cb
          BY <4>1 DEF n, cb
        <5>2. QED
          BY <1>2, <2>1, <4>2, <4>3, <4>4, <4>5, <5>1 DEF BindingOf
      <4> HIDE DEF ctx, cb, ws, st, scr, c2
      <4>7. QED
        BY <3>1, <3>3, <4>6, EnterCheckedT
    <3>4. QED
      BY <3>2, <3>3
  <2>4. QED
    BY <1>4, <2>2, <2>3
<1>6. QED
  BY <1>4, <1>5

\* The spend shape depends on nothing a step that keeps these changes.
LEMMA BindingStable ==
  ASSUME NEW c, BindingOf(c, scripts),
         UNCHANGED <<witnessProgram, witness, scripts>>
  PROVE  BindingOf(c, scripts)'
<1>1. StrippedWitness' = StrippedWitness
  BY DEF StrippedWitness, isAnnexedWitness, Top, Pop
<1>2. QED
  BY <1>1 DEF BindingOf

\* AfterOpcode commits a context with the flags of the current one, fails,
\* calls verifyWitnessProgram at the end of script 1, or crosses into a
\* later script with the shape already fixed.
LEMMA AfterOpcodeT ==
  ASSUME IInv, TInv, status = "running",
         NEW ds, NEW alt, NEW cs, NEW ctx, NEW ops, SameFlags(ctx),
         AfterOpcode(ds, alt, cs, ctx, ops)
  PROVE  TInv'
<1>1. scriptIdx \in Nat
  BY DEF IInv, TypeOK
<1>2. CASE Len(ds) + Len(alt) > MaxStackSize
  BY <1>2, FailT DEF AfterOpcode
<1>3. CASE ~(Len(ds) + Len(alt) > MaxStackSize)
           /\ opcodeIdx + 1 < Len(CurrentScript)
  <2>1. /\ taprootCtx' = ctx
        /\ UNCHANGED <<witnessProgram, witness, scripts, scriptIdx, status>>
    BY <1>3 DEF AfterOpcode
  <2>2. CASE PreLeaf
    BY <2>1, <2>2 DEF SameFlags, PreLeaf, TInv
  <2>3. CASE scriptIdx >= 2 /\ Binding(taprootCtx)
    <3>1. Binding(ctx)
      BY <2>3, BindingFlags
    <3>2. Binding(taprootCtx)'
      BY <2>1, <3>1, BindingStable DEF Binding
    <3>3. QED
      BY <2>1, <2>3, <3>2 DEF TInv
  <2>4. QED
    BY <2>1, <2>2, <2>3 DEF TInv
<1>4. CASE ~(Len(ds) + Len(alt) > MaxStackSize)
           /\ ~(opcodeIdx + 1 < Len(CurrentScript))
           /\ cs # <<>>
  BY <1>4, FailT DEF AfterOpcode
<1>5. CASE ~(Len(ds) + Len(alt) > MaxStackSize)
           /\ ~(opcodeIdx + 1 < Len(CurrentScript))
           /\ cs = <<>>
           /\ scriptIdx = 1 /\ witnessProgram # Nil
  BY <1>5, VerifyT DEF AfterOpcode
<1>6. CASE ~(Len(ds) + Len(alt) > MaxStackSize)
           /\ ~(opcodeIdx + 1 < Len(CurrentScript))
           /\ cs = <<>>
           /\ ~(scriptIdx = 1 /\ witnessProgram # Nil)
  <2>1. EnterScript(scripts, scriptIdx + 1, ds, ctx)
    BY <1>6 DEF AfterOpcode
  <2>2. /\ scriptIdx' = SkipEmpty(scripts, scriptIdx + 1)
        /\ scriptIdx' \in Nat /\ scriptIdx' >= scriptIdx + 1
        /\ taprootCtx' = ctx
        /\ UNCHANGED <<witnessProgram, witness, scripts>>
    BY <2>1, <1>1 DEF EnterScript, SkipEmpty
  <2>3. CASE witnessProgram = Nil
    BY <2>2, <2>3 DEF TInv
  <2>4. CASE witnessProgram # Nil
    <3>1. scriptIdx >= 2 /\ Binding(taprootCtx)
      BY <1>6, <2>4 DEF TInv, PreLeaf
    <3>2. Binding(ctx)
      BY <3>1, BindingFlags
    <3>3. Binding(taprootCtx)'
      BY <2>2, <3>2, BindingStable DEF Binding
    <3>4. scriptIdx' >= 2
      BY <1>1, <2>2, <3>1
    <3>5. QED
      BY <3>3, <3>4 DEF TInv
  <2>5. QED
    BY <2>3, <2>4
<1>7. QED
  BY <1>2, <1>3, <1>4, <1>5, <1>6

\* A handler that commits the context it found.
LEMMA KeepT ==
  ASSUME IInv, TInv, status = "running", NEW ds, NEW alt, NEW cs,
         AfterOpcode(ds, alt, cs, taprootCtx, sigOps)
  PROVE  TInv'
BY AfterOpcodeT DEF SameFlags

\* OP_CHECKSIG commits the context with a lower budget only.
LEMMA OpCheckSigT ==
  ASSUME IInv, TInv, OpCheckSig
  PROVE  TInv'
<1>1. status = "running" /\ taprootCtx # Nil
  BY DEF OpCheckSig, Executes, Dispatchable
<1>2. taprootCtx \in TaprootCtx
  BY <1>1 DEF IInv, TypeOK
<1> DEFINE ctx == tallysigOp(taprootCtx)
<1>3. ctx \in TaprootCtx
  BY <1>2, TallyType
<1>4. SameFlags(ctx)
  <2>1. ctx # Nil
    BY <1>3, InputsAssumption
  <2>2. ctx.mustSucceed = taprootCtx.mustSucceed
        /\ ctx.tapLeafHash = taprootCtx.tapLeafHash
    BY <1>2 DEF tallysigOp, TaprootCtx
  <2>3. QED
    BY <1>1, <2>1, <2>2 DEF SameFlags
<1>5. (\E k : Fail(k))
      \/ \E ds : AfterOpcode(ds, astack, condStack, ctx, sigOps + 1)
  BY DEF OpCheckSig
<1> HIDE DEF ctx
<1>6. QED
  BY <1>1, <1>4, <1>5, FailT, AfterOpcodeT

\* Every step of Execute keeps the strengthening.
LEMMA NextT == IInv /\ TInv /\ [Next]_vars => TInv'
<1> SUFFICES ASSUME IInv, TInv, [Next]_vars PROVE TInv'
  OBVIOUS
<1>1. CASE StepReservedOpcode \/ StepElementTooBig \/ StepMinimalData
  BY <1>1, FailT
     DEF StepReservedOpcode, StepElementTooBig, StepMinimalData
<1>2. CASE StepSkipped \/ OpPush \/ OpTrue
  BY <1>2, KeepT DEF StepSkipped, OpPush, OpTrue, Executes, Dispatchable
<1>3. CASE OpIf \/ OpNotIf
  <2>1. PICK op : OpIfNotIf(op)
    BY <1>3 DEF OpIf, OpNotIf
  <2>2. status = "running"
    BY <2>1 DEF OpIfNotIf, Executes, Dispatchable
  <2>3. (\E k : Fail(k))
        \/ \E ds, cs : AfterOpcode(ds, astack, cs, taprootCtx, sigOps)
    BY <2>1 DEF OpIfNotIf
  <2>4. QED
    BY <2>2, <2>3, FailT, KeepT
<1>4. CASE OpElse \/ OpEndIf
  <2>1. status = "running"
    BY <1>4 DEF OpElse, OpEndIf, Executes, Dispatchable
  <2>2. (\E k : Fail(k))
        \/ \E cs : AfterOpcode(dstack, astack, cs, taprootCtx, sigOps)
    BY <1>4 DEF OpElse, OpEndIf
  <2>3. QED
    BY <2>1, <2>2, FailT, KeepT
<1>5. CASE OpDrop \/ OpDup \/ OpToAltStack \/ OpFromAltStack
  <2>1. PICK op, src, ds, alt : OpStack(op, src, ds, alt)
    BY <1>5 DEF OpDrop, OpDup, OpToAltStack, OpFromAltStack
  <2>2. status = "running"
    BY <2>1 DEF OpStack, Executes, Dispatchable
  <2>3. Fail("InvalidStackOperation")
        \/ AfterOpcode(ds, alt, condStack, taprootCtx, sigOps)
    BY <2>1 DEF OpStack
  <2>4. QED
    BY <2>2, <2>3, FailT, KeepT
<1>6. CASE OpCheckSig
  BY <1>6, OpCheckSigT
<1>7. CASE CheckErrorCondition
  <2>1. CASE \E k : Fail(k)
    BY <2>1, FailT
  <2>2. CASE ~\E k : Fail(k)
    <3>1. /\ status = "done" /\ status' = "accepted"
          /\ UNCHANGED <<witnessProgram, witness, scripts, scriptIdx,
                         taprootCtx>>
      BY <1>7, <2>2 DEF CheckErrorCondition
    <3>2. witnessProgram # Nil => scriptIdx >= 2 /\ Binding(taprootCtx)
      BY <3>1 DEF TInv, PreLeaf
    <3>3. Binding(taprootCtx) => Binding(taprootCtx)'
      BY <3>1, BindingStable DEF Binding
    <3>4. QED
      BY <3>1, <3>2, <3>3 DEF TInv
  <2>3. QED
    BY <2>1, <2>2
<1>8. CASE UNCHANGED vars
  <2>1. UNCHANGED <<witnessProgram, witness, scripts, scriptIdx, taprootCtx,
                    status>>
    BY <1>8 DEF vars
  <2>2. Binding(taprootCtx) => Binding(taprootCtx)'
    BY <2>1, BindingStable DEF Binding
  <2>3. QED
    BY <2>1, <2>2 DEF TInv, PreLeaf
<1>9. QED
  BY <1>1, <1>2, <1>3, <1>4, <1>5, <1>6, <1>7, <1>8 DEF Next, Step

\* NewEngine refuses a witness program behind a non-empty signature script,
\* so a running witness-program engine starts on script 1 with no context.
LEMMA InitT == Init => TInv
<1> SUFFICES ASSUME NEW in \in Inputs, NewEngine(in[1], in[2], in[3])
             PROVE  TInv
  BY DEF Init
<1>1. CASE witnessProgram # Nil /\ status # "rejected"
  <2>1. ConstructionError(in[1], in[2], in[3]) = "none"
    BY <1>1 DEF NewEngine
  <2>2. IsWitnessProgram(in[2])
    BY <1>1 DEF NewEngine
  <2>3. Len(in[1]) = 0
    BY <2>1, <2>2 DEF ConstructionError
  <2>4. QED
    BY <1>1, <2>1, <2>3 DEF NewEngine, TInv, PreLeaf
<1>2. QED
  BY <1>1 DEF TInv

\* verifyWitnessProgram and CheckErrorCondition: for every witness and
\* every pair of scripts, an accepted witness-program spend is a taproot
\* key spend with one witness element, or a script path spend that ran the
\* base-version leaf its control block commits to, with that leaf's hash
\* in the context.
THEOREM TaprootSpendBindingHolds == Spec => []TaprootSpendBinding
<1>1. Spec => [](IInv /\ TInv)
  BY InitIInv, NextIInv, InitT, NextT, PTL DEF Spec
<1>2. TInv => TaprootSpendBinding
  BY DEF TInv, PreLeaf, Binding, BindingOf, TaprootSpendBinding
<1>3. QED
  BY <1>1, <1>2, PTL

====
