----------------------------- MODULE StackProofs -----------------------------
(***************************************************************************)
(* Proof of ElementBound: no element on the data or alt stack of an engine *)
(* that has not failed is longer than MaxScriptElementSize.  Elements      *)
(* enter the stacks in three ways: a push, whose length executeOpcode      *)
(* checked; a one-byte result (OP_1, OP_CHECKSIG); and the witness, whose  *)
(* elements verifyWitnessProgram checks before it makes them the leaf's    *)
(* starting stack.  Every other step only moves, copies or drops elements. *)
(***************************************************************************)
EXTENDS EngineProofs

\* No element of s is longer than MaxScriptElementSize.
Bounded(s) == \A i \in 1..Len(s) : ~(s[i].len > MaxScriptElementSize)

\* The two stacks of an engine that has not failed are bounded.
EBInv == status # "rejected" => Bounded(dstack) /\ Bounded(astack)

-----------------------------------------------------------------------------
(* Bounded and the operators of Sequences.                                 *)

LEMMA BoundedEmpty == Bounded(<<>>)
BY DEF Bounded

LEMMA BoundedAppend ==
  ASSUME NEW s \in Seq(Elem), Bounded(s),
         NEW e \in Elem, ~(e.len > MaxScriptElementSize)
  PROVE  Bounded(Append(s, e))
BY AppendFacts DEF Bounded

LEMMA BoundedPop ==
  ASSUME NEW s \in Seq(Elem), Bounded(s), s # <<>>
  PROVE  /\ Bounded(Pop(s))
         /\ ~(Top(s).len > MaxScriptElementSize)
<1>1. Len(s) \in Nat /\ Len(s) >= 1
  OBVIOUS
<1>2. Bounded(Pop(s))
  BY <1>1 DEF Bounded, Pop
<1>3. ~(Top(s).len > MaxScriptElementSize)
  BY <1>1 DEF Bounded, Top
<1>4. QED
  BY <1>2, <1>3

\* Bounded is ElementBound's condition, for stacks of elements.
LEMMA BoundedElems ==
  ASSUME NEW s \in Seq(Elem), Bounded(s)
  PROVE  \A e \in ElemsOf(s) : e.len <= MaxScriptElementSize
<1> SUFFICES ASSUME NEW i \in 1..Len(s)
             PROVE  s[i].len <= MaxScriptElementSize
  BY DEF ElemsOf
<1>0. s[i] \in Elem
  OBVIOUS
<1>1. s[i].len \in Nat /\ ~(s[i].len > MaxScriptElementSize)
  BY <1>0 DEF Bounded, Elem
<1>2. QED
  BY <1>1, SizesAssumption

-----------------------------------------------------------------------------
(* The pieces of Step.                                                     *)

LEMMA FailEB ==
  ASSUME NEW k, Fail(k)
  PROVE  EBInv'
BY DEF EBInv, Fail

\* EnterChecked: the starting stack becomes the data stack only when each
\* of its elements passed the size check.
LEMMA EnterCheckedEB ==
  ASSUME NEW scr, NEW st, NEW ctx, EnterChecked(scr, st, ctx)
  PROVE  EBInv'
<1>1. CASE LeafStackError(st) # "none"
  BY <1>1, FailEB DEF EnterChecked
<1>2. CASE LeafStackError(st) = "none"
  <2>1. dstack' = st /\ astack' = <<>>
    BY <1>2 DEF EnterChecked, EnterScript
  <2>2. Bounded(st)
    BY <1>2 DEF LeafStackError, Bounded
  <2>3. QED
    BY <2>1, <2>2, BoundedEmpty DEF EBInv
<1>3. QED
  BY <1>1, <1>2

\* verifyWitnessProgram fails, enters past the key spend with the public
\* key script's own (bounded) stack, or enters the leaf through EnterChecked.
LEMMA VerifyEB ==
  ASSUME NEW ds, Bounded(ds), verifyWitnessProgram(ds)
  PROVE  EBInv'
<1> DEFINE ctx == newTaprootExecutionCtx(WitnessSize(witness))
           w == IF isAnnexedWitness(witness) THEN Pop(witness) ELSE witness
           n == Len(w)
<1>1. CASE witnessProgram.version # 1 \/ witnessProgram.len # 32
            \/ witness = <<>>
  BY <1>1, FailEB DEF verifyWitnessProgram
<1>2. CASE ~(witnessProgram.version # 1 \/ witnessProgram.len # 32)
           /\ witness # <<>> /\ n = 1
  <2>1. Fail("KeySpendFailed")
        \/ (EnterScript(scripts, 2, ds, [ctx EXCEPT !.mustSucceed = TRUE])
            /\ UNCHANGED sigOps)
    BY <1>2 DEF verifyWitnessProgram
  <2> HIDE DEF ctx
  <2>2. CASE EnterScript(scripts, 2, ds, [ctx EXCEPT !.mustSucceed = TRUE])
    <3>1. dstack' = ds /\ astack' = <<>>
      BY <2>2 DEF EnterScript
    <3>2. QED
      BY <3>1, BoundedEmpty DEF EBInv
  <2>3. QED
    BY <2>1, <2>2, FailEB
<1>3. CASE ~(witnessProgram.version # 1 \/ witnessProgram.len # 32)
           /\ witness # <<>> /\ n # 1
  <2> DEFINE cb == w[n].cb
             ws == w[n - 1].script
             st == [i \in 1..n - 2 |-> AsElem(w[i])]
  <2>1. IF cb = Nil THEN Fail("InvalidControlBlock")
        ELSE IF ~LeafCommitted(cb, ws) THEN Fail("TaprootMerkleProofInvalid")
        ELSE IF cb.leafVersion # "base"
             THEN Fail("DiscourageUpgradeableTaprootVersion")
        ELSE IF ~checkScriptParses(ws) THEN Fail("Malformed")
        ELSE EnterChecked(Append(scripts, ws), st,
                          [ctx EXCEPT !.tapLeafHash = ws])
    BY <1>3 DEF verifyWitnessProgram
  <2> HIDE DEF ctx, ws, st, cb
  <2>2. QED
    BY <2>1, FailEB, EnterCheckedEB
<1>4. QED
  BY <1>1, <1>2, <1>3

\* AfterOpcode commits bounded stacks, fails, or crosses into the next
\* script with the data stack it was given and an empty alt stack.
LEMMA AfterOpcodeEB ==
  ASSUME NEW ds, NEW alt, NEW cs, NEW ctx, NEW ops,
         Bounded(ds), Bounded(alt),
         AfterOpcode(ds, alt, cs, ctx, ops)
  PROVE  EBInv'
<1>1. CASE Len(ds) + Len(alt) > MaxStackSize
  BY <1>1, FailEB DEF AfterOpcode
<1>2. CASE ~(Len(ds) + Len(alt) > MaxStackSize)
           /\ opcodeIdx + 1 < Len(CurrentScript)
  BY <1>2 DEF AfterOpcode, EBInv
<1>3. CASE ~(Len(ds) + Len(alt) > MaxStackSize)
           /\ ~(opcodeIdx + 1 < Len(CurrentScript))
           /\ cs # <<>>
  BY <1>3, FailEB DEF AfterOpcode
<1>4. CASE ~(Len(ds) + Len(alt) > MaxStackSize)
           /\ ~(opcodeIdx + 1 < Len(CurrentScript))
           /\ cs = <<>>
           /\ scriptIdx = 1 /\ witnessProgram # Nil
  BY <1>4, VerifyEB DEF AfterOpcode
<1>5. CASE ~(Len(ds) + Len(alt) > MaxStackSize)
           /\ ~(opcodeIdx + 1 < Len(CurrentScript))
           /\ cs = <<>>
           /\ ~(scriptIdx = 1 /\ witnessProgram # Nil)
  <2>1. dstack' = ds /\ astack' = <<>>
    BY <1>5 DEF AfterOpcode, EnterScript
  <2>2. QED
    BY <2>1, BoundedEmpty DEF EBInv
<1>6. QED
  BY <1>1, <1>2, <1>3, <1>4, <1>5

\* While Step runs, both stacks are bounded and well typed.
LEMMA RunningEB ==
  ASSUME IInv, EBInv, status = "running"
  PROVE  /\ dstack \in Seq(Elem) /\ astack \in Seq(Elem)
         /\ Bounded(dstack) /\ Bounded(astack)
BY RunningFacts DEF EBInv

\* A push: executeOpcode checked the length of the pushed data, and OP_1
\* pushes a single byte.
LEMMA OpPushEB ==
  ASSUME IInv, EBInv, OpPush \/ OpTrue
  PROVE  EBInv'
<1>1. status = "running"
  BY DEF OpPush, OpTrue, Executes, Dispatchable
<1>2. /\ CurrentToken.data \in Elem /\ OneByte \in Elem
      /\ ~(CurrentToken.data.len > MaxScriptElementSize)
  <2>1. CurrentToken \in Token
    BY <1>1, RunningFacts
  <2>2. CurrentToken.data \in Elem /\ OneByte \in Elem
    BY <2>1 DEF Token, OneByte, Elem
  <2>3. CurrentToken.data.len \in Nat
    BY <2>2 DEF Elem
  <2>4. CurrentToken.data.len <= MaxScriptElementSize
    BY DEF OpPush, OpTrue, Executes, Dispatchable
  <2>5. QED
    BY <2>2, <2>3, <2>4, SizesAssumption
<1>3. ~(OneByte.len > MaxScriptElementSize)
  BY SizesAssumption DEF OneByte
<1>4. /\ OpPush => Bounded(Append(dstack, CurrentToken.data))
      /\ Bounded(Append(dstack, OneByte))
  BY <1>1, <1>2, <1>3, RunningEB, BoundedAppend
<1>5. QED
  BY <1>1, <1>4, RunningEB, AfterOpcodeEB DEF OpPush, OpTrue

\* OP_IF and OP_NOTIF keep or pop the data stack.
LEMMA OpIfNotIfEB ==
  ASSUME IInv, EBInv, NEW op, OpIfNotIf(op)
  PROVE  EBInv'
<1>1. status = "running"
  BY DEF OpIfNotIf, Executes, Dispatchable
<1>2. dstack # <<>> => Bounded(Pop(dstack))
  BY <1>1, RunningEB, BoundedPop
<1>3. QED
  BY <1>1, <1>2, RunningEB, FailEB, AfterOpcodeEB DEF OpIfNotIf

\* OP_ELSE and OP_ENDIF leave both stacks alone.
LEMMA OpElseEndIfEB ==
  ASSUME IInv, EBInv, OpElse \/ OpEndIf
  PROVE  EBInv'
<1>1. status = "running"
  BY DEF OpElse, OpEndIf, Executes, Dispatchable
<1>2. QED
  BY <1>1, RunningEB, FailEB, AfterOpcodeEB DEF OpElse, OpEndIf

\* The stack opcodes move, copy or drop elements already on a stack.
LEMMA OpStacksEB ==
  ASSUME IInv, EBInv, OpDrop \/ OpDup \/ OpToAltStack \/ OpFromAltStack
  PROVE  EBInv'
<1>1. status = "running"
  BY DEF OpDrop, OpDup, OpToAltStack, OpFromAltStack, OpStack, Executes,
         Dispatchable
<1>2. /\ dstack \in Seq(Elem) /\ astack \in Seq(Elem)
      /\ Bounded(dstack) /\ Bounded(astack)
  BY <1>1, RunningEB
<1>3. dstack # <<>> =>
        /\ Bounded(Pop(dstack))
        /\ Bounded(Append(dstack, Top(dstack)))
        /\ Bounded(Append(astack, Top(dstack)))
  <2>1. dstack # <<>> =>
          /\ Bounded(Pop(dstack)) /\ Top(dstack) \in Elem
          /\ ~(Top(dstack).len > MaxScriptElementSize)
    BY <1>2, BoundedPop, PopFacts
  <2>2. QED
    BY <1>2, <2>1, BoundedAppend
<1>4. astack # <<>> =>
        /\ Bounded(Pop(astack))
        /\ Bounded(Append(dstack, Top(astack)))
  <2>1. astack # <<>> =>
          /\ Bounded(Pop(astack)) /\ Top(astack) \in Elem
          /\ ~(Top(astack).len > MaxScriptElementSize)
    BY <1>2, BoundedPop, PopFacts
  <2>2. QED
    BY <1>2, <2>1, BoundedAppend
<1>5. ASSUME NEW op, NEW src, NEW ds, NEW alt,
             src # <<>> => Bounded(ds) /\ Bounded(alt),
             OpStack(op, src, ds, alt)
      PROVE  EBInv'
  BY <1>5, FailEB, AfterOpcodeEB DEF OpStack
<1>6. QED
  BY <1>2, <1>3, <1>4, <1>5 DEF OpDrop, OpDup, OpToAltStack, OpFromAltStack

\* OP_CHECKSIG replaces the key and signature by a verdict of at most one
\* byte.
LEMMA OpCheckSigEB ==
  ASSUME IInv, EBInv, OpCheckSig
  PROVE  EBInv'
<1>1. status = "running"
  BY DEF OpCheckSig, Executes, Dispatchable
<1>2. /\ dstack \in Seq(Elem) /\ Bounded(dstack) /\ Bounded(astack)
  BY <1>1, RunningEB
<1>3. Len(dstack) >= 2 =>
        \A valid \in BOOLEAN :
          Bounded(Append(Pop(Pop(dstack)),
                         IF valid THEN OneByte ELSE [len |-> 0, v |-> 0]))
  <2>1. Len(dstack) >= 2 => dstack # <<>>
    BY <1>2
  <2>2. Len(dstack) >= 2 => /\ Pop(dstack) \in Seq(Elem)
                            /\ Bounded(Pop(dstack))
                            /\ Pop(dstack) # <<>>
    BY <1>2, <2>1, BoundedPop, PopFacts
  <2>3. Len(dstack) >= 2 => /\ Pop(Pop(dstack)) \in Seq(Elem)
                            /\ Bounded(Pop(Pop(dstack)))
    BY <2>2, BoundedPop, PopFacts
  <2>4. /\ OneByte \in Elem /\ ~(OneByte.len > MaxScriptElementSize)
        /\ [len |-> 0, v |-> 0] \in Elem
        /\ ~([len |-> 0, v |-> 0].len > MaxScriptElementSize)
    BY SizesAssumption DEF OneByte, Elem
  <2>5. QED
    BY <2>3, <2>4, BoundedAppend
<1>4. QED
  BY <1>2, <1>3, FailEB, AfterOpcodeEB DEF OpCheckSig

\* Every step of Execute keeps the stacks bounded.
LEMMA NextEB == IInv /\ EBInv /\ [Next]_vars => EBInv'
<1> SUFFICES ASSUME IInv, EBInv, [Next]_vars PROVE EBInv'
  OBVIOUS
<1>1. CASE StepReservedOpcode \/ StepElementTooBig \/ StepMinimalData
  BY <1>1, FailEB DEF StepReservedOpcode, StepElementTooBig, StepMinimalData
<1>2. CASE StepSkipped
  BY <1>2, RunningEB, AfterOpcodeEB DEF StepSkipped, Dispatchable
<1>3. CASE OpPush \/ OpTrue
  BY <1>3, OpPushEB
<1>4. CASE OpIf \/ OpNotIf
  BY <1>4, OpIfNotIfEB DEF OpIf, OpNotIf
<1>5. CASE OpElse \/ OpEndIf
  BY <1>5, OpElseEndIfEB
<1>6. CASE OpDrop \/ OpDup \/ OpToAltStack \/ OpFromAltStack
  BY <1>6, OpStacksEB
<1>7. CASE OpCheckSig
  BY <1>7, OpCheckSigEB
<1>8. CASE CheckErrorCondition
  BY <1>8, FailEB, BoundedEmpty DEF CheckErrorCondition, EBInv
<1>9. CASE UNCHANGED vars
  BY <1>9 DEF vars, EBInv
<1>10. QED
  BY <1>1, <1>2, <1>3, <1>4, <1>5, <1>6, <1>7, <1>8, <1>9 DEF Next, Step

\* NewEngine starts with empty stacks.
LEMMA InitEB == Init => EBInv
BY BoundedEmpty DEF Init, NewEngine, EBInv

\* executeOpcode's element size check and verifyWitnessProgram's check of
\* the starting stack together keep every element of either stack within
\* MaxScriptElementSize while Execute has not failed, for every limit and
\* every input.
THEOREM ElementBoundHolds == Spec => []ElementBound
<1>1. IInv /\ EBInv => ElementBound
  BY BoundedElems DEF IInv, TypeOK, EBInv, ElementBound
<1>2. Spec => [](IInv /\ EBInv)
  BY InitIInv, NextIInv, InitEB, NextEB, PTL DEF Spec
<1>3. QED
  BY <1>1, <1>2, PTL

-----------------------------------------------------------------------------
(* CondStackNesting.                                                       *)

\* Below an entry that is not OpCondTrue, every entry is OpCondSkip.
Nested(s) ==
  \A i, j \in 1..Len(s) : i < j /\ s[i] # OpCondTrue => s[j] = OpCondSkip

LEMMA NestedEmpty == Nested(<<>>)
BY DEF Nested

\* On a nested stack the top alone tells whether every entry is true.
LEMMA NestedLive ==
  ASSUME NEW s \in Seq(CondValues), Nested(s)
  PROVE  (IF s = <<>> THEN TRUE ELSE Top(s) = OpCondTrue)
           <=> \A i \in 1..Len(s) : s[i] = OpCondTrue
<1>1. CASE s = <<>>
  BY <1>1
<1>2. CASE s # <<>>
  <2>1. Len(s) \in Nat /\ Len(s) >= 1 /\ Len(s) \in 1..Len(s)
    BY <1>2
  <2>2. Top(s) = OpCondTrue => \A i \in 1..Len(s) : s[i] = OpCondTrue
    <3> SUFFICES ASSUME Top(s) = OpCondTrue, NEW i \in 1..Len(s),
                        s[i] # OpCondTrue
                 PROVE  FALSE
      OBVIOUS
    <3>1. i < Len(s)
      BY <2>1 DEF Top
    <3>2. s[Len(s)] = OpCondSkip
      BY <2>1, <3>1 DEF Nested
    <3>3. QED
      BY <3>2 DEF Top, OpCondTrue, OpCondSkip
  <2>3. QED
    BY <1>2, <2>1, <2>2 DEF Top
<1>3. QED
  BY <1>1, <1>2

LEMMA NestedPop ==
  ASSUME NEW s \in Seq(CondValues), Nested(s), s # <<>>
  PROVE  Nested(Pop(s))
<1>1. Len(s) \in Nat /\ Len(s) >= 1
  OBVIOUS
<1>2. Len(Pop(s)) = Len(s) - 1
  BY PopFacts
<1>3. \A k \in 1..Len(s) - 1 : Pop(s)[k] = s[k]
  BY <1>1 DEF Pop
<1>4. QED
  BY <1>1, <1>2, <1>3 DEF Nested

\* OP_IF in a dead branch pushes OpCondSkip; in a live one (every entry
\* true) it pushes anything.
LEMMA NestedAppend ==
  ASSUME NEW s \in Seq(CondValues), Nested(s), NEW c \in CondValues,
         c = OpCondSkip \/ \A i \in 1..Len(s) : s[i] = OpCondTrue
  PROVE  Nested(Append(s, c))
<1>1. /\ Len(Append(s, c)) = Len(s) + 1
      /\ \A k \in 1..Len(s) : Append(s, c)[k] = s[k]
      /\ Append(s, c)[Len(s) + 1] = c
      /\ Len(s) \in Nat
  BY AppendFacts
<1>2. QED
  BY <1>1 DEF Nested

\* OP_ELSE toggles the top; a skipped top stays skipped.
LEMMA NestedToggle ==
  ASSUME NEW s \in Seq(CondValues), Nested(s), s # <<>>
  PROVE  Nested([s EXCEPT ![Len(s)] = Toggle(@)])
<1> DEFINE t == [s EXCEPT ![Len(s)] = Toggle(@)]
<1>1. Len(s) \in Nat /\ Len(s) >= 1
  OBVIOUS
<1>2. /\ Len(t) = Len(s)
      /\ \A k \in 1..Len(s) - 1 : t[k] = s[k]
      /\ t[Len(s)] = Toggle(s[Len(s)])
  BY <1>1
<1>3. s[Len(s)] = OpCondSkip => Toggle(s[Len(s)]) = OpCondSkip
  BY DEF Toggle, OpCondSkip, OpCondTrue, OpCondFalse
<1> HIDE DEF t
<1>4. QED
  BY <1>1, <1>2, <1>3 DEF Nested

\* The nesting of the conditional stack, and the types it needs.
CNInv == Nested(condStack)

\* Whatever AfterOpcode commits, the conditional stack is the one given or
\* (at a script boundary, and when verifyWitnessProgram enters the leaf)
\* the empty one, or is left alone by a failure.
LEMMA EnterCheckedCN ==
  ASSUME NEW scr, NEW st, NEW ctx, EnterChecked(scr, st, ctx)
  PROVE  condStack' \in {<<>>, condStack}
BY DEF EnterChecked, EnterScript, Fail

LEMMA VerifyCN ==
  ASSUME NEW ds, verifyWitnessProgram(ds)
  PROVE  condStack' \in {<<>>, condStack}
<1> DEFINE ctx == newTaprootExecutionCtx(WitnessSize(witness))
           w == IF isAnnexedWitness(witness) THEN Pop(witness) ELSE witness
           n == Len(w)
<1>1. CASE witnessProgram.version # 1 \/ witnessProgram.len # 32
            \/ witness = <<>>
  BY <1>1 DEF verifyWitnessProgram, Fail
<1>2. CASE ~(witnessProgram.version # 1 \/ witnessProgram.len # 32)
           /\ witness # <<>> /\ n = 1
  <2>1. Fail("KeySpendFailed")
        \/ (EnterScript(scripts, 2, ds, [ctx EXCEPT !.mustSucceed = TRUE])
            /\ UNCHANGED sigOps)
    BY <1>2 DEF verifyWitnessProgram
  <2> HIDE DEF ctx
  <2>2. QED
    BY <2>1 DEF Fail, EnterScript
<1>3. CASE ~(witnessProgram.version # 1 \/ witnessProgram.len # 32)
           /\ witness # <<>> /\ n # 1
  <2> DEFINE cb == w[n].cb
             ws == w[n - 1].script
             st == [i \in 1..n - 2 |-> AsElem(w[i])]
  <2>1. IF cb = Nil THEN Fail("InvalidControlBlock")
        ELSE IF ~LeafCommitted(cb, ws) THEN Fail("TaprootMerkleProofInvalid")
        ELSE IF cb.leafVersion # "base"
             THEN Fail("DiscourageUpgradeableTaprootVersion")
        ELSE IF ~checkScriptParses(ws) THEN Fail("Malformed")
        ELSE EnterChecked(Append(scripts, ws), st,
                          [ctx EXCEPT !.tapLeafHash = ws])
    BY <1>3 DEF verifyWitnessProgram
  <2> HIDE DEF ctx, ws, st, cb
  <2>2. QED
    BY <2>1, EnterCheckedCN DEF Fail
<1>4. QED
  BY <1>1, <1>2, <1>3

LEMMA AfterOpcodeCN ==
  ASSUME NEW ds, NEW alt, NEW cs, NEW ctx, NEW ops,
         AfterOpcode(ds, alt, cs, ctx, ops)
  PROVE  condStack' \in {cs, <<>>, condStack}
<1>1. CASE Len(ds) + Len(alt) > MaxStackSize
  BY <1>1 DEF AfterOpcode, Fail
<1>2. CASE ~(Len(ds) + Len(alt) > MaxStackSize)
           /\ opcodeIdx + 1 < Len(CurrentScript)
  BY <1>2 DEF AfterOpcode
<1>3. CASE ~(Len(ds) + Len(alt) > MaxStackSize)
           /\ ~(opcodeIdx + 1 < Len(CurrentScript))
           /\ cs # <<>>
  BY <1>3 DEF AfterOpcode, Fail
<1>4. CASE ~(Len(ds) + Len(alt) > MaxStackSize)
           /\ ~(opcodeIdx + 1 < Len(CurrentScript))
           /\ cs = <<>>
           /\ scriptIdx = 1 /\ witnessProgram # Nil
  BY <1>4, VerifyCN DEF AfterOpcode
<1>5. CASE ~(Len(ds) + Len(alt) > MaxStackSize)
           /\ ~(opcodeIdx + 1 < Len(CurrentScript))
           /\ cs = <<>>
           /\ ~(scriptIdx = 1 /\ witnessProgram # Nil)
  BY <1>5 DEF AfterOpcode, EnterScript
<1>6. QED
  BY <1>1, <1>2, <1>3, <1>4, <1>5

LEMMA FailCN ==
  ASSUME CNInv, NEW k, Fail(k)
  PROVE  CNInv'
BY DEF CNInv, Fail

LEMMA CondStepCN ==
  ASSUME CNInv, NEW ds, NEW alt, NEW cs, NEW ctx, NEW ops, Nested(cs),
         AfterOpcode(ds, alt, cs, ctx, ops)
  PROVE  CNInv'
BY AfterOpcodeCN, NestedEmpty DEF CNInv

\* A step that ends with the conditional stack it started with.
LEMMA KeepCN ==
  ASSUME CNInv, NEW ds, NEW alt, NEW ctx, NEW ops,
         AfterOpcode(ds, alt, condStack, ctx, ops)
  PROVE  CNInv'
BY CondStepCN DEF CNInv

\* OP_IF and OP_NOTIF: a dead branch pushes a skip; a live one, where every
\* entry is true, pushes the popped condition.
LEMMA OpIfNotIfCN ==
  ASSUME IInv, CNInv, NEW op, OpIfNotIf(op)
  PROVE  CNInv'
<1>1. status = "running" /\ condStack \in Seq(CondValues)
  BY RunningFacts DEF OpIfNotIf, Executes, Dispatchable
<1>2. isBranchExecuting <=> \A i \in 1..Len(condStack) : condStack[i] = OpCondTrue
  BY <1>1, NestedLive DEF CNInv, isBranchExecuting
<1>3. /\ Nested(Append(condStack, OpCondSkip))
      /\ isBranchExecuting =>
           \A b \in BOOLEAN :
             Nested(Append(condStack, IF b THEN OpCondTrue ELSE OpCondFalse))
  BY <1>1, <1>2, NestedAppend DEF CNInv, CondValues
<1>4. QED
  BY <1>3, CondStepCN, FailCN DEF OpIfNotIf

\* OP_ELSE toggles the top entry, OP_ENDIF pops it.
LEMMA OpElseEndIfCN ==
  ASSUME IInv, CNInv, OpElse \/ OpEndIf
  PROVE  CNInv'
<1>1. status = "running" /\ condStack \in Seq(CondValues)
  BY RunningFacts DEF OpElse, OpEndIf, Executes, Dispatchable
<1>2. condStack # <<>> =>
        /\ Nested([condStack EXCEPT ![Len(condStack)] = Toggle(@)])
        /\ Nested(Pop(condStack))
  BY <1>1, NestedToggle, NestedPop DEF CNInv
<1>3. QED
  BY <1>2, CondStepCN, FailCN DEF OpElse, OpEndIf

\* Every step of Execute keeps the conditional stack nested.
LEMMA NextCN == IInv /\ CNInv /\ [Next]_vars => CNInv'
<1> SUFFICES ASSUME IInv, CNInv, [Next]_vars PROVE CNInv'
  OBVIOUS
<1>1. CASE StepReservedOpcode \/ StepElementTooBig \/ StepMinimalData
  BY <1>1, FailCN DEF StepReservedOpcode, StepElementTooBig, StepMinimalData
<1>2. CASE StepSkipped \/ OpPush \/ OpTrue
  BY <1>2, KeepCN DEF StepSkipped, OpPush, OpTrue
<1>3. CASE OpIf \/ OpNotIf
  BY <1>3, OpIfNotIfCN DEF OpIf, OpNotIf
<1>4. CASE OpElse \/ OpEndIf
  BY <1>4, OpElseEndIfCN
<1>5. CASE OpDrop \/ OpDup \/ OpToAltStack \/ OpFromAltStack
  BY <1>5, KeepCN, FailCN
     DEF OpDrop, OpDup, OpToAltStack, OpFromAltStack, OpStack
<1>6. CASE OpCheckSig
  BY <1>6, KeepCN, FailCN DEF OpCheckSig
<1>7. CASE CheckErrorCondition
  BY <1>7, FailCN DEF CheckErrorCondition, CNInv
<1>8. CASE UNCHANGED vars
  BY <1>8 DEF vars, CNInv
<1>9. QED
  BY <1>1, <1>2, <1>3, <1>4, <1>5, <1>6, <1>7, <1>8 DEF Next, Step

\* NewEngine starts with an empty conditional stack.
LEMMA InitCN == Init => CNInv
BY NestedEmpty DEF Init, NewEngine, CNInv

\* OP_IF, OP_NOTIF, OP_ELSE and OP_ENDIF keep the conditional stack nested
\* in every state of every run, for every limit and every input, so
\* isBranchExecuting, which reads only the top entry, is right about every
\* enclosing branch.
THEOREM CondStackNestingHolds == Spec => []CondStackNesting
<1>1. IInv /\ CNInv => CondStackNesting
  <2> SUFFICES ASSUME IInv, CNInv PROVE CondStackNesting
    OBVIOUS
  <2>1. condStack \in Seq(CondValues)
    BY DEF IInv, TypeOK
  <2>2. QED
    BY <2>1, NestedLive DEF CNInv, Nested, CondStackNesting, isBranchExecuting
<1>2. Spec => [](IInv /\ CNInv)
  BY InitIInv, NextIInv, InitCN, NextCN, PTL DEF Spec
<1>3. QED
  BY <1>1, <1>2, PTL

-----------------------------------------------------------------------------
(* ExecuteOpcodeOrder.                                                     *)

\* Every opcode handler runs under Executes.
LEMMA HandlerExecutes ==
  ASSUME OpPush \/ OpTrue \/ OpIf \/ OpNotIf \/ OpElse \/ OpEndIf \/ OpDrop
         \/ OpDup \/ OpToAltStack \/ OpFromAltStack \/ OpCheckSig
  PROVE  \E op : Executes(op)
<1>1. CASE OpPush \/ OpTrue \/ OpElse \/ OpEndIf \/ OpCheckSig
  BY <1>1 DEF OpPush, OpTrue, OpElse, OpEndIf, OpCheckSig
<1>2. CASE OpIf \/ OpNotIf
  BY <1>2 DEF OpIf, OpNotIf, OpIfNotIf
<1>3. CASE OpDrop \/ OpDup \/ OpToAltStack \/ OpFromAltStack
  BY <1>3 DEF OpDrop, OpDup, OpToAltStack, OpFromAltStack, OpStack
<1>4. QED
  BY <1>1, <1>2, <1>3

\* No handler and neither StepSkipped nor StepMinimalData can run a token
\* that executeOpcode's first two checks reject.
LEMMA NotDispatchable ==
  ASSUME ~Dispatchable(CurrentToken), Step
  PROVE  StepReservedOpcode \/ StepElementTooBig
<1>1. ~\E op : Executes(op)
  BY DEF Executes
<1>2. ~StepSkipped /\ ~StepMinimalData
  BY DEF StepSkipped, StepMinimalData
<1>3. QED
  BY <1>1, <1>2, HandlerExecutes DEF Step

\* In a dead branch only StepSkipped runs a non-conditional opcode that
\* passed the first two checks: every handler needs Executes, and
\* StepMinimalData a live branch.
LEMMA DeadBranchSkips ==
  ASSUME CurrentToken.data.len \in Nat,
         Dispatchable(CurrentToken), ~isBranchExecuting,
         ~isOpcodeConditional(CurrentToken.op), Step
  PROVE  StepSkipped
<1>1. ~\E op : Executes(op)
  BY DEF Executes, Dispatchable
<1>2. ~StepReservedOpcode /\ ~StepElementTooBig /\ ~StepMinimalData
  BY SizesAssumption
     DEF StepReservedOpcode, StepElementTooBig, StepMinimalData, Dispatchable
<1>3. QED
  BY <1>1, <1>2, HandlerExecutes DEF Step

\* A live non-minimal push can only fail with MinimalData: each handler's
\* Executes needs a minimal push when the branch executes.
LEMMA LiveNonMinimalFails ==
  ASSUME CurrentToken.data.len \in Nat,
         Dispatchable(CurrentToken), isBranchExecuting,
         CurrentToken.op = "PUSH", ~CurrentToken.minimal, Step
  PROVE  StepMinimalData
<1>1. ~\E op : Executes(op)
  BY DEF Executes
<1>2. ~StepReservedOpcode /\ ~StepElementTooBig /\ ~StepSkipped
  BY SizesAssumption
     DEF StepReservedOpcode, StepElementTooBig, StepSkipped, Dispatchable
<1>3. QED
  BY <1>1, <1>2, HandlerExecutes DEF Step

\* StepSkipped hands AfterOpcode the unchanged stacks and the condition
\* stack, which is not empty in a dead branch: the step stays in the script
\* or fails with UnbalancedConditional before verifyWitnessProgram or
\* EnterScript could replace the data stack.
LEMMA SkippedStepShape ==
  ASSUME IInv, StepSkipped
  PROVE  /\ UNCHANGED <<dstack, astack, condStack, taprootCtx, sigOps>>
         /\ \/ UNCHANGED <<status, err>> /\ opcodeIdx' = opcodeIdx + 1
            \/ status' = "rejected" /\ err' = "UnbalancedConditional"
<1>1. condStack # <<>> /\ status = "running"
  BY DEF StepSkipped, isBranchExecuting, Dispatchable
<1>2. ~(Len(dstack) + Len(astack) > MaxStackSize)
  <2>1. Len(dstack) \in Nat /\ Len(astack) \in Nat /\ MaxStackSize \in Nat
    BY SizesAssumption, LenNat, Zenon DEF IInv, TypeOK
  <2>2. Len(dstack) + Len(astack) <= MaxStackSize
    BY <1>1 DEF IInv, StackBound
  <2>3. QED
    BY <2>1, <2>2
<1>3. AfterOpcode(dstack, astack, condStack, taprootCtx, sigOps)
  BY DEF StepSkipped
<1>4. QED
  BY <1>1, <1>2, <1>3 DEF AfterOpcode, Fail

\* Each step of Execute keeps OpcodeOrderStep.
LEMMA OrderStep ==
  ASSUME IInv, [Next]_vars
  PROVE  [OpcodeOrderStep]_vars
<1>1. CASE UNCHANGED vars
  BY <1>1
<1>2. CASE Next
  <2> SUFFICES ASSUME status = "running" PROVE OpcodeOrderStep
    BY DEF OpcodeOrderStep
  <2>1. Step
    BY <1>2 DEF Next, CheckErrorCondition
  <2>0. CurrentToken.data.len \in Nat
    BY CurrentTokenType DEF Token, Elem
  <2>2. CASE isOpcodeAlwaysIllegal(CurrentToken.op)
    <3>1. StepReservedOpcode
      BY <2>0, SizesAssumption, <2>1, <2>2, NotDispatchable DEF Dispatchable, StepElementTooBig
    <3>2. QED
      BY <2>2, <3>1 DEF StepReservedOpcode, Fail, OpcodeOrderStep
  <2>3. CASE ~isOpcodeAlwaysIllegal(CurrentToken.op)
             /\ CurrentToken.data.len > MaxScriptElementSize
    <3>1. StepElementTooBig
      BY <2>0, SizesAssumption, <2>1, <2>3, NotDispatchable DEF Dispatchable, StepReservedOpcode
    <3>2. QED
      BY <2>3, <3>1 DEF StepElementTooBig, Fail, OpcodeOrderStep
  <2>4. CASE ~isOpcodeAlwaysIllegal(CurrentToken.op)
             /\ ~(CurrentToken.data.len > MaxScriptElementSize)
             /\ ~isBranchExecuting /\ ~isOpcodeConditional(CurrentToken.op)
    <3>1. Dispatchable(CurrentToken)
      BY <2>0, SizesAssumption, <2>4 DEF Dispatchable
    <3>2. StepSkipped
      BY <2>0, <2>1, <2>4, <3>1, DeadBranchSkips
    <3>3. QED
      BY <2>4, <3>2, SkippedStepShape DEF OpcodeOrderStep
  <2>5. CASE ~isOpcodeAlwaysIllegal(CurrentToken.op)
             /\ ~(CurrentToken.data.len > MaxScriptElementSize)
             /\ ~(~isBranchExecuting /\ ~isOpcodeConditional(CurrentToken.op))
             /\ isBranchExecuting /\ CurrentToken.op = "PUSH"
             /\ ~CurrentToken.minimal
    <3>1. Dispatchable(CurrentToken)
      BY <2>0, SizesAssumption, <2>5 DEF Dispatchable
    <3>2. StepMinimalData
      BY <2>0, <2>1, <2>5, <3>1, LiveNonMinimalFails
    <3>3. QED
      BY <2>5, <3>2 DEF StepMinimalData, Fail, OpcodeOrderStep
  <2>6. CASE ~isOpcodeAlwaysIllegal(CurrentToken.op)
             /\ ~(CurrentToken.data.len > MaxScriptElementSize)
             /\ ~(~isBranchExecuting /\ ~isOpcodeConditional(CurrentToken.op))
             /\ ~(isBranchExecuting /\ CurrentToken.op = "PUSH"
                  /\ ~CurrentToken.minimal)
    BY <2>6 DEF OpcodeOrderStep
  <2>7. QED
    BY <2>2, <2>3, <2>4, <2>5, <2>6
<1>3. QED
  BY <1>1, <1>2

\* executeOpcode, for every input: a reserved opcode fails with
\* ReservedOpcode and an oversized element with ElementTooBig even in a
\* branch that is not executing; a skipped opcode (other than IF, NOTIF,
\* ELSE and ENDIF) changes neither stack, context nor sig-ops tally and
\* fails at most on the open conditional at the script's end; and an
\* executed non-minimal push fails with MinimalData.
THEOREM ExecuteOpcodeOrderHolds == Spec => ExecuteOpcodeOrder
<1>1. IInv /\ [Next]_vars => [OpcodeOrderStep]_vars
  BY OrderStep
<1>2. QED
  BY <1>1, InitIInv, NextIInv, PTL DEF Spec, ExecuteOpcodeOrder

====
