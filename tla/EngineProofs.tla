---------------------------- MODULE EngineProofs ----------------------------
(***************************************************************************)
(* Proofs about Engine: the type invariant and PCValid (Step never reads   *)
(* past the end of a script, nor a token that does not parse) hold in      *)
(* every reachable state, for every value of the constants.                *)
(***************************************************************************)
EXTENDS Engine, InductionLemmas, TLAPS

\* How Execute lays out vm.scripts: the signature and public key scripts,
\* then at most the leaf; while Step is on the first two the leaf is not
\* there yet; and every script held by an engine that has not failed
\* parses (NewEngine and verifyWitnessProgram call checkScriptParses).
ScriptLayout ==
  /\ Len(scripts) \in {2, 3}
  /\ (status = "running" /\ scriptIdx < 2) => Len(scripts) = 2
  /\ status # "rejected" =>
       \A k \in 1..Len(scripts) : checkScriptParses(scripts[k])

\* The input's serialized witness size, from which newTaprootExecutionCtx
\* starts the budget, is a natural number (InputsAssumption; the witness
\* never changes).
WitnessSized == WitnessSize(witness) \in Nat

\* The inductive invariant.
IInv == TypeOK /\ PCValid /\ ScriptLayout /\ WitnessSized /\ StackBound

-----------------------------------------------------------------------------
(* Facts about the operators of Sequences.                                 *)

\* A token of a script that parses, at a position inside it, parses.
LEMMA ParsedAt ==
  ASSUME NEW sc \in Script, checkScriptParses(sc), NEW i \in Nat, i + 1 < Len(sc)
  PROVE  sc[i + 2].op # "BAD"
BY DEF checkScriptParses

\* A sum of naturals within a bound keeps each summand within it.
LEMMA BoundArith ==
  ASSUME NEW a \in Nat, NEW b \in Nat, NEW m \in Nat, ~(a + b > m)
  PROVE  a + b <= m /\ a <= m /\ b <= m
OBVIOUS

LEMMA SumBound ==
  ASSUME NEW a \in Nat, NEW b \in Nat, NEW m \in Nat, a + b <= m
  PROVE  b <= m
OBVIOUS

\* A natural below a length of two or three leaves a natural below three.
LEMMA ThreeMinus ==
  ASSUME NEW i \in Nat, NEW n \in {2, 3}, i < n
  PROVE  3 - i \in Nat
OBVIOUS

\* The length of a sequence is a natural number.
LEMMA LenNat ==
  ASSUME NEW S, NEW q \in Seq(S)
  PROVE  Len(q) \in Nat
OBVIOUS

\* Append of an element of S to a sequence over S.
LEMMA AppendFacts ==
  ASSUME NEW S, NEW q \in Seq(S), NEW e \in S
  PROVE  /\ Append(q, e) \in Seq(S)
         /\ Len(Append(q, e)) = Len(q) + 1
         /\ \A k \in 1..Len(q) : Append(q, e)[k] = q[k]
         /\ Append(q, e)[Len(q) + 1] = e
OBVIOUS

\* Top and Pop of a non-empty sequence over S.
LEMMA PopFacts ==
  ASSUME NEW S, NEW q \in Seq(S), q # <<>>
  PROVE  /\ Top(q) \in S
         /\ Pop(q) \in Seq(S)
         /\ Len(Pop(q)) = Len(q) - 1
<1>1. Len(q) \in Nat /\ Len(q) >= 1 /\ q \in [1..Len(q) -> S]
  OBVIOUS
<1>2. Top(q) \in S
  BY <1>1 DEF Top
<1>3. Pop(q) \in Seq(S) /\ Len(Pop(q)) = Len(q) - 1
  BY <1>1 DEF Pop
<1>4. QED
  BY <1>2, <1>3

-----------------------------------------------------------------------------
(* The initial states.                                                     *)

\* wire.VarIntSerializeSize: every CompactSize prefix is a natural number.
LEMMA VarIntSizeNat ==
  ASSUME NEW n
  PROVE  VarIntSize(n) \in Nat
  BY DEF VarIntSize

\* wire.TxWitness.SerializeSize: the size the loop computes for a witness
\* of well-formed elements is a natural number.
LEMMA WitnessSizeNat ==
  ASSUME NEW w \in Seq(WitElem)
  PROVE  WitnessSize(w) \in Nat
<1> DEFINE sz == CHOOSE f : f = [i \in 0..Len(w) |->
                                   IF i = 0 THEN VarIntSize(Len(w))
                                   ELSE f[i - 1] + VarIntSize(w[i].len) + w[i].len]
<1> DEFINE base == VarIntSize(Len(w))
<1>0. Len(w) \in Nat
  OBVIOUS
<1>1. WitnessSize(w) = sz[Len(w)]
  BY DEF WitnessSize
<1>2. FiniteNatInductiveDefHypothesis(sz, base,
        LAMBDA v, i : v + VarIntSize(w[i].len) + w[i].len, 0, Len(w))
  BY DEF FiniteNatInductiveDefHypothesis
<1>3. FiniteNatInductiveDefConclusion(sz, base,
        LAMBDA v, i : v + VarIntSize(w[i].len) + w[i].len, 0, Len(w))
  BY <1>0, <1>2, FiniteNatInductiveDef
<1>4. \A i \in 0..Len(w) :
        sz[i] = IF i = 0 THEN base ELSE sz[i - 1] + VarIntSize(w[i].len) + w[i].len
  BY <1>3 DEF FiniteNatInductiveDefConclusion
<1> DEFINE S == {i \in Nat : sz[i] \in Nat}
<1>5. 0 \in S
  <2>1. base \in Nat
    BY VarIntSizeNat
  <2> HIDE DEF base
  <2>2. QED
    BY <1>4, <2>1
<1>6. \A i \in S \cap 0..(Len(w) - 1) : i + 1 \in S
  <2> SUFFICES ASSUME NEW i \in S \cap 0..(Len(w) - 1) PROVE i + 1 \in S
    OBVIOUS
  <2>1. w[i + 1] \in WitElem
    OBVIOUS
  <2>2. w[i + 1].len \in Nat
    BY <2>1 DEF WitElem
  <2>3. VarIntSize(w[i + 1].len) \in Nat
    BY VarIntSizeNat
  <2> HIDE DEF VarIntSize, base
  <2>4. QED
    BY <1>4, <2>2, <2>3
<1> HIDE DEF S, sz
<1>7. 0..Len(w) \subseteq S
  BY <1>0, <1>5, <1>6, IntervalInduction
<1>8. QED
  BY <1>1, <1>7 DEF S

\* NewEngine: a constructed engine satisfies the invariant.
LEMMA InitIInv == Init => IInv
<1> SUFFICES ASSUME NEW in \in Inputs, NewEngine(in[1], in[2], in[3])
             PROVE  IInv
  BY DEF Init
<1> DEFINE sig == in[1]  pk == in[2]  w == in[3]
<1>1. sig \in Script /\ pk \in Script /\ w \in Seq(WitElem)
  BY InputsAssumption
<1>2. TypeOK
  <2>1. witnessProgram \in [version : {0, 1}, len : 2..40] \cup {Nil}
    BY <1>1 DEF NewEngine, IsWitnessProgram, ProgramOf, WitnessVersion, Script, Token, Elem
  <2>2. err \in ErrKinds
    BY DEF NewEngine, ConstructionError, ErrKinds
  <2>3. QED
    BY <1>1, <2>1, <2>2 DEF TypeOK, NewEngine, Status
<1>3. status # "rejected" => /\ err = "none"
                              /\ (Len(sig) # 0 \/ Len(pk) # 0)
                              /\ checkScriptParses(sig) /\ checkScriptParses(pk)
  BY DEF NewEngine, ConstructionError
<1>4. PCValid
  BY <1>1, <1>3 DEF PCValid, NewEngine, CurrentScript, CurrentToken,
                    checkScriptParses, Script
<1>5. ScriptLayout
  BY <1>1, <1>3 DEF ScriptLayout, NewEngine
<1>6. WitnessSized
  BY <1>1, WitnessSizeNat DEF WitnessSized, NewEngine
<1>7. StackBound
  BY SizesAssumption DEF StackBound, NewEngine
<1>8. QED
  BY <1>2, <1>4, <1>5, <1>6, <1>7 DEF IInv

-----------------------------------------------------------------------------
(* The steps shared by the actions.                                        *)

\* Fail: a failing step keeps the invariant.
LEMMA FailIInv ==
  ASSUME IInv, NEW k \in ErrKinds, Fail(k)
  PROVE  IInv'
BY DEF IInv, TypeOK, PCValid, ScriptLayout, WitnessSized, StackBound, Fail,
       Status

\* EnterScript: moving to script i of a well-formed script list keeps the
\* invariant, provided i is the last or the one past the last script.
LEMMA EnterScriptIInv ==
  ASSUME TypeOK, WitnessSized,
         NEW scr \in Seq(Script), Len(scr) \in {2, 3},
         \A k \in 1..Len(scr) : checkScriptParses(scr[k]),
         NEW i \in Nat, i >= Len(scr) - 1,
         NEW ds \in Seq(Elem), Len(ds) <= MaxStackSize,
         NEW ctx \in TaprootCtx \cup {Nil},
         EnterScript(scr, i, ds, ctx), sigOps' \in Nat
  PROVE  IInv'
<1> DEFINE j == SkipEmpty(scr, i)
<1>1. j \in Nat /\ j >= i
  BY DEF SkipEmpty
<1>2. status' = "running" => j < Len(scr) /\ Len(scr[j + 1]) > 0
  BY DEF EnterScript, SkipEmpty
<1>3. TypeOK'
  BY <1>1 DEF TypeOK, EnterScript, Status
<1>4. PCValid'
  BY <1>1, <1>2 DEF PCValid, EnterScript, CurrentScript, CurrentToken,
                    checkScriptParses
<1>5. ScriptLayout'
  <2>1. scripts' = scr /\ scriptIdx' = j
    BY DEF EnterScript
  <2>2. (status' = "running" /\ scriptIdx' < 2) => Len(scripts') = 2
    <3>1. Len(scr) = 3 => j >= 2
      BY <1>1
    <3>2. QED
      BY <1>1, <3>1, <2>1
  <2>3. QED
    BY <2>1, <2>2 DEF ScriptLayout
<1>6. WitnessSized'
  BY DEF WitnessSized, EnterScript
<1>7. StackBound'
  BY DEF StackBound, EnterScript
<1>8. QED
  BY <1>3, <1>4, <1>5, <1>6, <1>7 DEF IInv

\* The starting stack checks fail with one of the engine's error kinds.
LEMMA LeafStackErrorKind ==
  ASSUME NEW st
  PROVE  LeafStackError(st) \in ErrKinds
BY DEF LeafStackError, ErrKinds

\* EnterChecked: the tail of verifyWitnessProgram keeps the invariant.
LEMMA EnterCheckedIInv ==
  ASSUME IInv,
         NEW scr \in Seq(Script), Len(scr) \in {2, 3},
         \A k \in 1..Len(scr) : checkScriptParses(scr[k]),
         Len(scr) - 1 <= 2,
         NEW st \in Seq(Elem), NEW ctx \in TaprootCtx \cup {Nil},
         EnterChecked(scr, st, ctx)
  PROVE  IInv'
<1>1. CASE LeafStackError(st) # "none"
  BY <1>1, LeafStackErrorKind, FailIInv DEF EnterChecked
<1>2. CASE LeafStackError(st) = "none"
  <2>1. EnterScript(scr, 2, st, ctx) /\ sigOps' \in Nat
    BY <1>2 DEF EnterChecked, IInv, TypeOK
  <2>2. Len(st) <= MaxStackSize
    BY <1>2, SizesAssumption DEF LeafStackError
  <2>3. QED
    BY <2>1, <2>2, EnterScriptIInv DEF IInv
<1>3. QED
  BY <1>1, <1>2

\* verifyWitnessProgram, entered at the end of the public key script,
\* keeps the invariant.
LEMMA VerifyIInv ==
  ASSUME IInv, status = "running", scriptIdx = 1, witnessProgram # Nil,
         NEW ds \in Seq(Elem), Len(ds) <= MaxStackSize, verifyWitnessProgram(ds)
  PROVE  IInv'
<1> DEFINE ctx == newTaprootExecutionCtx(WitnessSize(witness))
           w == IF isAnnexedWitness(witness) THEN Pop(witness) ELSE witness
           n == Len(w)
<1>1. ctx \in TaprootCtx
  BY DEF IInv, WitnessSized, newTaprootExecutionCtx, TaprootCtx, sigOpsDelta
<1>2. witness \in Seq(WitElem)
  BY DEF IInv, TypeOK
<1>3. /\ w \in Seq(WitElem)
      /\ n \in Nat
      /\ witness # <<>> => n >= 1
  BY <1>2 DEF isAnnexedWitness, Pop
<1>4. /\ Len(scripts) = 2
      /\ scripts \in Seq(Script)
      /\ \A k \in 1..Len(scripts) : checkScriptParses(scripts[k])
  BY DEF IInv, ScriptLayout, TypeOK
<1>5. CASE witnessProgram.version # 1 \/ witnessProgram.len # 32
  BY <1>5, FailIInv DEF verifyWitnessProgram, ErrKinds
<1>6. CASE ~(witnessProgram.version # 1 \/ witnessProgram.len # 32)
           /\ witness = <<>>
  BY <1>6, FailIInv DEF verifyWitnessProgram, ErrKinds
<1>7. CASE ~(witnessProgram.version # 1 \/ witnessProgram.len # 32)
           /\ witness # <<>> /\ n = 1
  <2>1. Fail("KeySpendFailed")
        \/ (EnterScript(scripts, 2, ds, [ctx EXCEPT !.mustSucceed = TRUE])
            /\ UNCHANGED sigOps)
    BY <1>7 DEF verifyWitnessProgram
  <2>2. [ctx EXCEPT !.mustSucceed = TRUE] \in TaprootCtx
    BY <1>1 DEF TaprootCtx
  <2>3. CASE Fail("KeySpendFailed")
    BY <2>3, FailIInv DEF ErrKinds
  <2>4. CASE EnterScript(scripts, 2, ds, [ctx EXCEPT !.mustSucceed = TRUE])
             /\ UNCHANGED sigOps
    <3>1. Len(scripts) \in {2, 3} /\ 2 >= Len(scripts) - 1
      BY <1>4
    <3>2. sigOps' \in Nat
      BY <2>4 DEF IInv, TypeOK
    <3>3. QED
      BY <2>4, <2>2, <3>1, <3>2, <1>4, EnterScriptIInv DEF IInv
  <2>5. QED
    BY <2>1, <2>3, <2>4
<1>8. CASE ~(witnessProgram.version # 1 \/ witnessProgram.len # 32)
           /\ witness # <<>> /\ n # 1
  <2> DEFINE cb == w[n].cb
             ws == w[n - 1].script
             st == [i \in 1..n - 2 |-> AsElem(w[i])]
             scr == Append(scripts, ws)
  <2>1. n >= 2
    <3>1. n >= 1 /\ n # 1 /\ n \in Nat
      BY <1>3, <1>8
    <3> HIDE DEF n
    <3>2. QED
      BY <3>1
  <2>2. /\ ws \in Script
        /\ st \in Seq(Elem)
    <3>1. w[n - 1] \in WitElem /\ \A i \in 1..n - 2 : w[i] \in WitElem
      BY <1>3, <2>1
    <3>2. ws \in Script
      BY <3>1 DEF WitElem
    <3>3. \A i \in 1..n - 2 : AsElem(w[i]) \in Elem
      BY <3>1 DEF WitElem, AsElem, Elem
    <3>4. st \in Seq(Elem)
      BY <3>3, <2>1
    <3>5. QED
      BY <3>2, <3>4
  <2>3. IF cb = Nil THEN Fail("InvalidControlBlock")
        ELSE IF ~LeafCommitted(cb, ws) THEN Fail("TaprootMerkleProofInvalid")
        ELSE IF cb.leafVersion # "base"
             THEN Fail("DiscourageUpgradeableTaprootVersion")
        ELSE IF ~checkScriptParses(ws) THEN Fail("Malformed")
        ELSE EnterChecked(scr, st, [ctx EXCEPT !.tapLeafHash = ws])
    BY <1>8 DEF verifyWitnessProgram
  <2>4. CASE cb = Nil \/ ~LeafCommitted(cb, ws) \/ cb.leafVersion # "base"
             \/ ~checkScriptParses(ws)
    BY <2>3, <2>4, FailIInv DEF ErrKinds
  <2>5. CASE ~(cb = Nil \/ ~LeafCommitted(cb, ws) \/ cb.leafVersion # "base"
               \/ ~checkScriptParses(ws))
    <3>1. EnterChecked(scr, st, [ctx EXCEPT !.tapLeafHash = ws])
      BY <2>3, <2>5
    <3>2. [ctx EXCEPT !.tapLeafHash = ws] \in TaprootCtx
      BY <1>1, <2>2 DEF TaprootCtx
    <3>3. /\ scr \in Seq(Script)
          /\ Len(scr) = 3
      <4> HIDE DEF scr, ws
      <4>1. /\ Append(scripts, ws) \in Seq(Script)
            /\ Len(Append(scripts, ws)) = Len(scripts) + 1
        BY <1>4, <2>2, AppendFacts, Zenon
      <4>2. QED
        BY <1>4, <4>1 DEF scr
    <3>4. \A k \in 1..Len(scr) : checkScriptParses(scr[k])
      BY <1>4, <2>2, <2>5, <3>3
    <3>5. Len(scr) \in {2, 3} /\ Len(scr) - 1 <= 2
      BY <3>3
    <3>6. QED
      BY <3>1, <3>2, <3>3, <3>4, <3>5, <2>2, EnterCheckedIInv
  <2>6. QED
    BY <2>4, <2>5
<1>9. QED
  BY <1>5, <1>6, <1>7, <1>8

\* While Step runs, the token under the program counter is a token.
LEMMA CurrentTokenType ==
  ASSUME IInv, status = "running"
  PROVE  /\ CurrentScript \in Script
         /\ CurrentToken \in Token
<1>1. scripts \in Seq(Script) /\ scriptIdx \in Nat /\ scriptIdx < Len(scripts)
  BY DEF IInv, TypeOK, PCValid
<1>2. CurrentScript \in Script
  BY <1>1 DEF CurrentScript
<1>3. opcodeIdx \in Nat /\ opcodeIdx < Len(CurrentScript)
  BY DEF IInv, TypeOK, PCValid
<1>4. QED
  BY <1>2, <1>3 DEF CurrentToken, Script

\* AfterOpcode: the end of a step that did not fail in its handler keeps
\* the invariant, whatever well-typed stacks and context the handler left.
LEMMA AfterOpcodeIInv ==
  ASSUME IInv, status = "running",
         NEW ds \in Seq(Elem), NEW alt \in Seq(Elem), NEW cs \in Seq(CondValues),
         NEW ctx \in TaprootCtx \cup {Nil}, NEW ops \in Nat,
         AfterOpcode(ds, alt, cs, ctx, ops)
  PROVE  IInv'
<1>1. CASE Len(ds) + Len(alt) > MaxStackSize
  BY <1>1, FailIInv DEF AfterOpcode, ErrKinds
<1>2. CASE ~(Len(ds) + Len(alt) > MaxStackSize)
           /\ opcodeIdx + 1 < Len(CurrentScript)
  <2>1. /\ dstack' = ds /\ astack' = alt /\ condStack' = cs
        /\ taprootCtx' = ctx /\ sigOps' = ops
        /\ opcodeIdx' = opcodeIdx + 1
        /\ UNCHANGED <<witnessProgram, witness, scripts, scriptIdx, status, err>>
    BY <1>2 DEF AfterOpcode
  <2>2. TypeOK'
    <3>1. opcodeIdx' \in Nat
      BY <2>1 DEF IInv, TypeOK
    <3>2. QED
      BY <2>1, <3>1, Zenon DEF IInv, TypeOK
  <2>3. PCValid'
    <3>1. /\ scripts \in Seq(Script) /\ scriptIdx \in Nat
          /\ scriptIdx < Len(scripts)
          /\ checkScriptParses(scripts[scriptIdx + 1])
          /\ opcodeIdx \in Nat
      BY DEF IInv, TypeOK, PCValid, ScriptLayout
    <3>2. /\ scripts' = scripts /\ scriptIdx' = scriptIdx /\ status' = status
          /\ opcodeIdx' = opcodeIdx + 1
      BY <2>1, Zenon
    <3>3. opcodeIdx + 1 < Len(scripts[scriptIdx + 1])
      BY <1>2 DEF CurrentScript
    <3>4. scripts[scriptIdx + 1] \in Script
      BY <3>1
    <3>5. scripts[scriptIdx + 1][opcodeIdx + 2].op # "BAD"
      BY <3>1, <3>3, <3>4, ParsedAt
    <3>6. QED
      BY <3>1, <3>2, <3>3, <3>5 DEF PCValid, CurrentScript, CurrentToken
  <2>4. StackBound'
    <3>1. Len(ds) \in Nat /\ Len(alt) \in Nat /\ MaxStackSize \in Nat
      BY SizesAssumption, LenNat, Zenon
    <3>2. ~(Len(ds) + Len(alt) > MaxStackSize)
      BY <1>2, Zenon
    <3>4. Len(ds) + Len(alt) <= MaxStackSize
      BY <3>1, <3>2, BoundArith, Zenon
    <3>3. QED
      BY <2>1, <3>4 DEF StackBound
  <2>5. QED
    BY <2>1, <2>2, <2>3, <2>4 DEF IInv, ScriptLayout, WitnessSized
<1>3. CASE ~(Len(ds) + Len(alt) > MaxStackSize)
           /\ ~(opcodeIdx + 1 < Len(CurrentScript))
           /\ cs # <<>>
  BY <1>3, FailIInv DEF AfterOpcode, ErrKinds
<1>4. CASE ~(Len(ds) + Len(alt) > MaxStackSize)
           /\ ~(opcodeIdx + 1 < Len(CurrentScript))
           /\ cs = <<>>
           /\ scriptIdx = 1 /\ witnessProgram # Nil
  <2>1. Len(ds) <= MaxStackSize
    BY <1>4, SizesAssumption
  <2>2. QED
    BY <1>4, <2>1, VerifyIInv DEF AfterOpcode
<1>5. CASE ~(Len(ds) + Len(alt) > MaxStackSize)
           /\ ~(opcodeIdx + 1 < Len(CurrentScript))
           /\ cs = <<>>
           /\ ~(scriptIdx = 1 /\ witnessProgram # Nil)
  <2>1. EnterScript(scripts, scriptIdx + 1, ds, ctx) /\ sigOps' = ops
    BY <1>5 DEF AfterOpcode
  <2>2. /\ scripts \in Seq(Script) /\ Len(scripts) \in {2, 3}
        /\ \A k \in 1..Len(scripts) : checkScriptParses(scripts[k])
        /\ scriptIdx \in Nat /\ scriptIdx < Len(scripts)
        /\ scriptIdx < 2 => Len(scripts) = 2
    BY DEF IInv, TypeOK, PCValid, ScriptLayout
  <2>3. scriptIdx + 1 \in Nat /\ scriptIdx + 1 >= Len(scripts) - 1
    <3>1. CASE Len(scripts) = 2
      BY <2>2, <3>1
    <3>2. CASE Len(scripts) = 3
      BY <2>2, <3>2
    <3>3. QED
      BY <2>2, <3>1, <3>2
  <2>4. Len(ds) <= MaxStackSize
    <3>1. Len(ds) \in Nat /\ Len(alt) \in Nat /\ MaxStackSize \in Nat
      BY SizesAssumption, LenNat, Zenon
    <3>2. ~(Len(ds) + Len(alt) > MaxStackSize)
      BY <1>5, Zenon
    <3>3. QED
      BY <3>1, <3>2, BoundArith, Zenon
  <2>5. QED
    BY <2>1, <2>2, <2>3, <2>4, EnterScriptIInv DEF IInv
<1>6. QED
  BY <1>1, <1>2, <1>3, <1>4, <1>5

-----------------------------------------------------------------------------
(* The actions.                                                            *)

\* The facts every handler relies on: it runs on a well-typed state at a
\* token of the current script.
LEMMA RunningFacts ==
  ASSUME IInv, status = "running"
  PROVE  /\ dstack \in Seq(Elem) /\ astack \in Seq(Elem)
         /\ condStack \in Seq(CondValues)
         /\ taprootCtx \in TaprootCtx \cup {Nil} /\ sigOps \in Nat
         /\ CurrentToken \in Token
BY CurrentTokenType DEF IInv, TypeOK

\* The step-level failures of Step and executeOpcode.
LEMMA StepFailIInv ==
  ASSUME IInv, StepReservedOpcode \/ StepElementTooBig \/ StepMinimalData
  PROVE  IInv'
BY FailIInv DEF StepReservedOpcode, StepElementTooBig, StepMinimalData, ErrKinds

LEMMA StepSkippedIInv ==
  ASSUME IInv, StepSkipped
  PROVE  IInv'
<1>1. status = "running"
  BY DEF StepSkipped, Dispatchable
<1>2. QED
  BY <1>1, RunningFacts, AfterOpcodeIInv DEF StepSkipped

LEMMA OpPushIInv ==
  ASSUME IInv, OpPush \/ OpTrue
  PROVE  IInv'
<1>1. status = "running"
  BY DEF OpPush, OpTrue, Executes, Dispatchable
<1>2. CurrentToken.data \in Elem /\ OneByte \in Elem
  BY <1>1, RunningFacts DEF Token, OneByte, Elem
<1>3. /\ Append(dstack, CurrentToken.data) \in Seq(Elem)
      /\ Append(dstack, OneByte) \in Seq(Elem)
  BY <1>1, <1>2, RunningFacts, AppendFacts, Zenon
<1>4. QED
  BY <1>1, <1>3, RunningFacts, AfterOpcodeIInv DEF OpPush, OpTrue

LEMMA OpIfNotIfIInv ==
  ASSUME IInv, NEW op, OpIfNotIf(op)
  PROVE  IInv'
<1>1. status = "running"
  BY DEF OpIfNotIf, Executes, Dispatchable
<1>2. \A c \in CondValues : Append(condStack, c) \in Seq(CondValues)
  BY <1>1, RunningFacts, AppendFacts, Zenon
<1>3. CASE ~isBranchExecuting
  <2>1. AfterOpcode(dstack, astack, Append(condStack, OpCondSkip),
                    taprootCtx, sigOps)
    BY <1>3 DEF OpIfNotIf
  <2>2. QED
    BY <1>1, <1>2, <2>1, RunningFacts, AfterOpcodeIInv DEF CondValues
<1>4. CASE isBranchExecuting /\ dstack = <<>>
  BY <1>4, FailIInv DEF OpIfNotIf, ErrKinds
<1>5. CASE isBranchExecuting /\ dstack # <<>>
  <2>1. Pop(dstack) \in Seq(Elem)
    BY <1>1, <1>5, RunningFacts, PopFacts
  <2>2. \A b \in BOOLEAN :
          Append(condStack, IF b THEN OpCondTrue ELSE OpCondFalse)
            \in Seq(CondValues)
    BY <1>2 DEF CondValues
  <2>3. QED
    BY <1>1, <1>5, <2>1, <2>2, RunningFacts, FailIInv, AfterOpcodeIInv
       DEF OpIfNotIf, ErrKinds
<1>6. QED
  BY <1>3, <1>4, <1>5

\* OP_ELSE keeps every entry of the conditional stack a condition value.
LEMMA ToggleType ==
  ASSUME NEW c \in CondValues
  PROVE  Toggle(c) \in CondValues
BY DEF Toggle, CondValues, OpCondTrue, OpCondFalse, OpCondSkip

LEMMA OpElseEndIfIInv ==
  ASSUME IInv, OpElse \/ OpEndIf
  PROVE  IInv'
<1>1. status = "running"
  BY DEF OpElse, OpEndIf, Executes, Dispatchable
<1>2. CASE condStack = <<>>
  BY <1>2, FailIInv DEF OpElse, OpEndIf, ErrKinds
<1>3. CASE condStack # <<>>
  <2>1. Pop(condStack) \in Seq(CondValues)
    BY <1>1, <1>3, RunningFacts, PopFacts
  <2>2. [condStack EXCEPT ![Len(condStack)] = Toggle(@)] \in Seq(CondValues)
    <3>1. condStack \in Seq(CondValues) /\ Len(condStack) \in 1..Len(condStack)
      BY <1>1, <1>3, RunningFacts
    <3>2. condStack[Len(condStack)] \in CondValues
      BY <3>1
    <3>3. QED
      BY <3>1, <3>2, ToggleType
  <2>3. QED
    BY <1>1, <1>3, <2>1, <2>2, RunningFacts, AfterOpcodeIInv DEF OpElse, OpEndIf
<1>4. QED
  BY <1>2, <1>3

\* The stack opcodes, given that their stacks are well typed whenever the
\* source stack is not empty.
LEMMA OpStackIInv ==
  ASSUME IInv, NEW op, NEW src, NEW ds, NEW alt,
         src # <<>> => ds \in Seq(Elem) /\ alt \in Seq(Elem),
         OpStack(op, src, ds, alt)
  PROVE  IInv'
<1>1. status = "running"
  BY DEF OpStack, Executes, Dispatchable
<1>2. CASE src = <<>>
  BY <1>2, FailIInv DEF OpStack, ErrKinds
<1>3. CASE src # <<>>
  BY <1>1, <1>3, RunningFacts, AfterOpcodeIInv DEF OpStack
<1>4. QED
  BY <1>2, <1>3

LEMMA OpStacksIInv ==
  ASSUME IInv, OpDrop \/ OpDup \/ OpToAltStack \/ OpFromAltStack
  PROVE  IInv'
<1>1. CASE OpDrop \/ OpDup \/ OpToAltStack \/ OpFromAltStack
  <2>1. status = "running"
    BY <1>1 DEF OpDrop, OpDup, OpToAltStack, OpFromAltStack, OpStack,
                Executes, Dispatchable
  <2>2. dstack # <<>> =>
          /\ Pop(dstack) \in Seq(Elem)
          /\ Append(dstack, Top(dstack)) \in Seq(Elem)
          /\ Append(astack, Top(dstack)) \in Seq(Elem)
    <3>1. dstack # <<>> => Top(dstack) \in Elem /\ Pop(dstack) \in Seq(Elem)
      BY <2>1, RunningFacts, PopFacts
    <3>2. QED
      BY <2>1, <3>1, RunningFacts, AppendFacts, Zenon
  <2>3. astack # <<>> =>
          /\ Pop(astack) \in Seq(Elem)
          /\ Append(dstack, Top(astack)) \in Seq(Elem)
    <3>1. astack # <<>> => Top(astack) \in Elem /\ Pop(astack) \in Seq(Elem)
      BY <2>1, RunningFacts, PopFacts
    <3>2. QED
      BY <2>1, <3>1, RunningFacts, AppendFacts, Zenon
  <2>4. QED
    BY <2>1, <2>2, <2>3, RunningFacts, OpStackIInv
       DEF OpDrop, OpDup, OpToAltStack, OpFromAltStack
<1>2. QED
  BY <1>1

\* tallysigOp keeps a taproot context one.
LEMMA TallyType ==
  ASSUME NEW ctx \in TaprootCtx
  PROVE  tallysigOp(ctx) \in TaprootCtx
BY DEF tallysigOp, TaprootCtx, sigOpsDelta

\* OP_CHECKSIG: every branch either fails or ends the step with the key
\* and signature replaced by a one-element verdict.
LEMMA OpCheckSigIInv ==
  ASSUME IInv, OpCheckSig
  PROVE  IInv'
<1>1. status = "running" /\ taprootCtx # Nil
  BY DEF OpCheckSig, Executes, Dispatchable
<1>2. /\ dstack \in Seq(Elem) /\ astack \in Seq(Elem)
      /\ condStack \in Seq(CondValues) /\ sigOps \in Nat
      /\ taprootCtx \in TaprootCtx
  BY <1>1, RunningFacts
<1>3. CASE Len(dstack) < 2
  BY <1>3, FailIInv DEF OpCheckSig, ErrKinds
<1>4. CASE Len(dstack) >= 2
  <2> DEFINE ctx == tallysigOp(taprootCtx)
             rest == Pop(Pop(dstack))
  <2>1. ctx \in TaprootCtx
    BY <1>2, TallyType
  <2>2. rest \in Seq(Elem)
    <3>1. Pop(dstack) \in Seq(Elem) /\ Len(Pop(dstack)) = Len(dstack) - 1
      BY <1>2, <1>4, PopFacts
    <3>2. Pop(dstack) # <<>>
      BY <1>2, <1>4, <3>1
    <3>3. QED
      BY <3>1, <3>2, PopFacts
  <2>3. \A valid \in BOOLEAN :
          Append(rest, IF valid THEN OneByte ELSE [len |-> 0, v |-> 0])
            \in Seq(Elem)
    <3>1. OneByte \in Elem /\ [len |-> 0, v |-> 0] \in Elem
      BY DEF OneByte, Elem
    <3>2. QED
      BY <2>2, <3>1, AppendFacts
  <2>4. sigOps + 1 \in Nat
    BY <1>2
  <2> HIDE DEF ctx, rest
  <2>5. QED
    BY <1>1, <1>2, <1>4, <2>1, <2>3, <2>4, FailIInv, AfterOpcodeIInv
       DEF OpCheckSig, ErrKinds, ctx, rest
<1>5. QED
  BY <1>2, <1>3, <1>4

\* CheckErrorCondition: the final verdict leaves a state with no running
\* engine, so only the type and layout facts need keeping.
LEMMA CheckErrorConditionIInv ==
  ASSUME IInv, CheckErrorCondition
  PROVE  IInv'
<1>1. status = "done"
  BY DEF CheckErrorCondition
<1>2. CASE MustSucceed
  BY <1>1, <1>2 DEF CheckErrorCondition, IInv, TypeOK, PCValid, ScriptLayout,
                    WitnessSized, StackBound, Status
<1>3. CASE ~MustSucceed /\ Len(dstack) # 1
  BY <1>3, FailIInv DEF CheckErrorCondition, ErrKinds
<1>4. CASE ~MustSucceed /\ Len(dstack) = 1 /\ ~Truthy(Top(dstack))
  BY <1>4, FailIInv DEF CheckErrorCondition, ErrKinds
<1>5. CASE ~MustSucceed /\ Len(dstack) = 1 /\ Truthy(Top(dstack))
  <2>1. status' = "accepted" /\ dstack' = <<>>
        /\ UNCHANGED <<witnessProgram, witness, scripts, scriptIdx,
                       opcodeIdx, astack, condStack, taprootCtx, err, sigOps>>
    BY <1>1, <1>5 DEF CheckErrorCondition
  <2>2. StackBound'
    <3>1. Len(dstack) \in Nat /\ Len(astack) \in Nat
      BY LenNat, Zenon DEF IInv, TypeOK
    <3>4. Len(dstack) + Len(astack) <= MaxStackSize
      BY <1>1 DEF IInv, StackBound
    <3>6. Len(astack) <= MaxStackSize
      BY <3>1, <3>4, SizesAssumption, SumBound, Zenon
    <3>2. astack' = astack /\ dstack' = <<>>
      BY <2>1, Zenon
    <3>3. Len(astack') <= MaxStackSize /\ Len(dstack') = 0
      BY <3>2, <3>6
    <3>5. QED
      BY <3>3 DEF StackBound
  <2>3. QED
    BY <1>1, <2>1, <2>2 DEF IInv, TypeOK, PCValid, ScriptLayout, WitnessSized,
                           Status
<1>6. QED
  BY <1>2, <1>3, <1>4, <1>5

-----------------------------------------------------------------------------
(* The invariant is inductive.                                             *)

LEMMA NextIInv == IInv /\ [Next]_vars => IInv'
<1> SUFFICES ASSUME IInv, [Next]_vars PROVE IInv'
  OBVIOUS
<1>1. CASE StepReservedOpcode \/ StepElementTooBig \/ StepMinimalData
  BY <1>1, StepFailIInv
<1>2. CASE StepSkipped
  BY <1>2, StepSkippedIInv
<1>3. CASE OpPush \/ OpTrue
  BY <1>3, OpPushIInv
<1>4. CASE OpIf \/ OpNotIf
  BY <1>4, OpIfNotIfIInv DEF OpIf, OpNotIf
<1>5. CASE OpElse \/ OpEndIf
  BY <1>5, OpElseEndIfIInv
<1>6. CASE OpDrop \/ OpDup \/ OpToAltStack \/ OpFromAltStack
  BY <1>6, OpStacksIInv
<1>7. CASE OpCheckSig
  BY <1>7, OpCheckSigIInv
<1>8. CASE CheckErrorCondition
  BY <1>8, CheckErrorConditionIInv
<1>9. CASE UNCHANGED vars
  BY <1>9 DEF IInv, TypeOK, PCValid, ScriptLayout, WitnessSized, StackBound, vars,
             CurrentScript, CurrentToken
<1>10. QED
  BY <1>1, <1>2, <1>3, <1>4, <1>5, <1>6, <1>7, <1>8, <1>9 DEF Next, Step

\* Type correctness of Execute: every variable of the engine keeps its type
\* in every state a run of Execute reaches, whatever the script sizes, the
\* stack limits and the witnesses.
THEOREM TypeCorrect == Spec => []TypeOK
<1>1. IInv => TypeOK
  BY DEF IInv
<1>2. QED
  BY <1>1, InitIInv, NextIInv, PTL DEF Spec

\* Step never reads past the end of vm.scripts or of the current script,
\* and never dispatches a token the tokenizer reported malformed: the
\* checkScriptParses calls of NewEngine and verifyWitnessProgram cover
\* every script Step will run, for every value of the constants.
THEOREM PCValidHolds == Spec => []PCValid
<1>1. IInv => PCValid
  BY DEF IInv
<1>2. QED
  BY <1>1, InitIInv, NextIInv, PTL DEF Spec

\* Step and verifyWitnessProgram: the data and alt stacks together never
\* exceed MaxStackSize while Execute has not failed, for every limit and
\* every input (the combined check of Step and the starting-stack check of
\* verifyWitnessProgram come before the stacks are committed).
THEOREM StackBoundHolds == Spec => []StackBound
<1>1. IInv => StackBound
  BY DEF IInv
<1>2. QED
  BY <1>1, InitIInv, NextIInv, PTL DEF Spec

-----------------------------------------------------------------------------
(* Progress: every step of Execute's loop lowers the measure Variant.      *)

\* The four shapes of a step: the loop ends (a failure or the verdict),
\* Step finishes the last script, Step enters a later script, or Step
\* advances the program counter within the script.
ProgressStep ==
  \/ status \in {"running", "done"} /\ status' \in {"accepted", "rejected"}
  \/ status = "running" /\ status' = "done"
  \/ /\ status = "running" /\ status' = "running"
     /\ scriptIdx' \in Nat /\ scriptIdx' > scriptIdx
  \/ /\ status = "running" /\ status' = "running"
     /\ scripts' = scripts /\ scriptIdx' = scriptIdx
     /\ opcodeIdx' = opcodeIdx + 1

\* Fail ends the loop from a running or done engine.
LEMMA FailProgress ==
  ASSUME status \in {"running", "done"}, NEW k, Fail(k)
  PROVE  ProgressStep
BY DEF Fail, ProgressStep

\* EnterScript moves a running engine to a later script, or to done.
LEMMA EnterScriptProgress ==
  ASSUME status = "running", scriptIdx \in Nat,
         NEW scr, NEW i \in Nat, i > scriptIdx, NEW ds, NEW ctx,
         EnterScript(scr, i, ds, ctx)
  PROVE  ProgressStep
<1>1. SkipEmpty(scr, i) \in Nat /\ SkipEmpty(scr, i) >= i
  BY DEF SkipEmpty
<1>2. QED
  BY <1>1 DEF EnterScript, ProgressStep

\* The tail of verifyWitnessProgram leaves the public key script (index 1)
\* for the leaf or the end, or fails.
LEMMA EnterCheckedProgress ==
  ASSUME status = "running", scriptIdx = 1,
         NEW scr, NEW st, NEW ctx, EnterChecked(scr, st, ctx)
  PROVE  ProgressStep
<1>1. CASE LeafStackError(st) # "none"
  BY <1>1, FailProgress DEF EnterChecked
<1>2. CASE LeafStackError(st) = "none"
  BY <1>2, EnterScriptProgress DEF EnterChecked
<1>3. QED
  BY <1>1, <1>2

\* verifyWitnessProgram fails or goes on through EnterChecked.
LEMMA VerifyProgress ==
  ASSUME status = "running", scriptIdx = 1, NEW ds, verifyWitnessProgram(ds)
  PROVE  ProgressStep
BY FailProgress, EnterCheckedProgress, EnterScriptProgress DEF verifyWitnessProgram

\* AfterOpcode: whatever the handler left, the end of a step has one of
\* the four shapes.
LEMMA AfterOpcodeProgress ==
  ASSUME status = "running", scriptIdx \in Nat,
         NEW ds, NEW alt, NEW cs, NEW ctx, NEW ops,
         AfterOpcode(ds, alt, cs, ctx, ops)
  PROVE  ProgressStep
<1>1. CASE Len(ds) + Len(alt) > MaxStackSize
  BY <1>1, FailProgress DEF AfterOpcode
<1>2. CASE ~(Len(ds) + Len(alt) > MaxStackSize)
           /\ opcodeIdx + 1 < Len(CurrentScript)
  BY <1>2 DEF AfterOpcode, ProgressStep
<1>3. CASE ~(Len(ds) + Len(alt) > MaxStackSize)
           /\ ~(opcodeIdx + 1 < Len(CurrentScript))
           /\ cs # <<>>
  BY <1>3, FailProgress DEF AfterOpcode
<1>4. CASE ~(Len(ds) + Len(alt) > MaxStackSize)
           /\ ~(opcodeIdx + 1 < Len(CurrentScript))
           /\ cs = <<>>
           /\ scriptIdx = 1 /\ witnessProgram # Nil
  BY <1>4, VerifyProgress DEF AfterOpcode
<1>5. CASE ~(Len(ds) + Len(alt) > MaxStackSize)
           /\ ~(opcodeIdx + 1 < Len(CurrentScript))
           /\ cs = <<>>
           /\ ~(scriptIdx = 1 /\ witnessProgram # Nil)
  BY <1>5, EnterScriptProgress DEF AfterOpcode
<1>6. QED
  BY <1>1, <1>2, <1>3, <1>4, <1>5

\* Every step of Step or CheckErrorCondition has one of the four shapes.
LEMMA NextProgress ==
  ASSUME IInv, Next
  PROVE  ProgressStep
<1>1. scriptIdx \in Nat
  BY DEF IInv, TypeOK
<1>2. CASE StepReservedOpcode \/ StepElementTooBig \/ StepMinimalData
  BY <1>2, FailProgress
     DEF StepReservedOpcode, StepElementTooBig, StepMinimalData, Dispatchable
<1>3. CASE StepSkipped \/ OpPush \/ OpTrue
  BY <1>1, <1>3, AfterOpcodeProgress
     DEF StepSkipped, OpPush, OpTrue, Executes, Dispatchable
<1>4. CASE OpIf \/ OpNotIf
  BY <1>1, <1>4, FailProgress, AfterOpcodeProgress
     DEF OpIf, OpNotIf, OpIfNotIf, Executes, Dispatchable
<1>5. CASE OpElse \/ OpEndIf
  BY <1>1, <1>5, FailProgress, AfterOpcodeProgress
     DEF OpElse, OpEndIf, Executes, Dispatchable
<1>6. CASE OpDrop \/ OpDup \/ OpToAltStack \/ OpFromAltStack
  BY <1>1, <1>6, FailProgress, AfterOpcodeProgress
     DEF OpDrop, OpDup, OpToAltStack, OpFromAltStack, OpStack, Executes,
         Dispatchable
<1>7. CASE OpCheckSig
  BY <1>1, <1>7, FailProgress, AfterOpcodeProgress
     DEF OpCheckSig, Executes, Dispatchable
<1>8. CASE CheckErrorCondition
  BY <1>8, FailProgress DEF CheckErrorCondition, ProgressStep
<1>9. QED
  BY <1>2, <1>3, <1>4, <1>5, <1>6, <1>7, <1>8 DEF Next, Step

\* In a state of the invariant the measure is a triple of naturals: while
\* Step runs, the script index is below the (at most three) scripts and the
\* program counter below the length of the current script.
LEMMA VariantNat ==
  ASSUME IInv
  PROVE  Variant \in Nat \X Nat \X Nat
<1>1. CASE status = "running"
  <2>1. /\ scriptIdx \in Nat /\ scriptIdx < Len(scripts)
        /\ Len(scripts) \in {2, 3}
        /\ opcodeIdx \in Nat /\ opcodeIdx < Len(CurrentScript)
    BY <1>1 DEF IInv, TypeOK, PCValid, ScriptLayout
  <2>2. CurrentScript \in Script
    BY <1>1, CurrentTokenType
  <2>3. Variant = <<2, MaxScripts - scriptIdx, Len(CurrentScript) - opcodeIdx>>
    BY <1>1 DEF Variant, StatusRank
  <2>4. MaxScripts - scriptIdx \in Nat /\ Len(CurrentScript) - opcodeIdx \in Nat
    <3>1. Len(CurrentScript) \in Nat
      BY <2>2, LenNat, Zenon DEF Script
    <3>2. MaxScripts - scriptIdx \in Nat
      BY <2>1, ThreeMinus DEF MaxScripts
    <3>3. QED
      BY <2>1, <3>1, <3>2
  <2>5. QED
    BY <2>3, <2>4
<1>2. CASE status # "running"
  BY <1>2 DEF Variant, StatusRank
<1>3. QED
  BY <1>1, <1>2

\* The same in the state after a step.
LEMMA VariantNatPrimed ==
  ASSUME IInv'
  PROVE  Variant' \in Nat \X Nat \X Nat
<1>1. CASE status' = "running"
  <2>1. /\ scripts' \in Seq(Script)
        /\ scriptIdx' \in Nat /\ scriptIdx' < Len(scripts')
        /\ Len(scripts') \in {2, 3}
        /\ opcodeIdx' \in Nat /\ opcodeIdx' < Len(CurrentScript')
    BY <1>1 DEF IInv, TypeOK, PCValid, ScriptLayout
  <2>2. CurrentScript' \in Script
    BY <2>1 DEF CurrentScript
  <2>3. Variant' = <<2, MaxScripts - scriptIdx', Len(CurrentScript') - opcodeIdx'>>
    BY <1>1 DEF Variant, StatusRank
  <2>4. MaxScripts - scriptIdx' \in Nat /\ Len(CurrentScript') - opcodeIdx' \in Nat
    <3>1. Len(CurrentScript') \in Nat
      BY <2>2, LenNat, Zenon DEF Script
    <3>2. MaxScripts - scriptIdx' \in Nat
      BY <2>1, ThreeMinus DEF MaxScripts
    <3>3. QED
      BY <2>1, <3>1, <3>2
  <2>5. QED
    BY <2>3, <2>4
<1>2. CASE status' # "running"
  BY <1>2 DEF Variant, StatusRank
<1>3. QED
  BY <1>1, <1>2

\* Each of the four shapes lowers the measure in lexicographic order.
LEMMA ProgressLowers ==
  ASSUME IInv, IInv', ProgressStep
  PROVE  LexLess(Variant', Variant)
<1>1. Variant \in Nat \X Nat \X Nat /\ Variant' \in Nat \X Nat \X Nat
  BY VariantNat, VariantNatPrimed
<1>2. CASE status \in {"running", "done"} /\ status' \in {"accepted", "rejected"}
  BY <1>2 DEF LexLess, Variant, StatusRank
<1>3. CASE status = "running" /\ status' = "done"
  BY <1>3 DEF LexLess, Variant, StatusRank
<1>4. CASE /\ status = "running" /\ status' = "running"
           /\ scriptIdx' \in Nat /\ scriptIdx' > scriptIdx
  <2>1. scriptIdx \in Nat
    BY DEF IInv, TypeOK
  <2>2. QED
    BY <1>4, <2>1 DEF LexLess, Variant, StatusRank, MaxScripts
<1>5. CASE /\ status = "running" /\ status' = "running"
           /\ scripts' = scripts /\ scriptIdx' = scriptIdx
           /\ opcodeIdx' = opcodeIdx + 1
  <2>1. CurrentScript' = CurrentScript
    BY <1>5 DEF CurrentScript
  <2>2. opcodeIdx \in Nat /\ Len(CurrentScript) \in Nat
    BY <1>5, CurrentTokenType DEF IInv, TypeOK, Script
  <2>3. QED
    BY <1>5, <2>1, <2>2 DEF LexLess, Variant, StatusRank
<1>6. QED
  BY <1>2, <1>3, <1>4, <1>5 DEF ProgressStep

\* Execute's loop makes progress: every step of Step or CheckErrorCondition
\* lowers the measure (the status, the scripts still to enter and the
\* opcodes left in the current script), a triple of naturals, strictly in
\* lexicographic order, for every script, witness and limit. As this order
\* has no infinite descending chain, no run of Execute takes infinitely many
\* steps.
THEOREM VariantDecreasesHolds == Spec => VariantDecreases
<1>1. IInv /\ [Next]_vars => [VariantStep]_vars
  <2> SUFFICES ASSUME IInv, [Next]_vars PROVE [VariantStep]_vars
    OBVIOUS
  <2>1. CASE Next
    <3>1. IInv'
      BY <2>1, NextIInv
    <3>2. ProgressStep
      BY <2>1, NextProgress
    <3>3. QED
      BY <3>1, <3>2, VariantNat, VariantNatPrimed, ProgressLowers
         DEF VariantStep
  <2>2. CASE UNCHANGED vars
    BY <2>2
  <2>3. QED
    BY <2>1, <2>2
<1>2. QED
  BY <1>1, InitIInv, NextIInv, PTL DEF Spec, VariantDecreases
=============================================================================
