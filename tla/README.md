# Verification of the arkade script engine and its asset opcodes

These TLA+ modules model the arkade tapscript virtual machine
(`src/unnamed/part_002`, the file `pkg/arkade/engine.go`) and its asset
introspection opcodes (`src/pkg/arkade/asset_opcodes.go`, together with the
packet types at the end of `part_002`). TLC model-checks them on small
instances. TLAPS proves, for every value of the constants, the engine's
type invariant and five of its safety invariants. It also proves that the
engine implements an abstract specification of what `Execute` promises.

## 1. The system

| Part | Code | State | Operations |
|---|---|---|---|
| Engine construction | `NewEngine` (part_002:779–874) | `scripts`, `scriptIdx`, `witnessProgram`, the stacks | the construction checks, in order: empty scripts, push-only, size, parse, witness malleation, unexpected witness |
| Execution loop | `Execute` (670–729), `Step` (570–655), `executeOpcode` (281–310) | `scriptIdx`, `opcodeIdx`, `dstack`, `astack`, `condStack` | one opcode per step, then the stack bound, then the script boundary: unbalanced conditional, alt-stack reset, witness verification, skipping an empty script, done |
| Taproot witness verification | `verifyWitnessProgram` (331–462) | `taprootCtx` (budget, mustSucceed, leaf hash), `scripts` gets the leaf | the taproot check, the empty witness, the annex, key spend, and script path spend (control block, leaf commitment, leaf version, parse), then the starting-stack depth and element checks |
| Sig-op budget | `newTaprootExecutionCtx`, `tallysigOp` (53–78) | `taprootCtx.sigOpsBudget` | starts at 50 + the witness's serialized size (CompactSize prefixes); 50 less per signature check |
| Terminal check | `CheckErrorCondition` (530–562) | `status`, `err` | mustSucceed, clean stack, truthy top |
| Opcode handlers | `opcode.go` (not in src/) | stacks, `condStack` | push, OP_1, IF/NOTIF/ELSE/ENDIF, DROP/DUP/alt-stack moves, CHECKSIG |
| Asset opcodes | `asset_opcodes.go` 1–492 | `vm.assetPacket` (read only), `dstack` | 17 handlers: counts, group fields, FIND, GROUPSUM, IN/OUT AT/LOOKUP, intent counts and enumerations |

How the parts interact:

- `Execute` calls `Step` until it is done, then calls `CheckErrorCondition`.
- `Step` dispatches through `executeOpcode` to the handlers, including the
  asset opcodes, which read the packet set by `SetAssetPacket`.
- At the end of the public key script, `Step` calls `verifyWitnessProgram`.
  That call builds the taproot context and appends the leaf. The sig-op
  budget it creates is spent by CHECKSIG.

The hard behaviours are:

- the ordering of the step checks (reserved opcode, element size, dead branch,
  minimal push);
- script boundaries with empty scripts and an open conditional;
- the two-stage witness verification, where the key spend skips the leaf
  entirely;
- the stack and budget limits at their edges;
- integer conversions in the asset opcodes (uint64 sums, uint16 gidx,
  uint32 output index).

The properties that make each part correct:

- **Stacks:** the stacks never exceed their bounds while the engine has not
  failed (StackBound, ElementBound).
- **Conditionals:** the conditional stack is properly nested
  (CondStackNesting).
- **Taproot binding:** an accepted spend ran the committed leaf or was a key
  spend (TaprootSpendBinding).
- **Sig-op budget:** the budget equals its defining formula and is never
  negative (SigOpsBudgetSound).
- **Program counter:** Step always reads a parsed token (PCValid).
- **Order of the opcode checks:** executeOpcode rejects a reserved opcode
  and then an oversized element whether or not the branch executes. Only
  then does it skip an opcode of a dead branch (other than a conditional),
  which leaves stacks, context and tally alone. The minimal-push check
  applies only to an executed push (ExecuteOpcodeOrder).
- **Termination:** every execution ends (Termination), and every step
  lowers a well-founded measure (VariantDecreases).
- **Asset opcodes:** they return what the specification defines: sums,
  first-match search, intent enumeration as a filter, and error kinds.

## 2. Modules

- **`Engine.tla`** is the engine. Its variables are the fields of `Engine`
  that execution changes, plus `status`, `err` and the history variable
  `sigOps`.
  - **Data:** a stack element is a record of its length and content class.
    A script is the sequence of tokens its tokenizer yields. A witness
    element carries what the engine decodes from it: the element read as a
    script, and its parsed control block (or `Nil`). The Merkle commitment of
    a control block is `cb.leaf`. Signatures are the crypto library's
    verdict, chosen by `\E valid \in BOOLEAN`.
  - **Init** is `NewEngine` applied to one of the `Inputs`. A construction
    error starts the engine in status `rejected`.
  - **Step and its handlers.** Each of `StepReservedOpcode`,
    `StepElementTooBig`, `StepSkipped` and `StepMinimalData` (executeOpcode),
    and each handler action, ends with `AfterOpcode`. `AfterOpcode` is the
    rest of `Step`: the combined stack bound, the increment, and at the end
    of a script the boundary (`EnterScript`, `verifyWitnessProgram`,
    `EnterChecked`). A key spend returns at line 379, before the
    starting-stack checks. The model's key-spend branch therefore enters
    past the last script with the public key script's own stack, and
    `EnterChecked` (stack depth and element size) applies only to a
    script path spend.
  - **CheckErrorCondition** runs once `status = "done"`.
  - **Fail(kind)** is Step or Execute returning an error. The error kinds are
    those of the code.
  - Handlers from `opcode.go` are marked spec_modelled in PROJECT.json.
- **`Assets.tla`** holds the asset opcodes.
  - **State:** `packet` (fixed for the run, as `SetAssetPacket` is called
    before `Execute`), `dstack`, `err` and `lastOp`.
  - **Actions:** each handler is one action built with `Exec`. `Exec` is the
    handler's first error, in the order of its checks (`Then` chains), else
    Step's stack bound, else the new stack. `PushValue` is a data push of the
    script.
  - **Values:** stack values are `Num(n)` (script numbers), `B32(b)` (32-byte
    blobs) and `LE64(a)` (8-byte amounts, taken mod 2^AmountBits).
  - **Packet types** are the Go structs of the asset package: `AssetID`,
    `AssetInput`, `AssetOutput`, `AssetGroup`, `AssetEntry`, and
    `IsAssetPacket` for `AssetPacket` (maps keyed by natural indices).
    `PacketsAssumption` says every packet the model can install is `Nil`
    or well formed, as a decoded `AssetPacket` is.
  - **Loops** are recursive functions: `SumAmounts`, `FirstMatch`,
    `IntentAt` and `IntentCount`. They are recursive functions rather than
    RECURSIVE operators so that the provers can unfold them. The uint64
    width is `AmountMod == Pow2[AmountBits]`, with `Pow2` a recursive
    function for the same reason: the provers cannot compute `2 ^ k` for a
    symbolic k.
  - **The reference filter** `IntentRef` is `SelectSeq` written out as the
    Sequences module defines it, because SelectSeq is opaque to the provers.
  - The truncations are kept: `popAssetID` takes gidx mod 2^16, and
    `Entries` turns a negative index into an empty list.
- **`ExecuteAbstract.tla`** is the contract of `Execute` without opcodes or
  stacks. Its variables are `script` (the index of the script being run),
  `count` (the number of scripts) and `verdict`. Its actions are:
  - `Advance`: the index never moves back, the script list only grows, and
    the engine is done exactly when the index has passed the last script;
  - `Reject`: an error ends the run;
  - `Accept`: only a done engine is accepted.
  A verdict, once given, is final.
- **`Engine.tla` instantiates the contract.** `Abstract == INSTANCE
  ExecuteAbstract WITH script <- scriptIdx, count <- Len(scripts),
  verdict <- status`, and `ImplementsExecuteContract` is its safety
  specification `Abstract!SafeSpec`.
  - The contract's fairness (a verdict is eventually given) is
    `Termination`.
  - TLC cannot evaluate `ENABLED` of the contract's `Advance` through the
    mapping, because its successors are unbounded. Liveness is therefore
    checked as `Termination`. The abstract `Next` is enabled exactly until a
    verdict, so that check is the same.
- **Proof modules:**
  - `EngineProofs.tla`: the inductive invariant, three invariant theorems
    and the progress measure of Execute's loop;
  - `ExecuteRefinement.tla`: the refinement;
  - `SigOpsProofs.tla`: the sig-op budget;
  - `TaprootProofs.tla`: the binding of an accepted spend to its key or leaf;
  - `StackProofs.tla`: element sizes, conditional nesting and the order
    of executeOpcode's checks;
  - `InductionLemmas.tla`: induction over the naturals and over an
    interval, for the loops;
  - `AssetsProofs.tla`: the asset opcodes.
- **MC modules:** `MC_Engine`, `MC_EngineLeafSize`, `MC_Assets` and
  `MC_AssetFindings` give the constants for TLC: the inputs and the packets.

Both components are checked on their own. The asset opcodes only read the
packet and use the stack discipline of `Step`, which `Exec` reproduces, so a
composed module would add states without adding interleavings.

## 3. Runs

| Run | What it shows |
|---|---|
| `engine_safety` (MC_Engine.cfg) | For every input of `MCInputs` (all bare scripts of up to two tokens without CHECKSIG and the taproot witnesses below), each Execute keeps all of the invariants above, lowers the progress measure at every step (`VariantDecreases`), terminates and implements the Execute contract (`ImplementsExecuteContract`). About 25,800 distinct states. |
| `engine_leaf_size` | Violation of `ScriptSizeBound`: a leaf of more than MaxScriptSize bytes is executed. |
| `assets` (MC_Assets.cfg) | Every interleaving of pushes and asset opcodes, up to stack depth 4, over a full, an empty and a missing packet keeps `TypeOK` and computes the sums, searches and intent enumerations as specified. About 444,000 states. |
| `asset_sum_overflow` | Violation of `AssetSumIsEntrySum`: a group whose outputs sum to 9 with 3-bit amounts pushes 1. |
| `asset_gidx_truncation` | Violation of `FindReturnsFirstGroup`: FIND with gidx 65536 returns group 0. |
| `asset_packet_missing` | Violation of `PacketMissingError`: a missing packet gives InvalidIndex. |
| `asset_negative_index` | Violation of `NegativeIndexRejected`: with an empty packet, push -1, then INSPECTOUTASSETCOUNT pushes 0 and the script goes on. |

The `engine_safety` inputs cover:

- every construction error;
- a non-taproot program and an empty witness;
- a key spend, and an annexed key spend;
- script path spends with a missing control block, a wrong commitment, an
  upgradeable leaf version, too deep a starting stack, and too big an
  element;
- leaves that exercise nested IF/ELSE in dead branches, the alt stack,
  CHECKSIG with its budget (1, 10 and 11 checks against one witness signature; 11
  exceed the budget),
  minimal pushes and MINIMALIF.

Every action and every disjunct fires in the passing runs.

**Bounds.**

- MaxStackSize is 4, so the stack bound is reached by both the witness and
  the script.
- Amounts are 3 bits wide, so sums of the test groups stay below the limit
  in the passing run and exceed it in the finding run. The width is a
  constant: the code's 64 bits behave the same way at the edge.
- MaxDepth is 4 for the assets run, so every opcode runs with its full
  argument list, and with too few arguments.
- The pushed numbers -1..2 reach both sides of every index check.

**Fairness.** `Spec` of `Engine` has `WF_vars(Next)`. `Execute` calls `Step`
in a loop with nothing else in between, so a step that can be taken is taken.
`Termination` needs this fairness. The accepted and rejected states have no
successor, because `Execute` has returned. That is why the engine runs set
`CHECK_DEADLOCK FALSE`. The assets runs set it too, because after an error
no opcode runs.

## 4. Mutants

Each property of a passing run is broken by a plausible bug in the code:

| Property | Bug (mutant) |
|---|---|
| `TypeOK` (Engine) | an arithmetic OP_ELSE toggle |
| `CondStackNesting` | OP_ELSE toggles skipped branches |
| `StackBound` | the starting-stack depth check is dropped |
| `ElementBound` | the starting-stack element check is dropped |
| `TaprootSpendBinding` | the leaf commitment is not checked |
| `SigOpsBudgetSound` | the budget starts without sigOpsDelta |
| `PCValid` | empty scripts are not skipped |
| `ExecuteOpcodeOrder` | the element size is checked only in an executing branch, after the branch test |
| `Termination` | a stack opcode with an empty source stack neither fails nor steps |
| `VariantDecreases` | `AfterOpcode` does not advance the program counter within a script |
| `ImplementsExecuteContract` | the done test of `EnterScript` is off by one (done on reaching the last script) |
| `TypeOK` (Assets) | no stack bound in Step |
| `AssetSumIsEntrySum` | the input and output sums are swapped |
| `FindReturnsFirstGroup` | the search compares the txid only |
| `IntentEnumerationIsFilter` | idx is incremented before the comparison |

## 5. Findings

1. **Leaf size is not checked** (part_002:420). `verifyWitnessProgram` does
   not check the size of the tapscript leaf, but the specification requires
   every script to be at most MaxScriptSize bytes.
2. **GROUPSUM wraps on overflow** (asset_opcodes.go:246/249). The sum wraps
   modulo 2^64 instead of failing with AssetOverflow.
3. **gidx is truncated** (asset_opcodes.go:55). `popAssetID` truncates gidx
   to uint16 without a range check. As a result, FIND and the LOOKUP
   opcodes match asset IDs that do not exist.
4. **Wrong error for a missing packet** (asset_opcodes.go:12). It is
   reported as InvalidIndex, not AssetPacketMissing.
5. **Negative output or input indexes are not rejected**
   (asset_opcodes.go:315 and the per-input twins). `uint32(o)` of a
   negative index is a key missing from the map. The COUNT opcodes then
   push 0 and the LOOKUP opcodes push -1. The specification says an
   out-of-range O or I is an error (AssetIndexOutOfRange).

## 6. Proofs

The engine theorems hold for every value of MaxStackSize,
MaxScriptElementSize, MaxScriptSize, Inputs and Nil that satisfies
`SizesAssumption` and `InputsAssumption`. The asset theorems hold for every
value of Packets, Blobs, PushNums, AmountBits, MaxDepth and Nil that
satisfies `AssetsAssumption` and `PacketsAssumption`.

- `SizesAssumption` asks MaxScriptElementSize to be at least 1, because
  OP_1 pushes one byte. txscript's value is 520.
- `InputsAssumption` gives only the shape of the inputs (two scripts and a
  witness) and keeps `Nil` apart from real values. That a witness size is a
  natural number is proved (`WitnessSizeNat`), not assumed.
- `AssetsAssumption` asks for a positive amount width and a natural depth
  limit. `PacketsAssumption` asks each packet to be `Nil` or well formed.

| Module | Theorem | Statement |
|---|---|---|
| EngineProofs | `TypeCorrect` | `Spec => []TypeOK` |
| EngineProofs | `PCValidHolds` | `Spec => []PCValid` |
| EngineProofs | `StackBoundHolds` | `Spec => []StackBound` |
| StackProofs | `ElementBoundHolds` | `Spec => []ElementBound` |
| StackProofs | `CondStackNestingHolds` | `Spec => []CondStackNesting` |
| StackProofs | `ExecuteOpcodeOrderHolds` | `Spec => ExecuteOpcodeOrder` |
| SigOpsProofs | `SigOpsBudgetHolds` | `Spec => []SigOpsBudgetSound` |
| TaprootProofs | `TaprootSpendBindingHolds` | `Spec => []TaprootSpendBinding` |
| ExecuteRefinement | `Refinement` | `Spec => ImplementsExecuteContract` |
| AssetsProofs | `AssetsTypeCorrect` | `Spec => []TypeOK` (Assets) |
| AssetsProofs | `IntentEnumerationIsFilterHolds` | `Spec => IntentEnumerationIsFilter` |
| EngineProofs | `VariantDecreasesHolds` | `Spec => VariantDecreases` |
| AssetsProofs | `FindIsFirstTruncatedMatch` | `Spec => [][FindStep]_vars` |
| AssetsProofs | `GroupSumIsWrappedEntrySum` | `Spec => [][GroupSumStep]_vars` |
| AssetsProofs | `SumAmountsIsEntrySumMod` | `SumAmounts(s) = EntrySum(s) % AmountMod` |

**Induction over data.** The loops of the code are recursive functions,
and the proofs reason about them in three steps:

- `FiniteNatInductiveDef` (NaturalsInduction) unfolds a recursive function
  on `0..Len(s)` into its defining equation. It is first-order, so the
  provers can apply it.
- `SetInduction` and `IntervalInduction` (InductionLemmas) are induction
  over the naturals and over `0..n` for a given set. The library's
  induction theorems take the claim as an operator parameter, which the
  provers cannot instantiate. These two lemmas take the set of indices
  where the claim holds instead. They are proved from the well-foundedness
  of `<` on the naturals (`NatLessThanWellFounded`, `WFMin`).
- Each loop lemma defines that set for its claim, proves that 0 is in it
  and that each step keeps it, and concludes for every index.

**The inductive invariant** is
`IInv == TypeOK /\ PCValid /\ ScriptLayout /\ WitnessSized /\ StackBound`.

- StackBound is inductive together with the rest. Every step commits its
  stacks only after Step's combined check (`AfterOpcode`) or
  verifyWitnessProgram's starting-stack check (`EnterChecked`). A key spend
  keeps the stack that `AfterOpcode` has just bounded. The script
  boundary and CheckErrorCondition only shrink the stacks.
- PCValid alone is not inductive: after a script boundary, Step must land
  on a script that parses. `ScriptLayout` records the facts that make this
  so:
  - `vm.scripts` holds 2 or 3 scripts;
  - while Step is in the first two scripts, the leaf is not appended yet;
  - every script of an engine that has not failed parses, because
    NewEngine and verifyWitnessProgram call `checkScriptParses`.
- TLC checked `IInv` as an invariant of `engine_safety` before it was
  proved.

**The argument** has one lemma per action:

- `AfterOpcodeIInv` covers the shared tail of every step. It splits on:
  - the stack bound;
  - a mid-script step;
  - an open conditional;
  - the witness verification (`VerifyIInv`, which splits on each check of
    verifyWitnessProgram);
  - the move to the next script (`EnterScriptIInv`).
- Each handler lemma shows that the stacks it hands to `AfterOpcode` are
  well typed. The lemmas rest on `AppendFacts` and `PopFacts`.
- `NextIInv` combines them.

Each further theorem proves one more invariant on top of `IInv` the same
way: a lemma for the shared tail (Fail, EnterChecked, verifyWitnessProgram,
AfterOpcode), one per handler, then Init and Next.

- **ElementBound** (StackProofs) uses `Bounded(s)`: no element of s is
  longer than MaxScriptElementSize.
  - Pushes have passed executeOpcode's length check.
  - OP_1 and OP_CHECKSIG push at most one byte.
  - The witness stack becomes the data stack only when `LeafStackError`
    found no long element.
  - Every other handler moves, copies or drops elements that are already
    bounded.
- **CondStackNesting** (StackProofs) rests on `Nested(condStack)`: below a
  non-true entry, every entry is a skip.
  - `NestedLive` shows that on a nested stack the top alone tells whether
    every entry is true. That gives the second conjunct, about
    isBranchExecuting.
  - OP_IF pushes a skip in a dead branch, or any value on an all-true
    stack.
  - OP_ELSE's toggle leaves a skip a skip.
  - OP_ENDIF pops.
- **SigOpsBudgetSound** (SigOpsProofs) is not inductive by itself. The
  strengthening `SigInv` adds two facts:
  - no signature is checked before the context exists (`taprootCtx = Nil
    => sigOps = 0`);
  - the context does not exist while Step is on the first two scripts.

  So when verifyWitnessProgram creates the context with a budget of
  50 + witness size, the tally is 0. Each OP_CHECKSIG subtracts 50 and adds
  one check, and it fails below zero.
- **TaprootSpendBinding** (TaprootProofs) is not inductive by itself,
  because it says nothing about a running engine. The strengthening `TInv`
  says that a witness-program engine that has not failed is in one of two
  states:
  - on script 1 with no taproot context and two scripts (`PreLeaf`);
  - past script 1, with the spend shape already fixed for the current
    context (`Binding`).

  verifyWitnessProgram is the only step that leaves `PreLeaf`. It fixes the
  shape: a key spend with mustSucceed set, or the appended leaf with its
  hash in the context and the control block committing to it. Every later
  step keeps the witness and the script list. A step either keeps the
  context or changes only its budget (OP_CHECKSIG's `tallysigOp`), and
  `BindingFlags` shows that the shape reads only mustSucceed and the leaf
  hash. The index never returns to script 1, so verifyWitnessProgram is
  never called a second time.
- **The refinement** (ExecuteRefinement) has these parts:
  - `InitAbs`: NewEngine starts on script 0 or 1 of 2, running or rejected.
  - `NextAbs`: every step, given `IInv`, is one of the following:
    - a contract `Advance`: `EnterScript` moves forward to a script list
      that did not shrink, and its done test is the contract's;
    - a `Reject` (every `Fail`);
    - an `Accept` (CheckErrorCondition from done);
    - no change to the mapped values (a step inside a script).
  - The theorem follows by PTL from `InitAbs`, `NextAbs` and `[]IInv`.

  One consequence is that the "script unfinished" branch of
  CheckErrorCondition is unreachable from Execute. The mustSucceed early
  return before that branch is therefore harmless.

- **VariantDecreases** (EngineProofs) is the safety half of termination.
  The measure `Variant` is a triple of naturals:
  - the status rank: running 2, done 1, a verdict 0;
  - while running, `3 - scriptIdx` (Execute holds at most three scripts);
  - while running, the opcodes left in the current script.

  `ProgressStep` lists the four shapes a step can have: the loop ends, Step
  becomes done, Step enters a later script, or the program counter advances
  within the script. `FailProgress`, `EnterScriptProgress` (SkipEmpty only
  moves forward), `EnterCheckedProgress`, `VerifyProgress` and
  `AfterOpcodeProgress` follow the tail of a step. `NextProgress` covers
  every handler and CheckErrorCondition. `VariantNat` (from `IInv`: PCValid
  and ScriptLayout) makes the measure natural before and after the step.
  `ProgressLowers` then shows the lexicographic decrease for each shape.
  Lexicographic order on triples of naturals has no infinite descending
  chain, so no run of Execute has infinitely many steps. The other half,
  that a running engine always has a step to take (so `WF_vars(Next)`
  forces one), needs ENABLED and stays with TLC as `Termination`.
- **ExecuteOpcodeOrder** (StackProofs) is an action property, proved from
  IInv. `HandlerExecutes` reduces every handler to `Executes(op)`, so no
  step needs to expand all the handler bodies at once. The step
  `OrderStep` then follows the IF chain of the property:
  - `NotDispatchable`: a reserved opcode or an oversized element leaves
    only StepReservedOpcode and StepElementTooBig enabled, whatever the
    branch state.
  - `DeadBranchSkips`: otherwise, in a dead branch on an opcode that is not
    a conditional, only StepSkipped or AfterOpcode can act.
  - `SkippedStepShape`: StepSkipped leaves stacks, context and tally alone.
    AfterOpcode either advances or fails on the open conditional.
  - `LiveNonMinimalFails`: in a live branch a non-minimal push can only
    fail with MinimalData.
- **Assets TypeOK** (AssetsProofs) is inductive as it stands; the work is
  in its lemmas. There is one lemma per handler. `ExecType` shows that a
  handler keeps TypeOK when its error is one of `Errs` and its stack is
  well typed whenever the error is "none". The argument lemmas
  (`PacketArg`, `PopIntArg`, `PopAssetIDArg`, `GroupArg`) give what each
  passed check guarantees: an installed packet, a number on the stack, a
  valid group. The loop lemmas give the loop results their types:
  - `SumAmountsType`: the sum is an amount;
  - `FirstMatchType` and `IntentAtType`: the result is a position or 0;
  - `IntentCountType`: the count is a natural.
- **IntentEnumerationIsFilter** (AssetsProofs) rests on `IntentAtIsFilter`,
  which unfolds the enumeration loop and the filter together. After i
  entries, either nothing was found, idx is the number of intent entries
  so far and j is not below it, or the entry found is the (j+1)-th intent
  entry so far. `GroupIntentFilter` then follows the handler's checks on a
  valid group to the two values it pushes.
- **The asset findings, stated for all inputs.**
  - `SumAmountsIsEntrySumMod` shows that the sum loop computes the true sum
    modulo 2^AmountBits (through `ModAdd`). The violation of
    AssetSumIsEntrySum that `asset_sum_overflow` finds is therefore exactly
    the wrap-around of a sum that does not fit.
  - `FindIsFirstTruncatedMatch`, with `FirstMatchIsFirst`, shows that FIND
    returns the first group matching the pushed txid and the gidx truncated
    to uint16. The violation that `asset_gidx_truncation` finds is therefore
    the truncation alone, and the search loop is right.
  - `GroupSumIsWrappedEntrySum` lifts `SumAmountsIsEntrySumMod` to the
    opcode. A successful GROUPSUM replaces its two arguments by the le64
    values of the entry sums modulo 2^AmountBits, for the requested source
    (`GroupSumStepOK`, following the checks of `GroupSumType`). So whenever
    the sums fit, it pushes exactly what AssetSumIsEntrySum asks for. TLC
    checked `GroupSumStep` on the `assets` instance and on the overflow
    instance before it was proved.

**Only model-checked:**

- `Termination`, and the contract's fairness, because they are liveness
  under fairness (and need ENABLED), which is out of the provers' reach.
  The measure that makes it hold is proved to decrease
  (`VariantDecreasesHolds`).
- `AssetSumIsEntrySum` and `FindReturnsFirstGroup`. They are checked by
  the passing `assets` run, but they hold only because of that instance's
  bounds: its amounts sum below 2^AmountBits, and its gidx values fit 16
  bits. In general they are false, as the findings show. What holds in
  general is proved instead: `SumAmountsIsEntrySumMod`,
  `GroupSumIsWrappedEntrySum` and `FindIsFirstTruncatedMatch`.

## 7. Not modelled

- **Opcode families:** the arithmetic, introspection, hashing and
  elliptic-curve opcodes. Their handlers are not in src/, and their effect on
  control is the same as any handler's.
- **Observers and formatting:** the debug step callback and the disassembly
  functions, which do not affect the verdict.
- **Cryptography:** the Schnorr and Merkle computations, which are replaced
  by their verdicts.
- **Tests:** the test files and the test plan.
