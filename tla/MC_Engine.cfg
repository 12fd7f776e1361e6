CONSTANTS
  MaxStackSize = 4
  MaxScriptElementSize = 520
  MaxScriptSize = 10000
  Inputs <- MCInputs
  Nil = Nil

SPECIFICATION Spec

CHECK_DEADLOCK FALSE

INVARIANTS
  TypeOK
  StackBound
  ElementBound
  CondStackNesting
  TaprootSpendBinding
  SigOpsBudgetSound
  PCValid

PROPERTIES
  ExecuteOpcodeOrder
  Termination
  VariantDecreases
  ImplementsExecuteContract
