CONSTANTS
  MaxStackSize = 4
  MaxScriptElementSize = 520
  MaxScriptSize = 10000
  Inputs <- LeafSizeInputs
  Nil = Nil

SPECIFICATION Spec

CHECK_DEADLOCK FALSE

INVARIANT ScriptSizeBound
