-------------------------- MODULE MC_EngineLeafSize --------------------------
(***************************************************************************)
(* A taproot script path spend whose committed leaf is larger than         *)
(* MaxScriptSize: twenty pushes of a full-size element, each dropped, then *)
(* OP_1.  NewEngine checks the size of the signature and public key        *)
(* scripts only; verifyWitnessProgram checks that the leaf parses.         *)
(***************************************************************************)
EXTENDS MC_Engine

BigLeaf == Repeat(<<P(Full), O("DROP")>>, 20) \o <<O("OP_1")>>

LeafSizeInputs == {<<<<>>, Taproot, ScriptPath(<<>>, BigLeaf, CBEl(BigLeaf, "base"), FALSE)>>}

=============================================================================
