--------------------------- MODULE MC_AssetFindings ---------------------------
(***************************************************************************)
(* Inputs on which the asset opcodes disagree with the specification: a    *)
(* group whose output amounts add up past the amount width, a group index  *)
(* pushed outside the uint16 range, and no packet at all.                  *)
(***************************************************************************)
EXTENDS MC_Assets

\* Outputs 7 + 2 with 3-bit amounts (as 2^64 - 1 + 2 with 64-bit ones).
GWide == [G0 EXCEPT !.outputs = <<Out(TypeLocal, 0, 7), Out(TypeLocal, 1, 2)>>]
WidePacket == [Full EXCEPT !.groups = <<GWide>>]
OverflowPackets == {WidePacket}

\* Group index 65536: uint16(65536) = 0.
WideGidxNums == {0, 65536}

NoPackets == {Nil}

=============================================================================
