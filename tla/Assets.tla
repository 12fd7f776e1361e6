------------------------------- MODULE Assets -------------------------------
(***************************************************************************)
(* The asset packet introspection opcodes (pkg/arkade/asset_opcodes.go)    *)
(* and the packet they read (AssetPacket and its parts).  A script pushes  *)
(* numbers and 32-byte blobs and runs the opcodes in any order; each       *)
(* opcode is one action that pops its arguments, checks them against the   *)
(* packet and pushes its results, or ends execution with its error.        *)
(*                                                                         *)
(* A stack value is a script number (PushInt/PopInt), a 32-byte blob (a    *)
(* txid or a metadata hash: PushByteArray of 32 bytes) or an 8-byte        *)
(* little-endian amount (pushLE64).  Amounts are AmountBits wide (64 in    *)
(* the code).                                                              *)
(***************************************************************************)
EXTENDS Integers, Sequences

CONSTANTS
  Packets,      \* the asset packets SetAssetPacket may have installed, or Nil
  Blobs,        \* 32-byte values: txids and metadata hashes
  PushNums,     \* the script numbers the script pushes
  AmountBits,   \* width of an amount (uint64)
  MaxDepth,     \* txscript.MaxStackSize: the stack bound Step enforces
  Nil

ASSUME AssetsAssumption ==
  /\ AmountBits \in Nat \ {0}
  /\ MaxDepth \in Nat
  /\ PushNums \subseteq Int
  /\ Nil \notin Blobs

\* AssetInputType / AssetOutputType byte values.
TypeLocal == 1
TypeIntent == 2

\* 2^k, written as a function of k so that its value can be reasoned about.
Pow2[k \in Nat] == IF k = 0 THEN 1 ELSE 2 * Pow2[k - 1]

AmountMod == Pow2[AmountBits]
GidxMod == 2 ^ 16    \* AssetID.Gidx is a uint16

\* The packet types (AssetID, AssetInput, AssetOutput, AssetGroup, the
\* entries of InputAssets / OutputAssets, AssetPacket), with a uint16 gidx
\* and AmountBits-wide amounts; the byte and uint32 fields are naturals.
AssetID == [txid : Blobs, gidx : 0..GidxMod - 1]
Amount == 0..AmountMod - 1
AssetInput == [type : Nat, inputIndex : Nat, txid : Blobs, outputIndex : Nat,
               amount : Amount]
AssetOutput == [type : Nat, outputIndex : Nat, amount : Amount]
AssetGroup == [id : AssetID, control : AssetID \cup {Nil}, meta : Blobs,
               inputs : Seq(AssetInput), outputs : Seq(AssetOutput)]
AssetEntry == [id : AssetID, amount : Amount]
IsAssetMap(m) ==
  /\ DOMAIN m \subseteq Nat
  /\ \A o \in DOMAIN m : m[o] \in Seq(AssetEntry)
IsAssetPacket(p) ==
  /\ p.groups \in Seq(AssetGroup)
  /\ IsAssetMap(p.inAssets) /\ IsAssetMap(p.outAssets)

\* SetAssetPacket installs a decoded packet (or none).
ASSUME PacketsAssumption == \A p \in Packets : p = Nil \/ IsAssetPacket(p)

\* Stack values.
Num(n) == [t |-> "num", n |-> n]
B32(b) == [t |-> "b32", n |-> b]
LE64(a) == [t |-> "le64", n |-> a % AmountMod]

VARIABLES
  packet,   \* vm.assetPacket (Nil when SetAssetPacket was not called)
  dstack,   \* vm.dstack, top is the last element
  err,      \* the error the last opcode returned ("none" while running)
  lastOp    \* history: the opcode the last step executed

vars == <<packet, dstack, err, lastOp>>

-----------------------------------------------------------------------------
(* Stack helpers (txscript stack: PopInt, PopByteArray, PushInt...).       *)

\* The i-th value from the top (1 = top).
Arg(i) == dstack[Len(dstack) - i + 1]
Drop(ds, n) == SubSeq(ds, 1, Len(ds) - n)
Push(ds, vs) == ds \o vs

\* The first error of a chain of checks made in order.
Then(e1, e2) == IF e1 # "none" THEN e1 ELSE e2

\* PopInt of the i-th value: an empty stack is InvalidStackOperation, a
\* value longer than four bytes (a blob, an amount) is NumberTooBig.
PopIntErr(i) ==
  IF i > Len(dstack) THEN "InvalidStackOperation"
  ELSE IF Arg(i).t # "num" THEN "NumberTooBig" ELSE "none"

\* PopByteArray of the i-th value fails only on an empty stack.
PopBytesErr(i) == IF i > Len(dstack) THEN "InvalidStackOperation" ELSE "none"

\* checkAssetPacket
checkAssetPacket == IF packet = Nil THEN "InvalidIndex" ELSE "none"

\* checkGroupIndex
checkGroupIndex(k) ==
  IF k < 0 \/ k >= Len(packet.groups) THEN "InvalidIndex" ELSE "none"

\* popAssetID at depth i: gidx (PopInt), then the txid (PopByteArray,
\* exactly 32 bytes), the gidx truncated to uint16.
popAssetIDErr(i) ==
  Then(PopIntErr(i), Then(PopBytesErr(i + 1),
       IF Arg(i + 1).t # "b32" THEN "InvalidStackOperation" ELSE "none"))
popAssetID(i) == [txid |-> Arg(i + 1).n, gidx |-> Arg(i).n % GidxMod]

\* pushAssetID
AssetIDVals(id) == <<B32(id.txid), Num(id.gidx)>>

\* vm.assetPacket.OutputAssets[uint32(o)]: a missing key is an empty list; a
\* negative o becomes an index of 2^31 or more, beyond every key used here.
Entries(m, o) == IF o >= 0 /\ o \in DOMAIN m THEN m[o] ELSE <<>>

Group(k) == packet.groups[k + 1]

-----------------------------------------------------------------------------
(* Loops of the handlers.                                                   *)

\* The accumulation loops of opcodeInspectAssetGroupSum: uint64 additions.
SumAmounts(s) ==
  LET sum[i \in 0..Len(s)] ==
        IF i = 0 THEN 0 ELSE (sum[i - 1] + s[i].amount) % AmountMod
  IN  sum[Len(s)]

\* Mutant: the search compares the txid only.
FirstMatchTxidOnly(es, id) ==
  LET f[i \in 0..Len(es)] ==
        IF i = 0 THEN 0
        ELSE IF f[i - 1] # 0 THEN f[i - 1]
        ELSE IF es[i].id.txid = id.txid THEN i ELSE 0
  IN  f[Len(es)]

\* The first entry of es whose AssetID equals id, as a 1-based position, or
\* 0 (the search loops of FIND and the two LOOKUP opcodes).
FirstMatch(es, id) ==
  LET f[i \in 0..Len(es)] ==
        IF i = 0 THEN 0
        ELSE IF f[i - 1] # 0 THEN f[i - 1]
        ELSE IF es[i].id.txid = id.txid /\ es[i].id.gidx = id.gidx THEN i ELSE 0
  IN  f[Len(es)]

\* Mutant: idx is incremented before it is compared with j.
IntentAtIncFirst(s, j) ==
  LET f[i \in 0..Len(s)] ==
        IF i = 0 THEN [idx |-> 0, found |-> 0]
        ELSE IF f[i - 1].found # 0 \/ s[i].type # TypeIntent THEN f[i - 1]
        ELSE IF f[i - 1].idx + 1 = j THEN [idx |-> j, found |-> i]
        ELSE [idx |-> f[i - 1].idx + 1, found |-> 0]
  IN  f[Len(s)].found

\* The intent enumeration loop of GroupIntentOut / GroupIntentIn: idx counts
\* the intent entries seen; the entry where idx = j is returned (position,
\* or 0 when the loop ends).
IntentAt(s, j) ==
  LET f[i \in 0..Len(s)] ==
        IF i = 0 THEN [idx |-> 0, found |-> 0]
        ELSE IF f[i - 1].found # 0 \/ s[i].type # TypeIntent THEN f[i - 1]
        ELSE IF f[i - 1].idx = j THEN [idx |-> j, found |-> i]
        ELSE [idx |-> f[i - 1].idx + 1, found |-> 0]
  IN  f[Len(s)].found

\* The counting loops of the intent count opcodes.
IntentCount(s) ==
  LET c[i \in 0..Len(s)] ==
        IF i = 0 THEN 0 ELSE c[i - 1] + (IF s[i].type = TypeIntent THEN 1 ELSE 0)
  IN  c[Len(s)]

-----------------------------------------------------------------------------
(* The opcodes.  Exec ends the step: the error, else the combined stack    *)
(* bound of Step, else the new stack.                                      *)

\* Mutant: the combined stack bound is not checked.
ExecNoStackCheck(op, e, ds) ==
  /\ err = "none"
  /\ lastOp' = op
  /\ UNCHANGED packet
  /\ IF e # "none" THEN err' = e /\ UNCHANGED dstack
     ELSE err' = "none" /\ dstack' = ds

Exec(op, e, ds) ==
  /\ err = "none"
  /\ lastOp' = op
  /\ UNCHANGED packet
  /\ IF e # "none" THEN err' = e /\ UNCHANGED dstack
     ELSE IF Len(ds) > MaxDepth THEN err' = "StackOverflow" /\ UNCHANGED dstack
     ELSE err' = "none" /\ dstack' = ds

\* A data push of the script.
PushValue ==
  /\ err = "none"
  /\ Len(dstack) < MaxDepth
  /\ \E v \in {Num(n) : n \in PushNums} \cup {B32(b) : b \in Blobs} :
       dstack' = Append(dstack, v)
  /\ lastOp' = "PUSH"
  /\ UNCHANGED <<packet, err>>

InspectNumAssetGroups ==
  Exec("NUMASSETGROUPS", checkAssetPacket,
       Append(dstack, Num(Len(packet.groups))))

\* The checks of the opcodes taking k on top: packet, PopInt, group index.
GroupArgErr(i) ==
  Then(checkAssetPacket, Then(PopIntErr(i), checkGroupIndex(Arg(i).n)))

GroupAssetID ==
  Exec("ASSETID", GroupArgErr(1), Drop(dstack, 1) \o AssetIDVals(Group(Arg(1).n).id))

GroupCtrl ==
  Exec("CTRL", GroupArgErr(1),
       Drop(dstack, 1) \o (IF Group(Arg(1).n).control = Nil THEN <<Num(-1)>>
                            ELSE AssetIDVals(Group(Arg(1).n).control)))

FindAssetGroupByAssetID ==
  LET p == FirstMatch([g \in 1..Len(packet.groups) |->
                         [id |-> packet.groups[g].id]], popAssetID(1))
  IN Exec("FIND", Then(checkAssetPacket, popAssetIDErr(1)),
          Append(Drop(dstack, 2), Num(p - 1)))

MetadataHash ==
  Exec("METADATAHASH", GroupArgErr(1),
       Append(Drop(dstack, 1), B32(Group(Arg(1).n).meta)))

\* The source switch of GroupNum and GroupSum: 0, 1 or 2 (both).
SourceVals(src, forIn, forOut) ==
  CASE src = 0 -> <<forIn>> [] src = 1 -> <<forOut>> [] src = 2 -> <<forIn, forOut>>

SourceErr(src, ok) == IF src \in ok THEN "none" ELSE "InvalidIndex"

GroupNum ==
  LET src == Arg(1).n  g == Group(Arg(2).n) IN
  Exec("GROUPNUM",
       Then(checkAssetPacket, Then(PopIntErr(1), Then(GroupArgErr(2),
            SourceErr(src, {0, 1, 2})))),
       Drop(dstack, 2) \o SourceVals(src, Num(Len(g.inputs)), Num(Len(g.outputs))))

\* The values INSPECTASSETGROUP pushes for an input or an output.
InputVals(inp) ==
  <<Num(inp.type)>>
  \o (IF inp.type = TypeLocal THEN <<Num(inp.inputIndex)>>
      ELSE <<B32(inp.txid), Num(inp.outputIndex)>>)
  \o <<LE64(inp.amount)>>
OutputVals(out) == <<Num(out.type), Num(out.outputIndex), LE64(out.amount)>>

InspectAssetGroup ==
  LET src == Arg(1).n  j == Arg(2).n  g == Group(Arg(3).n)
      s == IF src = 0 THEN g.inputs ELSE g.outputs
  IN Exec("GROUP",
          Then(checkAssetPacket, Then(PopIntErr(1), Then(PopIntErr(2),
               Then(GroupArgErr(3), Then(SourceErr(src, {0, 1}),
                    IF j < 0 \/ j >= Len(s) THEN "InvalidIndex" ELSE "none"))))),
          Drop(dstack, 3) \o (IF src = 0 THEN InputVals(s[j + 1])
                              ELSE OutputVals(s[j + 1])))

\* Mutant: the input and output sums are swapped.
GroupSumValsSwapped(g, src) ==
  SourceVals(src, LE64(SumAmounts(g.outputs)), LE64(SumAmounts(g.inputs)))

\* The values GroupSum pushes for source src of group g (the switch after
\* the two loops).
GroupSumVals(g, src) ==
  SourceVals(src, LE64(SumAmounts(g.inputs)), LE64(SumAmounts(g.outputs)))

GroupSum ==
  LET src == Arg(1).n IN
  Exec("GROUPSUM",
       Then(checkAssetPacket, Then(PopIntErr(1), Then(GroupArgErr(2),
            SourceErr(src, {0, 1, 2})))),
       Drop(dstack, 2) \o GroupSumVals(Group(Arg(2).n), src))

\* OutAssetCount / InAssetCount over map m.
AssetCount(op, m) ==
  Exec(op, Then(checkAssetPacket, PopIntErr(1)),
       Append(Drop(dstack, 1), Num(Len(Entries(m, Arg(1).n)))))

\* OutAssetAt / InAssetAt: o (or i) below t.
AssetAt(op, m) ==
  LET es == Entries(m, Arg(2).n)  t == Arg(1).n IN
  Exec(op, Then(checkAssetPacket, Then(PopIntErr(1), Then(PopIntErr(2),
                IF t < 0 \/ t >= Len(es) THEN "InvalidIndex" ELSE "none"))),
       Drop(dstack, 2) \o AssetIDVals(es[t + 1].id) \o <<LE64(es[t + 1].amount)>>)

\* OutAssetLookup / InAssetLookup: o (or i) below the asset ID.
AssetLookup(op, m) ==
  LET es == Entries(m, Arg(3).n)  p == FirstMatch(es, popAssetID(1)) IN
  Exec(op, Then(checkAssetPacket, Then(popAssetIDErr(1), PopIntErr(3))),
       Append(Drop(dstack, 3), IF p = 0 THEN Num(-1) ELSE LE64(es[p].amount)))

OutAssetCount == AssetCount("OUTCOUNT", packet.outAssets)
OutAssetAt == AssetAt("OUTAT", packet.outAssets)
OutAssetLookup == AssetLookup("OUTLOOKUP", packet.outAssets)
InAssetCount == AssetCount("INCOUNT", packet.inAssets)
InAssetAt == AssetAt("INAT", packet.inAssets)
InAssetLookup == AssetLookup("INLOOKUP", packet.inAssets)

GroupIntentOutCount ==
  Exec("INTENTOUTCOUNT", GroupArgErr(1),
       Append(Drop(dstack, 1), Num(IntentCount(Group(Arg(1).n).outputs))))

GroupIntentInCount ==
  Exec("INTENTINCOUNT", GroupArgErr(1),
       Append(Drop(dstack, 1), Num(IntentCount(Group(Arg(1).n).inputs))))

\* What GroupIntentOut and GroupIntentIn push for the entry they found.
IntentVals(e, field) ==
  IF field = "outputs" THEN <<Num(e.outputIndex), LE64(e.amount)>>
  ELSE <<B32(e.txid), Num(e.outputIndex), LE64(e.amount)>>

\* GroupIntentOut / GroupIntentIn: k below j.
GroupIntent(op, field) ==
  LET s == Group(Arg(2).n)[field]  p == IntentAt(s, Arg(1).n) IN
  Exec(op, Then(checkAssetPacket, Then(PopIntErr(1), Then(GroupArgErr(2),
                IF p = 0 THEN "InvalidIndex" ELSE "none"))),
       Drop(dstack, 2) \o IntentVals(s[p], field))

GroupIntentOut == GroupIntent("INTENTOUT", "outputs")
GroupIntentIn == GroupIntent("INTENTIN", "inputs")

-----------------------------------------------------------------------------

Init ==
  /\ packet \in Packets
  /\ dstack = <<>>
  /\ err = "none"
  /\ lastOp = "NONE"

Next ==
  \/ PushValue
  \/ InspectNumAssetGroups \/ GroupAssetID \/ GroupCtrl
  \/ FindAssetGroupByAssetID \/ MetadataHash \/ GroupNum \/ InspectAssetGroup
  \/ GroupSum \/ OutAssetCount \/ OutAssetAt \/ OutAssetLookup
  \/ InAssetCount \/ InAssetAt \/ InAssetLookup
  \/ GroupIntentOutCount \/ GroupIntentOut \/ GroupIntentInCount \/ GroupIntentIn

Spec == Init /\ [][Next]_vars

-----------------------------------------------------------------------------
(* Properties.                                                             *)

Value == [t : {"num"}, n : Int] \cup [t : {"b32"}, n : Blobs]
         \cup [t : {"le64"}, n : 0..AmountMod - 1]
AssetOps == {"NUMASSETGROUPS", "ASSETID", "CTRL", "FIND", "METADATAHASH",
             "GROUPNUM", "GROUP", "GROUPSUM", "OUTCOUNT", "OUTAT", "OUTLOOKUP",
             "INCOUNT", "INAT", "INLOOKUP", "INTENTOUTCOUNT", "INTENTOUT",
             "INTENTINCOUNT", "INTENTIN"}

\* Every variable holds a value of its kind.
TypeOK ==
  /\ packet \in Packets
  /\ dstack \in Seq(Value) /\ Len(dstack) <= MaxDepth
  /\ err \in {"none", "InvalidIndex", "InvalidStackOperation", "NumberTooBig",
              "StackOverflow"}
  /\ lastOp \in AssetOps \cup {"PUSH", "NONE"}

\* The sum of the amounts of a list of entries, in unbounded integers.
EntrySum(s) ==
  LET sum[i \in 0..Len(s)] == IF i = 0 THEN 0 ELSE sum[i - 1] + s[i].amount
  IN  sum[Len(s)]

\* opcodeInspectAssetGroupSum against the specification's "asset sum =
\* entry sum" (and "overflow of u64 aggregation = error"): when
\* INSPECTASSETGROUPSUM(k, source) succeeds, the sums it pushes are the
\* sums of the amounts INSPECTASSETGROUP(k, j, source) returns over all j.
AssetSumIsEntrySum ==
  [][ (lastOp' = "GROUPSUM" /\ err' = "none") =>
        LET src == Arg(1).n  g == Group(Arg(2).n)
            pushed == SubSeq(dstack', Len(dstack) - 1, Len(dstack'))
        IN  [i \in DOMAIN pushed |-> pushed[i].n]
              = CASE src = 0 -> <<EntrySum(g.inputs)>>
                  [] src = 1 -> <<EntrySum(g.outputs)>>
                  [] src = 2 -> <<EntrySum(g.inputs), EntrySum(g.outputs)>> ]_vars

\* opcodeFindAssetGroupByAssetID (and popAssetID): FIND pushes the index of
\* the first group whose AssetID is exactly the (txid, gidx) the script
\* pushed, or -1 when there is none; so FIND(ASSETID(k)) = k whenever the
\* AssetID of group k is unique, as the specification requires.
FindReturnsFirstGroup ==
  [][ (lastOp' = "FIND" /\ err' = "none") =>
        LET id == [txid |-> Arg(2).n, gidx |-> Arg(1).n]
            r == dstack'[Len(dstack')].n
            gs == packet.groups
        IN  IF r = -1 THEN \A g \in 1..Len(gs) : gs[g].id # id
            ELSE /\ r \in 0..Len(gs) - 1
                 /\ gs[r + 1].id = id
                 /\ \A g \in 1..r : gs[g].id # id ]_vars

\* The intent entries of a list, in order: SelectSeq(s, LAMBDA e : e.type =
\* TypeIntent), written out as the Sequences module defines SelectSeq so that
\* the provers, to which SelectSeq is opaque, can unfold it.
IntentRef(s) ==
  LET F[i \in 0..Len(s)] ==
        IF i = 0 THEN << >>
        ELSE IF s[i].type = TypeIntent THEN Append(F[i - 1], s[i]) ELSE F[i - 1]
  IN  F[Len(s)]

\* opcodeInspectGroupIntentOut / opcodeInspectGroupIntentIn: for a valid
\* group k, INTENTOUT(k, j) / INTENTIN(k, j) succeed exactly for j below the
\* number of intent entries, and then return the j-th intent entry of the
\* group's outputs / inputs in packet order (the "filtered view" of the
\* specification).
IntentFilterStep ==
  (/\ lastOp' \in {"INTENTOUT", "INTENTIN"}
   /\ packet # Nil /\ Len(dstack) >= 2
   /\ Arg(1).t = "num" /\ Arg(2).t = "num"
   /\ Arg(2).n \in 0..Len(packet.groups) - 1)
  => LET s == IF lastOp' = "INTENTOUT" THEN Group(Arg(2).n).outputs
              ELSE Group(Arg(2).n).inputs
         j == Arg(1).n
         ref == IntentRef(s)
     IN  IF j \in 0..Len(ref) - 1
         THEN /\ err' \in {"none", "StackOverflow"}
              /\ err' = "none" =>
                   /\ dstack'[Len(dstack')].n = ref[j + 1].amount
                   /\ dstack'[Len(dstack') - 1].n = ref[j + 1].outputIndex
         ELSE err' = "InvalidIndex"

\* Every INTENTOUT / INTENTIN step of a script enumerates the filtered view
\* as IntentFilterStep says.
IntentEnumerationIsFilter == [][IntentFilterStep]_vars

\* checkAssetPacket against the specification ("fail with
\* AssetPacketMissing if the packet is absent"): an asset opcode run with
\* no packet fails with that error kind.
PacketMissingError ==
  (packet = Nil /\ lastOp \in AssetOps) => err = "AssetPacketMissing"

\* The depth of the output or input index O (or I) among the arguments of
\* the per-output and per-input asset opcodes.
IndexDepth == [OUTCOUNT |-> 1, INCOUNT |-> 1, OUTAT |-> 2, INAT |-> 2,
               OUTLOOKUP |-> 3, INLOOKUP |-> 3]

\* The vm.assetPacket.OutputAssets[uint32(o)] lookups against the
\* specification ("O, I ... popped as script-numbers; out-of-range =
\* error"): a per-output or per-input asset opcode run on a negative
\* output or input index fails instead of pushing a result.
NegativeIndexRejected ==
  [][ (/\ lastOp' \in DOMAIN IndexDepth
       /\ IndexDepth[lastOp'] <= Len(dstack)
       /\ Arg(IndexDepth[lastOp']).t = "num"
       /\ Arg(IndexDepth[lastOp']).n < 0)
      => err' # "none" ]_vars

=============================================================================
