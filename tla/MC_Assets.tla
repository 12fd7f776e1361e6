------------------------------ MODULE MC_Assets ------------------------------
(***************************************************************************)
(* Packets for model checking Assets: two groups that share a txid, with   *)
(* local and intent inputs and outputs, a control asset, and per-output    *)
(* and per-input entry lists; an empty packet; no packet.                  *)
(***************************************************************************)
EXTENDS Assets

CONSTANTS T1, T2, H1

ID0 == [txid |-> T1, gidx |-> 0]
ID1 == [txid |-> T1, gidx |-> 1]

LocalIn(i, a) == [type |-> TypeLocal, inputIndex |-> i, txid |-> T1, outputIndex |-> 0, amount |-> a]
IntentIn(t, o, a) == [type |-> TypeIntent, inputIndex |-> 0, txid |-> t, outputIndex |-> o, amount |-> a]
Out(ty, o, a) == [type |-> ty, outputIndex |-> o, amount |-> a]

G0 == [id |-> ID0, control |-> Nil, meta |-> H1,
       inputs |-> <<LocalIn(0, 3), IntentIn(T2, 1, 2)>>,
       outputs |-> <<Out(TypeLocal, 0, 1), Out(TypeIntent, 1, 4), Out(TypeIntent, 2, 1)>>]
G1 == [id |-> ID1, control |-> ID0, meta |-> H1,
       inputs |-> <<IntentIn(T2, 0, 2)>>,
       outputs |-> <<Out(TypeIntent, 0, 2)>>]

Full == [groups |-> <<G0, G1>>,
         inAssets |-> [i \in {0} |-> <<[id |-> ID0, amount |-> 3]>>],
         outAssets |-> [o \in {0, 1} |->
                          IF o = 0 THEN <<[id |-> ID0, amount |-> 1], [id |-> ID1, amount |-> 2]>>
                          ELSE <<[id |-> ID0, amount |-> 4]>>]]
Empty == [groups |-> <<>>, inAssets |-> [i \in {} |-> <<>>], outAssets |-> [o \in {} |-> <<>>]]

MCPackets == {Full, Empty, Nil}
MCBlobs == {T1, T2, H1}
MCPushNums == {-1, 0, 1, 2}

=============================================================================
