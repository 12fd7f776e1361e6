----------------------------- MODULE MC_Engine -----------------------------
(***************************************************************************)
(* Inputs for model checking Engine: every signature script, public key    *)
(* script and witness combination below is one call of NewEngine followed *)
(* by Execute.                                                             *)
(***************************************************************************)
EXTENDS Engine

\* Stack elements.
E0 == [len |-> 0, v |-> 0]                        \* OP_0, the empty vector
E1 == OneByte                                     \* 0x01
EZ == [len |-> 1, v |-> 0]                        \* 0x00: false, not a minimal IF argument
E2 == [len |-> 1, v |-> 2]                        \* 0x42: true, not a minimal IF argument
Key == [len |-> 32, v |-> 2]                      \* an x-only public key
Sig == [len |-> 64, v |-> 2]                      \* a Schnorr signature
Prog0 == [len |-> 20, v |-> 2]                    \* a segwit v0 key hash
Full == [len |-> MaxScriptElementSize, v |-> 2]   \* the largest element
Big == [len |-> MaxScriptElementSize + 1, v |-> 2]

\* Tokens: a minimal push, a non-minimal push, a plain opcode.
P(e) == [op |-> "PUSH", data |-> e, minimal |-> TRUE]
NM(e) == [op |-> "PUSH", data |-> e, minimal |-> FALSE]
O(op) == [op |-> op, data |-> E0, minimal |-> TRUE]

\* Witness elements: plain data, the annex, a leaf script, a control block.
WE(e) == [len |-> e.len, v |-> e.v, annex |-> FALSE, script |-> <<>>, cb |-> Nil]
Annex == [len |-> 2, v |-> 2, annex |-> TRUE, script |-> <<>>, cb |-> Nil]
LeafEl(s) == [len |-> ScriptSize(s), v |-> 2, annex |-> FALSE, script |-> s, cb |-> Nil]
CBEl(s, ver) == [len |-> 33, v |-> 2, annex |-> FALSE, script |-> <<>>,
                 cb |-> [leaf |-> s, leafVersion |-> ver]]

\* Public key scripts.
Taproot == <<O("OP_1"), P(Key)>>
SegwitV0 == <<P(E0), P(Prog0)>>

\* Opcodes every generated script is built from (pushes encoded minimally
\* except 0x01, whose minimal encoding is OP_1).
Alphabet ==
  {P(E0), NM(E1), O("OP_1"), P(EZ), P(E2), P(Key), P(Big), O("IF"),
   O("NOTIF"), O("ELSE"), O("ENDIF"), O("VERIF"), O("DROP"), O("DUP"),
   O("TOALTSTACK"), O("FROMALTSTACK"), O("CHECKSIG"), O("BAD")}

Short == {<<>>} \cup {<<a>> : a \in Alphabet} \cup {<<a, b>> : a, b \in Alphabet}

Repeat(s, n) == [i \in 1..n * Len(s) |-> s[((i - 1) % Len(s)) + 1]]

\* Longer leaves: nested conditionals, alt stack use, several signature
\* checks on one witness signature (the budget allows ten here).
Nested ==
  {<<P(E0), O("IF"), O("OP_1"), O("IF"), O("ELSE"), O("DROP"), O("ENDIF"),
     O("ELSE"), O("OP_1"), O("ENDIF")>>,
   <<O("OP_1"), O("NOTIF"), O("OP_1"), O("NOTIF"), O("ELSE"), O("ENDIF"),
     O("ELSE"), O("OP_1"), O("ENDIF")>>,
   <<O("OP_1"), O("IF"), P(E0), O("IF"), O("OP_1"), O("ELSE"), O("OP_1"),
     O("ENDIF"), O("ENDIF")>>,
   <<O("OP_1"), O("TOALTSTACK"), O("FROMALTSTACK")>>,
   <<O("OP_1"), O("OP_1"), O("OP_1"), O("OP_1")>>,
   <<O("OP_1"), O("IF"), O("ELSE"), O("VERIF"), O("ENDIF")>>,
   <<P(E0), O("IF"), NM(E1), O("ENDIF"), O("OP_1")>>,
   <<P(E0), O("IF"), P(Big), O("ENDIF"), O("OP_1")>>}
SigLeaf(n) == Repeat(<<O("DUP"), P(Key), O("CHECKSIG"), O("DROP")>>, n)
SigLeaves == {SigLeaf(1), SigLeaf(10), SigLeaf(11)}

Leaves == Short \cup Nested \cup SigLeaves

\* Initial leaf stacks.
Args == {<<>>, <<WE(E1)>>, <<WE(E0)>>, <<WE(EZ)>>, <<WE(E2)>>, <<WE(Sig)>>,
         <<WE(Big)>>, [i \in 1..MaxStackSize + 1 |-> WE(E1)]}

ScriptPath(args, s, cb, annexed) ==
  args \o <<LeafEl(s), cb>> \o (IF annexed THEN <<Annex>> ELSE <<>>)

\* Script path witnesses for a committed base-version leaf, and the ways a
\* control block can fail.
ScriptPathWitnesses ==
  {ScriptPath(a, s, CBEl(s, "base"), x) : a \in Args, s \in Leaves, x \in BOOLEAN}
  \cup {ScriptPath(<<>>, <<O("OP_1")>>, cb, FALSE) :
          cb \in {CBEl(<<>>, "base"), CBEl(<<O("OP_1")>>, "other"), WE(Sig)}}
  \cup {ScriptPath(<<WE(E1)>>, <<O("BAD")>>, CBEl(<<O("BAD")>>, "base"), FALSE)}

KeySpendWitnesses == {<<>>, <<WE(Sig)>>, <<WE(Sig), Annex>>, <<Annex>>}

MCInputs ==
  \* bare scripts: no witness program, the pk script runs alone
  {<<sig, pk, <<>>>> : sig \in {<<>>, <<O("OP_1")>>},
                       pk \in {s \in Short : \A i \in 1..Len(s) : s[i].op # "CHECKSIG"}}
  \* construction failures
  \cup {<<<<O("DUP")>>, <<O("OP_1")>>, <<>>>>,
        <<<<O("OP_1"), O("BAD")>>, <<O("OP_1")>>, <<>>>>,
        <<<<>>, Repeat(<<P(Full), O("DROP")>>, 20), <<>>>>,
        <<<<O("OP_1")>>, Taproot, <<WE(Sig)>>>>,
        <<<<>>, <<O("OP_1")>>, <<WE(Sig)>>>>}
  \* witness programs
  \cup {<<<<>>, SegwitV0, <<WE(Sig)>>>>}
  \cup {<<<<>>, Taproot, w>> : w \in KeySpendWitnesses \cup ScriptPathWitnesses}


=============================================================================
