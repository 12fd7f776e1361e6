---------------------------- MODULE AssetsProofs ----------------------------
(***************************************************************************)
(* Proofs about Assets: what the handlers' loops return, and the type     *)
(* invariant.  Each loop is a recursive function over 0..Len(s); its      *)
(* defining equation comes from FiniteNatInductiveDef, and what it        *)
(* computes at every index from IntervalInduction over the set of the     *)
(* indices where the claim holds.                                         *)
(***************************************************************************)
EXTENDS Assets, InductionLemmas, TLAPS

-----------------------------------------------------------------------------
(* The amount width.                                                       *)

\* 2^k is a positive natural for every natural k.
LEMMA Pow2Pos == \A k \in Nat : Pow2[k] \in Nat \ {0}
<1>1. NatInductiveDefHypothesis(Pow2, 1, LAMBDA v, k : 2 * v)
  BY DEF NatInductiveDefHypothesis, Pow2
<1>2. NatInductiveDefConclusion(Pow2, 1, LAMBDA v, k : 2 * v)
  BY <1>1, NatInductiveDef
<1>3. \A k \in Nat : Pow2[k] = IF k = 0 THEN 1 ELSE 2 * Pow2[k - 1]
  BY <1>2 DEF NatInductiveDefConclusion
<1> DEFINE S == {k \in Nat : Pow2[k] \in Nat \ {0}}
<1>4. 0 \in S
  BY <1>3
<1>5. \A k \in S \cap Nat : k + 1 \in S
  BY <1>3
<1> HIDE DEF S
<1>6. Nat \subseteq S
  BY <1>4, <1>5, SetInduction
<1>7. QED
  BY <1>6 DEF S

\* uint64 arithmetic is modulo a positive number.
LEMMA AmountModPos == AmountMod \in Nat \ {0}
BY Pow2Pos, AssetsAssumption DEF AmountMod

-----------------------------------------------------------------------------
(* The loops.                                                              *)

\* The accumulation loop of opcodeInspectAssetGroupSum returns an amount.
LEMMA SumAmountsType ==
  ASSUME NEW S, NEW s \in Seq(S), \A i \in 1..Len(s) : s[i].amount \in Int
  PROVE  SumAmounts(s) \in Amount
<1> DEFINE sum == CHOOSE f : f = [i \in 0..Len(s) |->
                    IF i = 0 THEN 0 ELSE (f[i - 1] + s[i].amount) % AmountMod]
<1>0. Len(s) \in Nat /\ AmountMod \in Nat \ {0}
  BY AmountModPos
<1>1. SumAmounts(s) = sum[Len(s)]
  BY DEF SumAmounts
<1>2. FiniteNatInductiveDefHypothesis(sum, 0,
        LAMBDA v, i : (v + s[i].amount) % AmountMod, 0, Len(s))
  BY DEF FiniteNatInductiveDefHypothesis
<1>3. FiniteNatInductiveDefConclusion(sum, 0,
        LAMBDA v, i : (v + s[i].amount) % AmountMod, 0, Len(s))
  BY <1>0, <1>2, FiniteNatInductiveDef
<1>4. \A i \in 0..Len(s) :
        sum[i] = IF i = 0 THEN 0 ELSE (sum[i - 1] + s[i].amount) % AmountMod
  BY <1>3 DEF FiniteNatInductiveDefConclusion
<1> HIDE DEF sum
<1> DEFINE T == {i \in Nat : sum[i] \in Amount}
<1>5. 0 \in T
  BY <1>0, <1>4 DEF Amount
<1>6. \A i \in T \cap 0..(Len(s) - 1) : i + 1 \in T
  <2> SUFFICES ASSUME NEW i \in T \cap 0..(Len(s) - 1) PROVE i + 1 \in T
    OBVIOUS
  <2>1. s[i + 1].amount \in Int /\ sum[i] \in Int
    BY DEF Amount
  <2>2. QED
    BY <1>0, <1>4, <2>1 DEF Amount
<1> HIDE DEF T
<1>7. 0..Len(s) \subseteq T
  BY <1>0, <1>5, <1>6, IntervalInduction
<1>8. QED
  BY <1>0, <1>1, <1>7 DEF T

\* The search loop of FIND and the lookups returns a position of es or 0.
LEMMA FirstMatchType ==
  ASSUME NEW es, NEW id, Len(es) \in Nat
  PROVE  FirstMatch(es, id) \in 0..Len(es)
<1> DEFINE M(i) == es[i].id.txid = id.txid /\ es[i].id.gidx = id.gidx
           Def(v, i) == IF v # 0 THEN v ELSE IF M(i) THEN i ELSE 0
           f == CHOOSE g : g = [i \in 0..Len(es) |->
                  IF i = 0 THEN 0 ELSE Def(g[i - 1], i)]
<1>1. FirstMatch(es, id) = f[Len(es)]
  BY DEF FirstMatch
<1>2. FiniteNatInductiveDefHypothesis(f, 0, Def, 0, Len(es))
  BY DEF FiniteNatInductiveDefHypothesis
<1>3. FiniteNatInductiveDefConclusion(f, 0, Def, 0, Len(es))
  BY <1>2, FiniteNatInductiveDef
<1>4. \A i \in 0..Len(es) : f[i] = IF i = 0 THEN 0 ELSE Def(f[i - 1], i)
  BY <1>3 DEF FiniteNatInductiveDefConclusion
<1> HIDE DEF f
<1> DEFINE T == {i \in Nat : f[i] \in 0..i}
<1>5. 0 \in T
  BY <1>4
<1>6. \A i \in T \cap 0..(Len(es) - 1) : i + 1 \in T
  BY <1>4
<1> HIDE DEF T
<1>7. 0..Len(es) \subseteq T
  BY <1>5, <1>6, IntervalInduction
<1>8. QED
  BY <1>1, <1>7 DEF T

\* The search loop of FIND and the lookups returns the first entry whose
\* AssetID matches id field by field, or 0 when no entry matches.
LEMMA FirstMatchIsFirst ==
  ASSUME NEW es, NEW id, Len(es) \in Nat
  PROVE  LET M(i) == es[i].id.txid = id.txid /\ es[i].id.gidx = id.gidx
             p == FirstMatch(es, id)
         IN  /\ p # 0 => M(p)
             /\ \A i \in 1..Len(es) : M(i) => p # 0 /\ p <= i
<1> DEFINE M(i) == es[i].id.txid = id.txid /\ es[i].id.gidx = id.gidx
           Def(v, i) == IF v # 0 THEN v ELSE IF M(i) THEN i ELSE 0
           f == CHOOSE g : g = [i \in 0..Len(es) |->
                  IF i = 0 THEN 0 ELSE Def(g[i - 1], i)]
<1>1. FirstMatch(es, id) = f[Len(es)]
  BY DEF FirstMatch
<1>2. FiniteNatInductiveDefHypothesis(f, 0, Def, 0, Len(es))
  BY DEF FiniteNatInductiveDefHypothesis
<1>3. FiniteNatInductiveDefConclusion(f, 0, Def, 0, Len(es))
  BY <1>2, FiniteNatInductiveDef
<1>4. \A i \in 0..Len(es) : f[i] = IF i = 0 THEN 0 ELSE Def(f[i - 1], i)
  BY <1>3 DEF FiniteNatInductiveDefConclusion
<1> HIDE DEF f, Def
<1> DEFINE T == {i \in Nat : /\ f[i] \in 0..i
                             /\ f[i] # 0 => M(f[i])
                             /\ \A k \in 1..i : M(k) => f[i] # 0 /\ f[i] <= k}
<1>5. 0 \in T
  <2>1. f[0] = 0
    BY <1>4
  <2>2. QED
    BY <2>1 DEF T
<1>6. \A i \in T \cap 0..(Len(es) - 1) : i + 1 \in T
  <2> SUFFICES ASSUME NEW i \in T \cap 0..(Len(es) - 1) PROVE i + 1 \in T
    OBVIOUS
  <2>1. f[i + 1] = Def(f[i], i + 1)
    BY <1>4
  <2>2. CASE f[i] # 0
    <3>1. f[i + 1] = f[i]
      BY <2>1, <2>2 DEF Def
    <3>2. QED
      BY <3>1, <2>2 DEF T
  <2>3. CASE f[i] = 0 /\ M(i + 1)
    <3>1. f[i + 1] = i + 1
      BY <2>1, <2>3 DEF Def
    <3>2. QED
      BY <3>1, <2>3 DEF T
  <2>4. CASE f[i] = 0 /\ ~M(i + 1)
    <3>1. f[i + 1] = 0
      BY <2>1, <2>4 DEF Def
    <3>2. QED
      BY <3>1, <2>4 DEF T
  <2>5. QED
    BY <2>2, <2>3, <2>4
<1> HIDE DEF T
<1>7. 0..Len(es) \subseteq T
  BY <1>5, <1>6, IntervalInduction
<1>8. QED
  BY <1>1, <1>7 DEF T

\* The remainder is determined by any quotient-remainder decomposition.
LEMMA ModUnique ==
  ASSUME NEW y \in Int, NEW m \in Nat \ {0}, NEW k \in Int, NEW r \in 0..m - 1,
         y = k * m + r
  PROVE  y % m = r
BY SMTT(60)

\* Adding to a value reduced modulo m is adding to the value.
LEMMA ModAdd ==
  ASSUME NEW a \in Int, NEW x \in Int, NEW m \in Nat \ {0}
  PROVE  ((a % m) + x) % m = (a + x) % m
<1> DEFINE q == a \div m
           k == (a + x) \div m
           R == (a + x) % m
<1>1. q \in Int /\ k \in Int /\ R \in 0..m - 1
  BY SMT
<1>2. a % m = a - m * q
  BY SMTT(60)
<1>3. a + x = k * m + R
  BY SMTT(60)
<1> HIDE DEF q, k, R
<1>4. (a % m) + x = (k - q) * m + R
  BY <1>1, <1>2, <1>3, SMTT(60)
<1>5. (a % m) + x \in Int /\ k - q \in Int
  BY <1>1
<1>6. ((a % m) + x) % m = R
  BY <1>1, <1>4, <1>5, ModUnique
<1>7. QED
  BY <1>6 DEF R

\* The accumulation loop of opcodeInspectAssetGroupSum computes the sum of
\* the amounts modulo 2^AmountBits: each uint64 addition wraps around
\* silently, so the pushed sum is the true sum only when it fits.
LEMMA SumAmountsIsEntrySumMod ==
  ASSUME NEW S, NEW s \in Seq(S), \A i \in 1..Len(s) : s[i].amount \in Int
  PROVE  SumAmounts(s) = EntrySum(s) % AmountMod
<1> DEFINE sum == CHOOSE f : f = [i \in 0..Len(s) |->
                    IF i = 0 THEN 0 ELSE (f[i - 1] + s[i].amount) % AmountMod]
           E == CHOOSE f : f = [i \in 0..Len(s) |->
                    IF i = 0 THEN 0 ELSE f[i - 1] + s[i].amount]
<1>0. Len(s) \in Nat /\ AmountMod \in Nat \ {0}
  BY AmountModPos
<1>1. SumAmounts(s) = sum[Len(s)] /\ EntrySum(s) = E[Len(s)]
  BY DEF SumAmounts, EntrySum
<1>2. \A i \in 0..Len(s) :
        sum[i] = IF i = 0 THEN 0 ELSE (sum[i - 1] + s[i].amount) % AmountMod
  <2>1. FiniteNatInductiveDefHypothesis(sum, 0,
          LAMBDA v, i : (v + s[i].amount) % AmountMod, 0, Len(s))
    BY DEF FiniteNatInductiveDefHypothesis
  <2>2. FiniteNatInductiveDefConclusion(sum, 0,
          LAMBDA v, i : (v + s[i].amount) % AmountMod, 0, Len(s))
    BY <1>0, <2>1, FiniteNatInductiveDef
  <2>3. QED
    BY <2>2 DEF FiniteNatInductiveDefConclusion
<1>3. \A i \in 0..Len(s) : E[i] = IF i = 0 THEN 0 ELSE E[i - 1] + s[i].amount
  <2>1. FiniteNatInductiveDefHypothesis(E, 0, LAMBDA v, i : v + s[i].amount, 0, Len(s))
    BY DEF FiniteNatInductiveDefHypothesis
  <2>2. FiniteNatInductiveDefConclusion(E, 0, LAMBDA v, i : v + s[i].amount, 0, Len(s))
    BY <1>0, <2>1, FiniteNatInductiveDef
  <2>3. QED
    BY <2>2 DEF FiniteNatInductiveDefConclusion
<1> HIDE DEF sum, E
<1> DEFINE T == {i \in Nat : E[i] \in Int /\ sum[i] = E[i] % AmountMod}
<1>4. 0 \in T
  <2>1. sum[0] = 0 /\ E[0] = 0
    BY <1>0, <1>2, <1>3
  <2>2. QED
    BY <1>0, <2>1
<1>5. \A i \in T \cap 0..(Len(s) - 1) : i + 1 \in T
  <2> SUFFICES ASSUME NEW i \in T \cap 0..(Len(s) - 1) PROVE i + 1 \in T
    OBVIOUS
  <2>1. E[i] \in Int /\ sum[i] = E[i] % AmountMod /\ s[i + 1].amount \in Int
    BY DEF T
  <2>2. sum[i + 1] = (sum[i] + s[i + 1].amount) % AmountMod
        /\ E[i + 1] = E[i] + s[i + 1].amount
    BY <1>2, <1>3
  <2>3. sum[i + 1] = (E[i] + s[i + 1].amount) % AmountMod
    BY <1>0, <2>1, <2>2, ModAdd
  <2>4. QED
    BY <2>1, <2>2, <2>3 DEF T
<1> HIDE DEF T
<1>6. 0..Len(s) \subseteq T
  BY <1>0, <1>4, <1>5, IntervalInduction
<1>7. QED
  BY <1>0, <1>1, <1>6 DEF T

\* The counting loop of the intent count opcodes returns a natural.
LEMMA IntentCountType ==
  ASSUME NEW s, Len(s) \in Nat
  PROVE  IntentCount(s) \in Nat
<1> DEFINE Def(v, i) == v + (IF s[i].type = TypeIntent THEN 1 ELSE 0)
           c == CHOOSE g : g = [i \in 0..Len(s) |->
                  IF i = 0 THEN 0 ELSE Def(g[i - 1], i)]
<1>1. IntentCount(s) = c[Len(s)]
  BY DEF IntentCount
<1>2. FiniteNatInductiveDefHypothesis(c, 0, Def, 0, Len(s))
  BY DEF FiniteNatInductiveDefHypothesis
<1>3. FiniteNatInductiveDefConclusion(c, 0, Def, 0, Len(s))
  BY <1>2, FiniteNatInductiveDef
<1>4. \A i \in 0..Len(s) : c[i] = IF i = 0 THEN 0 ELSE Def(c[i - 1], i)
  BY <1>3 DEF FiniteNatInductiveDefConclusion
<1> HIDE DEF c
<1> DEFINE T == {i \in Nat : c[i] \in Nat}
<1>5. 0 \in T
  BY <1>4
<1>6. \A i \in T \cap 0..(Len(s) - 1) : i + 1 \in T
  BY <1>4
<1> HIDE DEF T
<1>7. 0..Len(s) \subseteq T
  BY <1>5, <1>6, IntervalInduction
<1>8. QED
  BY <1>1, <1>7 DEF T

\* The intent enumeration loop returns a position of s or 0.
LEMMA IntentAtType ==
  ASSUME NEW s, NEW j, Len(s) \in Nat
  PROVE  IntentAt(s, j) \in 0..Len(s)
<1> DEFINE Def(v, i) ==
             IF v.found # 0 \/ s[i].type # TypeIntent THEN v
             ELSE IF v.idx = j THEN [idx |-> j, found |-> i]
             ELSE [idx |-> v.idx + 1, found |-> 0]
           f == CHOOSE g : g = [i \in 0..Len(s) |->
                  IF i = 0 THEN [idx |-> 0, found |-> 0] ELSE Def(g[i - 1], i)]
<1>1. IntentAt(s, j) = f[Len(s)].found
  BY DEF IntentAt
<1>2. FiniteNatInductiveDefHypothesis(f, [idx |-> 0, found |-> 0], Def, 0, Len(s))
  BY DEF FiniteNatInductiveDefHypothesis
<1>3. FiniteNatInductiveDefConclusion(f, [idx |-> 0, found |-> 0], Def, 0, Len(s))
  BY <1>2, FiniteNatInductiveDef
<1>4. \A i \in 0..Len(s) :
        f[i] = IF i = 0 THEN [idx |-> 0, found |-> 0] ELSE Def(f[i - 1], i)
  BY <1>3 DEF FiniteNatInductiveDefConclusion
<1> HIDE DEF f, Def
<1> DEFINE T == {i \in Nat : f[i].found \in 0..i}
<1>5. 0 \in T
  <2>1. f[0] = [idx |-> 0, found |-> 0]
    BY <1>4
  <2>2. QED
    BY <2>1
<1>6. \A i \in T \cap 0..(Len(s) - 1) : i + 1 \in T
  <2> SUFFICES ASSUME NEW i \in T \cap 0..(Len(s) - 1) PROVE i + 1 \in T
    OBVIOUS
  <2>1. f[i].found \in 0..i
    BY DEF T
  <2>2. f[i + 1] = Def(f[i], i + 1)
    BY <1>4
  <2>3. Def(f[i], i + 1).found \in 0..i + 1
    BY <2>1 DEF Def
  <2>4. QED
    BY <2>2, <2>3
<1> HIDE DEF T
<1>7. 0..Len(s) \subseteq T
  BY <1>5, <1>6, IntervalInduction
<1>8. QED
  BY <1>1, <1>7 DEF T

\* The intent enumeration loop of GroupIntentOut / GroupIntentIn finds an
\* entry exactly when j indexes the filtered list of intent entries, and the
\* entry it finds is the j-th of that list.  Both loops are unfolded
\* together: after i entries, either nothing was found, idx counts the
\* intent entries so far and j is not below that count, or the entry found
\* is the (j+1)-th of the intent entries so far.
LEMMA IntentAtIsFilter ==
  ASSUME NEW S, NEW s \in Seq(S), NEW j \in Int
  PROVE  /\ IntentRef(s) \in Seq(S)
         /\ IntentAt(s, j) \in 0..Len(s)
         /\ IntentAt(s, j) # 0 <=> j \in 0..Len(IntentRef(s)) - 1
         /\ IntentAt(s, j) # 0 => s[IntentAt(s, j)] = IntentRef(s)[j + 1]
<1> DEFINE Def(v, i) ==
             IF v.found # 0 \/ s[i].type # TypeIntent THEN v
             ELSE IF v.idx = j THEN [idx |-> j, found |-> i]
             ELSE [idx |-> v.idx + 1, found |-> 0]
           f == CHOOSE g : g = [i \in 0..Len(s) |->
                  IF i = 0 THEN [idx |-> 0, found |-> 0] ELSE Def(g[i - 1], i)]
           Sel(v, i) == IF s[i].type = TypeIntent THEN Append(v, s[i]) ELSE v
           F == CHOOSE g : g = [i \in 0..Len(s) |->
                  IF i = 0 THEN << >> ELSE Sel(g[i - 1], i)]
<1>0. Len(s) \in Nat
  OBVIOUS
<1>1. IntentAt(s, j) = f[Len(s)].found /\ IntentRef(s) = F[Len(s)]
  BY DEF IntentAt, IntentRef
<1>2. \A i \in 0..Len(s) :
        f[i] = IF i = 0 THEN [idx |-> 0, found |-> 0] ELSE Def(f[i - 1], i)
  <2>1. FiniteNatInductiveDefHypothesis(f, [idx |-> 0, found |-> 0], Def, 0, Len(s))
    BY DEF FiniteNatInductiveDefHypothesis
  <2>2. FiniteNatInductiveDefConclusion(f, [idx |-> 0, found |-> 0], Def, 0, Len(s))
    BY <1>0, <2>1, FiniteNatInductiveDef
  <2>3. QED
    BY <2>2 DEF FiniteNatInductiveDefConclusion
<1>3. \A i \in 0..Len(s) : F[i] = IF i = 0 THEN << >> ELSE Sel(F[i - 1], i)
  <2>1. FiniteNatInductiveDefHypothesis(F, << >>, Sel, 0, Len(s))
    BY DEF FiniteNatInductiveDefHypothesis
  <2>2. FiniteNatInductiveDefConclusion(F, << >>, Sel, 0, Len(s))
    BY <1>0, <2>1, FiniteNatInductiveDef
  <2>3. QED
    BY <2>2 DEF FiniteNatInductiveDefConclusion
<1> HIDE DEF f, F, Def, Sel
<1> DEFINE T == {i \in Nat :
                  /\ F[i] \in Seq(S)
                  /\ f[i].found \in 0..i
                  /\ f[i].found = 0 =>
                       /\ f[i].idx = Len(F[i])
                       /\ j >= 0 => Len(F[i]) <= j
                  /\ f[i].found # 0 =>
                       /\ 0 <= j /\ j < Len(F[i])
                       /\ F[i][j + 1] = s[f[i].found]}
<1>4. 0 \in T
  <2>1. f[0] = [idx |-> 0, found |-> 0] /\ F[0] = << >>
    BY <1>0, <1>2, <1>3
  <2>2. f[0].found = 0 /\ f[0].idx = 0
    BY <2>1
  <2>3. F[0] \in Seq(S) /\ Len(F[0]) = 0
    BY <2>1
  <2>4. QED
    BY <2>2, <2>3 DEF T
<1>5. \A i \in T \cap 0..(Len(s) - 1) : i + 1 \in T
  <2> SUFFICES ASSUME NEW i \in T \cap 0..(Len(s) - 1) PROVE i + 1 \in T
    OBVIOUS
  <2>1. /\ F[i] \in Seq(S)
        /\ f[i].found \in 0..i
        /\ f[i].found = 0 => f[i].idx = Len(F[i]) /\ (j >= 0 => Len(F[i]) <= j)
        /\ f[i].found # 0 => 0 <= j /\ j < Len(F[i]) /\ F[i][j + 1] = s[f[i].found]
    BY DEF T
  <2>2. f[i + 1] = Def(f[i], i + 1) /\ F[i + 1] = Sel(F[i], i + 1)
    BY <1>2, <1>3
  <2>3. s[i + 1] \in S
    OBVIOUS
  <2>4. F[i + 1] \in Seq(S) /\ Len(F[i]) <= Len(F[i + 1])
        /\ \A k \in 1..Len(F[i]) : F[i + 1][k] = F[i][k]
    <3>1. CASE s[i + 1].type = TypeIntent
      <4>1. F[i + 1] = Append(F[i], s[i + 1])
        BY <2>2, <3>1 DEF Sel
      <4>2. QED
        BY <4>1, <2>1, <2>3
    <3>2. CASE s[i + 1].type # TypeIntent
      <4>1. F[i + 1] = F[i]
        BY <2>2, <3>2 DEF Sel
      <4>2. QED
        BY <4>1, <2>1
    <3>3. QED
      BY <3>1, <3>2
  <2>5. CASE f[i].found # 0
    <3>1. f[i + 1] = f[i]
      BY <2>2, <2>5 DEF Def
    <3>2. QED
      BY <3>1, <2>1, <2>4, <2>5 DEF T
  <2>6. CASE f[i].found = 0 /\ s[i + 1].type # TypeIntent
    <3>1. f[i + 1] = f[i] /\ F[i + 1] = F[i]
      BY <2>2, <2>6 DEF Def, Sel
    <3>2. /\ F[i + 1] \in Seq(S)
          /\ f[i + 1].found \in 0..i + 1
          /\ f[i + 1].found = 0
          /\ f[i + 1].idx = Len(F[i + 1])
          /\ j >= 0 => Len(F[i + 1]) <= j
      BY <3>1, <2>1, <2>6
    <3>3. QED
      BY <3>2 DEF T
  <2>7. CASE f[i].found = 0 /\ s[i + 1].type = TypeIntent /\ f[i].idx = j
    <3>1. f[i + 1] = [idx |-> j, found |-> i + 1]
      BY <2>2, <2>7 DEF Def
    <3>2. F[i + 1] = Append(F[i], s[i + 1])
      BY <2>2, <2>7 DEF Sel
    <3>3. Len(F[i]) = j
      BY <2>1, <2>7
    <3>4. 0 <= j /\ j < Len(F[i + 1]) /\ F[i + 1][j + 1] = s[i + 1]
      BY <3>2, <3>3, <2>1, <2>3
    <3>5. QED
      BY <3>1, <3>4, <2>4 DEF T
  <2>8. CASE f[i].found = 0 /\ s[i + 1].type = TypeIntent /\ f[i].idx # j
    <3>1. f[i + 1] = [idx |-> f[i].idx + 1, found |-> 0]
      BY <2>2, <2>8 DEF Def
    <3>2. F[i + 1] = Append(F[i], s[i + 1])
      BY <2>2, <2>8 DEF Sel
    <3>3. f[i].idx = Len(F[i]) /\ (j >= 0 => Len(F[i]) < j)
      BY <2>1, <2>8
    <3>4. f[i + 1].idx = Len(F[i + 1]) /\ (j >= 0 => Len(F[i + 1]) <= j)
      BY <3>1, <3>2, <3>3, <2>1, <2>3
    <3>5. QED
      BY <3>1, <3>4, <2>4 DEF T
  <2>9. QED
    BY <2>5, <2>6, <2>7, <2>8
<1> HIDE DEF T
<1>6. 0..Len(s) \subseteq T
  BY <1>0, <1>4, <1>5, IntervalInduction
<1>7. Len(s) \in T
  BY <1>6
<1>8. QED
  BY <1>1, <1>7 DEF T

-----------------------------------------------------------------------------
(* Stack values.                                                           *)

LEMMA NumVal == ASSUME NEW n \in Int PROVE Num(n) \in Value
BY DEF Num, Value

LEMMA B32Val == ASSUME NEW b \in Blobs PROVE B32(b) \in Value
BY DEF B32, Value

\* pushLE64 pushes the amount modulo 2^AmountBits.
LEMMA LE64Val == ASSUME NEW a \in Int PROVE LE64(a) \in Value
BY AmountModPos DEF LE64, Value

\* pushAssetID pushes a blob and a number.
LEMMA AssetIDVal ==
  ASSUME NEW id \in AssetID
  PROVE  AssetIDVals(id) \in Seq(Value)
BY B32Val, NumVal DEF AssetIDVals, AssetID

LEMMA AppendVal ==
  ASSUME NEW q \in Seq(Value), NEW v \in Value
  PROVE  Append(q, v) \in Seq(Value)
OBVIOUS

LEMMA ConcatVal ==
  ASSUME NEW q \in Seq(Value), NEW r \in Seq(Value)
  PROVE  q \o r \in Seq(Value)
OBVIOUS

\* Popping n arguments leaves a stack of values.
LEMMA DropVal ==
  ASSUME NEW q \in Seq(Value), NEW n \in 0..Len(q)
  PROVE  Drop(q, n) \in Seq(Value) /\ Len(Drop(q, n)) = Len(q) - n
BY DEF Drop

-----------------------------------------------------------------------------
(* The argument checks.                                                    *)

\* The errors the asset opcodes return.
Errs == {"none", "InvalidIndex", "InvalidStackOperation", "NumberTooBig",
         "StackOverflow"}

\* A chain of checks fails with the first error.
LEMMA ThenErr ==
  ASSUME NEW a \in Errs, NEW b \in Errs
  PROVE  /\ Then(a, b) \in Errs
         /\ Then(a, b) = "none" <=> a = "none" /\ b = "none"
BY DEF Then, Errs

\* PopInt succeeds on a number, which is an integer.
LEMMA PopIntArg ==
  ASSUME TypeOK, NEW i \in Nat \ {0}
  PROVE  /\ PopIntErr(i) \in Errs
         /\ PopIntErr(i) = "none" =>
              /\ i <= Len(dstack) /\ Arg(i).t = "num" /\ Arg(i).n \in Int
<1>1. PopIntErr(i) \in Errs
  BY DEF PopIntErr, Errs
<1>2. ASSUME PopIntErr(i) = "none"
      PROVE  i <= Len(dstack) /\ Arg(i).t = "num" /\ Arg(i).n \in Int
  <2>1. i <= Len(dstack) /\ Arg(i).t = "num"
    BY <1>2 DEF PopIntErr
  <2>2. Arg(i) \in Value
    BY <2>1 DEF TypeOK, Arg
  <2>3. QED
    BY <2>1, <2>2 DEF Value
<1>3. QED
  BY <1>1, <1>2

\* PopByteArray succeeds on a non-empty stack.
LEMMA PopBytesArg ==
  ASSUME TypeOK, NEW i \in Nat \ {0}
  PROVE  /\ PopBytesErr(i) \in Errs
         /\ PopBytesErr(i) = "none" => i <= Len(dstack)
BY DEF PopBytesErr, Errs

\* popAssetID succeeds on a number above a 32-byte blob.
LEMMA PopAssetIDArg ==
  ASSUME TypeOK, NEW i \in Nat \ {0}
  PROVE  /\ popAssetIDErr(i) \in Errs
         /\ popAssetIDErr(i) = "none" =>
              /\ i + 1 <= Len(dstack)
              /\ Arg(i).t = "num" /\ Arg(i).n \in Int
<1>1. /\ PopIntErr(i) \in Errs
      /\ PopIntErr(i) = "none" =>
           /\ i <= Len(dstack) /\ Arg(i).t = "num" /\ Arg(i).n \in Int
  BY PopIntArg
<1>2. /\ PopBytesErr(i + 1) \in Errs
      /\ PopBytesErr(i + 1) = "none" => i + 1 <= Len(dstack)
  BY PopBytesArg
<1>3. (IF Arg(i + 1).t # "b32" THEN "InvalidStackOperation" ELSE "none") \in Errs
  BY DEF Errs
<1>4. QED
  BY <1>1, <1>2, <1>3, ThenErr DEF popAssetIDErr

\* checkAssetPacket succeeds on an installed packet, which is well formed.
LEMMA PacketArg ==
  ASSUME TypeOK
  PROVE  /\ checkAssetPacket \in Errs
         /\ checkAssetPacket = "none" => packet # Nil /\ IsAssetPacket(packet)
BY PacketsAssumption DEF checkAssetPacket, Errs, TypeOK

\* The checks of a group index k at depth i: k names a group of the packet.
LEMMA GroupArg ==
  ASSUME TypeOK, NEW i \in Nat \ {0}
  PROVE  /\ GroupArgErr(i) \in Errs
         /\ GroupArgErr(i) = "none" =>
              /\ packet # Nil /\ IsAssetPacket(packet)
              /\ i <= Len(dstack) /\ Arg(i).t = "num"
              /\ Arg(i).n \in 0..Len(packet.groups) - 1
              /\ Group(Arg(i).n) \in AssetGroup
<1>1. /\ PopIntErr(i) \in Errs
      /\ PopIntErr(i) = "none" =>
           /\ i <= Len(dstack) /\ Arg(i).t = "num" /\ Arg(i).n \in Int
  BY PopIntArg
<1>2. checkGroupIndex(Arg(i).n) \in Errs
  BY DEF checkGroupIndex, Errs
<1>3. /\ checkAssetPacket \in Errs
      /\ checkAssetPacket = "none" => packet # Nil /\ IsAssetPacket(packet)
  BY PacketArg
<1>4. GroupArgErr(i) \in Errs
  BY <1>1, <1>2, <1>3, ThenErr DEF GroupArgErr
<1>5. ASSUME GroupArgErr(i) = "none"
      PROVE  /\ packet # Nil /\ IsAssetPacket(packet)
             /\ i <= Len(dstack) /\ Arg(i).t = "num"
             /\ Arg(i).n \in 0..Len(packet.groups) - 1
             /\ Group(Arg(i).n) \in AssetGroup
  <2>1. checkAssetPacket = "none" /\ PopIntErr(i) = "none"
        /\ checkGroupIndex(Arg(i).n) = "none"
    BY <1>1, <1>2, <1>3, <1>5, ThenErr DEF GroupArgErr
  <2>2. packet.groups \in Seq(AssetGroup)
    BY <1>3, <2>1 DEF IsAssetPacket
  <2>3. Arg(i).n \in 0..Len(packet.groups) - 1
    BY <1>1, <2>1, <2>2 DEF checkGroupIndex
  <2>4. QED
    BY <1>1, <1>3, <2>1, <2>2, <2>3 DEF Group
<1>6. QED
  BY <1>4, <1>5

-----------------------------------------------------------------------------
(* The type invariant.                                                     *)

\* Exec: the opcode's error, the stack bound, or a new stack of values.
LEMMA ExecType ==
  ASSUME TypeOK, NEW op \in AssetOps, NEW e \in Errs, NEW ds,
         e = "none" => ds \in Seq(Value),
         Exec(op, e, ds)
  PROVE  TypeOK'
BY AssetsAssumption DEF Exec, TypeOK, Errs

\* A data push of the script stays under the depth Step allows.
LEMMA PushValueType ==
  ASSUME TypeOK, PushValue
  PROVE  TypeOK'
<1>1. PICK v \in {Num(n) : n \in PushNums} \cup {B32(b) : b \in Blobs} :
        dstack' = Append(dstack, v)
  BY DEF PushValue
<1>2. v \in Value
  BY AssetsAssumption, NumVal, B32Val
<1>3. QED
  BY <1>1, <1>2, AppendVal, AssetsAssumption DEF PushValue, TypeOK

\* The source check of GroupNum, GroupSum and INSPECTASSETGROUP.
LEMMA SourceArg ==
  ASSUME NEW src, NEW ok
  PROVE  /\ SourceErr(src, ok) \in Errs
         /\ SourceErr(src, ok) = "none" => src \in ok
BY DEF SourceErr, Errs

\* The values the source switch pushes.
LEMMA SourceValsType ==
  ASSUME NEW src \in {0, 1, 2}, NEW a \in Value, NEW b \in Value
  PROVE  SourceVals(src, a, b) \in Seq(Value)
BY DEF SourceVals

LEMMA InspectNumAssetGroupsType ==
  ASSUME TypeOK, InspectNumAssetGroups
  PROVE  TypeOK'
<1> DEFINE ds == Append(dstack, Num(Len(packet.groups)))
<1>1. /\ checkAssetPacket \in Errs
      /\ checkAssetPacket = "none" => packet # Nil /\ IsAssetPacket(packet)
  BY PacketArg
<1>2. checkAssetPacket = "none" => ds \in Seq(Value)
  BY <1>1, NumVal, AppendVal DEF IsAssetPacket, TypeOK
<1> HIDE DEF ds
<1>3. QED
  BY <1>1, <1>2, ExecType DEF InspectNumAssetGroups, ds, AssetOps

LEMMA GroupAssetIDType ==
  ASSUME TypeOK, GroupAssetID
  PROVE  TypeOK'
<1> DEFINE ds == Drop(dstack, 1) \o AssetIDVals(Group(Arg(1).n).id)
<1>1. /\ GroupArgErr(1) \in Errs
      /\ GroupArgErr(1) = "none" =>
           /\ 1 <= Len(dstack)
           /\ Group(Arg(1).n) \in AssetGroup
  BY GroupArg
<1>2. GroupArgErr(1) = "none" => ds \in Seq(Value)
  BY <1>1, DropVal, AssetIDVal, ConcatVal DEF TypeOK, AssetGroup
<1> HIDE DEF ds
<1>3. QED
  BY <1>1, <1>2, ExecType DEF GroupAssetID, ds, AssetOps

LEMMA GroupCtrlType ==
  ASSUME TypeOK, GroupCtrl
  PROVE  TypeOK'
<1> DEFINE c == Group(Arg(1).n).control
           ds == Drop(dstack, 1) \o (IF c = Nil THEN <<Num(-1)>> ELSE AssetIDVals(c))
<1>1. /\ GroupArgErr(1) \in Errs
      /\ GroupArgErr(1) = "none" =>
           /\ 1 <= Len(dstack)
           /\ Group(Arg(1).n) \in AssetGroup
  BY GroupArg
<1>2. ASSUME GroupArgErr(1) = "none" PROVE ds \in Seq(Value)
  <2>1. c \in AssetID \cup {Nil}
    BY <1>1, <1>2 DEF AssetGroup
  <2>2. (IF c = Nil THEN <<Num(-1)>> ELSE AssetIDVals(c)) \in Seq(Value)
    BY <2>1, NumVal, AssetIDVal
  <2>3. Drop(dstack, 1) \in Seq(Value)
    BY <1>1, <1>2, DropVal DEF TypeOK
  <2> HIDE DEF c
  <2>4. QED
    BY <2>2, <2>3, ConcatVal
<1> HIDE DEF ds
<1>3. QED
  BY <1>1, <1>2, ExecType DEF GroupCtrl, ds, c, AssetOps

LEMMA FindType ==
  ASSUME TypeOK, FindAssetGroupByAssetID
  PROVE  TypeOK'
<1> DEFINE gs == [g \in 1..Len(packet.groups) |-> [id |-> packet.groups[g].id]]
           p == FirstMatch(gs, popAssetID(1))
           e == Then(checkAssetPacket, popAssetIDErr(1))
           ds == Append(Drop(dstack, 2), Num(p - 1))
<1>1. /\ checkAssetPacket \in Errs
      /\ checkAssetPacket = "none" => packet # Nil /\ IsAssetPacket(packet)
  BY PacketArg
<1>2. /\ popAssetIDErr(1) \in Errs
      /\ popAssetIDErr(1) = "none" => 2 <= Len(dstack)
  BY PopAssetIDArg
<1>3. e \in Errs /\ (e = "none" => checkAssetPacket = "none" /\ popAssetIDErr(1) = "none")
  BY <1>1, <1>2, ThenErr
<1>4. ASSUME e = "none" PROVE ds \in Seq(Value)
  <2>1. Len(packet.groups) \in Nat
    BY <1>1, <1>3, <1>4 DEF IsAssetPacket
  <2>2. Len(gs) = Len(packet.groups)
    BY <2>1
  <2>3. p \in Int
    BY <2>1, <2>2, FirstMatchType
  <2> HIDE DEF p
  <2>4. QED
    BY <1>2, <1>3, <1>4, <2>3, NumVal, DropVal, AppendVal DEF TypeOK
<1> HIDE DEF e, ds
<1>5. QED
  BY <1>3, <1>4, ExecType DEF FindAssetGroupByAssetID, ds, e, p, gs, AssetOps

LEMMA MetadataHashType ==
  ASSUME TypeOK, MetadataHash
  PROVE  TypeOK'
<1> DEFINE ds == Append(Drop(dstack, 1), B32(Group(Arg(1).n).meta))
<1>1. /\ GroupArgErr(1) \in Errs
      /\ GroupArgErr(1) = "none" =>
           /\ 1 <= Len(dstack)
           /\ Group(Arg(1).n) \in AssetGroup
  BY GroupArg
<1>2. GroupArgErr(1) = "none" => ds \in Seq(Value)
  BY <1>1, DropVal, B32Val, AppendVal DEF TypeOK, AssetGroup
<1> HIDE DEF ds
<1>3. QED
  BY <1>1, <1>2, ExecType DEF MetadataHash, ds, AssetOps

\* What is left of the stack after k pops, with the pushed values.
LEMMA DropConcat ==
  ASSUME TypeOK, NEW k \in Nat, k <= Len(dstack), NEW vs \in Seq(Value)
  PROVE  Drop(dstack, k) \o vs \in Seq(Value)
BY DropVal, ConcatVal DEF TypeOK

\* INSPECTASSETGROUP pushes the fields of an input, or of an output.
LEMMA InputValsType ==
  ASSUME NEW inp \in AssetInput
  PROVE  InputVals(inp) \in Seq(Value)
<1>1. /\ Num(inp.type) \in Value /\ Num(inp.inputIndex) \in Value
      /\ Num(inp.outputIndex) \in Value /\ B32(inp.txid) \in Value
      /\ LE64(inp.amount) \in Value
  BY AmountModPos, NumVal, B32Val, LE64Val DEF AssetInput, Amount
<1>2. QED
  BY <1>1 DEF InputVals

LEMMA OutputValsType ==
  ASSUME NEW out \in AssetOutput
  PROVE  OutputVals(out) \in Seq(Value)
<1>1. /\ Num(out.type) \in Value /\ Num(out.outputIndex) \in Value
      /\ LE64(out.amount) \in Value
  BY AmountModPos, NumVal, LE64Val DEF AssetOutput, Amount
<1>2. QED
  BY <1>1 DEF OutputVals

LEMMA GroupNumType ==
  ASSUME TypeOK, GroupNum
  PROVE  TypeOK'
<1> DEFINE src == Arg(1).n
           g == Group(Arg(2).n)
           e3 == Then(GroupArgErr(2), SourceErr(src, {0, 1, 2}))
           e2 == Then(PopIntErr(1), e3)
           e == Then(checkAssetPacket, e2)
           ds == Drop(dstack, 2) \o SourceVals(src, Num(Len(g.inputs)), Num(Len(g.outputs)))
<1>1. /\ GroupArgErr(2) \in Errs
      /\ GroupArgErr(2) = "none" => 2 <= Len(dstack) /\ g \in AssetGroup
  BY GroupArg
<1>2. /\ SourceErr(src, {0, 1, 2}) \in Errs
      /\ SourceErr(src, {0, 1, 2}) = "none" => src \in {0, 1, 2}
  BY SourceArg
<1>3. e3 \in Errs /\ (e3 = "none" => 2 <= Len(dstack) /\ g \in AssetGroup /\ src \in {0, 1, 2})
  BY <1>1, <1>2, ThenErr
<1>4. e2 \in Errs /\ (e2 = "none" => e3 = "none")
  BY <1>3, PopIntArg, ThenErr
<1>5. e \in Errs /\ (e = "none" => e3 = "none")
  BY <1>4, PacketArg, ThenErr
<1>6. ASSUME e = "none" PROVE ds \in Seq(Value)
  <2>1. 2 <= Len(dstack) /\ g \in AssetGroup /\ src \in {0, 1, 2}
    BY <1>3, <1>5, <1>6
  <2>2. Num(Len(g.inputs)) \in Value /\ Num(Len(g.outputs)) \in Value
    BY <2>1, NumVal DEF AssetGroup
  <2> HIDE DEF src, g
  <2>3. QED
    BY <2>1, <2>2, SourceValsType, DropConcat
<1> HIDE DEF e, e2, e3, ds
<1>7. QED
  BY <1>5, <1>6, ExecType DEF GroupNum, ds, e, e2, e3, src, g, AssetOps

LEMMA GroupSumType ==
  ASSUME TypeOK, GroupSum
  PROVE  TypeOK'
<1> DEFINE src == Arg(1).n
           g == Group(Arg(2).n)
           e3 == Then(GroupArgErr(2), SourceErr(src, {0, 1, 2}))
           e2 == Then(PopIntErr(1), e3)
           e == Then(checkAssetPacket, e2)
           ds == Drop(dstack, 2) \o GroupSumVals(g, src)
<1>1. /\ GroupArgErr(2) \in Errs
      /\ GroupArgErr(2) = "none" => 2 <= Len(dstack) /\ g \in AssetGroup
  BY GroupArg
<1>2. /\ SourceErr(src, {0, 1, 2}) \in Errs
      /\ SourceErr(src, {0, 1, 2}) = "none" => src \in {0, 1, 2}
  BY SourceArg
<1>3. e3 \in Errs /\ (e3 = "none" => 2 <= Len(dstack) /\ g \in AssetGroup /\ src \in {0, 1, 2})
  BY <1>1, <1>2, ThenErr
<1>4. e2 \in Errs /\ (e2 = "none" => e3 = "none")
  BY <1>3, PopIntArg, ThenErr
<1>5. e \in Errs /\ (e = "none" => e3 = "none")
  BY <1>4, PacketArg, ThenErr
<1>6. ASSUME e = "none" PROVE ds \in Seq(Value)
  <2>1. 2 <= Len(dstack) /\ g \in AssetGroup /\ src \in {0, 1, 2}
    BY <1>3, <1>5, <1>6
  <2>2. /\ g.inputs \in Seq(AssetInput) /\ \A i \in 1..Len(g.inputs) : g.inputs[i].amount \in Int
        /\ g.outputs \in Seq(AssetOutput) /\ \A i \in 1..Len(g.outputs) : g.outputs[i].amount \in Int
    <3>1. g.inputs \in Seq(AssetInput) /\ g.outputs \in Seq(AssetOutput)
      BY <2>1 DEF AssetGroup
    <3>2. Amount \subseteq Int
      BY AmountModPos DEF Amount
    <3>3. /\ \A x \in AssetInput : x.amount \in Amount
          /\ \A x \in AssetOutput : x.amount \in Amount
      BY DEF AssetInput, AssetOutput
    <3>4. /\ \A i \in 1..Len(g.inputs) : g.inputs[i] \in AssetInput
          /\ \A i \in 1..Len(g.outputs) : g.outputs[i] \in AssetOutput
      BY <3>1
    <3> HIDE DEF g
    <3>5. QED
      BY <3>1, <3>2, <3>3, <3>4
  <2>3. SumAmounts(g.inputs) \in Amount /\ SumAmounts(g.outputs) \in Amount
    BY <2>2, SumAmountsType
  <2>4. LE64(SumAmounts(g.inputs)) \in Value /\ LE64(SumAmounts(g.outputs)) \in Value
    BY <2>3, LE64Val, AmountModPos DEF Amount
  <2>5. GroupSumVals(g, src) \in Seq(Value)
    BY <2>1, <2>4, SourceValsType DEF GroupSumVals
  <2> HIDE DEF src, g
  <2>6. QED
    BY <2>1, <2>5, DropConcat
<1> HIDE DEF e, e2, e3, ds
<1>7. QED
  BY <1>5, <1>6, ExecType DEF GroupSum, ds, e, e2, e3, src, g, AssetOps

LEMMA InspectAssetGroupType ==
  ASSUME TypeOK, InspectAssetGroup
  PROVE  TypeOK'
<1> DEFINE src == Arg(1).n
           j == Arg(2).n
           g == Group(Arg(3).n)
           s == IF src = 0 THEN g.inputs ELSE g.outputs
           e6 == IF j < 0 \/ j >= Len(s) THEN "InvalidIndex" ELSE "none"
           e5 == Then(SourceErr(src, {0, 1}), e6)
           e4 == Then(GroupArgErr(3), e5)
           e3 == Then(PopIntErr(2), e4)
           e2 == Then(PopIntErr(1), e3)
           e == Then(checkAssetPacket, e2)
           vs == IF src = 0 THEN InputVals(s[j + 1]) ELSE OutputVals(s[j + 1])
           ds == Drop(dstack, 3) \o vs
<1>1. /\ GroupArgErr(3) \in Errs
      /\ GroupArgErr(3) = "none" => 3 <= Len(dstack) /\ g \in AssetGroup
  BY GroupArg
<1>2. /\ SourceErr(src, {0, 1}) \in Errs
      /\ SourceErr(src, {0, 1}) = "none" => src \in {0, 1}
  BY SourceArg
<1>3. /\ PopIntErr(2) \in Errs
      /\ PopIntErr(2) = "none" => j \in Int
  BY PopIntArg
<1>4. e6 \in Errs /\ (e6 = "none" => ~(j < 0 \/ j >= Len(s)))
  BY DEF Errs
<1>5. e5 \in Errs /\ (e5 = "none" => src \in {0, 1} /\ ~(j < 0 \/ j >= Len(s)))
  BY <1>2, <1>4, ThenErr
<1>6. e4 \in Errs /\ (e4 = "none" => GroupArgErr(3) = "none" /\ e5 = "none")
  BY <1>1, <1>5, ThenErr
<1>7. e3 \in Errs /\ (e3 = "none" => PopIntErr(2) = "none" /\ e4 = "none")
  BY <1>3, <1>6, ThenErr
<1>8. e \in Errs /\ (e = "none" => e3 = "none")
  BY <1>7, PopIntArg, PacketArg, ThenErr
<1>9. ASSUME e = "none" PROVE ds \in Seq(Value)
  <2>1. /\ 3 <= Len(dstack) /\ g \in AssetGroup /\ j \in Int /\ src \in {0, 1}
        /\ 0 <= j /\ j < Len(s)
    BY <1>1, <1>3, <1>5, <1>6, <1>7, <1>8, <1>9
  <2>2. CASE src = 0
    <3>1. s = g.inputs /\ g.inputs \in Seq(AssetInput)
      BY <2>2, <2>1 DEF AssetGroup
    <3>2. s[j + 1] \in AssetInput
      BY <3>1, <2>1
    <3>3. vs \in Seq(Value)
      BY <3>2, <2>2, InputValsType
    <3> HIDE DEF vs, s, g, j, src
    <3>4. QED
      BY <3>3, <2>1, DropConcat
  <2>3. CASE src = 1
    <3>1. s = g.outputs /\ g.outputs \in Seq(AssetOutput)
      BY <2>3, <2>1 DEF AssetGroup
    <3>2. s[j + 1] \in AssetOutput
      BY <3>1, <2>1
    <3>3. vs \in Seq(Value)
      BY <3>2, <2>3, OutputValsType
    <3> HIDE DEF vs, s, g, j, src
    <3>4. QED
      BY <3>3, <2>1, DropConcat
  <2>4. QED
    BY <2>1, <2>2, <2>3
<1> HIDE DEF e, e2, e3, e4, e5, e6, ds
<1>10. QED
  BY <1>8, <1>9, ExecType DEF InspectAssetGroup, ds, vs, e, e2, e3, e4, e5, e6, s, src, j, g, AssetOps

\* The entries of an output (or input) of a well-formed map, or none.
LEMMA EntriesType ==
  ASSUME NEW m, IsAssetMap(m), NEW o
  PROVE  Entries(m, o) \in Seq(AssetEntry)
BY DEF Entries, IsAssetMap

\* An asset entry pushes its AssetID and its amount.
LEMMA EntryFields ==
  ASSUME NEW x \in AssetEntry
  PROVE  AssetIDVals(x.id) \in Seq(Value) /\ LE64(x.amount) \in Value
<1>1. x.id \in AssetID /\ x.amount \in Int
  BY AmountModPos DEF AssetEntry, Amount
<1>2. QED
  BY <1>1, AssetIDVal, LE64Val

LEMMA AssetCountType ==
  ASSUME TypeOK, NEW op \in AssetOps, NEW m,
         checkAssetPacket = "none" => IsAssetMap(m),
         AssetCount(op, m)
  PROVE  TypeOK'
<1> DEFINE e == Then(checkAssetPacket, PopIntErr(1))
           ds == Append(Drop(dstack, 1), Num(Len(Entries(m, Arg(1).n))))
<1>1. e \in Errs /\ (e = "none" => checkAssetPacket = "none" /\ 1 <= Len(dstack))
  BY PacketArg, PopIntArg, ThenErr
<1>2. ASSUME e = "none" PROVE ds \in Seq(Value)
  <2>1. Entries(m, Arg(1).n) \in Seq(AssetEntry)
    BY <1>1, <1>2, EntriesType
  <2>2. Drop(dstack, 1) \in Seq(Value)
    BY <1>1, <1>2, DropVal DEF TypeOK
  <2>3. QED
    BY <2>1, <2>2, NumVal, AppendVal
<1> HIDE DEF e, ds
<1>3. QED
  BY <1>1, <1>2, ExecType DEF AssetCount, e, ds

LEMMA AssetAtType ==
  ASSUME TypeOK, NEW op \in AssetOps, NEW m,
         checkAssetPacket = "none" => IsAssetMap(m),
         AssetAt(op, m)
  PROVE  TypeOK'
<1> DEFINE es == Entries(m, Arg(2).n)
           t == Arg(1).n
           e4 == IF t < 0 \/ t >= Len(es) THEN "InvalidIndex" ELSE "none"
           e3 == Then(PopIntErr(2), e4)
           e2 == Then(PopIntErr(1), e3)
           e == Then(checkAssetPacket, e2)
           ds == Drop(dstack, 2) \o AssetIDVals(es[t + 1].id) \o <<LE64(es[t + 1].amount)>>
<1>1. e4 \in Errs /\ (e4 = "none" => ~(t < 0 \/ t >= Len(es)))
  BY DEF Errs
<1>2. e3 \in Errs /\ (e3 = "none" => 2 <= Len(dstack) /\ e4 = "none")
  BY <1>1, PopIntArg, ThenErr
<1>3. e2 \in Errs /\ (e2 = "none" => t \in Int /\ e3 = "none")
  BY <1>2, PopIntArg, ThenErr
<1>4. e \in Errs /\ (e = "none" => checkAssetPacket = "none" /\ e2 = "none")
  BY <1>3, PacketArg, ThenErr
<1>5. ASSUME e = "none" PROVE ds \in Seq(Value)
  <2>1. es \in Seq(AssetEntry)
    BY <1>4, <1>5, EntriesType
  <2>2. t \in Int /\ 0 <= t /\ t < Len(es) /\ 2 <= Len(dstack)
    BY <1>1, <1>2, <1>3, <1>4, <1>5
  <2>3. es[t + 1] \in AssetEntry
    BY <2>1, <2>2
  <2>4. AssetIDVals(es[t + 1].id) \o <<LE64(es[t + 1].amount)>> \in Seq(Value)
    BY <2>3, EntryFields
  <2> HIDE DEF es, t
  <2>5. QED
    BY <2>2, <2>4, DropConcat
<1> HIDE DEF e, e2, e3, e4, ds
<1>6. QED
  BY <1>4, <1>5, ExecType DEF AssetAt, e, e2, e3, e4, ds, es, t

LEMMA AssetLookupType ==
  ASSUME TypeOK, NEW op \in AssetOps, NEW m,
         checkAssetPacket = "none" => IsAssetMap(m),
         AssetLookup(op, m)
  PROVE  TypeOK'
<1> DEFINE es == Entries(m, Arg(3).n)
           p == FirstMatch(es, popAssetID(1))
           e == Then(checkAssetPacket, Then(popAssetIDErr(1), PopIntErr(3)))
           v == IF p = 0 THEN Num(-1) ELSE LE64(es[p].amount)
           ds == Append(Drop(dstack, 3), v)
<1>1. /\ e \in Errs
      /\ e = "none" => checkAssetPacket = "none" /\ 3 <= Len(dstack)
  BY PacketArg, PopAssetIDArg, PopIntArg, ThenErr
<1>2. ASSUME e = "none" PROVE ds \in Seq(Value)
  <2>1. es \in Seq(AssetEntry)
    BY <1>1, <1>2, EntriesType
  <2>2. p \in 0..Len(es)
    BY <2>1, FirstMatchType
  <2>3. v \in Value
    <3>1. CASE p = 0
      BY <3>1, NumVal
    <3>2. CASE p # 0
      <4>1. es[p] \in AssetEntry
        BY <2>1, <2>2, <3>2
      <4>2. QED
        BY <4>1, <3>2, EntryFields
    <3>3. QED
      BY <3>1, <3>2
  <2> HIDE DEF v
  <2>4. QED
    BY <1>1, <1>2, <2>3, DropVal, AppendVal DEF TypeOK
<1> HIDE DEF e, ds
<1>3. QED
  BY <1>1, <1>2, ExecType DEF AssetLookup, e, ds, es, p, v

\* The six opcodes on the asset maps.
LEMMA AssetMapOpsType ==
  ASSUME TypeOK,
         \/ OutAssetCount \/ OutAssetAt \/ OutAssetLookup
         \/ InAssetCount \/ InAssetAt \/ InAssetLookup
  PROVE  TypeOK'
<1>1. /\ checkAssetPacket = "none" => IsAssetMap(packet.outAssets)
      /\ checkAssetPacket = "none" => IsAssetMap(packet.inAssets)
  BY PacketArg DEF IsAssetPacket
<1>2. {"OUTCOUNT", "OUTAT", "OUTLOOKUP", "INCOUNT", "INAT", "INLOOKUP"} \subseteq AssetOps
  BY DEF AssetOps
<1>3. QED
  BY <1>1, <1>2, AssetCountType, AssetAtType, AssetLookupType
     DEF OutAssetCount, OutAssetAt, OutAssetLookup, InAssetCount, InAssetAt, InAssetLookup

LEMMA IntentCountOpsType ==
  ASSUME TypeOK, GroupIntentOutCount \/ GroupIntentInCount
  PROVE  TypeOK'
<1>1. /\ GroupArgErr(1) \in Errs
      /\ GroupArgErr(1) = "none" =>
           /\ 1 <= Len(dstack)
           /\ Group(Arg(1).n) \in AssetGroup
  BY GroupArg
<1>2. ASSUME GroupArgErr(1) = "none"
      PROVE  /\ Append(Drop(dstack, 1), Num(IntentCount(Group(Arg(1).n).outputs))) \in Seq(Value)
             /\ Append(Drop(dstack, 1), Num(IntentCount(Group(Arg(1).n).inputs))) \in Seq(Value)
  <2>1. Len(Group(Arg(1).n).outputs) \in Nat /\ Len(Group(Arg(1).n).inputs) \in Nat
    BY <1>1, <1>2 DEF AssetGroup
  <2>2. IntentCount(Group(Arg(1).n).outputs) \in Nat /\ IntentCount(Group(Arg(1).n).inputs) \in Nat
    BY <2>1, IntentCountType
  <2>3. Drop(dstack, 1) \in Seq(Value)
    BY <1>1, <1>2, DropVal DEF TypeOK
  <2>4. QED
    BY <2>2, <2>3, NumVal, AppendVal
<1>3. {"INTENTOUTCOUNT", "INTENTINCOUNT"} \subseteq AssetOps
  BY DEF AssetOps
<1>4. QED
  BY <1>1, <1>2, <1>3, ExecType DEF GroupIntentOutCount, GroupIntentInCount

\* GroupIntentOut pushes the output index and amount of an output;
\* GroupIntentIn the txid, output index and amount of an input.
LEMMA IntentValsType ==
  ASSUME NEW field \in {"outputs", "inputs"}, NEW x,
         field = "outputs" => x \in AssetOutput,
         field = "inputs" => x \in AssetInput
  PROVE  IntentVals(x, field) \in Seq(Value)
<1>1. CASE field = "outputs"
  <2>1. Num(x.outputIndex) \in Value /\ LE64(x.amount) \in Value
    BY <1>1, AmountModPos, NumVal, LE64Val DEF AssetOutput, Amount
  <2>2. QED
    BY <1>1, <2>1 DEF IntentVals
<1>2. CASE field = "inputs"
  <2>1. /\ B32(x.txid) \in Value /\ Num(x.outputIndex) \in Value
        /\ LE64(x.amount) \in Value
    BY <1>2, AmountModPos, NumVal, B32Val, LE64Val DEF AssetInput, Amount
  <2>2. QED
    BY <1>2, <2>1 DEF IntentVals
<1>3. QED
  BY <1>1, <1>2

LEMMA GroupIntentType ==
  ASSUME TypeOK, NEW op \in AssetOps, NEW field \in {"outputs", "inputs"},
         GroupIntent(op, field)
  PROVE  TypeOK'
<1> DEFINE sq == Group(Arg(2).n)[field]
           p == IntentAt(sq, Arg(1).n)
           e4 == IF p = 0 THEN "InvalidIndex" ELSE "none"
           e3 == Then(GroupArgErr(2), e4)
           e2 == Then(PopIntErr(1), e3)
           e == Then(checkAssetPacket, e2)
           ds == Drop(dstack, 2) \o IntentVals(sq[p], field)
<1>1. /\ GroupArgErr(2) \in Errs
      /\ GroupArgErr(2) = "none" => 2 <= Len(dstack) /\ Group(Arg(2).n) \in AssetGroup
  BY GroupArg
<1>2. e3 \in Errs /\ (e3 = "none" => GroupArgErr(2) = "none" /\ p # 0)
  BY <1>1, ThenErr DEF Errs
<1>3. e \in Errs /\ (e = "none" => e3 = "none")
  BY <1>2, PopIntArg, PacketArg, ThenErr
<1>4. ASSUME e = "none" PROVE ds \in Seq(Value)
  <2>1. 2 <= Len(dstack) /\ Group(Arg(2).n) \in AssetGroup /\ p # 0
    BY <1>1, <1>2, <1>3, <1>4
  <2>2. /\ field = "outputs" => sq \in Seq(AssetOutput)
        /\ field = "inputs" => sq \in Seq(AssetInput)
    BY <2>1 DEF AssetGroup
  <2>3. Len(sq) \in Nat
    BY <2>2
  <2>4. p \in 1..Len(sq)
    BY <2>1, <2>3, IntentAtType
  <2>5. /\ field = "outputs" => sq[p] \in AssetOutput
        /\ field = "inputs" => sq[p] \in AssetInput
    BY <2>2, <2>4
  <2>6. IntentVals(sq[p], field) \in Seq(Value)
    BY <2>5, IntentValsType
  <2> HIDE DEF sq, p
  <2>7. QED
    BY <2>1, <2>6, DropConcat
<1> HIDE DEF e, e2, e3, e4, ds
<1>5. QED
  BY <1>3, <1>4, ExecType DEF GroupIntent, e, e2, e3, e4, ds, sq, p

-----------------------------------------------------------------------------
(* Type correctness.                                                       *)

LEMMA InitType == Init => TypeOK
BY AssetsAssumption DEF Init, TypeOK

LEMMA NextType == TypeOK /\ [Next]_vars => TypeOK'
<1> SUFFICES ASSUME TypeOK, [Next]_vars PROVE TypeOK'
  OBVIOUS
<1>1. CASE PushValue
  BY <1>1, PushValueType
<1>2. CASE InspectNumAssetGroups
  BY <1>2, InspectNumAssetGroupsType
<1>3. CASE GroupAssetID
  BY <1>3, GroupAssetIDType
<1>4. CASE GroupCtrl
  BY <1>4, GroupCtrlType
<1>5. CASE FindAssetGroupByAssetID
  BY <1>5, FindType
<1>6. CASE MetadataHash
  BY <1>6, MetadataHashType
<1>7. CASE GroupNum
  BY <1>7, GroupNumType
<1>8. CASE InspectAssetGroup
  BY <1>8, InspectAssetGroupType
<1>9. CASE GroupSum
  BY <1>9, GroupSumType
<1>10. CASE \/ OutAssetCount \/ OutAssetAt \/ OutAssetLookup
            \/ InAssetCount \/ InAssetAt \/ InAssetLookup
  BY <1>10, AssetMapOpsType
<1>11. CASE GroupIntentOutCount \/ GroupIntentInCount
  BY <1>11, IntentCountOpsType
<1>12. CASE GroupIntentOut \/ GroupIntentIn
  <2>1. {"INTENTOUT", "INTENTIN"} \subseteq AssetOps
    BY DEF AssetOps
  <2>2. QED
    BY <1>12, <2>1, GroupIntentType DEF GroupIntentOut, GroupIntentIn
<1>13. CASE UNCHANGED vars
  BY <1>13 DEF TypeOK, vars
<1>14. QED
  BY <1>1, <1>2, <1>3, <1>4, <1>5, <1>6, <1>7, <1>8, <1>9, <1>10, <1>11,
     <1>12, <1>13 DEF Next

\* Whatever script runs over whatever installed packet, every opcode of
\* opcode_asset.go leaves a stack of well-formed values within the depth
\* bound, and fails only with one of the errors its handler returns.
THEOREM AssetsTypeCorrect == Spec => []TypeOK
BY InitType, NextType, PTL DEF Spec

-----------------------------------------------------------------------------
(* The intent enumeration.                                                 *)

\* Exec records the opcode it ran.
LEMMA ExecOp ==
  ASSUME NEW op, NEW e, NEW ds, Exec(op, e, ds)
  PROVE  lastOp' = op
BY DEF Exec

\* Only GroupIntentOut and GroupIntentIn record INTENTOUT or INTENTIN, only
\* FindAssetGroupByAssetID records FIND, and only GroupSum records GROUPSUM.
LEMMA OpsByName ==
  ASSUME Next
  PROVE  /\ lastOp' \in {"INTENTOUT", "INTENTIN"} => GroupIntentOut \/ GroupIntentIn
         /\ lastOp' = "FIND" => FindAssetGroupByAssetID
         /\ lastOp' = "GROUPSUM" => GroupSum
<1>1. PushValue => lastOp' = "PUSH"
  BY DEF PushValue
<1>2. /\ InspectNumAssetGroups => lastOp' = "NUMASSETGROUPS"
      /\ GroupAssetID => lastOp' = "ASSETID"
      /\ GroupCtrl => lastOp' = "CTRL"
      /\ FindAssetGroupByAssetID => lastOp' = "FIND"
      /\ MetadataHash => lastOp' = "METADATAHASH"
  BY ExecOp DEF InspectNumAssetGroups, GroupAssetID, GroupCtrl,
                FindAssetGroupByAssetID, MetadataHash
<1>3. /\ GroupNum => lastOp' = "GROUPNUM"
      /\ InspectAssetGroup => lastOp' = "GROUP"
      /\ GroupSum => lastOp' = "GROUPSUM"
  BY ExecOp DEF GroupNum, InspectAssetGroup, GroupSum
<1>4. /\ OutAssetCount => lastOp' = "OUTCOUNT"
      /\ OutAssetAt => lastOp' = "OUTAT"
      /\ OutAssetLookup => lastOp' = "OUTLOOKUP"
      /\ InAssetCount => lastOp' = "INCOUNT"
      /\ InAssetAt => lastOp' = "INAT"
      /\ InAssetLookup => lastOp' = "INLOOKUP"
  BY ExecOp DEF OutAssetCount, OutAssetAt, OutAssetLookup, InAssetCount,
                InAssetAt, InAssetLookup, AssetCount, AssetAt, AssetLookup
<1>5. /\ GroupIntentOutCount => lastOp' = "INTENTOUTCOUNT"
      /\ GroupIntentInCount => lastOp' = "INTENTINCOUNT"
  BY ExecOp DEF GroupIntentOutCount, GroupIntentInCount
<1>6. /\ GroupIntentOut => lastOp' = "INTENTOUT"
      /\ GroupIntentIn => lastOp' = "INTENTIN"
  BY ExecOp DEF GroupIntentOut, GroupIntentIn, GroupIntent
<1>7. QED
  BY <1>1, <1>2, <1>3, <1>4, <1>5, <1>6 DEF Next

\* The last two values of a stack the opcode pushed at least two values on.
LEMMA LastTwo ==
  ASSUME NEW V, NEW q \in Seq(V), NEW r \in Seq(V), Len(r) >= 2
  PROVE  /\ (q \o r)[Len(q \o r)] = r[Len(r)]
         /\ (q \o r)[Len(q \o r) - 1] = r[Len(r) - 1]
OBVIOUS

\* An amount is pushed unchanged by pushLE64.
LEMMA LE64Amount ==
  ASSUME NEW a \in Amount
  PROVE  LE64(a).n = a
BY AmountModPos DEF LE64, Amount

\* GroupIntentOut / GroupIntentIn on a valid group and a number j.
LEMMA GroupIntentFilter ==
  ASSUME TypeOK, NEW op, NEW field \in {"outputs", "inputs"},
         GroupIntent(op, field),
         packet # Nil, Len(dstack) >= 2, Arg(1).t = "num", Arg(2).t = "num",
         Arg(2).n \in 0..Len(packet.groups) - 1
  PROVE  LET sq == Group(Arg(2).n)[field]
             R == IntentRef(sq)
         IN  IF Arg(1).n \in 0..Len(R) - 1
             THEN /\ err' \in {"none", "StackOverflow"}
                  /\ err' = "none" =>
                       /\ dstack'[Len(dstack')].n = R[Arg(1).n + 1].amount
                       /\ dstack'[Len(dstack') - 1].n = R[Arg(1).n + 1].outputIndex
             ELSE err' = "InvalidIndex"
<1> DEFINE j == Arg(1).n
           sq == Group(Arg(2).n)[field]
           R == IntentRef(sq)
           p == IntentAt(sq, j)
           ds == Drop(dstack, 2) \o IntentVals(sq[p], field)
           Goal == IF j \in 0..Len(R) - 1
                   THEN /\ err' \in {"none", "StackOverflow"}
                        /\ err' = "none" =>
                             /\ dstack'[Len(dstack')].n = R[j + 1].amount
                             /\ dstack'[Len(dstack') - 1].n = R[j + 1].outputIndex
                   ELSE err' = "InvalidIndex"
<1> SUFFICES Goal
  OBVIOUS
<1>1. Group(Arg(2).n) \in AssetGroup
  <2>1. IsAssetPacket(packet)
    BY PacketsAssumption DEF TypeOK
  <2>2. QED
    BY <2>1 DEF IsAssetPacket, Group
<1>2. sq \in Seq(AssetInput \cup AssetOutput)
  BY <1>1 DEF AssetGroup
<1>3. j \in Int
  BY DEF TypeOK, Arg, Value
<1>4. /\ R \in Seq(AssetInput \cup AssetOutput)
      /\ p \in 0..Len(sq)
      /\ p # 0 <=> j \in 0..Len(R) - 1
      /\ p # 0 => sq[p] = R[j + 1]
  <2> HIDE DEF sq, j
  <2>1. QED
    BY <1>2, <1>3, IntentAtIsFilter DEF R, p
<1>5. GroupArgErr(2) = "none" /\ PopIntErr(1) = "none" /\ checkAssetPacket = "none"
  BY DEF GroupArgErr, PopIntErr, checkAssetPacket, checkGroupIndex, Then
<1>6. Exec(op, IF p = 0 THEN "InvalidIndex" ELSE "none", ds)
  BY <1>5 DEF GroupIntent, Then
<1> HIDE DEF sq, R, p, ds, j, Goal
<1>7. CASE p = 0
  <2>1. err' = "InvalidIndex"
    BY <1>6, <1>7 DEF Exec
  <2>2. QED
    BY <1>4, <1>7, <2>1 DEF Goal
<1>8. CASE p # 0
  <2>1. err' \in {"none", "StackOverflow"} /\ (err' = "none" => dstack' = ds)
    BY <1>6, <1>8 DEF Exec
  <2>2. sq[p] = R[j + 1] /\ j \in 0..Len(R) - 1
    BY <1>4, <1>8
  <2>3. /\ field = "outputs" => sq[p] \in AssetOutput
        /\ field = "inputs" => sq[p] \in AssetInput
    <3>1. /\ field = "outputs" => sq \in Seq(AssetOutput)
          /\ field = "inputs" => sq \in Seq(AssetInput)
      BY <1>1 DEF AssetGroup, sq
    <3>2. QED
      BY <3>1, <1>4, <1>8
  <2>4. /\ sq[p].amount \in Amount
        /\ IntentVals(sq[p], field) \in Seq(Value)
        /\ Len(IntentVals(sq[p], field)) >= 2
        /\ IntentVals(sq[p], field)[Len(IntentVals(sq[p], field))] = LE64(sq[p].amount)
        /\ IntentVals(sq[p], field)[Len(IntentVals(sq[p], field)) - 1] = Num(sq[p].outputIndex)
    <3>1. sq[p].amount \in Amount
      BY <2>3 DEF AssetOutput, AssetInput
    <3>2. IntentVals(sq[p], field) \in Seq(Value)
      BY <2>3, IntentValsType
    <3>3. QED
      BY <3>1, <3>2 DEF IntentVals
  <2>5. Drop(dstack, 2) \in Seq(Value)
    BY DropVal DEF TypeOK
  <2>6. /\ ds[Len(ds)] = LE64(sq[p].amount)
        /\ ds[Len(ds) - 1] = Num(sq[p].outputIndex)
    BY <2>4, <2>5, LastTwo DEF ds
  <2>7. ds[Len(ds)].n = sq[p].amount /\ ds[Len(ds) - 1].n = sq[p].outputIndex
    BY <2>4, <2>6, LE64Amount DEF Num
  <2>8. QED
    BY <2>1, <2>2, <2>7 DEF Goal
<1>9. QED
  BY <1>7, <1>8

\* Each step of a script keeps IntentFilterStep.
LEMMA IntentFilterStepOK ==
  ASSUME TypeOK, [Next]_vars
  PROVE  [IntentFilterStep]_vars
<1>1. CASE UNCHANGED vars
  BY <1>1
<1>2. CASE Next
  <2> SUFFICES ASSUME lastOp' \in {"INTENTOUT", "INTENTIN"},
                      packet # Nil, Len(dstack) >= 2,
                      Arg(1).t = "num", Arg(2).t = "num",
                      Arg(2).n \in 0..Len(packet.groups) - 1
               PROVE  IntentFilterStep
    BY DEF IntentFilterStep
  <2>1. GroupIntentOut \/ GroupIntentIn
    BY <1>2, OpsByName
  <2>2. CASE GroupIntentOut
    <3>1. lastOp' = "INTENTOUT"
      BY <2>2, ExecOp DEF GroupIntentOut, GroupIntent
    <3>2. QED
      BY <2>2, <3>1, GroupIntentFilter DEF GroupIntentOut, IntentFilterStep
  <2>3. CASE GroupIntentIn
    <3>1. lastOp' = "INTENTIN"
      BY <2>3, ExecOp DEF GroupIntentIn, GroupIntent
    <3>2. QED
      BY <2>3, <3>1, GroupIntentFilter DEF GroupIntentIn, IntentFilterStep
  <2>4. QED
    BY <2>1, <2>2, <2>3
<1>3. QED
  BY <1>1, <1>2

\* The intent enumeration loops of opcodeInspectGroupIntentOut and
\* opcodeInspectGroupIntentIn implement the specification's filtered view,
\* for every packet and every amount width: on a valid group, INTENTOUT /
\* INTENTIN(k, j) fail with an index error exactly when j is not the
\* position of an intent entry in the filtered list, and otherwise push the
\* output index and amount of the j-th intent entry.
THEOREM IntentEnumerationIsFilterHolds == Spec => IntentEnumerationIsFilter
<1>1. TypeOK /\ [Next]_vars => [IntentFilterStep]_vars
  BY IntentFilterStepOK
<1>2. QED
  BY <1>1, InitType, NextType, PTL DEF Spec, IntentEnumerationIsFilter

-----------------------------------------------------------------------------
(* FIND.                                                                   *)

\* What opcodeFindAssetGroupByAssetID guarantees as written: when FIND
\* succeeds it pushes the index of the first group whose AssetID has the
\* pushed txid and the pushed gidx truncated to uint16 by popAssetID, or -1
\* when no group has it.  (The specification's exact (txid, gidx), which
\* FindReturnsFirstGroup states, differs from this only by the truncation.)
FindStep ==
  (lastOp' = "FIND" /\ err' = "none") =>
    LET gs == packet.groups
        Is(g) == /\ gs[g].id.txid = Arg(2).n
                 /\ gs[g].id.gidx = Arg(1).n % GidxMod
        r == dstack'[Len(dstack')].n
    IN  IF r = -1 THEN \A g \in 1..Len(gs) : ~Is(g)
        ELSE /\ r \in 0..Len(gs) - 1
             /\ Is(r + 1)
             /\ \A g \in 1..r : ~Is(g)

\* A successful FIND step satisfies FindStep.
LEMMA FindStepOK ==
  ASSUME TypeOK, FindAssetGroupByAssetID, err' = "none"
  PROVE  FindStep
<1> DEFINE gs == packet.groups
           es == [g \in 1..Len(gs) |-> [id |-> gs[g].id]]
           id == popAssetID(1)
           p == FirstMatch(es, id)
           e == Then(checkAssetPacket, popAssetIDErr(1))
           Is(g) == gs[g].id.txid = Arg(2).n /\ gs[g].id.gidx = Arg(1).n % GidxMod
           r == dstack'[Len(dstack')].n
           Goal == IF r = -1 THEN \A g \in 1..Len(gs) : ~Is(g)
                   ELSE /\ r \in 0..Len(gs) - 1
                        /\ Is(r + 1)
                        /\ \A g \in 1..r : ~Is(g)
<1> SUFFICES Goal
  BY DEF FindStep
<1>1. Exec("FIND", e, Append(Drop(dstack, 2), Num(p - 1)))
  BY DEF FindAssetGroupByAssetID
<1>2. e = "none" /\ dstack' = Append(Drop(dstack, 2), Num(p - 1))
  BY <1>1 DEF Exec
<1>3. checkAssetPacket = "none" /\ popAssetIDErr(1) = "none"
  BY <1>2, PacketArg, PopAssetIDArg, ThenErr
<1>4. IsAssetPacket(packet) /\ 2 <= Len(dstack)
  BY <1>3, PacketArg, PopAssetIDArg
<1>5. Len(gs) \in Nat /\ Len(es) = Len(gs)
  BY <1>4 DEF IsAssetPacket
<1>6. \A g \in 1..Len(gs) :
        (es[g].id.txid = id.txid /\ es[g].id.gidx = id.gidx) <=> Is(g)
  BY DEF popAssetID
<1>7. r = p - 1
  <2>1. Drop(dstack, 2) \in Seq(Value)
    BY <1>4, DropVal DEF TypeOK
  <2>2. QED
    BY <1>2, <2>1 DEF Num
<1> HIDE DEF es, id, e, r
<1>8. /\ p \in 0..Len(gs)
      /\ p # 0 => Is(p)
      /\ \A g \in 1..Len(gs) : Is(g) => p # 0 /\ p <= g
  <2>1. p \in 0..Len(es)
    BY <1>5, FirstMatchType
  <2>2. /\ p # 0 => (es[p].id.txid = id.txid /\ es[p].id.gidx = id.gidx)
        /\ \A i \in 1..Len(es) : (es[i].id.txid = id.txid /\ es[i].id.gidx = id.gidx)
                                   => p # 0 /\ p <= i
    BY <1>5, FirstMatchIsFirst
  <2>3. QED
    BY <1>5, <1>6, <2>1, <2>2
<1> HIDE DEF p, Is, gs
<1>9. CASE p = 0
  BY <1>7, <1>8, <1>9 DEF Goal
<1>10. CASE p # 0
  BY <1>5, <1>7, <1>8, <1>10 DEF Goal
<1>11. QED
  BY <1>9, <1>10

\* Every step of a script keeps FindStep.
LEMMA FindStepNext ==
  ASSUME TypeOK, [Next]_vars
  PROVE  [FindStep]_vars
<1>1. CASE UNCHANGED vars
  BY <1>1
<1>2. CASE Next
  <2> SUFFICES ASSUME lastOp' = "FIND", err' = "none" PROVE FindStep
    BY DEF FindStep
  <2>1. FindAssetGroupByAssetID
    BY <1>2, OpsByName
  <2>2. QED
    BY <2>1, FindStepOK
<1>3. QED
  BY <1>1, <1>2

\* opcodeFindAssetGroupByAssetID, for every packet and every script: a
\* successful FIND pushes the first group whose AssetID matches the pushed
\* txid and the uint16-truncated gidx, or -1 when none does.  With
\* FirstMatchIsFirst this confines the divergence that the
\* asset_gidx_truncation run shows to popAssetID's truncation: the search
\* loop itself is right.
THEOREM FindIsFirstTruncatedMatch == Spec => [][FindStep]_vars
<1>1. TypeOK /\ [Next]_vars => [FindStep]_vars
  BY FindStepNext
<1>2. QED
  BY <1>1, InitType, NextType, PTL DEF Spec

-----------------------------------------------------------------------------
(* GROUPSUM.                                                               *)

\* What opcodeInspectAssetGroupSum guarantees as written: when GROUPSUM
\* succeeds it replaces its two arguments by the le64 sums of the amounts of
\* the group's inputs, its outputs, or both, each taken modulo 2^AmountBits
\* (the uint64 wrap-around of its accumulation loops).  When the sums fit,
\* these are the entry sums AssetSumIsEntrySum asks for.
GroupSumStep ==
  (lastOp' = "GROUPSUM" /\ err' = "none") =>
    LET src == Arg(1).n
        g == Group(Arg(2).n)
        Wrapped(s) == [t |-> "le64", n |-> EntrySum(s) % AmountMod]
    IN  /\ src \in {0, 1, 2}
        /\ dstack' = Drop(dstack, 2) \o SourceVals(src, Wrapped(g.inputs),
                                                   Wrapped(g.outputs))

\* A successful GROUPSUM step satisfies GroupSumStep.
LEMMA GroupSumStepOK ==
  ASSUME TypeOK, GroupSum, err' = "none"
  PROVE  GroupSumStep
<1> DEFINE src == Arg(1).n
           g == Group(Arg(2).n)
           e3 == Then(GroupArgErr(2), SourceErr(src, {0, 1, 2}))
           e2 == Then(PopIntErr(1), e3)
           e == Then(checkAssetPacket, e2)
           Wrapped(s) == [t |-> "le64", n |-> EntrySum(s) % AmountMod]
           Goal == /\ src \in {0, 1, 2}
                   /\ dstack' = Drop(dstack, 2) \o SourceVals(src, Wrapped(g.inputs),
                                                              Wrapped(g.outputs))
<1> SUFFICES Goal
  BY DEF GroupSumStep
<1>1. /\ GroupArgErr(2) \in Errs
      /\ GroupArgErr(2) = "none" => 2 <= Len(dstack) /\ g \in AssetGroup
  BY GroupArg
<1>2. /\ SourceErr(src, {0, 1, 2}) \in Errs
      /\ SourceErr(src, {0, 1, 2}) = "none" => src \in {0, 1, 2}
  BY SourceArg
<1>3. e3 \in Errs /\ (e3 = "none" => 2 <= Len(dstack) /\ g \in AssetGroup /\ src \in {0, 1, 2})
  BY <1>1, <1>2, ThenErr
<1>4. e2 \in Errs /\ (e2 = "none" => e3 = "none")
  BY <1>3, PopIntArg, ThenErr
<1>5. e \in Errs /\ (e = "none" => e3 = "none")
  BY <1>4, PacketArg, ThenErr
<1>6. e = "none" /\ dstack' = Drop(dstack, 2) \o GroupSumVals(g, src)
  BY DEF GroupSum, Exec
<1>7. src \in {0, 1, 2} /\ g \in AssetGroup
  BY <1>3, <1>5, <1>6
<1>8. \A s \in {g.inputs, g.outputs} : LE64(SumAmounts(s)) = Wrapped(s)
  <2>1. /\ g.inputs \in Seq(AssetInput) /\ \A i \in 1..Len(g.inputs) : g.inputs[i].amount \in Int
        /\ g.outputs \in Seq(AssetOutput) /\ \A i \in 1..Len(g.outputs) : g.outputs[i].amount \in Int
    <3>1. g.inputs \in Seq(AssetInput) /\ g.outputs \in Seq(AssetOutput)
      BY <1>7 DEF AssetGroup
    <3>2. Amount \subseteq Int
      BY AmountModPos DEF Amount
    <3>3. /\ \A x \in AssetInput : x.amount \in Amount
          /\ \A x \in AssetOutput : x.amount \in Amount
      BY DEF AssetInput, AssetOutput
    <3>4. /\ \A i \in 1..Len(g.inputs) : g.inputs[i] \in AssetInput
          /\ \A i \in 1..Len(g.outputs) : g.outputs[i] \in AssetOutput
      BY <3>1
    <3> HIDE DEF g
    <3>5. QED
      BY <3>1, <3>2, <3>3, <3>4
  <2>2. ASSUME NEW S, NEW s \in Seq(S), \A i \in 1..Len(s) : s[i].amount \in Int
        PROVE  LE64(SumAmounts(s)) = Wrapped(s)
    <3>1. SumAmounts(s) \in Amount /\ SumAmounts(s) = EntrySum(s) % AmountMod
      BY <2>2, SumAmountsType, SumAmountsIsEntrySumMod
    <3>2. LE64(SumAmounts(s)).n = SumAmounts(s)
      BY <3>1, LE64Amount
    <3>3. QED
      BY <3>1, <3>2 DEF LE64
  <2> HIDE DEF g, Wrapped
  <2>3. QED
    BY <2>1, <2>2
<1> HIDE DEF src, g, e, e2, e3, Wrapped
<1>9. GroupSumVals(g, src) = SourceVals(src, Wrapped(g.inputs), Wrapped(g.outputs))
  BY <1>8 DEF GroupSumVals
<1>10. QED
  BY <1>6, <1>7, <1>9 DEF Goal

\* Every step of a script keeps GroupSumStep.
LEMMA GroupSumStepNext ==
  ASSUME TypeOK, [Next]_vars
  PROVE  [GroupSumStep]_vars
<1>1. CASE UNCHANGED vars
  BY <1>1
<1>2. CASE Next
  <2> SUFFICES ASSUME lastOp' = "GROUPSUM", err' = "none" PROVE GroupSumStep
    BY DEF GroupSumStep
  <2>1. GroupSum
    BY <1>2, OpsByName
  <2>2. QED
    BY <2>1, GroupSumStepOK
<1>3. QED
  BY <1>1, <1>2

\* opcodeInspectAssetGroupSum, for every packet, every amount width and
\* every script: a successful GROUPSUM pushes, for the requested source,
\* the sums of the group's amounts reduced modulo 2^AmountBits, and
\* nothing else changes on the stack below its two arguments.  The
\* divergence the asset_sum_overflow run shows (a wrapped sum where the
\* specification asks for an error) is therefore the only one: when the
\* entry sums fit, GROUPSUM pushes exactly the sums AssetSumIsEntrySum
\* states.
THEOREM GroupSumIsWrappedEntrySum == Spec => [][GroupSumStep]_vars
<1>1. TypeOK /\ [Next]_vars => [GroupSumStep]_vars
  BY GroupSumStepNext
<1>2. QED
  BY <1>1, InitType, NextType, PTL DEF Spec

====
