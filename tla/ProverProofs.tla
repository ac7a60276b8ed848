---------------------------- MODULE ProverProofs ----------------------------
(***************************************************************************)
(* Proofs, for any number of tasks, goroutines and leaves, that the state  *)
(* keeps its type, with the mutex in the hands of exactly the goroutine    *)
(* between the second look and the store, that all proofs of a depth are   *)
(* made with one key pair, that the root of what is proved is the one of   *)
(* the reference definition, and which inputs are proved at all.           *)
(*                                                                         *)
(* The key pair: a cache entry is written only under the mutex and only    *)
(* where there was none, so that it never changes, and a goroutine that    *)
(* proves holds the key pair the cache then has.                           *)
(*                                                                         *)
(* The tree: its definitions are recursive functions on numbers.  That     *)
(* they exist, and what they are for every number, follows from the        *)
(* least-number principle, which makes a set that has 0 and with every     *)
(* number the next one contain all numbers.                                *)
(***************************************************************************)
EXTENDS Prover, WellFoundedInduction, SequenceTheorems, TLAPS

-----------------------------------------------------------------------------
(* Induction *)

\* The least-number principle.
LEMMA LeastNumber ==
  ASSUME NEW T \in SUBSET Nat, T # {}
  PROVE  \E x \in T : \A y \in T : x <= y
<1> DEFINE R == {ss \in Nat \X Nat : ss[1] < ss[2]}
<1>1. IsWellFoundedOn(R, Nat)
  BY NatLessThanWellFounded DEF OpToRel
<1>2. \A x, y \in Nat : x < y => <<x, y>> \in R
  OBVIOUS
<1> HIDE DEF R
<1>3. PICK x \in T : \A y \in T : <<y, x>> \notin R
  BY <1>1, WFMin
<1>4. \A y \in T : ~(y < x)
  BY <1>2, <1>3
<1>5. \A y \in T : x <= y
  <2> SUFFICES ASSUME NEW y \in T PROVE x <= y
    OBVIOUS
  <2>1. x \in Nat /\ y \in Nat /\ ~(y < x)
    BY <1>4
  <2> QED BY <2>1
<1> QED BY <1>5

\* A set that has 0 and with every number the next one contains all numbers.
LEMMA SetInduction ==
  ASSUME NEW S, 0 \in S, \A n \in Nat : n \in S => n + 1 \in S
  PROVE  Nat \subseteq S
<1> SUFFICES ASSUME ~(Nat \subseteq S) PROVE FALSE
  OBVIOUS
<1>1. PICK x \in Nat \ S : \A y \in Nat \ S : x <= y
  BY LeastNumber
<1>2. x # 0 /\ x - 1 \in Nat /\ x - 1 < x
  BY <1>1
<1>3. x - 1 \in S
  BY <1>1, <1>2
<1> QED BY <1>1, <1>2, <1>3

\* So does one that has every number whose predecessors it has.
LEMMA StrongSetInduction ==
  ASSUME NEW S, \A n \in Nat : (\A m \in 0..n-1 : m \in S) => n \in S
  PROVE  Nat \subseteq S
<1> SUFFICES ASSUME ~(Nat \subseteq S) PROVE FALSE
  OBVIOUS
<1>1. PICK x \in Nat \ S : \A y \in Nat \ S : x <= y
  BY LeastNumber
<1>2. \A m \in 0..x-1 : m \in S
  BY <1>1
<1> QED BY <1>1, <1>2

-----------------------------------------------------------------------------
(* Numbers *)

LEMMA HalfBounds ==
  ASSUME NEW n \in Nat
  PROVE  /\ Half(n) \in Nat /\ 2 * Half(n) \in n..n+1
         /\ n > 1 => Half(n) < n
         /\ n > 0 => Half(n) > 0
  BY DEF Half

LEMMA Parity ==
  \A x \in Nat : /\ x \div 2 \in Nat /\ x % 2 \in {0, 1}
                 /\ x % 2 = 0 => x = 2 * (x \div 2)
                 /\ x % 2 = 1 => x = 2 * (x \div 2) + 1
  OBVIOUS

LEMMA TimesGrows == \A a, b, c \in Nat : a <= b => a * c <= b * c
  OBVIOUS

LEMMA TimesTwo == \A a, b \in Int : (2 * a) * b = a * (2 * b)
  OBVIOUS

LEMMA DivUnique ==
  ASSUME NEW a \in Nat, NEW s \in Nat \ {0}, NEW q \in Nat,
         q * s <= a, a < (q + 1) * s
  PROVE  a \div s = q
  OBVIOUS

\* The first of the two nodes below the k-th.
LEMMA ChildIndex ==
  ASSUME NEW w \in Nat, NEW k \in 1..Half(w)
  PROVE  2 * k - 1 \in 1..w
<1>1. PICK h : h = Half(w) /\ h \in Nat /\ 2 * h <= w + 1
  BY HalfBounds
<1>2. k \in 1..h
  BY <1>1
<1> HIDE <1>1
<1>3. h \in Nat /\ 2 * h <= w + 1
  BY <1>1
<1> QED BY <1>2, <1>3

LEMMA LenOfFunction ==
  ASSUME NEW n \in Nat, NEW S, NEW f \in [1..n -> S]
  PROVE  f \in Seq(S) /\ Len(f) = n
  OBVIOUS

-----------------------------------------------------------------------------
(* Recursive functions exist *)

\* What the recursive functions of MerkleTree do in their n-th step, told apart
\* by a name: a lemma about all of them cannot take the step as a parameter,
\* the provers do not instantiate operators.
RecStep(kind, arg, value, n) ==
  CASE kind = "span" -> 2 * value
    [] kind = "level" -> NextLevel(value)
    [] kind = "cursor" -> [index |-> value.index \div 2,
                           start |-> value.start + value.size,
                           size |-> Half(value.size)]
    [] kind = "hash" ->
         LET sibling == BytesToFieldElement(arg[n - 1].sibling)
         IN MiMC(IF arg[n - 1].index = 1 THEN <<sibling, value>>
                                       ELSE <<value, sibling>>)
    [] kind = "node" ->
         [i \in Nat |->
            hashPairMiMC(value[2 * i],
                         value[IF (2 * i + 1) * Span[n - 1] < Len(arg)
                               THEN 2 * i + 1 ELSE 2 * i])]
    [] kind = "flatten" -> value \o arg[n + 1]

\* The function for the numbers up to n, which exists and is unique.
UpTo(f, kind, arg, base, n) ==
  f = [m \in 0..n |-> IF m = 0 THEN base ELSE RecStep(kind, arg, f[m - 1], m)]

LEMMA PartialExists ==
  ASSUME NEW kind, NEW arg, NEW base
  PROVE  \A n \in Nat : \E f : UpTo(f, kind, arg, base, n)
<1> DEFINE S == {n \in Nat : \E f : UpTo(f, kind, arg, base, n)}
<1>1. 0 \in S
  <2> DEFINE f == [m \in 0..0 |-> base]
  <2>1. UpTo(f, kind, arg, base, 0)
    BY DEF UpTo
  <2> QED BY <2>1
<1>2. ASSUME NEW n \in Nat, n \in S PROVE n + 1 \in S
  <2>1. PICK f : UpTo(f, kind, arg, base, n)
    BY <1>2
  <2> DEFINE g == [m \in 0..n+1 |-> IF m = n + 1 THEN RecStep(kind, arg, f[n], m)
                                    ELSE f[m]]
  <2>2. ASSUME NEW m \in 0..n+1
        PROVE  g[m] = IF m = 0 THEN base ELSE RecStep(kind, arg, g[m - 1], m)
    BY <2>1 DEF UpTo
  <2>3. g = [m \in 0..n+1 |-> g[m]]
    OBVIOUS
  <2> HIDE DEF g
  <2>4. UpTo(g, kind, arg, base, n + 1)
    BY <2>2, <2>3 DEF UpTo
  <2> QED BY <2>4
<1> HIDE DEF S
<1>3. Nat \subseteq S
  BY <1>1, <1>2, SetInduction
<1> QED BY <1>3 DEF S

LEMMA PartialUnique ==
  ASSUME NEW kind, NEW arg, NEW base, NEW n \in Nat, NEW m \in Nat, n <= m,
         NEW f, NEW g, UpTo(f, kind, arg, base, n), UpTo(g, kind, arg, base, m)
  PROVE  \A i \in 0..n : f[i] = g[i]
<1> DEFINE S == {i \in Nat : i <= n => f[i] = g[i]}
<1>1. 0 \in S
  BY DEF UpTo
<1>2. ASSUME NEW i \in Nat, i \in S PROVE i + 1 \in S
  <2> SUFFICES ASSUME i + 1 <= n PROVE f[i + 1] = g[i + 1]
    OBVIOUS
  <2>1. f[i] = g[i]
    BY <1>2
  <2>2. f[i + 1] = RecStep(kind, arg, f[i + 1 - 1], i + 1)
    BY DEF UpTo
  <2>3. g[i + 1] = RecStep(kind, arg, g[i + 1 - 1], i + 1)
    BY DEF UpTo
  <2>4. i + 1 - 1 = i
    OBVIOUS
  <2> QED BY <2>1, <2>2, <2>3, <2>4
<1> HIDE DEF S
<1>3. Nat \subseteq S
  BY <1>1, <1>2, SetInduction
<1> QED BY <1>3 DEF S

Recursion(f, kind, arg, base) ==
  f = [n \in Nat |-> IF n = 0 THEN base ELSE RecStep(kind, arg, f[n - 1], n)]

\* All of them together.
LEMMA RecursionExists ==
  ASSUME NEW kind, NEW arg, NEW base
  PROVE  \E f : Recursion(f, kind, arg, base)
<1> DEFINE P(n) == CHOOSE f : UpTo(f, kind, arg, base, n)
           F == [n \in Nat |-> P(n)[n]]
<1>1. \A n \in Nat : UpTo(P(n), kind, arg, base, n)
  BY PartialExists, Zenon
<1> HIDE DEF P
<1>2. ASSUME NEW n \in Nat
      PROVE  F[n] = IF n = 0 THEN base ELSE RecStep(kind, arg, F[n - 1], n)
  <2>1. P(n)[n] = IF n = 0 THEN base ELSE RecStep(kind, arg, P(n)[n - 1], n)
    BY <1>1 DEF UpTo
  <2>2. ASSUME n # 0 PROVE P(n)[n - 1] = P(n - 1)[n - 1]
    <3>1. n - 1 \in Nat /\ n - 1 <= n /\ n - 1 \in 0..n-1
      BY <2>2
    <3>2. UpTo(P(n - 1), kind, arg, base, n - 1) /\ UpTo(P(n), kind, arg, base, n)
      BY <1>1, <3>1
    <3>3. \A i \in 0..n-1 : P(n - 1)[i] = P(n)[i]
      BY <3>1, <3>2, PartialUnique
    <3> QED BY <3>1, <3>3
  <2>3. n # 0 => F[n - 1] = P(n - 1)[n - 1]
    OBVIOUS
  <2> QED BY <2>1, <2>2, <2>3
<1>3. F = [n \in Nat |-> F[n]]
  OBVIOUS
<1> HIDE DEF F
<1>4. Recursion(F, kind, arg, base)
  BY <1>2, <1>3 DEF Recursion
<1> QED BY <1>4

-----------------------------------------------------------------------------
(* The equations of the recursive functions *)

LEMMA SpanStep ==
  /\ Span[0] = 1
  /\ \A l \in Nat : Span[l + 1] = 2 * Span[l]
<1>1. PICK f : Recursion(f, "span", 0, 1)
  BY RecursionExists
<1>2. \A v, n : RecStep("span", 0, v, n) = 2 * v
  BY DEF RecStep
<1>3. f = [l \in Nat |-> IF l = 0 THEN 1 ELSE 2 * f[l - 1]]
  BY <1>1, <1>2 DEF Recursion
<1>4. Span = [l \in Nat |-> IF l = 0 THEN 1 ELSE 2 * Span[l - 1]]
  BY <1>3 DEF Span
<1> QED BY <1>4

LEMMA LevelStep ==
  ASSUME NEW leaves
  PROVE  /\ Levels(leaves)[0] = leaves
         /\ \A l \in Nat : Levels(leaves)[l + 1] = NextLevel(Levels(leaves)[l])
<1>1. PICK f : Recursion(f, "level", 0, leaves)
  BY RecursionExists
<1>2. \A v, n : RecStep("level", 0, v, n) = NextLevel(v)
  BY DEF RecStep
<1>3. f = [l \in Nat |-> IF l = 0 THEN leaves ELSE NextLevel(f[l - 1])]
  BY <1>1, <1>2 DEF Recursion
<1>4. Levels(leaves)
        = [l \in Nat |-> IF l = 0 THEN leaves ELSE NextLevel(Levels(leaves)[l - 1])]
  BY <1>3 DEF Levels
<1> QED BY <1>4

CursorStart(at, size, leafIndex) ==
  at[0].index = leafIndex /\ at[0].start = 0 /\ at[0].size = size

CursorMoves(at, l) ==
  /\ at[l + 1].index = at[l].index \div 2
  /\ at[l + 1].start = at[l].start + at[l].size
  /\ at[l + 1].size = Half(at[l].size)

LEMMA CursorStep ==
  ASSUME NEW size, NEW leafIndex
  PROVE  /\ CursorStart(Cursor(size, leafIndex), size, leafIndex)
         /\ \A l \in Nat : CursorMoves(Cursor(size, leafIndex), l)
<1> DEFINE first == [index |-> leafIndex, start |-> 0, size |-> size]
           G(v) == [index |-> v.index \div 2, start |-> v.start + v.size,
                    size |-> Half(v.size)]
           F(f) == [l \in Nat |-> IF l = 0 THEN first ELSE G(f[l - 1])]
<1>1. PICK f : Recursion(f, "cursor", 0, first)
  BY RecursionExists
<1>2. \A v, n : RecStep("cursor", 0, v, n) = G(v)
  BY DEF RecStep
<1>0. PICK at : at = Cursor(size, leafIndex)
  OBVIOUS
<1>3. (\E h : h = F(h)) => at = F(at)
  BY <1>0, Zenon DEF Cursor
<1>4. \A v : /\ G(v).index = v.index \div 2 /\ G(v).start = v.start + v.size
             /\ G(v).size = Half(v.size)
  OBVIOUS
<1> HIDE DEF G
<1>5. f = F(f)
  BY <1>1, <1>2 DEF Recursion
<1>6. at = F(at)
  BY <1>3, <1>5
<1>7. \A l \in Nat : at[l + 1] = G(at[l])
  BY <1>6
<1>8. at[0] = first
  BY <1>6
<1> HIDE DEF F
<1>9. CursorStart(at, size, leafIndex) /\ \A l \in Nat : CursorMoves(at, l)
  BY <1>4, <1>7, <1>8 DEF CursorStart, CursorMoves
<1> QED BY <1>0, <1>9

Folds(hash, path, l) ==
  hash[l + 1] = MiMC(IF path[l].index = 1
                     THEN <<BytesToFieldElement(path[l].sibling), hash[l]>>
                     ELSE <<hash[l], BytesToFieldElement(path[l].sibling)>>)

LEMMA FoldedStep ==
  ASSUME NEW leaf, NEW path
  PROVE  /\ Folded(leaf, path)[0] = BytesToFieldElement(leaf)
         /\ \A l \in Nat : Folds(Folded(leaf, path), path, l)
<1> DEFINE F(f) == [l \in Nat |->
        IF l = 0 THEN BytesToFieldElement(leaf)
        ELSE LET sibling == BytesToFieldElement(path[l - 1].sibling)
             IN MiMC(IF path[l - 1].index = 1 THEN <<sibling, f[l - 1]>>
                                            ELSE <<f[l - 1], sibling>>)]
<1>1. PICK f : Recursion(f, "hash", path, BytesToFieldElement(leaf))
  BY RecursionExists
<1>2. \A v, n : RecStep("hash", path, v, n)
                  = LET sibling == BytesToFieldElement(path[n - 1].sibling)
                    IN MiMC(IF path[n - 1].index = 1 THEN <<sibling, v>>
                                                   ELSE <<v, sibling>>)
  BY DEF RecStep
<1>3. f = F(f)
  BY <1>1, <1>2 DEF Recursion
<1>4. PICK hash : hash = Folded(leaf, path)
  OBVIOUS
<1>5. hash = F(hash)
  BY <1>3, <1>4 DEF Folded
<1>6. hash[0] = BytesToFieldElement(leaf) /\ \A l \in Nat : Folds(hash, path, l)
  <2>1. hash[0] = BytesToFieldElement(leaf)
    BY <1>5
  <2>2. ASSUME NEW l \in Nat PROVE Folds(hash, path, l)
    <3>1. l + 1 \in Nat /\ l + 1 # 0 /\ l + 1 - 1 = l
      OBVIOUS
    <3> QED BY <1>5, <3>1 DEF Folds
  <2> QED BY <2>1, <2>2
<1> QED BY <1>4, <1>6

LEMMA NodeStep ==
  ASSUME NEW leaves
  PROVE  LET node == ReferenceNode(leaves)
         IN  /\ \A i \in Nat : node[0][i] = leaves[i + 1]
             /\ \A l, i \in Nat :
                  node[l + 1][i]
                    = hashPairMiMC(node[l][2 * i],
                                   node[l][IF (2 * i + 1) * Span[l] < Len(leaves)
                                           THEN 2 * i + 1 ELSE 2 * i])
<1> DEFINE G(v, s) ==
             [i \in Nat |-> hashPairMiMC(v[2 * i],
                              v[IF (2 * i + 1) * s < Len(leaves)
                                THEN 2 * i + 1 ELSE 2 * i])]
           F(f) == [l \in Nat |-> IF l = 0 THEN [i \in Nat |-> leaves[i + 1]]
                                  ELSE G(f[l - 1], Span[l - 1])]
<1>1. PICK f : Recursion(f, "node", leaves, [i \in Nat |-> leaves[i + 1]])
  BY RecursionExists
<1>2. \A v, n : RecStep("node", leaves, v, n) = G(v, Span[n - 1])
  BY DEF RecStep
<1>3. PICK node : node = ReferenceNode(leaves)
  OBVIOUS
<1>4. (\E h : h = F(h)) => node = F(node)
  BY <1>3, Zenon DEF ReferenceNode
<1>5. \A l, i \in Nat : G(node[l], Span[l])[i]
        = hashPairMiMC(node[l][2 * i],
                       node[l][IF (2 * i + 1) * Span[l] < Len(leaves)
                               THEN 2 * i + 1 ELSE 2 * i])
  OBVIOUS
<1> HIDE DEF G
<1>6. f = F(f)
  BY <1>1, <1>2 DEF Recursion
<1>7. node = F(node)
  BY <1>4, <1>6
<1>8. \A l \in Nat : node[l + 1] = G(node[l], Span[l])
  BY <1>7
<1>9. \A i \in Nat : node[0][i] = leaves[i + 1]
  BY <1>7
<1> QED BY <1>3, <1>5, <1>8, <1>9

LEMMA SpanGrows ==
  \A l \in Nat : Span[l] \in Nat \ {0} /\ l < Span[l]
<1> DEFINE S == {l \in Nat : Span[l] \in Nat \ {0} /\ l < Span[l]}
<1>1. 0 \in S
  BY SpanStep
<1>2. ASSUME NEW l \in Nat, l \in S PROVE l + 1 \in S
  BY <1>2, SpanStep
<1> HIDE DEF S
<1>3. Nat \subseteq S
  BY <1>1, <1>2, SetInduction
<1> QED BY <1>3 DEF S

\* The least number of levels whose span holds n leaves.
LeastDepth(n) == CHOOSE d \in Nat : /\ n <= Span[d]
                                    /\ \A e \in Nat : n <= Span[e] => d <= e

LEMMA LeastDepthExists ==
  ASSUME NEW n \in Nat
  PROVE  /\ LeastDepth(n) \in Nat /\ n <= Span[LeastDepth(n)]
         /\ \A e \in Nat : n <= Span[e] => LeastDepth(n) <= e
<1> DEFINE T == {e \in Nat : n <= Span[e]}
<1>1. n \in T
  BY SpanGrows
<1>2. T \in SUBSET Nat /\ T # {}
  BY <1>1
<1>3. PICK d \in T : \A e \in T : d <= e
  BY <1>2, LeastNumber
<1>4. d \in Nat /\ n <= Span[d] /\ \A e \in Nat : n <= Span[e] => d <= e
  BY <1>3
<1> QED BY <1>4, Zenon DEF LeastDepth

\* Half of n leaves need one level less: the least depth is what Depth computes.
LEMMA DepthStep ==
  \A n \in Nat : Depth[n] = IF n <= 1 THEN 0 ELSE 1 + Depth[Half(n)]
<1> DEFINE f == [n \in Nat |-> LeastDepth(n)]
<1>1. ASSUME NEW n \in Nat
      PROVE  LeastDepth(n) = IF n <= 1 THEN 0 ELSE 1 + LeastDepth(Half(n))
  <2>1. CASE n <= 1
    <3>1. LeastDepth(n) <= 0 /\ LeastDepth(n) \in Nat
      BY <2>1, LeastDepthExists, SpanStep
    <3> QED BY <2>1, <3>1
  <2>2. CASE n > 1
    <3> DEFINE h == Half(n)
               d == LeastDepth(n)
               e == LeastDepth(h)
    <3>1. h \in Nat
      BY <2>2 DEF Half
    <3>2. /\ d \in Nat /\ n <= Span[d]
          /\ \A c \in Nat : n <= Span[c] => d <= c
      BY LeastDepthExists
    <3>3. /\ e \in Nat /\ h <= Span[e]
          /\ \A c \in Nat : h <= Span[c] => e <= c
      BY <3>1, LeastDepthExists
    <3> HIDE DEF d, e
    <3>4. \A c \in Nat : n <= Span[c + 1] <=> h <= Span[c]
      BY <2>2, SpanStep, SpanGrows DEF Half
    <3>5. d <= e + 1
      BY <3>2, <3>3, <3>4
    <3>6. d # 0
      BY <2>2, <3>2, SpanStep
    <3>7. e <= d - 1
      <4>1. d - 1 \in Nat /\ d - 1 + 1 = d
        BY <3>2, <3>6
      <4> QED BY <3>2, <3>3, <3>4, <4>1
    <3>8. d = 1 + e
      BY <3>2, <3>3, <3>5, <3>7
    <3> QED BY <2>2, <3>8 DEF d, e
  <2> QED BY <2>1, <2>2
<1>2. \A n \in Nat : n > 1 => Half(n) \in Nat
  BY DEF Half
<1>3. ASSUME NEW n \in Nat PROVE f[n] = IF n <= 1 THEN 0 ELSE 1 + f[Half(n)]
  BY <1>1, <1>2
<1>4. f = [n \in Nat |-> f[n]]
  OBVIOUS
<1> HIDE DEF f
<1>5. f = [n \in Nat |-> IF n <= 1 THEN 0 ELSE 1 + f[Half(n)]]
  BY <1>3, <1>4
<1>6. Depth = [n \in Nat |-> IF n <= 1 THEN 0 ELSE 1 + Depth[Half(n)]]
  BY <1>5 DEF Depth
<1> QED BY <1>6

LEMMA DepthIsNat == \A n \in Nat : Depth[n] \in Nat
<1> DEFINE S == {n \in Nat : Depth[n] \in Nat}
<1>1. ASSUME NEW n \in Nat, \A m \in 0..n-1 : m \in S PROVE n \in S
  <2>1. CASE n <= 1
    BY <2>1, DepthStep
  <2>2. CASE n > 1
    <3>1. Half(n) \in 0..n-1
      BY <2>2, HalfBounds
    <3>2. Depth[Half(n)] \in Nat
      BY <1>1, <3>1
    <3> QED BY <2>2, <3>2, DepthStep
  <2> QED BY <2>1, <2>2
<1> HIDE DEF S
<1>2. Nat \subseteq S
  BY <1>1, StrongSetInduction
<1> QED BY <1>2 DEF S

-----------------------------------------------------------------------------
(* The levels *)

\* The nodes of the tree over leaves.
NodesOf(leaves) == {Levels(leaves)[l][i] : l, i \in Nat}

LEMMA NextLevelIs ==
  ASSUME NEW S, NEW level \in Seq(S)
  PROVE  LET next == NextLevel(level) IN
         /\ next \in Seq({next[i] : i \in Nat})
         /\ Len(next) = Half(Len(level))
         /\ \A i \in 1..Half(Len(level)) :
              next[i] = hashPairMiMC(level[2 * i - 1],
                          level[IF 2 * i <= Len(level) THEN 2 * i ELSE 2 * i - 1])
<1>1. Len(level) \in Nat /\ Half(Len(level)) \in Nat
  BY HalfBounds
<1>2. PICK next : next = NextLevel(level)
  OBVIOUS
<1>3. next = [i \in 1..Half(Len(level)) |->
                hashPairMiMC(level[2 * i - 1],
                  level[IF 2 * i <= Len(level) THEN 2 * i ELSE 2 * i - 1])]
  BY <1>2 DEF NextLevel
<1>4. next \in [1..Half(Len(level)) -> {next[i] : i \in Nat}]
  BY <1>1, <1>3
<1>5. next \in Seq({next[i] : i \in Nat}) /\ Len(next) = Half(Len(level))
  BY <1>1, <1>4, LenOfFunction
<1> QED BY <1>2, <1>3, <1>5

LEMMA LevelsAreSequences ==
  ASSUME NEW S, NEW leaves \in Seq(S), NEW l \in Nat
  PROVE  Levels(leaves)[l] \in Seq(NodesOf(leaves))
<1> DEFINE I == {m \in Nat : Levels(leaves)[m] \in Seq(NodesOf(leaves))}
<1>1. 0 \in I
  <2>1. Levels(leaves)[0] = leaves
    BY LevelStep
  <2>2. \A i \in 1..Len(leaves) : leaves[i] \in NodesOf(leaves)
    BY <2>1 DEF NodesOf
  <2> QED BY <2>1, <2>2
<1>2. ASSUME NEW m \in Nat, m \in I PROVE m + 1 \in I
  <2>1. PICK next : next = NextLevel(Levels(leaves)[m])
    OBVIOUS
  <2>2. next \in Seq({next[i] : i \in Nat})
    BY <1>2, <2>1, NextLevelIs
  <2>3. Levels(leaves)[m + 1] = next
    BY <2>1, LevelStep
  <2>4. {next[i] : i \in Nat} \subseteq NodesOf(leaves)
    BY <2>3 DEF NodesOf
  <2>5. next \in Seq(NodesOf(leaves))
    BY <2>2, <2>4
  <2> QED BY <2>3, <2>5
<1> HIDE DEF I
<1>3. Nat \subseteq I
  BY <1>1, <1>2, SetInduction
<1> QED BY <1>3 DEF I

\* Every level has half as many nodes, each a hash of two below.
LEMMA LevelAbove ==
  ASSUME NEW S, NEW leaves \in Seq(S), NEW l \in Nat
  PROVE  LET here == Levels(leaves)[l]
             above == Levels(leaves)[l + 1]
         IN  /\ Len(here) \in Nat
             /\ Len(above) = Half(Len(here))
             /\ \A i \in 1..Len(above) :
                  above[i] = hashPairMiMC(here[2 * i - 1],
                               here[IF 2 * i <= Len(here) THEN 2 * i ELSE 2 * i - 1])
<1>1. PICK here : here = Levels(leaves)[l]
  OBVIOUS
<1>2. here \in Seq(NodesOf(leaves)) /\ Levels(leaves)[l + 1] = NextLevel(here)
  BY <1>1, LevelsAreSequences, LevelStep
<1>3. PICK above : above = Levels(leaves)[l + 1]
  OBVIOUS
<1>4. /\ Len(above) = Half(Len(here))
      /\ \A i \in 1..Half(Len(here)) :
           above[i] = hashPairMiMC(here[2 * i - 1],
                        here[IF 2 * i <= Len(here) THEN 2 * i ELSE 2 * i - 1])
  BY <1>2, <1>3, NextLevelIs
<1>5. Len(here) \in Nat
  BY <1>2
<1>6. \A i \in 1..Len(above) :
        above[i] = hashPairMiMC(here[2 * i - 1],
                     here[IF 2 * i <= Len(here) THEN 2 * i ELSE 2 * i - 1])
  BY <1>4
<1> QED BY <1>1, <1>3, <1>4, <1>5, <1>6

\* The number of nodes of a level is the number of leaves divided by its span,
\* rounded up.
LEMMA LevelSize ==
  ASSUME NEW S, NEW leaves \in Seq(S), leaves # <<>>, NEW l \in Nat
  PROVE  LET w == Len(Levels(leaves)[l])
         IN  /\ w \in Nat \ {0}
             /\ (w - 1) * Span[l] < Len(leaves)
             /\ Len(leaves) <= w * Span[l]
<1> DEFINE w(m) == Len(Levels(leaves)[m])
           I == {m \in Nat : /\ w(m) \in Nat \ {0}
                             /\ (w(m) - 1) * Span[m] < Len(leaves)
                             /\ Len(leaves) <= w(m) * Span[m]}
<1>1. 0 \in I
  <2>1. w(0) = Len(leaves) /\ Len(leaves) \in Nat \ {0}
    BY LevelStep
  <2> HIDE DEF w
  <2>2. PICK n : n = w(0)
    OBVIOUS
  <2>3. n \in Nat \ {0} /\ n = Len(leaves)
    BY <2>1, <2>2
  <2>4. (n - 1) * 1 < n /\ n <= n * 1
    BY <2>3
  <2>5. Span[0] = 1
    BY SpanStep
  <2> QED BY <2>2, <2>3, <2>4, <2>5
<1>2. ASSUME NEW m \in Nat, m \in I PROVE m + 1 \in I
  <2>1. PICK x, y, s, t : x = w(m) /\ y = w(m + 1) /\ s = Span[m] /\ t = Span[m + 1]
    OBVIOUS
  <2>2. /\ x \in Nat \ {0} /\ s \in Nat \ {0}
        /\ (x - 1) * s < Len(leaves) /\ Len(leaves) <= x * s
    BY <1>2, <2>1, SpanGrows
  <2>3. y = Half(x) /\ t = 2 * s
    BY <2>1, LevelAbove, SpanStep
  <2>4. y \in Nat \ {0} /\ 2 * y >= x /\ 2 * (y - 1) <= x - 1
    <3>1. x \in Nat \ {0} /\ y = (x + 1) \div 2
      BY <2>2, <2>3 DEF Half
    <3> QED BY <3>1
  <2>5. Len(leaves) \in Nat
    OBVIOUS
  <2>6. x * s <= (2 * y) * s /\ (2 * (y - 1)) * s <= (x - 1) * s
    <3>1. /\ x \in Nat /\ 2 * y \in Nat /\ s \in Nat
          /\ 2 * (y - 1) \in Nat /\ x - 1 \in Nat
      BY <2>2, <2>4
    <3> QED BY <2>4, <3>1, TimesGrows
  <2>7. (2 * y) * s = y * t /\ (2 * (y - 1)) * s = (y - 1) * t
    <3>1. y \in Int /\ y - 1 \in Int /\ s \in Int
      BY <2>2, <2>4
    <3> QED BY <2>3, <3>1, TimesTwo
  <2>8. /\ x * s \in Nat /\ (x - 1) * s \in Nat
        /\ (2 * y) * s \in Nat /\ (2 * (y - 1)) * s \in Nat
    BY <2>2, <2>4
  <2>9. Len(leaves) <= y * t /\ (y - 1) * t < Len(leaves)
    BY <2>2, <2>5, <2>6, <2>7, <2>8
  <2> QED BY <2>1, <2>4, <2>9
<1> HIDE DEF I
<1>3. Nat \subseteq I
  BY <1>1, <1>2, SetInduction
<1> QED BY <1>3 DEF I

\* The last level, and only the last, has one node.
LEMMA DepthOfLevel ==
  ASSUME NEW S, NEW leaves \in Seq(S), leaves # <<>>, NEW l \in Nat,
         l <= Depth[Len(leaves)]
  PROVE  Depth[Len(Levels(leaves)[l])] = Depth[Len(leaves)] - l
<1> DEFINE D == Depth[Len(leaves)]
           w(m) == Len(Levels(leaves)[m])
           I == {m \in Nat : m <= D => Depth[w(m)] = D - m}
<1>0. D \in Nat
  BY DepthIsNat
<1>1. 0 \in I
  <2>1. w(0) = Len(leaves)
    BY LevelStep
  <2>2. Depth[w(0)] = D - 0
    BY <1>0, <2>1
  <2> QED BY <2>2
<1>2. ASSUME NEW m \in Nat, m \in I PROVE m + 1 \in I
  <2>1. PICK x, y : x = w(m) /\ y = w(m + 1)
    OBVIOUS
  <2>2. x \in Nat \ {0} /\ y = Half(x)
    BY <2>1, LevelAbove, LevelSize
  <2>3. Depth[x] = IF x <= 1 THEN 0 ELSE 1 + Depth[y]
    BY <2>2, DepthStep
  <2>4. y \in Nat /\ Depth[y] \in Nat
    BY <2>2, HalfBounds, DepthIsNat
  <2> HIDE DEF D, w
  <2>5. ASSUME m + 1 <= D PROVE Depth[y] = D - (m + 1)
    <3>1. Depth[x] = D - m
      BY <1>0, <1>2, <2>1, <2>5
    <3> QED BY <1>0, <2>3, <2>4, <2>5, <3>1
  <2> QED BY <2>1, <2>5
<1> HIDE DEF I
<1>3. Nat \subseteq I
  BY <1>1, <1>2, SetInduction
<1> QED BY <1>3 DEF I

\* The loop of NewMerkleTree ends after Depth levels, at the root.
LEMMA TopLevel ==
  ASSUME NEW S, NEW leaves \in Seq(S), leaves # <<>>
  PROVE  /\ Len(Levels(leaves)[Depth[Len(leaves)]]) = 1
         /\ \A l \in Nat : l < Depth[Len(leaves)] => Len(Levels(leaves)[l]) > 1
<1>1. PICK D : D = Depth[Len(leaves)] /\ D \in Nat
  BY DepthIsNat
<1>2. \A l \in 0..D : /\ Len(Levels(leaves)[l]) \in Nat \ {0}
                      /\ Depth[Len(Levels(leaves)[l])] = D - l
  <2> SUFFICES ASSUME NEW l \in 0..D
               PROVE  /\ Len(Levels(leaves)[l]) \in Nat \ {0}
                      /\ Depth[Len(Levels(leaves)[l])] = D - l
    OBVIOUS
  <2>1. l \in Nat /\ l <= Depth[Len(leaves)]
    BY <1>1
  <2>2. Len(Levels(leaves)[l]) \in Nat \ {0}
    BY <2>1, LevelSize
  <2>3. Depth[Len(Levels(leaves)[l])] = Depth[Len(leaves)] - l
    BY <2>1, DepthOfLevel
  <2> QED BY <1>1, <2>2, <2>3
<1>3. ASSUME NEW x \in Nat \ {0} PROVE Depth[x] = 0 <=> x = 1
  <2>1. CASE x = 1
    BY <2>1, DepthStep
  <2>2. CASE x > 1
    <3>1. Half(x) \in Nat
      BY HalfBounds
    <3> QED BY <2>2, <3>1, DepthStep, DepthIsNat
  <2> QED BY <2>1, <2>2
<1>4. Len(Levels(leaves)[D]) = 1
  <2>1. D \in 0..D /\ D - D = 0
    BY <1>1
  <2> QED BY <1>2, <1>3, <2>1
<1>5. ASSUME NEW l \in Nat, l < D PROVE Len(Levels(leaves)[l]) > 1
  <2>1. l \in 0..D /\ D - l # 0
    BY <1>1, <1>5
  <2>2. PICK x : x = Len(Levels(leaves)[l])
    OBVIOUS
  <2>3. x \in Nat \ {0} /\ Depth[x] # 0
    BY <1>2, <2>1, <2>2
  <2>4. x # 1
    BY <1>3, <2>3
  <2>5. x > 1
    BY <2>3, <2>4
  <2> QED BY <2>2, <2>5
<1> QED BY <1>1, <1>4, <1>5

\* Every node is the one of the reference definition.
LEMMA NodeIsReference ==
  ASSUME NEW S, NEW leaves \in Seq(S), leaves # <<>>, NEW l \in Nat
  PROVE  \A i \in 0..Len(Levels(leaves)[l]) - 1 :
           Levels(leaves)[l][i + 1] = ReferenceNode(leaves)[l][i]
<1> DEFINE level == Levels(leaves)
           node == ReferenceNode(leaves)
           w(m) == Len(level[m])
           I == {m \in Nat : \A i \in 0..w(m) - 1 : level[m][i + 1] = node[m][i]}
<1>1. 0 \in I
  <2>1. level[0] = leaves /\ Len(leaves) \in Nat
    BY LevelStep
  <2>2. \A i \in Nat : node[0][i] = leaves[i + 1]
    BY NodeStep
  <2>3. ASSUME NEW i \in 0..Len(leaves) - 1 PROVE leaves[i + 1] = node[0][i]
    <3>1. i \in Nat
      BY <2>1
    <3> QED BY <2>2, <3>1, Zenon
  <2>4. \A i \in 0..w(0) - 1 : level[0][i + 1] = node[0][i]
    BY <2>1, <2>3
  <2> HIDE DEF level, node
  <2> QED BY <2>4
<1>2. ASSUME NEW m \in Nat, m \in I PROVE m + 1 \in I
  <2>1. PICK x, y, s : x = w(m) /\ y = w(m + 1) /\ s = Span[m]
    OBVIOUS
  <2>2. /\ x \in Nat \ {0} /\ s \in Nat \ {0} /\ y = Half(x)
        /\ (x - 1) * s < Len(leaves) /\ Len(leaves) <= x * s
    BY <2>1, LevelAbove, LevelSize, SpanGrows
  <2>3. Len(leaves) \in Nat
    OBVIOUS
  <2>4. ASSUME NEW i \in 0..y - 1 PROVE level[m + 1][i + 1] = node[m + 1][i]
    <3> DEFINE k == IF 2 * (i + 1) <= x THEN 2 * (i + 1) ELSE 2 * (i + 1) - 1
               j == IF (2 * i + 1) * s < Len(leaves) THEN 2 * i + 1 ELSE 2 * i
    <3>1. i \in Nat /\ 2 * i + 1 <= x /\ y \in Nat
      <4>1. x \in Nat \ {0} /\ y = (x + 1) \div 2
        BY <2>2 DEF Half
      <4> QED BY <4>1
    <3>2. level[m + 1][i + 1] = hashPairMiMC(level[m][2 * (i + 1) - 1], level[m][k])
      <4>1. i + 1 \in 1..y
        BY <3>1
      <4> QED BY <2>1, <4>1, LevelAbove
    <3>3. node[m + 1][i] = hashPairMiMC(node[m][2 * i], node[m][j])
      <4>1. \A a, b \in Nat :
              node[a + 1][b] = hashPairMiMC(node[a][2 * b],
                node[a][IF (2 * b + 1) * Span[a] < Len(leaves) THEN 2 * b + 1
                                                              ELSE 2 * b])
        BY NodeStep
      <4> HIDE DEF node
      <4> QED BY <2>1, <3>1, <4>1
    <3>4. 2 * i + 1 < x <=> (2 * i + 1) * s < Len(leaves)
      <4>1. CASE 2 * i + 1 < x
        <5>1. 2 * i + 1 <= x - 1
          BY <2>2, <3>1, <4>1
        <5>2. (2 * i + 1) * s <= (x - 1) * s
          <6>1. 2 * i + 1 \in Nat /\ x - 1 \in Nat /\ s \in Nat
            BY <2>2, <3>1
          <6> QED BY <5>1, <6>1, TimesGrows
        <5>3. (2 * i + 1) * s \in Nat /\ (x - 1) * s \in Nat
          BY <2>2, <3>1
        <5> QED BY <2>2, <2>3, <4>1, <5>2, <5>3
      <4>2. CASE ~(2 * i + 1 < x)
        <5>1. x <= 2 * i + 1
          BY <2>2, <3>1, <4>2
        <5>2. x * s <= (2 * i + 1) * s
          <6>1. 2 * i + 1 \in Nat /\ x \in Nat /\ s \in Nat
            BY <2>2, <3>1
          <6> QED BY <5>1, <6>1, TimesGrows
        <5>3. (2 * i + 1) * s \in Nat /\ x * s \in Nat
          BY <2>2, <3>1
        <5> QED BY <2>2, <2>3, <4>2, <5>2, <5>3
      <4> QED BY <4>1, <4>2
    <3>5. k = j + 1 /\ j \in 0..x - 1 /\ 2 * i \in 0..x - 1
      BY <2>2, <3>1, <3>4
    <3>6. 2 * (i + 1) - 1 = 2 * i + 1
      BY <3>1
    <3> HIDE DEF k, j, level, node
    <3>7. level[m][k] = node[m][j] /\ level[m][2 * i + 1] = node[m][2 * i]
      BY <1>2, <2>1, <3>5
    <3> QED BY <3>2, <3>3, <3>6, <3>7
  <2> QED BY <2>1, <2>4
<1> HIDE DEF I
<1>3. Nat \subseteq I
  BY <1>1, <1>2, SetInduction
<1> QED BY <1>3 DEF I

-----------------------------------------------------------------------------
(* The tree, its levels one after the other *)

\* The levels below level j are where the cursor starts them.
InPlace(leaves, at, j, row) ==
  \A l \in 0..j - 1 : \A k \in 1..Len(Levels(leaves)[l]) :
    /\ at[l].start + k \in 1..Len(row)
    /\ row[at[l].start + k] = Levels(leaves)[l][k]

\* All levels below level j in a row.
Below(leaves, at, j, row) ==
  /\ row \in Seq(NodesOf(leaves)) /\ Len(row) = at[j].start
  /\ InPlace(leaves, at, j, row)

\* levelSize is the size of the level.
LEMMA CursorSize ==
  ASSUME NEW S, NEW leaves \in Seq(S), NEW k, NEW at, at = Cursor(Len(leaves), k),
         NEW l \in Nat
  PROVE  at[l].size = Len(Levels(leaves)[l]) /\ at[l].start \in Nat
<1> DEFINE w(m) == Len(Levels(leaves)[m])
           I == {m \in Nat : at[m].size = w(m) /\ at[m].start \in Nat}
<1>1. PICK size : size = Len(leaves)
  OBVIOUS
<1>2. CursorStart(at, size, k) /\ \A m \in Nat : CursorMoves(at, m)
  BY <1>1, CursorStep
<1>3. /\ at[0].size = size /\ at[0].start = 0
      /\ \A m \in Nat : /\ at[m + 1].start = at[m].start + at[m].size
                        /\ at[m + 1].size = Half(at[m].size)
  BY <1>2 DEF CursorStart, CursorMoves
<1>4. 0 \in I
  <2>1. w(0) = size
    BY <1>1, LevelStep
  <2> HIDE DEF w
  <2> QED BY <1>3, <2>1
<1>5. ASSUME NEW m \in Nat, m \in I PROVE m + 1 \in I
  <2>1. w(m) \in Nat /\ w(m + 1) = Half(w(m))
    BY LevelAbove
  <2>2. at[m].size = w(m) /\ at[m].start \in Nat
    BY <1>5
  <2> HIDE DEF w
  <2>3. /\ at[m + 1].start = at[m].start + at[m].size
        /\ at[m + 1].size = Half(at[m].size)
    BY <1>3
  <2>4. at[m + 1].size = w(m + 1) /\ at[m + 1].start \in Nat
    BY <2>1, <2>2, <2>3
  <2> QED BY <2>4
<1> HIDE DEF I
<1>6. Nat \subseteq I
  BY <1>4, <1>5, SetInduction
<1> QED BY <1>6 DEF I

LEMMA BelowHas ==
  ASSUME NEW leaves, NEW at, NEW j, NEW row, Below(leaves, at, j, row),
         NEW l \in 0..j - 1, NEW k \in 1..Len(Levels(leaves)[l])
  PROVE  row[at[l].start + k] = Levels(leaves)[l][k]
  BY Zenon DEF Below, InPlace

LEMMA Shifted ==
  ASSUME NEW r \in Nat, NEW v \in Nat, NEW k \in 1..v
  PROVE  r + k \in 1..r + v
  OBVIOUS

\* One more level in the row.
LEMMA BelowNext ==
  ASSUME NEW S, NEW leaves \in Seq(S), NEW at, NEW j \in Nat, NEW row,
         Below(leaves, at, j, row), at[j].start \in Nat,
         \A m \in Nat : at[m].start \in Nat,
         at[j + 1].start = at[j].start + Len(Levels(leaves)[j])
  PROVE  Below(leaves, at, j + 1, row \o Levels(leaves)[j])
<1>1. PICK level : level = Levels(leaves)[j]
  OBVIOUS
<1>2. level \in Seq(NodesOf(leaves)) /\ row \in Seq(NodesOf(leaves))
  BY <1>1, LevelsAreSequences DEF Below
<1>3. PICK next : next = row \o level
  OBVIOUS
<1>4. /\ next \in Seq(NodesOf(leaves)) /\ Len(next) = Len(row) + Len(level)
      /\ \A i \in 1..Len(row) : next[i] = row[i]
      /\ \A i \in 1..Len(level) : next[Len(row) + i] = level[i]
  BY <1>2, <1>3
<1>5. PICK r, v, n : r = Len(row) /\ v = Len(level) /\ n = Len(next)
  OBVIOUS
<1>6. r \in Nat /\ v \in Nat /\ n = r + v /\ r = at[j].start
  BY <1>2, <1>4, <1>5 DEF Below
<1>7. ASSUME NEW l \in 0..j, NEW k \in 1..Len(Levels(leaves)[l])
      PROVE  /\ at[l].start + k \in 1..Len(next)
             /\ next[at[l].start + k] = Levels(leaves)[l][k]
  <2>1. CASE l = j
    <3>1. k \in 1..v
      BY <1>1, <1>5, <2>1
    <3>2. r + k \in 1..n
      BY <1>6, <3>1, Shifted
    <3>3. next[r + k] = level[k]
      BY <1>4, <1>5, <3>1
    <3> QED BY <1>1, <1>5, <1>6, <2>1, <3>2, <3>3
  <2>2. CASE l # j
    <3>1. l \in 0..j - 1
      BY <2>2
    <3>2. PICK x : x = at[l].start + k
      OBVIOUS
    <3>3. x \in 1..r /\ row[x] = Levels(leaves)[l][k]
      BY <1>5, <3>1, <3>2, Zenon DEF Below, InPlace
    <3>4. x \in 1..n
      BY <1>6, <3>3
    <3>5. next[x] = row[x]
      BY <1>4, <1>5, <3>3
    <3> QED BY <1>5, <3>2, <3>3, <3>4, <3>5
  <2> QED BY <2>1, <2>2
<1>8. Len(next) = at[j + 1].start
  BY <1>1, <1>5, <1>6
<1>9. j + 1 - 1 = j
  OBVIOUS
<1>10. InPlace(leaves, at, j + 1, next)
  BY <1>7, <1>9 DEF InPlace
<1>11. Below(leaves, at, j + 1, next)
  <2>1. next \in Seq(NodesOf(leaves))
    BY <1>4
  <2> QED BY <1>8, <1>10, <2>1, Zenon DEF Below
<1> QED BY <1>1, <1>3, <1>11

\* row[i]: the first i of seqs in a row.
Rows(row, seqs) ==
  /\ row[1] = seqs[1]
  /\ \A i \in 2..Len(seqs) : row[i] = row[i - 1] \o seqs[i]
  /\ FlattenSeq(seqs) = row[Len(seqs)]

LEMMA FlattenStep ==
  ASSUME NEW S, NEW seqs \in Seq(S), seqs # <<>>
  PROVE  \E row : Rows(row, seqs)
<1>1. PICK f : Recursion(f, "flatten", seqs, seqs[1])
  BY RecursionExists
<1>2. \A v, n : RecStep("flatten", seqs, v, n) = v \o seqs[n + 1]
  BY DEF RecStep
<1>3. /\ f[0] = seqs[1]
      /\ \A n \in Nat : n # 0 => f[n] = f[n - 1] \o seqs[n + 1]
  BY <1>1, <1>2 DEF Recursion
<1> DEFINE F(g) == [i \in 1..Len(seqs) |->
                      IF i = 1 THEN seqs[i] ELSE g[i - 1] \o seqs[i]]
           h == [i \in 1..Len(seqs) |-> f[i - 1]]
<1>4. Len(seqs) \in Nat \ {0}
  OBVIOUS
<1>5. ASSUME NEW i \in 1..Len(seqs) PROVE h[i] = F(h)[i]
  <2>1. CASE i = 1
    BY <1>3, <1>4, <2>1
  <2>2. CASE i # 1
    <3>1. i - 1 \in Nat /\ i - 1 # 0 /\ i - 1 \in 1..Len(seqs) /\ i - 1 + 1 = i
      BY <1>4, <2>2
    <3>2. f[i - 1] = f[i - 1 - 1] \o seqs[i]
      BY <1>3, <3>1
    <3> QED BY <2>2, <3>1, <3>2
  <2> QED BY <2>1, <2>2
<1>6. h = F(h)
  BY <1>5
<1> DEFINE row == CHOOSE g : g = F(g)
<1>7. row = F(row)
  BY <1>6, Zenon
<1>8. FlattenSeq(seqs) = row[Len(seqs)]
  BY <1>4 DEF FlattenSeq
<1> HIDE DEF row
<1>9. \A i \in 1..Len(seqs) :
        row[i] = IF i = 1 THEN seqs[i] ELSE row[i - 1] \o seqs[i]
  BY <1>7
<1>10. row[1] = seqs[1] /\ \A i \in 2..Len(seqs) : row[i] = row[i - 1] \o seqs[i]
  <2>1. 1 \in 1..Len(seqs) /\ \A i \in 2..Len(seqs) : i \in 1..Len(seqs) /\ i # 1
    BY <1>4
  <2> QED BY <1>9, <2>1
<1> QED BY <1>8, <1>10 DEF Rows

\* levelStart is where the level starts in the tree.
LEMMA TreeIsLevels ==
  ASSUME NEW S, NEW leaves \in Seq(S), leaves # <<>>,
         NEW k, NEW at, at = Cursor(Len(leaves), k)
  PROVE  Below(leaves, at, Depth[Len(leaves)] + 1, NewMerkleTree(leaves))
<1>1. PICK D : D = Depth[Len(leaves)] /\ D \in Nat
  BY DepthIsNat
<1>2. PICK seqs : seqs = [l \in 1..D + 1 |-> Levels(leaves)[l - 1]]
  OBVIOUS
<1>3. seqs \in Seq(Seq(NodesOf(leaves))) /\ Len(seqs) = D + 1
  <2>1. \A l \in 1..D + 1 : l - 1 \in Nat
    BY <1>1
  <2>2. seqs \in [1..D + 1 -> Seq(NodesOf(leaves))]
    BY <1>2, <2>1, LevelsAreSequences
  <2> QED BY <1>1, <2>2
<1>4. seqs # <<>>
  BY <1>1, <1>3
<1>5. PICK row : Rows(row, seqs)
  BY <1>3, <1>4, FlattenStep
<1>6. /\ at[0].start = 0 /\ \A m \in Nat : at[m].start \in Nat
      /\ \A m \in Nat : at[m + 1].start = at[m].start + Len(Levels(leaves)[m])
  <2>1. CursorStart(at, Len(leaves), k) /\ \A m \in Nat : CursorMoves(at, m)
    BY CursorStep
  <2>3. at[0].start = 0 /\ \A m \in Nat : at[m + 1].start = at[m].start + at[m].size
    BY <2>1 DEF CursorStart, CursorMoves
  <2>4. \A m \in Nat : at[m].size = Len(Levels(leaves)[m]) /\ at[m].start \in Nat
    BY CursorSize
  <2> QED BY <2>3, <2>4
<1> DEFINE I == {m \in Nat : m <= D => Below(leaves, at, m + 1, row[m + 1])}
<1>7. 0 \in I
  <2>1. row[1] = leaves /\ Levels(leaves)[0] = leaves
    BY <1>1, <1>2, <1>5, LevelStep DEF Rows
  <2>2. Below(leaves, at, 0, <<>>)
    BY <1>6 DEF Below, InPlace
  <2>3. Below(leaves, at, 0 + 1, <<>> \o Levels(leaves)[0])
    BY <1>6, <2>2, BelowNext
  <2>4. <<>> \o Levels(leaves)[0] = row[1]
    BY <2>1
  <2> QED BY <2>3, <2>4
<1>8. ASSUME NEW m \in Nat, m \in I PROVE m + 1 \in I
  <2> SUFFICES ASSUME m + 1 <= D PROVE Below(leaves, at, m + 2, row[m + 2])
    BY <1>1
  <2>1. Below(leaves, at, m + 1, row[m + 1])
    BY <1>1, <1>8
  <2>2. row[m + 2] = row[m + 1] \o Levels(leaves)[m + 1]
    <3>1. PICK i : i = m + 2
      OBVIOUS
    <3>2. i \in 2..Len(seqs) /\ i - 1 = m + 1 /\ i \in 1..D + 1
      BY <1>1, <1>3, <3>1
    <3>3. row[i] = row[i - 1] \o seqs[i]
      BY <1>5, <3>2 DEF Rows
    <3>4. seqs[i] = Levels(leaves)[i - 1]
      BY <1>2, <3>2
    <3> QED BY <3>1, <3>2, <3>3, <3>4
  <2>3. Below(leaves, at, m + 1 + 1, row[m + 1] \o Levels(leaves)[m + 1])
    <3>1. PICK j : j = m + 1 /\ j \in Nat
      OBVIOUS
    <3>2. /\ at[j].start \in Nat
          /\ at[j + 1].start = at[j].start + Len(Levels(leaves)[j])
      BY <1>6, <3>1
    <3>3. Below(leaves, at, j, row[j])
      BY <2>1, <3>1
    <3>4. Below(leaves, at, j + 1, row[j] \o Levels(leaves)[j])
      BY <1>6, <3>1, <3>2, <3>3, BelowNext
    <3> QED BY <3>1, <3>4
  <2>4. m + 1 + 1 = m + 2
    OBVIOUS
  <2> QED BY <2>2, <2>3, <2>4
<1> HIDE DEF I
<1>9. Nat \subseteq I
  BY <1>7, <1>8, SetInduction
<1>10. Below(leaves, at, D + 1, row[D + 1])
  BY <1>1, <1>9 DEF I
<1>11. NewMerkleTree(leaves) = row[D + 1]
  BY <1>1, <1>2, <1>3, <1>5 DEF NewMerkleTree, Rows
<1> QED BY <1>1, <1>10, <1>11

\* The root is the node of the reference definition.
LEMMA RootIsTop ==
  ASSUME NEW S, NEW leaves \in Seq(S), leaves # <<>>
  PROVE  /\ Last(NewMerkleTree(leaves)) = Levels(leaves)[Depth[Len(leaves)]][1]
         /\ Last(NewMerkleTree(leaves)) = ReferenceNode(leaves)[Depth[Len(leaves)]][0]
<1>1. PICK D : D = Depth[Len(leaves)] /\ D \in Nat
  BY DepthIsNat
<1>2. PICK at, tree : at = Cursor(Len(leaves), 0) /\ tree = NewMerkleTree(leaves)
  OBVIOUS
<1>3. Below(leaves, at, D + 1, tree)
  BY <1>1, <1>2, TreeIsLevels
<1>4. Len(Levels(leaves)[D]) = 1
  BY <1>1, TopLevel
<1>5. at[D + 1].start = at[D].start + 1 /\ at[D].start \in Nat
  <2>1. at[D].size = 1 /\ at[D].start \in Nat
    BY <1>1, <1>2, <1>4, CursorSize
  <2>4. CursorMoves(at, D)
    BY <1>1, <1>2, CursorStep
  <2>5. at[D + 1].start = at[D].start + at[D].size
    BY <2>4 DEF CursorMoves
  <2> QED BY <2>1, <2>5
<1>6. Len(tree) = at[D].start + 1
  BY <1>3, <1>5 DEF Below
<1>7. tree[at[D].start + 1] = Levels(leaves)[D][1]
  <2>1. D \in 0..D + 1 - 1 /\ 1 \in 1..1
    BY <1>1
  <2>2. 1 \in 1..Len(Levels(leaves)[D])
    BY <1>4, <2>1
  <2> QED BY <1>3, <2>1, <2>2, BelowHas
<1>8. Last(tree) = Levels(leaves)[D][1]
  BY <1>6, <1>7 DEF Last
<1>9. Levels(leaves)[D][0 + 1] = ReferenceNode(leaves)[D][0]
  <2>1. 0 \in 0..Len(Levels(leaves)[D]) - 1
    BY <1>4
  <2> QED BY <1>1, <2>1, NodeIsReference
<1> QED BY <1>1, <1>2, <1>8, <1>9

-----------------------------------------------------------------------------
(* The ancestors of a leaf *)

\* Where the leaf's ancestor of each level is.
LEMMA CursorIndex ==
  ASSUME NEW S, NEW leaves \in Seq(S), leaves # <<>>,
         NEW k \in 0..Len(leaves) - 1, NEW at, at = Cursor(Len(leaves), k),
         NEW l \in Nat
  PROVE  /\ at[l].index \in 0..Len(Levels(leaves)[l]) - 1
         /\ at[l].index = k \div Span[l]
<1> DEFINE I == {m \in Nat : /\ at[m].index \in Nat
                             /\ at[m].index * Span[m] <= k
                             /\ k < (at[m].index + 1) * Span[m]}
<1>0. k \in Nat /\ k < Len(leaves) /\ Len(leaves) \in Nat
  OBVIOUS
<1>1. CursorStart(at, Len(leaves), k) /\ \A m \in Nat : CursorMoves(at, m)
  BY CursorStep
<1>2. 0 \in I
  <2>1. at[0].index = k
    BY <1>1 DEF CursorStart
  <2>2. Span[0] = 1 /\ k * 1 = k /\ (k + 1) * 1 = k + 1 /\ k < k + 1
    BY <1>0, SpanStep
  <2> QED BY <1>0, <2>1, <2>2
<1>3. ASSUME NEW m \in Nat, m \in I PROVE m + 1 \in I
  <2>1. PICK x, y, s, t : /\ x = at[m].index /\ y = at[m + 1].index
                          /\ s = Span[m] /\ t = Span[m + 1]
    OBVIOUS
  <2>2. x \in Nat /\ x * s <= k /\ k < (x + 1) * s
    BY <1>3, <2>1
  <2>3. y = x \div 2 /\ t = 2 * s /\ s \in Nat \ {0}
    BY <1>1, <2>1, SpanStep, SpanGrows DEF CursorMoves
  <2>4. y \in Nat /\ 2 * y <= x /\ x + 1 <= 2 * (y + 1)
    BY <2>2, <2>3
  <2>5. (2 * y) * s <= x * s /\ (x + 1) * s <= (2 * (y + 1)) * s
    <3>1. /\ 2 * y \in Nat /\ x \in Nat /\ s \in Nat
          /\ x + 1 \in Nat /\ 2 * (y + 1) \in Nat
      BY <2>2, <2>3, <2>4
    <3> QED BY <2>4, <3>1, TimesGrows
  <2>6. (2 * y) * s = y * t /\ (2 * (y + 1)) * s = (y + 1) * t
    <3>1. y \in Int /\ y + 1 \in Int /\ s \in Int
      BY <2>3, <2>4
    <3>2. (2 * y) * s = y * (2 * s) /\ (2 * (y + 1)) * s = (y + 1) * (2 * s)
      BY <3>1, TimesTwo
    <3> QED BY <2>3, <3>2
  <2>7. /\ (2 * y) * s \in Nat /\ (2 * (y + 1)) * s \in Nat
        /\ x * s \in Nat /\ (x + 1) * s \in Nat
    BY <2>2, <2>3, <2>4
  <2>8. y * t <= k /\ k < (y + 1) * t
    BY <1>0, <2>2, <2>5, <2>6, <2>7
  <2> QED BY <2>1, <2>4, <2>8
<1> HIDE DEF I
<1>4. Nat \subseteq I
  BY <1>2, <1>3, SetInduction
<1>5. PICK x, s, w : x = at[l].index /\ s = Span[l] /\ w = Len(Levels(leaves)[l])
  OBVIOUS
<1>6. x \in Nat /\ x * s <= k /\ k < (x + 1) * s
  BY <1>4, <1>5 DEF I
<1>7. s \in Nat \ {0} /\ w \in Nat \ {0} /\ Len(leaves) <= w * s
  BY <1>5, LevelSize, SpanGrows
<1>8. k \div s = x
  BY <1>0, <1>6, <1>7, DivUnique
<1>9. x < w
  <2> SUFFICES ASSUME w <= x PROVE FALSE
    BY <1>6, <1>7
  <2>1. w * s <= x * s
    BY <1>6, <1>7, TimesGrows
  <2>2. w * s \in Nat /\ x * s \in Nat
    BY <1>6, <1>7
  <2> QED BY <1>0, <1>6, <1>7, <2>1, <2>2
<1> QED BY <1>5, <1>6, <1>7, <1>8, <1>9

\* The reference definition of a level's size agrees.
LEMMA WidthOfLevel ==
  ASSUME NEW S, NEW leaves \in Seq(S), leaves # <<>>, NEW l \in Nat
  PROVE  Width(Len(leaves), l) = Len(Levels(leaves)[l])
<1>1. PICK n, s, w : /\ n = Len(leaves) /\ s = Span[l]
                     /\ w = Len(Levels(leaves)[l])
  OBVIOUS
<1>2. /\ n \in Nat /\ s \in Nat \ {0} /\ w \in Nat \ {0}
      /\ (w - 1) * s < n /\ n <= w * s
  BY <1>1, LevelSize, SpanGrows
<1>3. (w - 1) * s = w * s - s /\ (w + 1) * s = w * s + s /\ w * s \in Nat
  BY <1>2
<1>4. PICK a : a = n + s - 1
  OBVIOUS
<1>5. a \in Nat /\ w * s <= a /\ a < (w + 1) * s
  BY <1>2, <1>3, <1>4
<1>6. a \div s = w
  BY <1>2, <1>5, DivUnique
<1> QED BY <1>1, <1>4, <1>6 DEF Width

-----------------------------------------------------------------------------
(* Hashes *)

LEMMA HashIsField ==
  ASSUME NEW x, NEW y
  PROVE  /\ hashPairMiMC(x, y).size = "field" /\ hashPairMiMC(x, y).id = 0
         /\ BytesToFieldElement(hashPairMiMC(x, y)) = hashPairMiMC(x, y)
  BY DEF hashPairMiMC, MiMC, BytesToFieldElement

LEMMA MiMCIsFree ==
  ASSUME NEW a, NEW b, NEW x, NEW y
  PROVE  MiMC(<<a, b>>) = MiMC(<<x, y>>) <=> a = x /\ b = y
<1>1. MiMC(<<a, b>>).of = <<a, b>> /\ MiMC(<<x, y>>).of = <<x, y>>
  BY DEF MiMC
<1>2. <<a, b>> = <<x, y>> <=> a = x /\ b = y
  OBVIOUS
<1> QED BY <1>1, <1>2

LEMMA HashOfFields ==
  ASSUME NEW x, NEW y, x.size = "field", y.size = "field"
  PROVE  hashPairMiMC(x, y) = MiMC(<<x, y>>)
<1>1. Written(x) = <<x>> /\ Written(y) = <<y>>
  BY DEF Written
<1>2. <<x>> \o <<y>> = <<x, y>>
  <2>1. <<x>> \in Seq({x, y}) /\ <<y>> \in Seq({x, y}) /\ <<x, y>> \in Seq({x, y})
    OBVIOUS
  <2>2. PICK c : c = <<x>> \o <<y>>
    OBVIOUS
  <2>3. c \in Seq({x, y}) /\ Len(c) = 2 /\ c[1] = x /\ c[2] = y
    BY <2>1, <2>2
  <2>4. \A i \in 1..Len(c) : c[i] = <<x, y>>[i]
    BY <2>3
  <2>5. c = <<x, y>>
    BY <2>1, <2>3, <2>4, SeqEqual
  <2> QED BY <2>2, <2>5
<1> QED BY <1>1, <1>2 DEF hashPairMiMC

\* What is hashed is no more than the two.
LEMMA HashOfOthers ==
  ASSUME NEW x, NEW y, NEW a, NEW b, MiMC(<<a, b>>) = hashPairMiMC(x, y)
  PROVE  x.size = "field" /\ y.size = "field" /\ a = x /\ b = y
<1>1. <<a, b>> = Written(x) \o Written(y)
  <2>1. MiMC(<<a, b>>).of = <<a, b>>
    BY DEF MiMC
  <2>2. hashPairMiMC(x, y).of = Written(x) \o Written(y)
    BY DEF MiMC, hashPairMiMC
  <2> QED BY <2>1, <2>2
<1>2. Len(Written(x) \o Written(y)) = 2
  <2>1. Len(<<a, b>>) = 2
    OBVIOUS
  <2> QED BY <1>1, <2>1
<1>3. /\ x.size # "field" => Written(x) = <<>>
      /\ y.size # "field" => Written(y) = <<>>
      /\ x.size = "field" => Written(x) = <<x>>
      /\ y.size = "field" => Written(y) = <<y>>
  BY DEF Written
<1>4. /\ Len(<<>> \o <<>>) = 0 /\ Len(<<x>> \o <<>>) = 1 /\ Len(<<>> \o <<y>>) = 1
  OBVIOUS
<1>5. x.size = "field" /\ y.size = "field"
  BY <1>2, <1>3, <1>4
<1>6. MiMC(<<a, b>>) = MiMC(<<x, y>>)
  BY <1>5, HashOfFields
<1> QED BY <1>5, <1>6, MiMCIsFree

\* Above the leaves every node is a hash.
LEMMA InnerNode ==
  ASSUME NEW S, NEW leaves \in Seq(S), NEW l \in Nat,
         NEW i \in 1..Len(Levels(leaves)[l + 1])
  PROVE  /\ Levels(leaves)[l + 1][i].size = "field"
         /\ Levels(leaves)[l + 1][i].id = 0
         /\ BytesToFieldElement(Levels(leaves)[l + 1][i]) = Levels(leaves)[l + 1][i]
<1>1. PICK x, y : Levels(leaves)[l + 1][i] = hashPairMiMC(x, y)
  <2>1. PICK here : here = Levels(leaves)[l]
    OBVIOUS
  <2>2. Levels(leaves)[l + 1][i] = hashPairMiMC(here[2 * i - 1],
          here[IF 2 * i <= Len(here) THEN 2 * i ELSE 2 * i - 1])
    BY <2>1, LevelAbove
  <2> QED BY <2>2
<1> QED BY <1>1, HashIsField

\* No level contains the first node of the next one: that would be a hash of
\* the first node of this level, and so on down to the leaves, none of which
\* is a hash.
LEMMA FirstAboveIsNew ==
  ASSUME NEW S, NEW leaves \in Seq(S), leaves # <<>>,
         \A i \in 1..Len(leaves) : leaves[i].id # 0,
         NEW l \in Nat
  PROVE  \A k \in 1..Len(Levels(leaves)[l]) :
           Levels(leaves)[l + 1][1] # Levels(leaves)[l][k]
<1> DEFINE level == Levels(leaves)
           I == {m \in Nat : \A k \in 1..Len(level[m]) :
                               level[m + 1][1] # level[m][k]}
<1>0. \A m \in Nat : 1 \in 1..Len(level[m]) /\ Len(level[m]) \in Nat
  <2> SUFFICES ASSUME NEW m \in Nat PROVE Len(level[m]) \in Nat \ {0}
    OBVIOUS
  <2> QED BY LevelSize
<1>1. 0 \in I
  <2>1. level[0] = leaves
    BY LevelStep
  <2>2. level[0 + 1][1].id = 0
    <3>1. 1 \in 1..Len(level[0 + 1])
      BY <1>0
    <3> QED BY <3>1, InnerNode
  <2> QED BY <2>1, <2>2
<1>2. ASSUME NEW m \in Nat, m \in I PROVE m + 1 \in I
  <2>1. SUFFICES ASSUME NEW k \in 1..Len(level[m + 1]),
                        level[m + 2][1] = level[m + 1][k]
                 PROVE  FALSE
    BY DEF level
  <2> HIDE DEF level
  <2>2. PICK h : /\ h \in 1..Len(level[m + 1])
                 /\ level[m + 2][1] = hashPairMiMC(level[m + 1][1], level[m + 1][h])
    <3>1. PICK n : n = m + 1 /\ n \in Nat /\ n + 1 = m + 2
      OBVIOUS
    <3>2. 1 \in 1..Len(level[n + 1]) /\ 1 \in 1..Len(level[n])
      BY <1>0, <3>1
    <3>3. level[n + 1][1] = hashPairMiMC(level[n][2 * 1 - 1],
                 level[n][IF 2 * 1 <= Len(level[n]) THEN 2 * 1 ELSE 2 * 1 - 1])
      BY <3>1, <3>2, LevelAbove DEF level
    <3>4. (IF 2 * 1 <= Len(level[n]) THEN 2 * 1 ELSE 2 * 1 - 1) \in 1..Len(level[n])
      BY <1>0, <3>1, <3>2
    <3> QED BY <3>1, <3>3, <3>4
  <2>3. level[m + 1][1].size = "field" /\ level[m + 1][h].size = "field"
    BY <1>0, <2>2, InnerNode DEF level
  <2>4. level[m + 2][1] = MiMC(<<level[m + 1][1], level[m + 1][h]>>)
    BY <2>2, <2>3, HashOfFields
  <2>5. PICK i, y : /\ i \in 1..Len(level[m])
                    /\ level[m + 1][k] = hashPairMiMC(level[m][i], y)
    <3>1. level[m + 1][k] = hashPairMiMC(level[m][2 * k - 1],
            level[m][IF 2 * k <= Len(level[m]) THEN 2 * k ELSE 2 * k - 1])
      BY <2>1, LevelAbove DEF level
    <3>2. 2 * k - 1 \in 1..Len(level[m])
      <4>1. Len(level[m]) \in Nat /\ k \in 1..Half(Len(level[m]))
        BY <1>0, <2>1, LevelAbove DEF level
      <4> QED BY <4>1, ChildIndex
    <3> QED BY <3>1, <3>2
  <2>6. level[m + 1][1] = level[m][i]
    <3>1. MiMC(<<level[m + 1][1], level[m + 1][h]>>) = hashPairMiMC(level[m][i], y)
      BY <2>1, <2>4, <2>5
    <3> QED BY <3>1, HashOfOthers
  <2> QED BY <1>2, <2>5, <2>6
<1> HIDE DEF I
<1>3. Nat \subseteq I
  BY <1>1, <1>2, SetInduction
<1> QED BY <1>3 DEF I

-----------------------------------------------------------------------------
(* The path *)

LEMMA NodeInTree ==
  ASSUME NEW S, NEW leaves \in Seq(S), leaves # <<>>, NEW k,
         NEW l \in Nat, l <= Depth[Len(leaves)],
         NEW i \in 1..Len(Levels(leaves)[l])
  PROVE  NewMerkleTree(leaves)[Cursor(Len(leaves), k)[l].start + i]
           = Levels(leaves)[l][i]
<1>1. PICK D : D = Depth[Len(leaves)] /\ D \in Nat
  BY DepthIsNat
<1>2. PICK at, tree : at = Cursor(Len(leaves), k) /\ tree = NewMerkleTree(leaves)
  OBVIOUS
<1>3. PICK d : d = D + 1 /\ Below(leaves, at, d, tree)
  BY <1>1, <1>2, TreeIsLevels
<1>4. l \in 0..d - 1
  BY <1>1, <1>3
<1>5. tree[at[l].start + i] = Levels(leaves)[l][i]
  BY <1>3, <1>4, BelowHas
<1> QED BY <1>2, <1>5

\* What stands beside the ancestor of each level on the path of a leaf: at the
\* leaves the leaf itself when there is no neighbour, above them the first
\* node of the next level.
Beside(leaves, at, l, step) ==
  LET x == at[l].index
      w == Len(Levels(leaves)[l])
  IN  /\ step.index = x % 2
      /\ x % 2 = 1 => step.sibling = Levels(leaves)[l][x]
      /\ x % 2 = 0 /\ x + 1 < w => step.sibling = Levels(leaves)[l][x + 2]
      /\ x % 2 = 0 /\ x + 1 = w =>
           step.sibling = IF l = 0 THEN Levels(leaves)[0][x + 1]
                                   ELSE Levels(leaves)[l + 1][1]

LEMMA SiblingOnPath ==
  ASSUME NEW S, NEW leaves \in Seq(S), leaves # <<>>,
         NEW k \in 0..Len(leaves) - 1, NEW l \in Nat, l < Depth[Len(leaves)]
  PROVE  Beside(leaves, Cursor(Len(leaves), k), l, GenerateProof(leaves, k)[l])
<1>0. PICK at, step, x, w :
        /\ at = Cursor(Len(leaves), k) /\ step = GenerateProof(leaves, k)[l]
        /\ x = at[l].index /\ w = Len(Levels(leaves)[l])
  OBVIOUS
<1>1. PICK D, tree : D = Depth[Len(leaves)] /\ tree = NewMerkleTree(leaves)
  OBVIOUS
<1>2. D \in Nat /\ l \in 0..D - 1 /\ l \in 0..D /\ l + 1 \in 0..D
  BY <1>1, DepthIsNat
<1>3. /\ step.index = x % 2
      /\ step.sibling = tree[at[l].start + SiblingIndex(at[l]) + 1]
  BY <1>0, <1>1, <1>2 DEF GenerateProof
<1>4. PICK start : start = at[l].start
  OBVIOUS
<1>5. /\ x \in Nat /\ w \in Nat \ {0} /\ x < w /\ start \in Nat /\ at[l].size = w
  <2>1. x \in 0..w - 1
    BY <1>0, CursorIndex
  <2>2. w \in Nat \ {0}
    BY <1>0, LevelSize
  <2>3. start \in Nat /\ at[l].size = w
    BY <1>0, <1>4, CursorSize
  <2> QED BY <2>1, <2>2, <2>3
<1>6. IF l = 0 THEN start = 0 ELSE start >= 1
  <2>1. CASE l = 0
    BY <1>0, <1>4, <2>1, CursorStep DEF CursorStart
  <2>2. CASE l # 0
    <3>1. PICK m : m \in Nat /\ l = m + 1
      <4>1. l - 1 \in Nat /\ l = l - 1 + 1
        BY <2>2
      <4> QED BY <4>1
    <3>2. at[m].size \in Nat \ {0} /\ at[m].start \in Nat
      <4>1. at[m].size = Len(Levels(leaves)[m]) /\ at[m].start \in Nat
        BY <1>0, <3>1, CursorSize
      <4> QED BY <3>1, <4>1, LevelSize
    <3>3. start = at[m].start + at[m].size
      <4>1. CursorMoves(at, m)
        BY <1>0, <3>1, CursorStep
      <4> QED BY <1>4, <3>1, <4>1 DEF CursorMoves
    <3> QED BY <2>2, <3>2, <3>3
  <2> QED BY <2>1, <2>2
<1>7. SiblingIndex(at[l]) = IF x % 2 = 1 THEN x - 1
                            ELSE IF l = 0 /\ x + 1 = w THEN x ELSE x + 1
  <2>1. PICK n : n = IF x % 2 = 0 THEN x + 1 ELSE x - 1
    OBVIOUS
  <2>2. SiblingIndex(at[l]) = IF n >= start + w THEN x ELSE n
    BY <1>0, <1>4, <1>5, <2>1 DEF SiblingIndex
  <2>3. CASE x % 2 = 1
    <3>1. n = x - 1 /\ ~(n >= start + w)
      BY <1>5, <2>1, <2>3
    <3> QED BY <2>2, <2>3, <3>1
  <2>4. CASE x % 2 = 0
    <3>1. n = x + 1 /\ (n >= start + w <=> l = 0 /\ x + 1 = w)
      BY <1>5, <1>6, <2>1, <2>4
    <3> QED BY <2>2, <2>4, <3>1
  <2> QED BY <1>5, <2>3, <2>4, Parity
<1>8. \A i \in 1..w : tree[start + i] = Levels(leaves)[l][i]
  <2>1. l <= Depth[Len(leaves)]
    BY <1>1, <1>2
  <2> QED BY <1>0, <1>1, <1>4, <2>1, NodeInTree
<1>9. tree[start + w + 1] = Levels(leaves)[l + 1][1]
  <2>1. PICK m : m = l + 1 /\ m \in Nat /\ m <= Depth[Len(leaves)]
    BY <1>1, <1>2
  <2>2. PICK v : v = Len(Levels(leaves)[m])
    OBVIOUS
  <2>3. v \in Nat \ {0}
    BY <2>1, <2>2, LevelSize
  <2>4. 1 \in 1..Len(Levels(leaves)[m])
    BY <2>2, <2>3
  <2>5. tree[at[m].start + 1] = Levels(leaves)[m][1]
    BY <1>0, <1>1, <2>1, <2>4, NodeInTree
  <2>6. CursorMoves(at, l)
    BY <1>0, CursorStep
  <2>7. at[m].start = start + w
    BY <1>4, <1>5, <2>1, <2>6 DEF CursorMoves
  <2> QED BY <2>1, <2>5, <2>7
<1>10. ASSUME x % 2 = 1 PROVE step.sibling = Levels(leaves)[l][x]
  <2>1. x \in 1..w /\ start + (x - 1) + 1 = start + x
    BY <1>5, <1>10
  <2>2. step.sibling = tree[start + (x - 1) + 1]
    BY <1>3, <1>4, <1>7, <1>10
  <2> QED BY <1>8, <2>1, <2>2
<1>11. ASSUME x % 2 = 0, x + 1 < w PROVE step.sibling = Levels(leaves)[l][x + 2]
  <2>1. x + 2 \in 1..w /\ start + (x + 1) + 1 = start + (x + 2)
    BY <1>5, <1>11
  <2>2. step.sibling = tree[start + (x + 1) + 1]
    BY <1>3, <1>4, <1>5, <1>7, <1>11
  <2> QED BY <1>8, <2>1, <2>2
<1>12. ASSUME x % 2 = 0, x + 1 = w
       PROVE  step.sibling = IF l = 0 THEN Levels(leaves)[0][x + 1]
                                      ELSE Levels(leaves)[l + 1][1]
  <2>1. CASE l = 0
    <3>1. x + 1 \in 1..w /\ start + x + 1 = start + (x + 1)
      BY <1>5
    <3>2. step.sibling = tree[start + x + 1]
      BY <1>3, <1>4, <1>7, <1>12, <2>1
    <3> QED BY <1>8, <2>1, <3>1, <3>2
  <2>2. CASE l # 0
    <3>1. step.sibling = tree[start + (x + 1) + 1]
      BY <1>3, <1>4, <1>7, <1>12, <2>2
    <3> QED BY <1>9, <1>12, <2>2, <3>1
  <2> QED BY <2>1, <2>2
<1> QED BY <1>0, <1>3, <1>10, <1>11, <1>12 DEF Beside

-----------------------------------------------------------------------------
(* The circuit along the path *)

\* The leaves of a task: numbered from 1, and none a hash.
LeavesOfTask(leaves) ==
  /\ leaves # <<>>
  /\ \A i \in 1..Len(leaves) : leaves[i].id # 0

\* The hash the circuit has folded up to level l is the ancestor of the leaf.
OnTrack(leaves, k, l) ==
  Folded(leaves[k + 1], GenerateProof(leaves, k))[l]
    = Levels(leaves)[l][Cursor(Len(leaves), k)[l].index + 1]

\* Level l ends in a node without a neighbour, which is the leaf's ancestor.
UnpairedAt(size, k, l) ==
  Width(size, l) % 2 = 1 /\ k \div Span[l] = Width(size, l) - 1

\* The two nodes the next ancestor is the hash of.
AncestorOf(leaves, at, l) ==
  LET x == at[l].index
      w == Len(Levels(leaves)[l])
      here == Levels(leaves)[l]
      above == Levels(leaves)[l + 1][at[l + 1].index + 1]
  IN  /\ x \in Nat /\ w \in Nat \ {0} /\ x < w
      /\ x % 2 = 0 => above = hashPairMiMC(here[x + 1],
                                here[IF x + 1 < w THEN x + 2 ELSE x + 1])
      /\ x % 2 = 1 => above = hashPairMiMC(here[x], here[x + 1])

LEMMA AncestorAbove ==
  ASSUME NEW S, NEW leaves \in Seq(S), leaves # <<>>,
         NEW k \in 0..Len(leaves) - 1, NEW l \in Nat
  PROVE  AncestorOf(leaves, Cursor(Len(leaves), k), l)
<1>0. PICK at, x, w : /\ at = Cursor(Len(leaves), k) /\ x = at[l].index
                      /\ w = Len(Levels(leaves)[l])
  OBVIOUS
<1>1. x \in Nat /\ w \in Nat \ {0} /\ x < w
  <2>1. x \in 0..w - 1
    BY <1>0, CursorIndex
  <2>2. w \in Nat \ {0}
    BY <1>0, LevelSize
  <2> QED BY <2>1, <2>2
<1>2. PICK y : y = at[l + 1].index
  OBVIOUS
<1>3. y = x \div 2
  BY <1>0, <1>2, CursorStep DEF CursorMoves
<1>4. y + 1 \in 1..Len(Levels(leaves)[l + 1])
  <2>1. PICK v : v = Len(Levels(leaves)[l + 1])
    OBVIOUS
  <2>2. v \in Nat \ {0}
    BY <2>1, LevelSize
  <2>3. y \in 0..v - 1
    BY <1>0, <1>2, <2>1, CursorIndex
  <2>4. y + 1 \in 1..v
    BY <2>2, <2>3
  <2> QED BY <2>1, <2>4
<1>5. PICK here : here = Levels(leaves)[l]
  OBVIOUS
<1>6. Levels(leaves)[l + 1][y + 1]
        = hashPairMiMC(here[2 * (y + 1) - 1],
                       here[IF 2 * (y + 1) <= w THEN 2 * (y + 1)
                                                ELSE 2 * (y + 1) - 1])
  BY <1>0, <1>4, <1>5, LevelAbove
<1>7. ASSUME x % 2 = 0
      PROVE  2 * (y + 1) - 1 = x + 1 /\ 2 * (y + 1) = x + 2
             /\ (2 * (y + 1) <= w <=> x + 1 < w)
  BY <1>1, <1>3, <1>7, Parity
<1>8. ASSUME x % 2 = 1
      PROVE  2 * (y + 1) - 1 = x /\ 2 * (y + 1) = x + 1 /\ 2 * (y + 1) <= w
  BY <1>1, <1>3, <1>8, Parity
<1>9. ASSUME x % 2 = 0
      PROVE  Levels(leaves)[l + 1][y + 1]
               = hashPairMiMC(here[x + 1], here[IF x + 1 < w THEN x + 2 ELSE x + 1])
  BY <1>6, <1>7, <1>9
<1>10. ASSUME x % 2 = 1
       PROVE  Levels(leaves)[l + 1][y + 1] = hashPairMiMC(here[x], here[x + 1])
  BY <1>6, <1>8, <1>10
<1> QED BY <1>0, <1>1, <1>2, <1>5, <1>9, <1>10 DEF AncestorOf

\* Above the leaves the circuit stays on track exactly where the ancestor has
\* a neighbour.
LEMMA OnTrackAbove ==
  ASSUME NEW S, NEW leaves \in Seq(S), LeavesOfTask(leaves),
         NEW k \in 0..Len(leaves) - 1,
         NEW l \in Nat, l # 0, l < Depth[Len(leaves)]
  PROVE  OnTrack(leaves, k, l + 1)
           <=> OnTrack(leaves, k, l) /\ ~UnpairedAt(Len(leaves), k, l)
<1>1. PICK at : at = Cursor(Len(leaves), k)
  OBVIOUS
<1>2. PICK x, w, path, step :
        /\ x = at[l].index /\ w = Len(Levels(leaves)[l])
        /\ path = GenerateProof(leaves, k) /\ step = path[l]
  OBVIOUS
<1>3. PICK hash, level :
        hash = Folded(leaves[k + 1], path) /\ level = Levels(leaves)
  OBVIOUS
<1>4. leaves # <<>>
  BY DEF LeavesOfTask
<1>15. Beside(leaves, at, l, step) /\ AncestorOf(leaves, at, l)
  BY <1>1, <1>2, <1>4, SiblingOnPath, AncestorAbove
<1>5. x \in Nat /\ w \in Nat \ {0} /\ x < w
  BY <1>2, <1>15 DEF AncestorOf
<1>6. UnpairedAt(Len(leaves), k, l) <=> w % 2 = 1 /\ x = w - 1
  BY <1>1, <1>2, <1>4, WidthOfLevel, CursorIndex DEF UnpairedAt
<1>7. hash[l + 1] = MiMC(IF step.index = 1
                         THEN <<BytesToFieldElement(step.sibling), hash[l]>>
                         ELSE <<hash[l], BytesToFieldElement(step.sibling)>>)
  BY <1>2, <1>3, FoldedStep DEF Folds
<1>8. PICK y : y = at[l + 1].index
  OBVIOUS
<1>9. /\ OnTrack(leaves, k, l + 1) <=> hash[l + 1] = level[l + 1][y + 1]
      /\ OnTrack(leaves, k, l) <=> hash[l] = level[l][x + 1]
  BY <1>1, <1>2, <1>3, <1>8 DEF OnTrack
<1>10. \A i \in 1..w : /\ level[l][i].size = "field"
                       /\ BytesToFieldElement(level[l][i]) = level[l][i]
  <2>1. PICK m : m \in Nat /\ l = m + 1
    <3>1. l - 1 \in Nat /\ l = l - 1 + 1
      OBVIOUS
    <3> QED BY <3>1
  <2>2. ASSUME NEW i \in 1..w
        PROVE  /\ level[l][i].size = "field"
               /\ BytesToFieldElement(level[l][i]) = level[l][i]
    <3>1. i \in 1..Len(Levels(leaves)[m + 1])
      BY <1>2, <2>1
    <3>2. /\ Levels(leaves)[m + 1][i].size = "field"
          /\ BytesToFieldElement(Levels(leaves)[m + 1][i]) = Levels(leaves)[m + 1][i]
      BY <2>1, <3>1, InnerNode
    <3> QED BY <1>3, <2>1, <3>2
  <2> QED BY <2>2
<1>11. /\ level[l + 1][1].size = "field"
       /\ BytesToFieldElement(level[l + 1][1]) = level[l + 1][1]
  <2>1. PICK v : v = Len(level[l + 1])
    OBVIOUS
  <2>2. v \in Nat \ {0}
    BY <1>3, <1>4, <2>1, LevelSize
  <2>3. 1 \in 1..Len(level[l + 1])
    BY <2>1, <2>2
  <2> QED BY <1>3, <2>3, InnerNode
<1>12. CASE x % 2 = 1
  <2>1. x \in 1..w /\ x + 1 \in 1..w /\ ~(w % 2 = 1 /\ x = w - 1)
    BY <1>5, <1>12
  <2>2. step.index = 1 /\ step.sibling = level[l][x]
    BY <1>2, <1>3, <1>5, <1>15, <1>12 DEF Beside
  <2>3. hash[l + 1] = MiMC(<<level[l][x], hash[l]>>)
    BY <1>7, <1>10, <2>1, <2>2
  <2>4. level[l + 1][y + 1] = hashPairMiMC(level[l][x], level[l][x + 1])
    BY <1>2, <1>3, <1>5, <1>8, <1>15, <1>12 DEF AncestorOf
  <2>5. level[l + 1][y + 1] = MiMC(<<level[l][x], level[l][x + 1]>>)
    BY <1>10, <2>1, <2>4, HashOfFields
  <2> QED BY <1>6, <1>9, <2>1, <2>3, <2>5, MiMCIsFree
<1>13. CASE x % 2 = 0 /\ x + 1 < w
  <2>1. x + 1 \in 1..w /\ x + 2 \in 1..w /\ ~(w % 2 = 1 /\ x = w - 1)
    BY <1>5, <1>13
  <2>2. step.index = 0 /\ step.sibling = level[l][x + 2]
    <3>1. step.index = 0
      BY <1>2, <1>15, <1>13 DEF Beside
    <3>2. step.sibling = level[l][x + 2]
      BY <1>2, <1>3, <1>15, <1>13 DEF Beside
    <3> QED BY <3>1, <3>2
  <2>3. hash[l + 1] = MiMC(<<hash[l], level[l][x + 2]>>)
    BY <1>7, <1>10, <2>1, <2>2
  <2>4. level[l + 1][y + 1] = hashPairMiMC(level[l][x + 1], level[l][x + 2])
    BY <1>2, <1>3, <1>5, <1>8, <1>15, <1>13 DEF AncestorOf
  <2>5. level[l + 1][y + 1] = MiMC(<<level[l][x + 1], level[l][x + 2]>>)
    BY <1>10, <2>1, <2>4, HashOfFields
  <2> QED BY <1>6, <1>9, <2>1, <2>3, <2>5, MiMCIsFree
<1>14. CASE x % 2 = 0 /\ x + 1 = w
  <2>1. x + 1 \in 1..w /\ w % 2 = 1 /\ x = w - 1
    BY <1>5, <1>14
  <2>2. step.index = 0 /\ step.sibling = level[l + 1][1]
    <3>1. step.index = 0
      BY <1>2, <1>15, <1>14 DEF Beside
    <3>2. step.sibling = level[l + 1][1]
      BY <1>2, <1>3, <1>15, <1>14 DEF Beside
    <3> QED BY <3>1, <3>2
  <2>3. hash[l + 1] = MiMC(<<hash[l], level[l + 1][1]>>)
    BY <1>7, <1>11, <2>2
  <2>4. level[l + 1][y + 1] = hashPairMiMC(level[l][x + 1], level[l][x + 1])
    BY <1>2, <1>3, <1>5, <1>8, <1>15, <1>14 DEF AncestorOf
  <2>5. level[l + 1][y + 1] = MiMC(<<level[l][x + 1], level[l][x + 1]>>)
    BY <1>10, <2>1, <2>4, HashOfFields
  <2>6. level[l + 1][1] # level[l][x + 1]
    BY <1>2, <1>3, <2>1, FirstAboveIsNew DEF LeavesOfTask
  <2> QED BY <1>6, <1>9, <2>1, <2>3, <2>5, <2>6, MiMCIsFree
<1> QED BY <1>5, <1>12, <1>13, <1>14, Parity

\* The numbers of a leaf and its neighbour.
LEMMA PairOf ==
  ASSUME NEW k \in Nat, NEW i \in Nat \ {0}
  PROVE  /\ k % 2 = 1 => ((i - 1) \div 2 = k \div 2 <=> i = k \/ i = k + 1)
         /\ k % 2 = 0 => ((i - 1) \div 2 = k \div 2 <=> i = k + 1 \/ i = k + 2)
<1>1. PICK h, g, j : h = k \div 2 /\ j = i - 1 /\ g = j \div 2
  OBVIOUS
<1>2. /\ j \in Nat /\ h \in Nat /\ g \in Nat
      /\ j = 2 * g \/ j = 2 * g + 1
      /\ k % 2 = 0 => k = 2 * h
      /\ k % 2 = 1 => k = 2 * h + 1
  <2>1. j \in Nat
    BY <1>1
  <2> QED BY <1>1, <2>1, Parity
<1>3. i = j + 1
  BY <1>1
<1>4. g = h <=> j = 2 * h \/ j = 2 * h + 1
  BY <1>2
<1>5. CASE k % 2 = 1
  BY <1>1, <1>2, <1>3, <1>4, <1>5
<1>6. CASE k % 2 = 0
  BY <1>1, <1>2, <1>3, <1>4, <1>6
<1> QED BY <1>5, <1>6, Parity

\* At the leaves it does if the leaf and the one it is hashed with are field
\* elements: reduction changes a bigger number, and the hasher drops it.
LEMMA OnTrackFirst ==
  ASSUME NEW S, NEW leaves \in Seq(S), LeavesOfTask(leaves),
         NEW k \in 0..Len(leaves) - 1, 0 < Depth[Len(leaves)]
  PROVE  OnTrack(leaves, k, 1) <=> PairInField(leaves, k)
<1>1. PICK at : at = Cursor(Len(leaves), k)
  OBVIOUS
<1>2. PICK n, path, step :
        n = Len(leaves) /\ path = GenerateProof(leaves, k) /\ step = path[0]
  OBVIOUS
<1>3. PICK hash, level, y :
        /\ hash = Folded(leaves[k + 1], path) /\ level = Levels(leaves)
        /\ y = at[1].index
  OBVIOUS
<1>4. leaves # <<>>
  BY DEF LeavesOfTask
<1>5. level[0] = leaves /\ n = Len(level[0]) /\ at[0].index = k
  <2>1. level[0] = leaves
    BY <1>3, LevelStep
  <2>2. CursorStart(at, Len(leaves), k)
    BY <1>1, CursorStep
  <2> QED BY <1>2, <2>1, <2>2 DEF CursorStart
<1>6. Beside(leaves, at, 0, step) /\ AncestorOf(leaves, at, 0)
  BY <1>1, <1>2, <1>4, SiblingOnPath, AncestorAbove
<1>7. k \in Nat /\ n \in Nat \ {0} /\ k < n
  BY <1>3, <1>5, <1>6 DEF AncestorOf
<1>8. /\ hash[0] = BytesToFieldElement(leaves[k + 1])
      /\ hash[1] = MiMC(IF step.index = 1
                        THEN <<BytesToFieldElement(step.sibling), hash[0]>>
                        ELSE <<hash[0], BytesToFieldElement(step.sibling)>>)
  <2>1. hash[0] = BytesToFieldElement(leaves[k + 1]) /\ Folds(hash, path, 0)
    BY <1>3, FoldedStep
  <2>2. 0 + 1 = 1
    OBVIOUS
  <2> QED BY <1>2, <2>1, <2>2 DEF Folds
<1>9. OnTrack(leaves, k, 1) <=> hash[1] = level[1][y + 1]
  BY <1>1, <1>2, <1>3 DEF OnTrack
<1>10. ASSUME NEW a \in 1..n, NEW b \in 1..n,
              hash[1] = MiMC(<<BytesToFieldElement(leaves[a]),
                               BytesToFieldElement(leaves[b])>>),
              level[1][y + 1] = hashPairMiMC(leaves[a], leaves[b]),
              \A i \in 1..n : (i - 1) \div 2 = k \div 2 <=> i = a \/ i = b
       PROVE  OnTrack(leaves, k, 1) <=> PairInField(leaves, k)
  <2>1. PairInField(leaves, k) <=> leaves[a].size = "field" /\ leaves[b].size = "field"
    <3>1. DOMAIN leaves = 1..n
      BY <1>2
    <3> QED BY <1>10, <3>1 DEF PairInField
  <2>2. ASSUME leaves[a].size = "field", leaves[b].size = "field"
        PROVE  hash[1] = level[1][y + 1]
    <3>1. /\ BytesToFieldElement(leaves[a]) = leaves[a]
          /\ BytesToFieldElement(leaves[b]) = leaves[b]
      BY <2>2 DEF BytesToFieldElement
    <3> QED BY <1>10, <2>2, <3>1, HashOfFields
  <2>3. ASSUME hash[1] = level[1][y + 1]
        PROVE  leaves[a].size = "field" /\ leaves[b].size = "field"
    <3>1. MiMC(<<BytesToFieldElement(leaves[a]), BytesToFieldElement(leaves[b])>>)
            = hashPairMiMC(leaves[a], leaves[b])
      BY <1>10, <2>3
    <3> QED BY <3>1, HashOfOthers
  <2> QED BY <1>9, <2>1, <2>2, <2>3
<1>11. CASE k % 2 = 1
  <2>1. k \in 1..n /\ k + 1 \in 1..n
    BY <1>7, <1>11
  <2>2. step.index = 1 /\ step.sibling = leaves[k]
    BY <1>3, <1>5, <1>6, <1>11 DEF Beside
  <2>3. hash[1] = MiMC(<<BytesToFieldElement(leaves[k]),
                         BytesToFieldElement(leaves[k + 1])>>)
    BY <1>8, <2>2
  <2>4. level[1][y + 1] = hashPairMiMC(leaves[k], leaves[k + 1])
    <3>1. level[0 + 1][at[0 + 1].index + 1] = hashPairMiMC(leaves[k], leaves[k + 1])
      BY <1>3, <1>5, <1>6, <1>11 DEF AncestorOf
    <3>2. 0 + 1 = 1
      OBVIOUS
    <3> QED BY <1>3, <3>1, <3>2
  <2>5. \A i \in 1..n : (i - 1) \div 2 = k \div 2 <=> i = k \/ i = k + 1
    BY <1>7, <1>11, PairOf
  <2> QED BY <1>10, <2>1, <2>3, <2>4, <2>5
<1>12. CASE k % 2 = 0
  <2>1. PICK b : b = IF k + 1 < n THEN k + 2 ELSE k + 1
    OBVIOUS
  <2>2. k + 1 \in 1..n /\ b \in 1..n
    BY <1>7, <2>1
  <2>3. step.index = 0
    BY <1>5, <1>6, <1>12 DEF Beside
  <2>6. step.sibling = leaves[b]
    <3>1. CASE k + 1 < n
      BY <1>3, <1>5, <1>6, <1>12, <2>1, <3>1 DEF Beside
    <3>2. CASE k + 1 = n
      BY <1>3, <1>5, <1>6, <1>7, <1>12, <2>1, <3>2 DEF Beside
    <3> QED BY <1>7, <3>1, <3>2
  <2>4. hash[1] = MiMC(<<BytesToFieldElement(leaves[k + 1]),
                         BytesToFieldElement(leaves[b])>>)
    BY <1>8, <2>3, <2>6
  <2>5. level[1][y + 1] = hashPairMiMC(leaves[k + 1], leaves[b])
    <3>1. level[0 + 1][at[0 + 1].index + 1] = hashPairMiMC(leaves[k + 1], leaves[b])
      BY <1>3, <1>5, <1>6, <1>12, <2>1 DEF AncestorOf
    <3>2. 0 + 1 = 1
      OBVIOUS
    <3> QED BY <1>3, <3>1, <3>2
  <2>7. \A i \in 1..n : (i - 1) \div 2 = k \div 2 <=> i = k + 1 \/ i = b
    BY <1>7, <1>12, <2>1, PairOf
  <2> QED BY <1>10, <2>2, <2>4, <2>5, <2>7
<1> QED BY <1>7, <1>11, <1>12, Parity

\* Which valid input is proved.
LEMMA ProvesExactly ==
  ASSUME NEW S, NEW leaves \in Seq(S), LeavesOfTask(leaves),
         NEW k \in 0..Len(leaves) - 1
  PROVE  Proves(leaves, k)
           <=> /\ ~HasUnpairedAncestor(Len(leaves), k)
               /\ Len(leaves) = 1 \/ PairInField(leaves, k)
<1>1. PICK D, at, path : /\ D = Depth[Len(leaves)] /\ D \in Nat
                         /\ at = Cursor(Len(leaves), k)
                         /\ path = GenerateProof(leaves, k)
  BY DepthIsNat
<1>2. leaves # <<>> /\ Len(leaves) \in Nat \ {0}
  BY DEF LeavesOfTask
<1>3. PICK root : root = Last(NewMerkleTree(leaves)) /\ root = Levels(leaves)[D][1]
  BY <1>1, <1>2, RootIsTop
<1>4. Proves(leaves, k)
        <=> Folded(leaves[k + 1], path)[D] = BytesToFieldElement(root)
  BY <1>1, <1>3 DEF Proves, Satisfied
<1>5. HasUnpairedAncestor(Len(leaves), k)
        <=> \E l \in 1..D - 1 : UnpairedAt(Len(leaves), k, l)
  BY <1>1 DEF HasUnpairedAncestor, UnpairedAt
<1>6. CASE D = 0
  <2>1. Len(leaves) = 1
    <3>1. Levels(leaves)[0] = leaves /\ Len(Levels(leaves)[D]) = 1
      BY <1>1, <1>2, LevelStep, TopLevel
    <3> QED BY <1>6, <3>1
  <2>2. k = 0
    BY <2>1
  <2>3. root = leaves[k + 1]
    BY <1>3, <1>6, <2>2, LevelStep
  <2>4. Folded(leaves[k + 1], path)[D] = BytesToFieldElement(root)
    BY <1>6, <2>3, FoldedStep
  <2>5. ~\E l \in 1..D - 1 : UnpairedAt(Len(leaves), k, l)
    BY <1>6
  <2> QED BY <1>4, <1>5, <2>1, <2>4, <2>5
<1>7. CASE D # 0
  <2>1. Len(leaves) # 1
    <3>1. Levels(leaves)[0] = leaves
      BY LevelStep
    <3>2. 0 \in Nat /\ 0 < Depth[Len(leaves)]
      BY <1>1, <1>7
    <3>3. Len(Levels(leaves)[0]) > 1
      BY <1>2, <3>2, TopLevel
    <3>4. Len(leaves) > 1
      BY <3>1, <3>3
    <3>5. \A x \in Nat : x > 1 => x # 1
      OBVIOUS
    <3> QED BY <1>2, <3>4, <3>5, Zenon
  <2>2. Proves(leaves, k) <=> OnTrack(leaves, k, D)
    <3>1. at[D].index = 0
      <4>1. at[D].index \in 0..Len(Levels(leaves)[D]) - 1
        BY <1>1, <1>2, CursorIndex
      <4>2. Len(Levels(leaves)[D]) = 1
        BY <1>1, <1>2, TopLevel
      <4> QED BY <4>1, <4>2
    <3>2. BytesToFieldElement(root) = root
      <4>1. PICK m : m \in Nat /\ D = m + 1
        <5>1. D - 1 \in Nat /\ D = D - 1 + 1
          BY <1>1, <1>7
        <5> QED BY <5>1
      <4>2. 1 \in 1..Len(Levels(leaves)[m + 1])
        <5>1. Len(Levels(leaves)[D]) = 1
          BY <1>1, <1>2, TopLevel
        <5> QED BY <4>1, <5>1
      <4> QED BY <1>3, <4>1, <4>2, InnerNode
    <3>3. OnTrack(leaves, k, D)
            <=> Folded(leaves[k + 1], path)[D] = Levels(leaves)[D][0 + 1]
      BY <1>1, <3>1 DEF OnTrack
    <3> QED BY <1>3, <1>4, <3>2, <3>3
  <2> DEFINE Clear(l) == \A m \in 1..l - 1 : ~UnpairedAt(Len(leaves), k, m)
             I == {l \in Nat : l # 0 /\ l <= D =>
                     (OnTrack(leaves, k, l) <=> PairInField(leaves, k) /\ Clear(l))}
  <2>3. 0 \in I
    OBVIOUS
  <2>4. ASSUME NEW l \in Nat, l \in I PROVE l + 1 \in I
    <3>1. SUFFICES ASSUME l + 1 <= D
                   PROVE  OnTrack(leaves, k, l + 1)
                            <=> PairInField(leaves, k) /\ Clear(l + 1)
      OBVIOUS
    <3>2. CASE l = 0
      <4>1. Clear(l + 1)
        BY <3>2
      <4>2. OnTrack(leaves, k, 1) <=> PairInField(leaves, k)
        BY <1>1, <1>7, OnTrackFirst
      <4> QED BY <3>2, <4>1, <4>2
    <3>3. CASE l # 0
      <4>1. OnTrack(leaves, k, l) <=> PairInField(leaves, k) /\ Clear(l)
        BY <1>1, <2>4, <3>1, <3>3
      <4>2. OnTrack(leaves, k, l + 1)
              <=> OnTrack(leaves, k, l) /\ ~UnpairedAt(Len(leaves), k, l)
        BY <1>1, <3>1, <3>3, OnTrackAbove
      <4>3. 1..l + 1 - 1 = (1..l - 1) \cup {l}
        BY <3>3
      <4>4. Clear(l + 1) <=> Clear(l) /\ ~UnpairedAt(Len(leaves), k, l)
        BY <4>3
      <4> QED BY <4>1, <4>2, <4>4
    <3> QED BY <3>2, <3>3
  <2> HIDE DEF I
  <2>5. Nat \subseteq I
    BY <2>3, <2>4, SetInduction
  <2>6. OnTrack(leaves, k, D) <=> PairInField(leaves, k) /\ Clear(D)
    BY <1>1, <1>7, <2>5 DEF I
  <2> QED BY <1>5, <2>1, <2>2, <2>6
<1> QED BY <1>6, <1>7

-----------------------------------------------------------------------------
(* The goroutines and the cache *)

\* A key pair in the cache was drawn for the depth it is found under.
CachedFits ==
  \A k \in Key : compiled[k] # 0 =>
    compiled[k] \in DOMAIN setups /\ setups[compiled[k]] = k

\* Whoever is about to compile or to store does it for an empty entry.
EntryStillEmpty ==
  \A p \in Proc : pc[p] \in {"compile", "store"} => compiled[KeyOf(p)] = 0

StoresFitting ==
  \A p \in Proc : pc[p] = "store" =>
    keys[p] \in DOMAIN setups /\ setups[keys[p]] = KeyOf(p)

ProvesWithCached ==
  \A p \in Proc : pc[p] = "prove" => keys[p] = compiled[KeyOf(p)] /\ keys[p] # 0

ProvedWithCached ==
  \A t \in Task : outcome[t] = "proved" =>
    /\ input[t] \in Input
    /\ madeWith[t] = compiled[CacheKey(input[t])] /\ madeWith[t] # 0

\* The inductive invariant.
ProverInv ==
  /\ TypeOK
  /\ CachedFits
  /\ EntryStillEmpty
  /\ StoresFitting
  /\ ProvesWithCached
  /\ ProvedWithCached

USE ProverAssumption

LEMMA KeyOfInput ==
  \A i \in Input : CacheKey(i) \in Key /\ CacheKey(i) = Depth[i.leaves]
  BY DEF Key, CacheKey

\* A task that waits has no leaves, and every task that is taken has some.
LEMMA NoInputIsNone == NoInput \notin Input
<1> SUFFICES ASSUME NoInput \in Input PROVE FALSE
  OBVIOUS
<1>1. \A i \in Input : i.leaves \in 1..MaxLeaves
  BY DEF Input
<1> QED BY <1>1 DEF NoInput

LEMMA InitProverInv == Init => ProverInv
<1> SUFFICES ASSUME Init PROVE ProverInv
  OBVIOUS
<1>1. setups \in Seq(Key) /\ compiled \in [Key -> Nat]
  BY DEF Init
<1>2. TypeOK
  BY <1>1 DEF Init, TypeOK, Outcome
<1> QED BY <1>2 DEF Init, ProverInv, CachedFits, EntryStillEmpty,
             StoresFitting, ProvesWithCached, ProvedWithCached

\* Where a goroutine with a task is, the task's entry is one of the cache.
LEMMA WorkingKey ==
  ASSUME TypeOK, NEW p \in Proc, pc[p] # "idle"
  PROVE  /\ job[p] \in Task /\ input[job[p]] \in Input
         /\ KeyOf(p) \in Key /\ KeyOf(p) = Depth[input[job[p]].leaves]
         /\ compiled[KeyOf(p)] \in Nat
<1>1. job[p] \in Task /\ input[job[p]] \in Input
  BY DEF TypeOK
<1>2. KeyOf(p) \in Key /\ KeyOf(p) = Depth[input[job[p]].leaves]
  BY <1>1, KeyOfInput DEF KeyOf
<1> QED BY <1>1, <1>2 DEF TypeOK

\* A goroutine that ends its task ends up idle, without the mutex, and the
\* others stay put.
LEMMA FinishTypes ==
  ASSUME TypeOK, NEW p \in Proc, NEW r \in Outcome, pc[p] # "idle",
         Finish(p, r), UNCHANGED <<input, compiled>>,
         mutex' = (IF mutex = p THEN NoProc ELSE mutex),
         madeWith' \in [Task -> Nat], setups' \in Seq(Key), crashed' \in BOOLEAN
  PROVE  TypeOK'
<1>1. outcome' \in [Task -> Outcome] /\ keys' \in [Proc -> Nat]
  BY DEF TypeOK, Finish
<1>2. job' \in [Proc -> Task \cup {NoTask}] /\ pc' = [pc EXCEPT ![p] = "idle"]
  BY DEF TypeOK, Finish, GoTo
<1>4. ASSUME NEW q \in Proc
      PROVE  mutex' = q <=> pc'[q] \in {"recheck", "compile", "store"}
  <2>1. CASE q = p
    BY <1>2, <2>1 DEF TypeOK
  <2>2. CASE q # p
    BY <1>2, <2>2 DEF TypeOK
  <2> QED BY <2>1, <2>2
<1>5. mutex' \in Proc \cup {NoProc}
  BY DEF TypeOK
<1>3. ASSUME NEW q \in Proc, pc'[q] # "idle"
      PROVE  job'[q] \in Task /\ input'[job'[q]] \in Input
  <2>1. q # p /\ pc'[q] = pc[q] /\ job'[q] = job[q]
    BY <1>3 DEF TypeOK, Finish, GoTo
  <2> QED BY <1>3, <2>1 DEF TypeOK
<1> QED BY <1>1, <1>2, <1>3, <1>4, <1>5 DEF TypeOK

LEMMA ProverTypes == TypeOK /\ [Next]_vars => TypeOK'
<1> SUFFICES ASSUME TypeOK, [Next]_vars PROVE TypeOK'
  OBVIOUS
<1> USE DEF At, GoTo, taskVars, cacheVars
<1>1. ASSUME NEW p \in Proc, NEW t \in Task, Take(p, t) PROVE TypeOK'
  <2>1. PICK i \in Input : input' = [input EXCEPT ![t] = i]
    BY <1>1 DEF Take
  <2>2. input' \in [Task -> Input \cup {NoInput}]
    BY <2>1 DEF TypeOK
  <2>3. ASSUME NEW q \in Proc, pc'[q] # "idle"
        PROVE  job'[q] \in Task /\ input'[job'[q]] \in Input
    <3>1. CASE q = p
      BY <1>1, <2>1, <3>1 DEF Take, TypeOK
    <3>2. CASE q # p
      BY <1>1, <2>1, <2>3, <3>2 DEF Take, TypeOK
    <3> QED BY <3>1, <3>2
  <2> QED BY <1>1, <2>2, <2>3 DEF Take, TypeOK
<1>2. ASSUME NEW p \in Proc, ParseMerkleProofTask(p) PROVE TypeOK'
  <2>1. mutex # p /\ pc[p] # "idle"
    BY <1>2 DEF ParseMerkleProofTask, TypeOK
  <2>2. CASE Finish(p, "invalid") /\ UNCHANGED crashed
    <3>1. madeWith' \in [Task -> Nat] /\ setups' \in Seq(Key) /\ crashed' \in BOOLEAN
      BY <1>2, <2>2 DEF ParseMerkleProofTask, TypeOK
    <3> QED BY <1>2, <2>1, <2>2, <3>1, FinishTypes
            DEF ParseMerkleProofTask, Outcome
  <2>3. CASE ~(Finish(p, "invalid") /\ UNCHANGED crashed)
    BY <1>2, <2>3 DEF ParseMerkleProofTask, TypeOK
  <2> QED BY <2>2, <2>3
<1>3. ASSUME NEW p \in Proc, LoadCircuit(p) PROVE TypeOK'
  BY <1>3, WorkingKey DEF LoadCircuit, TypeOK
<1>4. ASSUME NEW p \in Proc, Lock(p) PROVE TypeOK'
  BY <1>4 DEF Lock, TypeOK
<1>5. ASSUME NEW p \in Proc, Recheck(p) PROVE TypeOK'
  BY <1>5, WorkingKey DEF Recheck, TypeOK
<1>6. ASSUME NEW p \in Proc, Compile(p) PROVE TypeOK'
  <2>1. mutex = p /\ pc[p] # "idle"
    BY <1>6 DEF Compile, TypeOK
  <2>2. CASE Finish(p, "setupFailed") /\ mutex' = NoProc /\ UNCHANGED setups
    <3>1. madeWith' \in [Task -> Nat] /\ setups' \in Seq(Key) /\ crashed' \in BOOLEAN
      BY <1>6, <2>2 DEF Compile, TypeOK
    <3> QED BY <1>6, <2>1, <2>2, <3>1, FinishTypes DEF Compile, Outcome
  <2>3. CASE ~(Finish(p, "setupFailed") /\ mutex' = NoProc /\ UNCHANGED setups)
    <3>1. setups' = Append(setups, KeyOf(p)) /\ KeyOf(p) \in Key
      BY <1>6, <2>1, <2>3, WorkingKey DEF Compile
    <3>2. setups' \in Seq(Key) /\ Len(setups) + 1 \in Nat
      BY <3>1 DEF TypeOK
    <3>3. /\ pc' = [pc EXCEPT ![p] = "store"]
          /\ keys' = [keys EXCEPT ![p] = Len(setups) + 1]
          /\ UNCHANGED <<input, madeWith, compiled, crashed, outcome, job, mutex>>
      BY <1>6, <2>3 DEF Compile
    <3> HIDE DEF GoTo, At
    <3> QED BY <2>1, <3>2, <3>3 DEF TypeOK
  <2> QED BY <2>2, <2>3
<1>7. ASSUME NEW p \in Proc, Store(p) PROVE TypeOK'
  BY <1>7, WorkingKey DEF Store, TypeOK
<1>8. ASSUME NEW p \in Proc, Prove(p) PROVE TypeOK'
  <2>1. mutex # p /\ pc[p] # "idle"
    BY <1>8 DEF Prove, TypeOK
  <2>2. madeWith' \in [Task -> Nat] /\ setups' \in Seq(Key) /\ crashed' \in BOOLEAN
    <3>1. keys[p] \in Nat /\ madeWith \in [Task -> Nat]
      BY <1>8 DEF TypeOK
    <3>2. madeWith' = madeWith \/ madeWith' = [madeWith EXCEPT ![job[p]] = keys[p]]
      BY <1>8 DEF Prove
    <3>3. madeWith' \in [Task -> Nat]
      BY <3>1, <3>2
    <3>4. setups' = setups /\ crashed' = crashed
      BY <1>8 DEF Prove
    <3> QED BY <3>3, <3>4 DEF TypeOK
  <2>3. PICK r \in {"proved", "unsatisfied"} : Finish(p, r)
    BY <1>8 DEF Prove
  <2> QED BY <1>8, <2>1, <2>2, <2>3, FinishTypes DEF Prove, Outcome
<1>9. CASE UNCHANGED vars
  BY <1>9 DEF vars, TypeOK
<1> QED BY <1>1, <1>2, <1>3, <1>4, <1>5, <1>6, <1>7, <1>8, <1>9 DEF Next, Step

\* The state keeps its type, and the mutex is held by the goroutine that is
\* between getOrCompileCircuit's Lock and its deferred Unlock, and by no other.
THEOREM ProverTypeOK == Spec => []TypeOK
<1>1. Init => TypeOK
  BY InitProverInv DEF ProverInv
<1> QED BY <1>1, ProverTypes, PTL DEF Spec

-----------------------------------------------------------------------------
\* A step that writes no entry and after which its goroutine is about neither
\* to compile nor to prove disturbs nothing.
LEMMA CacheStays ==
  ASSUME ProverInv, TypeOK', UNCHANGED <<compiled, setups>>, NEW p \in Proc,
         pc'[p] \in {"idle", "parse", "load", "lock", "recheck"},
         \A q \in Proc \ {p} :
           /\ pc'[q] = pc[q] /\ keys'[q] = keys[q] /\ job'[q] = job[q],
         \A t \in Task : input[t] \in Input => input'[t] = input[t],
         \A t \in Task : outcome'[t] = "proved" =>
           outcome[t] = "proved" /\ madeWith'[t] = madeWith[t]
  PROVE  ProverInv'
<1>1. \A q \in Proc \ {p} : pc[q] # "idle" => KeyOf(q)' = KeyOf(q)
  BY DEF ProverInv, TypeOK, KeyOf
<1>2. CachedFits' /\ ProvedWithCached'
  BY DEF ProverInv, CachedFits, ProvedWithCached, TypeOK
<1>3. EntryStillEmpty' /\ StoresFitting' /\ ProvesWithCached'
  BY <1>1 DEF ProverInv, EntryStillEmpty, StoresFitting, ProvesWithCached
<1> QED BY <1>2, <1>3 DEF ProverInv

LEMMA ProverStep == ProverInv /\ [Next]_vars => ProverInv'
<1> SUFFICES ASSUME ProverInv, [Next]_vars PROVE ProverInv'
  OBVIOUS
<1>t. TypeOK /\ TypeOK'
  BY ProverTypes DEF ProverInv
<1>n. NoInput \notin Input
  BY NoInputIsNone
<1> USE DEF At, GoTo, taskVars, cacheVars
<1>1. ASSUME NEW p \in Proc, NEW t \in Task, Take(p, t) PROVE ProverInv'
  <2>1. \A u \in Task : input[u] \in Input => input'[u] = input[u]
    BY <1>1, <1>t, <1>n DEF Take, TypeOK
  <2>2. /\ pc'[p] = "parse"
        /\ \A q \in Proc \ {p} :
             pc'[q] = pc[q] /\ keys'[q] = keys[q] /\ job'[q] = job[q]
    BY <1>1, <1>t DEF Take, TypeOK
  <2> QED BY <1>1, <1>t, <2>1, <2>2, CacheStays DEF Take
<1>2. ASSUME NEW p \in Proc, ParseMerkleProofTask(p) PROVE ProverInv'
  <2>1. pc' = [pc EXCEPT ![p] = "idle"] \/ pc' = [pc EXCEPT ![p] = "load"]
          \/ pc' = pc
    BY <1>2 DEF ParseMerkleProofTask, Finish
  <2>2. /\ pc'[p] \in {"idle", "load", "parse"}
        /\ \A q \in Proc \ {p} :
             pc'[q] = pc[q] /\ keys'[q] = keys[q] /\ job'[q] = job[q]
    BY <1>2, <1>t, <2>1 DEF ParseMerkleProofTask, Finish, TypeOK
  <2>3. \A u \in Task : outcome'[u] = "proved" => outcome[u] = "proved"
    BY <1>2, <1>t DEF ParseMerkleProofTask, Finish, TypeOK
  <2> QED BY <1>2, <1>t, <2>2, <2>3, CacheStays DEF ParseMerkleProofTask
<1>3. ASSUME NEW p \in Proc, LoadCircuit(p) PROVE ProverInv'
  <2>1. CASE compiled[KeyOf(p)] = 0
    <3>1. /\ pc'[p] = "lock"
          /\ \A q \in Proc \ {p} :
               pc'[q] = pc[q] /\ keys'[q] = keys[q] /\ job'[q] = job[q]
      BY <1>3, <1>t, <2>1 DEF LoadCircuit, TypeOK
    <3> QED BY <1>3, <1>t, <3>1, CacheStays DEF LoadCircuit
  <2>2. CASE compiled[KeyOf(p)] # 0
    <3>1. \A q \in Proc : KeyOf(q)' = KeyOf(q)
      BY <1>3 DEF LoadCircuit, KeyOf
    <3>2. /\ pc' = [pc EXCEPT ![p] = "prove"]
          /\ keys' = [keys EXCEPT ![p] = compiled[KeyOf(p)]]
      BY <1>3, <2>2 DEF LoadCircuit
    <3>3. EntryStillEmpty' /\ StoresFitting' /\ ProvesWithCached'
      BY <1>3, <1>t, <2>2, <3>1, <3>2 DEF LoadCircuit, TypeOK, ProverInv,
         EntryStillEmpty, StoresFitting, ProvesWithCached
    <3>4. CachedFits' /\ ProvedWithCached'
      BY <1>3 DEF LoadCircuit, ProverInv, CachedFits, ProvedWithCached
    <3> QED BY <1>t, <3>3, <3>4 DEF ProverInv
  <2> QED BY <2>1, <2>2
<1>4. ASSUME NEW p \in Proc, Lock(p) PROVE ProverInv'
  <2>1. /\ pc'[p] = "recheck"
        /\ \A q \in Proc \ {p} : pc'[q] = pc[q]
    BY <1>4, <1>t DEF Lock, TypeOK
  <2> QED BY <1>4, <1>t, <2>1, CacheStays DEF Lock
<1>5. ASSUME NEW p \in Proc, Recheck(p) PROVE ProverInv'
  <2>1. \A q \in Proc : KeyOf(q)' = KeyOf(q)
    BY <1>5 DEF Recheck, KeyOf
  <2>2. /\ keys' = [keys EXCEPT ![p] = compiled[KeyOf(p)]]
        /\ pc' = [pc EXCEPT ![p] =
                    IF compiled[KeyOf(p)] = 0 THEN "compile" ELSE "prove"]
    BY <1>5 DEF Recheck
  <2>3. EntryStillEmpty' /\ StoresFitting' /\ ProvesWithCached'
    BY <1>5, <1>t, <2>1, <2>2 DEF Recheck, TypeOK, ProverInv,
       EntryStillEmpty, StoresFitting, ProvesWithCached
  <2>4. CachedFits' /\ ProvedWithCached'
    BY <1>5 DEF Recheck, ProverInv, CachedFits, ProvedWithCached
  <2> QED BY <1>t, <2>3, <2>4 DEF ProverInv
<1>6. ASSUME NEW p \in Proc, Compile(p) PROVE ProverInv'
  <2>1. CASE Finish(p, "setupFailed") /\ UNCHANGED setups
    <3>1. /\ pc'[p] = "idle"
          /\ \A q \in Proc \ {p} :
               pc'[q] = pc[q] /\ keys'[q] = keys[q] /\ job'[q] = job[q]
          /\ \A u \in Task : outcome'[u] = "proved" => outcome[u] = "proved"
      BY <1>t, <2>1 DEF Finish, TypeOK
    <3> QED BY <1>6, <1>t, <2>1, <3>1, CacheStays DEF Compile
  <2>2. CASE ~(Finish(p, "setupFailed") /\ UNCHANGED setups)
    <3>1. /\ setups' = Append(setups, KeyOf(p)) /\ KeyOf(p) \in Key
          /\ pc' = [pc EXCEPT ![p] = "store"]
          /\ keys' = [keys EXCEPT ![p] = Len(setups) + 1]
          /\ UNCHANGED <<input, madeWith, compiled, crashed, outcome, job, mutex>>
      BY <1>6, <1>t, <2>2, WorkingKey DEF Compile
    <3>2. /\ Len(setups) + 1 \in DOMAIN setups'
          /\ setups'[Len(setups) + 1] = KeyOf(p)
          /\ \A n \in DOMAIN setups : n \in DOMAIN setups' /\ setups'[n] = setups[n]
      BY <1>t, <3>1 DEF TypeOK
    <3>3. \A q \in Proc : KeyOf(q)' = KeyOf(q)
      BY <3>1 DEF KeyOf
    <3>4. CachedFits' /\ ProvedWithCached'
      BY <3>1, <3>2 DEF ProverInv, CachedFits, ProvedWithCached
    <3>5. StoresFitting'
      BY <1>t, <3>1, <3>2, <3>3 DEF ProverInv, StoresFitting, TypeOK
    <3>6. pc[p] = "compile"
      BY <1>6 DEF Compile
    <3>7. EntryStillEmpty' /\ ProvesWithCached'
      BY <1>t, <3>1, <3>3, <3>6 DEF ProverInv, EntryStillEmpty, ProvesWithCached,
                                    TypeOK
    <3> QED BY <1>t, <3>4, <3>5, <3>7 DEF ProverInv
  <2> QED BY <2>1, <2>2
<1>7. ASSUME NEW p \in Proc, Store(p) PROVE ProverInv'
  <2>1. pc[p] = "store" /\ compiled[KeyOf(p)] = 0 /\ KeyOf(p) \in Key
    BY <1>7, <1>t, WorkingKey DEF Store, ProverInv, EntryStillEmpty
  <2>2. /\ keys[p] \in DOMAIN setups /\ keys[p] # 0
        /\ setups[keys[p]] = KeyOf(p)
    BY <1>t, <2>1 DEF ProverInv, StoresFitting, TypeOK
  <2>3. /\ compiled' = [compiled EXCEPT ![KeyOf(p)] = keys[p]]
        /\ pc' = [pc EXCEPT ![p] = "prove"]
        /\ UNCHANGED <<taskVars, setups, job, keys, crashed>>
    BY <1>7 DEF Store
  <2>4. \A q \in Proc : KeyOf(q)' = KeyOf(q)
    BY <2>3 DEF KeyOf
  <2>5. CachedFits'
    BY <1>t, <2>1, <2>2, <2>3 DEF ProverInv, CachedFits, TypeOK
  <2>6. ProvedWithCached'
    BY <1>t, <2>1, <2>3 DEF ProverInv, ProvedWithCached, TypeOK
  <2>7. \A q \in Proc \ {p} : pc'[q] = pc[q] /\ pc[q] \notin {"compile", "store"}
    BY <1>t, <2>1, <2>3 DEF TypeOK
  <2>8. EntryStillEmpty' /\ StoresFitting'
    BY <1>t, <2>3, <2>7 DEF EntryStillEmpty, StoresFitting, TypeOK
  <2>9. ProvesWithCached'
    BY <1>t, <2>1, <2>2, <2>3, <2>4, <2>7 DEF ProverInv, ProvesWithCached, TypeOK
  <2> QED BY <1>t, <2>5, <2>6, <2>8, <2>9 DEF ProverInv
<1>8. ASSUME NEW p \in Proc, Prove(p) PROVE ProverInv'
  <2>1. pc[p] = "prove" /\ job[p] \in Task /\ input[job[p]] \in Input
    BY <1>8, <1>t, WorkingKey DEF Prove
  <2>2. keys[p] = compiled[CacheKey(input[job[p]])] /\ keys[p] # 0
    BY <2>1 DEF ProverInv, ProvesWithCached, KeyOf
  <2>3. /\ pc' = [pc EXCEPT ![p] = "idle"]
        /\ keys' = [keys EXCEPT ![p] = 0] /\ job' = [job EXCEPT ![p] = NoTask]
        /\ UNCHANGED <<input, cacheVars, crashed>>
    BY <1>8 DEF Prove, Finish
  <2>4. ProvedWithCached'
    BY <1>8, <1>t, <2>1, <2>2 DEF Prove, Finish, ProverInv, ProvedWithCached, TypeOK
  <2>5. \A q \in Proc : pc'[q] # "idle" =>
          pc'[q] = pc[q] /\ keys'[q] = keys[q] /\ KeyOf(q)' = KeyOf(q)
    BY <1>t, <2>3 DEF KeyOf, TypeOK
  <2>6. CachedFits' /\ EntryStillEmpty' /\ StoresFitting' /\ ProvesWithCached'
    BY <2>3, <2>5 DEF ProverInv, CachedFits, EntryStillEmpty, StoresFitting,
                      ProvesWithCached
  <2> QED BY <1>t, <2>4, <2>6 DEF ProverInv
<1>9. CASE UNCHANGED vars
  BY <1>9 DEF vars, ProverInv, TypeOK, CachedFits, EntryStillEmpty, StoresFitting,
     ProvesWithCached, ProvedWithCached, KeyOf
<1> QED BY <1>1, <1>2, <1>3, <1>4, <1>5, <1>6, <1>7, <1>8, <1>9 DEF Next, Step

\* Two proofs of a depth were both made with what the cache has for it.
LEMMA CachedIsOne == ProverInv => OneKeyPairPerCircuit
<1> SUFFICES ASSUME ProverInv PROVE OneKeyPairPerCircuit
  OBVIOUS
<1>1. ASSUME NEW t \in Task, outcome[t] = "proved"
      PROVE  /\ input[t] \in Input
             /\ madeWith[t] = compiled[Depth[input[t].leaves]]
             /\ madeWith[t] \in DOMAIN setups
             /\ setups[madeWith[t]] = Depth[input[t].leaves]
  <2>1. /\ input[t] \in Input
        /\ madeWith[t] = compiled[CacheKey(input[t])] /\ madeWith[t] # 0
    BY <1>1 DEF ProverInv, ProvedWithCached
  <2>2. /\ CacheKey(input[t]) \in Key
        /\ CacheKey(input[t]) = Depth[input[t].leaves]
    BY <2>1, KeyOfInput
  <2> QED BY <2>1, <2>2 DEF ProverInv, CachedFits
<1> QED BY <1>1 DEF OneKeyPairPerCircuit

\* getOrCompileCircuit looks again under the mutex: all proofs of a depth are
\* made with one key pair, and one drawn for a circuit of that depth.
THEOREM ProverOneKeyPair == Spec => []OneKeyPairPerCircuit
<1> QED BY InitProverInv, ProverStep, CachedIsOne, PTL DEF Spec

-----------------------------------------------------------------------------
(* What the outcomes say of the inputs *)

WellFormed(i) == AllHex(Leaves(i)) /\ ~Panics(Leaves(i))

\* Whoever has parsed its task works on leaves a tree can be built from.
WorkingWellFormed ==
  \A p \in Proc : pc[p] \notin {"idle", "parse"} => WellFormed(input[job[p]])

OutcomeFits ==
  \A t \in Task :
    /\ outcome[t] = "proved" => input[t] \in Provable
    /\ outcome[t] = "unsatisfied" =>
         input[t] \in Input /\ WellFormed(input[t]) /\ input[t] \notin Provable

\* A step that ends no task with one of the two outcomes, and parses none.
LEMMA OutcomeStays ==
  ASSUME WorkingWellFormed, OutcomeFits,
         \A t \in Task : outcome'[t] \in {"proved", "unsatisfied"} =>
           outcome'[t] = outcome[t] /\ input'[t] = input[t],
         \A p \in Proc : pc'[p] \notin {"idle", "parse"} =>
           \/ /\ pc[p] \notin {"idle", "parse"}
              /\ input'[job'[p]] = input[job[p]]
           \/ WellFormed(input'[job'[p]])
  PROVE  WorkingWellFormed' /\ OutcomeFits'
<1>1. WorkingWellFormed'
  BY DEF WorkingWellFormed
<1>2. OutcomeFits'
  BY DEF OutcomeFits
<1> QED BY <1>1, <1>2

LEMMA OutcomeStep ==
  ASSUME ProverInv, WorkingWellFormed, OutcomeFits, [Next]_vars
  PROVE  WorkingWellFormed' /\ OutcomeFits'
<1>t. TypeOK
  BY DEF ProverInv
<1> USE DEF At, GoTo, taskVars, cacheVars
<1>1. ASSUME NEW p \in Proc, NEW t \in Task, Take(p, t)
      PROVE  WorkingWellFormed' /\ OutcomeFits'
  <2>1. /\ input[t] = NoInput /\ UNCHANGED outcome
        /\ \A u \in Task \ {t} : input'[u] = input[u]
    BY <1>1, <1>t DEF Take, TypeOK
  <2>2. outcome[t] \notin {"proved", "unsatisfied"}
    BY <2>1, NoInputIsNone DEF OutcomeFits, Provable
  <2>3. /\ pc' = [pc EXCEPT ![p] = "parse"]
        /\ \A q \in Proc \ {p} : job'[q] = job[q]
    BY <1>1, <1>t DEF Take, TypeOK
  <2>4. \A q \in Proc \ {p} : pc[q] # "idle" => job[q] \in Task \ {t}
    BY <1>t, <2>1, NoInputIsNone DEF TypeOK
  <2>5. \A q \in Proc : pc'[q] \notin {"idle", "parse"} =>
          pc[q] \notin {"idle", "parse"} /\ input'[job'[q]] = input[job[q]]
    <3>1. pc'[p] = "parse" /\ \A q \in Proc \ {p} : pc'[q] = pc[q]
      BY <1>t, <2>3 DEF TypeOK
    <3> QED BY <2>1, <2>3, <2>4, <3>1
  <2> QED BY <2>1, <2>2, <2>5, OutcomeStays
<1>2. ASSUME NEW p \in Proc, ParseMerkleProofTask(p)
      PROVE  WorkingWellFormed' /\ OutcomeFits'
  <2>1. UNCHANGED input
    BY <1>2 DEF ParseMerkleProofTask
  <2>2. \A t \in Task : outcome'[t] \in {"proved", "unsatisfied"} =>
          outcome'[t] = outcome[t]
    BY <1>2, <1>t DEF ParseMerkleProofTask, Finish, TypeOK
  <2>3. \A q \in Proc \ {p} : pc'[q] = pc[q] /\ job'[q] = job[q]
    BY <1>2, <1>t DEF ParseMerkleProofTask, Finish, TypeOK
  <2>4. pc'[p] \notin {"idle", "parse"} => WellFormed(input[job[p]]) /\ job' = job
    BY <1>2, <1>t DEF ParseMerkleProofTask, Finish, TypeOK, WellFormed
  <2>5. \A q \in Proc : pc'[q] \notin {"idle", "parse"} =>
          \/ /\ pc[q] \notin {"idle", "parse"}
             /\ input'[job'[q]] = input[job[q]]
          \/ WellFormed(input'[job'[q]])
    BY <2>1, <2>3, <2>4
  <2> QED BY <2>1, <2>2, <2>5, OutcomeStays
<1>3. ASSUME NEW p \in Proc, LoadCircuit(p) \/ Lock(p) \/ Recheck(p) \/ Store(p)
      PROVE  WorkingWellFormed' /\ OutcomeFits'
  <2>1. UNCHANGED <<input, outcome, job>>
    BY <1>3 DEF LoadCircuit, Lock, Recheck, Store
  <2>2. pc[p] \notin {"idle", "parse"}
    BY <1>3 DEF LoadCircuit, Lock, Recheck, Store
  <2>3. \A q \in Proc \ {p} : pc'[q] = pc[q]
    <3>1. \E s : pc' = [pc EXCEPT ![p] = s]
      BY <1>3 DEF LoadCircuit, Lock, Recheck, Store
    <3> QED BY <1>t, <3>1 DEF TypeOK
  <2> QED BY <2>1, <2>2, <2>3, OutcomeStays
<1>4. ASSUME NEW p \in Proc, Compile(p)
      PROVE  WorkingWellFormed' /\ OutcomeFits'
  <2>1. UNCHANGED input /\ pc[p] = "compile"
    BY <1>4 DEF Compile
  <2>2. \A t \in Task : outcome'[t] \in {"proved", "unsatisfied"} =>
          outcome'[t] = outcome[t]
    BY <1>4, <1>t DEF Compile, Finish, TypeOK
  <2>3. \A q \in Proc \ {p} : pc'[q] = pc[q] /\ job'[q] = job[q]
    BY <1>4, <1>t DEF Compile, Finish, TypeOK
  <2>4. pc'[p] \notin {"idle", "parse"} => job' = job
    BY <1>4, <1>t DEF Compile, Finish, TypeOK
  <2>5. \A q \in Proc : pc'[q] \notin {"idle", "parse"} =>
          /\ pc[q] \notin {"idle", "parse"}
          /\ input'[job'[q]] = input[job[q]]
    BY <2>1, <2>3, <2>4
  <2> QED BY <2>1, <2>2, <2>5, OutcomeStays
<1>5. ASSUME NEW p \in Proc, Prove(p)
      PROVE  WorkingWellFormed' /\ OutcomeFits'
  <2>1. PICK t : t = job[p] /\ t \in Task /\ input[t] \in Input
    BY <1>5, <1>t, WorkingKey DEF Prove
  <2>2. setups[keys[p]] = Depth[input[t].leaves]
    <3>1. pc[p] = "prove"
      BY <1>5 DEF Prove
    <3>2. keys[p] = compiled[KeyOf(p)] /\ keys[p] # 0
      BY <3>1 DEF ProverInv, ProvesWithCached
    <3>3. KeyOf(p) \in Key /\ KeyOf(p) = Depth[input[t].leaves]
      BY <1>t, <2>1, <3>1, WorkingKey
    <3> QED BY <3>2, <3>3 DEF ProverInv, CachedFits
  <2>3. /\ UNCHANGED input
        /\ \A u \in Task \ {t} : outcome'[u] = outcome[u]
        /\ \A q \in Proc \ {p} : pc'[q] = pc[q] /\ job'[q] = job[q]
        /\ pc'[p] = "idle"
    BY <1>5, <1>t, <2>1 DEF Prove, Finish, TypeOK
  <2>4. outcome'[t] = IF input[t] \in Provable THEN "proved" ELSE "unsatisfied"
    BY <1>5, <1>t, <2>1, <2>2 DEF Prove, Finish, TypeOK
  <2>5. WellFormed(input[t])
    BY <1>5, <2>1 DEF Prove, WorkingWellFormed
  <2>6. OutcomeFits'
    BY <2>1, <2>3, <2>4, <2>5 DEF OutcomeFits
  <2>7. WorkingWellFormed'
    BY <2>3 DEF WorkingWellFormed
  <2> QED BY <2>6, <2>7
<1>6. CASE UNCHANGED vars
  BY <1>6, OutcomeStays DEF vars
<1> QED BY <1>1, <1>2, <1>3, <1>4, <1>5, <1>6 DEF Next, Step

LEMMA OutcomeInvariant == Spec => [](OutcomeFits /\ TypeOK)
<1>1. Init => WorkingWellFormed /\ OutcomeFits
  BY DEF Init, WorkingWellFormed, OutcomeFits
<1>2. ProverInv => TypeOK
  BY DEF ProverInv
<1> QED BY <1>1, <1>2, InitProverInv, ProverStep, OutcomeStep, PTL DEF Spec

\* The leaves of a task, as the lemmas on the tree need them.
LEMMA LeavesAre ==
  ASSUME NEW i \in Input
  PROVE  /\ Leaves(i) \in Seq({Leaves(i)[k] : k \in 1..i.leaves})
         /\ Len(Leaves(i)) = i.leaves /\ i.leaves \in Nat \ {0}
         /\ i.index \in 0..i.leaves - 1
         /\ LeavesOfTask(Leaves(i))
<1>1. i.leaves \in 1..MaxLeaves /\ i.index \in 0..i.leaves - 1
  BY DEF Input
<1>2. i.leaves \in Nat \ {0}
  BY <1>1
<1>3. PICK s : s = Leaves(i)
  OBVIOUS
<1>4. /\ s = [k \in 1..i.leaves |-> s[k]]
      /\ \A k \in 1..i.leaves : s[k].id = k
  BY <1>3 DEF Leaves, Leaf
<1>5. s \in [1..i.leaves -> {s[k] : k \in 1..i.leaves}]
  BY <1>4
<1>6. s \in Seq({s[k] : k \in 1..i.leaves}) /\ Len(s) = i.leaves
  BY <1>2, <1>5, LenOfFunction
<1>7. LeavesOfTask(s)
  <2>1. s # <<>>
    BY <1>2, <1>6
  <2>2. ASSUME NEW k \in 1..Len(s) PROVE s[k].id # 0
    <3>1. k \in 1..i.leaves /\ k # 0
      BY <1>6
    <3> QED BY <1>4, <3>1
  <2> QED BY <2>1, <2>2 DEF LeavesOfTask
<1> QED BY <1>1, <1>2, <1>3, <1>6, <1>7

LEMMA ProvableRoots == Provable = RootIsReference
<1> SUFFICES ASSUME NEW i \in Provable PROVE i \in RootIsReference
  BY DEF RootIsReference
<1>1. i \in Input
  BY DEF Provable
<1>2. PICK S : Leaves(i) \in Seq(S)
  BY <1>1, LeavesAre
<1>3. Leaves(i) # <<>> /\ Len(Leaves(i)) = i.leaves
  BY <1>1, LeavesAre DEF LeavesOfTask
<1>4. Last(NewMerkleTree(Leaves(i)))
        = ReferenceNode(Leaves(i))[Depth[Len(Leaves(i))]][0]
  BY <1>2, <1>3, RootIsTop
<1> QED BY <1>3, <1>4 DEF RootIsReference

LEMMA ProvableExactly ==
  ASSUME NEW i \in Input, WellFormed(i)
  PROVE  i \in Provable <=> i \in Regular
<1>1. PICK S : Leaves(i) \in Seq(S)
  BY LeavesAre
<1>2. /\ LeavesOfTask(Leaves(i)) /\ Len(Leaves(i)) = i.leaves
      /\ i.index \in 0..i.leaves - 1
  BY LeavesAre
<1>3. i \in Provable <=> Proves(Leaves(i), i.index)
  BY DEF Provable, WellFormed
<1>4. i \in Regular <=> /\ ~HasUnpairedAncestor(i.leaves, i.index)
                        /\ i.leaves = 1 \/ PairInField(Leaves(i), i.index)
  BY DEF Regular
<1>5. i.index \in 0..Len(Leaves(i)) - 1
  BY <1>2
<1>6. Proves(Leaves(i), i.index)
        <=> /\ ~HasUnpairedAncestor(Len(Leaves(i)), i.index)
            /\ Len(Leaves(i)) = 1 \/ PairInField(Leaves(i), i.index)
  BY <1>1, <1>2, <1>5, ProvesExactly
<1> QED BY <1>2, <1>3, <1>4, <1>6

\* NewMerkleTree, for any number of leaves: what is proved is about the tree
\* over the leaves as they were submitted.
THEOREM ProverRootIsReference == Spec => []ProvedRootIsReference
<1>1. OutcomeFits => ProvedRootIsReference
  BY ProvableRoots DEF OutcomeFits, ProvedRootIsReference
<1> QED BY <1>1, OutcomeInvariant, PTL

\* MerkleTree.GenerateProof, for any number of leaves: a valid input ends
\* without a proof exactly if an ancestor of the leaf, above the leaves, has
\* no neighbour, or if the leaf or the one beside it is not below the modulus.
THEOREM ProverUnsatisfiedExactly == Spec => []UnsatisfiedExactly
<1>1. \A i \in Provable : i \in Input /\ WellFormed(i)
  BY DEF Provable, WellFormed
<1>2. OutcomeFits => UnsatisfiedExactly
  BY <1>1, ProvableExactly DEF OutcomeFits, UnsatisfiedExactly
<1> QED BY <1>2, OutcomeInvariant, PTL
=============================================================================
