---------------------------- MODULE VolumeProofs ----------------------------
(***************************************************************************)
(* Disks: the lemmas that the proofs about Montage and Sgf share.          *)
(*                                                                         *)
(* First chains of blocks and directories.  A chain is given by its blocks *)
(* in their order, a function on 0 .. n - 1; what the recursive            *)
(* definitions of Disque compute of it is proved by induction, as the      *)
(* absence of a least counterexample.  Then the functions of SgfIo: what   *)
(* each leaves of the blocks, the names and the lengths of a volume.       *)
(***************************************************************************)
EXTENDS SgfIo, FiniteSetTheorems, SequenceTheorems, WellFoundedInduction, TLAPS

(* A set of numbers has a least one. *)
LEMMA Least == ASSUME NEW T \in SUBSET Nat, T # {} PROVE \E x \in T : \A y \in T : x <= y
<1> DEFINE R == {ss \in Nat \X Nat : ss[1] < ss[2]}
<1>1. IsWellFoundedOn(R, Nat)
  BY NatLessThanWellFounded, SMT DEF OpToRel
<1> HIDE DEF R
<1>2. PICK x \in T : \A y \in T : ~(<<y, x>> \in R)
  BY <1>1, WFMin
<1>3. \A y \in T : ~(y < x)
  BY <1>2 DEF R
<1> QED
  BY <1>3

(* Induction: a set of numbers with 0 and the successor of each of its     *)
(* members is that of all.                                                 *)
LEMMA Induction ==
  ASSUME NEW T, 0 \in T, \A n \in Nat : n \in T => n + 1 \in T
  PROVE  Nat \subseteq T
<1> SUFFICES ASSUME Nat \ T # {} PROVE FALSE
  OBVIOUS
<1>1. PICK x \in Nat \ T : \A y \in Nat \ T : x <= y
  BY Least
<1>2. x # 0 /\ x - 1 \in Nat
  BY <1>1
<1>3. x - 1 \in T
  BY <1>1, <1>2
<1> QED
  BY <1>1, <1>2, <1>3

(* What is defined by recursion on a number exists. *)
MapsInto(L, D) == \A x \in D : L[x] \in D
IteratesFrom(w, a, L, D) ==
  w \in [Nat -> D] /\ w[0] = a /\ \A j \in Nat : j # 0 => w[j] = L[w[j - 1]]

(* A function may be iterated from any of its points. *)
LEMMA Iterates ==
  ASSUME NEW D, NEW a \in D, NEW L, MapsInto(L, D)
  PROVE  \E w : IteratesFrom(w, a, L, D)
<1> USE DEF MapsInto
<1> DEFINE Goes(n, w) == w[0] = a /\ \A j \in 1 .. n : w[j] = L[w[j - 1]]
           T == {n \in Nat : \E w \in [Nat -> D] : Goes(n, w)}
<1>1. 0 \in T
  <2>1. [j \in Nat |-> a] \in [Nat -> D] /\ Goes(0, [j \in Nat |-> a])
    OBVIOUS
  <2> QED
    BY <2>1
<1>2. ASSUME NEW n \in Nat, n \in T
      PROVE  n + 1 \in T
  <2>1. PICK w \in [Nat -> D] : Goes(n, w)
    BY <1>2
  <2> DEFINE u == [w EXCEPT ![n + 1] = L[w[n]]]
  <2>2. u \in [Nat -> D]
    OBVIOUS
  <2>3. Goes(n + 1, u)
    BY <2>1
  <2>4. n + 1 \in Nat
    OBVIOUS
  <2> HIDE DEF Goes, u
  <2> QED
    BY <2>2, <2>3, <2>4
<1>3. Nat \subseteq T
  <2> HIDE DEF T
  <2> QED
    BY <1>1, <1>2, Induction
<1>4. ASSUME NEW n \in Nat, NEW w \in [Nat -> D], Goes(n, w),
             NEW k \in Nat, NEW u \in [Nat -> D], Goes(k, u), n <= k
      PROVE  w[n] = u[n]
  <2> DEFINE S == {j \in Nat : j <= n => w[j] = u[j]}
  <2>1. 0 \in S
    BY <1>4
  <2>2. \A j \in Nat : j \in S => j + 1 \in S
    BY <1>4
  <2>3. Nat \subseteq S
    <3> HIDE DEF S
    <3> QED
      BY <2>1, <2>2, Induction
  <2> QED
    BY <2>3
<1> DEFINE P(n) == CHOOSE w \in [Nat -> D] : Goes(n, w)
           z == [n \in Nat |-> P(n)[n]]
<1>5. \A n \in Nat : P(n) \in [Nat -> D] /\ Goes(n, P(n))
  BY <1>3
<1>6. z \in [Nat -> D]
  <2> HIDE DEF P
  <2> QED
    BY <1>5
<1>7. z[0] = a
  <2> HIDE DEF P
  <2> QED
    BY <1>5
<1>8. ASSUME NEW j \in Nat, j # 0
      PROVE  z[j] = L[z[j - 1]]
  <2> HIDE DEF P
  <2>1. j - 1 \in Nat /\ j \in 1 .. j
    BY <1>8
  <2>2. P(j)[j] = L[P(j)[j - 1]]
    BY <1>5, <2>1
  <2>3. Goes(j - 1, P(j))
    BY <1>5, <2>1
  <2> HIDE DEF Goes
  <2>4. P(j - 1)[j - 1] = P(j)[j - 1]
    BY <1>4, <1>5, <2>1, <2>3
  <2> QED
    BY <2>1, <2>2, <2>4
<1> HIDE DEF z
<1>9. IteratesFrom(z, a, L, D)
  BY <1>6, <1>7, <1>8 DEF IteratesFrom
<1> QED
  BY <1>9

-----------------------------------------------------------------------------
(* What an entry of a FAT may be. *)
Values == FAT_EOF .. DISK_SIZE - 1
Fats == [Blocs -> Values]

(* The marks of the FAT are no blocks and differ from each other. *)
LEMMA ValuesTyped ==
  /\ DISK_SIZE \in Nat /\ Blocs \subseteq Values /\ Values \subseteq Int
  /\ FAT_EOF \in Values /\ FAT_FREE \in Values /\ FAT_INODE \in Values
  /\ FAT_RESERVED \in Values
  /\ FAT_EOF \notin Blocs /\ FAT_FREE \notin Blocs /\ FAT_INODE \notin Blocs
  /\ FAT_RESERVED \notin Blocs
  /\ FAT_FREE # FAT_EOF /\ FAT_FREE # FAT_INODE /\ FAT_FREE # FAT_RESERVED
  /\ FAT_EOF # FAT_INODE /\ FAT_EOF # FAT_RESERVED /\ FAT_INODE # FAT_RESERVED
  /\ ADR_DIR \in Blocs /\ ADR_DIR >= 2
  /\ \A n \in Blocs : n \in Nat /\ n < DISK_SIZE
BY DisqueAssumption
DEF Values, Blocs, FAT_EOF, FAT_FREE, FAT_INODE, FAT_RESERVED, ADR_DIR, ADR_BLOCK_FAT

(* From block to block, the end leading to itself. *)
LEMMA LinksTyped ==
  ASSUME NEW f \in Fats
  PROVE  /\ \A n \in Values : Links(f)[n] \in Values
         /\ \A n \in Blocs : Links(f)[n] = f[n]
         /\ Links(f)[FAT_EOF] = FAT_EOF
<1>1. Links(f) = [n \in Values |-> IF n \in Blocs THEN f[n] ELSE FAT_EOF]
  BY DEF Links, Values, NU_BLOC_OK
<1> QED
  BY <1>1, ValuesTyped DEF Fats

(* Walk is what its recursive definition says. *)
LEMMA WalkUnfolds ==
  ASSUME NEW f \in Fats, NEW a \in Values
  PROVE  /\ Walk(f, a, 0) = a
         /\ \A k \in Nat : Walk(f, a, k + 1) = Links(f)[Walk(f, a, k)]
         /\ \A k \in Nat : Walk(f, a, k) \in Values
<1> DEFINE w == CHOOSE w : w = [j \in Nat |-> IF j = 0 THEN a ELSE Links(f)[w[j - 1]]]
<1>1. \A k : Walk(f, a, k) = w[k]
  BY DEF Walk
<1>2. PICK z : IteratesFrom(z, a, Links(f), Values)
  <2>1. MapsInto(Links(f), Values)
    BY LinksTyped DEF MapsInto
  <2> QED
    BY <2>1, Iterates
<1>3. w = [j \in Nat |-> IF j = 0 THEN a ELSE Links(f)[w[j - 1]]]
  <2>1. z = [j \in Nat |-> IF j = 0 THEN a ELSE Links(f)[z[j - 1]]]
    BY <1>2 DEF IteratesFrom
  <2> QED
    BY <2>1
<1> HIDE DEF w
<1>4. w[0] = a /\ \A j \in Nat : w[j + 1] = Links(f)[w[j]]
  <2>1. \A j \in Nat : j + 1 \in Nat /\ j + 1 # 0 /\ (j + 1) - 1 = j
    OBVIOUS
  <2> QED
    BY <1>3, <2>1
<1>5. \A j \in Nat : w[j] \in Values
  <2> DEFINE S == {j \in Nat : w[j] \in Values}
  <2>1. 0 \in S /\ \A j \in Nat : j \in S => j + 1 \in S
    BY <1>4, LinksTyped
  <2> HIDE DEF S
  <2>2. Nat \subseteq S
    BY <2>1, Induction
  <2> QED
    BY <2>2 DEF S
<1> QED
  BY <1>1, <1>4, <1>5

(* So is ChainBlocks: the blocks that a walk of less than DISK_SIZE steps  *)
(* comes by.                                                               *)
LEMMA ChainBlocksUnfolds ==
  ASSUME NEW f \in Fats, NEW a \in Values
  PROVE  ChainBlocks(f, a) = {Walk(f, a, j) : j \in 0 .. DISK_SIZE - 1} \cap Blocs
<1> DEFINE c == CHOOSE c : c = [k \in Nat |-> IF k = 0 THEN {a}
                                             ELSE UNION {{n, Links(f)[n]} : n \in c[k - 1]}]
           Grow == [S \in SUBSET Values |-> UNION {{n, Links(f)[n]} : n \in S}]
<1>1. ChainBlocks(f, a) = c[DISK_SIZE - 1] \cap Blocs
  BY DEF ChainBlocks
<1>2. \A S \in SUBSET Values : Grow[S] \in SUBSET Values
  BY LinksTyped
<1>3. {a} \in SUBSET Values
  OBVIOUS
<1>4. PICK z : IteratesFrom(z, {a}, Grow, SUBSET Values)
  <2>1. MapsInto(Grow, SUBSET Values)
    BY <1>2 DEF MapsInto
  <2> HIDE DEF Grow
  <2> QED
    BY <1>3, <2>1, Iterates
<1>5. z = [k \in Nat |-> IF k = 0 THEN {a} ELSE UNION {{n, Links(f)[n]} : n \in z[k - 1]}]
  <2>1. \A k \in Nat : k # 0 =>
          Grow[z[k - 1]] = UNION {{n, Links(f)[n]} : n \in z[k - 1]}
    <3>1. \A k \in Nat : k # 0 => z[k - 1] \in SUBSET Values
      <4> HIDE DEF Grow
      <4> QED
        BY <1>4 DEF IteratesFrom
    <3>2. \A S \in SUBSET Values : Grow[S] = UNION {{n, Links(f)[n]} : n \in S}
      OBVIOUS
    <3> HIDE DEF Grow
    <3> QED
      BY <3>1, <3>2
  <2> HIDE DEF Grow
  <2> QED
    BY <1>4, <2>1 DEF IteratesFrom
<1>6. c = [k \in Nat |-> IF k = 0 THEN {a} ELSE UNION {{n, Links(f)[n]} : n \in c[k - 1]}]
  BY <1>5
<1> HIDE DEF c
<1>7. c[0] = {a} /\ \A k \in Nat : c[k + 1] = UNION {{n, Links(f)[n]} : n \in c[k]}
  <2>1. \A k \in Nat : k + 1 \in Nat /\ k + 1 # 0 /\ (k + 1) - 1 = k
    OBVIOUS
  <2> QED
    BY <1>6, <2>1
<1>8. \A k \in Nat : c[k] = {Walk(f, a, j) : j \in 0 .. k}
  <2> DEFINE S == {k \in Nat : c[k] = {Walk(f, a, j) : j \in 0 .. k}}
  <2>1. 0 \in S
    BY <1>7, WalkUnfolds
  <2>2. ASSUME NEW k \in Nat, k \in S
        PROVE  k + 1 \in S
    <3>1. c[k + 1] = UNION {{n, Links(f)[n]} : n \in {Walk(f, a, j) : j \in 0 .. k}}
      BY <1>7, <2>2
    <3>2. \A j \in 0 .. k : /\ j \in 0 .. k + 1 /\ j + 1 \in 0 .. k + 1
                            /\ Walk(f, a, j + 1) = Links(f)[Walk(f, a, j)]
      BY WalkUnfolds
    <3>3. c[k + 1] \subseteq {Walk(f, a, j) : j \in 0 .. k + 1}
      BY <3>1, <3>2
    <3>4. ASSUME NEW j \in 0 .. k + 1
          PROVE  Walk(f, a, j) \in c[k + 1]
      <4>1. CASE j \in 0 .. k
        BY <3>1, <4>1
      <4>2. CASE j = k + 1
        BY <3>1, <3>2, <4>2
      <4> QED
        BY <4>1, <4>2
    <3> QED
      BY <3>3, <3>4
  <2>3. Nat \subseteq S
    <3> HIDE DEF S
    <3> QED
      BY <2>1, <2>2, Induction
  <2> QED
    BY <2>3
<1>9. DISK_SIZE - 1 \in Nat
  BY DisqueAssumption DEF ADR_BLOCK_FAT
<1> QED
  BY <1>1, <1>8, <1>9

-----------------------------------------------------------------------------
(* A non-empty set of naturals has a least element. *)
LEMMA LeastIs ==
  ASSUME NEW T \in SUBSET Nat, T # {}
  PROVE  Min(T) \in T /\ \A y \in T : Min(T) <= y
<1>1. \E x \in T : \A y \in T : x <= y
  BY Least
<1> QED
  BY <1>1 DEF Min

(* A bounded one has a greatest. *)
LEMMA GreatestIs ==
  ASSUME NEW n \in Nat, NEW T \in SUBSET (0 .. n), T # {}
  PROVE  Max(T) \in T /\ \A y \in T : Max(T) >= y
<1> DEFINE U == {n - x : x \in T}
<1>1. U \in SUBSET Nat /\ U # {}
  <2>1. \A x \in T : n - x \in Nat
    OBVIOUS
  <2> QED
    BY <2>1
<1>2. PICK u \in U : \A y \in U : u <= y
  <2> HIDE DEF U
  <2> QED
    BY <1>1, Least
<1>3. PICK x \in T : u = n - x
  BY <1>2
<1>4. ASSUME NEW y \in T
      PROVE  x >= y
  <2>1. n - y \in U
    OBVIOUS
  <2>2. n - x <= n - y
    BY <1>2, <1>3, <2>1
  <2> QED
    BY <2>2
<1>5. \E z \in T : \A y \in T : z >= y
  BY <1>4
<1> QED
  BY <1>5 DEF Max

-----------------------------------------------------------------------------
(* The blocks s[0], ..., s[n - 1] are the chain of f that starts at a.     *)
IsChain(f, a, s, n) ==
  /\ n \in Nat /\ s \in [0 .. n - 1 -> Blocs]
  /\ n = 0 => a = FAT_EOF
  /\ n # 0 => a = s[0] /\ f[s[n - 1]] = FAT_EOF
  /\ \A k \in 0 .. n - 2 : f[s[k]] = s[k + 1]
  /\ \A j, k \in 0 .. n - 1 : s[j] = s[k] => j = k

(* A walk along a chain meets its blocks in turn, then its end for ever. *)
LEMMA ChainWalk ==
  ASSUME NEW f \in Fats, NEW a \in Values, NEW s, NEW n, IsChain(f, a, s, n)
  PROVE  \A k \in Nat : Walk(f, a, k) = IF k < n THEN s[k] ELSE FAT_EOF
<1> DEFINE S == {k \in Nat : Walk(f, a, k) = IF k < n THEN s[k] ELSE FAT_EOF}
<1>1. n \in Nat
  BY DEF IsChain
<1>2. 0 \in S
  BY <1>1, WalkUnfolds DEF IsChain
<1>3. ASSUME NEW k \in Nat, k \in S
      PROVE  k + 1 \in S
  <2>1. Walk(f, a, k + 1) = Links(f)[Walk(f, a, k)]
    BY WalkUnfolds
  <2>2. CASE k >= n
    BY <1>1, <1>3, <2>1, <2>2, LinksTyped
  <2>3. CASE k = n - 1
    <3>1. Walk(f, a, k) = s[k] /\ s[k] \in Blocs /\ f[s[k]] = FAT_EOF
      BY <1>1, <1>3, <2>3 DEF IsChain
    <3> QED
      BY <1>1, <2>1, <2>3, <3>1, LinksTyped
  <2>4. CASE k < n - 1
    <3>1. Walk(f, a, k) = s[k] /\ s[k] \in Blocs /\ f[s[k]] = s[k + 1]
      BY <1>1, <1>3, <2>4 DEF IsChain
    <3> QED
      BY <1>1, <2>1, <2>4, <3>1, LinksTyped
  <2> QED
    BY <1>1, <2>2, <2>3, <2>4
<1>4. Nat \subseteq S
  <2> HIDE DEF S
  <2> QED
    BY <1>2, <1>3, Induction
<1> QED
  BY <1>4

(* There are DISK_SIZE blocks. *)
LEMMA BlocsFinite ==
  /\ IsFiniteSet(Blocs) /\ Cardinality(Blocs) = DISK_SIZE
  /\ \A S \in SUBSET Blocs : IsFiniteSet(S) /\ Cardinality(S) \in Nat /\ Cardinality(S) <= DISK_SIZE
<1>1. IsFiniteSet(Blocs) /\ Cardinality(Blocs) = DISK_SIZE
  <2>1. DISK_SIZE \in Nat /\ 0 \in Int /\ DISK_SIZE - 1 \in Int
    BY DisqueAssumption
  <2>2. /\ IsFiniteSet(0 .. DISK_SIZE - 1)
        /\ Cardinality(0 .. DISK_SIZE - 1)
             = IF 0 > DISK_SIZE - 1 THEN 0 ELSE DISK_SIZE - 1 - 0 + 1
    BY <2>1, FS_Interval
  <2> QED
    BY <2>1, <2>2 DEF Blocs
<1> QED
  BY <1>1, FS_Subset, FS_CardinalityType

ChainSet(s, n) == {s[k] : k \in 0 .. n - 1}

(* The blocks of a chain, and their number. *)
LEMMA ChainFacts ==
  ASSUME NEW f \in Fats, NEW a \in Values, NEW s, NEW n, IsChain(f, a, s, n)
  PROVE  /\ n <= DISK_SIZE
         /\ ChainBlocks(f, a) = ChainSet(s, n)
         /\ Cardinality(ChainBlocks(f, a)) = n
         /\ ChainEnds(f, a)
<1>1. n \in Nat /\ s \in [0 .. n - 1 -> Blocs]
  BY DEF IsChain
<1>2. IsFiniteSet(0 .. n - 1) /\ Cardinality(0 .. n - 1) = n
  BY <1>1, FS_Interval
<1>3. s \in Injection(0 .. n - 1, Blocs)
  BY <1>1 DEF IsChain, Injection, IsInjective
<1>4. n <= DISK_SIZE
  BY <1>2, <1>3, BlocsFinite, FS_Injection
<1>5. ChainBlocks(f, a) = ChainSet(s, n)
  <2>1. ChainBlocks(f, a) = {Walk(f, a, j) : j \in 0 .. DISK_SIZE - 1} \cap Blocs
    BY ChainBlocksUnfolds
  <2>2. \A k \in Nat : Walk(f, a, k) = IF k < n THEN s[k] ELSE FAT_EOF
    BY ChainWalk
  <2>3. \A j \in 0 .. DISK_SIZE - 1 :
          Walk(f, a, j) = (IF j \in 0 .. n - 1 THEN s[j] ELSE FAT_EOF)
    BY <1>1, <2>2
  <2>4. 0 .. n - 1 \subseteq 0 .. DISK_SIZE - 1
    BY <1>1, <1>4, DisqueAssumption
  <2>5. \A j \in 0 .. n - 1 : s[j] \in Blocs
    BY <1>1
  <2> QED
    BY <2>1, <2>3, <2>4, <2>5, ValuesTyped DEF ChainSet
<1>6. Cardinality(ChainBlocks(f, a)) = n
  <2>1. s \in Bijection(0 .. n - 1, ChainSet(s, n))
    BY <1>1 DEF IsChain, Bijection, Injection, Surjection, IsInjective, ChainSet
  <2> QED
    BY <1>2, <1>5, <2>1, FS_Bijection DEF ExistsBijection
<1>7. ChainEnds(f, a)
  <2>1. CASE n = 0
    BY <2>1 DEF IsChain, ChainEnds
  <2>2. CASE n # 0
    <3>1. s[n - 1] \in ChainSet(s, n) /\ f[s[n - 1]] = FAT_EOF
      BY <1>1, <2>2 DEF IsChain, ChainSet
    <3> QED
      BY <1>5, <3>1 DEF ChainEnds
  <2> QED
    BY <2>1, <2>2
<1> QED
  BY <1>4, <1>5, <1>6, <1>7

-----------------------------------------------------------------------------
(* Block and offset of the places of a directory of n blocks. *)
LEMMA Monotone ==
  ASSUME NEW a \in Nat, NEW b \in Nat, NEW c \in Nat, a <= b
  PROVE  a * c <= b * c
<1>1. PICK d \in Nat : b = a + d
  <2>1. b - a \in Nat /\ b = a + (b - a)
    OBVIOUS
  <2> QED
    BY <2>1
<1>2. b * c = a * c + d * c /\ d * c \in Nat /\ a * c \in Nat
  BY <1>1
<1> QED
  BY <1>2

(* Division with rest, *)
LEMMA Quotient ==
  ASSUME NEW p \in Nat, NEW c \in Nat \ {0}
  PROVE  /\ p \div c \in Nat /\ p % c \in 0 .. c - 1
         /\ p = (p \div c) * c + (p % c)
<1>1. p \div c \in Nat /\ p % c \in 0 .. c - 1
  BY SMT
<1>2. p = c * (p \div c) + (p % c)
  BY SMT
<1>3. c * (p \div c) = (p \div c) * c
  BY <1>1, SMT
<1> QED
  BY <1>1, <1>2, <1>3, Zenon

(* and its uniqueness. *)
LEMMA QuotientIs ==
  ASSUME NEW k \in Nat, NEW c \in Nat \ {0}, NEW j \in 0 .. c - 1
  PROVE  (k * c + j) \div c = k /\ (k * c + j) % c = j
<1> DEFINE p == k * c + j
<1>1. p \in Nat
  BY SMT
<1>2. /\ p \div c \in Nat /\ p % c \in 0 .. c - 1
      /\ p = (p \div c) * c + (p % c)
  BY <1>1, Quotient
<1> DEFINE q == p \div c
           r == p % c
<1> HIDE DEF q, r
<1>3. q \in Nat /\ r \in 0 .. c - 1 /\ p = q * c + r
  BY <1>2 DEF q, r
<1>4. q = k
  <2>1. CASE q < k
    <3>1. (q + 1) * c <= k * c
      BY <1>3, <2>1, Monotone
    <3>2. (q + 1) * c = q * c + c /\ q * c \in Nat /\ k * c \in Nat
      BY <1>3
    <3> QED
      BY <1>3, <3>1, <3>2
  <2>2. CASE k < q
    <3>1. (k + 1) * c <= q * c
      BY <1>3, <2>2, Monotone
    <3>2. (k + 1) * c = k * c + c /\ q * c \in Nat /\ k * c \in Nat
      BY <1>3
    <3> QED
      BY <1>3, <3>1, <3>2
  <2> QED
    BY <1>3, <2>1, <2>2
<1>5. r = j
  <2>1. k * c \in Nat
    OBVIOUS
  <2> QED
    BY <1>3, <1>4, <2>1
<1> QED
  BY <1>4, <1>5 DEF q, r

(* The places of n directory blocks, by block and index. *)
LEMMA PlacesAre ==
  ASSUME NEW n \in Nat
  PROVE  /\ n * BLOCK_DIR_SIZE \in Nat
         /\ (n + 1) * BLOCK_DIR_SIZE = n * BLOCK_DIR_SIZE + BLOCK_DIR_SIZE
         /\ (n * BLOCK_DIR_SIZE) \div BLOCK_DIR_SIZE = n /\ (n * BLOCK_DIR_SIZE) % BLOCK_DIR_SIZE = 0
         /\ \A p \in 0 .. n * BLOCK_DIR_SIZE - 1 :
              p \in Nat /\ p \div BLOCK_DIR_SIZE \in 0 .. n - 1
              /\ p % BLOCK_DIR_SIZE \in 0 .. BLOCK_DIR_SIZE - 1
         /\ \A p \in n * BLOCK_DIR_SIZE .. (n + 1) * BLOCK_DIR_SIZE - 1 :
              p \div BLOCK_DIR_SIZE = n /\ p % BLOCK_DIR_SIZE = p - n * BLOCK_DIR_SIZE
         /\ \A p, q \in Nat : p \div BLOCK_DIR_SIZE = q \div BLOCK_DIR_SIZE
                               /\ p % BLOCK_DIR_SIZE = q % BLOCK_DIR_SIZE => p = q
<1> DEFINE c == BLOCK_DIR_SIZE
<1>1. c \in Nat \ {0} /\ 0 \in 0 .. c - 1
  BY RepertoireAssumption
<1> HIDE DEF c
<1>2. n * c \in Nat /\ (n + 1) * c = n * c + c
  BY <1>1
<1>3. (n * c) \div c = n /\ (n * c) % c = 0
  <2>1. (n * c + 0) \div c = n /\ (n * c + 0) % c = 0
    BY <1>1, QuotientIs
  <2>2. \A x \in Nat : x + 0 = x
    OBVIOUS
  <2>3. n * c + 0 = n * c
    BY <1>2, <2>2
  <2> QED
    BY <2>1, <2>3, Zenon
<1>4. ASSUME NEW p \in 0 .. n * c - 1
      PROVE  p \in Nat /\ p \div c \in 0 .. n - 1 /\ p % c \in 0 .. c - 1
  <2>1. p \in Nat
    BY <1>2
  <2>2. p \div c \in Nat /\ p % c \in 0 .. c - 1 /\ p = (p \div c) * c + (p % c)
    BY <1>1, <2>1, Quotient, Zenon
  <2>3. ASSUME n <= p \div c
        PROVE  FALSE
    <3>1. n * c <= (p \div c) * c /\ (p \div c) * c \in Nat
      BY <1>1, <2>2, <2>3, Monotone
    <3> QED
      BY <1>1, <1>2, <2>2, <3>1
  <2> QED
    BY <2>1, <2>2, <2>3
<1>5. ASSUME NEW p \in n * c .. (n + 1) * c - 1
      PROVE  p \div c = n /\ p % c = p - n * c
  <2>1. p - n * c \in 0 .. c - 1 /\ p = n * c + (p - n * c)
    BY <1>1, <1>2
  <2> QED
    BY <1>1, <2>1, QuotientIs
<1>6. ASSUME NEW p \in Nat, NEW q \in Nat, p \div c = q \div c, p % c = q % c
      PROVE  p = q
  <2>1. p = (p \div c) * c + (p % c) /\ q = (q \div c) * c + (q % c)
    BY <1>1, Quotient
  <2> QED
    BY <1>6, <2>1, Zenon
<1> QED
  BY <1>2, <1>3, <1>4, <1>5, <1>6 DEF c

-----------------------------------------------------------------------------
(* Volumes, and the two writes of a block. *)
IsDisk(d) == d = [i \in Blocs |-> d[i]]
IsPast(p) == \E P : p \in Seq(P)
IsVolume(v) ==
  /\ v = [fat |-> v.fat, disk |-> v.disk, passe |-> v.passe]
  /\ v.fat \in Fats /\ IsDisk(v.disk) /\ IsPast(v.passe)

(* The record of the block writes of a call. *)
LEMMA PastGrows ==
  /\ IsPast(<<>>)
  /\ \A p, x : IsPast(p) => IsPast(Append(p, x))
<1>1. IsPast(<<>>)
  <2>1. <<>> \in Seq({})
    OBVIOUS
  <2> QED
    BY <2>1 DEF IsPast
<1>2. ASSUME NEW p, NEW x, IsPast(p)
      PROVE  IsPast(Append(p, x))
  <2>1. PICK P : p \in Seq(P)
    BY <1>2 DEF IsPast
  <2> DEFINE Q == P \cup {x}
  <2>2. P \subseteq Q /\ x \in Q
    OBVIOUS
  <2> HIDE DEF Q
  <2>3. p \in Seq(Q)
    BY <2>1, <2>2, SeqMonotonic
  <2>4. Append(p, x) \in Seq(Q)
    BY <2>2, <2>3
  <2> QED
    BY <2>4 DEF IsPast
<1> QED
  BY <1>1, <1>2

(* One block of a disk is replaced. *)
LEMMA DiskSet ==
  ASSUME NEW d, IsDisk(d), NEW n \in Blocs, NEW b
  PROVE  /\ IsDisk([d EXCEPT ![n] = b]) /\ [d EXCEPT ![n] = b][n] = b
         /\ \A i \in Blocs : i # n => [d EXCEPT ![n] = b][i] = d[i]
<1> DEFINE e == [d EXCEPT ![n] = b]
<1>1. DOMAIN d = Blocs
  BY DEF IsDisk
<1>2. e = [i \in DOMAIN d |-> IF i = n THEN b ELSE d[i]]
  OBVIOUS
<1>3. e = [i \in Blocs |-> IF i = n THEN b ELSE d[i]]
  BY <1>1, <1>2
<1> HIDE DEF e
<1>4. e[n] = b /\ \A i \in Blocs : i # n => e[i] = d[i]
  BY <1>3
<1>5. \A i \in Blocs : e[i] = IF i = n THEN b ELSE d[i]
  BY <1>4
<1>6. e = [i \in Blocs |-> e[i]]
  BY <1>3, <1>5
<1> QED
  BY <1>4, <1>6 DEF IsDisk, e

(* write_block: that block and no other. *)
LEMMA BlockWritten ==
  ASSUME NEW v, IsVolume(v), NEW n \in Blocs, NEW b
  PROVE  /\ IsVolume(write_block(v, n, b))
         /\ write_block(v, n, b).fat = v.fat
         /\ write_block(v, n, b).disk[n] = b
         /\ \A i \in Blocs : i # n => write_block(v, n, b).disk[i] = v.disk[i]
         /\ write_block(v, n, b).passe = Append(v.passe, OnDisk(v))
<1> DEFINE w == write_block(v, n, b)
<1>1. w = [fat |-> v.fat, disk |-> [v.disk EXCEPT ![n] = b],
           passe |-> Append(v.passe, OnDisk(v))]
  <2>1. PICK f, d, p : v = [fat |-> f, disk |-> d, passe |-> p]
    BY DEF IsVolume
  <2>2. ASSUME NEW o, NEW u, u = [v EXCEPT !.disk[n] = b, !.passe = Append(@, o)]
        PROVE  u = [fat |-> v.fat, disk |-> [v.disk EXCEPT ![n] = b],
                      passe |-> Append(v.passe, o)]
    BY <2>1, <2>2
  <2> QED
    BY <2>2, Zenon DEF write_block
<1> HIDE DEF w
<1>2. w.fat = v.fat /\ w.disk = [v.disk EXCEPT ![n] = b] /\ w.passe = Append(v.passe, OnDisk(v))
  BY <1>1
<1>3. w.disk = [v.disk EXCEPT ![n] = b]
  BY <1>2
<1>4. /\ IsDisk(w.disk) /\ w.disk[n] = b
      /\ \A i \in Blocs : i # n => w.disk[i] = v.disk[i]
  BY <1>3, DiskSet DEF IsVolume
<1>5. IsVolume(w)
  <2>1. IsPast(w.passe)
    BY <1>2, PastGrows DEF IsVolume
  <2> QED
    BY <1>1, <1>2, <1>4, <2>1 DEF IsVolume
<1> QED
  BY <1>2, <1>4, <1>5 DEF w

(* set_fat: that entry and no other; a freed block is forgotten. *)
LEMMA FatSet ==
  ASSUME NEW v, IsVolume(v), NEW n \in Blocs, NEW valeur \in Values
  PROVE  /\ IsVolume(set_fat(v, n, valeur))
         /\ set_fat(v, n, valeur).fat = [v.fat EXCEPT ![n] = valeur]
         /\ set_fat(v, n, valeur).disk[n] = IF valeur = FAT_FREE THEN Blank ELSE v.disk[n]
         /\ \A i \in Blocs : i # n => set_fat(v, n, valeur).disk[i] = v.disk[i]
         /\ set_fat(v, n, valeur).passe = Append(v.passe, OnDisk(v))
<1> DEFINE w == set_fat(v, n, valeur)
<1>1. w = [fat |-> [v.fat EXCEPT ![n] = valeur],
           disk |-> [v.disk EXCEPT ![n] = IF valeur = FAT_FREE THEN Blank ELSE @],
           passe |-> Append(v.passe, OnDisk(v))]
  <2>1. PICK f, d, p : v = [fat |-> f, disk |-> d, passe |-> p]
    BY DEF IsVolume
  <2>2. ASSUME NEW o, NEW u, u = [v EXCEPT !.fat[n] = valeur, !.passe = Append(@, o),
                             !.disk[n] = IF valeur = FAT_FREE THEN Blank ELSE @]
        PROVE  u = [fat |-> [v.fat EXCEPT ![n] = valeur],
                      disk |-> [v.disk EXCEPT ![n] = IF valeur = FAT_FREE THEN Blank ELSE @],
                      passe |-> Append(v.passe, o)]
    BY <2>1, <2>2
  <2> QED
    BY <2>2, Zenon DEF set_fat
<1> HIDE DEF w
<1>2. /\ w.fat = [v.fat EXCEPT ![n] = valeur]
      /\ w.disk = [v.disk EXCEPT ![n] = IF valeur = FAT_FREE THEN Blank ELSE @]
      /\ w.passe = Append(v.passe, OnDisk(v))
  BY <1>1
<1> DEFINE b == IF valeur = FAT_FREE THEN Blank ELSE v.disk[n]
<1>3. w.disk = [v.disk EXCEPT ![n] = b]
  BY <1>2
<1> HIDE DEF b
<1>4. /\ IsDisk(w.disk) /\ w.disk[n] = b
      /\ \A i \in Blocs : i # n => w.disk[i] = v.disk[i]
  BY <1>3, DiskSet DEF IsVolume
<1>5. IsVolume(w)
  <2>1. IsPast(w.passe)
    BY <1>2, PastGrows DEF IsVolume
  <2> QED
    BY <1>1, <1>2, <1>4, <2>1 DEF IsVolume, Fats
<1> QED
  BY <1>2, <1>4, <1>5 DEF w, b

(* A free block is found if there is one. *)
LEMMA AllocFinds ==
  ASSUME NEW f \in Fats, Free(f) # {}
  PROVE  alloc_block(f) \in Blocs /\ f[alloc_block(f)] = FAT_FREE
<1>1. Free(f) \in SUBSET Nat
  BY ValuesTyped DEF Free
<1>2. alloc_block(f) \in Free(f)
  BY <1>1, LeastIs DEF alloc_block
<1> QED
  BY <1>2 DEF Free

-----------------------------------------------------------------------------
(* The blocks s[0], ..., s[n - 1] are the directory of v, and no name is   *)
(* in two of its entries.                                                  *)
PlacesOf(n) == 0 .. n * BLOCK_DIR_SIZE - 1
EntryOf(d, s, p) == d[s[p \div BLOCK_DIR_SIZE]][p % BLOCK_DIR_SIZE]
OnePlace(d, s, n) ==
  \A p, q \in PlacesOf(n) :
    /\ EntryOf(d, s, p).inode > 0 /\ EntryOf(d, s, q).inode > 0
    /\ EntryOf(d, s, p).name = EntryOf(d, s, q).name
    => p = q

IsDirectory(f, d, s, n) ==
  /\ f \in Fats /\ IsDisk(d)
  /\ IsChain(f, ADR_DIR, s, n)
  /\ \A k \in 0 .. n - 1 : d[s[k]] \in DirContents
  /\ OnePlace(d, s, n)

(* In terms of the operators of Repertoire. *)
LEMMA DirectoryIs ==
  ASSUME NEW v, NEW s, NEW n, IsDirectory(v.fat, v.disk, s, n)
  PROVE  /\ n \in Nat \ {0} /\ s[0] = ADR_DIR
         /\ Places(v) = PlacesOf(n)
         /\ \A p \in PlacesOf(n) : /\ DirBlock(v, p) = s[p \div BLOCK_DIR_SIZE]
                                  /\ p \div BLOCK_DIR_SIZE \in 0 .. n - 1
                                  /\ p % BLOCK_DIR_SIZE \in 0 .. BLOCK_DIR_SIZE - 1
                                  /\ Entry(v, p) = EntryOf(v.disk, s, p)
                                  /\ Entry(v, p) \in Entries
<1>1. n \in Nat /\ IsChain(v.fat, ADR_DIR, s, n) /\ v.fat \in Fats /\ ADR_DIR \in Values
      /\ \A k \in 0 .. n - 1 : v.disk[s[k]] \in DirContents
  BY ValuesTyped DEF IsDirectory, IsChain
<1>2. n # 0 /\ s[0] = ADR_DIR
  BY <1>1, ValuesTyped DEF IsChain
<1>3. Places(v) = PlacesOf(n)
  <2>1. Cardinality(ChainBlocks(v.fat, ADR_DIR)) = n
    BY <1>1, ChainFacts
  <2> QED
    BY <2>1 DEF Places, PlacesOf
<1>4. ASSUME NEW p \in PlacesOf(n)
      PROVE  /\ DirBlock(v, p) = s[p \div BLOCK_DIR_SIZE]
             /\ p \div BLOCK_DIR_SIZE \in 0 .. n - 1
             /\ p % BLOCK_DIR_SIZE \in 0 .. BLOCK_DIR_SIZE - 1
  <2>1. p \div BLOCK_DIR_SIZE \in 0 .. n - 1 /\ p % BLOCK_DIR_SIZE \in 0 .. BLOCK_DIR_SIZE - 1
    BY <1>1, PlacesAre DEF PlacesOf
  <2>2. \A k \in Nat : Walk(v.fat, ADR_DIR, k) = IF k < n THEN s[k] ELSE FAT_EOF
    BY <1>1, ChainWalk
  <2>3. p \div BLOCK_DIR_SIZE \in Nat /\ p \div BLOCK_DIR_SIZE < n
    BY <1>1, <2>1
  <2> QED
    BY <2>1, <2>2, <2>3 DEF DirBlock
<1>5. ASSUME NEW p \in PlacesOf(n)
      PROVE  Entry(v, p) = EntryOf(v.disk, s, p) /\ Entry(v, p) \in Entries
  <2>1. Entry(v, p) = EntryOf(v.disk, s, p)
    BY <1>4 DEF Entry, EntryOf
  <2>2. v.disk[s[p \div BLOCK_DIR_SIZE]] \in DirContents
    BY <1>1, <1>4
  <2> QED
    BY <1>4, <2>1, <2>2 DEF EntryOf, DirContents
<1> QED
  BY <1>1, <1>2, <1>3, <1>4, <1>5

HasName(d, s, p, nom) == EntryOf(d, s, p).inode > 0 /\ EntryOf(d, s, p).name = nom

(* find_inode() sees the entry of a name, which is the only one. *)
LEMMA Finds ==
  ASSUME NEW v, NEW s, NEW n, IsDirectory(v.fat, v.disk, s, n), NEW nom
  PROVE  /\ Named(v, nom) = {p \in PlacesOf(n) : HasName(v.disk, s, p, nom)}
         /\ Unused(v) = {p \in PlacesOf(n) : EntryOf(v.disk, s, p).inode <= 0}
         /\ \A p \in PlacesOf(n) : HasName(v.disk, s, p, nom) =>
              /\ Named(v, nom) = {p} /\ Min(Named(v, nom)) = p
              /\ find_inode(v, nom) = EntryOf(v.disk, s, p).inode
         /\ (\A p \in PlacesOf(n) : ~HasName(v.disk, s, p, nom)) =>
              Named(v, nom) = {} /\ find_inode(v, nom) = -1
         /\ find_inode(v, nom) # -1 =>
              \E p \in PlacesOf(n) : /\ HasName(v.disk, s, p, nom)
                                   /\ find_inode(v, nom) = EntryOf(v.disk, s, p).inode
<1>1. Named(v, nom) = {p \in PlacesOf(n) : HasName(v.disk, s, p, nom)}
  BY DirectoryIs, ZenonT(60) DEF Named, HasName
<1>2. Unused(v) = {p \in PlacesOf(n) : EntryOf(v.disk, s, p).inode <= 0}
  BY DirectoryIs, ZenonT(60) DEF Unused
<1>3. ASSUME NEW p \in PlacesOf(n), HasName(v.disk, s, p, nom)
      PROVE  /\ Named(v, nom) = {p} /\ Min(Named(v, nom)) = p
             /\ find_inode(v, nom) = EntryOf(v.disk, s, p).inode
  <2>1. \A q \in PlacesOf(n) : HasName(v.disk, s, q, nom) => q = p
    BY <1>3 DEF IsDirectory, OnePlace, HasName
  <2>2. Named(v, nom) = {p}
    BY <1>1, <1>3, <2>1
  <2>3. n \in Nat /\ PlacesOf(n) \subseteq Nat
    BY DirectoryIs, PlacesAre DEF PlacesOf
  <2>4. Min({p}) = p
    BY <2>3, LeastIs
  <2>5. Entry(v, p) = EntryOf(v.disk, s, p)
    BY DirectoryIs
  <2> QED
    BY <2>2, <2>4, <2>5 DEF find_inode
<1>4. ASSUME \A p \in PlacesOf(n) : ~HasName(v.disk, s, p, nom)
      PROVE  Named(v, nom) = {} /\ find_inode(v, nom) = -1
  BY <1>1, <1>4 DEF find_inode
<1> QED
  BY <1>1, <1>2, <1>3, <1>4

(* find_inode returns an inode or -1. *)
LEMMA FindTyped ==
  ASSUME NEW v, NEW s, NEW n, IsDirectory(v.fat, v.disk, s, n), NEW nom
  PROVE  find_inode(v, nom) \in Nat \ {0} \/ find_inode(v, nom) = -1
<1>1. ASSUME NEW p \in PlacesOf(n), HasName(v.disk, s, p, nom),
             find_inode(v, nom) = EntryOf(v.disk, s, p).inode
      PROVE  find_inode(v, nom) \in Nat \ {0}
  <2>1. EntryOf(v.disk, s, p) \in Entries
    BY DirectoryIs, ZenonT(60)
  <2> QED
    BY <1>1, <2>1 DEF HasName, Entries
<1> QED
  BY <1>1, Finds

(* A directory stays as it is when its blocks do, and with it what it says. *)
LEMMA DirectoryKept ==
  ASSUME NEW f, NEW d, NEW s, NEW n, IsDirectory(f, d, s, n),
         NEW g \in Fats, NEW e, IsDisk(e),
         \A k \in 0 .. n - 1 : g[s[k]] = f[s[k]] /\ e[s[k]] = d[s[k]]
  PROVE  IsDirectory(g, e, s, n) /\ \A p \in PlacesOf(n) : EntryOf(e, s, p) = EntryOf(d, s, p)
<1>1. n \in Nat
  BY DEF IsDirectory, IsChain
<1>2. \A p \in PlacesOf(n) : EntryOf(e, s, p) = EntryOf(d, s, p)
  BY <1>1, PlacesAre DEF EntryOf, PlacesOf
<1>3. OnePlace(e, s, n)
  BY <1>2 DEF OnePlace, IsDirectory
<1>4. IsChain(g, ADR_DIR, s, n)
  BY <1>1 DEF IsDirectory, IsChain
<1> QED
  BY <1>2, <1>3, <1>4 DEF IsDirectory

(* The places of a name in one directory are so in another. *)
SamePlaces(v, s, n, w, t, k, nom) ==
  \A p \in PlacesOf(n) : HasName(v.disk, s, p, nom) =>
    p \in PlacesOf(k) /\ EntryOf(w.disk, t, p) = EntryOf(v.disk, s, p)
HasDirectory(v, s, n) == IsDirectory(v.fat, v.disk, s, n)

(* Two directories with the same used entries give the same answers. *)
LEMMA SameListing ==
  ASSUME NEW v, NEW s, NEW n, HasDirectory(v, s, n),
         NEW w, NEW t, NEW k, HasDirectory(w, t, k),
         NEW nom, SamePlaces(v, s, n, w, t, k, nom), SamePlaces(w, t, k, v, s, n, nom)
  PROVE  find_inode(w, nom) = find_inode(v, nom)
<1> USE DEF HasDirectory
<1>1. CASE \E p \in PlacesOf(n) : HasName(v.disk, s, p, nom)
  <2>1. PICK p \in PlacesOf(n) : HasName(v.disk, s, p, nom)
    BY <1>1
  <2>2. HasName(w.disk, t, p, nom) /\ p \in PlacesOf(k)
        /\ EntryOf(w.disk, t, p) = EntryOf(v.disk, s, p)
    BY <2>1 DEF HasName, SamePlaces
  <2>3. find_inode(v, nom) = EntryOf(v.disk, s, p).inode
    BY <2>1, Finds
  <2>4. find_inode(w, nom) = EntryOf(w.disk, t, p).inode
    BY <2>2, Finds
  <2> QED
    BY <2>2, <2>3, <2>4
<1>2. CASE \A p \in PlacesOf(n) : ~HasName(v.disk, s, p, nom)
  <2>1. \A p \in PlacesOf(k) : ~HasName(w.disk, t, p, nom)
    BY <1>2 DEF HasName, SamePlaces
  <2> QED
    BY <1>2, <2>1, Finds
<1> QED
  BY <1>1, <1>2

-----------------------------------------------------------------------------
(* A volume and the next, where one place has changed; its only name. *)
ChangedAt(v, s, n, w, t, k, p) ==
  /\ PlacesOf(n) \subseteq PlacesOf(k) /\ p \in PlacesOf(k)
  /\ \A q \in PlacesOf(n) : q # p => EntryOf(w.disk, t, q) = EntryOf(v.disk, s, q)
  /\ \A q \in PlacesOf(k) : q \notin PlacesOf(n) /\ q # p => EntryOf(w.disk, t, q).inode = 0
OnlyNamed(v, s, n, p, nom) ==
  /\ p \in PlacesOf(n) /\ EntryOf(v.disk, s, p).inode > 0 => EntryOf(v.disk, s, p).name = nom
  /\ \A q \in PlacesOf(n) : HasName(v.disk, s, q, nom) => q = p

(* An entry is set: of a name that is in no other, if it is in use. *)
OnlyUsed(v, s, n, p, e) == e.inode > 0 => OnlyNamed(v, s, n, p, e.name)

(* One entry of the directory is written. *)
LEMMA EntrySet ==
  ASSUME NEW v, IsVolume(v), NEW s, NEW n, HasDirectory(v, s, n),
         NEW p \in PlacesOf(n), NEW e \in Entries,
         OnlyUsed(v, s, n, p, e), NEW w, w = SetEntry(v, p, e)
  PROVE  /\ IsVolume(w) /\ w.fat = v.fat /\ HasDirectory(w, s, n)
         /\ s[p \div BLOCK_DIR_SIZE] \in Blocs
         /\ \A i \in Blocs : i # s[p \div BLOCK_DIR_SIZE] => w.disk[i] = v.disk[i]
         /\ EntryOf(w.disk, s, p) = e
         /\ \A q \in PlacesOf(n) : q # p => EntryOf(w.disk, s, q) = EntryOf(v.disk, s, q)
         /\ w.passe = Append(v.passe, OnDisk(v))
<1> USE DEF HasDirectory, OnlyUsed
<1> DEFINE m == p \div BLOCK_DIR_SIZE
           j == p % BLOCK_DIR_SIZE
           b == [v.disk[s[m]] EXCEPT ![j] = e]
<1>1. /\ n \in Nat /\ s \in [0 .. n - 1 -> Blocs] /\ m \in 0 .. n - 1
      /\ j \in 0 .. BLOCK_DIR_SIZE - 1 /\ DirBlock(v, p) = s[m]
      /\ \A k \in 0 .. n - 1 : v.disk[s[k]] \in DirContents
      /\ \A a, c \in 0 .. n - 1 : s[a] = s[c] => a = c
  BY DirectoryIs, ZenonT(60) DEF IsDirectory, IsChain
<1>2. w = write_block(v, s[m], b)
  BY <1>1 DEF SetEntry
<1>3. b \in DirContents /\ b[j] = e
      /\ \A i \in 0 .. BLOCK_DIR_SIZE - 1 : i # j => b[i] = v.disk[s[m]][i]
  BY <1>1 DEF DirContents
<1> HIDE DEF b
<1>4. /\ IsVolume(w) /\ w.fat = v.fat /\ w.disk[s[m]] = b
      /\ \A i \in Blocs : i # s[m] => w.disk[i] = v.disk[i]
      /\ w.passe = Append(v.passe, OnDisk(v))
  BY <1>1, <1>2, BlockWritten
<1>5. \A q \in PlacesOf(n) : /\ q \in Nat /\ q \div BLOCK_DIR_SIZE \in 0 .. n - 1
                            /\ q % BLOCK_DIR_SIZE \in 0 .. BLOCK_DIR_SIZE - 1
  BY <1>1, PlacesAre DEF PlacesOf
<1>6. EntryOf(w.disk, s, p) = e
  BY <1>3, <1>4 DEF EntryOf
<1>7. ASSUME NEW q \in PlacesOf(n), q # p
      PROVE  EntryOf(w.disk, s, q) = EntryOf(v.disk, s, q)
  <2>1. CASE q \div BLOCK_DIR_SIZE = m
    <3>1. q % BLOCK_DIR_SIZE # j
      BY <1>1, <1>5, <1>7, <2>1, PlacesAre
    <3> QED
      BY <1>3, <1>4, <1>5, <2>1, <3>1 DEF EntryOf
  <2>2. CASE q \div BLOCK_DIR_SIZE # m
    <3>1. s[q \div BLOCK_DIR_SIZE] # s[m] /\ s[q \div BLOCK_DIR_SIZE] \in Blocs
      BY <1>1, <1>5, <2>2
    <3> QED
      BY <1>4, <3>1 DEF EntryOf
  <2> QED
    BY <2>1, <2>2
<1>8. OnePlace(w.disk, s, n)
  <2> SUFFICES ASSUME NEW q \in PlacesOf(n), NEW r \in PlacesOf(n),
                      EntryOf(w.disk, s, q).inode > 0, EntryOf(w.disk, s, r).inode > 0,
                      EntryOf(w.disk, s, q).name = EntryOf(w.disk, s, r).name
               PROVE  q = r
    BY DEF OnePlace
  <2>1. CASE q # p /\ r # p
    BY <1>7, <2>1 DEF IsDirectory, OnePlace
  <2>2. CASE q = p
    BY <1>6, <1>7, <2>2 DEF HasName, OnlyNamed
  <2>3. CASE r = p
    BY <1>6, <1>7, <2>3 DEF HasName, OnlyNamed
  <2> QED
    BY <2>1, <2>2, <2>3
<1>9. IsDirectory(w.fat, w.disk, s, n)
  <2>1. w.fat \in Fats /\ IsDisk(w.disk)
    BY <1>4 DEF IsVolume
  <2>2. \A k \in 0 .. n - 1 : w.disk[s[k]] \in DirContents
    BY <1>1, <1>3, <1>4
  <2> QED
    BY <1>4, <1>8, <2>1, <2>2 DEF IsDirectory
<1> QED
  BY <1>1, <1>4, <1>6, <1>7, <1>9

Extended(s, n, a) == [j \in 0 .. n |-> IF j = n THEN a ELSE s[j]]

(* A chain whose last block is linked to a block outside it. *)
LEMMA ChainExtended ==
  ASSUME NEW f \in Fats, NEW a \in Values, NEW s, NEW n, IsChain(f, a, s, n), n # 0,
         NEW b \in Blocs, b \notin ChainSet(s, n), NEW g \in Fats,
         g[b] = FAT_EOF, g[s[n - 1]] = b, \A k \in 0 .. n - 2 : g[s[k]] = f[s[k]]
  PROVE  IsChain(g, a, Extended(s, n, b), n + 1)
<1> DEFINE t == Extended(s, n, b)
<1>1. /\ n \in Nat /\ n - 1 \in 0 .. n - 1 /\ s \in [0 .. n - 1 -> Blocs] /\ a = s[0]
      /\ \A k \in 0 .. n - 2 : k \in 0 .. n - 1 /\ k + 1 \in 0 .. n - 1 /\ f[s[k]] = s[k + 1]
      /\ \A j, k \in 0 .. n - 1 : s[j] = s[k] => j = k
  BY DEF IsChain
<1>2. \A j \in 0 .. n - 1 : s[j] # b /\ s[j] \in Blocs
  BY <1>1 DEF ChainSet
<1>3. t[n] = b /\ \A j \in 0 .. n - 1 : t[j] = s[j] /\ j \in 0 .. n
  BY <1>1 DEF Extended
<1>4. t \in [0 .. n -> Blocs]
  BY <1>1 DEF Extended
<1> HIDE DEF t
<1>5. a = t[0] /\ g[t[n]] = FAT_EOF
  BY <1>1, <1>3
<1>6. \A k \in 0 .. n - 1 : g[t[k]] = t[k + 1]
  <2> TAKE k \in 0 .. n - 1
  <2>1. CASE k = n - 1
    BY <1>1, <1>3, <2>1
  <2>2. CASE k \in 0 .. n - 2
    BY <1>1, <1>3, <2>2
  <2> QED
    BY <1>1, <2>1, <2>2
<1>7. \A j, k \in 0 .. n : t[j] = t[k] => j = k
  <2> TAKE j \in 0 .. n, k \in 0 .. n
  <2>1. CASE j = n
    BY <1>1, <1>2, <1>3, <2>1
  <2>2. CASE k = n
    BY <1>1, <1>2, <1>3, <2>2
  <2>3. CASE j \in 0 .. n - 1 /\ k \in 0 .. n - 1
    BY <1>1, <1>3, <2>3
  <2> QED
    BY <1>1, <2>1, <2>2, <2>3
<1>8. (n + 1) - 1 = n /\ (n + 1) - 2 = n - 1 /\ n + 1 \in Nat /\ n + 1 # 0
  BY <1>1
<1>9. IsChain(g, a, t, n + 1)
  BY <1>4, <1>5, <1>6, <1>7, <1>8 DEF IsChain
<1> QED
  BY <1>9 DEF t

NotNamed(v, s, n, nom) == \A q \in PlacesOf(n) : ~HasName(v.disk, s, q, nom)

(* The places of one more directory block. *)
LEMMA PlacesGrow ==
  ASSUME NEW n \in Nat
  PROVE  /\ n * BLOCK_DIR_SIZE \in Nat
         /\ (n * BLOCK_DIR_SIZE) \div BLOCK_DIR_SIZE = n /\ (n * BLOCK_DIR_SIZE) % BLOCK_DIR_SIZE = 0
         /\ \A q \in n * BLOCK_DIR_SIZE .. n * BLOCK_DIR_SIZE + BLOCK_DIR_SIZE - 1 :
              q \div BLOCK_DIR_SIZE = n /\ q % BLOCK_DIR_SIZE = q - n * BLOCK_DIR_SIZE
         /\ PlacesOf(n) = 0 .. n * BLOCK_DIR_SIZE - 1
         /\ PlacesOf(n + 1) = 0 .. n * BLOCK_DIR_SIZE + BLOCK_DIR_SIZE - 1
<1>1. /\ n * BLOCK_DIR_SIZE \in Nat
      /\ (n * BLOCK_DIR_SIZE) \div BLOCK_DIR_SIZE = n /\ (n * BLOCK_DIR_SIZE) % BLOCK_DIR_SIZE = 0
  BY PlacesAre
<1>2. (n + 1) * BLOCK_DIR_SIZE = n * BLOCK_DIR_SIZE + BLOCK_DIR_SIZE
  BY PlacesAre
<1>3. \A q \in n * BLOCK_DIR_SIZE .. (n + 1) * BLOCK_DIR_SIZE - 1 :
        q \div BLOCK_DIR_SIZE = n /\ q % BLOCK_DIR_SIZE = q - n * BLOCK_DIR_SIZE
  BY PlacesAre
<1> DEFINE nc == n * BLOCK_DIR_SIZE
           mc == (n + 1) * BLOCK_DIR_SIZE
<1>4. /\ mc = nc + BLOCK_DIR_SIZE
      /\ \A q \in nc .. mc - 1 : q \div BLOCK_DIR_SIZE = n /\ q % BLOCK_DIR_SIZE = q - nc
      /\ PlacesOf(n) = 0 .. nc - 1 /\ PlacesOf(n + 1) = 0 .. mc - 1
  BY <1>2, <1>3 DEF PlacesOf
<1> HIDE DEF nc, mc
<1>5. nc .. nc + BLOCK_DIR_SIZE - 1 = nc .. mc - 1
      /\ 0 .. nc + BLOCK_DIR_SIZE - 1 = 0 .. mc - 1
  <2>1. mc = nc + BLOCK_DIR_SIZE
    BY <1>4
  <2>2. nc \in Nat /\ mc \in Int /\ BLOCK_DIR_SIZE \in Nat
    BY <1>1, <2>1, RepertoireAssumption DEF nc
  <2> QED
    BY <2>1, <2>2
<1>6. \A q \in nc .. nc + BLOCK_DIR_SIZE - 1 :
        q \div BLOCK_DIR_SIZE = n /\ q % BLOCK_DIR_SIZE = q - nc
  BY <1>4, <1>5, Zenon
<1>7. PlacesOf(n) = 0 .. nc - 1 /\ PlacesOf(n + 1) = 0 .. nc + BLOCK_DIR_SIZE - 1
  BY <1>4, <1>5, Zenon
<1> QED
  BY <1>1, <1>6, <1>7, Zenon DEF nc

(* The directory gets a block more. *)
Grown(v, s, n, e, a, w, t) ==
  /\ a \in Blocs /\ v.fat[a] = FAT_FREE /\ a \notin ChainSet(s, n)
  /\ s[n - 1] \in ChainSet(s, n) /\ s[n - 1] \in Blocs /\ v.fat[s[n - 1]] = FAT_EOF
  /\ IsVolume(w) /\ HasDirectory(w, t, n + 1)
  /\ w.fat = [[v.fat EXCEPT ![a] = FAT_EOF] EXCEPT ![s[n - 1]] = a]
  /\ w.disk[a] \in DirContents /\ \A i \in Blocs : i # a => w.disk[i] = v.disk[i]
  /\ PlacesOf(n) \subseteq PlacesOf(n + 1) /\ n * BLOCK_DIR_SIZE \in PlacesOf(n + 1)
  /\ n * BLOCK_DIR_SIZE \notin PlacesOf(n)
  /\ EntryOf(w.disk, t, n * BLOCK_DIR_SIZE) = e
  /\ \A q \in PlacesOf(n) : EntryOf(w.disk, t, q) = EntryOf(v.disk, s, q)
  /\ \A q \in PlacesOf(n + 1) : q \notin PlacesOf(n) /\ q # n * BLOCK_DIR_SIZE =>
       EntryOf(w.disk, t, q).inode = 0
  /\ w.passe = Append(Append(Append(v.passe, OnDisk(v)),
                       [fat |-> v.fat, disk |-> w.disk]),
                       [fat |-> [v.fat EXCEPT ![a] = FAT_EOF], disk |-> w.disk])

(* add_inode on a full directory: a block is added to it, with the entry. *)
LEMMA DirectoryGrown ==
  ASSUME NEW v, IsVolume(v), NEW s, NEW n, HasDirectory(v, s, n),
         NEW e \in Entries, e.inode > 0,
         NotNamed(v, s, n, e.name),
         Free(v.fat) # {},
         NEW a, a = alloc_block(v.fat), NEW w, w = GrowDir(v, e),
         NEW t, t = Extended(s, n, a)
  PROVE  Grown(v, s, n, e, a, w, t)
<1> USE DEF HasDirectory, NotNamed, Grown
<1> DEFINE c == BLOCK_DIR_SIZE
           padr == DirBlock(v, Max(Places(v)))
           b == [EmptyDir EXCEPT ![0] = e]
           v1 == write_block(v, a, b)
           v2 == set_fat(v1, a, FAT_EOF)
<1>1. /\ n \in Nat /\ n # 0 /\ s \in [0 .. n - 1 -> Blocs] /\ n - 1 \in 0 .. n - 1
      /\ v.fat[s[n - 1]] = FAT_EOF /\ v.fat \in Fats
      /\ \A k \in 0 .. n - 1 : v.disk[s[k]] \in DirContents
      /\ \A k \in 0 .. n - 2 : k \in 0 .. n - 1 /\ v.fat[s[k]] = s[k + 1] /\ s[k + 1] \in Blocs
                               /\ s[k] # s[n - 1]
      /\ IsChain(v.fat, ADR_DIR, s, n)
  <2>1. /\ v.fat \in Fats /\ IsChain(v.fat, ADR_DIR, s, n)
        /\ \A k \in 0 .. n - 1 : v.disk[s[k]] \in DirContents
    BY DEF IsDirectory
  <2>2. n \in Nat \ {0}
    BY DirectoryIs
  <2>3. \A k \in 0 .. n - 2 : k \in 0 .. n - 1 /\ k + 1 \in 0 .. n - 1 /\ k # n - 1
    BY <2>2
  <2> QED
    BY <2>1, <2>2, <2>3 DEF IsChain
<1>2. a \in Blocs /\ v.fat[a] = FAT_FREE
  BY <1>1, AllocFinds
<1>3. ASSUME NEW k \in 0 .. n - 1
      PROVE  s[k] # a /\ s[k] \in Blocs
  <2> HIDE DEF c, padr, b, v1, v2
  <2>1. s[k] \in Blocs
    BY <1>1
  <2>2. CASE k = n - 1
    BY <1>1, <1>2, <2>1, <2>2, ValuesTyped, Zenon
  <2>3. CASE k # n - 1
    <3>1. k \in 0 .. n - 2
      BY <1>1, <2>3
    <3>2. v.fat[s[k]] \in Blocs
      BY <1>1, <3>1, Zenon
    <3>3. FAT_FREE \notin Blocs
      BY ValuesTyped
    <3> QED
      BY <1>2, <2>1, <3>2, <3>3, Zenon
  <2> QED
    BY <2>2, <2>3
<1>4. c \in Nat \ {0} /\ 0 \in 0 .. c - 1
  BY RepertoireAssumption
<1>5. padr = s[n - 1]
  <2>0. IsDirectory(v.fat, v.disk, s, n)
    BY <1>1 DEF HasDirectory
  <2>1. /\ Places(v) = 0 .. n * c - 1
        /\ \A p \in 0 .. n * c - 1 : DirBlock(v, p) = s[p \div c]
    <3>1. Places(v) = PlacesOf(n) /\ \A p \in PlacesOf(n) : DirBlock(v, p) = s[p \div BLOCK_DIR_SIZE]
      BY <2>0, DirectoryIs
    <3> HIDE DEF padr, b, v1, v2
    <3>2. PlacesOf(n) = 0 .. n * c - 1
      BY DEF PlacesOf
    <3> QED
      BY <3>1, <3>2, Zenon
  <2>2. /\ n * c \in Nat /\ (n - 1) * c \in Nat /\ n * c = (n - 1) * c + c
        /\ \A p \in (n - 1) * c .. ((n - 1) + 1) * c - 1 : p \div c = n - 1
        /\ (n - 1) + 1 = n
    <3>1. n - 1 \in Nat /\ (n - 1) + 1 = n
      BY <1>1
    <3>2. /\ (n - 1) * c \in Nat /\ ((n - 1) + 1) * c = (n - 1) * c + c
          /\ \A p \in (n - 1) * c .. ((n - 1) + 1) * c - 1 : p \div c = n - 1
      BY <3>1, PlacesAre
    <3>3. n * c \in Nat
      BY <1>1, PlacesAre
    <3> QED
      BY <3>1, <3>2, <3>3
  <2> DEFINE nc == n * c
             mc == (n - 1) * c
  <2>3. nc \in Nat /\ mc \in Nat /\ nc = mc + c /\ \A p \in mc .. nc - 1 : p \div c = n - 1
    BY <2>2
  <2> HIDE DEF nc, mc, c
  <2>4. Max(0 .. nc - 1) = nc - 1
    <3>1. nc - 1 \in Nat /\ nc - 1 \in 0 .. nc - 1
      BY <1>4, <2>3
    <3>2. Max(0 .. nc - 1) \in 0 .. nc - 1 /\ \A y \in 0 .. nc - 1 : Max(0 .. nc - 1) >= y
      BY <3>1, GreatestIs
    <3> QED
      BY <2>3, <3>1, <3>2
  <2>5. nc - 1 \in mc .. nc - 1 /\ nc - 1 \in 0 .. nc - 1
    BY <1>4, <2>3
  <2> QED
    BY <2>1, <2>3, <2>4, <2>5 DEF nc
<1>6. /\ b \in DirContents /\ b[0] = e
      /\ \A i \in 0 .. c - 1 : i # 0 => b[i].inode = 0
  <2>1. [name |-> NoName, inode |-> 0] \in Entries
    BY DEF Entries
  <2>2. EmptyDir \in DirContents /\ \A i \in 0 .. c - 1 : EmptyDir[i].inode = 0
    BY <2>1 DEF EmptyDir, DirContents
  <2> QED
    BY <1>4, <2>2 DEF DirContents
<1> HIDE DEF b, padr
<1>7. /\ IsVolume(v1) /\ v1.fat = v.fat /\ v1.disk[a] = b
      /\ \A i \in Blocs : i # a => v1.disk[i] = v.disk[i]
      /\ v1.passe = Append(v.passe, OnDisk(v))
  BY <1>2, BlockWritten
<1> HIDE DEF v1
<1>8. /\ IsVolume(v2) /\ v2.fat = [v.fat EXCEPT ![a] = FAT_EOF]
      /\ \A i \in Blocs : v2.disk[i] = v1.disk[i]
      /\ v2.passe = Append(v1.passe, OnDisk(v1))
  <2>1. FAT_EOF \in Values /\ FAT_EOF # FAT_FREE
    BY ValuesTyped
  <2>2. /\ IsVolume(v2) /\ v2.fat = [v1.fat EXCEPT ![a] = FAT_EOF]
        /\ v2.disk[a] = IF FAT_EOF = FAT_FREE THEN Blank ELSE v1.disk[a]
        /\ \A i \in Blocs : i # a => v2.disk[i] = v1.disk[i]
        /\ v2.passe = Append(v1.passe, OnDisk(v1))
    BY <1>2, <1>7, <2>1, FatSet
  <2> QED
    BY <1>7, <2>1, <2>2
<1> HIDE DEF v2
<1>9. w = set_fat(v2, s[n - 1], a)
  BY <1>5 DEF GrowDir, v2, v1, b, padr
<1>10. /\ IsVolume(w) /\ w.fat = [v2.fat EXCEPT ![s[n - 1]] = a]
       /\ \A i \in Blocs : w.disk[i] = v2.disk[i]
       /\ w.passe = Append(v2.passe, OnDisk(v2))
  <2>1. s[n - 1] \in Blocs /\ a \in Values /\ a # FAT_FREE
    BY <1>1, <1>2, ValuesTyped
  <2> QED
    <3> DEFINE x == s[n - 1]
    <3>1. x \in Blocs /\ w = set_fat(v2, x, a)
      BY <1>9, <2>1
    <3> HIDE DEF x
    <3>2. /\ IsVolume(w) /\ w.fat = [v2.fat EXCEPT ![x] = a]
          /\ w.disk[x] = IF a = FAT_FREE THEN Blank ELSE v2.disk[x]
          /\ \A i \in Blocs : i # x => w.disk[i] = v2.disk[i]
          /\ w.passe = Append(v2.passe, OnDisk(v2))
      BY <1>8, <2>1, <3>1, FatSet
    <3> QED
      BY <2>1, <3>2 DEF x
<1>11. /\ w.disk[a] = b /\ \A i \in Blocs : i # a => w.disk[i] = v.disk[i]
       /\ IsDisk(w.disk) /\ w.fat \in Fats
  BY <1>2, <1>7, <1>8, <1>10 DEF IsVolume
<1>12. a \notin ChainSet(s, n) /\ s[n - 1] \in ChainSet(s, n)
  BY <1>1, <1>3 DEF ChainSet
<1>13. IsChain(w.fat, ADR_DIR, t, n + 1)
  <2>1. w.fat[a] = FAT_EOF /\ w.fat[s[n - 1]] = a /\ \A k \in 0 .. n - 2 : w.fat[s[k]] = v.fat[s[k]]
    BY <1>1, <1>2, <1>3, <1>8, <1>10 DEF Fats
  <2> QED
    BY <1>1, <1>2, <1>11, <1>12, <2>1, ChainExtended, ValuesTyped
<1>14. \A k \in 0 .. n - 1 : t[k] = s[k] /\ w.disk[t[k]] = v.disk[s[k]]
  BY <1>1, <1>3, <1>11 DEF Extended
<1>15. t[n] = a
  BY <1>1 DEF Extended
<1>16. \A q \in PlacesOf(n) : EntryOf(w.disk, t, q) = EntryOf(v.disk, s, q)
  BY <1>1, <1>14, PlacesAre DEF EntryOf, PlacesOf
<1> DEFINE nc == n * c
<1>17. /\ nc \in Nat /\ nc \div c = n /\ nc % c = 0
       /\ \A q \in nc .. nc + c - 1 : q \div c = n /\ q % c = q - nc
       /\ PlacesOf(n) = 0 .. nc - 1 /\ PlacesOf(n + 1) = 0 .. nc + c - 1
  BY <1>1, PlacesGrow, Zenon
<1> HIDE DEF nc, c
<1>18. nc \in Nat /\ PlacesOf(n) = 0 .. nc - 1 /\ PlacesOf(n + 1) = 0 .. nc + c - 1
  BY <1>17, Zenon
<1>19. /\ PlacesOf(n) \subseteq PlacesOf(n + 1) /\ nc \in PlacesOf(n + 1)
       /\ nc \notin PlacesOf(n)
  BY <1>4, <1>18
<1>20. EntryOf(w.disk, t, nc) = e
  BY <1>6, <1>11, <1>15, <1>17 DEF EntryOf, c
<1>21. ASSUME NEW q \in PlacesOf(n + 1), q \notin PlacesOf(n), q # nc
       PROVE  EntryOf(w.disk, t, q).inode = 0
  <2>1. q \in nc .. nc + c - 1
    BY <1>4, <1>18, <1>21
  <2>2. q \div c = n /\ q % c = q - nc
    BY <1>17, <2>1, Zenon
  <2>3. q - nc \in 0 .. c - 1 /\ q - nc # 0
    BY <1>4, <1>17, <1>21, <2>1
  <2> QED
    BY <1>6, <1>11, <1>15, <2>2, <2>3 DEF EntryOf, c
<1>22. OnePlace(w.disk, t, n + 1)
  <2> SUFFICES ASSUME NEW q \in PlacesOf(n + 1), NEW r \in PlacesOf(n + 1),
                      EntryOf(w.disk, t, q).inode > 0, EntryOf(w.disk, t, r).inode > 0,
                      EntryOf(w.disk, t, q).name = EntryOf(w.disk, t, r).name
               PROVE  q = r
    BY DEF OnePlace
  <2>1. (q \in PlacesOf(n) \/ q = nc) /\ (r \in PlacesOf(n) \/ r = nc)
    BY <1>21
  <2>2. CASE q \in PlacesOf(n) /\ r \in PlacesOf(n)
    BY <1>16, <2>2 DEF IsDirectory, OnePlace
  <2>3. CASE q = nc /\ r \in PlacesOf(n)
    BY <1>16, <1>20, <2>3 DEF HasName
  <2>4. CASE r = nc /\ q \in PlacesOf(n)
    BY <1>16, <1>20, <2>4 DEF HasName
  <2> QED
    BY <2>1, <2>2, <2>3, <2>4
<1>23. IsDirectory(w.fat, w.disk, t, n + 1)
  <2>1. \A k \in 0 .. (n + 1) - 1 : w.disk[t[k]] \in DirContents
    <3>1. \A k \in 0 .. (n + 1) - 1 : k \in 0 .. n - 1 \/ k = n
      BY <1>1
    <3> QED
      BY <1>1, <1>6, <1>11, <1>14, <1>15, <3>1
  <2> QED
    BY <1>11, <1>13, <1>22, <2>1 DEF IsDirectory
<1>24. /\ w.fat = [[v.fat EXCEPT ![a] = FAT_EOF] EXCEPT ![s[n - 1]] = a]
       /\ w.passe = Append(Append(Append(v.passe, OnDisk(v)),
                                  [fat |-> v.fat, disk |-> v1.disk]),
                                  [fat |-> [v.fat EXCEPT ![a] = FAT_EOF], disk |-> v2.disk])
       /\ IsDisk(v1.disk) /\ IsDisk(v2.disk) /\ IsDisk(w.disk)
  BY <1>7, <1>8, <1>10 DEF OnDisk, IsVolume
<1>25. v1.disk = w.disk /\ v2.disk = w.disk
  <2>1. \A i \in Blocs : v1.disk[i] = w.disk[i] /\ v2.disk[i] = w.disk[i]
    BY <1>8, <1>10
  <2> QED
    BY <1>24, <2>1 DEF IsDisk
<1> QED
  BY <1>1, <1>2, <1>6, <1>8, <1>10, <1>11, <1>12, <1>17, <1>16, <1>19, <1>20, <1>21, <1>23, <1>24, <1>25 DEF nc, c

-----------------------------------------------------------------------------
(* What the directory says when one place has changed. *)
LEMMA Relisted ==
  ASSUME NEW v, NEW s, NEW n, HasDirectory(v, s, n),
         NEW w, NEW t, NEW k, HasDirectory(w, t, k),
         NEW p, ChangedAt(v, s, n, w, t, k, p), NEW nom, OnlyNamed(v, s, n, p, nom),
         EntryOf(w.disk, t, p).inode > 0 => EntryOf(w.disk, t, p).name = nom
  PROVE  /\ \A x : x # nom => find_inode(w, x) = find_inode(v, x)
         /\ find_inode(w, nom) = IF EntryOf(w.disk, t, p).inode > 0
                                 THEN EntryOf(w.disk, t, p).inode ELSE -1
<1> USE DEF HasDirectory, ChangedAt, OnlyNamed
<1>1. ASSUME NEW x, x # nom
      PROVE  find_inode(w, x) = find_inode(v, x)
  <2>1. ASSUME NEW q \in PlacesOf(n), HasName(v.disk, s, q, x)
        PROVE  q \in PlacesOf(k) /\ EntryOf(w.disk, t, q) = EntryOf(v.disk, s, q)
    BY <1>1, <2>1 DEF HasName
  <2>2. ASSUME NEW q \in PlacesOf(k), HasName(w.disk, t, q, x)
        PROVE  q \in PlacesOf(n) /\ EntryOf(w.disk, t, q) = EntryOf(v.disk, s, q)
    <3>1. q # p /\ q \in PlacesOf(n)
      BY <1>1, <2>2 DEF HasName
    <3> QED
      BY <3>1
  <2>3. SamePlaces(v, s, n, w, t, k, x) /\ SamePlaces(w, t, k, v, s, n, x)
    BY <2>1, <2>2 DEF SamePlaces
  <2> HIDE DEF HasDirectory, ChangedAt, OnlyNamed
  <2> QED
    BY <2>3, SameListing
<1>2. CASE EntryOf(w.disk, t, p).inode > 0
  <2>1. HasName(w.disk, t, p, nom)
    BY <1>2 DEF HasName
  <2>2. find_inode(w, nom) = EntryOf(w.disk, t, p).inode
    BY <2>1, Finds
  <2> QED
    BY <1>1, <1>2, <2>2
<1>3. CASE ~(EntryOf(w.disk, t, p).inode > 0)
  <2>1. ASSUME NEW q \in PlacesOf(k), HasName(w.disk, t, q, nom)
        PROVE  FALSE
    <3>1. q # p /\ q \in PlacesOf(n)
      BY <1>3, <2>1 DEF HasName
    <3>2. HasName(v.disk, s, q, nom)
      BY <2>1, <3>1 DEF HasName
    <3> QED
      BY <3>1, <3>2
  <2>2. find_inode(w, nom) = -1
    BY <2>1, Finds
  <2> QED
    BY <1>1, <1>3, <2>2
<1> QED
  BY <1>2, <1>3

(* What add_inode() does, in terms of places: it fails, sets an entry or   *)
(* adds a block.                                                           *)
LEMMA AddInode ==
  ASSUME NEW v, NEW s, NEW n, HasDirectory(v, s, n),
         NEW nom \in NOMS, NEW inode,
         NEW e, e = [name |-> nom, inode |-> inode], NEW add, add = add_inode(v, nom, inode)
  PROVE  \/ /\ add.vol = v /\ add.ret = -1
            /\ nom \in NOMS_LONGS \/ (Free(v.fat) = {} /\ find_inode(v, nom) = -1)
         \/ /\ nom \notin NOMS_LONGS
            /\ \E p \in PlacesOf(n) :
                 /\ add.vol = SetEntry(v, p, e) /\ add.ret = find_inode(v, nom)
                 /\ OnlyNamed(v, s, n, p, nom)
         \/ /\ nom \notin NOMS_LONGS
            /\ Free(v.fat) # {} /\ add.vol = GrowDir(v, e)
            /\ add.ret = -1 /\ find_inode(v, nom) = -1
            /\ NotNamed(v, s, n, nom)
<1> USE DEF HasDirectory
<1> DEFINE fails == [vol |-> v, ret |-> -1]
<1>1. add = CASE nom \in NOMS_LONGS -> fails
              [] nom \notin NOMS_LONGS /\ Named(v, nom) # {} ->
                   [vol |-> SetEntry(v, Min(Named(v, nom)), e), ret |-> find_inode(v, nom)]
              [] nom \notin NOMS_LONGS /\ Named(v, nom) = {} /\ Unused(v) # {} ->
                   [vol |-> SetEntry(v, Max(Unused(v)), e), ret |-> -1]
              [] OTHER -> IF Free(v.fat) = {} THEN fails ELSE [vol |-> GrowDir(v, e), ret |-> -1]
  BY DEF add_inode
<1>2. Named(v, nom) = {p \in PlacesOf(n) : HasName(v.disk, s, p, nom)}
  BY Finds
<1>3. CASE nom \in NOMS_LONGS
  <2>1. add = fails
    BY <1>1, <1>3
  <2> QED
    BY <1>3, <2>1
<1>4. CASE nom \notin NOMS_LONGS /\ Named(v, nom) # {}
  <2>1. PICK p \in PlacesOf(n) : HasName(v.disk, s, p, nom)
    BY <1>2, <1>4
  <2>2. Named(v, nom) = {p} /\ Min(Named(v, nom)) = p
    BY <2>1, Finds
  <2>3. add = [vol |-> SetEntry(v, Min(Named(v, nom)), e), ret |-> find_inode(v, nom)]
    BY <1>1, <1>4
  <2>4. add.vol = SetEntry(v, p, e) /\ add.ret = find_inode(v, nom)
    BY <2>2, <2>3
  <2>5. \A q \in PlacesOf(n) : HasName(v.disk, s, q, nom) => q = p
    BY <1>2, <2>2
  <2>6. EntryOf(v.disk, s, p).name = nom
    BY <2>1 DEF HasName
  <2> QED
    BY <1>4, <2>4, <2>5, <2>6 DEF OnlyNamed
<1>5. CASE nom \notin NOMS_LONGS /\ Named(v, nom) = {} /\ Unused(v) # {}
  <2>1. Unused(v) = {p \in PlacesOf(n) : EntryOf(v.disk, s, p).inode <= 0}
    BY Finds
  <2>2. n \in Nat /\ n * BLOCK_DIR_SIZE \in Nat /\ PlacesOf(n) = 0 .. n * BLOCK_DIR_SIZE - 1
    BY DirectoryIs, PlacesAre DEF PlacesOf
  <2>3. Unused(v) \subseteq 0 .. n * BLOCK_DIR_SIZE
    BY <2>1, <2>2
  <2>4. Max(Unused(v)) \in Unused(v)
    BY <1>5, <2>2, <2>3, GreatestIs
  <2>5. PICK p \in PlacesOf(n) : p = Max(Unused(v)) /\ EntryOf(v.disk, s, p).inode <= 0
    BY <2>1, <2>4
  <2>6. \A q \in PlacesOf(n) : ~HasName(v.disk, s, q, nom)
    BY <1>2, <1>5
  <2>7. find_inode(v, nom) = -1
    BY <2>6, Finds
  <2>8. add = [vol |-> SetEntry(v, Max(Unused(v)), e), ret |-> -1]
    BY <1>1, <1>5
  <2>9. add.vol = SetEntry(v, p, e) /\ add.ret = find_inode(v, nom)
    BY <2>5, <2>7, <2>8
  <2>10. ~(EntryOf(v.disk, s, p).inode > 0)
    <3>1. EntryOf(v.disk, s, p) \in Entries
      BY DirectoryIs, ZenonT(60)
    <3>2. EntryOf(v.disk, s, p).inode \in Nat
      BY <3>1 DEF Entries
    <3> QED
      BY <2>5, <3>2
  <2> QED
    BY <1>5, <2>6, <2>9, <2>10 DEF OnlyNamed
<1>6. CASE nom \notin NOMS_LONGS /\ Named(v, nom) = {} /\ Unused(v) = {}
  <2>1. \A q \in PlacesOf(n) : ~HasName(v.disk, s, q, nom)
    BY <1>2, <1>6
  <2>2. find_inode(v, nom) = -1
    BY <2>1, Finds
  <2>3. add = IF Free(v.fat) = {} THEN fails ELSE [vol |-> GrowDir(v, e), ret |-> -1]
    BY <1>1, <1>6
  <2>4. CASE Free(v.fat) = {}
    BY <2>2, <2>3, <2>4
  <2>5. CASE Free(v.fat) # {}
    <3>1. add.vol = GrowDir(v, e) /\ add.ret = -1
      BY <2>3, <2>5
    <3> QED
      BY <1>6, <2>1, <2>2, <2>5, <3>1 DEF NotNamed
  <2> QED
    BY <2>4, <2>5
<1> QED
  BY <1>3, <1>4, <1>5, <1>6

NoEntry == [name |-> NoName, inode |-> 0]

(* delete_inode empties the entry of that name, if there is one. *)
LEMMA DeleteInode ==
  ASSUME NEW v, NEW s, NEW n, HasDirectory(v, s, n), NEW nom
  PROVE  \/ delete_inode(v, nom) = v /\ find_inode(v, nom) = -1
         \/ \E p \in PlacesOf(n) : /\ HasName(v.disk, s, p, nom)
                                  /\ delete_inode(v, nom) = SetEntry(v, p, NoEntry)
<1> USE DEF HasDirectory
<1>1. Named(v, nom) = {p \in PlacesOf(n) : HasName(v.disk, s, p, nom)}
  BY Finds
<1>2. CASE Named(v, nom) = {}
  BY <1>2 DEF delete_inode, find_inode
<1>3. CASE Named(v, nom) # {}
  <2>1. PICK p \in PlacesOf(n) : HasName(v.disk, s, p, nom)
    BY <1>1, <1>3
  <2>2. Min(Named(v, nom)) = p
    BY <2>1, Finds
  <2>3. delete_inode(v, nom) = SetEntry(v, p, NoEntry)
    BY <1>3, <2>2 DEF delete_inode, NoEntry
  <2> QED
    BY <2>1, <2>3
<1> QED
  BY <1>2, <1>3

-----------------------------------------------------------------------------
(* What is neither free nor reserved nor an inode may be the directory's. *)
LEMMA DirectoryMarked ==
  ASSUME NEW f, NEW d, NEW s, NEW n, IsDirectory(f, d, s, n), NEW j \in 0 .. n - 1
  PROVE  /\ s[j] \in Blocs /\ f[s[j]] # FAT_FREE /\ f[s[j]] # FAT_INODE
         /\ f[s[j]] # FAT_RESERVED
<1>1. n \in Nat /\ s \in [0 .. n - 1 -> Blocs] /\ f[s[n - 1]] = FAT_EOF
      /\ \A i \in 0 .. n - 2 : f[s[i]] = s[i + 1]
  <2>1. n \in Nat /\ n # 0
    BY DEF IsDirectory, IsChain
  <2> QED
    BY <2>1 DEF IsDirectory, IsChain
<1>2. CASE j = n - 1
  BY <1>1, <1>2, ValuesTyped
<1>3. CASE j \in 0 .. n - 2
  <2>1. f[s[j]] \in Blocs
    BY <1>1, <1>3
  <2> QED
    BY <1>1, <2>1, ValuesTyped
<1> QED
  BY <1>1, <1>2, <1>3

(* What the directory says is said by the FAT and the blocks alone. *)
LEMMA SameVolume ==
  ASSUME NEW v, NEW w, w.fat = v.fat, w.disk = v.disk, NEW nom
  PROVE  find_inode(w, nom) = find_inode(v, nom)
<1>1. Places(w) = Places(v)
  BY DEF Places
<1>2. \A p : Entry(w, p) = Entry(v, p)
  BY DEF Entry, DirBlock
<1>3. Named(w, nom) = Named(v, nom)
  BY <1>1, <1>2 DEF Named
<1> QED
  BY <1>2, <1>3 DEF find_inode

-----------------------------------------------------------------------------
(* A volume with a directory, where nobody but the system has the blocks   *)
(* before it.                                                              *)
Reserved(f) == \A i \in Blocs : i < ADR_DIR => f[i] = FAT_RESERVED
Sound(v) ==
  /\ v.fat \in Fats /\ IsDisk(v.disk) /\ Reserved(v.fat)
  /\ \E s, n : HasDirectory(v, s, n)
Clean(v) == \A i \in Blocs : v.fat[i] = FAT_FREE => v.disk[i] = Blank
SameNames(v, w) == \A nom : find_inode(w, nom) = find_inode(v, nom)
DirOf(v) == ChainBlocks(v.fat, ADR_DIR)

(* The blocks of the directory are marked. *)
LEMMA DirOfMarked ==
  ASSUME NEW v, Sound(v), NEW i \in DirOf(v)
  PROVE  i \in Blocs /\ v.fat[i] # FAT_FREE /\ v.fat[i] # FAT_INODE /\ v.fat[i] # FAT_RESERVED
<1>1. PICK s, n : HasDirectory(v, s, n)
  BY DEF Sound
<1>2. IsDirectory(v.fat, v.disk, s, n)
  BY <1>1 DEF HasDirectory
<1>3. DirOf(v) = ChainSet(s, n)
  <2>1. v.fat \in Fats /\ IsChain(v.fat, ADR_DIR, s, n) /\ ADR_DIR \in Values
    BY <1>2, ValuesTyped DEF IsDirectory
  <2> QED
    BY <2>1, ChainFacts DEF DirOf
<1>4. PICK j \in 0 .. n - 1 : i = s[j]
  BY <1>3 DEF ChainSet
<1> QED
  BY <1>2, <1>4, DirectoryMarked

(* A directory stays when its blocks do. *)
LEMMA DirectoryStays ==
  ASSUME NEW v, Sound(v), NEW w, w.fat \in Fats, IsDisk(w.disk), Reserved(w.fat),
         \A i \in DirOf(v) : w.fat[i] = v.fat[i] /\ w.disk[i] = v.disk[i]
  PROVE  Sound(w) /\ SameNames(v, w) /\ DirOf(w) = DirOf(v)
<1>1. PICK s, n : HasDirectory(v, s, n)
  BY DEF Sound
<1>2. IsDirectory(v.fat, v.disk, s, n) /\ n \in Nat
  BY <1>1 DEF HasDirectory, IsDirectory, IsChain
<1>3. DirOf(v) = ChainSet(s, n)
  <2>1. v.fat \in Fats /\ IsChain(v.fat, ADR_DIR, s, n) /\ ADR_DIR \in Values
    BY <1>2, ValuesTyped DEF IsDirectory
  <2> QED
    BY <2>1, ChainFacts DEF DirOf
<1>4. \A j \in 0 .. n - 1 : w.fat[s[j]] = v.fat[s[j]] /\ w.disk[s[j]] = v.disk[s[j]]
  BY <1>3 DEF ChainSet
<1>5. /\ IsDirectory(w.fat, w.disk, s, n)
      /\ \A p \in PlacesOf(n) : EntryOf(w.disk, s, p) = EntryOf(v.disk, s, p)
  BY <1>2, <1>4, DirectoryKept
<1>6. HasDirectory(w, s, n)
  BY <1>5 DEF HasDirectory
<1>7. ASSUME NEW nom
      PROVE  find_inode(w, nom) = find_inode(v, nom)
  <2>1. SamePlaces(v, s, n, w, s, n, nom) /\ SamePlaces(w, s, n, v, s, n, nom)
    BY <1>5 DEF SamePlaces
  <2> QED
    BY <1>1, <1>6, <2>1, SameListing
<1>8. DirOf(w) = ChainSet(s, n)
  <2>1. w.fat \in Fats /\ IsChain(w.fat, ADR_DIR, s, n) /\ ADR_DIR \in Values
    BY <1>5, ValuesTyped DEF IsDirectory
  <2> QED
    BY <2>1, ChainFacts DEF DirOf
<1> QED
  BY <1>3, <1>6, <1>7, <1>8 DEF Sound, SameNames

(* A directory whose blocks nobody touched is as it was. *)
LEMMA SoundKept ==
  ASSUME NEW v, Sound(v), NEW w, w.fat \in Fats, IsDisk(w.disk), Reserved(w.fat),
         \A i \in Blocs : v.fat[i] # FAT_FREE /\ v.fat[i] # FAT_INODE /\ v.fat[i] # FAT_RESERVED
                          => w.fat[i] = v.fat[i] /\ w.disk[i] = v.disk[i]
  PROVE  Sound(w) /\ SameNames(v, w)
<1>1. \A i \in DirOf(v) : w.fat[i] = v.fat[i] /\ w.disk[i] = v.disk[i]
  BY DirOfMarked
<1> QED
  BY <1>1, DirectoryStays

-----------------------------------------------------------------------------
(* A disk that has just been formatted. *)
LEMMA EmptyFat ==
  /\ create_empty_fat \in Fats /\ create_empty_fat[ADR_DIR] = FAT_EOF
  /\ Reserved(create_empty_fat)
BY ValuesTyped DEF create_empty_fat, Fats, Reserved

(* A directory of the one block ADR_DIR. *)
LEMMA OneBlock ==
  ASSUME NEW v, v.fat \in Fats, IsDisk(v.disk), Reserved(v.fat), v.fat[ADR_DIR] = FAT_EOF,
         v.disk[ADR_DIR] = EmptyDir \/ \E w : Sound(w) /\ w.disk[ADR_DIR] = v.disk[ADR_DIR]
  PROVE  Sound(v)
<1> DEFINE s == [j \in 0 .. 0 |-> ADR_DIR]
           B == BLOCK_DIR_SIZE
<1>1. ADR_DIR \in Blocs /\ 1 \in Nat /\ B \in Nat \ {0}
  BY ValuesTyped, RepertoireAssumption
<1>2. IsChain(v.fat, ADR_DIR, s, 1)
  BY <1>1 DEF IsChain
<1>3. /\ PlacesOf(1) = 0 .. B - 1
      /\ \A p \in 0 .. B - 1 : p \div B = 0 /\ p % B = p
  <2> HIDE DEF B
  <2>1. 1 * B = B
    BY <1>1
  <2>2. PlacesOf(1) = 0 .. 1 * B - 1
    BY DEF PlacesOf, B
  <2>3. ASSUME NEW p \in 0 .. B - 1
        PROVE  p \div B = 0 /\ p % B = p
    <3> DEFINE d == p \div B
               e == p % B
    <3>1. d \in Nat /\ e \in 0 .. B - 1 /\ p = d * B + e
      <4>1. p \in Nat
        BY <1>1
      <4> QED
        BY <1>1, <4>1, Quotient
    <3> HIDE DEF d, e
    <3>2. ASSUME 1 <= d
          PROVE  FALSE
      <4>1. 1 * B <= d * B /\ d * B \in Nat
        BY <1>1, <3>1, <3>2, Monotone
      <4> QED
        BY <1>1, <2>1, <3>1, <4>1
    <3>3. d = 0
      BY <3>1, <3>2
    <3>4. d * B = 0
      BY <1>1, <3>3
    <3>5. p = e
      BY <1>1, <3>1, <3>4
    <3> QED
      BY <3>3, <3>5 DEF d, e
  <2> QED
    BY <2>1, <2>2, <2>3, Zenon
<1>4. \A p \in 0 .. B - 1 : EntryOf(v.disk, s, p) = v.disk[ADR_DIR][p]
  <2> HIDE DEF B
  <2>1. s[0] = ADR_DIR
    OBVIOUS
  <2> HIDE DEF s
  <2> QED
    BY <1>3, <2>1, Zenon DEF EntryOf, B
<1> HIDE DEF s
<1>5. v.disk[ADR_DIR] \in DirContents /\ OnePlace(v.disk, s, 1)
  <2>1. CASE v.disk[ADR_DIR] = EmptyDir
    <3>1. \A p \in 0 .. B - 1 : v.disk[ADR_DIR][p] = [name |-> NoName, inode |-> 0]
      BY <2>1 DEF EmptyDir
    <3>2. [name |-> NoName, inode |-> 0] \in Entries
      BY DEF Entries
    <3>3. v.disk[ADR_DIR] \in DirContents
      BY <2>1, <3>2 DEF EmptyDir, DirContents
    <3>4. \A p \in PlacesOf(1) : EntryOf(v.disk, s, p).inode = 0
      <4> HIDE DEF B
      <4>1. \A p \in PlacesOf(1) : EntryOf(v.disk, s, p) = [name |-> NoName, inode |-> 0]
        BY <1>3, <1>4, <3>1, Zenon
      <4> QED
        BY <4>1
    <3> QED
      BY <3>3, <3>4 DEF OnePlace
  <2>2. CASE \E w : Sound(w) /\ w.disk[ADR_DIR] = v.disk[ADR_DIR]
    <3>1. PICK w, t, n : HasDirectory(w, t, n) /\ w.disk[ADR_DIR] = v.disk[ADR_DIR]
      BY <2>2 DEF Sound
    <3>2. n \in Nat \ {0} /\ t[0] = ADR_DIR
      BY <3>1, DirectoryIs DEF HasDirectory
    <3>3. /\ OnePlace(w.disk, t, n) /\ w.disk[ADR_DIR] \in DirContents
      BY <3>1, <3>2 DEF HasDirectory, IsDirectory
    <3>4. \A p \in PlacesOf(1) : EntryOf(w.disk, t, p) = w.disk[ADR_DIR][p]
      BY <1>3, <3>2, Zenon DEF EntryOf, B
    <3>5. PlacesOf(1) \subseteq PlacesOf(n)
      <4>1. n * B \in Nat /\ 1 * B = B /\ 1 * B <= n * B
        BY <1>1, <3>2, Monotone, PlacesAre
      <4> QED
        BY <1>1, <1>3, <4>1 DEF PlacesOf
    <3>6. \A p \in PlacesOf(1) : EntryOf(v.disk, s, p) = EntryOf(w.disk, t, p)
      BY <1>3, <1>4, <3>1, <3>4
    <3> QED
      BY <3>1, <3>3, <3>5, <3>6 DEF OnePlace
  <2> QED
    BY <2>1, <2>2
<1>6. HasDirectory(v, s, 1)
  <2>1. \A j \in 0 .. 1 - 1 : v.disk[s[j]] \in DirContents
    BY <1>5 DEF s
  <2> QED
    BY <1>2, <1>5, <2>1 DEF HasDirectory, IsDirectory
<1> QED
  BY <1>6 DEF Sound

-----------------------------------------------------------------------------
(* Quotient and rest of a number given as k * c + j. *)
LEMMA QuotientOf ==
  ASSUME NEW p, NEW k \in Nat, NEW c \in Nat \ {0}, NEW j \in 0 .. c - 1, p = k * c + j
  PROVE  p \div c = k /\ p % c = j
BY QuotientIs, Zenon

(* The number of blocks of a length. *)
LEMMA BlocksAre ==
  ASSUME NEW L \in Nat
  PROVE  /\ L \div BLOCK_SIZE \in Nat /\ L % BLOCK_SIZE \in 0 .. BLOCK_SIZE - 1
         /\ (L \div BLOCK_SIZE) * BLOCK_SIZE \in Nat
         /\ L = (L \div BLOCK_SIZE) * BLOCK_SIZE + (L % BLOCK_SIZE)
         /\ Blocks(L) = (L \div BLOCK_SIZE) + (IF L % BLOCK_SIZE = 0 THEN 0 ELSE 1)
         /\ Blocks(L) \in Nat /\ (Blocks(L) = 0 <=> L = 0)
<1> DEFINE B == BLOCK_SIZE
           q == L \div B
           r == L % B
<1>1. B \in Nat \ {0} /\ B - 1 \in Nat /\ B >= 2
  BY SgfAssumption
<1>2. q \in Nat /\ r \in 0 .. B - 1 /\ L = q * B + r
  BY <1>1, Quotient
<1> DEFINE N == L + B - 1
<1>3. Blocks(L) = N \div B /\ N = L + (B - 1)
  BY <1>1 DEF Blocks
<1> HIDE DEF B, q, r, N
<1>4. q * B \in Nat /\ (q + 1) * B = q * B + B
  BY <1>1, <1>2
<1>5. ASSUME r = 0 PROVE Blocks(L) = q
  <2>1. N = q * B + (B - 1) /\ B - 1 \in 0 .. B - 1
    BY <1>1, <1>2, <1>3, <1>4, <1>5
  <2>2. N \div B = q
    BY <1>1, <1>2, <2>1, QuotientOf
  <2> QED
    BY <1>3, <1>5, <2>2
<1>6. ASSUME r # 0 PROVE Blocks(L) = q + 1
  <2> DEFINE z == (q + 1) * B
  <2>0. z = q * B + B
    BY <1>4
  <2> HIDE DEF z
  <2>1. N = z + (r - 1) /\ r - 1 \in 0 .. B - 1 /\ q + 1 \in Nat
    BY <1>1, <1>2, <1>3, <1>4, <1>6, <2>0
  <2>2. N \div B = q + 1
    BY <1>1, <2>1, QuotientOf DEF z
  <2> QED
    BY <1>3, <1>6, <2>2
<1>7. Blocks(L) = q + (IF r = 0 THEN 0 ELSE 1)
  BY <1>5, <1>6, <1>1, <1>2, <1>3
<1>8. ASSUME q = 0
      PROVE  q * B = 0
  BY <1>1, <1>8
<1>9. ASSUME q # 0
      PROVE  q * B # 0
  <2>1. 1 * B <= q * B /\ 1 * B = B
    BY <1>1, <1>2, <1>9, Monotone
  <2> QED
    BY <1>1, <1>4, <2>1
<1>10. Blocks(L) = 0 <=> L = 0
  <2> DEFINE p == q * B
  <2>1. (p = 0 <=> q = 0) /\ p \in Nat /\ L = p + r /\ r \in Nat
    BY <1>1, <1>2, <1>4, <1>8, <1>9
  <2> HIDE DEF p
  <2> QED
    BY <1>2, <1>7, <2>1
<1> QED
  BY <1>2, <1>4, <1>7, <1>10 DEF B, q, r

(* Characters are added within a block. *)
LEMMA BlocksGrow ==
  ASSUME NEW L \in Nat, NEW m \in 1 .. BLOCK_SIZE - (L % BLOCK_SIZE)
  PROVE  /\ L + m \in Nat
         /\ Blocks(L + m) = Blocks(L) + (IF L % BLOCK_SIZE = 0 THEN 1 ELSE 0)
         /\ IF (L % BLOCK_SIZE) + m = BLOCK_SIZE
            THEN /\ (L + m) % BLOCK_SIZE = 0
                 /\ ((L + m) \div BLOCK_SIZE) * BLOCK_SIZE = L + m
            ELSE /\ (L + m) % BLOCK_SIZE = (L % BLOCK_SIZE) + m
                 /\ (L + m) \div BLOCK_SIZE = L \div BLOCK_SIZE
<1> DEFINE B == BLOCK_SIZE
           q == L \div B
           r == L % B
           M == L + m
<1>1. B \in Nat \ {0} /\ B >= 2
  BY SgfAssumption
<1>2. q \in Nat /\ r \in 0 .. B - 1 /\ L = q * B + r /\ q * B \in Nat
      /\ Blocks(L) = q + (IF r = 0 THEN 0 ELSE 1)
  BY BlocksAre
<1>3. m \in 1 .. B - r
  OBVIOUS
<1>0. M \in Nat /\ M = L + m
  BY <1>1, <1>2, <1>3
<1>4. Blocks(M) = (M \div B) + (IF M % B = 0 THEN 0 ELSE 1)
  <2> HIDE DEF M
  <2> QED
    BY <1>0, BlocksAre
<1> HIDE DEF B, q, r, M
<1>5. (q + 1) * B = q * B + B
  BY <1>1, <1>2
<1>6. CASE r + m = B
  <2>1. M = (q + 1) * B + 0 /\ 0 \in 0 .. B - 1 /\ q + 1 \in Nat /\ M = (q + 1) * B
    BY <1>0, <1>1, <1>2, <1>3, <1>5, <1>6
  <2>2. M \div B = q + 1 /\ M % B = 0
    BY <1>1, <2>1, QuotientOf
  <2>3. Blocks(M) = Blocks(L) + (IF r = 0 THEN 1 ELSE 0)
    BY <1>2, <1>4, <2>2
  <2>4. (M \div B) * B = M
    BY <2>1, <2>2
  <2> QED
    BY <1>0, <1>6, <2>2, <2>3, <2>4 DEF B, r, M
<1>7. CASE r + m # B
  <2>1. M = q * B + (r + m) /\ r + m \in 0 .. B - 1 /\ r + m # 0
    BY <1>0, <1>1, <1>2, <1>3, <1>7
  <2>2. M \div B = q /\ M % B = r + m
    BY <1>1, <1>2, <2>1, QuotientOf
  <2>3. Blocks(M) = Blocks(L) + (IF r = 0 THEN 1 ELSE 0)
    BY <1>2, <1>4, <2>1, <2>2
  <2> QED
    BY <1>0, <1>7, <2>2, <2>3 DEF B, q, r, M
<1> QED
  BY <1>6, <1>7

-----------------------------------------------------------------------------
(* The blocks s[0], ..., s[n - 1] are the data of the inode i of v. *)
Buffers == [Indices -> CHARS \cup {Junk}]
InodeRecords == [length : 0 .. MAX_LENGTH, first : Blocs \cup {FAT_EOF}, last : Blocs \cup {FAT_EOF}]
InodesOf(v) == {i \in Blocs : v.fat[i] = FAT_INODE}
DataOf(v, i) == ChainBlocks(v.fat, v.disk[i].first)
FileIs(v, i, s, n) ==
  /\ v.disk[i] \in InodeRecords
  /\ IsChain(v.fat, v.disk[i].first, s, n)
  /\ v.disk[i].last = IF n = 0 THEN FAT_EOF ELSE s[n - 1]
  /\ \A k \in 0 .. n - 1 : v.disk[s[k]] \in Buffers \cup {Blank}

(* Every block that is neither free nor the system's has one owner. *)
Chained(v) == \A i \in InodesOf(v) : \E s, n : FileIs(v, i, s, n)
Disjoint(v) ==
  /\ \A i \in InodesOf(v) : \A m \in DataOf(v, i) : m \notin DirOf(v)
  /\ \A i, j \in InodesOf(v) : i # j => \A m \in DataOf(v, i) : m \notin DataOf(v, j)
Covered(v) ==
  \A m \in Blocs : m >= ADR_DIR /\ v.fat[m] # FAT_FREE /\ v.fat[m] # FAT_INODE =>
    m \in DirOf(v) \/ \E i \in InodesOf(v) : m \in DataOf(v, i)
Owned(v) == IsVolume(v) /\ Sound(v) /\ Clean(v) /\ Chained(v) /\ Disjoint(v) /\ Covered(v)

(* What is known of a file that is a chain: its set of blocks, the walk *)
(* along it, its ends.                                                  *)
LEMMA FileFacts ==
  ASSUME NEW v, v.fat \in Fats, NEW i, NEW s, NEW n, FileIs(v, i, s, n)
  PROVE  /\ n \in Nat /\ s \in [0 .. n - 1 -> Blocs]
         /\ DataOf(v, i) = ChainSet(s, n) /\ Cardinality(DataOf(v, i)) = n
         /\ ChainEnds(v.fat, v.disk[i].first)
         /\ \A k \in Nat : Walk(v.fat, v.disk[i].first, k) = IF k < n THEN s[k] ELSE FAT_EOF
         /\ \A m \in DataOf(v, i) : m \in Blocs /\ v.fat[m] \in Blocs \cup {FAT_EOF}
         /\ v.disk[i].first = (IF n = 0 THEN FAT_EOF ELSE s[0])
         /\ n # 0 => v.disk[i].last = s[n - 1] /\ v.fat[s[n - 1]] = FAT_EOF
         /\ n = 0 => v.disk[i].last = FAT_EOF
<1> DEFINE a == v.disk[i].first
           f == v.fat
<1>1. f \in Fats /\ IsChain(f, a, s, n) /\ a \in Values
  BY ValuesTyped DEF FileIs, InodeRecords
<1> HIDE DEF a, f
<1>0. n \in Nat /\ s \in [0 .. n - 1 -> Blocs]
  BY <1>1 DEF IsChain
<1>2. n \in Nat /\ s \in [0 .. n - 1 -> Blocs] /\ ChainBlocks(f, a) = ChainSet(s, n)
      /\ Cardinality(ChainBlocks(f, a)) = n /\ ChainEnds(f, a)
  BY <1>0, <1>1, ChainFacts
<1>3. \A k \in Nat : Walk(f, a, k) = IF k < n THEN s[k] ELSE FAT_EOF
  BY <1>1, ChainWalk
<1>4. \A k \in 0 .. n - 1 : s[k] \in Blocs /\ f[s[k]] \in Blocs \cup {FAT_EOF}
  <2> TAKE k \in 0 .. n - 1
  <2>1. CASE k = n - 1
    BY <1>1, <1>2, <2>1 DEF IsChain
  <2>2. CASE k \in 0 .. n - 2
    <3>1. f[s[k]] = s[k + 1] /\ k + 1 \in 0 .. n - 1
      BY <1>1, <1>2, <2>2 DEF IsChain
    <3> QED
      BY <1>2, <3>1
  <2> QED
    BY <1>2, <2>1, <2>2
<1>5. \A m \in ChainSet(s, n) : m \in Blocs /\ f[m] \in Blocs \cup {FAT_EOF}
  BY <1>4 DEF ChainSet
<1>6. a = (IF n = 0 THEN FAT_EOF ELSE s[0]) /\ (n # 0 => f[s[n - 1]] = FAT_EOF)
  BY <1>1 DEF IsChain
<1> QED
  BY <1>2, <1>3, <1>5, <1>6 DEF DataOf, FileIs, a, f

(* A file stays when its blocks and its inode do. *)
Untouched(v, w, i) ==
  /\ i \in InodesOf(v) /\ w.disk[i] = v.disk[i]
  /\ \A m \in DataOf(v, i) : w.fat[m] = v.fat[m] /\ w.disk[m] = v.disk[m]
Framed(v, w, i0) == \A i \in InodesOf(w) : i # i0 => Untouched(v, w, i)

(* So that it has the same blocks, in the same order. *)
SameFile(v, w, i) ==
  /\ DataOf(w, i) = DataOf(v, i) /\ w.disk[i] = v.disk[i]
  /\ \A m \in DataOf(v, i) : w.disk[m] = v.disk[m]
  /\ \A k \in Nat : Walk(w.fat, w.disk[i].first, k) = Walk(v.fat, v.disk[i].first, k)

(* A file stays the file it is where inode, blocks and their FAT entries *)
(* are untouched.                                                        *)
LEMMA FileKept ==
  ASSUME NEW v, v.fat \in Fats, NEW w, w.fat \in Fats, NEW i, Untouched(v, w, i),
         NEW s, NEW n, FileIs(v, i, s, n)
  PROVE  FileIs(w, i, s, n) /\ DataOf(w, i) = DataOf(v, i)
<1>1. n \in Nat /\ s \in [0 .. n - 1 -> Blocs] /\ DataOf(v, i) = ChainSet(s, n)
  BY FileFacts
<1>2. /\ w.disk[i] = v.disk[i]
      /\ \A k \in 0 .. n - 1 : w.fat[s[k]] = v.fat[s[k]] /\ w.disk[s[k]] = v.disk[s[k]]
  BY <1>1 DEF Untouched, ChainSet
<1>3. IsChain(w.fat, w.disk[i].first, s, n)
  <2> DEFINE a == v.disk[i].first
  <2>1. IsChain(v.fat, a, s, n) /\ w.disk[i].first = a
    BY <1>2 DEF FileIs
  <2> HIDE DEF a
  <2>2. \A k \in 0 .. n - 2 : k \in 0 .. n - 1
    BY <1>1
  <2>3. n # 0 => n - 1 \in 0 .. n - 1
    BY <1>1
  <2> QED
    BY <1>2, <2>1, <2>2, <2>3 DEF IsChain
<1>4. FileIs(w, i, s, n)
  BY <1>2, <1>3 DEF FileIs
<1>5. DataOf(w, i) = ChainSet(s, n)
  BY <1>4, FileFacts
<1> QED
  BY <1>1, <1>4, <1>5

(* What a step leaves, that touches one file i0 or none: the others keep   *)
(* their blocks.                                                           *)
Apart(v, w, i0) ==
  /\ \A m \in DirOf(w) : \A i \in InodesOf(w) : i # i0 => m \notin DataOf(v, i)
  /\ i0 \in InodesOf(w) => \A m \in DataOf(w, i0) :
       m \notin DirOf(w) /\ \A i \in InodesOf(w) : i # i0 => m \notin DataOf(v, i)
Covers(v, w, i0) ==
  \A m \in Blocs : m >= ADR_DIR /\ w.fat[m] # FAT_FREE /\ w.fat[m] # FAT_INODE =>
    \/ m \in DirOf(w)
    \/ i0 \in InodesOf(w) /\ m \in DataOf(w, i0)
    \/ \E i \in InodesOf(w) : i # i0 /\ m \in DataOf(v, i)

(* Ownership after a change of one file: the others untouched, its blocks *)
(* apart from theirs.                                                     *)
LEMMA OwnedFrame ==
  ASSUME NEW v, Owned(v), NEW w, IsVolume(w), Sound(w), Clean(w), NEW i0, Framed(v, w, i0),
         i0 \in InodesOf(w) => \E s, n : FileIs(w, i0, s, n),
         Apart(v, w, i0), Covers(v, w, i0)
  PROVE  Owned(w) /\ \A i \in InodesOf(w) : i # i0 => SameFile(v, w, i)
<1>1. v.fat \in Fats /\ w.fat \in Fats
  BY DEF Owned, IsVolume
<1>2. ASSUME NEW i \in InodesOf(w), i # i0
      PROVE  /\ DataOf(w, i) = DataOf(v, i) /\ i \in InodesOf(v) /\ SameFile(v, w, i)
             /\ \E s, n : FileIs(w, i, s, n)
  <2>1. Untouched(v, w, i) /\ i \in InodesOf(v)
    BY <1>2 DEF Framed, Untouched
  <2>2. PICK s, n : FileIs(v, i, s, n)
    BY <2>1 DEF Owned, Chained
  <2>3. FileIs(w, i, s, n) /\ DataOf(w, i) = DataOf(v, i)
    BY <1>1, <2>1, <2>2, FileKept
  <2>4. \A k \in Nat : Walk(v.fat, v.disk[i].first, k) = IF k < n THEN s[k] ELSE FAT_EOF
    BY <1>1, <2>2, FileFacts
  <2>5. \A k \in Nat : Walk(w.fat, w.disk[i].first, k) = IF k < n THEN s[k] ELSE FAT_EOF
    BY <1>1, <2>3, FileFacts
  <2> QED
    BY <2>1, <2>3, <2>4, <2>5 DEF SameFile, Untouched
<1>3. Chained(w)
  BY <1>2 DEF Chained
<1>4. Disjoint(w)
  <2>1. ASSUME NEW i \in InodesOf(w), NEW m \in DataOf(w, i)
        PROVE  m \notin DirOf(w)
    BY <1>2, <2>1 DEF Apart
  <2>2. ASSUME NEW i \in InodesOf(w), NEW j \in InodesOf(w), i # j, NEW m \in DataOf(w, i)
        PROVE  m \notin DataOf(w, j)
    <3>1. CASE i # i0 /\ j # i0
      BY <1>2, <2>2, <3>1 DEF Owned, Disjoint
    <3>2. CASE i = i0
      BY <1>2, <2>2, <3>2 DEF Apart
    <3>3. CASE j = i0
      BY <1>2, <2>2, <3>3 DEF Apart
    <3> QED
      BY <3>1, <3>2, <3>3
  <2> QED
    BY <2>1, <2>2 DEF Disjoint
<1>5. Covered(w)
  BY <1>2 DEF Covered, Covers
<1> QED
  BY <1>2, <1>3, <1>4, <1>5 DEF Owned

-----------------------------------------------------------------------------
(* A data block is marked as one of a chain; it is no inode, and not the   *)
(* directory's.                                                            *)
LEMMA DataMarked ==
  ASSUME NEW v, Owned(v), NEW i \in InodesOf(v), NEW m \in DataOf(v, i)
  PROVE  /\ m \in Blocs /\ v.fat[m] \in Blocs \cup {FAT_EOF} /\ v.fat[m] # FAT_FREE
         /\ m \notin InodesOf(v) /\ m # i /\ m \notin DirOf(v) /\ m >= ADR_DIR
<1>1. PICK s, n : FileIs(v, i, s, n)
  BY DEF Owned, Chained
<1>2. v.fat \in Fats /\ Reserved(v.fat)
  BY DEF Owned, Sound
<1>3. m \in Blocs /\ v.fat[m] \in Blocs \cup {FAT_EOF}
  BY <1>1, <1>2, FileFacts
<1>4. m \notin DirOf(v)
  BY DEF Owned, Disjoint
<1>5. v.fat[m] # FAT_FREE /\ v.fat[m] # FAT_INODE /\ v.fat[m] # FAT_RESERVED
  <2>1. CASE v.fat[m] \in Blocs
    BY <2>1, ValuesTyped, Zenon
  <2>2. CASE v.fat[m] = FAT_EOF
    BY <2>2, ValuesTyped, Zenon
  <2> QED
    BY <1>3, <2>1, <2>2
<1>6. m \notin InodesOf(v) /\ m # i
  BY <1>5 DEF InodesOf
<1>7. m >= ADR_DIR
  BY <1>2, <1>3, <1>5, ValuesTyped DEF Reserved
<1> QED
  BY <1>3, <1>4, <1>5, <1>6, <1>7

(* What depends on the FAT and on the blocks only. *)
LEMMA SameOwned ==
  ASSUME NEW v, Owned(v), NEW w, IsVolume(w), w.fat = v.fat, w.disk = v.disk
  PROVE  /\ Owned(w) /\ InodesOf(w) = InodesOf(v) /\ SameNames(v, w)
         /\ \A i : DataOf(w, i) = DataOf(v, i)
<1>1. InodesOf(w) = InodesOf(v) /\ DirOf(w) = DirOf(v) /\ \A i : DataOf(w, i) = DataOf(v, i)
  BY DEF InodesOf, DirOf, DataOf
<1>2. Sound(w) /\ Clean(w)
  BY DEF Owned, Sound, Clean, HasDirectory
<1>3. Chained(w) /\ Disjoint(w) /\ Covered(w)
  <2>1. \A i, s, n : FileIs(v, i, s, n) => FileIs(w, i, s, n)
    BY DEF FileIs
  <2> QED
    BY <1>1, <2>1 DEF Owned, Chained, Disjoint, Covered
<1>4. SameNames(v, w)
  BY SameVolume DEF SameNames
<1> QED
  BY <1>1, <1>2, <1>3, <1>4 DEF Owned

(* The fields of an OFILE and of an inode. *)
LEMMA OFileFields ==
  ASSUME NEW fl \in OFiles
  PROVE  /\ fl.length \in 0 .. MAX_LENGTH /\ fl.ptr \in 0 .. MAX_LENGTH /\ MAX_LENGTH \in Nat
         /\ fl.length \in Nat /\ fl.ptr \in Nat
         /\ fl.first \in Blocs \cup {FAT_EOF} /\ fl.last \in Blocs \cup {FAT_EOF}
         /\ fl.current \in Blocs \cup {FAT_EOF} /\ fl.inode \in Blocs
         /\ fl.mode \in {READ_MODE, WRITE_MODE, APPEND_MODE} /\ fl.buffer \in Buffers
BY SgfAssumption DEF OFiles, Buffers

(* The length of an inode is set, its chain is not. *)
LEMMA InodeSet ==
  ASSUME NEW ino \in InodeRecords, NEW L \in 0 .. MAX_LENGTH
  PROVE  /\ [ino EXCEPT !.length = L] \in InodeRecords
         /\ [ino EXCEPT !.length = L].length = L
         /\ [ino EXCEPT !.length = L].first = ino.first
         /\ [ino EXCEPT !.length = L].last = ino.last
         /\ ino.length = L => [ino EXCEPT !.length = L] = ino
BY DEF InodeRecords

(* The buffer is written to its block, and the length to the inode. *)
FlushedTo(v, fl, w) ==
  /\ Owned(w) /\ w.fat = v.fat /\ SameNames(v, w)
  /\ InodesOf(w) = InodesOf(v) /\ \A i \in InodesOf(v) : DataOf(w, i) = DataOf(v, i)
  /\ w.disk[fl.inode] = [v.disk[fl.inode] EXCEPT !.length = fl.length]
  /\ w.disk[fl.current] = fl.buffer
  /\ \A m \in Blocs : m # fl.inode /\ m # fl.current => w.disk[m] = v.disk[m]

(* What a flush leaves: the block of the buffer and the length of        *)
(* the inode, written.                                                   *)
LEMMA Flushed ==
  ASSUME NEW v, Owned(v), NEW fl \in OFiles, fl.inode \in InodesOf(v),
         fl.current \in DataOf(v, fl.inode)
  PROVE  /\ FlushedTo(v, fl, Flush(v, fl).vol)
         /\ Flush(v, fl) = Result(Flush(v, fl).vol, fl)
<1> DEFINE i == fl.inode
           c == fl.current
           ino == [v.disk[i] EXCEPT !.length = fl.length]
           v1 == write_block(v, c, fl.buffer)
           w == write_block(v1, i, ino)
<1>1. c \in Blocs /\ c # i /\ c \notin InodesOf(v) /\ c \notin DirOf(v) /\ v.fat[c] # FAT_FREE
  BY DataMarked
<1>2. IsVolume(v) /\ Sound(v) /\ Clean(v) /\ v.fat \in Fats
  BY DEF Owned, IsVolume
<1>3. i \in Blocs /\ v.fat[i] = FAT_INODE /\ v.fat[i] # FAT_FREE
  BY ValuesTyped DEF InodesOf
<1> HIDE DEF i, c
<1>4. /\ IsVolume(v1) /\ v1.fat = v.fat /\ v1.disk[c] = fl.buffer
      /\ \A m \in Blocs : m # c => v1.disk[m] = v.disk[m]
  BY <1>1, <1>2, BlockWritten
<1> HIDE DEF ino
<1>5. /\ IsVolume(w) /\ w.fat = v1.fat /\ w.disk[i] = ino
      /\ \A m \in Blocs : m # i => w.disk[m] = v1.disk[m]
  <2> HIDE DEF v1
  <2> QED
    BY <1>3, <1>4, BlockWritten
<1>6. Flush(v, fl).vol = w /\ Flush(v, fl) = Result(w, fl)
  <2>1. NU_BLOC_OK(fl.current)
    BY <1>1 DEF NU_BLOC_OK, c
  <2>2. Flush(v, fl) = Result(SetLength(v1, fl), fl)
    BY <2>1 DEF Flush, c
  <2>3. v1.disk[i] = v.disk[i]
    BY <1>1, <1>3, <1>4
  <2>4. SetLength(v1, fl) = w
    BY <2>3 DEF SetLength, ino, i
  <2> HIDE DEF v1, w
  <2> QED
    BY <2>2, <2>4 DEF Result
<1> HIDE DEF v1, w
<1>7. /\ w.fat = v.fat /\ w.disk[c] = fl.buffer /\ w.disk[i] = ino
      /\ \A m \in Blocs : m # i /\ m # c => w.disk[m] = v.disk[m]
  BY <1>1, <1>4, <1>5
<1>8. Sound(w) /\ SameNames(v, w) /\ DirOf(w) = DirOf(v)
  <2>1. \A m \in DirOf(v) : m \in Blocs /\ m # i /\ m # c
    BY <1>1, <1>2, <1>3, DirOfMarked
  <2>2. \A m \in DirOf(v) : w.fat[m] = v.fat[m] /\ w.disk[m] = v.disk[m]
    BY <1>7, <2>1
  <2>3. w.fat \in Fats /\ IsDisk(w.disk) /\ Reserved(w.fat)
    BY <1>2, <1>5, <1>7 DEF Sound, IsVolume
  <2> QED
    BY <1>2, <2>2, <2>3, DirectoryStays
<1>9. Clean(w)
  BY <1>1, <1>2, <1>3, <1>7 DEF Clean
<1>10. InodesOf(w) = InodesOf(v)
  BY <1>7 DEF InodesOf
<1>11. Framed(v, w, i)
  <2> SUFFICES ASSUME NEW j \in InodesOf(v), j # i
               PROVE  Untouched(v, w, j)
    BY <1>10 DEF Framed
  <2>1. j \in Blocs /\ w.disk[j] = v.disk[j]
    BY <1>1, <1>7 DEF InodesOf
  <2>2. ASSUME NEW m \in DataOf(v, j)
        PROVE  w.fat[m] = v.fat[m] /\ w.disk[m] = v.disk[m]
    <3>1. m \in Blocs /\ m \notin InodesOf(v)
      BY DataMarked
    <3>2. m # c
      BY DEF Owned, Disjoint, i, c
    <3>3. m # i
      BY <3>1 DEF i
    <3> QED
      BY <1>7, <3>1, <3>2, <3>3
  <2> QED
    BY <2>1, <2>2 DEF Untouched
<1>12. /\ \E s, n : FileIs(w, i, s, n)
       /\ DataOf(w, i) = DataOf(v, i)
  <2>1. PICK s, n : FileIs(v, i, s, n)
    BY DEF Owned, Chained, i
  <2>2. /\ ino \in InodeRecords /\ ino.first = v.disk[i].first /\ ino.last = v.disk[i].last
    <3>1. v.disk[i] \in InodeRecords
      BY <2>1 DEF FileIs
    <3> QED
      BY <3>1, OFileFields, InodeSet DEF ino
  <2>3. DataOf(w, i) = DataOf(v, i)
    BY <1>7, <2>2 DEF DataOf
  <2>4. \A k \in 0 .. n - 1 : w.disk[s[k]] \in Buffers \cup {Blank}
    <3> TAKE k \in 0 .. n - 1
    <3>1. s[k] \in DataOf(v, i)
      BY <1>2, <2>1, FileFacts DEF ChainSet
    <3>2. s[k] \in Blocs /\ s[k] # i
      BY <3>1, DataMarked DEF i
    <3>3. fl.buffer \in Buffers
      BY OFileFields
    <3> QED
      BY <1>7, <2>1, <3>2, <3>3 DEF FileIs
  <2>5. FileIs(w, i, s, n)
    BY <1>7, <2>1, <2>2, <2>4 DEF FileIs
  <2> QED
    BY <2>3, <2>5
<1>13. Apart(v, w, i)
  BY <1>8, <1>10, <1>12 DEF Apart, Owned, Disjoint, i
<1>14. Covers(v, w, i)
  BY <1>7, <1>8, <1>10, <1>12 DEF Covers, Owned, Covered
<1>15. Owned(w) /\ \A j \in InodesOf(w) : j # i => DataOf(w, j) = DataOf(v, j)
  BY <1>5, <1>8, <1>9, <1>11, <1>12, <1>13, <1>14, OwnedFrame DEF SameFile
<1>16. FlushedTo(v, fl, w)
  BY <1>7, <1>8, <1>10, <1>12, <1>15 DEF FlushedTo, ino, i, c
<1> QED
  BY <1>6, <1>16

(* A chain with one block more, or of one block. *)
LEMMA ChainSetExtended ==
  ASSUME NEW n \in Nat, NEW s, NEW a
  PROVE  ChainSet(Extended(s, n, a), n + 1) = ChainSet(s, n) \cup {a}
<1> DEFINE t == Extended(s, n, a)
<1>1. /\ \A k \in 0 .. n - 1 : k \in 0 .. n /\ k # n
      /\ n \in 0 .. n /\ (n + 1) - 1 = n
      /\ \A k \in 0 .. n : k = n \/ k \in 0 .. n - 1
  OBVIOUS
<1>2. t[n] = a /\ \A k \in 0 .. n - 1 : t[k] = s[k]
  BY <1>1 DEF Extended
<1> HIDE DEF t
<1>3. {t[k] : k \in 0 .. n} = {s[k] : k \in 0 .. n - 1} \cup {a}
  BY <1>1, <1>2, Zenon
<1> QED
  BY <1>1, <1>3 DEF ChainSet, t

(* One block that leads nowhere is a chain. *)
LEMMA ChainOfOne ==
  ASSUME NEW f \in Fats, NEW a \in Blocs, f[a] = FAT_EOF, NEW s, s = [k \in 0 .. 0 |-> a]
  PROVE  IsChain(f, a, s, 1)
<1>1. s \in [0 .. 1 - 1 -> Blocs] /\ s[0] = a /\ s[1 - 1] = a
  OBVIOUS
<1>2. 0 .. 1 - 2 = {} /\ \A j, k \in 0 .. 1 - 1 : j = k
  OBVIOUS
<1> QED
  BY <1>1, <1>2 DEF IsChain

(* A block more for the file, linked to its last one. *)
AppendedTo(v, fl, w, a) ==
  LET i == fl.inode IN
  /\ a \in Blocs /\ v.fat[a] = FAT_FREE /\ a \notin DataOf(v, i)
  /\ Owned(w) /\ SameNames(v, w) /\ InodesOf(w) = InodesOf(v)
  /\ DataOf(w, i) = DataOf(v, i) \cup {a}
  /\ \A k \in Nat : Walk(w.fat, w.disk[i].first, k)
       = IF k = Cardinality(DataOf(v, i)) THEN a ELSE Walk(v.fat, v.disk[i].first, k)
  /\ \A j \in InodesOf(v) : j # i => SameFile(v, w, j)
  /\ w.disk[i].length = fl.length /\ w.disk[i].last = a
  /\ \A m \in Blocs : m # i => w.disk[m] = v.disk[m]

Linked(fl, a) == [fl EXCEPT !.current = a, !.last = a]

(* sgf_append_block: the file is one block longer, and that block is its *)
(* last.                                                                 *)
LEMMA BlockAppended ==
  ASSUME NEW v, Owned(v), NEW fl \in OFiles, fl.inode \in InodesOf(v),
         fl.current = v.disk[fl.inode].last, Free(v.fat) # {},
         NEW a, a = alloc_block(v.fat), NEW r, r = sgf_append_block(v, fl)
  PROVE  /\ AppendedTo(v, fl, r.vol, a)
         /\ r = Result(r.vol, Linked(fl, a))
<1> DEFINE i == fl.inode
           c == fl.current
           ino == v.disk[i]
           newino == [length |-> fl.length, last |-> a,
                      first |-> IF ino.first = FAT_EOF THEN a ELSE ino.first]
           v1 == IF c = FAT_EOF THEN v ELSE set_fat(v, c, a)
           v2 == set_fat(v1, a, FAT_EOF)
           w == write_block(v2, i, newino)
<1>1. IsVolume(v) /\ Sound(v) /\ Clean(v) /\ v.fat \in Fats /\ Reserved(v.fat)
  BY DEF Owned, IsVolume, Sound
<1>2. a \in Blocs /\ v.fat[a] = FAT_FREE
  BY <1>1, AllocFinds
<1>3. i \in Blocs /\ v.fat[i] = FAT_INODE /\ v.fat[i] # FAT_FREE /\ a # i
  BY <1>2, ValuesTyped DEF InodesOf
<1>4. PICK s, n : FileIs(v, i, s, n)
  BY DEF Owned, Chained
<1>5. /\ n \in Nat /\ s \in [0 .. n - 1 -> Blocs] /\ DataOf(v, i) = ChainSet(s, n)
      /\ n # 0 => c = s[n - 1] /\ v.fat[s[n - 1]] = FAT_EOF /\ ino.first = s[0]
      /\ n = 0 => c = FAT_EOF /\ ino.first = FAT_EOF
  BY <1>1, <1>4, FileFacts
<1>6. n # 0 => c \in DataOf(v, i) /\ c \in Blocs /\ c # FAT_EOF /\ c # i /\ c # a
               /\ c \notin InodesOf(v) /\ c \notin DirOf(v) /\ n - 1 \in 0 .. n - 1 /\ 0 \in 0 .. n - 1
               /\ ino.first # FAT_EOF
  <2> SUFFICES ASSUME n # 0 PROVE c \in DataOf(v, i) /\ c \in Blocs /\ c # FAT_EOF /\ c # i /\ c # a
               /\ c \notin InodesOf(v) /\ c \notin DirOf(v) /\ n - 1 \in 0 .. n - 1 /\ 0 \in 0 .. n - 1
               /\ ino.first # FAT_EOF
    OBVIOUS
  <2>1. n - 1 \in 0 .. n - 1 /\ 0 \in 0 .. n - 1
    BY <1>5
  <2>2. c \in DataOf(v, i)
    BY <1>5, <2>1 DEF ChainSet
  <2>3. c \in Blocs /\ c # i /\ c \notin InodesOf(v) /\ c \notin DirOf(v)
    BY <2>2, DataMarked
  <2>4. c # FAT_EOF /\ s[0] # FAT_EOF
    BY <1>5, <2>1, <2>3, ValuesTyped
  <2>5. c # a
    BY <1>2, <1>5, ValuesTyped
  <2> QED
    BY <1>5, <2>1, <2>2, <2>3, <2>4, <2>5
<1>7. a \notin DataOf(v, i)
  BY <1>2, DataMarked
<1>8. /\ sgf_append_block(v, fl) = Result(w, [fl EXCEPT !.current = a, !.last = a])
  BY DEF sgf_append_block
<1>9. a \in Values /\ FAT_EOF \in Values /\ a # FAT_FREE /\ FAT_EOF # FAT_FREE
  BY <1>2, ValuesTyped
<1> HIDE DEF i, c, ino, newino
<1>10. /\ IsVolume(v1) /\ \A m \in Blocs : v1.disk[m] = v.disk[m]
       /\ n # 0 => v1.fat[c] = a
       /\ \A m \in Blocs : n = 0 \/ m # c => v1.fat[m] = v.fat[m]
  <2>1. CASE n = 0
    BY <1>1, <1>5, <2>1
  <2>2. CASE n # 0
    <3>1. v1 = set_fat(v, c, a) /\ c \in Blocs
      BY <1>6, <2>2
    <3>2. /\ IsVolume(v1) /\ v1.fat = [v.fat EXCEPT ![c] = a]
          /\ v1.disk[c] = v.disk[c] /\ \A m \in Blocs : m # c => v1.disk[m] = v.disk[m]
      <4> HIDE DEF v1
      <4> QED
        BY <1>1, <1>9, <3>1, FatSet
    <3> HIDE DEF v1
    <3>3. v1.fat[c] = a /\ \A m \in Blocs : m # c => v1.fat[m] = v.fat[m]
      BY <1>1, <3>1, <3>2 DEF Fats
    <3> QED
      BY <2>2, <3>2, <3>3
  <2> QED
    BY <2>1, <2>2
<1> HIDE DEF v1
<1>11. /\ IsVolume(v2) /\ \A m \in Blocs : v2.disk[m] = v.disk[m]
       /\ n # 0 => v2.fat[c] = a
       /\ v2.fat[a] = FAT_EOF
       /\ \A m \in Blocs : m # a /\ (n = 0 \/ m # c) => v2.fat[m] = v.fat[m]
  <2>1. /\ IsVolume(v2) /\ v2.fat = [v1.fat EXCEPT ![a] = FAT_EOF]
        /\ v2.disk[a] = v1.disk[a] /\ \A m \in Blocs : m # a => v2.disk[m] = v1.disk[m]
    BY <1>2, <1>9, <1>10, FatSet
  <2> HIDE DEF v2
  <2>2. v1.fat \in Fats
    BY <1>10 DEF IsVolume
  <2>3. v2.fat[a] = FAT_EOF /\ \A m \in Blocs : m # a => v2.fat[m] = v1.fat[m]
    BY <1>2, <2>1, <2>2 DEF Fats
  <2> QED
    BY <1>2, <1>6, <1>10, <2>1, <2>3
<1> HIDE DEF v2
<1>12. /\ IsVolume(w) /\ w.fat = v2.fat /\ w.disk[i] = newino
       /\ \A m \in Blocs : m # i => w.disk[m] = v2.disk[m]
  BY <1>3, <1>11, BlockWritten
<1> HIDE DEF w
<1>13. /\ w.fat[a] = FAT_EOF /\ (n # 0 => w.fat[c] = a)
       /\ \A m \in Blocs : m # a /\ (n = 0 \/ m # c) => w.fat[m] = v.fat[m]
       /\ \A m \in Blocs : m # i => w.disk[m] = v.disk[m]
       /\ w.fat \in Fats /\ IsDisk(w.disk)
  BY <1>11, <1>12 DEF IsVolume
<1>14. Sound(w) /\ SameNames(v, w) /\ DirOf(w) = DirOf(v)
  <2>1. \A m \in DirOf(v) : m \in Blocs /\ m # i /\ m # a /\ (n = 0 \/ m # c)
    BY <1>1, <1>2, <1>3, <1>6, DirOfMarked
  <2>2. Reserved(w.fat)
    <3>1. \A m \in Blocs : v.fat[m] = FAT_RESERVED => m # a /\ (n = 0 \/ m # c)
      BY <1>2, <1>5, ValuesTyped
    <3> QED
      BY <1>1, <1>13, <3>1, ValuesTyped DEF Reserved
  <2> QED
    BY <1>1, <1>13, <2>1, <2>2, DirectoryStays
<1>15. Clean(w)
  <2>1. \A m \in Blocs : w.fat[m] = FAT_FREE => m # a /\ m # i /\ v.fat[m] = FAT_FREE
    BY <1>2, <1>3, <1>6, <1>9, <1>13
  <2> QED
    BY <1>1, <1>13, <2>1 DEF Clean
<1>16. InodesOf(w) = InodesOf(v)
  <2>1. ASSUME NEW m \in Blocs PROVE w.fat[m] = FAT_INODE <=> v.fat[m] = FAT_INODE
    BY <1>2, <1>5, <1>6, <1>13, ValuesTyped
  <2> QED
    BY <2>1 DEF InodesOf
<1>17. Framed(v, w, i)
  <2> SUFFICES ASSUME NEW j \in InodesOf(v), j # i
               PROVE  Untouched(v, w, j)
    BY <1>16 DEF Framed
  <2>1. j \in Blocs /\ w.disk[j] = v.disk[j]
    BY <1>13 DEF InodesOf
  <2>2. ASSUME NEW m \in DataOf(v, j)
        PROVE  w.fat[m] = v.fat[m] /\ w.disk[m] = v.disk[m]
    <3>1. m \in Blocs /\ m \notin InodesOf(v) /\ m # a
      BY <1>2, DataMarked
    <3>2. n = 0 \/ m # c
      BY <1>6 DEF Owned, Disjoint, i
    <3>3. m # i
      BY <3>1 DEF i
    <3> QED
      BY <1>13, <3>1, <3>2, <3>3
  <2> QED
    BY <2>1, <2>2 DEF Untouched
<1> DEFINE t == Extended(s, n, a)
<1>18. /\ newino \in InodeRecords /\ newino.length = fl.length /\ newino.last = a
       /\ newino.first = IF n = 0 THEN a ELSE ino.first
  <2>1. ino \in InodeRecords
    BY <1>4 DEF FileIs, ino
  <2> QED
    BY <1>2, <1>5, <1>6, <2>1, OFileFields DEF newino, InodeRecords
<1>19. IsChain(w.fat, newino.first, t, n + 1)
  <2>1. CASE n = 0
    <3>1. t = [k \in 0 .. 0 |-> a] /\ n + 1 = 1
      BY <2>1 DEF Extended
    <3> HIDE DEF t
    <3> QED
      BY <1>2, <1>13, <1>18, <2>1, <3>1, ChainOfOne
  <2>2. CASE n # 0
    <3> DEFINE f == v.fat
               g == w.fat
               x == newino.first
    <3>1. f \in Fats /\ g \in Fats /\ IsChain(f, x, s, n) /\ x \in Values
      BY <1>1, <1>4, <1>13, <1>18, <2>2, <1>5, ValuesTyped, <1>6 DEF FileIs, ino, i, InodeRecords
    <3>2. g[a] = FAT_EOF /\ g[s[n - 1]] = a /\ a \notin ChainSet(s, n)
      BY <1>5, <1>7, <1>13, <2>2
    <3>3. \A k \in 0 .. n - 2 : g[s[k]] = f[s[k]]
      <4> TAKE k \in 0 .. n - 2
      <4>1. k \in 0 .. n - 1 /\ n - 1 \in 0 .. n - 1 /\ k # n - 1
        BY <1>5
      <4>2. s[k] # s[n - 1]
        BY <3>1, <4>1 DEF IsChain
      <4>3. s[k] \in Blocs /\ s[k] # a
        BY <1>5, <1>7, <4>1 DEF ChainSet
      <4> QED
        BY <1>5, <1>13, <2>2, <4>2, <4>3
    <3> HIDE DEF f, g, x, t
    <3>4. IsChain(g, x, Extended(s, n, a), n + 1)
      BY <1>2, <2>2, <3>1, <3>2, <3>3, ChainExtended
    <3> QED
      BY <3>4 DEF f, g, x, t
  <2> QED
    BY <2>1, <2>2
<1>20. FileIs(w, i, t, n + 1)
  <2>1. n + 1 # 0 /\ (n + 1) - 1 = n /\ n \in 0 .. n /\ t[n] = a
    BY <1>5 DEF Extended
  <2>2. ASSUME NEW k \in 0 .. n PROVE w.disk[t[k]] \in Buffers \cup {Blank}
    <3>1. CASE k = n
      BY <1>1, <1>2, <1>3, <1>13, <2>1, <3>1 DEF Clean
    <3>2. CASE k # n
      <4>1. k \in 0 .. n - 1 /\ t[k] = s[k]
        BY <1>5, <3>2 DEF Extended
      <4>2. s[k] \in DataOf(v, i)
        BY <1>5, <4>1 DEF ChainSet
      <4>3. s[k] \in Blocs /\ s[k] # i
        BY <4>2, DataMarked DEF i
      <4> QED
        BY <1>4, <1>13, <4>1, <4>3 DEF FileIs
    <3> QED
      BY <3>1, <3>2
  <2> HIDE DEF t
  <2> QED
    BY <1>12, <1>18, <1>19, <2>1, <2>2 DEF FileIs
<1>21. DataOf(w, i) = DataOf(v, i) \cup {a}
  <2>1. DataOf(w, i) = ChainSet(t, n + 1)
    <3> HIDE DEF t
    <3> QED
      BY <1>13, <1>20, FileFacts
  <2> QED
    BY <1>5, <2>1, ChainSetExtended
<1>22. Apart(v, w, i)
  <2>1. \A m \in DirOf(v) : m # a
    BY <1>1, <1>2, DirOfMarked
  <2>2. \A j \in InodesOf(v) : \A m \in DataOf(v, j) : m # a
    BY <1>2, DataMarked
  <2> QED
    BY <1>14, <1>16, <1>21, <2>1, <2>2 DEF Apart, Owned, Disjoint, i
<1>23. Covers(v, w, i)
  <2> SUFFICES ASSUME NEW m \in Blocs, m >= ADR_DIR, w.fat[m] # FAT_FREE, w.fat[m] # FAT_INODE
               PROVE  \/ m \in DirOf(w)
                      \/ i \in InodesOf(w) /\ m \in DataOf(w, i)
                      \/ \E j \in InodesOf(w) : j # i /\ m \in DataOf(v, j)
    BY DEF Covers
  <2>0. i \in InodesOf(w)
    BY <1>16 DEF i
  <2>1. CASE m = a \/ (n # 0 /\ m = c)
    BY <1>6, <1>21, <2>0, <2>1
  <2>2. CASE ~(m = a \/ (n # 0 /\ m = c))
    <3>1. w.fat[m] = v.fat[m]
      BY <1>13, <2>2
    <3>2. m \in DirOf(v) \/ \E j \in InodesOf(v) : m \in DataOf(v, j)
      BY <3>1 DEF Owned, Covered
    <3> QED
      BY <1>14, <1>16, <1>21, <2>0, <3>2
  <2> QED
    BY <2>1, <2>2
<1>24. Owned(w) /\ \A j \in InodesOf(w) : j # i => SameFile(v, w, j)
  <2>1. \E s1, n1 : FileIs(w, i, s1, n1)
    BY <1>20
  <2> HIDE DEF t
  <2> QED
    BY <1>12, <1>14, <1>15, <1>17, <1>22, <1>23, <2>1, OwnedFrame
<1>25. \A k \in Nat : Walk(w.fat, w.disk[i].first, k)
         = IF k = Cardinality(DataOf(v, i)) THEN a ELSE Walk(v.fat, v.disk[i].first, k)
  <2> TAKE k \in Nat
  <2>1. Walk(v.fat, v.disk[i].first, k) = IF k < n THEN s[k] ELSE FAT_EOF
    BY <1>1, <1>4, FileFacts DEF i
  <2>2. Cardinality(DataOf(v, i)) = n
    BY <1>1, <1>4, FileFacts DEF i
  <2>3. Walk(w.fat, w.disk[i].first, k) = IF k < n + 1 THEN t[k] ELSE FAT_EOF
    <3> HIDE DEF t
    <3> QED
      BY <1>13, <1>20, FileFacts
  <2>4. k < n + 1 => t[k] = IF k = n THEN a ELSE s[k]
    BY <1>5 DEF Extended
  <2> HIDE DEF t
  <2> QED
    BY <1>5, <2>1, <2>2, <2>3, <2>4
<1>26. AppendedTo(v, fl, w, a)
  BY <1>2, <1>7, <1>12, <1>13, <1>14, <1>16, <1>18, <1>21, <1>24, <1>25 DEF AppendedTo, i
<1> QED
  BY <1>8, <1>26 DEF Result, Linked

-----------------------------------------------------------------------------
(* sgf_remove() frees the blocks of the chain one by one, as its recursive *)
(* definition says.                                                        *)
VolumesOf(S, Q) == [fat : Fats, disk : [Blocs -> S], passe : Seq(Q)]
StatesOf(S, Q) == [vol : VolumesOf(S, Q), adr : Values]

(* One turn of the loop of sgf_remove leaves volumes to volumes. *)
LEMMA ReleaseTyped ==
  ASSUME NEW S, Blank \in S, NEW Q, [fat : Fats, disk : [Blocs -> S]] \subseteq Q,
         NEW x \in StatesOf(S, Q)
  PROVE  Release(x) \in StatesOf(S, Q)
<1>1. PICK u \in VolumesOf(S, Q), a \in Values : x = [vol |-> u, adr |-> a]
  BY DEF StatesOf
<1>2. CASE a \notin Blocs
  BY <1>1, <1>2 DEF Release, NU_BLOC_OK
<1>3. CASE a \in Blocs
  <2>1. PICK f \in Fats, d \in [Blocs -> S], p \in Seq(Q) : u = [fat |-> f, disk |-> d, passe |-> p]
    BY <1>1 DEF VolumesOf
  <2>2. [fat |-> f, disk |-> d] \in Q
    BY <2>1
  <2> DEFINE q == Append(p, [fat |-> f, disk |-> d])
             w == set_fat(u, a, FAT_FREE)
  <2>3. IsVolume(u) /\ u.fat = f /\ u.disk = d /\ OnDisk(u) = [fat |-> f, disk |-> d]
        /\ u.passe = p
    BY <2>1 DEF IsVolume, IsDisk, IsPast, OnDisk
  <2>4. /\ IsVolume(w) /\ w.fat \in Fats /\ w.disk[a] = Blank
        /\ \A m \in Blocs : m # a => w.disk[m] = d[m]
        /\ w.passe = q /\ IsDisk(w.disk)
    <3>1. /\ IsVolume(w) /\ w.disk[a] = Blank
          /\ \A m \in Blocs : m # a => w.disk[m] = u.disk[m]
          /\ w.passe = Append(u.passe, OnDisk(u))
      BY <1>3, <2>3, FatSet, ValuesTyped, Zenon
    <3> HIDE DEF w
    <3> QED
      BY <2>3, <3>1 DEF IsVolume
  <2>5. w \in VolumesOf(S, Q)
    <3>1. q \in Seq(Q)
      BY <2>1, <2>2
    <3> HIDE DEF w, q
    <3>2. \A m \in Blocs : w.disk[m] \in S
      BY <2>1, <2>4
    <3>3. w.disk \in [Blocs -> S]
      BY <2>4, <3>2 DEF IsDisk
    <3> QED
      BY <2>4, <3>1, <3>3 DEF IsVolume, VolumesOf
  <2>6. f[a] \in Values
    BY <1>3, <2>1 DEF Fats
  <2>7. Release(x) = [vol |-> set_fat(u, a, FAT_FREE), adr |-> f[a]]
    BY <1>1, <1>3, <2>1 DEF Release, NU_BLOC_OK
  <2> QED
    BY <2>5, <2>6, <2>7 DEF StatesOf
<1> QED
  BY <1>2, <1>3

ReleasedFrom(z, v, a) ==
  z[0] = [vol |-> v, adr |-> a] /\ \A k \in Nat : z[k + 1] = Release(z[k])
RemoveIs(z, v, i, n) ==
  sgf_remove(v, i) = IF z[n].adr = FAT_EOF THEN Result(set_fat(z[n].vol, i, FAT_FREE), NULL)
                     ELSE Panic(z[n].vol, NULL)

(* sgf_remove as the sequence of the states of its loop. *)
LEMMA RemoveUnfolds ==
  ASSUME NEW v, IsVolume(v), NEW i, v.disk[i].first \in Values
  PROVE  \E z : /\ ReleasedFrom(z, v, v.disk[i].first)
                /\ RemoveIs(z, v, i, Cardinality(DataOf(v, i)))
<1> DEFINE first == v.disk[i].first
           a == [vol |-> v, adr |-> first]
           r == CHOOSE r : r = [k \in Nat |-> IF k = 0 THEN a ELSE Release(r[k - 1])]
<1>1. RemoveIs(r, v, i, Cardinality(DataOf(v, i)))
  BY DEF RemoveIs, sgf_remove, DataOf
<1>2. PICK P : v.passe \in Seq(P)
  BY DEF IsVolume, IsPast
<1> DEFINE S == {v.disk[m] : m \in Blocs} \cup {Blank}
           Q == P \cup [fat : Fats, disk : [Blocs -> S]]
           D == StatesOf(S, Q)
           L == [x \in D |-> Release(x)]
<1>3. Blank \in S /\ [fat : Fats, disk : [Blocs -> S]] \subseteq Q
  OBVIOUS
<1>4. a \in D
  <2>1. v.passe \in Seq(Q)
    <3>1. P \subseteq Q
      OBVIOUS
    <3> HIDE DEF Q
    <3> QED
      BY <1>2, <3>1
  <2>2. v.disk \in [Blocs -> S]
    BY DEF IsVolume, IsDisk
  <2> HIDE DEF Q, S
  <2>3. v \in VolumesOf(S, Q)
    BY <2>1, <2>2 DEF IsVolume, VolumesOf
  <2> QED
    BY <2>3 DEF StatesOf
<1> HIDE DEF S, Q
<1>5. \A x \in D : Release(x) \in D
  BY <1>3, ReleaseTyped
<1> HIDE DEF D, a
<1>6. MapsInto(L, D)
  BY <1>5 DEF MapsInto
<1>7. PICK z : IteratesFrom(z, a, L, D)
  <2> HIDE DEF L
  <2> QED
    BY <1>4, <1>6, Iterates
<1>8. z = [k \in Nat |-> IF k = 0 THEN a ELSE Release(z[k - 1])]
  <2>1. z = [k \in Nat |-> z[k]] /\ z[0] = a
    BY <1>7 DEF IteratesFrom
  <2>2. ASSUME NEW k \in Nat, k # 0 PROVE z[k] = Release(z[k - 1])
    <3>1. k - 1 \in Nat
      BY <2>2
    <3>2. z[k - 1] \in D /\ z[k] = L[z[k - 1]]
      BY <1>7, <2>2, <3>1 DEF IteratesFrom
    <3> QED
      BY <3>2
  <2> QED
    BY <2>1, <2>2
<1>9. r = [k \in Nat |-> IF k = 0 THEN a ELSE Release(r[k - 1])]
  BY <1>8
<1> HIDE DEF r
<1>10. ReleasedFrom(r, v, first)
  <2>1. \A k \in Nat : k + 1 \in Nat /\ k + 1 # 0 /\ (k + 1) - 1 = k
    OBVIOUS
  <2> QED
    BY <1>9, <2>1 DEF ReleasedFrom, a
<1> QED
  BY <1>1, <1>10

(* After k blocks. *)
FreedUpTo(v, s, n, k, x) ==
  LET freed == {s[j] : j \in 0 .. k - 1} IN
  /\ IsVolume(x.vol) /\ x.adr = IF k < n THEN s[k] ELSE FAT_EOF
  /\ \A m \in Blocs : m \in freed => x.vol.fat[m] = FAT_FREE /\ x.vol.disk[m] = Blank
  /\ \A m \in Blocs : m \notin freed => x.vol.fat[m] = v.fat[m] /\ x.vol.disk[m] = v.disk[m]

(* One turn frees the next block of the chain and no other. *)
LEMMA OneFreed ==
  ASSUME NEW v, IsVolume(v), NEW a, NEW s, NEW n, IsChain(v.fat, a, s, n),
         NEW k \in Nat, k < n, NEW x, FreedUpTo(v, s, n, k, x)
  PROVE  FreedUpTo(v, s, n, k + 1, Release(x))
<1> DEFINE c == s[k]
           u == set_fat(x.vol, c, FAT_FREE)
<1>1. /\ n \in Nat /\ s \in [0 .. n - 1 -> Blocs] /\ k \in 0 .. n - 1
      /\ c \in Blocs /\ x.adr = c /\ IsVolume(x.vol)
      /\ (k + 1 < n => k \in 0 .. n - 2) /\ (~(k + 1 < n) => k = n - 1)
  BY DEF IsChain, FreedUpTo
<1>2. \A j \in 0 .. k - 1 : j \in 0 .. n - 1 /\ j # k
  BY <1>1
<1>3. \A j \in 0 .. k - 1 : s[j] # c
  BY <1>1, <1>2 DEF IsChain
<1>4. x.vol.fat[c] = v.fat[c]
  BY <1>1, <1>3 DEF FreedUpTo
<1>5. v.fat[c] = IF k + 1 < n THEN s[k + 1] ELSE FAT_EOF
  BY <1>1 DEF IsChain
<1> HIDE DEF c
<1>6. Release(x) = [vol |-> u, adr |-> x.vol.fat[c]]
  BY <1>1 DEF Release, NU_BLOC_OK
<1>7. /\ IsVolume(u) /\ u.fat[c] = FAT_FREE /\ u.disk[c] = Blank
      /\ \A m \in Blocs : m # c => u.fat[m] = x.vol.fat[m] /\ u.disk[m] = x.vol.disk[m]
  <2> DEFINE y == x.vol
  <2>1. IsVolume(y) /\ y.fat \in Fats
    BY <1>1 DEF IsVolume
  <2> HIDE DEF y
  <2>2. /\ IsVolume(set_fat(y, c, FAT_FREE))
        /\ set_fat(y, c, FAT_FREE).fat = [y.fat EXCEPT ![c] = FAT_FREE]
        /\ set_fat(y, c, FAT_FREE).disk[c] = Blank
        /\ \A m \in Blocs : m # c => set_fat(y, c, FAT_FREE).disk[m] = y.disk[m]
    BY <1>1, <2>1, FatSet, ValuesTyped
  <2>3. [y.fat EXCEPT ![c] = FAT_FREE][c] = FAT_FREE
        /\ \A m \in Blocs : m # c => [y.fat EXCEPT ![c] = FAT_FREE][m] = y.fat[m]
    BY <1>1, <2>1 DEF Fats
  <2> QED
    BY <2>2, <2>3 DEF y
<1> HIDE DEF u
<1>8. {s[j] : j \in 0 .. (k + 1) - 1} = {s[j] : j \in 0 .. k - 1} \cup {c}
  <2>1. 0 .. (k + 1) - 1 = (0 .. k - 1) \cup {k}
    OBVIOUS
  <2> QED
    BY <2>1 DEF c
<1> DEFINE freed == {s[j] : j \in 0 .. k - 1}
<1>9. /\ \A m \in Blocs : m \in freed => x.vol.fat[m] = FAT_FREE /\ x.vol.disk[m] = Blank
      /\ \A m \in Blocs : m \notin freed => x.vol.fat[m] = v.fat[m] /\ x.vol.disk[m] = v.disk[m]
  BY DEF FreedUpTo
<1> DEFINE next == {s[j] : j \in 0 .. (k + 1) - 1}
<1>10. next = freed \cup {c}
  BY <1>8
<1> HIDE DEF freed, next
<1>11. /\ \A m \in Blocs : m \in next => u.fat[m] = FAT_FREE /\ u.disk[m] = Blank
       /\ \A m \in Blocs : m \notin next => u.fat[m] = v.fat[m] /\ u.disk[m] = v.disk[m]
  BY <1>7, <1>9, <1>10
<1>12. Release(x).vol = u /\ Release(x).adr = IF k + 1 < n THEN s[k + 1] ELSE FAT_EOF
  BY <1>4, <1>5, <1>6
<1> QED
  BY <1>7, <1>11, <1>12 DEF FreedUpTo, next

(* After as many turns as the chain has blocks, those and only those are *)
(* free.                                                                 *)
LEMMA AllFreed ==
  ASSUME NEW v, IsVolume(v), NEW a, NEW s, NEW n, IsChain(v.fat, a, s, n),
         NEW z, ReleasedFrom(z, v, a)
  PROVE  FreedUpTo(v, s, n, n, z[n])
<1> DEFINE T == {k \in Nat : k <= n => FreedUpTo(v, s, n, k, z[k])}
<1>0. n \in Nat
  BY DEF IsChain
<1>1. 0 \in T
  <2>1. {s[j] : j \in 0 .. 0 - 1} = {}
    OBVIOUS
  <2>2. z[0].vol = v /\ z[0].adr = a
    BY DEF ReleasedFrom
  <2>3. a = IF 0 < n THEN s[0] ELSE FAT_EOF
    BY <1>0 DEF IsChain
  <2>4. FreedUpTo(v, s, n, 0, z[0])
    BY <2>1, <2>2, <2>3 DEF FreedUpTo
  <2> QED
    BY <2>4
<1>2. ASSUME NEW k \in Nat, k \in T
      PROVE  k + 1 \in T
  <2> SUFFICES ASSUME k + 1 <= n PROVE FreedUpTo(v, s, n, k + 1, z[k + 1])
    OBVIOUS
  <2>1. k < n /\ k <= n
    BY <1>0
  <2>2. FreedUpTo(v, s, n, k, z[k])
    BY <1>2, <2>1
  <2>3. z[k + 1] = Release(z[k])
    BY DEF ReleasedFrom
  <2> HIDE DEF T
  <2> QED
    BY <2>1, <2>2, <2>3, OneFreed
<1> HIDE DEF T
<1>3. Nat \subseteq T
  BY <1>1, <1>2, Induction
<1> QED
  BY <1>0, <1>3 DEF T

(* A file is removed: its blocks are free, and nothing else has changed.   *)
RemovedFrom(v, i, w) ==
  /\ Owned(w) /\ SameNames(v, w) /\ InodesOf(w) = InodesOf(v) \ {i}
  /\ \A j \in InodesOf(w) : SameFile(v, w, j)

(* sgf_remove: the file and its inode are gone, every other file is as it *)
(* was.                                                                   *)
LEMMA Removed ==
  ASSUME NEW v, Owned(v), NEW i \in InodesOf(v), NEW r, r = sgf_remove(v, i)
  PROVE  RemovedFrom(v, i, r.vol) /\ r = Result(r.vol, NULL)
<1>1. IsVolume(v) /\ Sound(v) /\ Clean(v) /\ v.fat \in Fats /\ Reserved(v.fat)
  BY DEF Owned, IsVolume, Sound
<1>2. PICK s, n : FileIs(v, i, s, n)
  BY DEF Owned, Chained
<1> DEFINE a == v.disk[i].first
<1>3. a \in Values /\ IsChain(v.fat, a, s, n)
  BY <1>2, ValuesTyped DEF FileIs, InodeRecords
<1>4. n \in Nat /\ DataOf(v, i) = ChainSet(s, n) /\ Cardinality(DataOf(v, i)) = n
  BY <1>1, <1>2, FileFacts
<1>5. PICK z : ReleasedFrom(z, v, a) /\ RemoveIs(z, v, i, Cardinality(DataOf(v, i)))
  BY <1>1, <1>3, RemoveUnfolds
<1> HIDE DEF a
<1>6. FreedUpTo(v, s, n, n, z[n])
  BY <1>1, <1>3, <1>5, AllFreed
<1> DEFINE u == z[n].vol
           data == DataOf(v, i)
           w == set_fat(u, i, FAT_FREE)
<1>7. /\ IsVolume(u) /\ z[n].adr = FAT_EOF
      /\ \A m \in Blocs : m \in data => u.fat[m] = FAT_FREE /\ u.disk[m] = Blank
      /\ \A m \in Blocs : m \notin data => u.fat[m] = v.fat[m] /\ u.disk[m] = v.disk[m]
  BY <1>4, <1>6 DEF FreedUpTo, ChainSet
<1>8. r = Result(w, NULL)
  BY <1>4, <1>5, <1>7 DEF RemoveIs
<1>9. i \in Blocs /\ v.fat[i] = FAT_INODE
  BY DEF InodesOf
<1>10. \A m \in data : m \in Blocs /\ m \notin InodesOf(v) /\ m # i /\ m \notin DirOf(v)
                       /\ m >= ADR_DIR
  BY DataMarked
<1> HIDE DEF u, data
<1>11. /\ IsVolume(w) /\ w.fat = [u.fat EXCEPT ![i] = FAT_FREE] /\ w.disk[i] = Blank
       /\ \A m \in Blocs : m # i => w.disk[m] = u.disk[m]
  BY <1>7, <1>9, FatSet, ValuesTyped
<1> HIDE DEF w
<1>12. /\ w.fat[i] = FAT_FREE /\ \A m \in Blocs : m # i => w.fat[m] = u.fat[m]
       /\ w.fat \in Fats /\ IsDisk(w.disk)
  <2>1. u.fat \in Fats
    BY <1>7 DEF IsVolume
  <2>2. w.fat \in Fats /\ IsDisk(w.disk)
    BY <1>11 DEF IsVolume
  <2> QED
    BY <1>9, <1>11, <2>1, <2>2 DEF Fats
<1>13. /\ \A m \in Blocs : m \in data \cup {i} => w.fat[m] = FAT_FREE /\ w.disk[m] = Blank
       /\ \A m \in Blocs : m \notin data \cup {i} => w.fat[m] = v.fat[m] /\ w.disk[m] = v.disk[m]
  BY <1>7, <1>10, <1>11, <1>12
<1>14. Sound(w) /\ SameNames(v, w) /\ DirOf(w) = DirOf(v)
  <2>1. \A m \in DirOf(v) : m \in Blocs /\ m \notin data \cup {i}
    BY <1>1, <1>9, <1>10, DirOfMarked
  <2>2. Reserved(w.fat)
    <3>1. i >= ADR_DIR
      BY <1>1, <1>9, ValuesTyped DEF Reserved
    <3>2. \A m \in Blocs : m < ADR_DIR => m \notin data \cup {i}
      BY <1>10, <3>1, ValuesTyped
    <3> QED
      BY <1>1, <1>13, <3>2 DEF Reserved
  <2> QED
    BY <1>1, <1>12, <1>13, <2>1, <2>2, DirectoryStays
<1>15. Clean(w)
  BY <1>1, <1>13 DEF Clean
<1>16. InodesOf(w) = InodesOf(v) \ {i}
  BY <1>10, <1>13, ValuesTyped DEF InodesOf
<1>17. Framed(v, w, i)
  <2> SUFFICES ASSUME NEW j \in InodesOf(w), j # i
               PROVE  Untouched(v, w, j)
    BY DEF Framed
  <2>0. j \in InodesOf(v) /\ j \in Blocs
    BY <1>16 DEF InodesOf
  <2>1. w.disk[j] = v.disk[j]
    BY <1>10, <1>13, <2>0
  <2>2. ASSUME NEW m \in DataOf(v, j)
        PROVE  w.fat[m] = v.fat[m] /\ w.disk[m] = v.disk[m]
    <3>1. m \in Blocs /\ m \notin InodesOf(v)
      BY <2>0, DataMarked
    <3>2. m \notin data /\ m # i
      BY <2>0, <3>1 DEF Owned, Disjoint, data
    <3> QED
      BY <1>13, <3>1, <3>2
  <2> QED
    BY <2>0, <2>1, <2>2 DEF Untouched
<1>18. Apart(v, w, i)
  BY <1>14, <1>16 DEF Apart, Owned, Disjoint
<1>19. Covers(v, w, i)
  <2> SUFFICES ASSUME NEW m \in Blocs, m >= ADR_DIR, w.fat[m] # FAT_FREE, w.fat[m] # FAT_INODE
               PROVE  m \in DirOf(w) \/ \E j \in InodesOf(w) : j # i /\ m \in DataOf(v, j)
    BY DEF Covers
  <2>1. m \notin data /\ w.fat[m] = v.fat[m]
    BY <1>13
  <2>2. m \in DirOf(v) \/ \E j \in InodesOf(v) : m \in DataOf(v, j)
    BY <2>1 DEF Owned, Covered
  <2> QED
    BY <1>14, <1>16, <2>1, <2>2 DEF data
<1>20. Owned(w) /\ \A j \in InodesOf(w) : j # i => SameFile(v, w, j)
  <2>1. i \notin InodesOf(w)
    BY <1>16
  <2> QED
    BY <1>11, <1>14, <1>15, <1>17, <1>18, <1>19, <2>1, OwnedFrame
<1>21. RemovedFrom(v, i, w)
  BY <1>14, <1>16, <1>20 DEF RemovedFrom
<1> QED
  BY <1>8, <1>21 DEF Result

-----------------------------------------------------------------------------
(* What two steps leave as it is, one after the other, is left. *)
LEMMA SameFileTwice ==
  ASSUME NEW u, NEW v, NEW w, NEW i, SameFile(u, v, i), SameFile(v, w, i)
  PROVE  SameFile(u, w, i)
BY DEF SameFile

(* A step that leaves every file as it is. *)
FilesKept(v, w) == \A j \in InodesOf(v) : SameFile(v, w, j)

(* A new file: an inode without blocks. *)
EmptyInode == [length |-> 0, first |-> FAT_EOF, last |-> FAT_EOF]
CreatedIn(v, a, w) ==
  /\ a \in Blocs /\ a \notin InodesOf(v) /\ a > 0
  /\ Owned(w) /\ SameNames(v, w) /\ InodesOf(w) = InodesOf(v) \cup {a}
  /\ FilesKept(v, w) /\ w.disk[a] = EmptyInode /\ DataOf(w, a) = {}

(* A free block becomes an inode with no blocks. *)
LEMMA Created ==
  ASSUME NEW v, Owned(v), Free(v.fat) # {}, NEW a, a = alloc_block(v.fat),
         NEW w, w = set_fat(write_block(v, a, EmptyInode), a, FAT_INODE)
  PROVE  CreatedIn(v, a, w)
<1> DEFINE v1 == write_block(v, a, EmptyInode)
<1>1. IsVolume(v) /\ Sound(v) /\ Clean(v) /\ v.fat \in Fats /\ Reserved(v.fat)
  BY DEF Owned, IsVolume, Sound
<1>2. a \in Blocs /\ v.fat[a] = FAT_FREE
  BY <1>1, AllocFinds
<1>3. a \notin InodesOf(v) /\ a \notin DirOf(v) /\ \A j \in InodesOf(v) : a \notin DataOf(v, j)
  BY <1>1, <1>2, DirOfMarked, DataMarked, ValuesTyped DEF InodesOf
<1>4. a >= ADR_DIR /\ a > 0
  BY <1>1, <1>2, ValuesTyped DEF Reserved
<1>5. /\ IsVolume(v1) /\ v1.fat = v.fat /\ v1.disk[a] = EmptyInode
      /\ \A m \in Blocs : m # a => v1.disk[m] = v.disk[m]
  BY <1>1, <1>2, BlockWritten
<1> HIDE DEF v1
<1>6. /\ IsVolume(w) /\ w.fat = [v1.fat EXCEPT ![a] = FAT_INODE] /\ w.disk[a] = v1.disk[a]
      /\ \A m \in Blocs : m # a => w.disk[m] = v1.disk[m]
  <2>1. w = set_fat(v1, a, FAT_INODE)
    BY DEF v1
  <2> QED
    BY <1>2, <1>5, <2>1, FatSet, ValuesTyped
<1>7. /\ w.fat[a] = FAT_INODE /\ \A m \in Blocs : m # a => w.fat[m] = v.fat[m]
      /\ w.disk[a] = EmptyInode /\ \A m \in Blocs : m # a => w.disk[m] = v.disk[m]
  BY <1>1, <1>2, <1>5, <1>6 DEF Fats
<1>8. w.fat \in Fats /\ IsDisk(w.disk)
  BY <1>6 DEF IsVolume
<1>9. Sound(w) /\ SameNames(v, w) /\ DirOf(w) = DirOf(v)
  <2>1. \A m \in DirOf(v) : m \in Blocs /\ m # a
    BY <1>1, <1>2, DirOfMarked
  <2>2. Reserved(w.fat)
    BY <1>1, <1>4, <1>7, ValuesTyped DEF Reserved
  <2> QED
    BY <1>1, <1>7, <1>8, <2>1, <2>2, DirectoryStays
<1>10. Clean(w)
  BY <1>1, <1>7, ValuesTyped DEF Clean
<1>11. InodesOf(w) = InodesOf(v) \cup {a}
  BY <1>2, <1>7 DEF InodesOf
<1>12. Framed(v, w, a)
  <2> SUFFICES ASSUME NEW j \in InodesOf(w), j # a
               PROVE  Untouched(v, w, j)
    BY DEF Framed
  <2>1. j \in InodesOf(v) /\ j \in Blocs
    BY <1>11 DEF InodesOf
  <2>2. \A m \in DataOf(v, j) : m \in Blocs /\ m # a
    BY <1>3, <2>1, DataMarked
  <2> QED
    BY <1>7, <2>1, <2>2 DEF Untouched
<1>13. \E s, n : FileIs(w, a, s, n) /\ n = 0
  <2> DEFINE s == [k \in 0 .. 0 - 1 |-> 0]
  <2>1. s \in [0 .. 0 - 1 -> Blocs] /\ 0 .. 0 - 2 = {} /\ 0 .. 0 - 1 = {}
    OBVIOUS
  <2> HIDE DEF s
  <2>2. EmptyInode \in InodeRecords /\ EmptyInode.first = FAT_EOF /\ EmptyInode.last = FAT_EOF
    BY SgfAssumption DEF EmptyInode, InodeRecords
  <2>3. IsChain(w.fat, FAT_EOF, s, 0)
    BY <2>1 DEF IsChain
  <2>4. FileIs(w, a, s, 0)
    BY <1>7, <2>1, <2>2, <2>3 DEF FileIs
  <2> QED
    BY <2>4
<1>14. DataOf(w, a) = {}
  <2>1. PICK s, n : FileIs(w, a, s, n) /\ n = 0
    BY <1>13
  <2>2. DataOf(w, a) = ChainSet(s, n)
    BY <1>8, <2>1, FileFacts
  <2> QED
    BY <2>1, <2>2 DEF ChainSet
<1>15. Apart(v, w, a)
  BY <1>9, <1>11, <1>14 DEF Apart, Owned, Disjoint
<1>16. Covers(v, w, a)
  <2> SUFFICES ASSUME NEW m \in Blocs, m >= ADR_DIR, w.fat[m] # FAT_FREE, w.fat[m] # FAT_INODE
               PROVE  m \in DirOf(w) \/ \E j \in InodesOf(w) : j # a /\ m \in DataOf(v, j)
    BY DEF Covers
  <2>1. w.fat[m] = v.fat[m]
    BY <1>7
  <2>2. m \in DirOf(v) \/ \E j \in InodesOf(v) : m \in DataOf(v, j)
    BY <2>1 DEF Owned, Covered
  <2> QED
    BY <1>3, <1>9, <1>11, <2>2
<1>17. Owned(w) /\ \A j \in InodesOf(w) : j # a => SameFile(v, w, j)
  <2>1. \E s, n : FileIs(w, a, s, n)
    BY <1>13
  <2> QED
    BY <1>6, <1>9, <1>10, <1>12, <1>15, <1>16, <2>1, OwnedFrame
<1>18. FilesKept(v, w)
  BY <1>3, <1>11, <1>17 DEF FilesKept
<1> QED
  BY <1>2, <1>3, <1>4, <1>7, <1>9, <1>11, <1>14, <1>17, <1>18 DEF CreatedIn

(* A name is entered in the directory, or is not. *)
EnteredIn(v, nom, a, add) ==
  LET w == add.vol IN
  /\ Owned(w) /\ InodesOf(w) = InodesOf(v) /\ FilesKept(v, w)
  /\ \A x : x # nom => find_inode(w, x) = find_inode(v, x)
  /\ \/ add.ret = -1 /\ find_inode(w, nom) = find_inode(v, nom) /\ find_inode(v, nom) = -1
     \/ add.ret = -1 /\ find_inode(w, nom) = find_inode(v, nom) /\ nom \in NOMS_LONGS
     \/ add.ret = find_inode(v, nom) /\ find_inode(w, nom) = a

(* A step that changes the directory only. *)
LEMMA DirectoryOnly ==
  ASSUME NEW v, Owned(v), NEW w, IsVolume(w), Sound(w), Clean(w),
         \A m \in Blocs : v.fat[m] = FAT_INODE <=> w.fat[m] = FAT_INODE,
         \A m \in DirOf(w) : m \in DirOf(v) \/ v.fat[m] = FAT_FREE,
         \A m \in DirOf(v) : m \in DirOf(w),
         \A m \in Blocs : m \notin DirOf(w) => w.fat[m] = v.fat[m] /\ w.disk[m] = v.disk[m]
  PROVE  Owned(w) /\ InodesOf(w) = InodesOf(v) /\ FilesKept(v, w)
<1>1. InodesOf(w) = InodesOf(v)
  BY DEF InodesOf
<1>2. \A m \in DirOf(w) : m \notin InodesOf(v)
  BY DirOfMarked DEF InodesOf
<1>3. \A j \in InodesOf(v) : \A m \in DataOf(v, j) : m \in Blocs /\ m \notin DirOf(w)
  BY DataMarked
<1>4. -1 \notin InodesOf(w)
  BY ValuesTyped DEF InodesOf, FAT_FREE
<1>5. Framed(v, w, -1)
  <2> SUFFICES ASSUME NEW j \in InodesOf(v)
               PROVE  Untouched(v, w, j)
    BY <1>1 DEF Framed
  <2>1. j \in Blocs /\ j \notin DirOf(w)
    BY <1>2 DEF InodesOf
  <2> QED
    BY <1>3, <2>1 DEF Untouched
<1>6. Apart(v, w, -1)
  BY <1>1, <1>3, <1>4 DEF Apart
<1>7. Covers(v, w, -1)
  <2> SUFFICES ASSUME NEW m \in Blocs, m >= ADR_DIR, w.fat[m] # FAT_FREE, w.fat[m] # FAT_INODE,
                      m \notin DirOf(w)
               PROVE  \E j \in InodesOf(w) : j # -1 /\ m \in DataOf(v, j)
    BY DEF Covers
  <2>1. w.fat[m] = v.fat[m] /\ m \notin DirOf(v)
    OBVIOUS
  <2>2. \E j \in InodesOf(v) : m \in DataOf(v, j)
    BY <2>1 DEF Owned, Covered
  <2> QED
    BY <1>1, <1>4, <2>2
<1>8. Owned(w) /\ \A j \in InodesOf(w) : j # -1 => SameFile(v, w, j)
  BY <1>4, <1>5, <1>6, <1>7, OwnedFrame
<1>9. FilesKept(v, w)
  BY <1>1, <1>4, <1>8 DEF FilesKept
<1> QED
  BY <1>1, <1>8, <1>9

(* add_inode on a disk with files: files keep their blocks, only the *)
(* directory may grow.                                               *)
LEMMA Entered ==
  ASSUME NEW v, Owned(v), NEW a \in Blocs, a > 0, NEW nom \in NOMS,
         NEW add, add = add_inode(v, nom, a)
  PROVE  EnteredIn(v, nom, a, add)
<1> DEFINE w == add.vol
           e == [name |-> nom, inode |-> a]
<1>1. IsVolume(v) /\ Sound(v) /\ Clean(v) /\ v.fat \in Fats /\ Reserved(v.fat)
  BY DEF Owned, IsVolume, Sound
<1>2. PICK s, n : HasDirectory(v, s, n)
  BY <1>1 DEF Sound
<1>3. e \in Entries /\ e.inode > 0 /\ e.inode = a /\ e.name = nom
  BY ValuesTyped DEF Entries
<1>4. /\ IsChain(v.fat, ADR_DIR, s, n) /\ DirOf(v) = ChainSet(s, n) /\ n \in Nat
      /\ s \in [0 .. n - 1 -> Blocs]
  <2>1. IsChain(v.fat, ADR_DIR, s, n) /\ ADR_DIR \in Values
    BY <1>2, ValuesTyped DEF HasDirectory, IsDirectory
  <2>2. DirOf(v) = ChainSet(s, n)
    BY <1>1, <2>1, ChainFacts DEF DirOf
  <2> QED
    BY <2>1, <2>2 DEF IsChain
<1> HIDE DEF e
<1>5. CASE add.vol = v /\ add.ret = -1 /\ (nom \in NOMS_LONGS \/ find_inode(v, nom) = -1)
  <2>1. FilesKept(v, v)
    BY DEF FilesKept, SameFile
  <2> QED
    BY <1>5, <2>1 DEF EnteredIn
<1>6. ASSUME NEW p \in PlacesOf(n), w = SetEntry(v, p, e), add.ret = find_inode(v, nom),
             OnlyNamed(v, s, n, p, nom)
      PROVE  EnteredIn(v, nom, a, add)
  <2> DEFINE b == s[p \div BLOCK_DIR_SIZE]
  <2> HIDE DEF w
  <2>1. OnlyUsed(v, s, n, p, e)
    BY <1>3, <1>6 DEF OnlyUsed
  <2>2. /\ IsVolume(w) /\ w.fat = v.fat /\ HasDirectory(w, s, n) /\ b \in Blocs
        /\ \A m \in Blocs : m # b => w.disk[m] = v.disk[m]
        /\ EntryOf(w.disk, s, p) = e
        /\ \A q \in PlacesOf(n) : q # p => EntryOf(w.disk, s, q) = EntryOf(v.disk, s, q)
    BY <1>1, <1>2, <1>3, <1>6, <2>1, EntrySet
  <2>3. p \div BLOCK_DIR_SIZE \in 0 .. n - 1
    BY <1>4, PlacesAre DEF PlacesOf
  <2>4. b \in DirOf(v) /\ v.fat[b] # FAT_FREE
    <3>1. b \in DirOf(v)
      BY <1>4, <2>3 DEF ChainSet
    <3> HIDE DEF b
    <3> QED
      BY <1>1, <3>1, DirOfMarked
  <2>5. Sound(w) /\ Clean(w) /\ DirOf(w) = DirOf(v)
    <3>1. w.fat \in Fats /\ IsDisk(w.disk)
      BY <2>2 DEF IsVolume
    <3> HIDE DEF b
    <3> QED
      BY <1>1, <2>2, <2>4, <3>1 DEF Sound, Clean, DirOf
  <2>6. Owned(w) /\ InodesOf(w) = InodesOf(v) /\ FilesKept(v, w)
    <3> HIDE DEF b
    <3> QED
      BY <2>2, <2>4, <2>5, DirectoryOnly
  <2>7. ChangedAt(v, s, n, w, s, n, p)
    BY <2>2 DEF ChangedAt
  <2>8. /\ \A x : x # nom => find_inode(w, x) = find_inode(v, x)
        /\ find_inode(w, nom) = IF EntryOf(w.disk, s, p).inode > 0
                                THEN EntryOf(w.disk, s, p).inode ELSE -1
    BY <1>2, <1>3, <1>6, <2>2, <2>7, Relisted
  <2>9. find_inode(w, nom) = a
    BY <1>3, <2>2, <2>8
  <2> QED
    BY <1>6, <2>6, <2>8, <2>9 DEF EnteredIn, w
<1>7. ASSUME Free(v.fat) # {}, w = GrowDir(v, e), add.ret = -1, find_inode(v, nom) = -1,
             NotNamed(v, s, n, nom)
      PROVE  EnteredIn(v, nom, a, add)
  <2> DEFINE b == alloc_block(v.fat)
             t == Extended(s, n, b)
             p == n * BLOCK_DIR_SIZE
  <2> HIDE DEF w
  <2>1. Grown(v, s, n, e, b, w, t)
    BY <1>1, <1>2, <1>3, <1>7, DirectoryGrown
  <2>2. DirOf(w) = DirOf(v) \cup {b}
    <3>1. w.fat \in Fats /\ IsChain(w.fat, ADR_DIR, t, n + 1) /\ ADR_DIR \in Values
      BY <2>1, ValuesTyped DEF Grown, HasDirectory, IsDirectory
    <3> HIDE DEF t, b
    <3>2. DirOf(w) = ChainSet(t, n + 1)
      BY <3>1, ChainFacts DEF DirOf
    <3>3. ChainSet(t, n + 1) = ChainSet(s, n) \cup {b}
      BY <1>4, ChainSetExtended DEF t
    <3> QED
      BY <1>4, <3>2, <3>3
  <2> HIDE DEF t, b, p
  <2>3. /\ b \in Blocs /\ v.fat[b] = FAT_FREE /\ b \notin DirOf(v)
        /\ s[n - 1] \in DirOf(v) /\ s[n - 1] \in Blocs
        /\ IsVolume(w) /\ HasDirectory(w, t, n + 1)
        /\ w.fat = [[v.fat EXCEPT ![b] = FAT_EOF] EXCEPT ![s[n - 1]] = b]
        /\ \A i \in Blocs : i # b => w.disk[i] = v.disk[i]
    BY <1>4, <2>1 DEF Grown
  <2>4. /\ w.fat[b] = FAT_EOF /\ w.fat[s[n - 1]] = b /\ s[n - 1] # b
        /\ \A m \in Blocs : m # b /\ m # s[n - 1] => w.fat[m] = v.fat[m]
    <3> DEFINE z == s[n - 1]
    <3>1. z \in Blocs /\ z # b /\ w.fat = [[v.fat EXCEPT ![b] = FAT_EOF] EXCEPT ![z] = b]
      BY <2>3
    <3> HIDE DEF z
    <3>2. w.fat[b] = FAT_EOF /\ w.fat[z] = b
          /\ \A m \in Blocs : m # b /\ m # z => w.fat[m] = v.fat[m]
      BY <1>1, <2>3, <3>1 DEF Fats
    <3> QED
      BY <3>1, <3>2 DEF z
  <2>5. v.fat[s[n - 1]] # FAT_INODE /\ v.fat[s[n - 1]] # FAT_FREE /\ v.fat[s[n - 1]] # FAT_RESERVED
    BY <1>1, <2>3, DirOfMarked
  <2>6. Sound(w) /\ Clean(w)
    <3>1. w.fat \in Fats /\ IsDisk(w.disk)
      BY <2>3 DEF IsVolume
    <3>2. Reserved(w.fat)
      BY <1>1, <2>3, <2>4, <2>5, ValuesTyped DEF Reserved
    <3>3. Clean(w)
      BY <1>1, <2>3, <2>4, ValuesTyped DEF Clean
    <3> QED
      BY <2>3, <3>1, <3>2, <3>3 DEF Sound
  <2>7. \A m \in Blocs : v.fat[m] = FAT_INODE <=> w.fat[m] = FAT_INODE
    <3> TAKE m \in Blocs
    <3>1. CASE m = b
      BY <2>3, <2>4, <3>1, ValuesTyped
    <3>2. CASE m = s[n - 1]
      BY <2>3, <2>4, <2>5, <3>2, ValuesTyped
    <3> QED
      BY <2>4, <3>1, <3>2
  <2>8. \A m \in Blocs : m \notin DirOf(w) => w.fat[m] = v.fat[m] /\ w.disk[m] = v.disk[m]
    BY <2>2, <2>3, <2>4
  <2>9. Owned(w) /\ InodesOf(w) = InodesOf(v) /\ FilesKept(v, w)
    BY <2>2, <2>3, <2>6, <2>7, <2>8, DirectoryOnly
  <2>10. ChangedAt(v, s, n, w, t, n + 1, p) /\ OnlyNamed(v, s, n, p, nom)
         /\ EntryOf(w.disk, t, p) = e
    BY <1>7, <2>1 DEF ChangedAt, OnlyNamed, NotNamed, Grown, p
  <2>11. /\ \A x : x # nom => find_inode(w, x) = find_inode(v, x)
         /\ find_inode(w, nom) = IF EntryOf(w.disk, t, p).inode > 0
                                 THEN EntryOf(w.disk, t, p).inode ELSE -1
    BY <1>2, <1>3, <2>3, <2>10, Relisted
  <2>12. find_inode(w, nom) = a
    BY <1>3, <2>10, <2>11
  <2> QED
    BY <1>7, <2>9, <2>11, <2>12 DEF EnteredIn, w
<1>8. \/ /\ add.vol = v /\ add.ret = -1
         /\ nom \in NOMS_LONGS \/ (Free(v.fat) = {} /\ find_inode(v, nom) = -1)
      \/ /\ nom \notin NOMS_LONGS
         /\ \E p \in PlacesOf(n) :
              /\ add.vol = SetEntry(v, p, e) /\ add.ret = find_inode(v, nom)
              /\ OnlyNamed(v, s, n, p, nom)
      \/ /\ nom \notin NOMS_LONGS
         /\ Free(v.fat) # {} /\ add.vol = GrowDir(v, e)
         /\ add.ret = -1 /\ find_inode(v, nom) = -1
         /\ NotNamed(v, s, n, nom)
  BY <1>2, AddInode DEF e
<1> QED
  BY <1>5, <1>6, <1>7, <1>8

-----------------------------------------------------------------------------
(* What the directory says leads to inodes, each by one name; and to all   *)
(* of them, while no failure was dropped.                                  *)
Leading(v) ==
  /\ \A nom : find_inode(v, nom) = -1 \/ find_inode(v, nom) \in InodesOf(v)
  /\ \A p, q : find_inode(v, p) = find_inode(v, q) /\ find_inode(v, p) # -1 => p = q
AllNamed(v) == \A i \in InodesOf(v) : \E nom \in NOMS : find_inode(v, nom) = i

(* The open file fl of v. *)
Reads(fl) == fl.mode = READ_MODE
OpenFile(v, fl) ==
  /\ fl \in OFiles /\ fl.inode \in InodesOf(v)
  /\ fl.current \in DataOf(v, fl.inode) \cup {FAT_EOF}
  /\ Reads(fl) => /\ fl.ptr <= fl.length /\ fl.length = v.disk[fl.inode].length
                  /\ fl.first = v.disk[fl.inode].first
  /\ ~Reads(fl) => /\ fl.ptr = fl.length /\ fl.last = v.disk[fl.inode].last
                   /\ fl.current = fl.last

(* While no failure was dropped: a file that is not being written, one     *)
(* that is, and the position of one that is read.                          *)
Complete(v, i) ==
  /\ Cardinality(DataOf(v, i)) = Blocks(v.disk[i].length)
  /\ \A m \in DataOf(v, i) : v.disk[m] \in Buffers
InProgress(v, fl) ==
  /\ Cardinality(DataOf(v, fl.inode)) = Blocks(fl.length)
  /\ (fl.length \div BLOCK_SIZE) * BLOCK_SIZE <= v.disk[fl.inode].length
  /\ v.disk[fl.inode].length <= fl.length
  /\ \A m \in DataOf(v, fl.inode) :
       (m = fl.current /\ fl.length % BLOCK_SIZE # 0) \/ v.disk[m] \in Buffers
ReadAt(v, fl) ==
  /\ fl.current = Walk(v.fat, fl.first, Max({0, LastBlock(fl.ptr)}))
  /\ fl.ptr # 0 => fl.current \in Blocs /\ fl.buffer = v.disk[fl.current]

Consistent(v, fl, pe) ==
  /\ fl # NULL => OpenFile(v, fl)
  /\ ~pe => /\ AllNamed(v)
            /\ \A i \in InodesOf(v) :
                 (fl # NULL /\ ~Reads(fl) /\ fl.inode = i) \/ Complete(v, i)
            /\ fl # NULL => IF Reads(fl) THEN ReadAt(v, fl) ELSE InProgress(v, fl)

(* What is opened to be written: a file without blocks, and the one that   *)
(* had its name is gone.                                                   *)
NewFileIn(v, nom, r) ==
  LET w == r.vol
      a == r.file.inode IN
  /\ Owned(w) /\ Leading(w) /\ a \in InodesOf(w) /\ a \in Blocs /\ a \notin InodesOf(v)
  /\ InodesOf(w) \subseteq InodesOf(v) \cup {a}
  /\ w.disk[a] = EmptyInode /\ DataOf(w, a) = {}
  /\ \A j \in InodesOf(w) : j # a => j \in InodesOf(v) /\ SameFile(v, w, j)
  /\ \A x : x # nom => find_inode(w, x) = find_inode(v, x)
  /\ ~r.perdu => find_inode(w, nom) = a
  /\ r.perdu \in BOOLEAN /\ (~r.perdu /\ AllNamed(v) => AllNamed(w))
  /\ r.panique = FALSE /\ r.file = OFile(a, EmptyInode, FAT_EOF, 0, WRITE_MODE)

(* sgf_open_write as a whole: inode, name, and the old file of that name *)
(* removed.                                                              *)
LEMMA NewFileMade ==
  ASSUME NEW v, Owned(v), Leading(v), Free(v.fat) # {}, NEW nom \in NOMS,
         NEW r, r = NewFile(v, nom)
  PROVE  NewFileIn(v, nom, r)
<1> DEFINE a == alloc_block(v.fat)
           v1 == set_fat(write_block(v, a, EmptyInode), a, FAT_INODE)
           add == add_inode(v1, nom, a)
           x == add.vol
           old == add.ret
           q == IF old > 0 THEN sgf_remove(x, old) ELSE Result(x, NULL)
<1>1. CreatedIn(v, a, v1)
  <2> HIDE DEF v1
  <2>1. v1 = set_fat(write_block(v, a, EmptyInode), a, FAT_INODE)
    BY DEF v1
  <2> QED
    BY <2>1, Created
<1>2. r = [q EXCEPT !.file = OFile(a, EmptyInode, FAT_EOF, 0, WRITE_MODE),
                    !.perdu = find_inode(x, nom) # a]
  BY DEF NewFile, EmptyInode
<1> HIDE DEF a, v1
<1>3. /\ Owned(v1) /\ a \in Blocs /\ a > 0 /\ a \notin InodesOf(v) /\ InodesOf(v1) = InodesOf(v) \cup {a}
      /\ FilesKept(v, v1) /\ v1.disk[a] = EmptyInode /\ DataOf(v1, a) = {}
      /\ \A y : find_inode(v1, y) = find_inode(v, y)
  BY <1>1 DEF CreatedIn, SameNames
<1>4. EnteredIn(v1, nom, a, add)
  <2> HIDE DEF add
  <2>1. add = add_inode(v1, nom, a)
    BY DEF add
  <2> QED
    BY <1>3, <2>1, Entered
<1> HIDE DEF add
<1>5. /\ Owned(x) /\ InodesOf(x) = InodesOf(v) \cup {a}
      /\ x.disk[a] = EmptyInode /\ DataOf(x, a) = {}
      /\ \A y : y # nom => find_inode(x, y) = find_inode(v, y)
  BY <1>3, <1>4 DEF EnteredIn, FilesKept, SameFile
<1>6. FilesKept(v, x)
  <2> SUFFICES ASSUME NEW j \in InodesOf(v)
               PROVE  SameFile(v, x, j)
    BY DEF FilesKept
  <2>1. SameFile(v, v1, j)
    BY <1>3 DEF FilesKept
  <2>2. SameFile(v1, x, j)
    BY <1>3, <1>4 DEF EnteredIn, FilesKept
  <2> QED
    BY <2>1, <2>2, SameFileTwice
<1>7. \A y : find_inode(v, y) # -1 => find_inode(v, y) \in InodesOf(v) /\ find_inode(v, y) # a
             /\ find_inode(v, y) > 0
  <2>1. ASSUME NEW i \in InodesOf(v) PROVE i > 0
    BY ValuesTyped DEF InodesOf, Owned, Sound, Reserved
  <2> QED
    BY <1>3, <2>1 DEF Leading
<1>8. ASSUME NEW w, NEW gone, Owned(w), InodesOf(w) = InodesOf(x) \ gone, a \notin gone,
             \A y : find_inode(w, y) = find_inode(x, y),
             \A j \in InodesOf(w) : SameFile(x, w, j),
             r.vol = w, r.panique = FALSE,
             r.file = OFile(a, EmptyInode, FAT_EOF, 0, WRITE_MODE),
             r.perdu = (find_inode(x, nom) # a), Leading(w),
             ~r.perdu /\ AllNamed(v) => AllNamed(w)
      PROVE  NewFileIn(v, nom, r)
  <2>1. r.file.inode = a /\ r.vol = w
    BY <1>8 DEF OFile
  <2>2. a \in InodesOf(w) /\ InodesOf(w) \subseteq InodesOf(v) \cup {a}
    BY <1>5, <1>8
  <2>3. w.disk[a] = EmptyInode /\ DataOf(w, a) = {}
    BY <1>5, <1>8, <2>2 DEF SameFile
  <2>4. \A j \in InodesOf(w) : j # a => j \in InodesOf(v) /\ SameFile(v, w, j)
    BY <1>6, <1>8, <2>2, SameFileTwice DEF FilesKept
  <2>5. r.perdu \in BOOLEAN /\ (~r.perdu => find_inode(w, nom) = a)
    BY <1>8
  <2>6. \A y : y # nom => find_inode(w, y) = find_inode(v, y)
    BY <1>5, <1>8
  <2> QED
    BY <1>3, <1>8, <2>1, <2>2, <2>3, <2>4, <2>5, <2>6 DEF NewFileIn
<1>9. CASE old = -1 /\ find_inode(x, nom) = find_inode(v, nom)
  <2>1. q = Result(x, NULL)
    BY <1>9
  <2>2. /\ r.vol = x /\ r.panique = FALSE
        /\ r.file = OFile(a, EmptyInode, FAT_EOF, 0, WRITE_MODE)
        /\ r.perdu = (find_inode(x, nom) # a)
    BY <1>2, <2>1 DEF Result
  <2>3. \A y : find_inode(x, y) = find_inode(v, y)
    BY <1>5, <1>9
  <2>4. Leading(x)
    BY <1>5, <1>7, <2>3 DEF Leading
  <2>5. r.perdu
    <3>1. find_inode(x, nom) # a
      BY <1>3, <1>7, <2>3, ValuesTyped
    <3> QED
      BY <2>2, <3>1
  <2>6. InodesOf(x) = InodesOf(x) \ {}
    OBVIOUS
  <2> QED
    BY <1>5, <1>8, <2>2, <2>4, <2>5, <2>6 DEF SameFile
<1>10. CASE old = find_inode(v, nom) /\ find_inode(x, nom) = a
  <2>0. \A y : y # nom => find_inode(v, y) = -1 \/ find_inode(v, y) # find_inode(v, nom)
    BY DEF Leading
  <2>1. CASE old = -1
    <3>1. q = Result(x, NULL)
      BY <2>1
    <3>2. /\ r.vol = x /\ r.panique = FALSE
          /\ r.file = OFile(a, EmptyInode, FAT_EOF, 0, WRITE_MODE)
          /\ r.perdu = (find_inode(x, nom) # a)
      BY <1>2, <3>1 DEF Result
    <3>3. Leading(x)
      <4>1. \A y : find_inode(x, y) = -1 \/ find_inode(x, y) \in InodesOf(x)
        BY <1>5, <1>7, <1>10
      <4>2. \A y, z : find_inode(x, y) = find_inode(x, z) /\ find_inode(x, y) # -1 => y = z
        <5> TAKE y, z
        <5>1. CASE y = nom \/ z = nom
          BY <1>3, <1>5, <1>7, <1>10, <5>1
        <5>2. CASE y # nom /\ z # nom
          BY <1>5, <5>2 DEF Leading
        <5> QED
          BY <5>1, <5>2
      <4> QED
        BY <4>1, <4>2 DEF Leading
    <3>4. AllNamed(v) => AllNamed(x)
      <4> SUFFICES ASSUME AllNamed(v), NEW i \in InodesOf(x)
                   PROVE  \E y \in NOMS : find_inode(x, y) = i
        BY DEF AllNamed
      <4>1. CASE i = a
        BY <1>10, <4>1
      <4>2. CASE i # a
        <5>1. i \in InodesOf(v)
          BY <1>5, <4>2
        <5>2. PICK y \in NOMS : find_inode(v, y) = i
          BY <5>1 DEF AllNamed
        <5>3. y # nom
          <6>1. i # -1
            BY <5>1, ValuesTyped DEF InodesOf
          <6> QED
            BY <1>10, <2>1, <5>2, <6>1
        <5> QED
          BY <1>5, <5>2, <5>3
      <4> QED
        BY <4>1, <4>2
    <3>5. InodesOf(x) = InodesOf(x) \ {}
      OBVIOUS
    <3> QED
      BY <1>5, <1>8, <3>2, <3>3, <3>4, <3>5 DEF SameFile
  <2>2. CASE old # -1
    <3> DEFINE w == q.vol
    <3>1. old \in InodesOf(v) /\ old # a /\ old > 0
      BY <1>7, <1>10, <2>2
    <3>2. q = sgf_remove(x, old) /\ old \in InodesOf(x)
      BY <1>5, <3>1
    <3> HIDE DEF q
    <3>3. RemovedFrom(x, old, w) /\ q = Result(w, NULL)
      BY <1>5, <3>2, Removed
    <3> HIDE DEF w
    <3>4. /\ r.vol = w /\ r.panique = FALSE
          /\ r.file = OFile(a, EmptyInode, FAT_EOF, 0, WRITE_MODE)
          /\ r.perdu = (find_inode(x, nom) # a)
      BY <1>2, <3>3 DEF Result
    <3>5. Owned(w) /\ InodesOf(w) = InodesOf(x) \ {old} /\ \A y : find_inode(w, y) = find_inode(x, y)
      BY <3>3 DEF RemovedFrom, SameNames
    <3>6. Leading(w)
      <4>1. \A y : find_inode(w, y) = -1 \/ find_inode(w, y) \in InodesOf(w)
        <5> TAKE y
        <5>1. CASE y = nom
          BY <1>5, <1>10, <3>1, <3>5, <5>1
        <5>2. CASE y # nom
          BY <1>5, <1>7, <1>10, <2>0, <2>2, <3>5, <5>2
        <5> QED
          BY <5>1, <5>2
      <4>2. \A y, z : find_inode(w, y) = find_inode(w, z) /\ find_inode(w, y) # -1 => y = z
        <5> TAKE y, z
        <5>1. CASE y = nom \/ z = nom
          BY <1>3, <1>5, <1>7, <1>10, <3>5, <5>1
        <5>2. CASE y # nom /\ z # nom
          BY <1>5, <3>5, <5>2 DEF Leading
        <5> QED
          BY <5>1, <5>2
      <4> QED
        BY <4>1, <4>2 DEF Leading
    <3>7. AllNamed(v) => AllNamed(w)
      <4> SUFFICES ASSUME AllNamed(v), NEW i \in InodesOf(w)
                   PROVE  \E y \in NOMS : find_inode(w, y) = i
        BY DEF AllNamed
      <4>1. CASE i = a
        BY <1>10, <3>5, <4>1
      <4>2. CASE i # a
        <5>1. i \in InodesOf(v) /\ i # old
          BY <1>5, <3>5, <4>2
        <5>2. PICK y \in NOMS : find_inode(v, y) = i
          BY <5>1 DEF AllNamed
        <5>3. y # nom
          BY <1>10, <5>1, <5>2
        <5> QED
          BY <1>5, <3>5, <5>2, <5>3
      <4> QED
        BY <4>1, <4>2
    <3>8. \A j \in InodesOf(w) : SameFile(x, w, j)
      BY <3>3 DEF RemovedFrom
    <3>9. a \notin {old}
      BY <3>1
    <3> QED
      BY <1>8, <3>4, <3>5, <3>6, <3>7, <3>8, <3>9
  <2> QED
    BY <2>1, <2>2
<1> QED
  BY <1>3, <1>4, <1>9, <1>10 DEF EnteredIn

-----------------------------------------------------------------------------
(* Positions and the blocks they are in. *)
LEMMA MaxZero ==
  ASSUME NEW x \in Int
  PROVE  Max({0, x}) = IF x > 0 THEN x ELSE 0
<1>1. \E m \in {0, x} : \A y \in {0, x} : m >= y
  <2>1. CASE x > 0
    BY <2>1
  <2>2. CASE ~(x > 0)
    BY <2>2
  <2> QED
    BY <2>1, <2>2
<1>2. Max({0, x}) \in {0, x} /\ \A y \in {0, x} : Max({0, x}) >= y
  BY <1>1 DEF Max
<1> QED
  BY <1>2

BlockAt(p) == Max({0, LastBlock(p)})

(* The last block of p + 1 characters is the block of the character at p. *)
LEMMA LastBlockNext ==
  ASSUME NEW p \in Nat
  PROVE  /\ p \div BLOCK_SIZE \in Nat
         /\ LastBlock(p + 1) = p \div BLOCK_SIZE /\ BlockAt(p + 1) = p \div BLOCK_SIZE
<1> DEFINE B == BLOCK_SIZE
           q == p \div B
           j == p % B
           n == p + 1
<1>1. B \in Nat \ {0} /\ B >= 2
  BY SgfAssumption
<1>2. q \in Nat /\ j \in 0 .. B - 1 /\ p = q * B + j /\ q * B \in Nat
  BY BlocksAre
<1>3. LastBlock(n) = (n \div B) - (IF n % B = 0 THEN 1 ELSE 0)
  BY DEF LastBlock
<1>4. n = p + 1
  OBVIOUS
<1> HIDE DEF B, q, j, n
<1>5. (q + 1) * B = q * B + B
  BY <1>1, <1>2
<1>6. LastBlock(n) = q
  <2>1. CASE j + 1 = B
    <3>1. n = (q + 1) * B + 0 /\ 0 \in 0 .. B - 1 /\ q + 1 \in Nat
      BY <1>1, <1>2, <1>4, <1>5, <2>1
    <3>2. n \div B = q + 1 /\ n % B = 0
      BY <1>1, <3>1, QuotientOf
    <3> QED
      BY <1>2, <1>3, <3>2
  <2>2. CASE j + 1 # B
    <3>1. n = q * B + (j + 1) /\ j + 1 \in 0 .. B - 1 /\ j + 1 # 0
      BY <1>1, <1>2, <1>4, <2>2
    <3>2. n \div B = q /\ n % B = j + 1
      BY <1>1, <1>2, <3>1, QuotientOf
    <3> QED
      BY <1>2, <1>3, <3>1, <3>2
  <2> QED
    BY <2>1, <2>2
<1>7. Max({0, LastBlock(n)}) = q
  <2>1. Max({0, q}) = IF q > 0 THEN q ELSE 0
    BY <1>2, MaxZero
  <2> QED
    BY <1>2, <1>6, <2>1
<1> QED
  BY <1>2, <1>6, <1>7 DEF BlockAt, q, n, B

(* The numbers of blocks that the code computes from a position, compared. *)
LEMMA LastBlocks ==
  ASSUME NEW p \in Nat
  PROVE  /\ BlockAt(p) \in Nat /\ LastBlock(p) \in Int
         /\ p = 0 => LastBlock(p) = -1 /\ BlockAt(p) = 0
         /\ p # 0 => LastBlock(p) = (p - 1) \div BLOCK_SIZE /\ BlockAt(p) = LastBlock(p)
         /\ p % BLOCK_SIZE # 0 => p # 0 /\ BlockAt(p) = p \div BLOCK_SIZE
         /\ SeekBlock(p) = BlockAt(p)
<1>1. BLOCK_SIZE \in Nat \ {0} /\ p \div BLOCK_SIZE \in Nat
  BY SgfAssumption, BlocksAre
<1>2. ASSUME p = 0 PROVE LastBlock(p) = -1 /\ BlockAt(p) = 0 /\ SeekBlock(p) = 0 /\ p % BLOCK_SIZE = 0
  <2>1. 0 = 0 * BLOCK_SIZE + 0 /\ 0 \in 0 .. BLOCK_SIZE - 1
    BY <1>1
  <2>2. 0 \div BLOCK_SIZE = 0 /\ 0 % BLOCK_SIZE = 0
    BY <1>1, <2>1, QuotientOf
  <2>3. LastBlock(p) = -1
    BY <1>2, <2>2 DEF LastBlock
  <2>4. Max({0, -1}) = 0
    BY MaxZero
  <2> QED
    BY <1>2, <2>2, <2>3, <2>4 DEF BlockAt, SeekBlock
<1>3. ASSUME p # 0
      PROVE  /\ LastBlock(p) = (p - 1) \div BLOCK_SIZE /\ BlockAt(p) = (p - 1) \div BLOCK_SIZE
             /\ (p - 1) \div BLOCK_SIZE \in Nat /\ SeekBlock(p) = (p - 1) \div BLOCK_SIZE
  <2> DEFINE x == p - 1
  <2>1. x \in Nat /\ x + 1 = p
    BY <1>3
  <2> HIDE DEF x
  <2>2. /\ x \div BLOCK_SIZE \in Nat
        /\ LastBlock(p) = x \div BLOCK_SIZE /\ BlockAt(p) = x \div BLOCK_SIZE
    BY <2>1, LastBlockNext
  <2> QED
    BY <1>3, <2>2 DEF SeekBlock, x
<1>4. ASSUME p % BLOCK_SIZE # 0 PROVE LastBlock(p) = p \div BLOCK_SIZE
  BY <1>1, <1>4 DEF LastBlock
<1> QED
  BY <1>2, <1>3, <1>4

(* A character of a file lies in one of its blocks. *)
LEMMA BlockWithin ==
  ASSUME NEW p \in Nat, NEW L \in Nat, p < L
  PROVE  p \div BLOCK_SIZE \in Nat /\ p \div BLOCK_SIZE < Blocks(L)
<1> DEFINE B == BLOCK_SIZE
           a == p \div B
           b == p % B
           q == L \div B
           r == L % B
<1>1. B \in Nat \ {0} /\ B >= 2
  BY SgfAssumption
<1>2. a \in Nat /\ b \in 0 .. B - 1 /\ p = a * B + b /\ a * B \in Nat
  BY BlocksAre
<1>3. q \in Nat /\ r \in 0 .. B - 1 /\ L = q * B + r /\ q * B \in Nat
      /\ Blocks(L) = q + (IF r = 0 THEN 0 ELSE 1)
  BY BlocksAre
<1> HIDE DEF B, a, b, q, r
<1>4. (q + 1) * B = q * B + B
  BY <1>1, <1>3
<1> DEFINE ab == a * B
           qb == q * B
           q1 == (q + 1) * B
<1>5. ASSUME q + 1 <= a PROVE q1 <= ab
  BY <1>1, <1>2, <1>3, <1>5, Monotone
<1>6. ASSUME q <= a PROVE qb <= ab
  BY <1>1, <1>2, <1>3, <1>6, Monotone
<1>7. q1 = qb + B /\ ab \in Nat /\ qb \in Nat /\ p = ab + b /\ L = qb + r
  BY <1>2, <1>3, <1>4
<1> HIDE DEF ab, qb, q1
<1>8. a <= q
  BY <1>1, <1>2, <1>3, <1>5, <1>7
<1>9. r = 0 => a < q
  BY <1>1, <1>2, <1>3, <1>6, <1>7, <1>8
<1>10. a < Blocks(L)
  BY <1>2, <1>3, <1>8, <1>9
<1> QED
  BY <1>2, <1>10 DEF a, B

(* A walk from a block of a chain goes on along the chain. *)
LEMMA WalkAdds ==
  ASSUME NEW f \in Fats, NEW a \in Values, NEW i \in Nat, NEW j \in Nat
  PROVE  Walk(f, Walk(f, a, i), j) = Walk(f, a, i + j)
<1> DEFINE b == Walk(f, a, i)
           T == {k \in Nat : Walk(f, b, k) = Walk(f, a, i + k)}
<1>1. b \in Values
  BY WalkUnfolds
<1> HIDE DEF b
<1>2. 0 \in T
  <2>1. Walk(f, b, 0) = b /\ i + 0 = i
    BY <1>1, WalkUnfolds
  <2> QED
    BY <2>1 DEF b
<1>3. ASSUME NEW k \in Nat, k \in T
      PROVE  k + 1 \in T
  <2>1. Walk(f, b, k + 1) = Links(f)[Walk(f, b, k)]
    BY <1>1, WalkUnfolds
  <2>2. i + k \in Nat /\ i + (k + 1) = (i + k) + 1
    OBVIOUS
  <2>3. Walk(f, a, (i + k) + 1) = Links(f)[Walk(f, a, i + k)]
    BY <2>2, WalkUnfolds
  <2> QED
    BY <1>3, <2>1, <2>2, <2>3
<1> HIDE DEF T
<1>4. Nat \subseteq T
  BY <1>2, <1>3, Induction
<1> QED
  BY <1>4 DEF T, b

(* A walk that starts in a file stays in it. *)
LEMMA WalkWithin ==
  ASSUME NEW v, Owned(v), NEW i \in InodesOf(v), NEW c \in DataOf(v, i) \cup {FAT_EOF},
         NEW k \in Nat
  PROVE  Walk(v.fat, c, k) \in DataOf(v, i) \cup {FAT_EOF}
<1> DEFINE a == v.disk[i].first
           f == v.fat
<1>1. PICK s, n : FileIs(v, i, s, n)
  BY DEF Owned, Chained
<1>2. f \in Fats
  BY DEF Owned, IsVolume
<1>3. /\ n \in Nat /\ DataOf(v, i) = ChainSet(s, n)
      /\ \A m \in Nat : Walk(f, a, m) = IF m < n THEN s[m] ELSE FAT_EOF
  BY <1>1, <1>2, FileFacts
<1>4. a \in Values
  BY <1>1, ValuesTyped DEF FileIs, InodeRecords
<1>5. \E j \in Nat : c = Walk(f, a, j)
  <2>1. CASE c = FAT_EOF
    BY <1>3, <2>1
  <2>2. CASE c \in ChainSet(s, n)
    <3>1. PICK j \in 0 .. n - 1 : c = s[j]
      BY <2>2 DEF ChainSet
    <3> QED
      BY <1>3, <3>1
  <2> QED
    BY <1>3, <2>1, <2>2
<1> HIDE DEF a, f
<1>6. PICK j \in Nat : c = Walk(f, a, j)
  BY <1>5
<1>7. Walk(f, c, k) = Walk(f, a, j + k) /\ j + k \in Nat
  BY <1>2, <1>4, <1>6, WalkAdds
<1>8. \A m \in Nat : m < n => m \in 0 .. n - 1
  BY <1>3
<1>9. Walk(f, a, j + k) \in ChainSet(s, n) \cup {FAT_EOF}
  BY <1>3, <1>7, <1>8 DEF ChainSet
<1> QED
  BY <1>3, <1>7, <1>9 DEF f

-----------------------------------------------------------------------------
(* Names lead to the same inodes. *)
LEMMA NamesKept ==
  ASSUME NEW v, NEW w, SameNames(v, w), InodesOf(w) = InodesOf(v)
  PROVE  (Leading(v) => Leading(w)) /\ (AllNamed(v) => AllNamed(w))
BY DEF SameNames, Leading, AllNamed

(* The file that is written, and what the others and their names are while *)
(* no failure was dropped.                                                 *)
Writes(v, fl) ==
  /\ fl \in OFiles /\ fl.inode \in InodesOf(v) /\ ~Reads(fl)
  /\ fl.current \in DataOf(v, fl.inode) \cup {FAT_EOF}
  /\ fl.last = v.disk[fl.inode].last /\ fl.current = fl.last
Others(v, i) == AllNamed(v) /\ \A j \in InodesOf(v) : j = i \/ Complete(v, j)

(* Consistent, for a file that is open to write. *)
LEMMA OpenWrites ==
  ASSUME NEW v, NEW fl, NEW pe, fl # NULL, ~Reads(fl)
  PROVE  Consistent(v, fl, pe) <=>
         /\ Writes(v, fl) /\ fl.ptr = fl.length
         /\ ~pe => Others(v, fl.inode) /\ InProgress(v, fl)
BY DEF Consistent, OpenFile, Writes, Others

(* A step on the file i leaves the others complete. *)
LEMMA OthersKept ==
  ASSUME NEW v, NEW w, NEW i, SameNames(v, w), InodesOf(w) = InodesOf(v),
         \A j \in InodesOf(v) : j # i =>
           /\ DataOf(w, j) = DataOf(v, j) /\ w.disk[j] = v.disk[j]
           /\ \A m \in DataOf(v, j) : w.disk[m] = v.disk[m],
         Others(v, i)
  PROVE  Others(w, i)
<1>1. AllNamed(w)
  BY NamesKept DEF Others
<1>2. \A j \in InodesOf(v) : j # i => Complete(w, j)
  BY DEF Others, Complete
<1> QED
  BY <1>1, <1>2 DEF Others

(* A file with blocks has a last one. *)
LEMMA CurrentIsBlock ==
  ASSUME NEW v, Owned(v), NEW fl, Writes(v, fl), Cardinality(DataOf(v, fl.inode)) # 0
  PROVE  fl.current \in DataOf(v, fl.inode)
<1> DEFINE i == fl.inode
<1>1. i \in InodesOf(v) /\ fl.current = v.disk[i].last
  BY DEF Writes
<1> HIDE DEF i
<1>2. PICK s, n : FileIs(v, i, s, n)
  BY <1>1 DEF Owned, Chained
<1>3. v.fat \in Fats
  BY DEF Owned, IsVolume
<1>4. /\ n \in Nat /\ DataOf(v, i) = ChainSet(s, n) /\ Cardinality(DataOf(v, i)) = n
      /\ n # 0 => v.disk[i].last = s[n - 1]
  BY <1>2, <1>3, FileFacts
<1>5. n # 0 /\ n - 1 \in 0 .. n - 1
  BY <1>4 DEF i
<1> QED
  BY <1>1, <1>4, <1>5 DEF ChainSet, i

(* Flush() on a file all of whose blocks but the last are on the disk: the *)
(* file is complete.                                                       *)
Pending(v, fl) ==
  /\ Cardinality(DataOf(v, fl.inode)) = Blocks(fl.length) /\ fl.length # 0
  /\ \A m \in DataOf(v, fl.inode) : m = fl.current \/ v.disk[m] \in Buffers
FlushedAs(v, fl, pe, r) ==
  /\ Owned(r.vol) /\ Leading(r.vol) /\ r.perdu = FALSE /\ r.panique \in BOOLEAN
  /\ r.panique => pe /\ r = Panic(v, fl)
  /\ ~r.panique => /\ r = Result(r.vol, fl) /\ Writes(r.vol, fl)
                   /\ r.vol.disk[fl.inode].length = fl.length
                   /\ ~pe => Others(r.vol, fl.inode) /\ Complete(r.vol, fl.inode)

(* A flush keeps what is known of volume and open file. *)
LEMMA FlushStep ==
  ASSUME NEW v, Owned(v), Leading(v), NEW fl, Writes(v, fl), NEW pe \in BOOLEAN,
         ~pe => Others(v, fl.inode) /\ Pending(v, fl), NEW r, r = Flush(v, fl)
  PROVE  FlushedAs(v, fl, pe, r)
<1> DEFINE i == fl.inode
           c == fl.current
           w == r.vol
<1>0. fl \in OFiles /\ i \in InodesOf(v) /\ i \in Blocs
  BY DEF Writes, InodesOf
<1>1. CASE c \notin DataOf(v, i)
  <2>1. c = FAT_EOF
    BY <1>1 DEF Writes
  <2>2. r = Panic(v, fl)
    BY <2>1, ValuesTyped DEF Flush, NU_BLOC_OK
  <2>3. pe
    <3> SUFFICES ASSUME ~pe PROVE FALSE
      OBVIOUS
    <3>1. Cardinality(DataOf(v, i)) = Blocks(fl.length) /\ fl.length # 0 /\ fl.length \in Nat
      BY <1>0, OFileFields DEF Pending
    <3>2. Cardinality(DataOf(v, i)) # 0
      BY <3>1, BlocksAre
    <3> QED
      BY <1>1, <3>2, CurrentIsBlock
  <2> QED
    BY <2>2, <2>3 DEF FlushedAs, Panic, Result
<1>2. CASE c \in DataOf(v, i)
  <2>1. FlushedTo(v, fl, w) /\ r = Result(w, fl)
    BY <1>0, <1>2, Flushed
  <2>2. c \in Blocs /\ c # i
    BY <1>0, <1>2, DataMarked
  <2> HIDE DEF i, c, w
  <2>3. /\ Owned(w) /\ SameNames(v, w) /\ InodesOf(w) = InodesOf(v)
        /\ \A j \in InodesOf(v) : DataOf(w, j) = DataOf(v, j)
        /\ w.disk[i] = [v.disk[i] EXCEPT !.length = fl.length] /\ w.disk[c] = fl.buffer
        /\ \A m \in Blocs : m # i /\ m # c => w.disk[m] = v.disk[m]
    BY <2>1 DEF FlushedTo, i, c
  <2>4. /\ w.disk[i].length = fl.length /\ w.disk[i].last = v.disk[i].last
    <3>1. PICK s, n : FileIs(v, i, s, n)
      BY <1>0 DEF Owned, Chained
    <3>2. v.disk[i] \in InodeRecords
      BY <3>1 DEF FileIs
    <3> QED
      BY <1>0, <2>3, <3>2, OFileFields, InodeSet
  <2>5. Leading(w)
    BY <2>3, NamesKept
  <2>6. Writes(w, fl)
    BY <1>0, <2>3, <2>4 DEF Writes, i
  <2>7. ASSUME ~pe PROVE Others(w, i) /\ Complete(w, i)
    <3>1. \A j \in InodesOf(v) : j # i =>
            /\ DataOf(w, j) = DataOf(v, j) /\ w.disk[j] = v.disk[j]
            /\ \A m \in DataOf(v, j) : w.disk[m] = v.disk[m]
      <4> SUFFICES ASSUME NEW j \in InodesOf(v), j # i
                   PROVE  w.disk[j] = v.disk[j] /\ \A m \in DataOf(v, j) : w.disk[m] = v.disk[m]
        BY <2>3
      <4>1. j \in Blocs /\ j # c
        BY <1>0, <1>2, DataMarked DEF InodesOf, i, c
      <4>2. \A m \in DataOf(v, j) : m \in Blocs /\ m # i
        BY <1>0, DataMarked
      <4>3. \A m \in DataOf(v, j) : m # c
        BY <1>0, <1>2 DEF Owned, Disjoint
      <4> QED
        BY <2>3, <4>1, <4>2, <4>3
    <3>2. Others(w, i)
      BY <2>3, <2>7, <3>1, OthersKept DEF i
    <3>3. \A m \in DataOf(v, i) : w.disk[m] \in Buffers
      <4> TAKE m \in DataOf(v, i)
      <4>1. m \in Blocs /\ m # i
        BY <1>0, DataMarked
      <4>2. m = c \/ v.disk[m] \in Buffers
        BY <2>7 DEF Pending, i, c
      <4>3. fl.buffer \in Buffers
        BY <1>0, OFileFields
      <4> QED
        BY <2>3, <4>1, <4>2, <4>3
    <3>4. Complete(w, i)
      BY <1>0, <2>3, <2>4, <2>7, <3>3 DEF Complete, Pending, i
    <3> QED
      BY <3>2, <3>4
  <2>8. r = Result(w, fl) /\ r.perdu = FALSE /\ r.panique = FALSE
    BY <2>1 DEF Result
  <2> QED
    BY <2>3, <2>4, <2>5, <2>6, <2>7, <2>8 DEF FlushedAs, i, w
<1> QED
  BY <1>1, <1>2

(* sgf_append_block() when there is a free block. *)
AppendedAs(v, fl, pe, r) ==
  LET i == fl.inode
      w == r.vol IN
  /\ Owned(w) /\ Leading(w) /\ Writes(w, r.file) /\ w.disk[i].length = fl.length
  /\ \E a \in Blocs : r = Result(w, Linked(fl, a))
  /\ ~pe => /\ Others(w, i) /\ Cardinality(DataOf(w, i)) = Cardinality(DataOf(v, i)) + 1
            /\ \A m \in DataOf(w, i) : m = r.file.current \/ w.disk[m] \in Buffers

(* So does sgf_append_block, when a block is free. *)
LEMMA AppendStep ==
  ASSUME NEW v, Owned(v), Leading(v), NEW fl, Writes(v, fl), NEW pe \in BOOLEAN,
         ~pe => Others(v, fl.inode) /\ \A m \in DataOf(v, fl.inode) : v.disk[m] \in Buffers,
         Free(v.fat) # {}, NEW r, r = sgf_append_block(v, fl)
  PROVE  AppendedAs(v, fl, pe, r)
<1> DEFINE i == fl.inode
           w == r.vol
           a == alloc_block(v.fat)
           gl == Linked(fl, a)
<1>1. fl \in OFiles /\ i \in InodesOf(v) /\ i \in Blocs /\ fl.current = v.disk[fl.inode].last
  BY DEF Writes, InodesOf
<1>2. AppendedTo(v, fl, w, a) /\ r = Result(w, gl)
  <2>1. a = alloc_block(v.fat) /\ fl.inode \in InodesOf(v)
    BY <1>1
  <2> HIDE DEF a, i
  <2> QED
    BY <1>1, <2>1, BlockAppended DEF gl
<1>3. /\ a \in Blocs /\ v.fat[a] = FAT_FREE /\ a \notin DataOf(v, i)
      /\ Owned(w) /\ SameNames(v, w) /\ InodesOf(w) = InodesOf(v)
      /\ DataOf(w, i) = DataOf(v, i) \cup {a}
      /\ \A j \in InodesOf(v) : j # i => DataOf(w, j) = DataOf(v, j)
      /\ w.disk[i].length = fl.length /\ w.disk[i].last = a
      /\ \A m \in Blocs : m # i => w.disk[m] = v.disk[m]
  BY <1>2 DEF AppendedTo, SameFile
<1> HIDE DEF i, w, a
<1>4. gl \in OFiles /\ gl.inode = i /\ gl.current = a /\ gl.last = a /\ gl.mode = fl.mode
  BY <1>1, <1>3 DEF OFiles, i, Linked
<1> HIDE DEF gl
<1>5. r.file = gl
  BY <1>2 DEF Result
<1>6. Writes(w, gl)
  BY <1>1, <1>3, <1>4 DEF Writes, Reads
<1>7. Leading(w)
  BY <1>3, NamesKept
<1>8. ASSUME ~pe
      PROVE  /\ Others(w, i) /\ Cardinality(DataOf(w, i)) = Cardinality(DataOf(v, i)) + 1
             /\ \A m \in DataOf(w, i) : m = a \/ w.disk[m] \in Buffers
  <2>1. \A j \in InodesOf(v) : j # i =>
          /\ DataOf(w, j) = DataOf(v, j) /\ w.disk[j] = v.disk[j]
          /\ \A m \in DataOf(v, j) : w.disk[m] = v.disk[m]
    <3> SUFFICES ASSUME NEW j \in InodesOf(v), j # i
                 PROVE  w.disk[j] = v.disk[j] /\ \A m \in DataOf(v, j) : w.disk[m] = v.disk[m]
      BY <1>3
    <3>1. j \in Blocs
      BY DEF InodesOf
    <3>2. \A m \in DataOf(v, j) : m \in Blocs /\ m # i
      BY <1>1, DataMarked
    <3> QED
      BY <1>3, <3>1, <3>2
  <2>2. Others(w, i)
    BY <1>3, <1>8, <2>1, OthersKept DEF i
  <2>3. \A m \in DataOf(v, i) : w.disk[m] \in Buffers
    <3> TAKE m \in DataOf(v, i)
    <3>1. m \in Blocs /\ m # i
      BY <1>1, DataMarked
    <3> QED
      BY <1>3, <1>8, <3>1 DEF i
  <2>4. Cardinality(DataOf(v, i) \cup {a}) = Cardinality(DataOf(v, i)) + 1
    <3>1. DataOf(v, i) \in SUBSET Blocs
      BY <1>1, DataMarked
    <3>2. IsFiniteSet(DataOf(v, i))
      BY <3>1, BlocsFinite
    <3> QED
      BY <1>3, <3>2, FS_AddElement
  <2> QED
    BY <1>3, <2>2, <2>3, <2>4
<1>9. \E b \in Blocs : r = Result(w, Linked(fl, b))
  BY <1>2, <1>3 DEF gl
<1> QED
  BY <1>3, <1>4, <1>5, <1>6, <1>7, <1>8, <1>9 DEF AppendedAs, i, w

-----------------------------------------------------------------------------
(* What a call must leave, pe telling whether a failure had been dropped   *)
(* before; and a call that writes, which makes the length L.               *)
Good(r, pe) ==
  /\ Owned(r.vol) /\ Leading(r.vol) /\ r.perdu \in BOOLEAN /\ r.panique \in BOOLEAN
  /\ r.panique => pe \/ r.perdu
  /\ ~r.panique => Consistent(r.vol, r.file, pe \/ r.perdu)
Wrote(r, pe, L) ==
  /\ Good(r, pe)
  /\ ~r.panique => r.file # NULL /\ ~Reads(r.file) /\ r.file.length = L

Further(gl) == [gl EXCEPT !.ptr = @ + 1]

(* The record that a call returns, and its fields. *)
Outcome(w, gl, pd, pa) == [vol |-> w, file |-> gl, perdu |-> pd, panique |-> pa]

(* The fields of an outcome, read and replaced. *)
LEMMA OutcomeSet ==
  ASSUME NEW w, NEW gl, NEW pd, NEW pa, NEW h
  PROVE  /\ [Outcome(w, gl, pd, pa) EXCEPT !.vol = h] = Outcome(h, gl, pd, pa)
         /\ [Outcome(w, gl, pd, pa) EXCEPT !.file = h] = Outcome(w, h, pd, pa)
         /\ [Outcome(w, gl, pd, pa) EXCEPT !.perdu = h] = Outcome(w, gl, h, pa)
         /\ [Outcome(w, gl, pd, pa) EXCEPT !.panique = h] = Outcome(w, gl, pd, h)
         /\ Outcome(w, gl, pd, pa).vol = w /\ Outcome(w, gl, pd, pa).file = gl
         /\ Outcome(w, gl, pd, pa).perdu = pd /\ Outcome(w, gl, pd, pa).panique = pa
BY DEF Outcome

(* The three outcomes of a call, as one form. *)
LEMMA Outcomes ==
  ASSUME NEW w, NEW gl
  PROVE  /\ Result(w, gl) = Outcome(w, gl, FALSE, FALSE)
         /\ Lost(w, gl) = Outcome(w, gl, TRUE, FALSE)
         /\ Panic(w, gl) = Outcome(w, gl, FALSE, TRUE)
<1> DEFINE F == FALSE
           T == TRUE
<1>1. Result(w, gl) = Outcome(w, gl, F, F)
  BY Zenon DEF Result, Outcome
<1>2. Lost(w, gl) = [Outcome(w, gl, F, F) EXCEPT !.perdu = T]
  BY <1>1, Zenon DEF Lost
<1>3. Panic(w, gl) = [Outcome(w, gl, F, F) EXCEPT !.panique = T]
  BY <1>1, Zenon DEF Panic
<1> HIDE DEF F, T
<1>4. [Outcome(w, gl, F, F) EXCEPT !.perdu = T] = Outcome(w, gl, T, F)
  BY OutcomeSet
<1>5. [Outcome(w, gl, F, F) EXCEPT !.panique = T] = Outcome(w, gl, F, T)
  BY OutcomeSet
<1>6. /\ Result(w, gl) = Outcome(w, gl, F, F) /\ Lost(w, gl) = Outcome(w, gl, T, F)
      /\ Panic(w, gl) = Outcome(w, gl, F, T)
  BY <1>1, <1>2, <1>3, <1>4, <1>5
<1> QED
  BY <1>6, Zenon DEF F, T

(* An outcome with the position one further. *)
LEMMA OutcomeStepped ==
  ASSUME NEW w, NEW gl, NEW pd, NEW pa
  PROVE  [Outcome(w, gl, pd, pa) EXCEPT !.file.ptr = @ + 1] = Outcome(w, Further(gl), pd, pa)
<1> DEFINE R == Outcome(w, gl, pd, pa)
<1>1. R.file = gl
  BY OutcomeSet
<1>2. [R EXCEPT !.file.ptr = @ + 1] = [R EXCEPT !.file = [gl EXCEPT !.ptr = @ + 1]]
  <2> HIDE DEF R
  <2> QED
    BY <1>1, Zenon
<1>3. [R EXCEPT !.file = Further(gl)] = Outcome(w, Further(gl), pd, pa)
  <2>1. \A h : [Outcome(w, gl, pd, pa) EXCEPT !.file = h] = Outcome(w, h, pd, pa)
    BY OutcomeSet
  <2> QED
    BY <2>1, Zenon
<1> QED
  BY <1>2, <1>3, Zenon DEF Further
(* The same for each of the three outcomes. *)
LEMMA Stepped ==
  ASSUME NEW w, NEW gl
  PROVE  /\ [Result(w, gl) EXCEPT !.file.ptr = @ + 1] = Result(w, Further(gl))
         /\ [Lost(w, gl) EXCEPT !.file.ptr = @ + 1] = Lost(w, Further(gl))
         /\ [Panic(w, gl) EXCEPT !.file.ptr = @ + 1] = Panic(w, Further(gl))
<1> DEFINE F == FALSE
           T == TRUE
<1>1. \A h : /\ Result(w, h) = Outcome(w, h, F, F) /\ Lost(w, h) = Outcome(w, h, T, F)
             /\ Panic(w, h) = Outcome(w, h, F, T)
  BY Outcomes, Zenon
<1> HIDE DEF F, T
<1>2. \A pd, pa : [Outcome(w, gl, pd, pa) EXCEPT !.file.ptr = @ + 1] = Outcome(w, Further(gl), pd, pa)
  BY OutcomeStepped
<1>3. [Result(w, gl) EXCEPT !.file.ptr = @ + 1] = Result(w, Further(gl))
  <2>1. Result(w, gl) = Outcome(w, gl, F, F) /\ Result(w, Further(gl)) = Outcome(w, Further(gl), F, F)
    BY <1>1
  <2> QED
    BY <1>2, <2>1
<1>4. [Lost(w, gl) EXCEPT !.file.ptr = @ + 1] = Lost(w, Further(gl))
  <2>1. Lost(w, gl) = Outcome(w, gl, T, F) /\ Lost(w, Further(gl)) = Outcome(w, Further(gl), T, F)
    BY <1>1
  <2> QED
    BY <1>2, <2>1
<1>5. [Panic(w, gl) EXCEPT !.file.ptr = @ + 1] = Panic(w, Further(gl))
  <2>1. Panic(w, gl) = Outcome(w, gl, F, T) /\ Panic(w, Further(gl)) = Outcome(w, Further(gl), F, T)
    BY <1>1
  <2> QED
    BY <1>2, <2>1
<1> QED
  BY <1>3, <1>4, <1>5

(* The volume and the file of each outcome. *)
LEMMA ResultFields ==
  ASSUME NEW w, NEW gl
  PROVE  /\ Result(w, gl).vol = w /\ Result(w, gl).file = gl
         /\ Lost(w, gl).vol = w /\ Lost(w, gl).file = gl
         /\ Panic(w, gl).vol = w /\ Panic(w, gl).file = gl
BY DEF Result, Lost, Panic

(* The flags of each outcome. *)
LEMMA ResultFlags ==
  ASSUME NEW w, NEW gl
  PROVE  /\ Result(w, gl).perdu = FALSE /\ Result(w, gl).panique = FALSE
         /\ Lost(w, gl).perdu = TRUE /\ Lost(w, gl).panique = FALSE
         /\ Panic(w, gl).perdu = FALSE /\ Panic(w, gl).panique = TRUE
BY DEF Result, Lost, Panic

(* When a call may return as it does. *)
LEMMA ReturnsGood ==
  ASSUME NEW w, Owned(w), Leading(w), NEW gl, NEW pe \in BOOLEAN
  PROVE  /\ Consistent(w, gl, pe) => Good(Result(w, gl), pe)
         /\ Consistent(w, gl, TRUE) => Good(Lost(w, gl), pe)
         /\ pe => Good(Panic(w, gl), pe)
<1>1. ASSUME NEW r, r.vol = w, r.file = gl, r.perdu = FALSE, r.panique = FALSE,
             Consistent(w, gl, pe)
      PROVE  Good(r, pe)
  <2>1. (pe \/ r.perdu) = pe
    BY <1>1
  <2>2. Consistent(r.vol, r.file, pe \/ r.perdu)
    BY <1>1, <2>1, Zenon
  <2> QED
    BY <1>1, <2>2, Zenon DEF Good
<1>2. ASSUME NEW r, r.vol = w, r.file = gl, r.perdu = TRUE, r.panique = FALSE,
             Consistent(w, gl, TRUE)
      PROVE  Good(r, pe)
  <2>1. (pe \/ r.perdu) = TRUE
    BY <1>2
  <2>2. Consistent(r.vol, r.file, pe \/ r.perdu)
    BY <1>2, <2>1, Zenon
  <2> QED
    BY <1>2, <2>2, Zenon DEF Good
<1>3. ASSUME NEW r, r.vol = w, r.perdu = FALSE, r.panique = TRUE, pe
      PROVE  Good(r, pe)
  BY <1>3, Zenon DEF Good
<1>4. Consistent(w, gl, pe) => Good(Result(w, gl), pe)
  <2> DEFINE r == Result(w, gl)
  <2>1. r.vol = w /\ r.file = gl
    BY ResultFields
  <2>2. r.perdu = FALSE /\ r.panique = FALSE
    BY ResultFlags, Zenon
  <2> HIDE DEF r
  <2>3. Consistent(w, gl, pe) => Good(r, pe)
    BY <1>1, <2>1, <2>2
  <2> QED
    BY <2>3 DEF r
<1>5. Consistent(w, gl, TRUE) => Good(Lost(w, gl), pe)
  <2> DEFINE r == Lost(w, gl)
  <2>1. r.vol = w /\ r.file = gl
    BY ResultFields
  <2>2. r.perdu = TRUE /\ r.panique = FALSE
    BY ResultFlags, Zenon
  <2> HIDE DEF r
  <2>3. Consistent(w, gl, TRUE) => Good(r, pe)
    BY <1>2, <2>1, <2>2
  <2> QED
    BY <2>3 DEF r
<1>6. pe => Good(Panic(w, gl), pe)
  <2> DEFINE r == Panic(w, gl)
  <2>1. r.vol = w
    BY ResultFields
  <2>2. r.perdu = FALSE /\ r.panique = TRUE
    BY ResultFlags, Zenon
  <2> HIDE DEF r
  <2>3. pe => Good(r, pe)
    BY <1>3, <2>1, <2>2
  <2> QED
    BY <2>3, Zenon DEF r
<1> QED
  BY <1>4, <1>5, <1>6

(* The same for a call that writes. *)
LEMMA ReturnsWrote ==
  ASSUME NEW w, Owned(w), Leading(w), NEW gl, NEW pe \in BOOLEAN, gl # NULL, ~Reads(gl)
  PROVE  /\ Consistent(w, gl, pe) => Wrote(Result(w, gl), pe, gl.length)
         /\ Consistent(w, gl, TRUE) => Wrote(Lost(w, gl), pe, gl.length)
<1>1. Result(w, gl).file = gl /\ Lost(w, gl).file = gl
  BY ResultFields
<1> QED
  BY <1>1, ReturnsGood, Zenon DEF Wrote

(* The program may end by panic() once a failure was dropped. *)
LEMMA ReturnsPanic ==
  ASSUME NEW w, Owned(w), Leading(w), NEW gl, NEW pe \in BOOLEAN, pe, NEW L
  PROVE  Wrote(Panic(w, gl), pe, L)
<1>1. Panic(w, gl).panique = TRUE
  BY ResultFlags, Zenon
<1>2. Good(Panic(w, gl), pe)
  BY ReturnsGood
<1> QED
  BY <1>1, <1>2, Zenon DEF Wrote

(* A file complete on the disk meets what is asked of one in progress. *)
LEMMA CompleteInProgress ==
  ASSUME NEW v, NEW fl \in OFiles, Complete(v, fl.inode), v.disk[fl.inode].length = fl.length
  PROVE  InProgress(v, fl)
<1>0. fl.length \in Nat
  BY OFileFields
<1>1. /\ fl.length \in Nat /\ (fl.length \div BLOCK_SIZE) * BLOCK_SIZE \in Nat
      /\ fl.length = (fl.length \div BLOCK_SIZE) * BLOCK_SIZE + (fl.length % BLOCK_SIZE)
      /\ fl.length % BLOCK_SIZE \in Nat
  <2> DEFINE L == fl.length
  <2>1. L \in Nat
    BY <1>0
  <2> HIDE DEF L
  <2>2. /\ (L \div BLOCK_SIZE) * BLOCK_SIZE \in Nat /\ L % BLOCK_SIZE \in 0 .. BLOCK_SIZE - 1
        /\ L = (L \div BLOCK_SIZE) * BLOCK_SIZE + (L % BLOCK_SIZE)
    BY <2>1, BlocksAre
  <2> QED
    BY <2>1, <2>2, SgfAssumption DEF L
<1> DEFINE p == (fl.length \div BLOCK_SIZE) * BLOCK_SIZE
           j == fl.length % BLOCK_SIZE
<1>2. p \in Nat /\ j \in Nat /\ fl.length = p + j
  BY <1>1
<1> HIDE DEF p, j
<1>3. p <= fl.length /\ fl.length <= fl.length
  BY <1>2
<1> QED
  BY <1>3 DEF Complete, InProgress, p

(* A step of sgf_putc() has been done but for the position. *)
LEMMA FurtherGood ==
  ASSUME NEW w, Owned(w), Leading(w), NEW gl, Writes(w, gl), gl.ptr + 1 = gl.length,
         NEW pe \in BOOLEAN, ~pe => Others(w, gl.inode) /\ InProgress(w, gl)
  PROVE  /\ Consistent(w, Further(gl), pe)
         /\ Further(gl) # NULL /\ ~Reads(Further(gl)) /\ Further(gl).length = gl.length
<1> DEFINE hl == Further(gl)
<1>1. /\ hl \in OFiles /\ hl.ptr = gl.ptr + 1 /\ hl.length = gl.length /\ hl.inode = gl.inode
      /\ hl.current = gl.current /\ hl.last = gl.last /\ hl.mode = gl.mode
  BY OFileFields DEF Writes, OFiles, Further
<1> HIDE DEF hl
<1>2. hl # NULL /\ ~Reads(hl)
  BY <1>1, NullAssumption DEF Writes, Reads
<1>3. Writes(w, hl) /\ hl.ptr = hl.length
  BY <1>1, <1>2 DEF Writes
<1>4. ~pe => Others(w, hl.inode) /\ InProgress(w, hl)
  BY <1>1 DEF InProgress
<1>5. Consistent(w, hl, pe)
  BY <1>2, <1>3, <1>4, OpenWrites
<1>6. hl.length = gl.length
  BY <1>1
<1> QED
  BY <1>2, <1>5, <1>6, Zenon DEF hl

(* sgf_putc(). *)
LEMMA PutcStep ==
  ASSUME NEW v, Owned(v), Leading(v), NEW pe \in BOOLEAN, NEW fl, fl # NULL,
         Consistent(v, fl, pe), ~Reads(fl), NEW c \in CHARS, fl.length + 1 <= MAX_LENGTH,
         NEW r, r = sgf_putc(v, fl, c)
  PROVE  Wrote(r, pe, fl.length + 1)
<1> DEFINE L == fl.length
           k == fl.ptr % BLOCK_SIZE
           i == fl.inode
           put == [fl EXCEPT !.buffer[k] = c, !.length = @ + 1]
           M == L + 1
           x == IF k = BLOCK_SIZE - 1 THEN Flush(v, put)
                ELSE IF k = 0 THEN sgf_append_block(v, put)
                ELSE Result(v, put)
<1>1. Writes(v, fl) /\ fl.ptr = L /\ (~pe => Others(v, i) /\ InProgress(v, fl)) /\ fl \in OFiles
  BY OpenWrites DEF Writes
<1>2. L \in Nat /\ L \in 0 .. MAX_LENGTH /\ k \in 0 .. BLOCK_SIZE - 1 /\ BLOCK_SIZE \in Nat
      /\ BLOCK_SIZE >= 2 /\ k = L % BLOCK_SIZE
  <2>1. L \in Nat /\ L \in 0 .. MAX_LENGTH
    <3>1. fl \in OFiles
      BY <1>1
    <3> QED
      BY <3>1, OFileFields, SgfAssumption
  <2>2. BLOCK_SIZE \in Nat /\ BLOCK_SIZE >= 2
    BY SgfAssumption
  <2>3. k = L % BLOCK_SIZE
    BY <1>1
  <2> HIDE DEF L, k
  <2>4. L % BLOCK_SIZE \in 0 .. BLOCK_SIZE - 1
    BY <2>1, <2>2
  <2> QED
    BY <2>1, <2>2, <2>3, <2>4
<1>3. /\ M \in Nat /\ 1 \in 1 .. BLOCK_SIZE - k
      /\ Blocks(M) = Blocks(L) + (IF k = 0 THEN 1 ELSE 0)
      /\ IF k + 1 = BLOCK_SIZE THEN M % BLOCK_SIZE = 0
         ELSE M % BLOCK_SIZE = k + 1 /\ M \div BLOCK_SIZE = L \div BLOCK_SIZE
      /\ Blocks(L) \in Nat
  <2>1. 1 \in 1 .. BLOCK_SIZE - (L % BLOCK_SIZE)
    BY <1>2
  <2> HIDE DEF L
  <2>2. /\ L + 1 \in Nat
        /\ Blocks(L + 1) = Blocks(L) + (IF L % BLOCK_SIZE = 0 THEN 1 ELSE 0)
        /\ IF (L % BLOCK_SIZE) + 1 = BLOCK_SIZE THEN (L + 1) % BLOCK_SIZE = 0
           ELSE /\ (L + 1) % BLOCK_SIZE = (L % BLOCK_SIZE) + 1
                /\ (L + 1) \div BLOCK_SIZE = L \div BLOCK_SIZE
    BY <1>2, <2>1, BlocksGrow
  <2> HIDE DEF k
  <2> QED
    BY <1>2, <2>1, <2>2, BlocksAre
<1>4. /\ put \in OFiles /\ put.length = M /\ put.ptr = L /\ put.inode = i /\ put.mode = fl.mode
      /\ put.current = fl.current /\ put.last = fl.last
  <2>1. k \in Indices /\ M \in 0 .. MAX_LENGTH
    BY <1>2, <1>3, OFileFields DEF Indices
  <2> HIDE DEF k
  <2> QED
    BY <1>1, <2>1 DEF OFiles
<1>5. r = [x EXCEPT !.file.ptr = @ + 1]
  BY DEF sgf_putc
<1> HIDE DEF put, L, k, M, i
<1>6. Writes(v, put) /\ put.ptr + 1 = put.length /\ put.ptr = L
  BY <1>1, <1>2, <1>4 DEF Writes, Reads, M, i
<1>7. ~pe => /\ Cardinality(DataOf(v, i)) = Blocks(L)
             /\ (L \div BLOCK_SIZE) * BLOCK_SIZE <= v.disk[i].length /\ v.disk[i].length <= L
             /\ \A m \in DataOf(v, i) : (m = fl.current /\ k # 0) \/ v.disk[m] \in Buffers
  BY <1>1, <1>2 DEF InProgress, L, i
<1>8. CASE k = BLOCK_SIZE - 1
  <2>1. x = Flush(v, put)
    BY <1>8
  <2> HIDE DEF x
  <2>2. ~pe => Others(v, put.inode) /\ Pending(v, put)
    <3> SUFFICES ASSUME ~pe PROVE Others(v, put.inode) /\ Pending(v, put)
      OBVIOUS
    <3>1. Blocks(M) = Blocks(L) /\ M # 0
      BY <1>2, <1>3, <1>8 DEF M
    <3> QED
      BY <1>1, <1>4, <1>7, <3>1 DEF Pending
  <2>3. FlushedAs(v, put, pe, x)
    BY <1>6, <2>1, <2>2, FlushStep
  <2>4. CASE x.panique
    <3>1. x = Panic(v, put) /\ pe
      BY <2>3, <2>4 DEF FlushedAs
    <3>2. r = Panic(v, Further(put))
      BY <1>5, <3>1, Stepped
    <3> QED
      BY <3>1, <3>2, ReturnsPanic
  <2>5. CASE ~x.panique
    <3> DEFINE w == x.vol
    <3>1. /\ Owned(w) /\ Leading(w) /\ x = Result(w, put) /\ Writes(w, put)
          /\ w.disk[put.inode].length = put.length
          /\ ~pe => Others(w, put.inode) /\ Complete(w, put.inode)
      BY <2>3, <2>5 DEF FlushedAs
    <3> HIDE DEF w
    <3>2. ~pe => Others(w, put.inode) /\ InProgress(w, put)
      BY <1>4, <3>1, CompleteInProgress
    <3>3. r = Result(w, Further(put))
      BY <1>5, <3>1, Stepped
    <3>4. /\ Consistent(w, Further(put), pe)
          /\ Further(put) # NULL /\ ~Reads(Further(put)) /\ Further(put).length = M
      BY <1>4, <1>6, <3>1, <3>2, FurtherGood
    <3> QED
      BY <3>1, <3>3, <3>4, ReturnsWrote DEF M, L
  <2> QED
    BY <2>4, <2>5
<1>9. CASE k = 0 /\ k # BLOCK_SIZE - 1
  <2>1. x = sgf_append_block(v, put)
    BY <1>9
  <2> HIDE DEF x
  <2>2. CASE Free(v.fat) = {}
    <3>1. x = Lost(v, put)
      BY <2>1, <2>2 DEF sgf_append_block
    <3>2. r = Lost(v, Further(put))
      BY <1>5, <3>1, Stepped
    <3>3. /\ Consistent(v, Further(put), TRUE)
          /\ Further(put) # NULL /\ ~Reads(Further(put)) /\ Further(put).length = M
      BY <1>4, <1>6, FurtherGood
    <3> QED
      BY <3>2, <3>3, ReturnsWrote DEF M, L
  <2>3. CASE Free(v.fat) # {}
    <3> DEFINE w == x.vol
               gl == x.file
    <3>1. ~pe => Others(v, put.inode) /\ \A m \in DataOf(v, put.inode) : v.disk[m] \in Buffers
      BY <1>1, <1>4, <1>7, <1>9
    <3>2. AppendedAs(v, put, pe, x)
      BY <1>6, <2>1, <2>3, <3>1, AppendStep
    <3>3. PICK a \in Blocs : x = Result(w, Linked(put, a))
      BY <3>2 DEF AppendedAs
    <3>4. gl = Linked(put, a) /\ x = Result(w, gl)
      <4>1. Result(w, Linked(put, a)).file = Linked(put, a)
        BY ResultFields
      <4> QED
        BY <3>3, <4>1
    <3>5. gl.length = M /\ gl.ptr = L /\ gl.inode = i
      BY <1>4, <3>4 DEF Linked, OFiles
    <3>6. /\ Owned(w) /\ Leading(w) /\ Writes(w, gl) /\ w.disk[i].length = M
          /\ ~pe => /\ Others(w, i) /\ Cardinality(DataOf(w, i)) = Cardinality(DataOf(v, i)) + 1
                    /\ \A m \in DataOf(w, i) : m = gl.current \/ w.disk[m] \in Buffers
      BY <1>4, <3>2 DEF AppendedAs
    <3> HIDE DEF w, gl
    <3>7. ~pe => InProgress(w, gl)
      <4> SUFFICES ASSUME ~pe PROVE InProgress(w, gl)
        OBVIOUS
      <4>1. Cardinality(DataOf(w, i)) = Blocks(M) /\ M % BLOCK_SIZE # 0
        BY <1>2, <1>3, <1>7, <1>9, <3>6
      <4>2. (M \div BLOCK_SIZE) * BLOCK_SIZE <= M /\ M <= M
        <5>1. /\ (M \div BLOCK_SIZE) * BLOCK_SIZE \in Nat /\ M % BLOCK_SIZE \in 0 .. BLOCK_SIZE - 1
              /\ M = (M \div BLOCK_SIZE) * BLOCK_SIZE + (M % BLOCK_SIZE)
          BY <1>3, BlocksAre
        <5> DEFINE p == (M \div BLOCK_SIZE) * BLOCK_SIZE
                   j == M % BLOCK_SIZE
        <5>2. p \in Nat /\ j \in 0 .. BLOCK_SIZE - 1 /\ M = p + j
          BY <5>1
        <5> HIDE DEF p, j
        <5>3. p <= M /\ M <= M
          BY <1>2, <5>2
        <5> QED
          BY <5>3 DEF p
      <4> QED
        BY <3>5, <3>6, <4>1, <4>2 DEF InProgress
    <3>8. gl.ptr + 1 = gl.length
      BY <3>5 DEF M
    <3>9. /\ Consistent(w, Further(gl), pe)
          /\ Further(gl) # NULL /\ ~Reads(Further(gl)) /\ Further(gl).length = M
      BY <3>5, <3>6, <3>7, <3>8, FurtherGood
    <3>10. r = Result(w, Further(gl))
      BY <1>5, <3>4, Stepped
    <3> QED
      BY <3>6, <3>9, <3>10, ReturnsWrote DEF M, L
  <2> QED
    BY <2>2, <2>3
<1>10. CASE k # 0 /\ k # BLOCK_SIZE - 1
  <2>1. x = Result(v, put)
    BY <1>10
  <2> HIDE DEF x
  <2>2. ~pe => InProgress(v, put)
    <3> SUFFICES ASSUME ~pe PROVE InProgress(v, put)
      OBVIOUS
    <3>1. /\ Blocks(M) = Blocks(L) /\ M \div BLOCK_SIZE = L \div BLOCK_SIZE
          /\ M % BLOCK_SIZE # 0
      BY <1>2, <1>3, <1>10
    <3>2. v.disk[i].length <= M
      <4>1. PICK s, n : FileIs(v, i, s, n)
        BY <1>1 DEF Owned, Chained, Writes, i
      <4>2. v.disk[i].length \in Int
        BY <4>1 DEF FileIs, InodeRecords
      <4> QED
        BY <1>2, <1>7, <4>2 DEF M
    <3> QED
      BY <1>4, <1>7, <3>1, <3>2 DEF InProgress
  <2>3. /\ Consistent(v, Further(put), pe)
        /\ Further(put) # NULL /\ ~Reads(Further(put)) /\ Further(put).length = M
    BY <1>1, <1>4, <1>6, <2>2, FurtherGood
  <2>4. r = Result(v, Further(put))
    BY <1>5, <2>1, Stepped
  <2> QED
    BY <2>3, <2>4, ReturnsWrote DEF M, L
<1> QED
  BY <1>8, <1>9, <1>10

(* The fields of an outcome, by name. *)
LEMMA OutcomeFields ==
  ASSUME NEW w, NEW gl, NEW pd, NEW pa, NEW r, r = Outcome(w, gl, pd, pa)
  PROVE  r.vol = w /\ r.file = gl /\ r.perdu = pd /\ r.panique = pa
BY OutcomeSet

(* Flush() in sgf_write(), which keeps the failure of sgf_append_block(). *)
Lossy(x, b) == [x EXCEPT !.perdu = b]

(* sgf_write after its memcpy: a full block is written, another is not. *)
LEMMA ChunkFlush ==
  ASSUME NEW u, Owned(u), Leading(u), NEW gl, Writes(u, gl), gl.ptr = gl.length,
         NEW pe \in BOOLEAN, NEW b \in BOOLEAN,
         ~(pe \/ b) => Others(u, gl.inode) /\ Pending(u, gl),
         NEW x, x = Flush(u, gl), NEW r, r = Lossy(x, b)
  PROVE  Wrote(r, pe, gl.length)
<1> DEFINE no == FALSE
           yes == TRUE
           q == pe \/ b
<1>0. no \in BOOLEAN /\ yes \in BOOLEAN /\ q \in BOOLEAN /\ yes /\ ~no
  OBVIOUS
<1>1. \A w, h : Result(w, h) = Outcome(w, h, no, no) /\ Panic(w, h) = Outcome(w, h, no, yes)
  BY Outcomes, Zenon
<1>2. ~q => Others(u, gl.inode) /\ Pending(u, gl)
  OBVIOUS
<1>3. q => pe \/ b
  OBVIOUS
<1> HIDE DEF no, yes, q
<1>4. FlushedAs(u, gl, q, x)
  BY <1>0, <1>2, FlushStep
<1>5. \A w, h, pd, pa : Lossy(Outcome(w, h, pd, pa), b) = Outcome(w, h, b, pa)
  BY OutcomeSet DEF Lossy
<1>6. gl # NULL /\ ~Reads(gl)
  BY NullAssumption DEF Writes
<1>7. CASE x.panique
  <2>1. x = Panic(u, gl) /\ q
    BY <1>4, <1>7 DEF FlushedAs
  <2>2. x = Outcome(u, gl, no, yes)
    BY <1>1, <2>1
  <2>3. r = Outcome(u, gl, b, yes)
    BY <1>5, <2>2
  <2>4. r.vol = u /\ r.perdu = b /\ r.panique = yes
    BY <2>3, OutcomeFields
  <2>5. Good(r, pe)
    BY <1>0, <1>3, <2>1, <2>4, Zenon DEF Good
  <2> QED
    BY <1>0, <2>4, <2>5, Zenon DEF Wrote
<1>8. CASE ~x.panique
  <2> DEFINE w == x.vol
  <2>1. /\ Owned(w) /\ Leading(w) /\ x = Result(w, gl) /\ Writes(w, gl)
        /\ w.disk[gl.inode].length = gl.length
        /\ ~q => Others(w, gl.inode) /\ Complete(w, gl.inode)
    BY <1>4, <1>8 DEF FlushedAs
  <2> HIDE DEF w
  <2>2. x = Outcome(w, gl, no, no)
    BY <1>1, <2>1
  <2>3. r = Outcome(w, gl, b, no)
    BY <1>5, <2>2
  <2>4. gl \in OFiles
    BY DEF Writes
  <2>5. ~q => InProgress(w, gl)
    BY <2>1, <2>4, CompleteInProgress
  <2>6. Consistent(w, gl, q)
    BY <1>6, <2>1, <2>5, OpenWrites
  <2>7. Consistent(w, gl, pe \/ b)
    BY <2>6 DEF q
  <2>8. r.vol = w /\ r.file = gl /\ r.perdu = b /\ r.panique = no
    BY <2>3, OutcomeFields
  <2>9. Good(r, pe)
    BY <1>0, <2>1, <2>7, <2>8, Zenon DEF Good
  <2> QED
    BY <1>6, <2>8, <2>9, Zenon DEF Wrote
<1> QED
  BY <1>7, <1>8

(* What sgf_write() makes of the OFILE before Flush(). *)
Filled(hl, n, k, s) ==
  [hl EXCEPT !.length = n, !.ptr = n,
             !.buffer = [j \in Indices |-> IF j \in k .. k + Len(s) - 1
                                           THEN s[j - k + 1] ELSE @[j]]]

(* The OFILE after characters were copied to its buffer. *)
LEMMA FilledFields ==
  ASSUME NEW hl \in OFiles, NEW n \in 0 .. MAX_LENGTH, NEW k \in Nat, NEW s \in Seq(CHARS)
  PROVE  /\ Filled(hl, n, k, s) \in OFiles
         /\ Filled(hl, n, k, s).length = n /\ Filled(hl, n, k, s).ptr = n
         /\ Filled(hl, n, k, s).inode = hl.inode /\ Filled(hl, n, k, s).current = hl.current
         /\ Filled(hl, n, k, s).last = hl.last /\ Filled(hl, n, k, s).mode = hl.mode
<1> DEFINE b == [j \in Indices |-> IF j \in k .. k + Len(s) - 1
                                   THEN s[j - k + 1] ELSE hl.buffer[j]]
           gl == [hl EXCEPT !.length = n, !.ptr = n, !.buffer = b]
<1>1. Filled(hl, n, k, s) = gl
  BY DEF Filled
<1>2. b \in [Indices -> CHARS \cup {Junk}]
  <2>1. hl.buffer \in [Indices -> CHARS \cup {Junk}]
    BY DEF OFiles
  <2>2. \A j \in k .. k + Len(s) - 1 : s[j - k + 1] \in CHARS
    <3> TAKE j \in k .. k + Len(s) - 1
    <3>1. Len(s) \in Nat
      OBVIOUS
    <3>2. j - k + 1 \in 1 .. Len(s)
      BY <3>1
    <3> QED
      BY <3>2
  <2>3. \A j \in Indices : hl.buffer[j] \in CHARS \cup {Junk}
    BY <2>1
  <2> QED
    BY <2>2, <2>3
<1> HIDE DEF b
<1>3. /\ gl \in OFiles /\ gl.length = n /\ gl.ptr = n /\ gl.inode = hl.inode
      /\ gl.current = hl.current /\ gl.last = hl.last /\ gl.mode = hl.mode
  BY <1>2 DEF OFiles
<1> QED
  BY <1>1, <1>3

(* sgf_write(), a block's part of the text. *)
LEMMA ChunkStep ==
  ASSUME NEW v, Owned(v), Leading(v), NEW pe \in BOOLEAN, NEW fl, fl # NULL,
         Consistent(v, fl, pe), ~Reads(fl), NEW s \in Seq(CHARS),
         Len(s) \in 1 .. BLOCK_SIZE - (fl.ptr % BLOCK_SIZE),
         fl.length + Len(s) <= MAX_LENGTH,
         NEW r, r = WriteChunk(v, fl, s)
  PROVE  Wrote(r, pe, fl.length + Len(s))
<1> DEFINE L == fl.length
           k == fl.ptr % BLOCK_SIZE
           i == fl.inode
           n == L + Len(s)
           r0 == IF k = 0 THEN sgf_append_block(v, fl) ELSE Result(v, fl)
           x == Flush(r0.vol, Filled(r0.file, n, k, s))
<1>1. Writes(v, fl) /\ fl.ptr = L /\ (~pe => Others(v, i) /\ InProgress(v, fl)) /\ fl \in OFiles
  BY OpenWrites DEF Writes
<1>2. L \in Nat /\ k \in 0 .. BLOCK_SIZE - 1 /\ BLOCK_SIZE \in Nat /\ BLOCK_SIZE >= 2
      /\ k = L % BLOCK_SIZE /\ k \in Nat /\ Len(s) \in 1 .. BLOCK_SIZE - k
  <2>0. fl.length \in Nat /\ fl.ptr = fl.length /\ BLOCK_SIZE \in Nat /\ BLOCK_SIZE >= 2
    BY <1>1, OFileFields, SgfAssumption
  <2>01. \A m \in Nat : m % BLOCK_SIZE \in 0 .. BLOCK_SIZE - 1
    BY BlocksAre
  <2>1. L \in Nat /\ k \in 0 .. BLOCK_SIZE - 1 /\ BLOCK_SIZE \in Nat
        /\ BLOCK_SIZE >= 2 /\ k = L % BLOCK_SIZE
    BY <2>0, <2>01
  <2>2. Len(s) \in 1 .. BLOCK_SIZE - k
    OBVIOUS
  <2> HIDE DEF k
  <2> QED
    BY <2>1, <2>2
<1>3. n \in Nat /\ Blocks(n) = Blocks(L) + (IF k = 0 THEN 1 ELSE 0) /\ n # 0 /\ n \in 0 .. MAX_LENGTH
      /\ Blocks(L) \in Nat
  <2> DEFINE m == Len(s)
  <2>1. m \in 1 .. BLOCK_SIZE - (L % BLOCK_SIZE) /\ m \in Nat /\ m # 0
    BY <1>2
  <2> HIDE DEF L, m
  <2>2. /\ L + m \in Nat
        /\ Blocks(L + m) = Blocks(L) + (IF L % BLOCK_SIZE = 0 THEN 1 ELSE 0)
        /\ Blocks(L) \in Nat
    BY <1>2, <2>1, BlocksGrow, BlocksAre
  <2>3. L + m # 0 /\ L + m <= MAX_LENGTH /\ MAX_LENGTH \in Nat
    BY <1>2, <2>1, SgfAssumption DEF L, m
  <2>4. L + m \in 0 .. MAX_LENGTH
    BY <2>2, <2>3
  <2> HIDE DEF k
  <2> QED
    BY <1>2, <2>2, <2>3, <2>4 DEF m
<1>4. r = Lossy(x, r0.perdu)
  BY Zenon DEF WriteChunk, Filled, Lossy
<1> HIDE DEF L, k, n, i
<1>5. ~pe => /\ Cardinality(DataOf(v, i)) = Blocks(L)
             /\ \A m \in DataOf(v, i) : (m = fl.current /\ k # 0) \/ v.disk[m] \in Buffers
  BY <1>1, <1>2 DEF InProgress, L, i
<1>6. ASSUME NEW u, Owned(u), Leading(u), NEW hl, Writes(u, hl), r0.vol = u, r0.file = hl,
             NEW b \in BOOLEAN, r0.perdu = b, hl.inode = i,
             ~(pe \/ b) => /\ Others(u, i) /\ Cardinality(DataOf(u, i)) = Blocks(n)
                           /\ \A m \in DataOf(u, i) : m = hl.current \/ u.disk[m] \in Buffers
      PROVE  Wrote(r, pe, n)
  <2> DEFINE gl == Filled(hl, n, k, s)
  <2>1. hl \in OFiles
    BY <1>6 DEF Writes
  <2>2. /\ gl \in OFiles /\ gl.length = n /\ gl.ptr = n /\ gl.inode = hl.inode
        /\ gl.current = hl.current /\ gl.last = hl.last /\ gl.mode = hl.mode
    BY <1>2, <1>3, <2>1, FilledFields
  <2>3. x = Flush(u, gl)
    BY <1>6
  <2> HIDE DEF gl, x, r0
  <2>4. Writes(u, gl)
    BY <1>6, <2>2 DEF Writes, Reads
  <2>5. ~(pe \/ b) => Others(u, gl.inode) /\ Pending(u, gl)
    BY <1>3, <1>6, <2>2 DEF Pending
  <2>6. r = Lossy(x, b)
    BY <1>4, <1>6
  <2>7. Wrote(r, pe, gl.length)
    BY <1>6, <2>2, <2>3, <2>4, <2>5, <2>6, ChunkFlush
  <2> QED
    BY <2>2, <2>7
<1>7. CASE k = 0 /\ Free(v.fat) = {}
  <2>1. r0 = Lost(v, fl)
    BY <1>7 DEF sgf_append_block
  <2>2. r0.vol = v /\ r0.file = fl
    BY <2>1, ResultFields
  <2>3. r0.perdu = TRUE
    BY <2>1, ResultFlags
  <2> HIDE DEF r0
  <2>4. fl.inode = i
    BY DEF i
  <2>5. Wrote(r, pe, n)
    BY <1>1, <1>6, <2>2, <2>3, <2>4
  <2> QED
    BY <2>5 DEF n, L
<1>8. CASE k = 0 /\ Free(v.fat) # {}
  <2> DEFINE w == r0.vol
             hl == r0.file
  <2>1. r0 = sgf_append_block(v, fl)
    BY <1>8
  <2> HIDE DEF r0
  <2>2. ~pe => Others(v, fl.inode) /\ \A m \in DataOf(v, fl.inode) : v.disk[m] \in Buffers
    BY <1>1, <1>5, <1>8 DEF i
  <2>3. AppendedAs(v, fl, pe, r0)
    BY <1>1, <1>8, <2>1, <2>2, AppendStep
  <2>4. PICK a \in Blocs : r0 = Result(w, Linked(fl, a))
    BY <2>3 DEF AppendedAs
  <2>5. hl = Linked(fl, a)
    <3>1. Result(w, Linked(fl, a)).file = Linked(fl, a)
      BY ResultFields
    <3> QED
      BY <2>4, <3>1
  <2>6. r0.perdu = FALSE
    BY <2>4, ResultFlags
  <2>7. hl.inode = i
    BY <1>1, <2>5 DEF Linked, OFiles, i
  <2>8. /\ Owned(w) /\ Leading(w) /\ Writes(w, hl)
        /\ ~pe => /\ Others(w, i) /\ Cardinality(DataOf(w, i)) = Cardinality(DataOf(v, i)) + 1
                  /\ \A m \in DataOf(w, i) : m = hl.current \/ w.disk[m] \in Buffers
    BY <2>3 DEF AppendedAs, i
  <2>9. ~pe => Cardinality(DataOf(w, i)) = Blocks(n)
    BY <1>3, <1>5, <1>8, <2>8
  <2>10. r0.vol = w /\ r0.file = hl
    OBVIOUS
  <2> HIDE DEF w, hl
  <2>11. Wrote(r, pe, n)
    BY <1>6, <2>6, <2>7, <2>8, <2>9, <2>10
  <2> QED
    BY <2>11 DEF n, L
<1>9. CASE k # 0
  <2>1. r0 = Result(v, fl)
    BY <1>9
  <2>2. r0.vol = v /\ r0.file = fl
    BY <2>1, ResultFields
  <2>3. r0.perdu = FALSE
    BY <2>1, ResultFlags
  <2> HIDE DEF r0
  <2>4. ~pe => Cardinality(DataOf(v, i)) = Blocks(n)
    BY <1>3, <1>5, <1>9
  <2>5. fl.inode = i
    BY DEF i
  <2>6. Wrote(r, pe, n)
    BY <1>1, <1>5, <1>6, <2>2, <2>3, <2>4, <2>5
  <2> QED
    BY <2>6 DEF n, L
<1> QED
  BY <1>7, <1>8, <1>9
-----------------------------------------------------------------------------
(* sgf_close(): CloseFile() without and with a block to write.             *)
Closing(x) == [x EXCEPT !.file = NULL]

(* An outcome whose file is closed. *)
LEMMA Closes ==
  ASSUME NEW w, NEW gl
  PROVE  Closing(Result(w, gl)) = Result(w, NULL) /\ Closing(Panic(w, gl)) = Panic(w, NULL)
<1> DEFINE no == FALSE
           yes == TRUE
<1>1. \A h : Result(w, h) = Outcome(w, h, no, no) /\ Panic(w, h) = Outcome(w, h, no, yes)
  BY Outcomes, Zenon
<1> HIDE DEF no, yes
<1>2. \A pd, pa : Closing(Outcome(w, gl, pd, pa)) = Outcome(w, NULL, pd, pa)
  BY OutcomeSet DEF Closing
<1>3. Closing(Result(w, gl)) = Result(w, NULL)
  <2>1. Result(w, gl) = Outcome(w, gl, no, no) /\ Result(w, NULL) = Outcome(w, NULL, no, no)
    BY <1>1
  <2> QED
    BY <1>2, <2>1
<1>4. Closing(Panic(w, gl)) = Panic(w, NULL)
  <2>1. Panic(w, gl) = Outcome(w, gl, no, yes) /\ Panic(w, NULL) = Outcome(w, NULL, no, yes)
    BY <1>1
  <2> QED
    BY <1>2, <2>1
<1> QED
  BY <1>3, <1>4

(* A closed file leaves nothing to be known but the volume. *)
LEMMA ClosedGood ==
  ASSUME NEW w, Owned(w), Leading(w), NEW pe \in BOOLEAN,
         ~pe => AllNamed(w) /\ \A j \in InodesOf(w) : Complete(w, j)
  PROVE  Good(Result(w, NULL), pe)
<1>1. Consistent(w, NULL, pe)
  BY DEF Consistent
<1> QED
  BY <1>1, ReturnsGood

(* A file that was written is complete when it is closed. *)
LEMMA CloseWrites ==
  ASSUME NEW v, Owned(v), Leading(v), NEW pe \in BOOLEAN, NEW fl, fl # NULL,
         Consistent(v, fl, pe), ~Reads(fl), NEW r, r = CloseFile(v, fl)
  PROVE  Good(r, pe)
<1> DEFINE L == fl.length
           k == fl.ptr % BLOCK_SIZE
           i == fl.inode
           x == IF k # 0 THEN Flush(v, fl) ELSE Result(v, fl)
<1>1. Writes(v, fl) /\ fl.ptr = L /\ (~pe => Others(v, i) /\ InProgress(v, fl)) /\ fl \in OFiles
  BY OpenWrites DEF Writes
<1>2. L \in Nat /\ k = L % BLOCK_SIZE
  BY <1>1, OFileFields
<1>3. /\ (L \div BLOCK_SIZE) * BLOCK_SIZE \in Nat /\ k \in 0 .. BLOCK_SIZE - 1
      /\ L = (L \div BLOCK_SIZE) * BLOCK_SIZE + k
      /\ Blocks(L) = 0 <=> L = 0
  <2> HIDE DEF L
  <2>1. /\ (L \div BLOCK_SIZE) * BLOCK_SIZE \in Nat /\ L % BLOCK_SIZE \in 0 .. BLOCK_SIZE - 1
        /\ L = (L \div BLOCK_SIZE) * BLOCK_SIZE + (L % BLOCK_SIZE)
        /\ Blocks(L) = 0 <=> L = 0
    BY <1>2, BlocksAre
  <2> HIDE DEF k
  <2> QED
    BY <1>2, <2>1
<1>4. r = Closing(x)
  BY DEF CloseFile, Closing
<1> HIDE DEF L, k, i
<1>5. CASE k # 0
  <2>1. x = Flush(v, fl)
    BY <1>5
  <2> HIDE DEF x
  <2>2. ASSUME ~pe PROVE Others(v, fl.inode) /\ Pending(v, fl)
    <3>1. L # 0
      <4> DEFINE d == (L \div BLOCK_SIZE) * BLOCK_SIZE
      <4>1. d \in Nat /\ L = d + k /\ k \in 0 .. BLOCK_SIZE - 1 /\ BLOCK_SIZE \in Nat
        BY <1>3, SgfAssumption
      <4> HIDE DEF d
      <4> QED
        BY <1>5, <4>1
    <3> QED
      BY <1>1, <2>2, <3>1 DEF InProgress, Pending, L, i
  <2>3. FlushedAs(v, fl, pe, x)
    BY <1>1, <2>1, <2>2, FlushStep
  <2>4. CASE x.panique
    <3>1. x = Panic(v, fl) /\ pe
      BY <2>3, <2>4 DEF FlushedAs
    <3>2. r = Panic(v, NULL)
      BY <1>4, <3>1, Closes
    <3> QED
      BY <3>1, <3>2, ReturnsGood
  <2>5. CASE ~x.panique
    <3> DEFINE w == x.vol
    <3>1. /\ Owned(w) /\ Leading(w) /\ x = Result(w, fl)
          /\ ~pe => Others(w, fl.inode) /\ Complete(w, fl.inode)
      BY <2>3, <2>5 DEF FlushedAs
    <3> HIDE DEF w
    <3>2. r = Result(w, NULL)
      BY <1>4, <3>1, Closes
    <3> QED
      BY <3>1, <3>2, ClosedGood DEF Others
  <2> QED
    BY <2>4, <2>5
<1>6. CASE k = 0
  <2>1. r = Result(v, NULL)
    BY <1>4, <1>6, Closes
  <2>2. ASSUME ~pe PROVE Complete(v, i)
    <3>1. PICK s, n : FileIs(v, i, s, n)
      BY <1>1 DEF Owned, Chained, Writes, i
    <3>2. v.disk[i].length \in Nat
      BY <3>1, SgfAssumption DEF FileIs, InodeRecords
    <3>3. /\ Cardinality(DataOf(v, i)) = Blocks(L)
          /\ (L \div BLOCK_SIZE) * BLOCK_SIZE <= v.disk[i].length /\ v.disk[i].length <= L
          /\ \A m \in DataOf(v, i) : v.disk[m] \in Buffers
      BY <1>1, <1>2, <1>6, <2>2 DEF InProgress, L, i
    <3>4. v.disk[i].length = L
      <4> DEFINE d == (L \div BLOCK_SIZE) * BLOCK_SIZE
                 l == v.disk[i].length
      <4>1. d \in Nat /\ L = d + k /\ l \in Nat /\ d <= l /\ l <= L /\ L \in Nat
        BY <1>2, <1>3, <3>2, <3>3
      <4> HIDE DEF d, l
      <4>2. l = L
        BY <1>6, <4>1
      <4> QED
        BY <4>2 DEF l
    <3> QED
      BY <3>3, <3>4 DEF Complete
  <2> QED
    BY <1>1, <2>1, <2>2, ClosedGood DEF Others
<1> QED
  BY <1>5, <1>6

(* A call that ends well and leaves the FAT and the blocks as they were. *)
Harmless(v, r) ==
  r.vol.fat = v.fat /\ r.vol.disk = v.disk /\ r.perdu = FALSE /\ r.panique = FALSE

(* A call that returns the volume it was given changed nothing. *)
LEMMA HarmlessResult ==
  ASSUME NEW v, NEW w, w.fat = v.fat, w.disk = v.disk, NEW gl
  PROVE  Harmless(v, Result(w, gl))
BY DEF Harmless, Result

(* A file that was read is as before. *)
LEMMA CloseReads ==
  ASSUME NEW v, Owned(v), Leading(v), NEW pe \in BOOLEAN, NEW fl, fl # NULL,
         Consistent(v, fl, pe), Reads(fl), NEW r, r = CloseFile(v, fl)
  PROVE  Good(r, pe) /\ (~pe => Harmless(v, r))
<1> DEFINE k == fl.ptr % BLOCK_SIZE
           i == fl.inode
           c == fl.current
           x == IF k # 0 THEN Flush(v, fl) ELSE Result(v, fl)
<1>1. /\ fl \in OFiles /\ i \in InodesOf(v) /\ i \in Blocs /\ c \in DataOf(v, i) \cup {FAT_EOF}
      /\ fl.length = v.disk[i].length
      /\ ~pe => AllNamed(v) /\ (\A j \in InodesOf(v) : Complete(v, j)) /\ ReadAt(v, fl)
  BY DEF Consistent, OpenFile, InodesOf
<1>2. fl.ptr \in Nat /\ fl.length \in 0 .. MAX_LENGTH
  BY <1>1, OFileFields
<1>3. k # 0 => fl.ptr # 0
  BY <1>2, LastBlocks
<1>4. r = Closing(x)
  BY DEF CloseFile, Closing
<1>5. CASE k = 0
  <2>1. r = Result(v, NULL)
    BY <1>4, <1>5, Closes
  <2>2. Good(r, pe)
    BY <1>1, <2>1, ClosedGood
  <2>3. Harmless(v, r)
    BY <2>1, HarmlessResult
  <2> QED
    BY <2>2, <2>3
<1>6. CASE k # 0 /\ c = FAT_EOF
  <2>1. x = Panic(v, fl)
    BY <1>6, ValuesTyped DEF Flush, NU_BLOC_OK
  <2> HIDE DEF x
  <2>2. r = Panic(v, NULL)
    BY <1>4, <2>1, Closes
  <2>3. pe
    <3> SUFFICES ASSUME ~pe PROVE FALSE
      OBVIOUS
    <3>1. c \in Blocs
      BY <1>1, <1>3, <1>6 DEF ReadAt
    <3> QED
      BY <1>6, <3>1, ValuesTyped
  <2> QED
    BY <2>2, <2>3, ReturnsGood
<1>7. CASE k # 0 /\ c # FAT_EOF
  <2> DEFINE w == x.vol
  <2>1. x = Flush(v, fl) /\ c \in DataOf(v, i)
    BY <1>1, <1>7
  <2> HIDE DEF k, i, c
  <2>2. FlushedTo(v, fl, w) /\ x = Result(w, fl)
    <3> HIDE DEF x
    <3> QED
      BY <1>1, <2>1, Flushed DEF i, c
  <2> HIDE DEF w, x
  <2>3. /\ Owned(w) /\ w.fat = v.fat /\ SameNames(v, w) /\ InodesOf(w) = InodesOf(v)
        /\ \A j \in InodesOf(v) : DataOf(w, j) = DataOf(v, j)
        /\ w.disk[i] = [v.disk[i] EXCEPT !.length = fl.length]
        /\ w.disk[c] = fl.buffer
        /\ \A m \in Blocs : m # i /\ m # c => w.disk[m] = v.disk[m]
    BY <2>2 DEF FlushedTo, i, c
  <2>4. r = Result(w, NULL)
    BY <1>4, <2>2, Closes
  <2>5. Leading(w) /\ (AllNamed(v) => AllNamed(w))
    BY <2>3, NamesKept
  <2>6. ASSUME ~pe PROVE w.disk = v.disk
    <3>1. w.disk[c] = v.disk[c]
      BY <1>1, <1>3, <1>7, <2>3, <2>6 DEF ReadAt, c
    <3>2. w.disk[i] = v.disk[i]
      <4>1. PICK s, n : FileIs(v, i, s, n)
        BY <1>1 DEF Owned, Chained
      <4>2. v.disk[i] \in InodeRecords
        BY <4>1 DEF FileIs
      <4> QED
        BY <1>1, <1>2, <2>3, <4>2, InodeSet
    <3>3. \A m \in Blocs : w.disk[m] = v.disk[m]
      BY <2>3, <3>1, <3>2
    <3>4. IsDisk(v.disk) /\ IsDisk(w.disk)
      BY <2>3 DEF Owned, IsVolume
    <3> QED
      BY <3>3, <3>4, Zenon DEF IsDisk
  <2>7. ASSUME ~pe PROVE \A j \in InodesOf(w) : Complete(w, j)
    BY <1>1, <2>3, <2>6, <2>7 DEF Complete
  <2>9. Good(r, pe)
    BY <1>1, <2>3, <2>4, <2>5, <2>7, ClosedGood
  <2>10. ~pe => Harmless(v, r)
    BY <2>3, <2>4, <2>6, HarmlessResult
  <2> QED
    BY <2>9, <2>10
<1> QED
  BY <1>1, <1>5, <1>6, <1>7

-----------------------------------------------------------------------------
(* sgf_read_bloc(): the block it finds, and what the buffer becomes.       *)
Loaded(fl, adr, b) == [fl EXCEPT !.current = adr, !.buffer = b]
At(fl, p) == [fl EXCEPT !.ptr = p]

(* The OFILE after a block was read into its buffer. *)
LEMMA LoadedFields ==
  ASSUME NEW fl \in OFiles, NEW adr \in Blocs \cup {FAT_EOF}, NEW b \in Buffers
  PROVE  /\ Loaded(fl, adr, b) \in OFiles
         /\ Loaded(fl, adr, b).current = adr /\ Loaded(fl, adr, b).buffer = b
         /\ Loaded(fl, adr, b).length = fl.length /\ Loaded(fl, adr, b).first = fl.first
         /\ Loaded(fl, adr, b).last = fl.last /\ Loaded(fl, adr, b).inode = fl.inode
         /\ Loaded(fl, adr, b).ptr = fl.ptr /\ Loaded(fl, adr, b).mode = fl.mode
BY DEF Loaded, OFiles, Buffers

(* The OFILE at another position. *)
LEMMA AtFields ==
  ASSUME NEW fl \in OFiles, NEW p \in 0 .. MAX_LENGTH
  PROVE  /\ At(fl, p) \in OFiles
         /\ At(fl, p).current = fl.current /\ At(fl, p).buffer = fl.buffer
         /\ At(fl, p).length = fl.length /\ At(fl, p).first = fl.first
         /\ At(fl, p).last = fl.last /\ At(fl, p).inode = fl.inode
         /\ At(fl, p).ptr = p /\ At(fl, p).mode = fl.mode
BY DEF At, OFiles

(* What memory holds of a block: bytes, whatever the block is; and exactly *)
(* the block if it has been written.                                       *)
LEMMA OctetsAre ==
  ASSUME NEW b \in Buffers \cup {Blank}
  PROVE  Octets(b) \in Buffers /\ (b \in Buffers => Octets(b) = b)
<1>1. JunkBuffer \in Buffers
  BY DEF JunkBuffer, Buffers
<1>2. Blank \notin Buffers
  BY SgfAssumption DEF Buffers, Indices
<1> QED
  BY <1>1, <1>2 DEF Octets

Fetched(v, fl, nubloc, pe, r) ==
  \/ r = Panic(v, fl) /\ pe
  \/ \E adr \in DataOf(v, fl.inode), b \in Buffers :
       /\ r = Result(v, Loaded(fl, adr, b))
       /\ ~pe => adr = Walk(v.fat, fl.first, nubloc) /\ b = v.disk[adr]
       /\ nubloc = BlockAt(fl.ptr) => adr = fl.current

(* sgf_read_bloc within the file: it arrives at that block of the chain and *)
(* reads it.                                                                *)
LEMMA ReadStep ==
  ASSUME NEW v, Owned(v), NEW fl \in OFiles, fl.inode \in InodesOf(v),
         fl.length = v.disk[fl.inode].length, fl.first = v.disk[fl.inode].first,
         fl.current \in DataOf(v, fl.inode) \cup {FAT_EOF}, NEW pe \in BOOLEAN,
         ~pe => Complete(v, fl.inode) /\ fl.current = Walk(v.fat, fl.first, BlockAt(fl.ptr)),
         NEW nubloc \in Nat, nubloc < Blocks(fl.length),
         NEW r, r = sgf_read_bloc(v, fl, nubloc)
  PROVE  Fetched(v, fl, nubloc, pe, r)
<1> DEFINE i == fl.inode
           f == v.fat
           a == fl.first
           d == BlockAt(fl.ptr)
           adr == IF d <= nubloc THEN Walk(f, fl.current, nubloc - d) ELSE Walk(f, a, nubloc)
           b == Octets(v.disk[adr])
<1>1. d \in Nat /\ fl.ptr \in Nat
  BY OFileFields, LastBlocks
<1>2. PICK s, n : FileIs(v, i, s, n)
  BY DEF Owned, Chained
<1>3. f \in Fats /\ a \in Values
  BY OFileFields, ValuesTyped DEF Owned, IsVolume
<1>4. /\ n \in Nat /\ DataOf(v, i) = ChainSet(s, n) /\ Cardinality(DataOf(v, i)) = n
      /\ \A k \in Nat : Walk(f, a, k) = IF k < n THEN s[k] ELSE FAT_EOF
  BY <1>2, <1>3, FileFacts
<1>5. r = IF NU_BLOC_OK(adr) THEN Result(v, Loaded(fl, adr, b)) ELSE Panic(v, fl)
  BY DEF sgf_read_bloc, Loaded, BlockAt
<1>6. \A k \in Nat : Walk(f, a, k) \in DataOf(v, i) \cup {FAT_EOF}
  <2> TAKE k \in Nat
  <2>1. k < n => k \in 0 .. n - 1
    BY <1>4
  <2> QED
    BY <1>4, <2>1 DEF ChainSet
<1>7. adr \in DataOf(v, i) \cup {FAT_EOF}
  <2>1. CASE d <= nubloc
    <3>1. nubloc - d \in Nat
      BY <1>1, <2>1
    <3>2. Walk(f, fl.current, nubloc - d) \in DataOf(v, i) \cup {FAT_EOF}
      BY <3>1, WalkWithin
    <3> QED
      BY <2>1, <3>2
  <2>2. CASE ~(d <= nubloc)
    BY <1>6, <2>2
  <2> QED
    BY <2>1, <2>2
<1>8. ASSUME ~pe PROVE adr = Walk(f, a, nubloc)
  <2>1. CASE d <= nubloc
    <3> DEFINE j == nubloc - d
    <3>1. j \in Nat /\ d + j = nubloc
      BY <1>1, <2>1
    <3> HIDE DEF j, d, f, a
    <3>2. Walk(f, Walk(f, a, d), j) = Walk(f, a, d + j)
      BY <1>1, <1>3, <3>1, WalkAdds
    <3>3. fl.current = Walk(f, a, d)
      BY <1>8 DEF f, a, d
    <3> QED
      BY <2>1, <3>1, <3>2, <3>3 DEF j
  <2>2. CASE ~(d <= nubloc)
    BY <2>2
  <2> QED
    BY <2>1, <2>2
<1>9. ASSUME ~pe PROVE adr \in DataOf(v, i) /\ v.disk[adr] \in Buffers
  <2>1. n = Blocks(fl.length) /\ nubloc \in 0 .. n - 1
    BY <1>4, <1>9 DEF Complete
  <2>2. adr = s[nubloc]
    BY <1>4, <1>8, <1>9, <2>1
  <2>3. adr \in DataOf(v, i)
    BY <1>4, <2>1, <2>2 DEF ChainSet
  <2> QED
    BY <1>9, <2>3 DEF Complete
<1>12. nubloc = d => adr = fl.current
  <2>1. fl.current \in Values
    BY OFileFields, ValuesTyped
  <2>2. Walk(f, fl.current, 0) = fl.current
    BY <1>3, <2>1, WalkUnfolds
  <2>3. nubloc = d => nubloc - d = 0 /\ d <= nubloc
    BY <1>1
  <2> QED
    BY <2>2, <2>3
<1>10. CASE adr = FAT_EOF
  <2>1. ~NU_BLOC_OK(adr)
    BY <1>10, ValuesTyped DEF NU_BLOC_OK
  <2>2. r = Panic(v, fl)
    BY <1>5, <2>1
  <2>3. pe
    <3> SUFFICES ASSUME ~pe PROVE FALSE
      OBVIOUS
    <3>1. adr \in DataOf(v, i)
      BY <1>9
    <3> HIDE DEF adr, i
    <3>2. adr \in Blocs
      BY <3>1, DataMarked DEF i
    <3> QED
      BY <1>10, <3>2, ValuesTyped
  <2> QED
    BY <2>2, <2>3 DEF Fetched
<1>11. CASE adr # FAT_EOF
  <2>1. adr \in DataOf(v, i)
    BY <1>7, <1>11
  <2> HIDE DEF adr, i
  <2>2. adr \in Blocs
    BY <2>1, DataMarked DEF i
  <2>3. NU_BLOC_OK(adr)
    BY <2>2 DEF NU_BLOC_OK
  <2>4. r = Result(v, Loaded(fl, adr, b))
    BY <1>5, <2>3
  <2>5. v.disk[adr] \in Buffers \cup {Blank}
    <3>1. PICK k \in 0 .. n - 1 : adr = s[k]
      BY <1>4, <2>1 DEF ChainSet
    <3> QED
      BY <1>2, <3>1 DEF FileIs
  <2>6. b \in Buffers /\ (~pe => b = v.disk[adr])
    BY <1>9, <2>5, OctetsAre
  <2> HIDE DEF b
  <2> QED
    BY <1>8, <1>12, <2>1, <2>4, <2>6 DEF Fetched, i, f, a
<1> QED
  BY <1>10, <1>11

(* The reader goes to the position p, having loaded its block or being in  *)
(* it already.                                                             *)
Arrives(v, fl, p, pe, r0) ==
  \E gl : \/ r0 = Result(v, gl) /\ gl.ptr = fl.ptr /\ Good(Result(v, At(gl, p)), pe)
          \/ r0 = Panic(v, gl) /\ gl.ptr = fl.ptr /\ Good(Panic(v, At(gl, p)), pe)

(* A reader that read the block of p, or has it, may be moved to p. *)
LEMMA ReadMoves ==
  ASSUME NEW v, Owned(v), Leading(v), NEW pe \in BOOLEAN, NEW fl, fl # NULL,
         Consistent(v, fl, pe), Reads(fl), NEW p \in Nat, p <= fl.length,
         NEW r0,
         \/ r0 = sgf_read_bloc(v, fl, BlockAt(p)) /\ BlockAt(p) < Blocks(fl.length)
         \/ r0 = Result(v, fl) /\ fl.ptr # 0 /\ BlockAt(p) = BlockAt(fl.ptr)
  PROVE  Arrives(v, fl, p, pe, r0)
<1> DEFINE i == fl.inode
<1>1. /\ fl \in OFiles /\ i \in InodesOf(v) /\ fl.current \in DataOf(v, i) \cup {FAT_EOF}
      /\ fl.length = v.disk[i].length /\ fl.first = v.disk[i].first
  BY DEF Consistent, OpenFile
<1>2. ~pe => AllNamed(v) /\ (\A j \in InodesOf(v) : Complete(v, j)) /\ ReadAt(v, fl)
  BY DEF Consistent
<1>3. p \in 0 .. MAX_LENGTH /\ BlockAt(p) \in Nat
  <2>1. fl.length \in 0 .. MAX_LENGTH /\ MAX_LENGTH \in Nat
    BY <1>1, OFileFields
  <2> QED
    BY <2>1, LastBlocks
<1>4. ASSUME NEW gl \in OFiles, gl.inode = i, gl.length = fl.length, gl.first = fl.first,
             gl.mode = fl.mode, gl.current \in DataOf(v, i) \cup {FAT_EOF},
             ~pe => /\ gl.current = Walk(v.fat, fl.first, BlockAt(p))
                    /\ gl.current \in Blocs /\ gl.buffer = v.disk[gl.current]
      PROVE  Good(Result(v, At(gl, p)), pe)
  <2> DEFINE hl == At(gl, p)
  <2>1. /\ hl \in OFiles /\ hl.current = gl.current /\ hl.buffer = gl.buffer
        /\ hl.length = gl.length /\ hl.first = gl.first /\ hl.inode = gl.inode
        /\ hl.ptr = p /\ hl.mode = gl.mode
    BY <1>3, <1>4, AtFields
  <2> HIDE DEF hl
  <2>2. hl # NULL /\ Reads(hl)
    BY <1>4, <2>1, NullAssumption DEF Reads
  <2>3. OpenFile(v, hl)
    BY <1>1, <1>4, <2>1, <2>2 DEF OpenFile
  <2>4. ~pe => ReadAt(v, hl)
    BY <1>4, <2>1 DEF ReadAt, BlockAt
  <2>5. Consistent(v, hl, pe)
    BY <1>2, <2>2, <2>3, <2>4 DEF Consistent
  <2>6. Good(Result(v, hl), pe)
    BY <2>5, ReturnsGood
  <2> QED
    BY <2>6 DEF hl
<1>5. CASE r0 = sgf_read_bloc(v, fl, BlockAt(p)) /\ BlockAt(p) < Blocks(fl.length)
  <2>1. ~pe => Complete(v, fl.inode) /\ fl.current = Walk(v.fat, fl.first, BlockAt(fl.ptr))
    BY <1>1, <1>2 DEF ReadAt, BlockAt
  <2>2. Fetched(v, fl, BlockAt(p), pe, r0)
    BY <1>1, <1>3, <1>5, <2>1, ReadStep
  <2>3. CASE r0 = Panic(v, fl) /\ pe
    <3>1. Good(Panic(v, At(fl, p)), pe)
      BY <2>3, ReturnsGood
    <3> QED
      BY <2>3, <3>1 DEF Arrives
  <2>4. CASE \E adr \in DataOf(v, fl.inode), b \in Buffers :
               /\ r0 = Result(v, Loaded(fl, adr, b))
               /\ ~pe => adr = Walk(v.fat, fl.first, BlockAt(p)) /\ b = v.disk[adr]
               /\ BlockAt(p) = BlockAt(fl.ptr) => adr = fl.current
    <3>1. PICK adr \in DataOf(v, i), b \in Buffers :
            /\ r0 = Result(v, Loaded(fl, adr, b))
            /\ ~pe => adr = Walk(v.fat, fl.first, BlockAt(p)) /\ b = v.disk[adr]
      BY <2>4
    <3>2. adr \in Blocs
      BY <1>1, DataMarked
    <3> DEFINE gl == Loaded(fl, adr, b)
    <3>3. /\ gl \in OFiles /\ gl.current = adr /\ gl.buffer = b
          /\ gl.length = fl.length /\ gl.first = fl.first /\ gl.inode = fl.inode
          /\ gl.ptr = fl.ptr /\ gl.mode = fl.mode
      BY <1>1, <3>2, LoadedFields
    <3>4. r0 = Result(v, gl)
      BY <3>1
    <3> HIDE DEF gl
    <3>5. Good(Result(v, At(gl, p)), pe)
      BY <1>4, <3>1, <3>2, <3>3
    <3> QED
      BY <3>3, <3>4, <3>5 DEF Arrives
  <2> QED
    BY <2>2, <2>3, <2>4 DEF Fetched
<1>6. CASE r0 = Result(v, fl) /\ fl.ptr # 0 /\ BlockAt(p) = BlockAt(fl.ptr)
  <2>1. ~pe => /\ fl.current = Walk(v.fat, fl.first, BlockAt(p))
               /\ fl.current \in Blocs /\ fl.buffer = v.disk[fl.current]
    BY <1>2, <1>6 DEF ReadAt, BlockAt
  <2>2. Good(Result(v, At(fl, p)), pe)
    BY <1>1, <1>4, <2>1
  <2> QED
    BY <1>6, <2>2 DEF Arrives
<1> QED
  BY <1>5, <1>6

(* An outcome with another position. *)
LEMMA PosOutcome ==
  ASSUME NEW w, NEW gl, NEW pd, NEW pa, NEW p
  PROVE  [Outcome(w, gl, pd, pa) EXCEPT !.file.ptr = p] = Outcome(w, At(gl, p), pd, pa)
<1> DEFINE R == Outcome(w, gl, pd, pa)
<1>1. R.file = gl
  BY OutcomeSet
<1>2. [R EXCEPT !.file.ptr = p] = [R EXCEPT !.file = [gl EXCEPT !.ptr = p]]
  <2> HIDE DEF R
  <2> QED
    BY <1>1, Zenon
<1>3. [R EXCEPT !.file = At(gl, p)] = Outcome(w, At(gl, p), pd, pa)
  <2>1. \A h : [Outcome(w, gl, pd, pa) EXCEPT !.file = h] = Outcome(w, h, pd, pa)
    BY OutcomeSet
  <2> QED
    BY <2>1, Zenon
<1> QED
  BY <1>2, <1>3, Zenon DEF At

Moved(x, p) == [x EXCEPT !.file.ptr = p]

(* The same for the outcomes of reading. *)
LEMMA Moves ==
  ASSUME NEW w, NEW gl, NEW p
  PROVE  /\ Moved(Result(w, gl), p) = Result(w, At(gl, p))
         /\ Moved(Panic(w, gl), p) = Panic(w, At(gl, p))
<1> DEFINE no == FALSE
           yes == TRUE
<1>1. \A h : Result(w, h) = Outcome(w, h, no, no) /\ Panic(w, h) = Outcome(w, h, no, yes)
  BY Outcomes, Zenon
<1> HIDE DEF no, yes
<1>2. \A pd, pa : Moved(Outcome(w, gl, pd, pa), p) = Outcome(w, At(gl, p), pd, pa)
  BY PosOutcome DEF Moved
<1>3. Moved(Result(w, gl), p) = Result(w, At(gl, p))
  <2>1. Result(w, gl) = Outcome(w, gl, no, no) /\ Result(w, At(gl, p)) = Outcome(w, At(gl, p), no, no)
    BY <1>1
  <2> QED
    BY <1>2, <2>1
<1>4. Moved(Panic(w, gl), p) = Panic(w, At(gl, p))
  <2>1. Panic(w, gl) = Outcome(w, gl, no, yes) /\ Panic(w, At(gl, p)) = Outcome(w, At(gl, p), no, yes)
    BY <1>1
  <2> QED
    BY <1>2, <2>1
<1> QED
  BY <1>3, <1>4

(* One further is a position like others. *)
LEMMA FurtherIs ==
  ASSUME NEW gl
  PROVE  Further(gl) = At(gl, gl.ptr + 1)
BY Zenon DEF Further, At

(* What a call that reads leaves: the volume, whatever happens. *)
Stepping(x) == [x EXCEPT !.file.ptr = @ + 1]

(* What a reader that arrived at p may rely on. *)
LEMMA Arrived ==
  ASSUME NEW v, NEW fl, NEW p, NEW pe, NEW r0, Arrives(v, fl, p, pe, r0)
  PROVE  /\ Good(Moved(r0, p), pe) /\ Moved(r0, p).vol = v
         /\ p = fl.ptr + 1 => Stepping(r0) = Moved(r0, p)
<1>1. PICK gl : \/ r0 = Result(v, gl) /\ gl.ptr = fl.ptr /\ Good(Result(v, At(gl, p)), pe)
                \/ r0 = Panic(v, gl) /\ gl.ptr = fl.ptr /\ Good(Panic(v, At(gl, p)), pe)
  BY Zenon DEF Arrives
<1>2. CASE r0 = Result(v, gl) /\ gl.ptr = fl.ptr /\ Good(Result(v, At(gl, p)), pe)
  <2>1. Moved(r0, p) = Result(v, At(gl, p))
    BY <1>2, Moves
  <2>2. Moved(r0, p).vol = v
    BY <2>1, ResultFields
  <2>3. ASSUME p = fl.ptr + 1 PROVE Stepping(r0) = Moved(r0, p)
    <3>1. Further(gl) = At(gl, p)
      BY <1>2, <2>3, FurtherIs
    <3>2. Stepping(Result(v, gl)) = Result(v, At(gl, p))
      BY <3>1, Stepped DEF Stepping
    <3> QED
      BY <1>2, <2>1, <3>2, Zenon
  <2> QED
    BY <1>2, <2>1, <2>2, <2>3, Zenon
<1>3. CASE r0 = Panic(v, gl) /\ gl.ptr = fl.ptr /\ Good(Panic(v, At(gl, p)), pe)
  <2>1. Moved(r0, p) = Panic(v, At(gl, p))
    BY <1>3, Moves
  <2>2. Moved(r0, p).vol = v
    BY <2>1, ResultFields
  <2>3. ASSUME p = fl.ptr + 1 PROVE Stepping(r0) = Moved(r0, p)
    <3>1. Further(gl) = At(gl, p)
      BY <1>3, <2>3, FurtherIs
    <3>2. Stepping(Panic(v, gl)) = Panic(v, At(gl, p))
      BY <3>1, Stepped DEF Stepping
    <3> QED
      BY <1>3, <2>1, <3>2, Zenon
  <2> QED
    BY <1>3, <2>1, <2>2, <2>3, Zenon
<1> QED
  BY <1>1, <1>2, <1>3

(* Its first part: reading left the volume alone. *)
LEMMA ArrivedGood ==
  ASSUME NEW v, NEW fl, NEW p, NEW pe, NEW r0, Arrives(v, fl, p, pe, r0)
  PROVE  Good(Moved(r0, p), pe) /\ Moved(r0, p).vol = v
BY Arrived

(* Its second part: the next character is one position further. *)
LEMMA ArrivedNext ==
  ASSUME NEW v, NEW fl, NEW p, NEW pe, NEW r0, Arrives(v, fl, p, pe, r0), p = fl.ptr + 1
  PROVE  Stepping(r0) = Moved(r0, p)
BY Arrived

(* sgf_getc() before the end, and sgf_seek(). *)
LEMMA GetcStep ==
  ASSUME NEW v, Owned(v), Leading(v), NEW pe \in BOOLEAN, NEW fl, fl # NULL,
         Consistent(v, fl, pe), Reads(fl), fl.ptr < fl.length,
         NEW r0, r0 = IF fl.ptr % BLOCK_SIZE = 0
                      THEN sgf_read_bloc(v, fl, fl.ptr \div BLOCK_SIZE) ELSE Result(v, fl)
  PROVE  Arrives(v, fl, fl.ptr + 1, pe, r0)
<1>1. fl.ptr \in Nat /\ fl.length \in Nat
  BY OFileFields DEF Consistent, OpenFile
<1> DEFINE x == fl.ptr
           p == x + 1
<1>2. p \in Nat /\ p <= fl.length
  BY <1>1
<1> HIDE DEF x
<1>3. /\ BlockAt(p) = x \div BLOCK_SIZE /\ x \div BLOCK_SIZE < Blocks(fl.length)
      /\ x % BLOCK_SIZE # 0 => x # 0 /\ BlockAt(p) = BlockAt(x)
  BY <1>1, LastBlockNext, LastBlocks, BlockWithin DEF x
<1> HIDE DEF p
<1>4. CASE x % BLOCK_SIZE = 0
  <2>1. r0 = sgf_read_bloc(v, fl, BlockAt(p)) /\ BlockAt(p) < Blocks(fl.length)
    BY <1>3, <1>4 DEF x
  <2>2. Arrives(v, fl, p, pe, r0)
    BY <1>2, <2>1, ReadMoves
  <2> QED
    BY <2>2 DEF p, x
<1>5. CASE x % BLOCK_SIZE # 0
  <2>1. r0 = Result(v, fl) /\ fl.ptr # 0 /\ BlockAt(p) = BlockAt(fl.ptr)
    BY <1>3, <1>5 DEF x
  <2>2. Arrives(v, fl, p, pe, r0)
    BY <1>2, <2>1, ReadMoves
  <2> QED
    BY <2>2 DEF p, x
<1> QED
  BY <1>4, <1>5

(* sgf_seek within the file: the block of p is in the buffer, read now or *)
(* before.                                                                *)
LEMMA SeekStep ==
  ASSUME NEW v, Owned(v), Leading(v), NEW pe \in BOOLEAN, NEW fl, fl # NULL,
         Consistent(v, fl, pe), Reads(fl), NEW p \in Nat, p < fl.length,
         NEW r0, r0 = IF SeekBlock(p) # LastBlock(fl.ptr)
                      THEN sgf_read_bloc(v, fl, SeekBlock(p)) ELSE Result(v, fl)
  PROVE  Arrives(v, fl, p, pe, r0)
<1>1. fl.ptr \in Nat /\ fl.length \in Nat
  BY OFileFields DEF Consistent, OpenFile
<1>2. SeekBlock(p) = BlockAt(p) /\ BlockAt(p) \in Nat /\ p <= fl.length
  BY <1>1, LastBlocks
<1>3. CASE SeekBlock(p) # LastBlock(fl.ptr)
  <2>1. BlockAt(p) < Blocks(fl.length)
    <3>1. CASE p = 0
      <4>1. Blocks(fl.length) \in Nat /\ Blocks(fl.length) # 0
        BY <1>1, <3>1, BlocksAre
      <4>2. BlockAt(p) = 0
        BY <3>1, LastBlocks
      <4> QED
        BY <4>1, <4>2
    <3>2. CASE p # 0
      <4> DEFINE x == p - 1
      <4>1. x \in Nat /\ x < fl.length
        BY <1>1, <3>2
      <4>2. BlockAt(p) = x \div BLOCK_SIZE
        BY <3>2, LastBlocks
      <4> HIDE DEF x
      <4> QED
        BY <1>1, <4>1, <4>2, BlockWithin
    <3> QED
      BY <3>1, <3>2
  <2>2. r0 = sgf_read_bloc(v, fl, BlockAt(p))
    BY <1>2, <1>3
  <2> QED
    BY <1>2, <2>1, <2>2, ReadMoves
<1>4. CASE SeekBlock(p) = LastBlock(fl.ptr)
  <2>1. fl.ptr # 0
    <3> SUFFICES ASSUME fl.ptr = 0 PROVE FALSE
      OBVIOUS
    <3>1. LastBlock(fl.ptr) = -1
      BY <1>1, LastBlocks
    <3> QED
      BY <1>2, <1>4, <3>1
  <2>2. BlockAt(p) = BlockAt(fl.ptr)
    BY <1>1, <1>2, <1>4, <2>1, LastBlocks
  <2>3. r0 = Result(v, fl)
    BY <1>4
  <2> QED
    BY <1>2, <2>1, <2>2, <2>3, ReadMoves
<1> QED
  BY <1>3, <1>4

-----------------------------------------------------------------------------
(* The opening of a file, in the three modes. *)
LEMMA OFileIs ==
  ASSUME NEW i \in Blocs, NEW ino \in InodeRecords, NEW c \in Blocs \cup {FAT_EOF},
         NEW p \in 0 .. MAX_LENGTH, NEW m \in {READ_MODE, WRITE_MODE, APPEND_MODE}
  PROVE  LET fl == OFile(i, ino, c, p, m) IN
         /\ fl \in OFiles /\ fl # NULL /\ fl.inode = i /\ fl.current = c /\ fl.ptr = p
         /\ fl.mode = m /\ fl.length = ino.length /\ fl.first = ino.first /\ fl.last = ino.last
<1> DEFINE fl == OFile(i, ino, c, p, m)
<1>1. JunkBuffer \in [Indices -> CHARS \cup {Junk}]
  BY DEF JunkBuffer
<1>2. /\ ino.length \in 0 .. MAX_LENGTH /\ ino.first \in Blocs \cup {FAT_EOF}
      /\ ino.last \in Blocs \cup {FAT_EOF}
  BY DEF InodeRecords
<1>3. fl \in OFiles
  BY <1>1, <1>2 DEF OFile, OFiles
<1>4. /\ fl.inode = i /\ fl.current = c /\ fl.ptr = p
      /\ fl.mode = m /\ fl.length = ino.length /\ fl.first = ino.first /\ fl.last = ino.last
  BY DEF OFile
<1> QED
  BY <1>3, <1>4, NullAssumption

(* The inode of a file: its first and last blocks. *)
LEMMA InodeFacts ==
  ASSUME NEW v, Owned(v), NEW i \in InodesOf(v)
  PROVE  /\ i \in Blocs /\ v.disk[i] \in InodeRecords
         /\ v.disk[i].length \in 0 .. MAX_LENGTH /\ v.disk[i].length \in Nat
         /\ v.disk[i].first \in DataOf(v, i) \cup {FAT_EOF}
         /\ v.disk[i].last \in DataOf(v, i) \cup {FAT_EOF}
         /\ v.disk[i].first \in Blocs \cup {FAT_EOF} /\ v.disk[i].last \in Blocs \cup {FAT_EOF}
         /\ Walk(v.fat, v.disk[i].first, 0) = v.disk[i].first
         /\ LET n == Cardinality(DataOf(v, i)) IN
            IF n = 0 THEN v.disk[i].last = FAT_EOF
            ELSE v.disk[i].last = Walk(v.fat, v.disk[i].first, n - 1)
<1>1. PICK s, n : FileIs(v, i, s, n)
  BY DEF Owned, Chained
<1>2. v.fat \in Fats
  BY DEF Owned, IsVolume
<1>3. /\ n \in Nat /\ s \in [0 .. n - 1 -> Blocs]
      /\ DataOf(v, i) = ChainSet(s, n) /\ Cardinality(DataOf(v, i)) = n
      /\ \A k \in Nat : Walk(v.fat, v.disk[i].first, k) = IF k < n THEN s[k] ELSE FAT_EOF
      /\ v.disk[i].first = (IF n = 0 THEN FAT_EOF ELSE s[0])
      /\ n # 0 => v.disk[i].last = s[n - 1]
      /\ n = 0 => v.disk[i].last = FAT_EOF
  BY <1>1, <1>2, FileFacts
<1>4. v.disk[i] \in InodeRecords
  BY <1>1 DEF FileIs
<1>5. v.disk[i].length \in 0 .. MAX_LENGTH /\ v.disk[i].length \in Nat
  BY <1>4, SgfAssumption DEF InodeRecords
<1>6. n # 0 => 0 \in 0 .. n - 1 /\ n - 1 \in 0 .. n - 1 /\ n - 1 \in Nat /\ n - 1 < n /\ 0 < n
  BY <1>3
<1>7. v.disk[i].first \in DataOf(v, i) \cup {FAT_EOF} /\ v.disk[i].last \in DataOf(v, i) \cup {FAT_EOF}
  BY <1>3, <1>6 DEF ChainSet
<1>8. v.disk[i].first \in Blocs \cup {FAT_EOF} /\ v.disk[i].last \in Blocs \cup {FAT_EOF}
  BY <1>3, <1>6
<1>9. Walk(v.fat, v.disk[i].first, 0) = v.disk[i].first
  BY <1>3, <1>6
<1>10. n # 0 => v.disk[i].last = Walk(v.fat, v.disk[i].first, n - 1)
  BY <1>3, <1>6
<1> QED
  BY <1>3, <1>4, <1>5, <1>7, <1>8, <1>9, <1>10 DEF InodesOf

(* sgf_open_read of a file that exists. *)
LEMMA OpenReadStep ==
  ASSUME NEW v, Owned(v), Leading(v), NEW pe \in BOOLEAN, Consistent(v, NULL, pe),
         NEW i \in InodesOf(v),
         NEW fl, fl = OFile(i, v.disk[i], v.disk[i].first, 0, READ_MODE)
  PROVE  Consistent(v, fl, pe) /\ fl # NULL /\ Reads(fl)
<1>1. /\ i \in Blocs /\ v.disk[i] \in InodeRecords /\ v.disk[i].length \in Nat
      /\ v.disk[i].first \in DataOf(v, i) \cup {FAT_EOF}
      /\ v.disk[i].first \in Blocs \cup {FAT_EOF}
      /\ Walk(v.fat, v.disk[i].first, 0) = v.disk[i].first
  BY InodeFacts
<1>2. 0 \in 0 .. MAX_LENGTH
  BY SgfAssumption
<1> DEFINE ino == v.disk[i]
<1>3. /\ fl \in OFiles /\ fl # NULL /\ fl.inode = i /\ fl.current = ino.first /\ fl.ptr = 0
      /\ fl.mode = READ_MODE /\ fl.length = ino.length /\ fl.first = ino.first
  <2>1. fl = OFile(i, ino, ino.first, 0, READ_MODE) /\ ino \in InodeRecords
        /\ ino.first \in Blocs \cup {FAT_EOF}
    BY <1>1
  <2> HIDE DEF ino
  <2> QED
    BY <1>1, <1>2, <2>1, OFileIs
<1>4. Reads(fl)
  BY <1>3 DEF Reads
<1>5. OpenFile(v, fl)
  BY <1>1, <1>3, <1>4 DEF OpenFile
<1>6. ReadAt(v, fl)
  <2>1. Max({0, LastBlock(0)}) = 0
    BY LastBlocks DEF BlockAt
  <2> QED
    BY <1>1, <1>3, <2>1 DEF ReadAt
<1> QED
  BY <1>3, <1>4, <1>5, <1>6 DEF Consistent

(* sgf_open_append of a file that exists, its last block read if it is not *)
(* full.                                                                   *)
LEMMA OpenAppendStep ==
  ASSUME NEW v, Owned(v), Leading(v), NEW pe \in BOOLEAN, Consistent(v, NULL, pe),
         NEW i \in InodesOf(v),
         NEW fl, fl = OFile(i, v.disk[i], v.disk[i].last, v.disk[i].length, APPEND_MODE),
         NEW r, r = IF fl.length % BLOCK_SIZE # 0
                    THEN sgf_read_bloc(v, fl, fl.ptr \div BLOCK_SIZE) ELSE Result(v, fl)
  PROVE  Good(r, pe)
<1> DEFINE ino == v.disk[i]
           L == ino.length
<1>1. /\ i \in Blocs /\ ino \in InodeRecords /\ L \in Nat /\ L \in 0 .. MAX_LENGTH
      /\ ino.last \in DataOf(v, i) \cup {FAT_EOF} /\ ino.last \in Blocs \cup {FAT_EOF}
      /\ LET n == Cardinality(DataOf(v, i)) IN
         IF n = 0 THEN ino.last = FAT_EOF ELSE ino.last = Walk(v.fat, ino.first, n - 1)
  BY InodeFacts
<1>2. ~pe => AllNamed(v) /\ \A j \in InodesOf(v) : Complete(v, j)
  BY DEF Consistent
<1>3. /\ fl \in OFiles /\ fl # NULL /\ fl.inode = i /\ fl.current = ino.last /\ fl.ptr = L
      /\ fl.mode = APPEND_MODE /\ fl.length = L /\ fl.first = ino.first /\ fl.last = ino.last
  <2>1. fl = OFile(i, ino, ino.last, ino.length, APPEND_MODE)
    OBVIOUS
  <2> HIDE DEF ino
  <2> QED
    BY <1>1, <2>1, OFileIs
<1>4. ~Reads(fl)
  BY <1>3 DEF Reads, READ_MODE, APPEND_MODE
<1>5. ASSUME NEW gl \in OFiles, gl.inode = i, gl.current = ino.last, gl.last = ino.last,
             gl.ptr = L, gl.length = L, gl.mode = fl.mode
      PROVE  Good(Result(v, gl), pe)
  <2>1. ~Reads(gl) /\ gl # NULL
    BY <1>4, <1>5, NullAssumption DEF Reads
  <2>2. Writes(v, gl)
    BY <1>1, <1>5, <2>1 DEF Writes
  <2>3. ~pe => Others(v, gl.inode) /\ InProgress(v, gl)
    <3>1. ASSUME ~pe PROVE InProgress(v, gl)
      BY <1>2, <1>5, <3>1, CompleteInProgress
    <3> QED
      BY <1>2, <3>1 DEF Others
  <2>4. Consistent(v, gl, pe)
    BY <1>5, <2>1, <2>2, <2>3, OpenWrites
  <2> QED
    BY <2>4, ReturnsGood
<1>6. CASE L % BLOCK_SIZE = 0
  <2>1. r = Result(v, fl)
    BY <1>3, <1>6
  <2>2. Good(Result(v, fl), pe)
    BY <1>3, <1>5
  <2> QED
    BY <2>1, <2>2
<1>7. CASE L % BLOCK_SIZE # 0
  <2> DEFINE q == L \div BLOCK_SIZE
  <2>1. r = sgf_read_bloc(v, fl, q)
    BY <1>3, <1>7
  <2>2. q \in Nat /\ Blocks(L) = q + 1 /\ BlockAt(L) = q
    <3> HIDE DEF L
    <3> QED
      BY <1>1, <1>7, BlocksAre, LastBlocks
  <2>3. ~pe => ino.last = Walk(v.fat, ino.first, q)
    <3> SUFFICES ASSUME ~pe PROVE ino.last = Walk(v.fat, ino.first, q)
      OBVIOUS
    <3>1. Cardinality(DataOf(v, i)) = Blocks(L)
      BY <1>2 DEF Complete
    <3> HIDE DEF q, L, ino
    <3>2. Cardinality(DataOf(v, i)) = q + 1 /\ q + 1 # 0 /\ (q + 1) - 1 = q
      BY <2>2, <3>1
    <3> QED
      BY <1>1, <3>2
  <2> HIDE DEF q
  <2>4. q < Blocks(fl.length) /\ BlockAt(fl.ptr) = q
    BY <1>3, <2>2
  <2> HIDE DEF L
  <2>5. ~pe => Complete(v, fl.inode) /\ fl.current = Walk(v.fat, fl.first, BlockAt(fl.ptr))
    BY <1>2, <1>3, <2>3, <2>4
  <2>6. fl.current \in DataOf(v, fl.inode) \cup {FAT_EOF}
    BY <1>1, <1>3
  <2>7. fl.length = v.disk[fl.inode].length /\ fl.first = v.disk[fl.inode].first
        /\ fl.inode \in InodesOf(v)
    BY <1>3 DEF L
  <2>8. Fetched(v, fl, q, pe, r)
    BY <1>3, <2>1, <2>2, <2>4, <2>5, <2>6, <2>7, ReadStep
  <2>9. CASE r = Panic(v, fl) /\ pe
    BY <2>9, ReturnsGood
  <2>10. CASE ~(r = Panic(v, fl) /\ pe)
    <3>1. PICK adr \in DataOf(v, i), b \in Buffers :
            r = Result(v, Loaded(fl, adr, b)) /\ adr = fl.current
      BY <1>3, <2>4, <2>8, <2>10 DEF Fetched
    <3>2. adr \in Blocs
      BY DataMarked
    <3> DEFINE gl == Loaded(fl, adr, b)
    <3>3. /\ gl \in OFiles /\ gl.current = adr /\ gl.length = fl.length /\ gl.last = fl.last
          /\ gl.inode = fl.inode /\ gl.ptr = fl.ptr /\ gl.mode = fl.mode
      BY <1>3, <3>2, LoadedFields
    <3>4. r = Result(v, gl)
      BY <3>1
    <3> HIDE DEF gl
    <3>5. Good(Result(v, gl), pe)
      BY <1>3, <1>5, <3>1, <3>3
    <3> QED
      BY <3>4, <3>5
  <2> QED
    BY <2>9, <2>10
<1> QED
  BY <1>6, <1>7

(* sgf_open_write when a block is free. *)
LEMMA OpenWriteStep ==
  ASSUME NEW v, Owned(v), Leading(v), NEW pe \in BOOLEAN, Consistent(v, NULL, pe),
         Free(v.fat) # {}, NEW nom \in NOMS, NEW r, r = NewFile(v, nom)
  PROVE  Good(r, pe)
<1> DEFINE w == r.vol
           fl == r.file
           a == fl.inode
           b == r.perdu
<1>1. NewFileIn(v, nom, r)
  BY NewFileMade
<1>2. /\ Owned(w) /\ Leading(w) /\ a \in InodesOf(w) /\ a \in Blocs
      /\ w.disk[a] = EmptyInode /\ DataOf(w, a) = {}
      /\ \A j \in InodesOf(w) : j # a => j \in InodesOf(v) /\ SameFile(v, w, j)
      /\ fl = OFile(a, EmptyInode, FAT_EOF, 0, WRITE_MODE)
  BY <1>1 DEF NewFileIn
<1>3. r.perdu \in BOOLEAN /\ (~r.perdu /\ AllNamed(v) => AllNamed(w)) /\ r.panique = FALSE
  BY <1>1, Zenon DEF NewFileIn
<1>4. ~pe => AllNamed(v) /\ \A j \in InodesOf(v) : Complete(v, j)
  BY DEF Consistent
<1>5. EmptyInode \in InodeRecords /\ 0 \in 0 .. MAX_LENGTH
  BY SgfAssumption DEF EmptyInode, InodeRecords
<1> HIDE DEF w, fl, a
<1>6. /\ fl \in OFiles /\ fl # NULL /\ fl.inode = a /\ fl.current = FAT_EOF /\ fl.ptr = 0
      /\ fl.mode = WRITE_MODE /\ fl.length = 0 /\ fl.last = FAT_EOF
  <2>1. EmptyInode.length = 0 /\ EmptyInode.last = FAT_EOF
    BY DEF EmptyInode
  <2> QED
    BY <1>2, <1>5, <2>1, OFileIs
<1>7. ~Reads(fl) /\ w.disk[a].length = 0 /\ w.disk[a].last = FAT_EOF
  BY <1>2, <1>6 DEF Reads, READ_MODE, WRITE_MODE, EmptyInode
<1>8. Writes(w, fl)
  BY <1>2, <1>6, <1>7 DEF Writes
<1>9. Complete(w, a)
  <2>1. Blocks(0) = 0
    BY BlocksAre
  <2>2. Cardinality(DataOf(w, a)) = 0
    BY <1>2, FS_EmptySet
  <2> QED
    BY <1>2, <1>7, <2>1, <2>2 DEF Complete
<1>10. InProgress(w, fl)
  BY <1>6, <1>7, <1>9, CompleteInProgress
<1>11. ASSUME ~pe, ~r.perdu PROVE Others(w, fl.inode)
  <2>1. AllNamed(w)
    BY <1>3, <1>4, <1>11, Zenon
  <2>2. \A j \in InodesOf(w) : j # a => Complete(w, j)
    BY <1>2, <1>4, <1>11 DEF Complete, SameFile
  <2> QED
    BY <1>6, <2>1, <2>2 DEF Others
<1>12. (pe \/ r.perdu) \in BOOLEAN /\ (~(pe \/ r.perdu) => ~pe /\ ~r.perdu)
  OBVIOUS
<1> DEFINE q == pe \/ r.perdu
<1>13. ~q => Others(w, fl.inode) /\ InProgress(w, fl)
  BY <1>10, <1>11, <1>12, Zenon
<1> HIDE DEF q
<1>14. Consistent(w, fl, q)
  BY <1>6, <1>7, <1>8, <1>13, OpenWrites
<1> QED
  BY <1>2, <1>3, <1>14, Zenon DEF Good, q, w, fl
=============================================================================
