------------------------- MODULE SymbolTableProofs -------------------------
(***************************************************************************)
(* What the operations of SymbolTable keep true of a table, for every set  *)
(* of names, every hash function and every block size.                     *)
(***************************************************************************)
EXTENDS SymbolTable, Extrema, SequenceTheorems

---------------------------------------------------------------------------
(* Arithmetic of buckets. *)

\* The number of buckets is a positive multiple of the block size.
LEMMA BlocksArithmetic ==
    ASSUME NEW n \in Nat \ {0}
    PROVE  /\ n * BLOCKSIZE \in Nat
           /\ n * BLOCKSIZE >= 2
           /\ (n + 1) * BLOCKSIZE = n * BLOCKSIZE + BLOCKSIZE
<1>1. BLOCKSIZE \in Nat /\ BLOCKSIZE >= 2
  BY BlockSizeAssumption
<1>2. n \in Nat /\ n >= 1
  OBVIOUS
<1>3. n * BLOCKSIZE \in Nat /\ n * BLOCKSIZE >= BLOCKSIZE
  BY <1>1, <1>2
<1>4. (n + 1) * BLOCKSIZE = n * BLOCKSIZE + BLOCKSIZE
  BY <1>1, <1>2
<1> QED
  BY <1>1, <1>3, <1>4

\* Every name falls into a bucket of the table.
LEMMA BucketInRange ==
    ASSUME NEW t, t.blocks \in Nat \ {0}, NEW name \in Names
    PROVE  Bucket(t, name) \in 0 .. BucketCount(t) - 1
<1>1. BucketCount(t) \in Nat /\ BucketCount(t) > 0
  BY BlocksArithmetic DEF BucketCount
<1>2. Hash[name] \in Nat
  BY HashAssumption
<1> QED
  BY <1>1, <1>2 DEF Bucket

---------------------------------------------------------------------------
(* The invariant of a table whose nodes point to variables of V. *)

NodeOver(V) == [prehash : Nat, var : V, scope : Int]

Fields(t, V) ==
    t \in [scope : Nat, blocks : Nat \ {0}, dangling : Nat, size : Nat,
           chains : [0 .. BucketCount(t) - 1 -> Seq(NodeOver(V))]]

\* A set that such tables belong to, whatever their number of buckets.
Tables(V) ==
    [scope : Nat, blocks : Nat \ {0}, dangling : Nat, size : Nat,
     chains : UNION {[0 .. n - 1 -> Seq(NodeOver(V))] : n \in Nat}]

\* num_dangling counts the dangling nodes, exactly until the table grows.
Counted(t) ==
    /\ IsFiniteSet(DanglingNodes(t))
    /\ Cardinality(DanglingNodes(t)) <= t.dangling
    /\ t.blocks = 1 => t.dangling = Cardinality(DanglingNodes(t))

TableOK(t, V) == Fields(t, V) /\ LoadBelowThreshold(t) /\ Counted(t)

\* More variables may be pointed to.
LEMMA FieldsMonotonic ==
    ASSUME NEW V, NEW W, V \subseteq W, NEW t, Fields(t, V)
    PROVE  Fields(t, W)
<1>1. NodeOver(V) \subseteq NodeOver(W)
  BY DEF NodeOver
<1>2. \A seq \in Seq(NodeOver(V)) : seq \in Seq(NodeOver(W))
  BY <1>1, SeqMonotonic
<1> HIDE DEF NodeOver
<1> QED
  BY <1>2 DEF Fields

LEMMA FieldsInTables ==
    ASSUME NEW V, NEW t, Fields(t, V)
    PROVE  t \in Tables(V)
<1> DEFINE n == BucketCount(t)
           C == UNION {[0 .. k - 1 -> Seq(NodeOver(V))] : k \in Nat}
<1>1. n \in Nat
  BY BlocksArithmetic DEF Fields, BucketCount
<1>2. t.chains \in [0 .. n - 1 -> Seq(NodeOver(V))]
  BY DEF Fields
<1> HIDE DEF n
<1>3. t.chains \in C
  BY <1>1, <1>2
<1> HIDE DEF C
<1> QED
  BY <1>3 DEF Fields, Tables, C

\* A chain is a sequence of nodes.
LEMMA ChainType ==
    ASSUME NEW V, NEW t, Fields(t, V), NEW name \in Names
    PROVE  /\ Chain(t, name) \in Seq(NodeOver(V))
           /\ DOMAIN Chain(t, name) = 1 .. Len(Chain(t, name))
           /\ Len(Chain(t, name)) \in Nat
<1>1. Bucket(t, name) \in 0 .. BucketCount(t) - 1
  BY BucketInRange DEF Fields
<1>2. Chain(t, name) \in Seq(NodeOver(V))
  BY <1>1 DEF Chain, Fields
<1> QED
  BY <1>2, LenProperties

\* A node that is looked up has the hash and the scope asked for.
LEMMA LookupNode ==
    ASSUME NEW V, NEW t, Fields(t, V), NEW name \in Names, NEW scope,
           lookup_node_in_scope(t, name, scope) # 0
    PROVE  LET i == lookup_node_in_scope(t, name, scope)
           IN  /\ i \in 1 .. Len(Chain(t, name))
               /\ Chain(t, name)[i] \in NodeOver(V)
               /\ Chain(t, name)[i].prehash = Hash[name]
               /\ Chain(t, name)[i].scope = scope
<1> DEFINE chain == Chain(t, name)
           hits == {i \in SameHash(t, name) : chain[i].scope = scope}
<1>1. chain \in Seq(NodeOver(V)) /\ DOMAIN chain = 1 .. Len(chain)
  BY ChainType
<1>2. hits # {} /\ lookup_node_in_scope(t, name, scope) = Min(hits)
  BY DEF lookup_node_in_scope
<1>3. hits \in SUBSET Nat
  BY <1>1 DEF SameHash
<1>4. Min(hits) \in hits
  <2> HIDE DEF hits
  <2> QED BY <1>2, <1>3, MinIsLeast
<1>5. /\ Min(hits) \in 1 .. Len(chain)
      /\ chain[Min(hits)].prehash = Hash[name]
      /\ chain[Min(hits)].scope = scope
  BY <1>1, <1>4 DEF SameHash
<1>6. chain[Min(hits)] \in NodeOver(V)
  BY <1>1, <1>5, ElementOfSeq
<1> QED
  BY <1>2, <1>5, <1>6

\* A variable that is looked up is NULL or one the table points to.
LEMMA LookupVariable ==
    ASSUME NEW V, NEW t, Fields(t, V), NEW name \in Names
    PROVE  /\ \A s : lookup_variable_in_scope(t, name, s) \in V \cup {NULL}
           /\ lookup_dangling_variable(t, name) \in V \cup {NULL}
           /\ lookup_variable(t, name) \in V \cup {NULL}
<1>1. \A s : lookup_variable_in_scope(t, name, s) \in V \cup {NULL}
  <2> TAKE s
  <2>1. CASE lookup_node_in_scope(t, name, s) = 0
    BY <2>1 DEF lookup_variable_in_scope
  <2>2. CASE lookup_node_in_scope(t, name, s) # 0
    <3>1. Chain(t, name)[lookup_node_in_scope(t, name, s)] \in NodeOver(V)
      BY <2>2, LookupNode
    <3> QED BY <2>2, <3>1 DEF lookup_variable_in_scope, NodeOver
  <2> QED BY <2>1, <2>2
<1>2. lookup_dangling_variable(t, name) \in V \cup {NULL}
  BY <1>1 DEF lookup_dangling_variable
<1>3. lookup_variable(t, name) \in V \cup {NULL}
  BY <1>1, Zenon DEF lookup_variable
<1> QED
  BY <1>1, <1>2, <1>3

---------------------------------------------------------------------------
(* Counting dangling nodes. *)

LEMMA DanglingNodesDef ==
    ASSUME NEW t, NEW b, NEW i
    PROVE  <<b, i>> \in DanglingNodes(t) <=>
              /\ b \in DOMAIN t.chains
              /\ i \in DOMAIN t.chains[b]
              /\ t.chains[b][i].scope = SCOPE_DANGLING
BY DEF DanglingNodes

LEMMA DanglingNodesArePairs ==
    ASSUME NEW t, NEW p \in DanglingNodes(t)
    PROVE  /\ p[1] \in DOMAIN t.chains
           /\ p[2] \in DOMAIN t.chains[p[1]]
           /\ t.chains[p[1]][p[2]].scope = SCOPE_DANGLING
           /\ p = <<p[1], p[2]>>
BY DEF DanglingNodes

\* Chains that differ by a shift of each, in which no dangling node is lost
\* or won, hold as many of them.
LEMMA ShiftKeepsCount ==
    ASSUME NEW t, NEW u, IsFiniteSet(DanglingNodes(t)),
           DOMAIN u.chains = DOMAIN t.chains,
           \A b \in DOMAIN t.chains : /\ DOMAIN t.chains[b] \subseteq Int
                                      /\ DOMAIN u.chains[b] \subseteq Int,
           NEW d \in [DOMAIN t.chains -> Int],
           \A b \in DOMAIN t.chains : \A i \in DOMAIN t.chains[b] :
              t.chains[b][i].scope = SCOPE_DANGLING =>
                 /\ i + d[b] \in DOMAIN u.chains[b]
                 /\ u.chains[b][i + d[b]].scope = SCOPE_DANGLING,
           \A b \in DOMAIN t.chains : \A j \in DOMAIN u.chains[b] :
              u.chains[b][j].scope = SCOPE_DANGLING =>
                 /\ j - d[b] \in DOMAIN t.chains[b]
                 /\ t.chains[b][j - d[b]].scope = SCOPE_DANGLING
    PROVE  /\ IsFiniteSet(DanglingNodes(u))
           /\ Cardinality(DanglingNodes(u)) = Cardinality(DanglingNodes(t))
<1> DEFINE S == DanglingNodes(t)
           T == DanglingNodes(u)
           f == [p \in S |-> <<p[1], p[2] + d[p[1]]>>]
<1>1. \A p \in S : /\ p = <<p[1], p[2]>>
                   /\ p[1] \in DOMAIN t.chains
                   /\ p[2] \in Int
                   /\ d[p[1]] \in Int
                   /\ <<p[1], p[2] + d[p[1]]>> \in T
  <2> TAKE p \in S
  <2>1. /\ p[1] \in DOMAIN t.chains
        /\ p[2] \in DOMAIN t.chains[p[1]]
        /\ t.chains[p[1]][p[2]].scope = SCOPE_DANGLING
        /\ p = <<p[1], p[2]>>
    BY DanglingNodesArePairs
  <2>2. p[2] \in Int /\ d[p[1]] \in Int
    BY <2>1
  <2>3. <<p[1], p[2] + d[p[1]]>> \in T
    BY <2>1, DanglingNodesDef
  <2> QED BY <2>1, <2>2, <2>3
<1>2. \A q \in T : \E p \in S : f[p] = q
  <2> TAKE q \in T
  <2>1. /\ q[1] \in DOMAIN u.chains
        /\ q[2] \in DOMAIN u.chains[q[1]]
        /\ u.chains[q[1]][q[2]].scope = SCOPE_DANGLING
        /\ q = <<q[1], q[2]>>
    BY DanglingNodesArePairs
  <2>2. q[2] \in Int /\ d[q[1]] \in Int
    BY <2>1
  <2> DEFINE p == <<q[1], q[2] - d[q[1]]>>
  <2>3. p \in S
    BY <2>1, DanglingNodesDef
  <2>4. f[p] = <<q[1], (q[2] - d[q[1]]) + d[q[1]]>>
    BY <2>3
  <2> QED BY <2>1, <2>2, <2>3, <2>4
<1>3. f \in [S -> T]
  BY <1>1
<1>4. \A p, q \in S : f[p] = f[q] => p = q
  <2> SUFFICES ASSUME NEW p \in S, NEW q \in S, f[p] = f[q]
               PROVE  p = q
    OBVIOUS
  <2>1. p[1] = q[1] /\ p[2] + d[p[1]] = q[2] + d[q[1]]
    OBVIOUS
  <2>2. p[2] \in Int /\ q[2] \in Int /\ d[p[1]] \in Int
    BY <1>1
  <2>3. p[2] = q[2]
    BY <2>1, <2>2
  <2>4. p = <<p[1], p[2]>> /\ q = <<q[1], q[2]>>
    BY <1>1
  <2> QED BY <2>1, <2>3, <2>4
<1>5. f \in Bijection(S, T)
  <2> HIDE DEF f, S, T
  <2> QED BY <1>2, <1>3, <1>4, Zenon DEF Bijection, Injection, Surjection, IsInjective
<1> HIDE DEF f, S, T
<1>6. ExistsBijection(S, T)
  BY <1>5, Zenon DEF ExistsBijection
<1>7. IsFiniteSet(T) /\ Cardinality(T) = Cardinality(S)
  BY <1>6, FS_Bijection DEF S
<1> QED
  BY <1>7 DEF S, T

---------------------------------------------------------------------------
(* Insertion. *)

\* A table that is one node above the threshold has an entry per bucket at
\* most, so that growth indexes existing buckets.
LEMMA SizeWithinBuckets ==
    ASSUME NEW n \in Nat, n >= 2, NEW size \in Nat, 4 * size < 3 * n
    PROVE  /\ size + 1 <= n
           /\ 4 * (size + 1) < 3 * (n + BLOCKSIZE)
BY BlockSizeAssumption

LEMMA PushOK ==
    ASSUME NEW V, V \subseteq Variable, NEW t, TableOK(t, V),
           NEW var \in V
    PROVE  LET u == Push(t, var, t.scope)
           IN  /\ Fields(u, V)
               /\ Counted(u)
               /\ u.size = t.size + 1
               /\ u.scope = t.scope
               /\ u.blocks = t.blocks
<1> DEFINE u == Push(t, var, t.scope)
           b0 == Bucket(t, var.name)
           node == [prehash |-> Hash[var.name], var |-> var, scope |-> t.scope]
           ch == t.chains[b0]
<1>1. var.name \in Names /\ Hash[var.name] \in Nat
  BY HashAssumption DEF Variable
<1>2. b0 \in 0 .. BucketCount(t) - 1
  BY <1>1, BucketInRange DEF TableOK, Fields
<1>3. node \in NodeOver(V) /\ node.scope # SCOPE_DANGLING
  BY <1>1 DEF TableOK, Fields, NodeOver, SCOPE_DANGLING
<1>4. ch \in Seq(NodeOver(V))
  BY <1>2 DEF TableOK, Fields
<1> HIDE DEF node, b0
<1>5. /\ <<node>> \o ch \in Seq(NodeOver(V))
      /\ Len(<<node>> \o ch) = Len(ch) + 1
      /\ (<<node>> \o ch)[1] = node
      /\ \A i \in 1 .. Len(ch) : (<<node>> \o ch)[i + 1] = ch[i]
  <2>1. <<node>> \in Seq(NodeOver(V)) /\ Len(<<node>>) = 1 /\ <<node>>[1] = node
    BY <1>3
  <2>2. Len(ch) \in Nat
    BY <1>4, LenProperties
  <2> HIDE DEF ch
  <2>3. /\ <<node>> \o ch \in Seq(NodeOver(V))
        /\ Len(<<node>> \o ch) = 1 + Len(ch)
        /\ \A i \in 1 .. 1 + Len(ch) : (<<node>> \o ch)[i] =
              IF i <= 1 THEN <<node>>[i] ELSE ch[i - 1]
    BY <1>4, <2>1, ConcatProperties DEF ch
  <2>4. (<<node>> \o ch)[1] = node
    BY <2>1, <2>2, <2>3
  <2>5. \A i \in 1 .. Len(ch) : (<<node>> \o ch)[i + 1] = ch[i]
    BY <2>2, <2>3
  <2> QED BY <2>2, <2>3, <2>4, <2>5
<1>6. u = [t EXCEPT !.chains = [t.chains EXCEPT ![b0] = <<node>> \o ch],
                    !.size = t.size + 1]
  BY DEF Push, node, b0, TableOK, Fields
<1> HIDE DEF u
<1>7. Fields(u, V)
  <2>1. [t.chains EXCEPT ![b0] = <<node>> \o ch]
           \in [0 .. BucketCount(t) - 1 -> Seq(NodeOver(V))]
    BY <1>2, <1>5 DEF TableOK, Fields
  <2>2. BucketCount(u) = BucketCount(t)
    BY <1>6 DEF BucketCount, TableOK, Fields
  <2>3. /\ t.scope \in Nat /\ t.blocks \in Nat \ {0} /\ t.dangling \in Nat
        /\ t.size + 1 \in Nat
    BY DEF TableOK, Fields
  <2>4. u = [scope |-> t.scope, blocks |-> t.blocks, dangling |-> t.dangling,
             size |-> t.size + 1, chains |-> [t.chains EXCEPT ![b0] = <<node>> \o ch]]
    BY <1>6 DEF TableOK, Fields
  <2> DEFINE C == [t.chains EXCEPT ![b0] = <<node>> \o ch]
             n == BucketCount(t)
  <2> HIDE DEF C, n
  <2>5. C \in [0 .. n - 1 -> Seq(NodeOver(V))]
    BY <2>1 DEF C, n
  <2>6. u = [scope |-> t.scope, blocks |-> t.blocks, dangling |-> t.dangling,
             size |-> t.size + 1, chains |-> C]
    BY <2>4 DEF C
  <2> QED BY <2>2, <2>3, <2>5, <2>6 DEF Fields, n
<1>8. /\ u.size = t.size + 1 /\ u.scope = t.scope /\ u.blocks = t.blocks
      /\ u.dangling = t.dangling
      /\ u.chains = [t.chains EXCEPT ![b0] = <<node>> \o ch]
  BY <1>6 DEF TableOK, Fields
<1>9. /\ IsFiniteSet(DanglingNodes(u))
      /\ Cardinality(DanglingNodes(u)) = Cardinality(DanglingNodes(t))
  <2> DEFINE d == [b \in DOMAIN t.chains |-> IF b = b0 THEN 1 ELSE 0]
  <2>1. \A b \in DOMAIN t.chains : t.chains[b] \in Seq(NodeOver(V))
    BY DEF TableOK, Fields
  <2>2. \A b \in DOMAIN t.chains :
           Len(t.chains[b]) \in Nat /\ DOMAIN t.chains[b] = 1 .. Len(t.chains[b])
    BY <2>1, LenProperties
  <2>3. DOMAIN u.chains = DOMAIN t.chains
    BY <1>8
  <2>4. \A b \in DOMAIN t.chains : u.chains[b] = IF b = b0 THEN <<node>> \o ch
                                                          ELSE t.chains[b]
    BY <1>8
  <2>5. DOMAIN (<<node>> \o ch) = 1 .. Len(ch) + 1
    BY <1>5, LenProperties
  <2>6. \A b \in DOMAIN t.chains : \A i \in DOMAIN t.chains[b] :
           t.chains[b][i].scope = SCOPE_DANGLING =>
              /\ i + d[b] \in DOMAIN u.chains[b]
              /\ u.chains[b][i + d[b]].scope = SCOPE_DANGLING
    <3> SUFFICES ASSUME NEW b \in DOMAIN t.chains, NEW i \in DOMAIN t.chains[b],
                        t.chains[b][i].scope = SCOPE_DANGLING
                 PROVE  /\ i + d[b] \in DOMAIN u.chains[b]
                        /\ u.chains[b][i + d[b]].scope = SCOPE_DANGLING
      OBVIOUS
    <3>1. CASE b = b0
      <4>1. i \in 1 .. Len(ch) /\ d[b] = 1 /\ ch[i].scope = SCOPE_DANGLING
        BY <3>1, <2>2
      <4>2. (<<node>> \o ch)[i + 1] = ch[i]
        BY <4>1, <1>5
      <4>3. i + 1 \in 1 .. Len(ch) + 1
        BY <4>1, <3>1, <2>2
      <4> QED BY <3>1, <4>1, <4>2, <4>3, <2>4, <2>5
    <3>2. CASE b # b0
      BY <3>2, <2>2, <2>4
    <3> QED BY <3>1, <3>2
  <2>7. \A b \in DOMAIN t.chains : \A j \in DOMAIN u.chains[b] :
           u.chains[b][j].scope = SCOPE_DANGLING =>
              /\ j - d[b] \in DOMAIN t.chains[b]
              /\ t.chains[b][j - d[b]].scope = SCOPE_DANGLING
    <3> SUFFICES ASSUME NEW b \in DOMAIN t.chains, NEW j \in DOMAIN u.chains[b],
                        u.chains[b][j].scope = SCOPE_DANGLING
                 PROVE  /\ j - d[b] \in DOMAIN t.chains[b]
                        /\ t.chains[b][j - d[b]].scope = SCOPE_DANGLING
      OBVIOUS
    <3>1. CASE b = b0
      <4>1. j \in 1 .. Len(ch) + 1 /\ j # 1
        BY <3>1, <2>4, <2>5, <1>3, <1>5
      <4>2. j - 1 \in 1 .. Len(ch) /\ (j - 1) + 1 = j
        BY <3>1, <4>1, <2>2
      <4>3. u.chains[b][j] = ch[j - 1]
        BY <3>1, <4>2, <1>5, <2>4
      <4> QED BY <3>1, <4>2, <4>3, <2>2
    <3>2. CASE b # b0
      BY <3>2, <2>2, <2>4
    <3> QED BY <3>1, <3>2
  <2>8. d \in [DOMAIN t.chains -> Int]
    OBVIOUS
  <2>9. \A b \in DOMAIN t.chains : /\ DOMAIN t.chains[b] \subseteq Int
                                   /\ DOMAIN u.chains[b] \subseteq Int
    <3> TAKE b \in DOMAIN t.chains
    <3>1. DOMAIN t.chains[b] \subseteq Int
      BY <2>2
    <3>2. CASE b = b0
      <4>1. u.chains[b] = <<node>> \o ch
        BY <3>2, <2>4
      <4>2. DOMAIN u.chains[b] = 1 .. Len(ch) + 1 /\ Len(ch) \in Nat
        BY <3>2, <4>1, <2>2, <2>5
      <4> QED BY <3>1, <4>2
    <3>3. CASE b # b0
      BY <3>1, <3>3, <2>4
    <3> QED BY <3>2, <3>3
  <2>10. IsFiniteSet(DanglingNodes(t))
    BY DEF TableOK, Counted
  <2> HIDE DEF d
  <2> QED BY <2>3, <2>6, <2>7, <2>8, <2>9, <2>10, ShiftKeepsCount
<1>10. Counted(u)
  BY <1>8, <1>9 DEF Counted, TableOK
<1> QED
  BY <1>7, <1>8, <1>10 DEF u

\* Growth of a table that has just passed the threshold: it may lose dangling
\* nodes, it never has more.
LEMMA GrowOK ==
    ASSUME NEW V, NEW t, Fields(t, V), Counted(t),
           t.size <= BucketCount(t),
           4 * t.size < 3 * (BucketCount(t) + BLOCKSIZE)
    PROVE  TableOK(Grow(t), V) /\ Grow(t).scope = t.scope
<1>1. CASE 4 * t.size < 3 * BucketCount(t)
  BY <1>1 DEF Grow, TableOK, LoadBelowThreshold
<1>2. CASE ~(4 * t.size < 3 * BucketCount(t))
  <2> DEFINE u == Grow(t)
             C == [b \in 0 .. (t.blocks + 1) * BLOCKSIZE - 1 |->
                      IF b < t.size THEN t.chains[b] ELSE << >>]
             n == BucketCount(t)
             m == (t.blocks + 1) * BLOCKSIZE
  <2>1. /\ t.scope \in Nat /\ t.blocks \in Nat \ {0} /\ t.dangling \in Nat
        /\ t.size \in Nat
        /\ t.chains \in [0 .. n - 1 -> Seq(NodeOver(V))]
    BY DEF Fields
  <2>2. n \in Nat /\ m = n + BLOCKSIZE
    BY <2>1, BlocksArithmetic DEF BucketCount
  <2>3. u = [scope |-> t.scope, blocks |-> t.blocks + 1, dangling |-> t.dangling,
             size |-> t.size, chains |-> C]
    BY <1>2 DEF Grow, Fields
  <2>4. << >> \in Seq(NodeOver(V))
    OBVIOUS
  <2> HIDE DEF n
  <2>5. C \in [0 .. m - 1 -> Seq(NodeOver(V))]
    <3>1. \A b \in 0 .. m - 1 : b < t.size => b \in 0 .. n - 1
      BY <2>1, <2>2, BlockSizeAssumption DEF n
    <3> HIDE DEF m
    <3> QED BY <3>1, <2>1, <2>4 DEF m
  <2>6. BucketCount(u) = m /\ u.blocks = t.blocks + 1 /\ u.dangling = t.dangling
        /\ u.chains = C /\ u.scope = t.scope /\ u.size = t.size
    BY <2>3 DEF BucketCount
  <2> HIDE DEF C, m, u
  <2>7. Fields(u, V)
    BY <2>1, <2>3, <2>5, <2>6 DEF Fields
  <2>8. LoadBelowThreshold(u)
    BY <2>2, <2>6 DEF LoadBelowThreshold, n
  <2>9. DanglingNodes(u) \subseteq DanglingNodes(t)
    <3> SUFFICES ASSUME NEW p \in DanglingNodes(u)
                 PROVE  p \in DanglingNodes(t)
      OBVIOUS
    <3>1. /\ p[1] \in DOMAIN C
          /\ p[2] \in DOMAIN C[p[1]]
          /\ C[p[1]][p[2]].scope = SCOPE_DANGLING
          /\ p = <<p[1], p[2]>>
      BY <2>6, DanglingNodesArePairs
    <3>2. p[1] \in 0 .. m - 1
      BY <3>1, <2>5
    <3>3. C[p[1]] = IF p[1] < t.size THEN t.chains[p[1]] ELSE << >>
      BY <3>2 DEF C, m
    <3>4. p[1] < t.size
      BY <3>1, <3>3
    <3>5. p[1] \in DOMAIN t.chains
      BY <3>2, <3>4, <2>1, <2>2 DEF n
    <3> QED BY <3>1, <3>3, <3>4, <3>5, DanglingNodesDef
  <2>10. /\ IsFiniteSet(DanglingNodes(u))
         /\ Cardinality(DanglingNodes(u)) <= Cardinality(DanglingNodes(t))
    BY <2>9, FS_Subset DEF Counted
  <2>11. Counted(u)
    <3>1. Cardinality(DanglingNodes(u)) \in Nat /\ Cardinality(DanglingNodes(t)) \in Nat
      BY <2>10, FS_CardinalityType DEF Counted
    <3>2. Cardinality(DanglingNodes(t)) <= t.dangling
      BY DEF Counted
    <3>3. Cardinality(DanglingNodes(u)) <= u.dangling
      BY <3>1, <3>2, <2>1, <2>6, <2>10
    <3>4. u.blocks # 1
      BY <2>1, <2>6
    <3> QED BY <3>3, <3>4, <2>10 DEF Counted
  <2> QED BY <2>6, <2>7, <2>8, <2>11 DEF TableOK, u
<1> QED
  BY <1>1, <1>2

\* insert_variable keeps the table invariant, whatever it answers.
LEMMA InsertVariableOK ==
    ASSUME NEW V, V \subseteq Variable, NEW t, TableOK(t, V), NEW var \in V
    PROVE  LET r == insert_variable(t, var)
           IN  /\ TableOK(r.tab, V)
               /\ r.tab.scope = t.scope
               /\ r.status \in {"SUCCESS", "MULTIPLE_DECLARATION"}
               /\ r = [tab |-> r.tab, status |-> r.status]
<1> DEFINE r == insert_variable(t, var)
           u == Push(t, var, t.scope)
           n == BucketCount(t)
<1>1. TableOK(Grow(u), V) /\ Grow(u).scope = t.scope
  <2>1. /\ Fields(u, V) /\ Counted(u) /\ u.size = t.size + 1
        /\ u.scope = t.scope /\ u.blocks = t.blocks
    BY PushOK
  <2> HIDE DEF u
  <2>2. BucketCount(u) = n
    BY <2>1 DEF BucketCount
  <2>3. n \in Nat /\ n >= 2
    BY BlocksArithmetic DEF TableOK, Fields, BucketCount
  <2>4. t.size \in Nat /\ 4 * t.size < 3 * n
    BY DEF TableOK, Fields, LoadBelowThreshold
  <2> HIDE DEF n
  <2>5. t.size + 1 <= n /\ 4 * (t.size + 1) < 3 * (n + BLOCKSIZE)
    BY <2>3, <2>4, SizeWithinBuckets
  <2> QED BY <2>1, <2>2, <2>5, GrowOK
<1> HIDE DEF u
<1>2. \/ r = [tab |-> t, status |-> "MULTIPLE_DECLARATION"]
      \/ r = [tab |-> Grow(u), status |-> "SUCCESS"]
  BY DEF insert_variable, u
<1> QED
  BY <1>1, <1>2

---------------------------------------------------------------------------
(* Dangling variables. *)

\* Marking one node moves it into, or out of, the dangling nodes.
LEMMA SetScopeOK ==
    ASSUME NEW V, NEW t, Fields(t, V), NEW name \in Names,
           NEW i \in 1 .. Len(Chain(t, name)), NEW scope \in Int
    PROVE  LET u == SetScope(t, name, i, scope)
               p == <<Bucket(t, name), i>>
           IN  /\ Fields(u, V)
               /\ u = [t EXCEPT !.chains = u.chains]
               /\ DanglingNodes(u) =
                     IF scope = SCOPE_DANGLING THEN DanglingNodes(t) \cup {p}
                                               ELSE DanglingNodes(t) \ {p}
<1> DEFINE u == SetScope(t, name, i, scope)
           b0 == Bucket(t, name)
           ch == t.chains[b0]
           node == [ch[i] EXCEPT !.scope = scope]
           ch2 == [ch EXCEPT ![i] = node]
           C == [t.chains EXCEPT ![b0] = ch2]
<1>1. b0 \in 0 .. BucketCount(t) - 1
  BY BucketInRange DEF Fields
<1>2. ch \in Seq(NodeOver(V)) /\ i \in 1 .. Len(ch)
  BY <1>1 DEF Fields, Chain
<1>3. node \in NodeOver(V) /\ node.scope = scope
  <2>1. ch[i] \in NodeOver(V)
    BY <1>2, ElementOfSeq
  <2> QED BY <2>1 DEF NodeOver
<1> HIDE DEF node, b0
<1>4. /\ ch2 \in Seq(NodeOver(V)) /\ DOMAIN ch2 = DOMAIN ch
      /\ \A j \in DOMAIN ch : ch2[j] = IF j = i THEN node ELSE ch[j]
      /\ i \in DOMAIN ch
  <2> HIDE DEF ch
  <2>1. DOMAIN ch = 1 .. Len(ch)
    BY <1>2, LenProperties
  <2>2. /\ ch2 \in Seq(NodeOver(V)) /\ Len(ch2) = Len(ch)
        /\ \A j \in 1 .. Len(ch) : ch2[j] = IF j = i THEN node ELSE ch[j]
    BY <1>2, <1>3, ExceptSeq
  <2> QED BY <1>2, <2>1, <2>2
<1>5. u = [t EXCEPT !.chains = C]
  BY DEF SetScope, b0, node
<1>6. C \in [0 .. BucketCount(t) - 1 -> Seq(NodeOver(V))]
  <2> HIDE DEF ch2
  <2> QED BY <1>1, <1>4 DEF Fields
<1>7. DOMAIN t.chains = 0 .. BucketCount(t) - 1
  BY DEF Fields
<1>8. \A b \in DOMAIN t.chains : C[b] = IF b = b0 THEN ch2 ELSE t.chains[b]
  <2> HIDE DEF ch2
  <2> QED BY <1>7
<1> HIDE DEF C, ch2
<1>9. /\ u.chains = C /\ BucketCount(u) = BucketCount(t)
      /\ u = [scope |-> t.scope, blocks |-> t.blocks, dangling |-> t.dangling,
              size |-> t.size, chains |-> C]
  BY <1>5 DEF Fields, BucketCount
<1> HIDE DEF u
<1>10. Fields(u, V)
  BY <1>6, <1>9 DEF Fields
<1>11. u = [t EXCEPT !.chains = u.chains]
  BY <1>5, <1>9
<1>12. DOMAIN u.chains = DOMAIN t.chains
  BY <1>6, <1>7, <1>9
<1>13. \A p : p \in DanglingNodes(u) <=>
          p \in (IF scope = SCOPE_DANGLING THEN DanglingNodes(t) \cup {<<b0, i>>}
                                           ELSE DanglingNodes(t) \ {<<b0, i>>})
  <2>1. \A b \in DOMAIN t.chains : \A j :
           <<b, j>> \in DanglingNodes(u) <=>
              IF b = b0 /\ j = i THEN scope = SCOPE_DANGLING
                                 ELSE <<b, j>> \in DanglingNodes(t)
    <3> TAKE b \in DOMAIN t.chains
    <3> TAKE j
    <3>1. <<b, j>> \in DanglingNodes(u) <=>
             j \in DOMAIN C[b] /\ C[b][j].scope = SCOPE_DANGLING
      BY <1>9, <1>12, DanglingNodesDef
    <3>2. <<b, j>> \in DanglingNodes(t) <=>
             j \in DOMAIN t.chains[b] /\ t.chains[b][j].scope = SCOPE_DANGLING
      BY DanglingNodesDef
    <3>3. CASE b # b0
      BY <3>1, <3>2, <3>3, <1>8
    <3>4. CASE b = b0
      BY <3>1, <3>2, <3>4, <1>3, <1>4, <1>8
    <3> QED BY <3>3, <3>4
  <2>2. b0 \in DOMAIN t.chains
    BY <1>1, <1>7
  <2>3. \A p \in DanglingNodes(u) : p[1] \in DOMAIN t.chains /\ p = <<p[1], p[2]>>
    BY <1>12, DanglingNodesArePairs
  <2>4. \A p \in DanglingNodes(t) : p[1] \in DOMAIN t.chains /\ p = <<p[1], p[2]>>
    BY DanglingNodesArePairs
  <2> TAKE p
  <2>5. ASSUME p \in DanglingNodes(u)
        PROVE  p \in (IF scope = SCOPE_DANGLING
                      THEN DanglingNodes(t) \cup {<<b0, i>>}
                      ELSE DanglingNodes(t) \ {<<b0, i>>})
    BY <2>1, <2>3, <2>5
  <2>6. ASSUME p \in (IF scope = SCOPE_DANGLING
                      THEN DanglingNodes(t) \cup {<<b0, i>>}
                      ELSE DanglingNodes(t) \ {<<b0, i>>})
        PROVE  p \in DanglingNodes(u)
    <3>1. CASE p = <<b0, i>>
      BY <2>1, <2>2, <2>6, <3>1
    <3>2. CASE p # <<b0, i>>
      BY <2>1, <2>4, <2>6, <3>2
    <3> QED BY <3>1, <3>2
  <2> QED BY <2>5, <2>6
<1> QED
  BY <1>10, <1>11, <1>13 DEF u, b0

\* insert_dangling_variable adds one dangling node and counts it.
LEMMA InsertDanglingOK ==
    ASSUME NEW V, V \subseteq Variable, NEW t, TableOK(t, V), NEW var \in V
    PROVE  LET r == insert_dangling_variable(t, var)
           IN  /\ TableOK(r.tab, V)
               /\ r.status \in {"SUCCESS", "MULTIPLE_DECLARATION", "NULL_DEREFERENCE"}
               /\ r = [tab |-> r.tab, status |-> r.status]
<1> DEFINE r == insert_variable(t, var)
           q == insert_dangling_variable(t, var)
           i == lookup_node_in_scope(r.tab, var.name, r.tab.scope)
           marked == SetScope(r.tab, var.name, i, SCOPE_DANGLING)
           u == [marked EXCEPT !.dangling = @ + 1]
<1>1. /\ TableOK(r.tab, V) /\ r.tab.scope = t.scope
      /\ r.status \in {"SUCCESS", "MULTIPLE_DECLARATION"}
      /\ r = [tab |-> r.tab, status |-> r.status]
  BY InsertVariableOK
<1>2. var.name \in Names
  BY DEF Variable
<1> HIDE DEF r
<1>3. q = IF r.status # "SUCCESS" THEN r
          ELSE IF i = 0 THEN [tab |-> r.tab, status |-> "NULL_DEREFERENCE"]
          ELSE [tab |-> u, status |-> "SUCCESS"]
  BY DEF insert_dangling_variable, r
<1>4. ASSUME i # 0 PROVE TableOK(u, V)
  <2> DEFINE p == <<Bucket(r.tab, var.name), i>>
  <2>1. /\ i \in 1 .. Len(Chain(r.tab, var.name))
        /\ Chain(r.tab, var.name)[i].scope = r.tab.scope
    BY <1>1, <1>2, <1>4, LookupNode DEF TableOK
  <2>2. p \notin DanglingNodes(r.tab)
    <3>1. r.tab.scope # SCOPE_DANGLING
      BY <1>1 DEF TableOK, Fields, SCOPE_DANGLING
    <3> QED BY <2>1, <3>1, DanglingNodesDef DEF Chain
  <2> HIDE DEF i
  <2>3. SCOPE_DANGLING \in Int
    BY DEF SCOPE_DANGLING
  <2>4. /\ Fields(marked, V)
        /\ marked = [r.tab EXCEPT !.chains = marked.chains]
        /\ DanglingNodes(marked) = DanglingNodes(r.tab) \cup {p}
    BY <1>1, <1>2, <2>1, <2>3, SetScopeOK DEF TableOK
  <2> HIDE DEF p, marked
  <2>5. /\ Cardinality(DanglingNodes(marked)) = Cardinality(DanglingNodes(r.tab)) + 1
        /\ IsFiniteSet(DanglingNodes(marked))
    BY <1>1, <2>2, <2>4, FS_AddElement DEF TableOK, Counted
  <2>6. /\ u.chains = marked.chains /\ u.dangling = r.tab.dangling + 1
        /\ u.blocks = r.tab.blocks /\ u.size = r.tab.size
        /\ BucketCount(u) = BucketCount(r.tab)
    BY <1>1, <2>4 DEF TableOK, Fields, BucketCount
  <2>7. DanglingNodes(u) = DanglingNodes(marked)
    BY <2>6 DEF DanglingNodes
  <2>8. Fields(u, V)
    BY <2>4 DEF Fields, BucketCount
  <2>9. Cardinality(DanglingNodes(r.tab)) \in Nat
    BY <1>1, FS_CardinalityType DEF TableOK, Counted
  <2>10. Counted(u)
    BY <1>1, <2>5, <2>6, <2>7, <2>9 DEF TableOK, Counted, Fields
  <2>11. LoadBelowThreshold(u)
    BY <1>1, <2>6 DEF TableOK, LoadBelowThreshold
  <2> QED BY <2>8, <2>10, <2>11 DEF TableOK
<1> HIDE DEF u, i, q
<1> QED
  <2>1. CASE r.status # "SUCCESS"
    BY <1>1, <1>3, <2>1 DEF q
  <2>2. CASE r.status = "SUCCESS" /\ i = 0
    BY <1>1, <1>3, <2>2 DEF q
  <2>3. CASE r.status = "SUCCESS" /\ i # 0
    BY <1>3, <1>4, <2>3 DEF q
  <2> QED BY <2>1, <2>2, <2>3

\* assign_scope_to_dangling_variable takes away at most one, and counts it.
LEMMA AssignScopeOK ==
    ASSUME NEW V, V \subseteq Variable, NEW t, TableOK(t, V),
           NEW var \in V \cup {NULL}
    PROVE  /\ TableOK(assign_scope_to_dangling_variable(t, var), V)
           /\ assign_scope_to_dangling_variable(t, var).scope = t.scope
<1>1. CASE ~is_dangling(t, var)
  BY <1>1 DEF assign_scope_to_dangling_variable
<1>2. CASE is_dangling(t, var)
  <2> DEFINE i == lookup_node_in_scope(t, var.name, SCOPE_DANGLING)
             p == <<Bucket(t, var.name), i>>
             bound == SetScope(t, var.name, i, t.scope)
             u == [bound EXCEPT !.dangling = @ - 1]
  <2>1. i # 0 /\ var.name \in Names
    BY <1>2 DEF is_dangling, lookup_dangling_variable, lookup_variable_in_scope, Variable
  <2>2. /\ i \in 1 .. Len(Chain(t, var.name))
        /\ Chain(t, var.name)[i].scope = SCOPE_DANGLING
    BY <2>1, LookupNode DEF TableOK
  <2>3. p \in DanglingNodes(t)
    <3>1. Bucket(t, var.name) \in DOMAIN t.chains
      BY <2>1, BucketInRange DEF TableOK, Fields
    <3>2. i \in DOMAIN Chain(t, var.name)
      BY <2>1, <2>2, ChainType DEF TableOK
    <3> QED BY <2>2, <3>1, <3>2, DanglingNodesDef DEF Chain
  <2>4. assign_scope_to_dangling_variable(t, var) = u
    BY <1>2 DEF assign_scope_to_dangling_variable
  <2> HIDE DEF i
  <2>5. t.scope \in Int /\ t.scope # SCOPE_DANGLING
    BY DEF TableOK, Fields, SCOPE_DANGLING
  <2>6. /\ Fields(bound, V)
        /\ bound = [t EXCEPT !.chains = bound.chains]
        /\ DanglingNodes(bound) = DanglingNodes(t) \ {p}
    BY <2>1, <2>2, <2>5, SetScopeOK DEF TableOK
  <2> HIDE DEF p, bound
  <2>7. /\ IsFiniteSet(DanglingNodes(bound))
        /\ Cardinality(DanglingNodes(bound)) = Cardinality(DanglingNodes(t)) - 1
    BY <2>3, <2>6, FS_RemoveElement DEF TableOK, Counted
  <2>8. Cardinality(DanglingNodes(t)) \in Nat /\ Cardinality(DanglingNodes(bound)) \in Nat
    BY <2>7, FS_CardinalityType DEF TableOK, Counted
  <2>9. t.dangling \in Nat /\ t.dangling - 1 \in Nat
    BY <2>7, <2>8 DEF TableOK, Counted, Fields
  <2>10. /\ u.chains = bound.chains /\ u.dangling = t.dangling - 1
         /\ u.blocks = t.blocks /\ u.size = t.size /\ u.scope = t.scope
         /\ BucketCount(u) = BucketCount(t)
    BY <2>6 DEF TableOK, Fields, BucketCount
  <2>11. DanglingNodes(u) = DanglingNodes(bound)
    BY <2>10 DEF DanglingNodes
  <2>12. Fields(u, V)
    <3>1. bound.dangling = t.dangling
      BY <2>6 DEF TableOK, Fields
    <3> QED BY <2>6, <2>9, <3>1 DEF Fields, BucketCount
  <2>13. Counted(u)
    BY <2>7, <2>8, <2>9, <2>10, <2>11 DEF TableOK, Counted
  <2>14. LoadBelowThreshold(u)
    BY <2>10 DEF TableOK, LoadBelowThreshold
  <2> HIDE DEF u
  <2> QED BY <2>4, <2>10, <2>12, <2>13, <2>14 DEF TableOK
<1> QED
  BY <1>1, <1>2

---------------------------------------------------------------------------
(* Scopes. *)

\* The rest of the chain after d nodes of the scope.
IsCut(chain, rest, d, scope) ==
    /\ d <= Len(chain)
    /\ DOMAIN rest = 1 .. Len(chain) - d
    /\ \A i \in 1 .. d : chain[i].scope = scope
    /\ \A i \in 1 .. Len(chain) - d : rest[i] = chain[i + d]

\* prev_scope cuts a prefix off a chain, all of it of the scope it closes.
LEMMA PopScopeCuts ==
    ASSUME NEW S, NEW chain \in Seq(S), NEW scope
    PROVE  /\ PopScope(chain, scope) \in Seq(S)
           /\ \E d \in Nat : IsCut(chain, PopScope(chain, scope), d, scope)
<1> DEFINE kept == {i \in DOMAIN chain : chain[i].scope # scope}
           n == Len(chain)
<1>1. n \in Nat /\ DOMAIN chain = 1 .. n
  BY LenProperties
<1>2. CASE kept = {}
  <2>1. PopScope(chain, scope) = << >>
    BY <1>2 DEF PopScope
  <2>2. IsCut(chain, PopScope(chain, scope), n, scope)
    BY <1>1, <1>2, <2>1 DEF IsCut
  <2> QED BY <1>1, <2>1, <2>2
<1>3. CASE kept # {}
  <2> DEFINE m == Min(kept)
             d == m - 1
  <2>1. m \in kept /\ \A i \in kept : m <= i
    <3>1. kept \in SUBSET Nat
      BY <1>1
    <3> HIDE DEF kept
    <3> QED BY <1>3, <3>1, MinIsLeast
  <2>2. m \in 1 .. n
    BY <1>1, <2>1
  <2>3. PopScope(chain, scope) = SubSeq(chain, m, n)
    BY <1>3 DEF PopScope
  <2> HIDE DEF m
  <2>4. \A i \in m .. n : chain[i] \in S
    BY <1>1, <2>2, ElementOfSeq
  <2>5. /\ SubSeq(chain, m, n) \in Seq(S)
        /\ Len(SubSeq(chain, m, n)) = n - m + 1
        /\ \A i \in 1 .. n - m + 1 : SubSeq(chain, m, n)[i] = chain[m + i - 1]
    BY <1>1, <2>2, <2>4, SubSeqProperties
  <2>6. d \in Nat /\ d <= n /\ n - m + 1 = n - d
    BY <1>1, <2>2
  <2>7. \A i \in 1 .. d : chain[i].scope = scope
    BY <1>1, <2>1, <2>2
  <2>8. DOMAIN SubSeq(chain, m, n) = 1 .. n - d
    BY <2>5, <2>6, LenProperties
  <2>9. \A i \in 1 .. n - d : SubSeq(chain, m, n)[i] = chain[i + d]
    <3> TAKE i \in 1 .. n - d
    <3>1. m + i - 1 = i + d /\ i \in 1 .. n - m + 1
      BY <1>1, <2>2, <2>6
    <3> QED BY <2>5, <3>1
  <2>10. IsCut(chain, PopScope(chain, scope), d, scope)
    BY <2>3, <2>6, <2>7, <2>8, <2>9 DEF IsCut
  <2> QED BY <2>3, <2>5, <2>6, <2>10
<1> QED
  BY <1>2, <1>3

LEMMA NextScopeOK ==
    ASSUME NEW V, NEW t, TableOK(t, V)
    PROVE  TableOK(next_scope(t), V) /\ next_scope(t).scope = t.scope + 1
<1> DEFINE u == next_scope(t)
<1>1. /\ u.scope = t.scope + 1 /\ u.blocks = t.blocks /\ u.dangling = t.dangling
      /\ u.size = t.size /\ u.chains = t.chains /\ BucketCount(u) = BucketCount(t)
  BY DEF next_scope, TableOK, Fields, BucketCount
<1>2. Fields(u, V)
  BY DEF next_scope, TableOK, Fields, BucketCount
<1>3. DanglingNodes(u) = DanglingNodes(t)
  BY <1>1 DEF DanglingNodes
<1> HIDE DEF u
<1>4. TableOK(u, V)
  BY <1>1, <1>2, <1>3 DEF TableOK, Counted, LoadBelowThreshold
<1> QED
  BY <1>1, <1>4 DEF u

\* Closing a scope loses no dangling node.
LEMMA PrevScopeOK ==
    ASSUME NEW V, NEW t, TableOK(t, V)
    PROVE  TableOK(prev_scope(t), V)
<1> DEFINE u == prev_scope(t)
           C == [b \in DOMAIN t.chains |->
                    IF b < t.size THEN PopScope(t.chains[b], t.scope) ELSE t.chains[b]]
           s == IF t.scope > 0 THEN t.scope - 1 ELSE t.scope
<1>1. /\ t.scope \in Nat /\ t.blocks \in Nat \ {0} /\ t.dangling \in Nat
      /\ t.size \in Nat
      /\ t.chains \in [0 .. BucketCount(t) - 1 -> Seq(NodeOver(V))]
  BY DEF TableOK, Fields
<1>2. u = [scope |-> s, blocks |-> t.blocks, dangling |-> t.dangling,
           size |-> t.size, chains |-> C]
  <2>1. u = [t EXCEPT !.chains = C, !.scope = s]
    BY DEF prev_scope
  <2> HIDE DEF u, C, s
  <2> QED BY <2>1 DEF TableOK, Fields
<1>3. s \in Nat
  BY <1>1
<1>4. C \in [0 .. BucketCount(t) - 1 -> Seq(NodeOver(V))]
  BY <1>1, PopScopeCuts
<1> HIDE DEF s
<1>5. /\ u.chains = C /\ u.blocks = t.blocks /\ u.dangling = t.dangling
      /\ u.size = t.size /\ BucketCount(u) = BucketCount(t)
  BY <1>2 DEF BucketCount
<1>6. \A b \in DOMAIN t.chains :
         \E d \in Int :
            /\ \A i \in DOMAIN t.chains[b] :
                  t.chains[b][i].scope = SCOPE_DANGLING =>
                     /\ i + d \in DOMAIN C[b]
                     /\ C[b][i + d].scope = SCOPE_DANGLING
            /\ \A j \in DOMAIN C[b] :
                  C[b][j].scope = SCOPE_DANGLING =>
                     /\ j - d \in DOMAIN t.chains[b]
                     /\ t.chains[b][j - d].scope = SCOPE_DANGLING
  <2> TAKE b \in DOMAIN t.chains
  <2> DEFINE chain == t.chains[b]
             n == Len(chain)
  <2>1. chain \in Seq(NodeOver(V)) /\ n \in Nat /\ DOMAIN chain = 1 .. n
    BY <1>1, LenProperties
  <2>2. CASE b < t.size
    <3>1. C[b] = PopScope(chain, t.scope)
      BY <2>2
    <3>2. t.scope # SCOPE_DANGLING
      BY <1>1 DEF SCOPE_DANGLING
    <3> HIDE DEF C, chain
    <3>3. PICK d \in Nat : IsCut(chain, C[b], d, t.scope)
      BY <2>1, <3>1, PopScopeCuts
    <3>4. /\ d <= n /\ DOMAIN C[b] = 1 .. n - d
          /\ \A i \in 1 .. d : chain[i].scope = t.scope
          /\ \A i \in 1 .. n - d : C[b][i] = chain[i + d]
      BY <3>3 DEF IsCut
    <3> HIDE DEF n
    <3>5. \A i \in DOMAIN chain : chain[i].scope = SCOPE_DANGLING =>
             /\ i + (-d) \in DOMAIN C[b]
             /\ C[b][i + (-d)].scope = SCOPE_DANGLING
      <4> SUFFICES ASSUME NEW i \in 1 .. n, chain[i].scope = SCOPE_DANGLING
                   PROVE  /\ i + (-d) \in DOMAIN C[b]
                          /\ C[b][i + (-d)].scope = SCOPE_DANGLING
        BY <2>1
      <4>1. ~(i \in 1 .. d)
        BY <3>2, <3>4
      <4> DEFINE k == i - d
      <4>2. k \in 1 .. n - d /\ k + d = i /\ i + (-d) = k
        BY <2>1, <4>1
      <4> HIDE DEF k
      <4>3. C[b][k] = chain[k + d]
        BY <3>4, <4>2
      <4> QED BY <3>4, <4>2, <4>3
    <3>6. \A j \in DOMAIN C[b] : C[b][j].scope = SCOPE_DANGLING =>
             /\ j - (-d) \in DOMAIN chain
             /\ chain[j - (-d)].scope = SCOPE_DANGLING
      <4> SUFFICES ASSUME NEW j \in 1 .. n - d, C[b][j].scope = SCOPE_DANGLING
                   PROVE  /\ j - (-d) \in DOMAIN chain
                          /\ chain[j - (-d)].scope = SCOPE_DANGLING
        BY <3>4
      <4> DEFINE k == j + d
      <4>1. j - (-d) = k /\ k \in 1 .. n
        BY <2>1, <3>4
      <4>2. C[b][j] = chain[k]
        BY <3>4
      <4> HIDE DEF k
      <4> QED BY <2>1, <4>1, <4>2
    <3>7. -d \in Int
      OBVIOUS
    <3> QED BY <3>5, <3>6, <3>7 DEF chain
  <2>3. CASE ~(b < t.size)
    <3>1. C[b] = chain
      BY <2>3
    <3> HIDE DEF C, chain
    <3>2. \A i \in DOMAIN chain : i + 0 = i /\ i - 0 = i
      BY <2>1
    <3>3. /\ \A i \in DOMAIN chain :
                chain[i].scope = SCOPE_DANGLING =>
                   /\ i + 0 \in DOMAIN C[b]
                   /\ C[b][i + 0].scope = SCOPE_DANGLING
          /\ \A j \in DOMAIN C[b] :
                C[b][j].scope = SCOPE_DANGLING =>
                   /\ j - 0 \in DOMAIN chain
                   /\ chain[j - 0].scope = SCOPE_DANGLING
      BY <3>1, <3>2
    <3> QED BY <3>3 DEF chain
  <2> QED BY <2>2, <2>3
<1> DEFINE Shifts(b, d) ==
              /\ \A i \in DOMAIN t.chains[b] :
                    t.chains[b][i].scope = SCOPE_DANGLING =>
                       /\ i + d \in DOMAIN u.chains[b]
                       /\ u.chains[b][i + d].scope = SCOPE_DANGLING
              /\ \A j \in DOMAIN u.chains[b] :
                    u.chains[b][j].scope = SCOPE_DANGLING =>
                       /\ j - d \in DOMAIN t.chains[b]
                       /\ t.chains[b][j - d].scope = SCOPE_DANGLING
           shift == [b \in DOMAIN t.chains |-> CHOOSE d \in Int : Shifts(b, d)]
<1> HIDE DEF u, C
<1>7. \A b \in DOMAIN t.chains : shift[b] \in Int /\ Shifts(b, shift[b])
  <2> TAKE b \in DOMAIN t.chains
  <2>1. \E d \in Int : Shifts(b, d)
    BY <1>5, <1>6
  <2> HIDE DEF Shifts
  <2>2. shift[b] = CHOOSE d \in Int : Shifts(b, d)
    OBVIOUS
  <2> QED BY <2>1, <2>2
<1>8. /\ IsFiniteSet(DanglingNodes(u))
      /\ Cardinality(DanglingNodes(u)) = Cardinality(DanglingNodes(t))
  <2>1. DOMAIN u.chains = DOMAIN t.chains
    BY <1>1, <1>4, <1>5
  <2>2. \A b \in DOMAIN t.chains : /\ DOMAIN t.chains[b] \subseteq Int
                                   /\ DOMAIN u.chains[b] \subseteq Int
    <3> TAKE b \in DOMAIN t.chains
    <3>1. t.chains[b] \in Seq(NodeOver(V)) /\ u.chains[b] \in Seq(NodeOver(V))
      BY <1>1, <1>4, <1>5
    <3>2. /\ DOMAIN t.chains[b] = 1 .. Len(t.chains[b])
          /\ DOMAIN u.chains[b] = 1 .. Len(u.chains[b])
          /\ Len(t.chains[b]) \in Nat /\ Len(u.chains[b]) \in Nat
      BY <3>1, LenProperties
    <3> QED BY <3>2
  <2>3. IsFiniteSet(DanglingNodes(t))
    BY DEF TableOK, Counted
  <2>4. shift \in [DOMAIN t.chains -> Int]
    BY <1>7
  <2> HIDE DEF shift
  <2> QED BY <1>7, <2>1, <2>2, <2>3, <2>4, ShiftKeepsCount
<1>9. Fields(u, V)
  BY <1>1, <1>2, <1>3, <1>4, <1>5 DEF Fields
<1>10. Counted(u)
  BY <1>5, <1>8 DEF Counted, TableOK
<1>11. LoadBelowThreshold(u)
  BY <1>5 DEF LoadBelowThreshold, TableOK
<1> QED
  BY <1>9, <1>10, <1>11 DEF TableOK, u

---------------------------------------------------------------------------
(* Initialisation. *)

LEMMA EmptyTableOK ==
    ASSUME NEW V
    PROVE  TableOK(EmptyTable, V)
<1>1. BLOCKSIZE \in Nat /\ BLOCKSIZE >= 2
  BY BlockSizeAssumption
<1>2. /\ EmptyTable.scope = 0 /\ EmptyTable.blocks = 1 /\ EmptyTable.dangling = 0
      /\ EmptyTable.size = 0
      /\ EmptyTable.chains = [b \in 0 .. BLOCKSIZE - 1 |-> << >>]
      /\ BucketCount(EmptyTable) = BLOCKSIZE
  BY <1>1 DEF EmptyTable, BucketCount
<1>3. EmptyTable.chains \in [0 .. BLOCKSIZE - 1 -> Seq(NodeOver(V))]
  BY <1>2
<1>4. Fields(EmptyTable, V)
  BY <1>2, <1>3 DEF Fields, EmptyTable
<1>5. DanglingNodes(EmptyTable) = {}
  <2> SUFFICES ASSUME NEW p \in DanglingNodes(EmptyTable) PROVE FALSE
    OBVIOUS
  <2>1. /\ p[1] \in DOMAIN EmptyTable.chains
        /\ p[2] \in DOMAIN EmptyTable.chains[p[1]]
    BY DanglingNodesArePairs
  <2>2. EmptyTable.chains[p[1]] = << >>
    BY <1>2, <2>1
  <2> QED BY <2>1, <2>2
<1>6. Counted(EmptyTable)
  BY <1>2, <1>5, FS_EmptySet DEF Counted
<1>7. LoadBelowThreshold(EmptyTable)
  BY <1>1, <1>2 DEF LoadBelowThreshold
<1> QED
  BY <1>4, <1>6, <1>7 DEF TableOK

\* The table the parser starts from.
LEMMA InitializeTableOK ==
    TableOK(initialize_table, [name : StdFunctions, id : {0}])
<1> DEFINE V == [name : StdFunctions, id : {0}]
<1>1. V \subseteq Variable
  BY NamesAssumption DEF Variable
<1>2. ASSUME NEW t, TableOK(t, V), NEW name \in StdFunctions
      PROVE  TableOK(insert_function(t, name), V)
  <2>1. [name |-> name, id |-> 0] \in V
    OBVIOUS
  <2> HIDE DEF V
  <2> QED BY <1>1, <1>2, <2>1, InsertVariableOK DEF insert_function
<1>3. {"columns", "lines", "byIndex", "filter", "toString", "at"} = StdFunctions
  BY DEF StdFunctions
<1> DEFINE t1 == insert_function(EmptyTable, "columns")
           t2 == insert_function(t1, "lines")
           t3 == insert_function(t2, "byIndex")
           t4 == insert_function(t3, "filter")
           t5 == insert_function(t4, "toString")
<1> HIDE DEF V
<1>4. TableOK(t1, V)
  BY <1>2, <1>3, EmptyTableOK
<1> HIDE DEF t1
<1>5. TableOK(t2, V)
  BY <1>2, <1>3, <1>4
<1> HIDE DEF t2
<1>6. TableOK(t3, V)
  BY <1>2, <1>3, <1>5
<1> HIDE DEF t3
<1>7. TableOK(t4, V)
  BY <1>2, <1>3, <1>6
<1> HIDE DEF t4
<1>8. TableOK(t5, V)
  BY <1>2, <1>3, <1>7
<1> HIDE DEF t5
<1>9. TableOK(insert_function(t5, "at"), V)
  BY <1>2, <1>3, <1>8
<1> QED
  BY <1>9 DEF initialize_table, t1, t2, t3, t4, t5, V

---------------------------------------------------------------------------
(* The nodes of a table, wherever they are. *)

Nodes(t) ==
    UNION {{t.chains[b][i] : i \in DOMAIN t.chains[b]} : b \in DOMAIN t.chains}

\* A variable is in one node at most.
OneNodePerVariable(t) ==
    \A b, c \in DOMAIN t.chains :
        \A i \in DOMAIN t.chains[b], j \in DOMAIN t.chains[c] :
            t.chains[b][i].var = t.chains[c][j].var => b = c /\ i = j

\* A symbol dangles once in a chain.
OneDangling(t) ==
    \A b \in DOMAIN t.chains : \A i, j \in DOMAIN t.chains[b] :
        /\ t.chains[b][i].prehash = t.chains[b][j].prehash
        /\ t.chains[b][i].scope = SCOPE_DANGLING
        /\ t.chains[b][j].scope = SCOPE_DANGLING
        => i = j

\* The node of scope 0 of a symbol is the first of the symbol in its chain, so
\* that insert_variable, which looks at the first only, finds it.
DeclaredFirst(t) ==
    \A b \in DOMAIN t.chains : \A i, j \in DOMAIN t.chains[b] :
        /\ i < j
        /\ t.chains[b][i].prehash = t.chains[b][j].prehash
        => t.chains[b][j].scope # 0

\* Each chain of u is the end of the chain of t with that bucket.
ChainSuffixes(u, t) ==
    \A b \in DOMAIN u.chains : \E d \in Nat : \A i \in DOMAIN u.chains[b] :
        /\ b \in DOMAIN t.chains
        /\ i + d \in DOMAIN t.chains[b]
        /\ u.chains[b][i] = t.chains[b][i + d]

LEMMA NodesDef ==
    ASSUME NEW t, NEW n
    PROVE  n \in Nodes(t) <=>
              \E b \in DOMAIN t.chains : \E i \in DOMAIN t.chains[b] : n = t.chains[b][i]
BY DEF Nodes

LEMMA NodesType ==
    ASSUME NEW V, NEW t, Fields(t, V)
    PROVE  /\ DOMAIN t.chains = 0 .. BucketCount(t) - 1
           /\ \A b \in DOMAIN t.chains : /\ t.chains[b] \in Seq(NodeOver(V))
                                         /\ DOMAIN t.chains[b] = 1 .. Len(t.chains[b])
                                         /\ Len(t.chains[b]) \in Nat
           /\ Nodes(t) \subseteq NodeOver(V)
<1>1. DOMAIN t.chains = 0 .. BucketCount(t) - 1
  BY DEF Fields
<1>2. \A b \in DOMAIN t.chains : /\ t.chains[b] \in Seq(NodeOver(V))
                                 /\ DOMAIN t.chains[b] = 1 .. Len(t.chains[b])
                                 /\ Len(t.chains[b]) \in Nat
  <2> TAKE b \in DOMAIN t.chains
  <2>1. t.chains[b] \in Seq(NodeOver(V))
    BY <1>1 DEF Fields
  <2> QED BY <2>1, LenProperties
<1>3. \A b \in DOMAIN t.chains : \A i \in DOMAIN t.chains[b] :
         t.chains[b][i] \in NodeOver(V)
  BY <1>2, ElementOfSeq
<1>4. \A n \in Nodes(t) : n \in NodeOver(V)
  BY <1>3, NodesDef
<1> QED
  BY <1>1, <1>2, <1>4

\* What holds of the nodes of a table holds of what remains of it.
LEMMA SuffixNodes ==
    ASSUME NEW V, NEW t, NEW u, Fields(t, V), Fields(u, V), ChainSuffixes(u, t)
    PROVE  /\ Nodes(u) \subseteq Nodes(t)
           /\ OneNodePerVariable(t) => OneNodePerVariable(u)
           /\ OneDangling(t) => OneDangling(u)
           /\ DeclaredFirst(t) => DeclaredFirst(u)
<1> DEFINE Shift(b, d) ==
              \A i \in DOMAIN u.chains[b] :
                 /\ b \in DOMAIN t.chains
                 /\ i + d \in DOMAIN t.chains[b]
                 /\ u.chains[b][i] = t.chains[b][i + d]
           s == [b \in DOMAIN u.chains |-> CHOOSE d \in Nat : Shift(b, d)]
<1>1. \A b \in DOMAIN u.chains : s[b] \in Nat /\ Shift(b, s[b])
  <2> TAKE b \in DOMAIN u.chains
  <2>1. \E d \in Nat : Shift(b, d)
    BY DEF ChainSuffixes
  <2> HIDE DEF Shift
  <2>2. s[b] = CHOOSE d \in Nat : Shift(b, d)
    OBVIOUS
  <2> QED BY <2>1, <2>2
<1> HIDE DEF s
<1>2. \A b \in DOMAIN u.chains : \A i \in DOMAIN u.chains[b] :
         /\ b \in DOMAIN t.chains /\ i \in Nat /\ s[b] \in Nat
         /\ i + s[b] \in DOMAIN t.chains[b]
         /\ u.chains[b][i] = t.chains[b][i + s[b]]
  BY <1>1, NodesType
<1>3. Nodes(u) \subseteq Nodes(t)
  BY <1>2, NodesDef
<1>4. OneNodePerVariable(t) => OneNodePerVariable(u)
  <2> SUFFICES ASSUME OneNodePerVariable(t),
                      NEW b \in DOMAIN u.chains, NEW c \in DOMAIN u.chains,
                      NEW i \in DOMAIN u.chains[b], NEW j \in DOMAIN u.chains[c],
                      u.chains[b][i].var = u.chains[c][j].var
               PROVE  b = c /\ i = j
    BY DEF OneNodePerVariable
  <2>1. b = c /\ i + s[b] = j + s[c]
    BY <1>2 DEF OneNodePerVariable
  <2> QED BY <1>2, <2>1
<1>5. OneDangling(t) => OneDangling(u)
  <2> SUFFICES ASSUME OneDangling(t),
                      NEW b \in DOMAIN u.chains,
                      NEW i \in DOMAIN u.chains[b], NEW j \in DOMAIN u.chains[b],
                      u.chains[b][i].prehash = u.chains[b][j].prehash,
                      u.chains[b][i].scope = SCOPE_DANGLING,
                      u.chains[b][j].scope = SCOPE_DANGLING
               PROVE  i = j
    BY DEF OneDangling
  <2>1. i + s[b] = j + s[b]
    BY <1>2 DEF OneDangling
  <2> QED BY <1>2, <2>1
<1>6. DeclaredFirst(t) => DeclaredFirst(u)
  <2> SUFFICES ASSUME DeclaredFirst(t),
                      NEW b \in DOMAIN u.chains,
                      NEW i \in DOMAIN u.chains[b], NEW j \in DOMAIN u.chains[b],
                      i < j,
                      u.chains[b][i].prehash = u.chains[b][j].prehash
               PROVE  u.chains[b][j].scope # 0
    BY DEF DeclaredFirst
  <2>1. i + s[b] < j + s[b]
    BY <1>2
  <2> QED BY <1>2, <2>1 DEF DeclaredFirst
<1> QED
  BY <1>3, <1>4, <1>5, <1>6

\* A growth keeps the first chains and clears the others.
LEMMA GrowSuffix ==
    ASSUME NEW V, NEW t, Fields(t, V), t.size <= BucketCount(t)
    PROVE  /\ ChainSuffixes(Grow(t), t)
           /\ Grow(t).blocks \in {t.blocks, t.blocks + 1}
           /\ Grow(t).blocks = t.blocks => Grow(t) = t
           /\ Grow(t).dangling = t.dangling
           /\ Grow(t).size = t.size
<1>1. t.blocks \in Nat /\ t.size \in Nat /\ BucketCount(t) \in Nat
      /\ DOMAIN t.chains = 0 .. BucketCount(t) - 1
  BY BlocksArithmetic, NodesType DEF Fields, BucketCount
<1>2. CASE 4 * t.size < 3 * BucketCount(t)
  <2>1. Grow(t) = t
    BY <1>2 DEF Grow
  <2>2. \A b \in DOMAIN t.chains : \A i \in DOMAIN t.chains[b] : i + 0 = i
    BY NodesType
  <2> QED BY <2>1, <2>2 DEF ChainSuffixes
<1>3. CASE ~(4 * t.size < 3 * BucketCount(t))
  <2> DEFINE C == [b \in 0 .. (t.blocks + 1) * BLOCKSIZE - 1 |->
                      IF b < t.size THEN t.chains[b] ELSE << >>]
             u == Grow(t)
  <2>1. u = [scope |-> t.scope, blocks |-> t.blocks + 1, dangling |-> t.dangling,
             size |-> t.size, chains |-> C]
    BY <1>3 DEF Grow, Fields
  <2>2. u.blocks = t.blocks + 1 /\ u.dangling = t.dangling /\ u.size = t.size
        /\ u.chains = C
    BY <2>1
  <2> HIDE DEF u
  <2>3. \A b \in DOMAIN C : \A i \in DOMAIN C[b] :
           b \in DOMAIN t.chains /\ i + 0 \in DOMAIN t.chains[b]
           /\ C[b][i] = t.chains[b][i + 0]
    <3> TAKE b \in DOMAIN C
    <3> TAKE i \in DOMAIN C[b]
    <3>1. b \in 0 .. (t.blocks + 1) * BLOCKSIZE - 1
      OBVIOUS
    <3>2. C[b] = IF b < t.size THEN t.chains[b] ELSE << >>
      BY <3>1
    <3>3. b < t.size /\ C[b] = t.chains[b]
      BY <3>2
    <3> HIDE DEF C
    <3>4. b \in DOMAIN t.chains
      <4>1. b \in Int /\ 0 <= b
        BY <3>1
      <4> QED BY <1>1, <3>3, <4>1
    <3>5. i \in Nat
      BY <3>3, <3>4, NodesType
    <3> QED BY <3>3, <3>4, <3>5
  <2> HIDE DEF C
  <2>4. ChainSuffixes(u, t)
    BY <2>2, <2>3 DEF ChainSuffixes
  <2> QED BY <1>1, <2>2, <2>4 DEF u
<1> QED
  BY <1>2, <1>3

\* The end of a scope cuts chains.
LEMMA PrevScopeSuffix ==
    ASSUME NEW V, NEW t, Fields(t, V)
    PROVE  /\ ChainSuffixes(prev_scope(t), t)
           /\ prev_scope(t).blocks = t.blocks
           /\ prev_scope(t).dangling = t.dangling
           /\ prev_scope(t).size = t.size
           /\ t.scope > 0 => prev_scope(t).scope = t.scope - 1
           /\ \A n \in Nodes(t) : n.scope # t.scope => n \in Nodes(prev_scope(t))
<1> DEFINE u == prev_scope(t)
           C == [b \in DOMAIN t.chains |->
                    IF b < t.size THEN PopScope(t.chains[b], t.scope) ELSE t.chains[b]]
<1>1. /\ u.chains = C /\ u.blocks = t.blocks /\ u.dangling = t.dangling
      /\ u.size = t.size
      /\ t.scope > 0 => u.scope = t.scope - 1
  BY DEF prev_scope, Fields
<1>2. \A b \in DOMAIN t.chains : \E d \in Nat : IsCut(t.chains[b], C[b], d, t.scope)
  <2> TAKE b \in DOMAIN t.chains
  <2>1. /\ t.chains[b] \in Seq(NodeOver(V)) /\ DOMAIN t.chains[b] = 1 .. Len(t.chains[b])
        /\ Len(t.chains[b]) \in Nat
    BY NodesType
  <2>2. CASE b < t.size
    BY <2>1, <2>2, PopScopeCuts
  <2>3. CASE ~(b < t.size)
    <3>1. C[b] = t.chains[b]
      BY <2>3
    <3> HIDE DEF C
    <3>2. IsCut(t.chains[b], C[b], 0, t.scope)
      BY <2>1, <3>1 DEF IsCut
    <3> QED BY <3>2
  <2> QED BY <2>2, <2>3
<1>3. DOMAIN C = DOMAIN t.chains
  OBVIOUS
<1> HIDE DEF C, u
<1>4. ChainSuffixes(u, t)
  <2> SUFFICES ASSUME NEW b \in DOMAIN C
               PROVE  \E d \in Nat : \A i \in DOMAIN C[b] :
                         /\ b \in DOMAIN t.chains
                         /\ i + d \in DOMAIN t.chains[b]
                         /\ C[b][i] = t.chains[b][i + d]
    BY <1>1 DEF ChainSuffixes
  <2>1. PICK d \in Nat : IsCut(t.chains[b], C[b], d, t.scope)
    BY <1>2, <1>3
  <2>2. DOMAIN t.chains[b] = 1 .. Len(t.chains[b]) /\ Len(t.chains[b]) \in Nat
    BY <1>3, NodesType
  <2>3. \A i \in DOMAIN C[b] : /\ i + d \in DOMAIN t.chains[b]
                                /\ C[b][i] = t.chains[b][i + d]
    BY <2>1, <2>2 DEF IsCut
  <2> QED BY <1>3, <2>3
<1>5. ASSUME NEW n \in Nodes(t), n.scope # t.scope
      PROVE  n \in Nodes(u)
  <2>1. PICK b \in DOMAIN t.chains : \E i \in DOMAIN t.chains[b] : n = t.chains[b][i]
    BY NodesDef
  <2>2. PICK i \in DOMAIN t.chains[b] : n = t.chains[b][i]
    BY <2>1
  <2>3. PICK d \in Nat : IsCut(t.chains[b], C[b], d, t.scope)
    BY <1>2
  <2>4. /\ d <= Len(t.chains[b])
        /\ DOMAIN C[b] = 1 .. Len(t.chains[b]) - d
        /\ \A k \in 1 .. d : t.chains[b][k].scope = t.scope
        /\ \A k \in 1 .. Len(t.chains[b]) - d : C[b][k] = t.chains[b][k + d]
    BY <2>3 DEF IsCut
  <2>5. i \in 1 .. Len(t.chains[b]) /\ Len(t.chains[b]) \in Nat
    BY <2>2, NodesType
  <2>6. ~(i \in 1 .. d)
    BY <1>5, <2>2, <2>4
  <2> DEFINE k == i - d
  <2>7. k \in 1 .. Len(t.chains[b]) - d /\ k + d = i
    BY <2>5, <2>6
  <2> HIDE DEF k
  <2>8. C[b][k] = n /\ k \in DOMAIN C[b]
    BY <2>2, <2>4, <2>7
  <2> QED BY <1>1, <1>3, <2>8, NodesDef
<1> QED
  BY <1>1, <1>4, <1>5 DEF u

---------------------------------------------------------------------------
(* Lookups. *)

\* A lookup that fails has seen every node of the symbol.
LEMMA LookupFails ==
    ASSUME NEW V, NEW t, Fields(t, V), NEW name \in Names, NEW scope,
           lookup_node_in_scope(t, name, scope) = 0
    PROVE  \A i \in SameHash(t, name) : Chain(t, name)[i].scope # scope
<1> DEFINE hits == {i \in SameHash(t, name) : Chain(t, name)[i].scope = scope}
<1>1. hits \in SUBSET Nat
  BY ChainType DEF SameHash
<1>2. \A i \in hits : i # 0
  BY ChainType DEF SameHash
<1>3. lookup_node_in_scope(t, name, scope) = IF hits = {} THEN 0 ELSE Min(hits)
  BY DEF lookup_node_in_scope
<1>4. hits # {} => Min(hits) \in hits
  <2> HIDE DEF hits
  <2> QED BY <1>1, MinIsLeast
<1>5. hits = {}
  <2> HIDE DEF hits
  <2> QED BY <1>2, <1>3, <1>4
<1> QED
  BY <1>5

\* The head of a chain is found first.
LEMMA LookupHead ==
    ASSUME NEW V, NEW t, Fields(t, V), NEW name \in Names, NEW scope,
           1 \in SameHash(t, name), Chain(t, name)[1].scope = scope
    PROVE  lookup_node_in_scope(t, name, scope) = 1
<1> DEFINE hits == {i \in SameHash(t, name) : Chain(t, name)[i].scope = scope}
<1>1. hits \in SUBSET Nat /\ 1 \in hits
  BY ChainType DEF SameHash
<1>2. \A i \in hits : 1 <= i
  BY ChainType DEF SameHash
<1>3. lookup_node_in_scope(t, name, scope) = Min(hits)
  BY <1>1 DEF lookup_node_in_scope
<1> HIDE DEF hits
<1>4. Min(hits) \in hits /\ Min(hits) <= 1
  BY <1>1, MinIsLeast
<1>5. Min(hits) \in Nat /\ 1 <= Min(hits)
  BY <1>1, <1>2, <1>4
<1>6. Min(hits) = 1
  BY <1>4, <1>5
<1> QED
  BY <1>3, <1>6

\* The node that is found is a node of the table.
LEMMA LookupFinds ==
    ASSUME NEW V, NEW t, Fields(t, V), NEW name \in Names, NEW scope,
           lookup_node_in_scope(t, name, scope) # 0
    PROVE  LET n == Chain(t, name)[lookup_node_in_scope(t, name, scope)]
           IN  /\ n \in Nodes(t)
               /\ n.prehash = Hash[name] /\ n.scope = scope
               /\ lookup_variable_in_scope(t, name, scope) = n.var
               /\ n.var \in V
<1> DEFINE i == lookup_node_in_scope(t, name, scope)
           n == Chain(t, name)[i]
<1>1. /\ i \in 1 .. Len(Chain(t, name)) /\ n \in NodeOver(V)
      /\ n.prehash = Hash[name] /\ n.scope = scope
  BY LookupNode
<1>2. lookup_variable_in_scope(t, name, scope) = n.var
  BY DEF lookup_variable_in_scope
<1>3. i \in DOMAIN Chain(t, name) /\ Bucket(t, name) \in DOMAIN t.chains
  <2> HIDE DEF i
  <2>1. Bucket(t, name) \in DOMAIN t.chains
    BY BucketInRange, NodesType DEF Fields
  <2> QED BY <1>1, <2>1, ChainType
<1> HIDE DEF i
<1>4. n \in Nodes(t)
  BY <1>3, NodesDef DEF Chain
<1> QED
  BY <1>1, <1>2, <1>4 DEF i, NodeOver

\* With the scope at 0, lookup_variable asks for scope 0 only.
LEMMA LookupAtZero ==
    ASSUME NEW V, V \subseteq Variable, NEW t, Fields(t, V), t.scope = 0, NEW name \in Names
    PROVE  /\ lookup_variable(t, name) = lookup_variable_in_scope(t, name, 0)
           /\ lookup_variable(t, name) = NULL <=> lookup_node_in_scope(t, name, 0) = 0
           /\ lookup_dangling_variable(t, name) = NULL
                 <=> lookup_node_in_scope(t, name, SCOPE_DANGLING) = 0
<1> DEFINE found == {s \in 0 .. t.scope : lookup_node_in_scope(t, name, s) # 0}
<1>1. \A s : lookup_variable_in_scope(t, name, s) = NULL
                <=> lookup_node_in_scope(t, name, s) = 0
  <2> TAKE s
  <2>1. CASE lookup_node_in_scope(t, name, s) = 0
    BY <2>1 DEF lookup_variable_in_scope
  <2>2. CASE lookup_node_in_scope(t, name, s) # 0
    BY <2>2, LookupFinds, NullAssumption
  <2> QED BY <2>1, <2>2
<1>2. lookup_variable(t, name) = lookup_variable_in_scope(t, name, 0)
  <2>1. CASE lookup_node_in_scope(t, name, 0) = 0
    <3>1. found = {}
      BY <2>1
    <3> QED BY <1>1, <2>1, <3>1 DEF lookup_variable
  <2>2. CASE lookup_node_in_scope(t, name, 0) # 0
    <3>1. found = {0}
      BY <2>2
    <3>2. {0} \in SUBSET Nat /\ {0} # {} /\ IsFiniteSet({0})
      BY FS_Singleton
    <3>3. Max({0}) = 0
      BY <3>2, MaxIsGreatest
    <3> QED BY <3>1, <3>3 DEF lookup_variable
  <2> QED BY <2>1, <2>2
<1> QED
  BY <1>1, <1>2 DEF lookup_dangling_variable

---------------------------------------------------------------------------
(* The operations. *)

Fresh(t, var) == \A n \in Nodes(t) : n.var # var

\* No node of the symbol has the scope.
NoNode(t, name, scope) ==
    \A i \in SameHash(t, name) : Chain(t, name)[i].scope # scope

LEMMA HeadOnChain ==
    ASSUME NEW S, NEW seq \in Seq(S), NEW e
    PROVE  /\ Len(<<e>> \o seq) = 1 + Len(seq)
           /\ DOMAIN (<<e>> \o seq) = 1 .. 1 + Len(seq)
           /\ \A i \in 1 .. 1 + Len(seq) : (<<e>> \o seq)[i] =
                 IF i <= 1 THEN <<e>>[i] ELSE seq[i - 1]
<1> DEFINE T == S \cup {e}
<1>1. seq \in Seq(T)
  BY SeqMonotonic
<1>2. <<e>> \in Seq(T) /\ Len(<<e>>) = 1
  OBVIOUS
<1> HIDE DEF T
<1>3. /\ <<e>> \o seq \in Seq(T)
      /\ Len(<<e>> \o seq) = 1 + Len(seq)
      /\ \A i \in 1 .. 1 + Len(seq) : (<<e>> \o seq)[i] =
            IF i <= 1 THEN <<e>>[i] ELSE seq[i - 1]
  BY <1>1, <1>2, ConcatProperties
<1>4. DOMAIN (<<e>> \o seq) = 1 .. 1 + Len(seq)
  BY <1>3, LenProperties
<1> QED
  BY <1>3, <1>4

LEMMA PushNodes ==
    ASSUME NEW V, V \subseteq Variable, NEW t, Fields(t, V), NEW var \in V
    PROVE  LET u == Push(t, var, t.scope)
           IN  /\ Nodes(u) = Nodes(t) \cup
                     {[prehash |-> Hash[var.name], var |-> var, scope |-> t.scope]}
               /\ OneNodePerVariable(t) /\ Fresh(t, var) => OneNodePerVariable(u)
               /\ OneDangling(t) => OneDangling(u)
               /\ DeclaredFirst(t) /\ NoNode(t, var.name, 0) => DeclaredFirst(u)
<1> DEFINE u == Push(t, var, t.scope)
           b0 == Bucket(t, var.name)
           node == [prehash |-> Hash[var.name], var |-> var, scope |-> t.scope]
           C == [t.chains EXCEPT ![b0] = <<node>> \o @]
<1>1. var.name \in Names
  BY DEF Variable
<1>2. b0 \in DOMAIN t.chains /\ DOMAIN C = DOMAIN t.chains
  BY <1>1, BucketInRange, NodesType DEF Fields
<1>3. /\ C[b0] = <<node>> \o t.chains[b0]
      /\ \A b \in DOMAIN t.chains : b # b0 => C[b] = t.chains[b]
  BY <1>2
<1>4. u = [t EXCEPT !.chains = C, !.size = t.size + 1]
  BY DEF Push
<1>5. t.scope \in Nat /\ node.scope = t.scope /\ node.var = var
      /\ node.prehash = Hash[var.name]
  BY DEF Fields
<1>6. Chain(t, var.name) = t.chains[b0]
  BY DEF Chain
<1> HIDE DEF node, b0, C
<1>7. u.chains = C
  BY <1>4 DEF Fields
<1> HIDE DEF u
<1>8. \A b \in DOMAIN t.chains : \A i \in DOMAIN t.chains[b] :
         i \in Nat /\ i >= 1 /\ Len(t.chains[b]) \in Nat /\ i <= Len(t.chains[b])
  BY NodesType
<1>9. /\ DOMAIN C[b0] = 1 .. Len(t.chains[b0]) + 1
      /\ C[b0][1] = node
      /\ \A i \in DOMAIN t.chains[b0] : C[b0][i + 1] = t.chains[b0][i]
      /\ DOMAIN t.chains[b0] = 1 .. Len(t.chains[b0]) /\ Len(t.chains[b0]) \in Nat
  <2>1. t.chains[b0] \in Seq(NodeOver(V)) /\ DOMAIN t.chains[b0] = 1 .. Len(t.chains[b0])
        /\ Len(t.chains[b0]) \in Nat
    BY <1>2, NodesType
  <2> DEFINE ch == t.chains[b0]
  <2>2. <<node>> \in Seq({node}) /\ Len(<<node>>) = 1 /\ <<node>>[1] = node
    OBVIOUS
  <2>3. C[b0] = <<node>> \o ch
    BY <1>3
  <2> HIDE DEF ch
  <2>4. /\ Len(<<node>> \o ch) = 1 + Len(ch)
        /\ DOMAIN (<<node>> \o ch) = 1 .. 1 + Len(ch)
        /\ \A i \in 1 .. 1 + Len(ch) : (<<node>> \o ch)[i] =
              IF i <= 1 THEN <<node>>[i] ELSE ch[i - 1]
    BY <2>1, <2>2, HeadOnChain DEF ch
  <2>5. Len(ch) \in Nat /\ DOMAIN ch = 1 .. Len(ch)
    BY <2>1 DEF ch
  <2>6. (<<node>> \o ch)[1] = node
    BY <2>2, <2>4, <2>5
  <2>7. \A i \in 1 .. Len(ch) : (<<node>> \o ch)[i + 1] = ch[i]
    BY <2>4, <2>5
  <2>8. 1 + Len(ch) = Len(ch) + 1
    BY <2>5
  <2> QED BY <2>3, <2>4, <2>5, <2>6, <2>7, <2>8 DEF ch
\* Where the nodes of the chain were.
<1>10. \A i \in DOMAIN C[b0] :
          \/ i = 1 /\ C[b0][i] = node
          \/ /\ i > 1 /\ i - 1 \in DOMAIN t.chains[b0]
             /\ C[b0][i] = t.chains[b0][i - 1]
  <2> TAKE i \in DOMAIN C[b0]
  <2>1. CASE i = 1
    BY <1>9, <2>1
  <2>2. CASE i # 1
    <3> DEFINE k == i - 1
    <3>1. k \in DOMAIN t.chains[b0] /\ k + 1 = i /\ i > 1
      BY <1>9, <2>2
    <3> HIDE DEF k
    <3>2. C[b0][k + 1] = t.chains[b0][k]
      BY <1>9, <3>1
    <3> QED BY <3>1, <3>2 DEF k
  <2> QED BY <2>1, <2>2
<1>11. Nodes(u) = Nodes(t) \cup {node}
  <2>1. ASSUME NEW n \in Nodes(u) PROVE n \in Nodes(t) \cup {node}
    <3> DEFINE D == u.chains
    <3>0. \E b \in DOMAIN D : \E i \in DOMAIN D[b] : n = D[b][i]
      BY NodesDef
    <3>1. PICK b \in DOMAIN C : \E i \in DOMAIN C[b] : n = C[b][i]
      BY <1>7, <3>0
    <3>2. PICK i \in DOMAIN C[b] : n = C[b][i]
      BY <3>1
    <3>3. CASE b = b0
      BY <1>2, <1>10, <3>2, <3>3, NodesDef
    <3>4. CASE b # b0
      BY <1>2, <1>3, <3>2, <3>4, NodesDef
    <3> QED BY <3>3, <3>4
  <2>2. node \in Nodes(u)
    <3>1. 1 \in DOMAIN C[b0]
      BY <1>9
    <3> QED BY <1>2, <1>7, <1>9, <3>1, NodesDef
  <2>3. ASSUME NEW n \in Nodes(t) PROVE n \in Nodes(u)
    <3>1. PICK b \in DOMAIN t.chains : \E i \in DOMAIN t.chains[b] : n = t.chains[b][i]
      BY NodesDef
    <3>2. PICK i \in DOMAIN t.chains[b] : n = t.chains[b][i]
      BY <3>1
    <3>3. CASE b = b0
      <4>1. i + 1 \in DOMAIN C[b0] /\ C[b0][i + 1] = n
        BY <1>9, <3>2, <3>3
      <4> QED BY <1>2, <1>7, <4>1, NodesDef
    <3>4. CASE b # b0
      BY <1>2, <1>3, <1>7, <3>2, <3>4, NodesDef
    <3> QED BY <3>3, <3>4
  <2> QED BY <2>1, <2>2, <2>3
<1>12. OneNodePerVariable(t) /\ Fresh(t, var) => OneNodePerVariable(u)
  <2> SUFFICES ASSUME OneNodePerVariable(t), Fresh(t, var),
                      NEW b \in DOMAIN C, NEW c \in DOMAIN C,
                      NEW i \in DOMAIN C[b], NEW j \in DOMAIN C[c],
                      C[b][i].var = C[c][j].var
               PROVE  b = c /\ i = j
    BY <1>7 DEF OneNodePerVariable
  <2>1. \A k \in DOMAIN t.chains : \A l \in DOMAIN t.chains[k] : t.chains[k][l].var # var
    BY NodesDef DEF Fresh
  <2>2. CASE b = b0 /\ c = b0
    <3>1. i \in Nat /\ j \in Nat
      BY <1>9, <2>2
    <3>2. CASE i = 1 \/ j = 1
      BY <1>2, <1>5, <1>10, <2>1, <2>2, <3>2
    <3>3. CASE i # 1 /\ j # 1
      <4>1. i - 1 = j - 1
        BY <1>2, <1>10, <2>2, <3>3 DEF OneNodePerVariable
      <4> QED BY <2>2, <3>1, <4>1
    <3> QED BY <3>2, <3>3
  <2>3. ASSUME NEW k \in DOMAIN C, NEW l \in DOMAIN C, k # b0,
               NEW x \in DOMAIN C[k], NEW y \in DOMAIN C[l], l = b0,
               C[k][x].var = C[l][y].var
        PROVE  FALSE
    <3>1. k \in DOMAIN t.chains /\ C[k] = t.chains[k] /\ x \in DOMAIN t.chains[k]
      BY <1>2, <1>3, <2>3
    <3>2. CASE y = 1
      BY <1>5, <1>9, <2>1, <2>3, <3>1, <3>2
    <3>3. CASE y # 1
      <4>1. y - 1 \in DOMAIN t.chains[b0] /\ C[b0][y] = t.chains[b0][y - 1]
        BY <1>10, <2>3, <3>3
      <4>2. t.chains[k][x].var = t.chains[b0][y - 1].var
        BY <2>3, <3>1, <4>1
      <4> QED BY <1>2, <2>3, <3>1, <4>1, <4>2 DEF OneNodePerVariable
    <3> QED BY <3>2, <3>3
  <2>4. CASE (b = b0 /\ c # b0) \/ (b # b0 /\ c = b0)
    BY <2>3, <2>4
  <2>5. CASE b # b0 /\ c # b0
    BY <1>2, <1>3, <2>5 DEF OneNodePerVariable
  <2> QED BY <2>2, <2>4, <2>5
<1>13. OneDangling(t) => OneDangling(u)
  <2> SUFFICES ASSUME OneDangling(t), NEW b \in DOMAIN C,
                      NEW i \in DOMAIN C[b], NEW j \in DOMAIN C[b],
                      C[b][i].prehash = C[b][j].prehash,
                      C[b][i].scope = SCOPE_DANGLING, C[b][j].scope = SCOPE_DANGLING
               PROVE  i = j
    BY <1>7 DEF OneDangling
  <2>1. node.scope # SCOPE_DANGLING
    BY <1>5 DEF SCOPE_DANGLING
  <2>2. CASE b = b0
    <3>1. i \in Nat /\ j \in Nat
      BY <1>9, <2>2
    <3>2. i - 1 = j - 1
      BY <1>2, <1>10, <2>1, <2>2 DEF OneDangling
    <3> QED BY <3>1, <3>2
  <2>3. CASE b # b0
    BY <1>2, <1>3, <2>3 DEF OneDangling
  <2> QED BY <2>2, <2>3
<1>14. DeclaredFirst(t) /\ NoNode(t, var.name, 0) => DeclaredFirst(u)
  <2> SUFFICES ASSUME DeclaredFirst(t), NoNode(t, var.name, 0), NEW b \in DOMAIN C,
                      NEW i \in DOMAIN C[b], NEW j \in DOMAIN C[b], i < j,
                      C[b][i].prehash = C[b][j].prehash
               PROVE  C[b][j].scope # 0
    BY <1>7 DEF DeclaredFirst
  <2>1. CASE b = b0
    <3>1. i \in Nat /\ j \in Nat /\ i >= 1
      BY <1>9, <2>1
    <3>2. j - 1 \in DOMAIN t.chains[b0] /\ C[b0][j] = t.chains[b0][j - 1]
      BY <1>10, <2>1, <3>1
    <3>3. CASE i = 1
      <4>1. t.chains[b0][j - 1].prehash = Hash[var.name]
        BY <1>5, <1>9, <2>1, <3>2, <3>3
      <4>2. j - 1 \in SameHash(t, var.name)
        BY <1>6, <3>2, <4>1 DEF SameHash
      <4> QED BY <1>6, <2>1, <3>2, <4>2 DEF NoNode
    <3>4. CASE i # 1
      <4>1. i - 1 \in DOMAIN t.chains[b0] /\ C[b0][i] = t.chains[b0][i - 1]
        BY <1>10, <2>1, <3>4
      <4>2. i - 1 < j - 1
        BY <3>1
      <4> QED BY <1>2, <2>1, <3>2, <4>1, <4>2 DEF DeclaredFirst
    <3> QED BY <3>3, <3>4
  <2>2. CASE b # b0
    BY <1>2, <1>3, <2>2 DEF DeclaredFirst
  <2> QED BY <2>1, <2>2
<1> QED
  BY <1>11, <1>12, <1>13, <1>14 DEF u, node

\* A node that is given another scope is replaced by the node of that scope.
LEMMA SetScopeNodes ==
    ASSUME NEW V, NEW t, Fields(t, V), OneNodePerVariable(t), NEW name \in Names,
           NEW i \in 1 .. Len(Chain(t, name)), NEW scope \in Int
    PROVE  LET u == SetScope(t, name, i, scope)
               old == Chain(t, name)[i]
               new == [old EXCEPT !.scope = scope]
           IN  /\ old \in Nodes(t)
               /\ u = [t EXCEPT !.chains = u.chains]
               /\ Nodes(u) = (Nodes(t) \ {old}) \cup {new}
               /\ OneNodePerVariable(u)
               /\ OneDangling(t) /\ scope # SCOPE_DANGLING => OneDangling(u)
               /\ OneDangling(t) /\ old.prehash = Hash[name]
                     /\ NoNode(t, name, SCOPE_DANGLING) => OneDangling(u)
               /\ DeclaredFirst(t) /\ scope # 0 => DeclaredFirst(u)
<1> DEFINE u == SetScope(t, name, i, scope)
           b0 == Bucket(t, name)
           old == Chain(t, name)[i]
           new == [old EXCEPT !.scope = scope]
           chain == t.chains[b0]
           C == [t.chains EXCEPT ![b0] = [chain EXCEPT ![i] = new]]
<1>1. /\ b0 \in DOMAIN t.chains /\ chain \in Seq(NodeOver(V))
      /\ i \in DOMAIN chain /\ old = chain[i] /\ old \in NodeOver(V)
  <2>1. b0 \in DOMAIN t.chains
    BY BucketInRange, NodesType DEF Fields
  <2>2. chain \in Seq(NodeOver(V)) /\ i \in DOMAIN chain
    BY <2>1, NodesType DEF Chain
  <2>3. old = chain[i]
    BY DEF Chain
  <2> QED BY <2>1, <2>2, <2>3, ElementOfSeq
<1>2. u = [t EXCEPT !.chains = C]
  BY <1>1 DEF SetScope, Chain
<1>3. /\ new.prehash = old.prehash /\ new.var = old.var /\ new.scope = scope
  BY <1>1 DEF NodeOver
<1> HIDE DEF new, b0
<1>4. /\ DOMAIN C = DOMAIN t.chains
      /\ \A b \in DOMAIN t.chains : DOMAIN C[b] = DOMAIN t.chains[b]
      /\ C[b0][i] = new
      /\ \A b \in DOMAIN t.chains : \A k \in DOMAIN t.chains[b] :
            ~(b = b0 /\ k = i) => C[b][k] = t.chains[b][k]
  <2>1. DOMAIN C = DOMAIN t.chains
    OBVIOUS
  <2>2. C[b0] = [chain EXCEPT ![i] = new]
    BY <1>1
  <2>3. \A b \in DOMAIN t.chains : b # b0 => C[b] = t.chains[b]
    BY <1>1
  <2> HIDE DEF C
  <2>4. DOMAIN C[b0] = DOMAIN chain /\ C[b0][i] = new
        /\ \A k \in DOMAIN chain : k # i => C[b0][k] = chain[k]
    BY <1>1, <2>2
  <2> QED BY <1>1, <2>1, <2>3, <2>4
<1> HIDE DEF C, old
<1>5. u.chains = C /\ u = [t EXCEPT !.chains = u.chains]
  BY <1>2 DEF Fields
<1> HIDE DEF u
<1>6. old \in Nodes(t)
  BY <1>1, NodesDef
<1>7. \A b \in DOMAIN t.chains : \A k \in DOMAIN t.chains[b] :
         t.chains[b][k] = old => b = b0 /\ k = i
  BY <1>1 DEF OneNodePerVariable
<1>8. Nodes(u) = (Nodes(t) \ {old}) \cup {new}
  <2>1. ASSUME NEW n \in Nodes(u) PROVE n \in (Nodes(t) \ {old}) \cup {new}
    <3> DEFINE D == u.chains
    <3>0. \E b \in DOMAIN D : \E k \in DOMAIN D[b] : n = D[b][k]
      BY NodesDef
    <3>1. PICK b \in DOMAIN C : \E k \in DOMAIN C[b] : n = C[b][k]
      BY <1>5, <3>0
    <3>2. PICK k \in DOMAIN C[b] : n = C[b][k]
      BY <3>1
    <3>3. CASE b = b0 /\ k = i
      BY <1>4, <3>2, <3>3
    <3>4. CASE ~(b = b0 /\ k = i)
      BY <1>4, <1>7, <3>2, <3>4, NodesDef
    <3> QED BY <3>3, <3>4
  <2>2. new \in Nodes(u)
    BY <1>1, <1>4, <1>5, NodesDef
  <2>3. ASSUME NEW n \in Nodes(t), n # old PROVE n \in Nodes(u)
    <3>1. PICK b \in DOMAIN t.chains : \E k \in DOMAIN t.chains[b] : n = t.chains[b][k]
      BY NodesDef
    <3>2. PICK k \in DOMAIN t.chains[b] : n = t.chains[b][k]
      BY <3>1
    <3>3. ~(b = b0 /\ k = i)
      BY <1>1, <2>3, <3>2
    <3> QED BY <1>4, <1>5, <3>2, <3>3, NodesDef
  <2> QED BY <2>1, <2>2, <2>3
<1>9. \A b \in DOMAIN C : \A k \in DOMAIN C[b] :
         /\ b \in DOMAIN t.chains /\ k \in DOMAIN t.chains[b]
         /\ C[b][k].var = t.chains[b][k].var
         /\ C[b][k].prehash = t.chains[b][k].prehash
         /\ C[b][k].scope = IF b = b0 /\ k = i THEN scope ELSE t.chains[b][k].scope
  BY <1>1, <1>3, <1>4
<1>10. OneNodePerVariable(u)
  BY <1>5, <1>9 DEF OneNodePerVariable
<1>11. OneDangling(t) /\ scope # SCOPE_DANGLING => OneDangling(u)
  BY <1>5, <1>9 DEF OneDangling
<1>12. OneDangling(t) /\ old.prehash = Hash[name] /\ NoNode(t, name, SCOPE_DANGLING)
          => OneDangling(u)
  <2> SUFFICES ASSUME OneDangling(t), old.prehash = Hash[name],
                      NoNode(t, name, SCOPE_DANGLING),
                      NEW b \in DOMAIN C, NEW j \in DOMAIN C[b], NEW k \in DOMAIN C[b],
                      C[b][j].prehash = C[b][k].prehash,
                      C[b][j].scope = SCOPE_DANGLING, C[b][k].scope = SCOPE_DANGLING
               PROVE  j = k
    BY <1>5 DEF OneDangling
  <2>1. \A l \in DOMAIN chain : chain[l].prehash = Hash[name]
           => chain[l].scope # SCOPE_DANGLING
    BY DEF NoNode, SameHash, Chain, b0
  <2>2. b # b0 => j = k
    BY <1>9 DEF OneDangling
  <2>3. ASSUME b = b0, j = i, k # i PROVE FALSE
    BY <1>1, <1>9, <2>1, <2>3
  <2>4. ASSUME b = b0, k = i, j # i PROVE FALSE
    BY <1>1, <1>9, <2>1, <2>4
  <2>5. ASSUME b = b0, j # i, k # i PROVE j = k
    BY <1>9, <2>5 DEF OneDangling
  <2> QED BY <2>2, <2>3, <2>4, <2>5
<1>13. DeclaredFirst(t) /\ scope # 0 => DeclaredFirst(u)
  <2> SUFFICES ASSUME DeclaredFirst(t), scope # 0, NEW b \in DOMAIN C,
                      NEW j \in DOMAIN C[b], NEW k \in DOMAIN C[b], j < k,
                      C[b][j].prehash = C[b][k].prehash
               PROVE  C[b][k].scope # 0
    BY <1>5 DEF DeclaredFirst
  <2> QED BY <1>9 DEF DeclaredFirst
<1> QED
  BY <1>5, <1>6, <1>8, <1>10, <1>11, <1>12, <1>13 DEF u, old, new

\* A hash that stays below n under the modulus 2 * n is its own rest modulo n.
LEMMA DoubledModulus ==
    ASSUME NEW h \in Nat, NEW n \in Nat, n >= 1, h % (2 * n) < n
    PROVE  h % n = h % (2 * n)
<1> DEFINE q == h \div (2 * n)
           r == h % (2 * n)
           p == h \div n
           s == h % n
<1>1. q \in Int /\ r \in Int /\ 0 <= r /\ r < n /\ h = q * (2 * n) + r
  BY SMT
<1>2. p \in Int /\ s \in Int /\ 0 <= s /\ s < n /\ h = p * n + s
  BY SMT
<1> HIDE DEF q, r, p, s
<1>3. (p - 2 * q) * n = r - s
  BY <1>1, <1>2, SMT
<1>4. p - 2 * q = 0
  <2> DEFINE k == p - 2 * q
  <2>1. CASE k >= 1
    <3>1. k * n >= n
      BY <1>1, <1>2, <2>1
    <3> QED BY <1>1, <1>2, <1>3, <3>1
  <2>2. CASE k <= -1
    <3>1. k * n <= -n
      BY <1>1, <1>2, <2>2
    <3> QED BY <1>1, <1>2, <1>3, <3>1
  <2> QED BY <1>1, <1>2, <2>1, <2>2
<1>5. r - s = 0
  BY <1>3, <1>4
<1> QED
  BY <1>1, <1>2, <1>5 DEF r, s

\* After an insertion that leaves two blocks at most, the chain in which the
\* name is looked up has the new node for its head, or is empty.
LEMMA InsertedIsHead ==
    ASSUME NEW V, V \subseteq Variable, NEW t, TableOK(t, V), NEW var \in V,
           Grow(Push(t, var, t.scope)).blocks <= 2
    PROVE  LET u == Grow(Push(t, var, t.scope))
               node == [prehash |-> Hash[var.name], var |-> var, scope |-> t.scope]
           IN  \/ Chain(u, var.name) = << >>
               \/ Chain(u, var.name) = <<node>> \o Chain(t, var.name)
<1> DEFINE p == Push(t, var, t.scope)
           u == Grow(p)
           node == [prehash |-> Hash[var.name], var |-> var, scope |-> t.scope]
           name == var.name
           h == Hash[name]
<1>1. name \in Names /\ h \in Nat /\ BLOCKSIZE \in Nat /\ BLOCKSIZE >= 2
  BY HashAssumption, BlockSizeAssumption DEF Variable
<1>2. Fields(t, V) /\ t.size \in Nat /\ t.blocks \in Nat \ {0}
  BY DEF TableOK, Fields
<1>3. Fields(p, V) /\ p.size = t.size + 1 /\ p.blocks = t.blocks
  BY PushOK
<1>4. p.chains[Bucket(t, name)] = <<node>> \o t.chains[Bucket(t, name)]
  <2>1. Bucket(t, name) \in DOMAIN t.chains
    BY <1>1, <1>2, BucketInRange, NodesType DEF Fields
  <2> QED BY <1>2, <2>1 DEF Push, Fields
<1>5. BucketCount(p) = BucketCount(t) /\ Bucket(p, name) = Bucket(t, name)
  BY <1>3 DEF BucketCount, Bucket
<1>6. Chain(p, name) = <<node>> \o Chain(t, name)
  BY <1>4, <1>5 DEF Chain
<1> HIDE DEF p, node
<1> DEFINE Goal == Chain(u, name) = << >> \/ Chain(u, name) = <<node>> \o Chain(t, name)
<1>7. ASSUME 4 * p.size < 3 * BucketCount(p) PROVE Goal
  BY <1>6, <1>7 DEF Grow
<1>8. ASSUME ~(4 * p.size < 3 * BucketCount(p)) PROVE Goal
  <2> DEFINE C == [b \in 0 .. (p.blocks + 1) * BLOCKSIZE - 1 |->
                      IF b < p.size THEN p.chains[b] ELSE << >>]
  <2>1. u.blocks = p.blocks + 1 /\ u.chains = C
    BY <1>3, <1>8 DEF Grow, Fields
  <2> HIDE DEF u, h, name
  <2>2. p.blocks = 1 /\ u.blocks = 2
    <3>1. p.blocks + 1 <= 2
      BY <2>1 DEF u, p
    <3> QED BY <1>2, <1>3, <2>1, <3>1
  <2>3. BucketCount(p) = BLOCKSIZE /\ BucketCount(u) = 2 * BLOCKSIZE
    BY <1>1, <2>2 DEF BucketCount
  <2> DEFINE b == h % (2 * BLOCKSIZE)
  <2>4. Bucket(u, name) = b /\ b \in 0 .. 2 * BLOCKSIZE - 1
        /\ Bucket(p, name) = h % BLOCKSIZE
    BY <1>1, <2>3 DEF Bucket, h
  <2>5. p.size <= BLOCKSIZE
    <3>1. 4 * t.size < 3 * BLOCKSIZE
      BY <1>5, <2>3 DEF TableOK, LoadBelowThreshold
    <3> QED BY <1>1, <1>2, <1>3, <3>1
  <2>6. Chain(u, name) = C[b] /\ C[b] = IF b < p.size THEN p.chains[b] ELSE << >>
    <3>1. (p.blocks + 1) * BLOCKSIZE - 1 = 2 * BLOCKSIZE - 1
      BY <1>1, <2>2
    <3> HIDE DEF b
    <3>2. C[b] = IF b < p.size THEN p.chains[b] ELSE << >>
      BY <2>4, <3>1
    <3> QED BY <2>1, <2>4, <3>2 DEF Chain
  <2>7. CASE b < p.size
    <3>1. b < BLOCKSIZE
      BY <1>1, <1>2, <1>3, <2>4, <2>5, <2>7
    <3>2. h % BLOCKSIZE = b
      <4>1. h \in Nat /\ BLOCKSIZE \in Nat /\ BLOCKSIZE >= 1
        BY <1>1
      <4>2. h % (2 * BLOCKSIZE) < BLOCKSIZE
        BY <3>1
      <4> QED BY <4>1, <4>2, DoubledModulus, Zenon
    <3> HIDE DEF b
    <3>3. p.chains[b] = Chain(p, name)
      BY <2>4, <3>2 DEF Chain
    <3> QED BY <1>6, <2>6, <2>7, <3>3
  <2>8. CASE ~(b < p.size)
    <3> HIDE DEF b
    <3> QED BY <2>6, <2>8
  <2> QED BY <2>7, <2>8
<1>9. Goal
  BY <1>7, <1>8
<1> QED
  BY <1>9 DEF p, node

\* Every node keeps the djb2 value of its variable's name.
Hashed(t) == \A n \in Nodes(t) : n.prehash = Hash[n.var.name]

\* The node of a new variable, and a node that is marked.
NodeOf(var) == [prehash |-> Hash[var.name], var |-> var, scope |-> 0]
Marked(n) == [n EXCEPT !.scope = SCOPE_DANGLING]

\* An insertion adds one node, of the current scope, or refuses; a growth may
\* then drop some.
LEMMA InsertVariableNodes ==
    ASSUME NEW V, V \subseteq Variable, NEW t, TableOK(t, V), t.scope = 0,
           NEW var \in V, Fresh(t, var), OneNodePerVariable(t)
    PROVE  LET r == insert_variable(t, var)
           IN  /\ r.status # "SUCCESS" => r.tab = t
               /\ r.tab.scope = 0
               /\ r.tab.dangling = t.dangling
               /\ r.tab.blocks >= t.blocks
               /\ r.tab.size <= t.size + 1
               /\ Nodes(r.tab) \subseteq Nodes(t) \cup {NodeOf(var)}
               /\ OneNodePerVariable(r.tab)
               /\ OneDangling(t) => OneDangling(r.tab)
               /\ DeclaredFirst(t) => DeclaredFirst(r.tab)
               /\ r.status \in {"SUCCESS", "MULTIPLE_DECLARATION"}
               /\ NoNode(t, var.name, 0) => r.status = "SUCCESS"
               /\ DeclaredFirst(t) /\ r.status = "SUCCESS" => NoNode(t, var.name, 0)
               /\ r.status = "SUCCESS" => r.tab = Grow(Push(t, var, t.scope))
<1> DEFINE r == insert_variable(t, var)
           p == Push(t, var, t.scope)
           u == Grow(p)
           node == [prehash |-> Hash[var.name], var |-> var, scope |-> 0]
           same == SameHash(t, var.name)
           first == Chain(t, var.name)[Min(same)]
<1>1. var.name \in Names /\ Fields(t, V) /\ t.blocks \in Nat \ {0} /\ t.size \in Nat
  BY DEF TableOK, Fields, Variable
<1>2. /\ Fields(p, V) /\ p.size = t.size + 1 /\ p.scope = 0 /\ p.blocks = t.blocks
      /\ Counted(p)
  BY PushOK
<1>3. BucketCount(p) = BucketCount(t)
  BY <1>2 DEF BucketCount
<1>4. p.size <= BucketCount(p) /\ 4 * p.size < 3 * (BucketCount(p) + BLOCKSIZE)
  <2>1. BucketCount(t) \in Nat /\ BucketCount(t) >= 2
    BY <1>1, BlocksArithmetic DEF BucketCount
  <2>2. 4 * t.size < 3 * BucketCount(t)
    BY DEF TableOK, LoadBelowThreshold
  <2> QED BY <1>1, <1>2, <1>3, <2>1, <2>2, SizeWithinBuckets
<1>5. TableOK(u, V) /\ u.scope = 0
  BY <1>2, <1>4, GrowOK
<1>6. /\ Nodes(p) = Nodes(t) \cup {node}
      /\ OneNodePerVariable(p)
      /\ OneDangling(t) => OneDangling(p)
      /\ DeclaredFirst(t) /\ NoNode(t, var.name, 0) => DeclaredFirst(p)
      /\ p.dangling = t.dangling
  <2>1. /\ Nodes(p) = Nodes(t) \cup
                 {[prehash |-> Hash[var.name], var |-> var, scope |-> t.scope]}
        /\ OneNodePerVariable(t) /\ Fresh(t, var) => OneNodePerVariable(p)
        /\ OneDangling(t) => OneDangling(p)
        /\ DeclaredFirst(t) /\ NoNode(t, var.name, 0) => DeclaredFirst(p)
    BY <1>1, PushNodes
  <2>2. p.dangling = t.dangling
    BY <1>1 DEF Push, Fields
  <2> QED BY <2>1, <2>2
<1>7. /\ ChainSuffixes(u, p) /\ u.blocks \in {p.blocks, p.blocks + 1}
      /\ u.dangling = p.dangling /\ u.size = p.size
  BY <1>2, <1>4, GrowSuffix
<1> HIDE DEF p
<1>8. /\ Nodes(u) \subseteq Nodes(p)
      /\ OneNodePerVariable(u)
      /\ OneDangling(p) => OneDangling(u)
      /\ DeclaredFirst(p) => DeclaredFirst(u)
  <2>1. Fields(u, V)
    BY <1>5 DEF TableOK
  <2> HIDE DEF u
  <2> QED BY <1>2, <1>6, <1>7, <2>1, SuffixNodes
<1> HIDE DEF u, node, same, first
<1>9. r = IF same # {} /\ first.scope = t.scope
          THEN [tab |-> t, status |-> "MULTIPLE_DECLARATION"]
          ELSE [tab |-> u, status |-> "SUCCESS"]
  BY DEF insert_variable, same, first, u, p
<1>10. same # {} => Min(same) \in same
  <2>1. same \in SUBSET Nat
    BY <1>1, ChainType DEF same, SameHash
  <2> QED BY <2>1, MinIsLeast
<1> HIDE DEF r
<1>11. CASE same # {} /\ first.scope = t.scope
  <2>1. r.tab = t /\ r.status = "MULTIPLE_DECLARATION"
    BY <1>9, <1>11
  <2>2. ~NoNode(t, var.name, 0)
    BY <1>10, <1>11 DEF NoNode, same, first
  <2> QED BY <1>1, <2>1, <2>2 DEF r, node, NodeOf
<1>12. CASE ~(same # {} /\ first.scope = t.scope)
  <2>1. r.tab = u /\ r.status = "SUCCESS"
    BY <1>9, <1>12
  <2>2. DeclaredFirst(t) => NoNode(t, var.name, 0)
    <3> SUFFICES ASSUME DeclaredFirst(t), NEW i \in SameHash(t, var.name)
                 PROVE  Chain(t, var.name)[i].scope # 0
      BY DEF NoNode
    <3>1. Min(same) \in same /\ Min(same) <= i
      <4>1. same \in SUBSET Nat /\ i \in same
        BY <1>1, ChainType DEF same, SameHash
      <4> QED BY <4>1, MinIsLeast
    <3>2. first.scope # 0
      BY <1>12, <3>1
    <3>3. CASE i = Min(same)
      BY <3>2, <3>3 DEF first
    <3>4. CASE i # Min(same)
      <4>1. Bucket(t, var.name) \in DOMAIN t.chains
        BY <1>1, BucketInRange, NodesType DEF Fields
      <4>2. /\ Min(same) \in DOMAIN Chain(t, var.name) /\ i \in DOMAIN Chain(t, var.name)
            /\ Chain(t, var.name)[Min(same)].prehash = Chain(t, var.name)[i].prehash
        BY <3>1 DEF same, SameHash
      <4>3. Min(same) < i
        BY <1>1, <3>1, <3>4, <4>2, ChainType
      <4> QED BY <4>1, <4>2, <4>3 DEF DeclaredFirst, Chain
    <3> QED BY <3>3, <3>4
  <2>3. u.blocks >= t.blocks /\ u.size <= t.size + 1
    BY <1>1, <1>2, <1>7
  <2> QED BY <1>5, <1>6, <1>7, <1>8, <2>1, <2>2, <2>3 DEF r, node, u, p, NodeOf
<1> QED
  BY <1>11, <1>12

\* A mention of a name that nothing declares inserts a node and marks one of
\* scope 0 that has the hash as dangling: its own, as long as there are two
\* blocks at most.
LEMMA InsertDanglingNodes ==
    ASSUME NEW V, V \subseteq Variable, NEW t, TableOK(t, V), t.scope = 0,
           NEW var \in V, Fresh(t, var), OneNodePerVariable(t), Hashed(t),
           NoNode(t, var.name, 0), NoNode(t, var.name, SCOPE_DANGLING)
    PROVE  LET r == insert_dangling_variable(t, var)
           IN  /\ r.status \in {"SUCCESS", "NULL_DEREFERENCE"}
               /\ r.tab.scope = 0
               /\ r.tab.blocks >= t.blocks
               /\ r.tab.size <= t.size + 1
               /\ r.status = "SUCCESS" => r.tab.dangling = t.dangling + 1
               /\ \A n \in Nodes(r.tab) : \E m \in Nodes(t) \cup {NodeOf(var)} :
                     n = m \/ (m.scope = 0 /\ n = Marked(m))
               /\ OneNodePerVariable(r.tab)
               /\ r.tab.blocks <= 2 =>
                     /\ Nodes(r.tab) \subseteq
                           Nodes(t) \cup {NodeOf(var), Marked(NodeOf(var))}
                     /\ r.status = "SUCCESS" =>
                           Nodes(r.tab) \subseteq Nodes(t) \cup {Marked(NodeOf(var))}
                     /\ OneDangling(t) => OneDangling(r.tab)
                     /\ DeclaredFirst(t) => DeclaredFirst(r.tab)
<1> DEFINE r == insert_variable(t, var)
           q == insert_dangling_variable(t, var)
           u == r.tab
           name == var.name
           i == lookup_node_in_scope(u, name, u.scope)
           node == [prehash |-> Hash[name], var |-> var, scope |-> 0]
           marked == SetScope(u, name, i, SCOPE_DANGLING)
           w == [marked EXCEPT !.dangling = @ + 1]
           old == Chain(u, name)[i]
           new == [old EXCEPT !.scope = SCOPE_DANGLING]
<1>1. name \in Names /\ Fields(t, V) /\ t.blocks \in Nat \ {0} /\ t.dangling \in Nat
      /\ t.size \in Nat
  BY DEF TableOK, Fields, Variable
<1>2. TableOK(u, V) /\ Fields(u, V)
  BY InsertVariableOK DEF TableOK
<1>3. /\ u.scope = 0 /\ u.dangling = t.dangling /\ u.blocks >= t.blocks
      /\ u.size <= t.size + 1
      /\ Nodes(u) \subseteq Nodes(t) \cup {node}
      /\ OneNodePerVariable(u)
      /\ OneDangling(t) => OneDangling(u)
      /\ DeclaredFirst(t) => DeclaredFirst(u)
      /\ r.status = "SUCCESS"
      /\ u = Grow(Push(t, var, t.scope))
  <2>1. /\ r.tab.scope = 0 /\ r.tab.dangling = t.dangling /\ r.tab.blocks >= t.blocks
        /\ r.tab.size <= t.size + 1
        /\ Nodes(r.tab) \subseteq Nodes(t) \cup
              {NodeOf(var)}
        /\ OneNodePerVariable(r.tab)
        /\ OneDangling(t) => OneDangling(r.tab)
        /\ DeclaredFirst(t) => DeclaredFirst(r.tab)
        /\ NoNode(t, var.name, 0) => r.status = "SUCCESS"
        /\ r.status = "SUCCESS" => r.tab = Grow(Push(t, var, t.scope))
    BY InsertVariableNodes
  <2> HIDE DEF r
  <2> QED BY <2>1 DEF NodeOf
<1>4. u.blocks <= 2 => \/ Chain(u, name) = << >>
                       \/ Chain(u, name) = <<node>> \o Chain(t, name)
  BY <1>3, InsertedIsHead
<1>5. q = IF i = 0 THEN [tab |-> u, status |-> "NULL_DEREFERENCE"]
                   ELSE [tab |-> w, status |-> "SUCCESS"]
  BY <1>3 DEF insert_dangling_variable
<1> HIDE DEF r, w, marked, old, new, node, q, i
<1>6. CASE i = 0
  <2>1. q.tab = u /\ q.status = "NULL_DEREFERENCE"
    BY <1>5, <1>6
  <2>2. \A n \in Nodes(u) : \E m \in Nodes(t) \cup {node} : n = m
    BY <1>3
  <2> QED BY <1>3, <2>1, <2>2 DEF q, node, NodeOf
<1>7. CASE i # 0
  <2>1. q.tab = w /\ q.status = "SUCCESS"
    BY <1>5, <1>7
  <2>2. i \in 1 .. Len(Chain(u, name)) /\ old.prehash = Hash[name] /\ old.scope = 0
        /\ old \in NodeOver(V)
    BY <1>1, <1>2, <1>3, <1>7, LookupNode DEF i, old
  <2>3. SCOPE_DANGLING \in Int /\ SCOPE_DANGLING # 0
    BY DEF SCOPE_DANGLING
  <2>4. /\ old \in Nodes(u)
        /\ marked = [u EXCEPT !.chains = marked.chains]
        /\ Nodes(marked) = (Nodes(u) \ {old}) \cup {new}
        /\ OneNodePerVariable(marked)
        /\ OneDangling(u) /\ NoNode(u, name, SCOPE_DANGLING) => OneDangling(marked)
        /\ DeclaredFirst(u) => DeclaredFirst(marked)
    BY <1>1, <1>2, <1>3, <2>2, <2>3, SetScopeNodes DEF marked, old, new
  <2>5. /\ w.chains = marked.chains /\ w.dangling = t.dangling + 1
        /\ w.scope = 0 /\ w.blocks = u.blocks /\ w.size = u.size
    BY <1>2, <1>3, <2>4 DEF w, Fields
  <2>6. /\ Nodes(w) = Nodes(marked)
        /\ OneNodePerVariable(marked) => OneNodePerVariable(w)
        /\ OneDangling(marked) => OneDangling(w)
        /\ DeclaredFirst(marked) => DeclaredFirst(w)
    BY <2>5 DEF Nodes, OneNodePerVariable, OneDangling, DeclaredFirst
  <2>7. \A n \in Nodes(w) : \E m \in Nodes(t) \cup {node} :
           n = m \/ (m.scope = 0 /\ n = [m EXCEPT !.scope = SCOPE_DANGLING])
    <3> TAKE n \in Nodes(w)
    <3>1. CASE n = new
      BY <1>3, <2>2, <2>4, <3>1 DEF new
    <3>2. CASE n # new
      BY <1>3, <2>4, <2>6, <3>2
    <3> QED BY <3>1, <3>2
  <2>8. ASSUME u.blocks <= 2
        PROVE  /\ Nodes(w) \subseteq Nodes(t) \cup {[node EXCEPT !.scope = SCOPE_DANGLING]}
               /\ OneDangling(t) => OneDangling(w)
    <3>1. Chain(t, name) \in Seq(NodeOver(V)) /\ Len(Chain(t, name)) \in Nat
          /\ DOMAIN Chain(t, name) = 1 .. Len(Chain(t, name))
      BY <1>1, ChainType
    <3>2. Chain(u, name) = <<node>> \o Chain(t, name)
      <4>1. Chain(u, name) # << >>
        BY <2>2
      <4> QED BY <1>4, <2>8, <4>1
    <3> DEFINE c == Chain(t, name)
               d == Chain(u, name)
    <3> HIDE DEF c
    <3>3. /\ DOMAIN d = 1 .. 1 + Len(c)
          /\ \A k \in 1 .. 1 + Len(c) : d[k] = IF k <= 1 THEN <<node>>[k] ELSE c[k - 1]
      BY <3>1, <3>2, HeadOnChain DEF c
    <3>4. d[1] = node /\ 1 \in DOMAIN d
      <4>1. Len(c) \in Nat
        BY <3>1 DEF c
      <4>2. <<node>>[1] = node
        OBVIOUS
      <4> QED BY <3>3, <4>1, <4>2
    <3>5. \A k \in DOMAIN d : k # 1 => k - 1 \in DOMAIN c /\ d[k] = c[k - 1]
      <4>1. Len(c) \in Nat /\ DOMAIN c = 1 .. Len(c)
        BY <3>1 DEF c
      <4> HIDE DEF d
      <4> QED BY <3>3, <4>1
    <3>6. node.prehash = Hash[name] /\ node.scope = 0
      BY DEF node
    <3> HIDE DEF d
    <3>7. i = 1
      <4>1. 1 \in SameHash(u, name) /\ Chain(u, name)[1].scope = 0
        BY <3>4, <3>6 DEF d, SameHash
      <4> QED BY <1>1, <1>2, <1>3, <4>1, LookupHead DEF i
    <3>8. old = node
      BY <3>4, <3>7 DEF old, d
    <3>9. NoNode(u, name, SCOPE_DANGLING)
      <4> SUFFICES ASSUME NEW k \in DOMAIN d, d[k].prehash = Hash[name]
                   PROVE  d[k].scope # SCOPE_DANGLING
        BY DEF NoNode, SameHash, d
      <4>1. CASE k = 1
        BY <2>3, <3>4, <3>6, <4>1
      <4>2. CASE k # 1
        <5>1. k - 1 \in SameHash(t, name) /\ d[k] = Chain(t, name)[k - 1]
          BY <3>5, <4>2 DEF SameHash, c
        <5> QED BY <5>1 DEF NoNode
      <4> QED BY <4>1, <4>2
    <3> QED BY <1>3, <2>4, <2>6, <3>8, <3>9 DEF new
  <2> QED BY <1>1, <1>3, <2>1, <2>4, <2>5, <2>6, <2>7, <2>8 DEF q, node, NodeOf, Marked
<1> QED
  BY <1>6, <1>7

\* Binding a dangling variable moves its node, and no other, to the current
\* scope.
LEMMA AssignNodes ==
    ASSUME NEW V, V \subseteq Variable, NEW t, TableOK(t, V), OneNodePerVariable(t),
           NEW var \in V, is_dangling(t, var)
    PROVE  LET u == assign_scope_to_dangling_variable(t, var)
               m == Chain(t, var.name)[lookup_node_in_scope(t, var.name, SCOPE_DANGLING)]
           IN  /\ m \in Nodes(t) /\ m \in NodeOver(V)
               /\ m.scope = SCOPE_DANGLING /\ m.prehash = Hash[var.name]
               /\ m.var = lookup_dangling_variable(t, var.name)
               /\ Nodes(u) = (Nodes(t) \ {m}) \cup {[m EXCEPT !.scope = t.scope]}
               /\ OneNodePerVariable(u)
               /\ u.scope = t.scope /\ u.blocks = t.blocks /\ u.size = t.size
               /\ u.dangling = t.dangling - 1
               /\ OneDangling(t) => OneDangling(u)
               /\ DeclaredFirst(t) /\ t.scope # 0 => DeclaredFirst(u)
<1> DEFINE i == lookup_node_in_scope(t, var.name, SCOPE_DANGLING)
           m == Chain(t, var.name)[i]
           bound == SetScope(t, var.name, i, t.scope)
           u == [bound EXCEPT !.dangling = @ - 1]
<1>1. i # 0 /\ var.name \in Names
  BY DEF is_dangling, lookup_dangling_variable, lookup_variable_in_scope, Variable
<1>2. Fields(t, V) /\ t.scope \in Int /\ t.scope # SCOPE_DANGLING
  BY DEF TableOK, Fields, SCOPE_DANGLING
<1>3. /\ i \in 1 .. Len(Chain(t, var.name))
      /\ m.scope = SCOPE_DANGLING /\ m.prehash = Hash[var.name] /\ m \in NodeOver(V)
  BY <1>1, <1>2, LookupNode
<1>4. assign_scope_to_dangling_variable(t, var) = u
  BY DEF assign_scope_to_dangling_variable
<1>5. m.var = lookup_dangling_variable(t, var.name)
  BY <1>1 DEF lookup_dangling_variable, lookup_variable_in_scope
<1> HIDE DEF i
<1>6. /\ m \in Nodes(t)
      /\ bound = [t EXCEPT !.chains = bound.chains]
      /\ Nodes(bound) = (Nodes(t) \ {m}) \cup {[m EXCEPT !.scope = t.scope]}
      /\ OneNodePerVariable(bound)
      /\ OneDangling(t) => OneDangling(bound)
      /\ DeclaredFirst(t) /\ t.scope # 0 => DeclaredFirst(bound)
  BY <1>1, <1>2, <1>3, SetScopeNodes
<1> HIDE DEF bound, m
<1>7. /\ u.chains = bound.chains /\ u.scope = t.scope /\ u.blocks = t.blocks
      /\ u.size = t.size /\ u.dangling = t.dangling - 1
  BY <1>2, <1>6 DEF Fields
<1> HIDE DEF u
<1>8. /\ Nodes(u) = Nodes(bound)
      /\ OneNodePerVariable(u)
      /\ OneDangling(t) => OneDangling(u)
      /\ DeclaredFirst(t) /\ t.scope # 0 => DeclaredFirst(u)
  BY <1>6, <1>7 DEF Nodes, OneNodePerVariable, OneDangling, DeclaredFirst
<1> QED
  BY <1>3, <1>4, <1>5, <1>6, <1>7, <1>8 DEF m, i

\* Opening a scope moves no node.
LEMMA NextScopeNodes ==
    ASSUME NEW V, NEW t, Fields(t, V)
    PROVE  LET u == next_scope(t)
           IN  /\ Nodes(u) = Nodes(t)
               /\ OneNodePerVariable(t) => OneNodePerVariable(u)
               /\ OneDangling(t) => OneDangling(u)
               /\ DeclaredFirst(t) => DeclaredFirst(u)
               /\ u.scope = t.scope + 1 /\ u.blocks = t.blocks /\ u.size = t.size
               /\ u.dangling = t.dangling
               /\ \A name, s : lookup_node_in_scope(u, name, s)
                                  = lookup_node_in_scope(t, name, s)
               /\ \A name : Chain(u, name) = Chain(t, name)
<1> DEFINE u == next_scope(t)
<1>1. /\ u.chains = t.chains /\ u.scope = t.scope + 1 /\ u.blocks = t.blocks
      /\ u.size = t.size /\ u.dangling = t.dangling
  BY DEF next_scope, Fields
<1> HIDE DEF u
<1>2. \A name : Chain(u, name) = Chain(t, name)
  BY <1>1 DEF Chain, Bucket, BucketCount
<1>3. \A name, s : lookup_node_in_scope(u, name, s) = lookup_node_in_scope(t, name, s)
  <2> TAKE name, s
  <2>1. Chain(u, name) = Chain(t, name)
    BY <1>2
  <2>2. SameHash(u, name) = SameHash(t, name)
    BY <2>1 DEF SameHash
  <2> QED BY <2>1, <2>2 DEF lookup_node_in_scope
<1>4. /\ Nodes(u) = Nodes(t)
      /\ OneNodePerVariable(t) => OneNodePerVariable(u)
      /\ OneDangling(t) => OneDangling(u)
      /\ DeclaredFirst(t) => DeclaredFirst(u)
  BY <1>1 DEF Nodes, OneNodePerVariable, OneDangling, DeclaredFirst
<1> QED
  BY <1>1, <1>2, <1>3, <1>4 DEF u

---------------------------------------------------------------------------
(* Lookups after a change of a chain. *)

\* A lookup does not see the nodes that a cut removes from the head of its
\* chain when none of them has the scope it asks for.
LEMMA CutLookup ==
    ASSUME NEW V, NEW t, Fields(t, V), NEW W, NEW u, Fields(u, W), NEW name \in Names,
           NEW closed, NEW d \in Nat, IsCut(Chain(t, name), Chain(u, name), d, closed),
           NEW scope, scope # closed
    PROVE  lookup_variable_in_scope(u, name, scope) = lookup_variable_in_scope(t, name, scope)
<1> DEFINE c == Chain(t, name)
           e == Chain(u, name)
           hits == {i \in SameHash(t, name) : c[i].scope = scope}
           kept == {i \in SameHash(u, name) : e[i].scope = scope}
           found(h) == IF h = {} THEN 0 ELSE Min(h)
<1>1. /\ DOMAIN c = 1 .. Len(c) /\ Len(c) \in Nat /\ d <= Len(c)
      /\ DOMAIN e = 1 .. Len(c) - d
      /\ \A i \in 1 .. d : c[i].scope = closed
      /\ \A i \in 1 .. Len(c) - d : e[i] = c[i + d]
  BY ChainType DEF IsCut
<1>2. /\ lookup_node_in_scope(t, name, scope) = found(hits)
      /\ lookup_node_in_scope(u, name, scope) = found(kept)
  BY DEF lookup_node_in_scope
<1>3. \A i \in hits : i \in Nat /\ i > d /\ i - d \in kept
  BY <1>1 DEF SameHash
<1>4. \A i \in kept : i \in Nat /\ i > 0 /\ i + d \in hits /\ e[i] = c[i + d]
  BY <1>1 DEF SameHash
<1>5. /\ lookup_variable_in_scope(t, name, scope)
            = IF found(hits) = 0 THEN NULL ELSE c[found(hits)].var
      /\ lookup_variable_in_scope(u, name, scope)
            = IF found(kept) = 0 THEN NULL ELSE e[found(kept)].var
  BY <1>2 DEF lookup_variable_in_scope
<1> HIDE DEF c, e, hits, kept
<1>6. CASE hits = {}
  <2>1. kept = {}
    BY <1>4, <1>6
  <2> QED BY <1>5, <1>6, <2>1
<1>7. CASE hits # {}
  <2> DEFINE p == Min(hits)
             q == Min(kept)
  <2>1. hits \in SUBSET Nat /\ kept \in SUBSET Nat /\ kept # {}
    BY <1>3, <1>4, <1>7
  <2>2. p \in hits /\ q \in kept /\ (\A i \in hits : p <= i) /\ (\A i \in kept : q <= i)
    BY <1>7, <2>1, MinIsLeast
  <2>3. found(hits) = p /\ found(kept) = q
    BY <1>7, <2>1
  <2> HIDE DEF p, q, found
  <2>4. p <= q + d /\ q <= p - d /\ p \in Nat /\ q \in Nat /\ q > 0 /\ p > d
    BY <1>3, <1>4, <2>2
  <2>5. p = q + d /\ p # 0 /\ q # 0
    BY <2>4
  <2>6. e[q] = c[p]
    BY <1>4, <2>2, <2>5
  <2> QED BY <1>5, <2>3, <2>5, <2>6
<1> QED
  BY <1>6, <1>7

\* A lookup does not see the scope of a node change from one that it does not
\* ask for to another, or the node of another symbol change.
LEMMA SetScopeLookup ==
    ASSUME NEW V, NEW t, Fields(t, V), NEW name \in Names,
           NEW i \in 1 .. Len(Chain(t, name)), Chain(t, name)[i].prehash = Hash[name],
           NEW new \in Int, NEW u, u.blocks = t.blocks,
           u.chains = SetScope(t, name, i, new).chains,
           NEW other \in Names, NEW scope,
           Hash[other] # Hash[name] \/ scope \notin {new, Chain(t, name)[i].scope}
    PROVE  lookup_variable_in_scope(u, other, scope) = lookup_variable_in_scope(t, other, scope)
<1> DEFINE c == Chain(t, other)
           e == Chain(u, other)
           b == Bucket(t, name)
           a == Bucket(t, other)
<1>1. /\ a \in DOMAIN t.chains /\ b \in DOMAIN t.chains
      /\ t.chains[b] \in Seq(NodeOver(V)) /\ t.chains[b][i] \in NodeOver(V)
      /\ i \in DOMAIN t.chains[b]
  <2>1. a \in DOMAIN t.chains /\ b \in DOMAIN t.chains
    BY BucketInRange, NodesType DEF Fields
  <2>2. t.chains[b] \in Seq(NodeOver(V)) /\ i \in DOMAIN t.chains[b]
    BY <2>1, NodesType DEF Chain
  <2> QED BY <2>1, <2>2, ElementOfSeq, LenProperties
<1>2. u.chains = [t.chains EXCEPT ![b][i].scope = new]
  BY DEF SetScope, Fields
<1>3. e = u.chains[a] /\ c = t.chains[a] /\ Chain(t, name) = t.chains[b]
  BY DEF Chain, Bucket, BucketCount
<1> HIDE DEF a, b
<1>4. /\ DOMAIN e = DOMAIN c
      /\ \A k \in DOMAIN c : ~(a = b /\ k = i) => e[k] = c[k]
      /\ a = b => e[i] = [c[i] EXCEPT !.scope = new]
  <2>1. CASE a # b
    BY <1>1, <1>2, <1>3, <2>1
  <2>2. CASE a = b
    <3>1. e = [c EXCEPT ![i].scope = new]
      BY <1>1, <1>2, <1>3, <2>2
    <3> QED BY <1>1, <1>3, <2>2, <3>1
  <2> QED BY <2>1, <2>2
<1>5. \A k \in DOMAIN c :
         /\ e[k].prehash = c[k].prehash
         /\ e[k].var = c[k].var
         /\ c[k].prehash = Hash[other] => (e[k].scope = scope <=> c[k].scope = scope)
  <2> TAKE k \in DOMAIN c
  <2>1. CASE ~(a = b /\ k = i)
    BY <1>4, <2>1
  <2>2. CASE a = b /\ k = i
    <3>1. /\ c[k].prehash = Hash[name] /\ c[k] = Chain(t, name)[i]
          /\ e[k].prehash = c[k].prehash /\ e[k].var = c[k].var /\ e[k].scope = new
      BY <1>1, <1>3, <1>4, <2>2 DEF NodeOver
    <3> QED BY <3>1
  <2> QED BY <2>1, <2>2
<1>6. {k \in SameHash(u, other) : e[k].scope = scope}
         = {k \in SameHash(t, other) : c[k].scope = scope}
  BY <1>4, <1>5 DEF SameHash
<1>7. lookup_node_in_scope(u, other, scope) = lookup_node_in_scope(t, other, scope)
  BY <1>6 DEF lookup_node_in_scope
<1>8. lookup_node_in_scope(t, other, scope) # 0
         => lookup_node_in_scope(t, other, scope) \in DOMAIN c
  BY LookupNode, ChainType
<1> QED
  BY <1>5, <1>7, <1>8 DEF lookup_variable_in_scope

\* Closing a scope hides no node of another one.
LEMMA PrevScopeLookup ==
    ASSUME NEW V, NEW t, TableOK(t, V), NEW name \in Names, NEW scope, scope # t.scope
    PROVE  lookup_variable_in_scope(prev_scope(t), name, scope)
              = lookup_variable_in_scope(t, name, scope)
<1> DEFINE u == prev_scope(t)
           b == Bucket(t, name)
<1>1. Fields(t, V) /\ Fields(u, V)
  BY PrevScopeOK DEF TableOK
<1>2. u.blocks = t.blocks
  BY <1>1, PrevScopeSuffix
<1>3. b \in DOMAIN t.chains /\ t.chains[b] \in Seq(NodeOver(V))
      /\ DOMAIN t.chains[b] = 1 .. Len(t.chains[b]) /\ Len(t.chains[b]) \in Nat
  BY <1>1, BucketInRange, NodesType DEF Fields
<1>4. u.chains[b] = IF b < t.size THEN PopScope(t.chains[b], t.scope) ELSE t.chains[b]
  BY <1>1, <1>3 DEF prev_scope, Fields
<1>5. Chain(t, name) = t.chains[b] /\ Chain(u, name) = u.chains[b]
  BY <1>2 DEF Chain, Bucket, BucketCount
<1> HIDE DEF u, b
<1>6. \E d \in Nat : IsCut(t.chains[b], u.chains[b], d, t.scope)
  <2>1. CASE b < t.size
    BY <1>3, <1>4, <2>1, PopScopeCuts
  <2>2. CASE ~(b < t.size)
    <3>1. IsCut(t.chains[b], u.chains[b], 0, t.scope)
      BY <1>3, <1>4, <2>2 DEF IsCut
    <3> QED BY <3>1
  <2> QED BY <2>1, <2>2
<1> QED
  BY <1>1, <1>5, <1>6, CutLookup DEF u

---------------------------------------------------------------------------
(* A table that has room for one more node does not grow, and loses none.  *)

HasRoom(t) == 4 * (t.size + 1) < 3 * BucketCount(t)

\* Each node is in the bucket of its prehash.
Placed(t) ==
    \A b \in DOMAIN t.chains : \A i \in DOMAIN t.chains[b] :
        t.chains[b][i].prehash % BucketCount(t) = b

LEMMA PlacedSuffix ==
    ASSUME NEW t, NEW u, ChainSuffixes(u, t), u.blocks = t.blocks, Placed(t)
    PROVE  Placed(u)
<1> SUFFICES ASSUME NEW b \in DOMAIN u.chains, NEW i \in DOMAIN u.chains[b]
             PROVE  u.chains[b][i].prehash % BucketCount(u) = b
  BY DEF Placed
<1>1. PICK d \in Nat : /\ b \in DOMAIN t.chains /\ i + d \in DOMAIN t.chains[b]
                       /\ u.chains[b][i] = t.chains[b][i + d]
  BY DEF ChainSuffixes
<1>2. BucketCount(u) = BucketCount(t)
  BY DEF BucketCount
<1> QED
  BY <1>1, <1>2 DEF Placed

LEMMA PlacedSetScope ==
    ASSUME NEW V, NEW t, Fields(t, V), Placed(t), NEW name \in Names,
           NEW i \in 1 .. Len(Chain(t, name)), NEW scope \in Int,
           NEW u, u.blocks = t.blocks, u.chains = SetScope(t, name, i, scope).chains
    PROVE  Placed(u)
<1> DEFINE b == Bucket(t, name)
<1>1. b \in DOMAIN t.chains /\ i \in DOMAIN t.chains[b] /\ t.chains[b][i] \in NodeOver(V)
  <2>1. b \in DOMAIN t.chains
    BY BucketInRange, NodesType DEF Fields
  <2>2. t.chains[b] \in Seq(NodeOver(V)) /\ i \in DOMAIN t.chains[b]
    BY <2>1, NodesType DEF Chain
  <2> QED BY <2>1, <2>2, ElementOfSeq, LenProperties
<1>2. u.chains = [t.chains EXCEPT ![b][i].scope = scope]
  BY DEF SetScope, Fields
<1>3. BucketCount(u) = BucketCount(t)
  BY DEF BucketCount
<1> HIDE DEF b
<1>4. /\ DOMAIN u.chains = DOMAIN t.chains
      /\ \A a \in DOMAIN t.chains : a # b => u.chains[a] = t.chains[a]
      /\ u.chains[b] = [t.chains[b] EXCEPT ![i].scope = scope]
  BY <1>1, <1>2
<1>5. [t.chains[b][i] EXCEPT !.scope = scope].prehash = t.chains[b][i].prehash
  BY <1>1 DEF NodeOver
<1>6. \A a \in DOMAIN u.chains : \A k \in DOMAIN u.chains[a] :
         k \in DOMAIN t.chains[a] /\ u.chains[a][k].prehash = t.chains[a][k].prehash
  <2> TAKE a \in DOMAIN u.chains
  <2>1. CASE a # b
    BY <1>4, <2>1
  <2>2. CASE a = b
    BY <1>1, <1>4, <1>5, <2>2
  <2> QED BY <2>1, <2>2
<1> QED
  BY <1>3, <1>4, <1>6 DEF Placed

LEMMA PlacedPush ==
    ASSUME NEW V, V \subseteq Variable, NEW t, Fields(t, V), Placed(t), NEW var \in V
    PROVE  Placed(Push(t, var, t.scope))
<1> DEFINE u == Push(t, var, t.scope)
           b0 == Bucket(t, var.name)
           node == [prehash |-> Hash[var.name], var |-> var, scope |-> t.scope]
<1>1. b0 \in DOMAIN t.chains
  BY BucketInRange, NodesType DEF Fields, Variable
<1>2. /\ u.chains = [t.chains EXCEPT ![b0] = <<node>> \o @]
      /\ u.blocks = t.blocks
  BY DEF Push, Fields
<1>3. BucketCount(u) = BucketCount(t)
  BY <1>2 DEF BucketCount
<1>4. node.prehash % BucketCount(t) = b0
  BY DEF Bucket
<1> HIDE DEF u, b0, node
<1>5. /\ DOMAIN u.chains = DOMAIN t.chains
      /\ \A a \in DOMAIN t.chains : a # b0 => u.chains[a] = t.chains[a]
      /\ u.chains[b0] = <<node>> \o t.chains[b0]
  BY <1>1, <1>2
<1>6. /\ DOMAIN u.chains[b0] = 1 .. 1 + Len(t.chains[b0])
      /\ \A i \in 1 .. 1 + Len(t.chains[b0]) : u.chains[b0][i] =
            IF i <= 1 THEN <<node>>[i] ELSE t.chains[b0][i - 1]
      /\ DOMAIN t.chains[b0] = 1 .. Len(t.chains[b0]) /\ Len(t.chains[b0]) \in Nat
  <2>1. /\ t.chains[b0] \in Seq(NodeOver(V)) /\ DOMAIN t.chains[b0] = 1 .. Len(t.chains[b0])
        /\ Len(t.chains[b0]) \in Nat
    BY <1>1, NodesType
  <2> QED BY <1>5, <2>1, HeadOnChain
<1>7. ASSUME NEW i \in DOMAIN u.chains[b0]
      PROVE  u.chains[b0][i].prehash % BucketCount(t) = b0
  <2>1. CASE i = 1
    BY <1>4, <1>6, <2>1
  <2>2. CASE i # 1
    <3>1. i - 1 \in DOMAIN t.chains[b0] /\ u.chains[b0][i] = t.chains[b0][i - 1]
      BY <1>6, <2>2
    <3> QED BY <1>1, <3>1 DEF Placed
  <2> QED BY <2>1, <2>2
<1> QED
  BY <1>3, <1>5, <1>7 DEF Placed, u

LEMMA PushKeepsRoom ==
    ASSUME NEW V, V \subseteq Variable, NEW t, Fields(t, V), HasRoom(t), NEW var \in V
    PROVE  Grow(Push(t, var, t.scope)) = Push(t, var, t.scope)
<1> DEFINE p == Push(t, var, t.scope)
<1>1. p.size = t.size + 1 /\ p.blocks = t.blocks
  BY DEF Push, Fields
<1>2. BucketCount(p) = BucketCount(t)
  BY <1>1 DEF BucketCount
<1> HIDE DEF p
<1>3. 4 * p.size < 3 * BucketCount(p)
  BY <1>1, <1>2 DEF HasRoom
<1> QED
  BY <1>3 DEF Grow, p

LEMMA InsertVariableRoom ==
    ASSUME NEW V, V \subseteq Variable, NEW t, TableOK(t, V), t.scope = 0,
           NEW var \in V, Fresh(t, var), OneNodePerVariable(t), DeclaredFirst(t),
           HasRoom(t), Placed(t)
    PROVE  LET r == insert_variable(t, var)
           IN  /\ r.status \in {"SUCCESS", "MULTIPLE_DECLARATION"}
               /\ r.status = "SUCCESS" <=> NoNode(t, var.name, 0)
               /\ r.status = "SUCCESS" => Nodes(r.tab) = Nodes(t) \cup {NodeOf(var)}
               /\ r.status # "SUCCESS" => r.tab = t
               /\ r.tab.blocks = t.blocks
               /\ Placed(r.tab)
<1> DEFINE r == insert_variable(t, var)
           p == Push(t, var, t.scope)
<1>1. /\ r.status \in {"SUCCESS", "MULTIPLE_DECLARATION"}
      /\ r.status = "SUCCESS" <=> NoNode(t, var.name, 0)
      /\ r.status # "SUCCESS" => r.tab = t
      /\ r.status = "SUCCESS" => r.tab = Grow(p)
  BY InsertVariableNodes
<1>2. Fields(t, V)
  BY DEF TableOK
<1>3. Grow(p) = p
  BY <1>2, PushKeepsRoom
<1>4. Nodes(p) = Nodes(t) \cup {NodeOf(var)}
  BY <1>2, PushNodes DEF NodeOf
<1>5. p.blocks = t.blocks
  BY <1>2 DEF Push, Fields
<1>6. Placed(p)
  BY <1>2, PlacedPush
<1> HIDE DEF r, p
<1> QED
  BY <1>1, <1>3, <1>4, <1>5, <1>6 DEF r

LEMMA InsertDanglingRoom ==
    ASSUME NEW V, V \subseteq Variable, NEW t, TableOK(t, V), t.scope = 0,
           NEW var \in V, Fresh(t, var), OneNodePerVariable(t), DeclaredFirst(t),
           NoNode(t, var.name, 0), HasRoom(t), Placed(t)
    PROVE  LET r == insert_dangling_variable(t, var)
           IN  /\ r.status = "SUCCESS"
               /\ Nodes(r.tab) = Nodes(t) \cup {Marked(NodeOf(var))}
               /\ r.tab.blocks = t.blocks
               /\ Placed(r.tab)
<1> DEFINE r == insert_variable(t, var)
           q == insert_dangling_variable(t, var)
           u == r.tab
           name == var.name
           i == lookup_node_in_scope(u, name, u.scope)
           marked == SetScope(u, name, i, SCOPE_DANGLING)
           w == [marked EXCEPT !.dangling = @ + 1]
<1>1. name \in Names /\ Fields(t, V) /\ t.blocks \in Nat \ {0}
  BY DEF TableOK, Fields, Variable
<1>2. /\ r.status = "SUCCESS" /\ Nodes(u) = Nodes(t) \cup {NodeOf(var)}
      /\ u.blocks = t.blocks /\ Placed(u)
      /\ u.scope = 0 /\ OneNodePerVariable(u)
      /\ u = Grow(Push(t, var, t.scope))
  <2>1. /\ r.status = "SUCCESS" <=> NoNode(t, var.name, 0)
        /\ r.status = "SUCCESS" => Nodes(r.tab) = Nodes(t) \cup {NodeOf(var)}
        /\ r.tab.blocks = t.blocks
        /\ Placed(r.tab)
    BY InsertVariableRoom
  <2>2. /\ r.tab.scope = 0 /\ OneNodePerVariable(r.tab)
        /\ r.status = "SUCCESS" => r.tab = Grow(Push(t, var, t.scope))
    BY InsertVariableNodes
  <2> HIDE DEF r
  <2> QED BY <2>1, <2>2
<1>3. u = Push(t, var, t.scope)
  BY <1>1, <1>2, PushKeepsRoom
<1>4. Fields(u, V)
  BY InsertVariableOK DEF TableOK
<1>5. q = IF i = 0 THEN [tab |-> u, status |-> "NULL_DEREFERENCE"]
                   ELSE [tab |-> w, status |-> "SUCCESS"]
  BY <1>2 DEF insert_dangling_variable
<1>6. 1 \in DOMAIN Chain(u, name) /\ Chain(u, name)[1] = NodeOf(var)
  <2> DEFINE b == Bucket(t, name)
  <2>1. b \in DOMAIN t.chains /\ t.chains[b] \in Seq(NodeOver(V))
        /\ Len(t.chains[b]) \in Nat
    BY <1>1, BucketInRange, NodesType
  <2>2. u.chains = [t.chains EXCEPT ![b] = <<NodeOf(var)>> \o @]
    BY <1>1, <1>3 DEF Push, Fields, NodeOf
  <2>3. Chain(u, name) = u.chains[b]
    BY <1>2 DEF Chain, Bucket, BucketCount
  <2> HIDE DEF b, u
  <2>4. Chain(u, name) = <<NodeOf(var)>> \o t.chains[b]
    BY <2>1, <2>2, <2>3
  <2>5. /\ DOMAIN (<<NodeOf(var)>> \o t.chains[b]) = 1 .. 1 + Len(t.chains[b])
        /\ \A k \in 1 .. 1 + Len(t.chains[b]) : (<<NodeOf(var)>> \o t.chains[b])[k] =
              IF k <= 1 THEN <<NodeOf(var)>>[k] ELSE t.chains[b][k - 1]
    BY <2>1, HeadOnChain
  <2>6. 1 \in 1 .. 1 + Len(t.chains[b]) /\ <<NodeOf(var)>>[1] = NodeOf(var)
    BY <2>1
  <2> HIDE DEF name
  <2> QED BY <2>4, <2>5, <2>6
<1>7. NodeOf(var).prehash = Hash[name] /\ NodeOf(var).scope = 0 /\ NodeOf(var).var = var
  BY DEF NodeOf
<1>8. i = 1
  <2>1. 1 \in SameHash(u, name)
    BY <1>6, <1>7 DEF SameHash
  <2> HIDE DEF u
  <2> QED BY <1>1, <1>2, <1>4, <1>6, <1>7, <2>1, LookupHead
<1>9. q.tab = w /\ q.status = "SUCCESS"
  BY <1>5, <1>8
<1> HIDE DEF r, i
<1>10. i \in 1 .. Len(Chain(u, name)) /\ SCOPE_DANGLING \in Int
  BY <1>1, <1>4, <1>6, <1>8, ChainType DEF SCOPE_DANGLING
<1>11. /\ marked = [u EXCEPT !.chains = marked.chains]
       /\ Nodes(marked) = (Nodes(u) \ {NodeOf(var)}) \cup {Marked(NodeOf(var))}
  BY <1>1, <1>2, <1>4, <1>6, <1>8, <1>10, SetScopeNodes DEF Marked
<1> HIDE DEF marked
<1>12. w.chains = marked.chains /\ w.blocks = u.blocks
  BY <1>4, <1>11 DEF Fields
<1> HIDE DEF w
<1>13. Placed(w)
  BY <1>1, <1>2, <1>4, <1>10, <1>12, PlacedSetScope DEF marked
<1>14. Nodes(w) = Nodes(marked)
  BY <1>12 DEF Nodes
<1>15. NodeOf(var) \notin Nodes(t)
  BY <1>7 DEF Fresh
<1>16. Nodes(w) = Nodes(t) \cup {Marked(NodeOf(var))}
  <2> HIDE DEF u, q
  <2> QED BY <1>2, <1>11, <1>14, <1>15
<1> HIDE DEF q, u
<1> QED
  BY <1>2, <1>9, <1>12, <1>13, <1>16 DEF q

\* A symbol has one node of scope 0, and one that dangles.
LEMMA UniqueNode ==
    ASSUME NEW V, NEW t, Fields(t, V), Placed(t),
           NEW m \in Nodes(t), NEW n \in Nodes(t), m.prehash = n.prehash
    PROVE  /\ OneDangling(t) /\ m.scope = SCOPE_DANGLING /\ n.scope = SCOPE_DANGLING
                => m = n
           /\ DeclaredFirst(t) /\ m.scope = 0 /\ n.scope = 0 => m = n
<1>1. PICK b \in DOMAIN t.chains : \E i \in DOMAIN t.chains[b] : m = t.chains[b][i]
  BY NodesDef
<1>2. PICK i \in DOMAIN t.chains[b] : m = t.chains[b][i]
  BY <1>1
<1>3. PICK c \in DOMAIN t.chains : \E j \in DOMAIN t.chains[c] : n = t.chains[c][j]
  BY NodesDef
<1>4. PICK j \in DOMAIN t.chains[c] : n = t.chains[c][j]
  BY <1>3
<1>5. b = c
  BY <1>2, <1>4 DEF Placed
<1>6. i \in Nat /\ j \in Nat
  BY <1>5, NodesType
<1>7. OneDangling(t) /\ m.scope = SCOPE_DANGLING /\ n.scope = SCOPE_DANGLING => m = n
  BY <1>2, <1>4, <1>5 DEF OneDangling
<1>8. ASSUME DeclaredFirst(t), m.scope = 0, n.scope = 0 PROVE m = n
  <2>1. ~(i < j) /\ ~(j < i)
    BY <1>2, <1>4, <1>5, <1>8 DEF DeclaredFirst
  <2> QED BY <1>2, <1>4, <1>5, <1>6, <2>1
<1> QED
  BY <1>7, <1>8

---------------------------------------------------------------------------
(* The table that initialize_table returns. *)

\* The standard functions, and the variables allocated for them.
LEMMA SixFunctions == IsFiniteSet(StdFunctions) /\ Cardinality(StdFunctions) = 6
<1>1. IsFiniteSet({"columns"}) /\ Cardinality({"columns"}) = 1
  BY FS_Singleton
<1>2. /\ IsFiniteSet({"columns"} \cup {"lines"})
      /\ Cardinality({"columns"} \cup {"lines"}) = 2
  BY <1>1, FS_AddElement
<1>3. /\ IsFiniteSet({"columns"} \cup {"lines"} \cup {"byIndex"})
      /\ Cardinality({"columns"} \cup {"lines"} \cup {"byIndex"}) = 3
  BY <1>2, FS_AddElement
<1>4. /\ IsFiniteSet({"columns"} \cup {"lines"} \cup {"byIndex"} \cup {"filter"})
      /\ Cardinality({"columns"} \cup {"lines"} \cup {"byIndex"} \cup {"filter"}) = 4
  BY <1>3, FS_AddElement
<1>5. /\ IsFiniteSet({"columns"} \cup {"lines"} \cup {"byIndex"} \cup {"filter"}
                     \cup {"toString"})
      /\ Cardinality({"columns"} \cup {"lines"} \cup {"byIndex"} \cup {"filter"}
                     \cup {"toString"}) = 5
  BY <1>4, FS_AddElement
<1>6. /\ IsFiniteSet({"columns"} \cup {"lines"} \cup {"byIndex"} \cup {"filter"}
                     \cup {"toString"} \cup {"at"})
      /\ Cardinality({"columns"} \cup {"lines"} \cup {"byIndex"} \cup {"filter"}
                     \cup {"toString"} \cup {"at"}) = 6
  BY <1>5, FS_AddElement
<1>7. StdFunctions = {"columns"} \cup {"lines"} \cup {"byIndex"} \cup {"filter"}
                     \cup {"toString"} \cup {"at"}
  BY DEF StdFunctions
<1> QED
  BY <1>6, <1>7

LEMMA StdFunctionsFinite ==
    IsFiniteSet([name : StdFunctions, id : {0}])
<1> DEFINE f == [s \in StdFunctions |-> [name |-> s, id |-> 0]]
           T == [name : StdFunctions, id : {0}]
<1>1. IsFiniteSet(StdFunctions)
  BY SixFunctions
<1>2. f \in [StdFunctions -> T]
  OBVIOUS
<1>3. \A v \in T : \E s \in StdFunctions : f[s] = v
  <2> TAKE v \in T
  <2>1. v.name \in StdFunctions /\ v = [name |-> v.name, id |-> 0]
    OBVIOUS
  <2> QED BY <2>1
<1>4. f \in Surjection(StdFunctions, T)
  <2> HIDE DEF f, T
  <2> QED BY <1>2, <1>3 DEF Surjection
<1> QED
  BY <1>1, <1>4, FS_Surjection

\* A table whose nodes are in their buckets, with one for each name of done.
Loaded(t, done) ==
    /\ Placed(t)
    /\ \A f \in done : \E n \in Nodes(t) : n.prehash = Hash[f] /\ n.scope = 0

\* The table while the standard functions are inserted: those of done are.
Initializing(t, done) ==
    /\ TableOK(t, [name : StdFunctions, id : {0}])
    /\ t.scope = 0 /\ t.dangling = 0
    /\ OneNodePerVariable(t) /\ OneDangling(t) /\ DeclaredFirst(t)
    /\ Hashed(t)
    /\ \A n \in Nodes(t) : n.scope = 0 /\ n.var.name \in done
    /\ t.blocks = 1 /\ HasRoom(t) => Loaded(t, done)
    /\ IsFiniteSet(done) /\ t.size <= Cardinality(done)
    /\ BLOCKSIZE >= 9 => t.blocks = 1

LEMMA NodeOfSymbol ==
    ASSUME NEW V, NEW t, Fields(t, V), NEW name \in Names, NEW scope,
           ~NoNode(t, name, scope)
    PROVE  \E n \in Nodes(t) : n.prehash = Hash[name] /\ n.scope = scope
<1>1. PICK i \in SameHash(t, name) : Chain(t, name)[i].scope = scope
  BY DEF NoNode
<1>2. Bucket(t, name) \in DOMAIN t.chains
  BY BucketInRange, NodesType DEF Fields
<1>3. /\ i \in DOMAIN t.chains[Bucket(t, name)]
      /\ Chain(t, name)[i] = t.chains[Bucket(t, name)][i]
      /\ Chain(t, name)[i].prehash = Hash[name]
  BY <1>1 DEF SameHash, Chain
<1>4. Chain(t, name)[i] \in Nodes(t)
  BY <1>2, <1>3, NodesDef
<1> QED
  BY <1>1, <1>3, <1>4

\* An insertion into a table that still has room afterwards.
LEMMA InsertFunctionRoom ==
    ASSUME NEW V, V \subseteq Variable, NEW t, TableOK(t, V), t.scope = 0,
           NEW v \in V, Fresh(t, v), OneNodePerVariable(t), DeclaredFirst(t),
           NEW done, t.blocks = 1 /\ HasRoom(t) => Loaded(t, done),
           insert_variable(t, v).tab.blocks = 1, HasRoom(insert_variable(t, v).tab)
    PROVE  Loaded(insert_variable(t, v).tab, done \cup {v.name})
<1> DEFINE r == insert_variable(t, v)
           p == Push(t, v, t.scope)
<1>1. /\ t.blocks \in Nat \ {0} /\ t.size \in Nat /\ BLOCKSIZE \in Nat
      /\ v.name \in Names /\ Fields(t, V)
  BY BlockSizeAssumption DEF TableOK, Fields, Variable
<1>2. /\ r.status \in {"SUCCESS", "MULTIPLE_DECLARATION"}
      /\ r.tab.blocks >= t.blocks
      /\ r.status # "SUCCESS" => r.tab = t
      /\ r.status = "SUCCESS" => r.tab = Grow(p)
  BY InsertVariableNodes
<1>3. t.blocks = 1
  BY <1>1, <1>2 DEF r
<1>4. r.status = "SUCCESS" => r.tab.size = t.size + 1
  <2>1. Fields(p, V) /\ p.size = t.size + 1 /\ p.blocks = t.blocks
    BY PushOK
  <2> HIDE DEF p
  <2>2. t.size + 1 <= BucketCount(t)
    BY <1>1, <1>3 DEF TableOK, LoadBelowThreshold, BucketCount
  <2>3. p.size <= BucketCount(p)
    BY <2>1, <2>2 DEF BucketCount
  <2> QED BY <1>2, <2>1, <2>3, GrowSuffix
<1>5. HasRoom(t)
  BY <1>1, <1>2, <1>3, <1>4 DEF HasRoom, BucketCount, r
<1>6. Loaded(t, done)
  BY <1>3, <1>5
<1>7. /\ r.status = "SUCCESS" <=> NoNode(t, v.name, 0)
      /\ r.status = "SUCCESS" => Nodes(r.tab) = Nodes(t) \cup {NodeOf(v)}
      /\ Placed(r.tab)
  BY <1>5, <1>6, InsertVariableRoom DEF Loaded
<1> HIDE DEF r
<1>8. ASSUME NEW f \in done
      PROVE  \E n \in Nodes(r.tab) : n.prehash = Hash[f] /\ n.scope = 0
  BY <1>2, <1>6, <1>7 DEF Loaded
<1>9. \E n \in Nodes(r.tab) : n.prehash = Hash[v.name] /\ n.scope = 0
  <2>1. CASE r.status = "SUCCESS"
    <3>1. NodeOf(v) \in Nodes(r.tab)
      BY <1>7, <2>1
    <3>2. NodeOf(v).prehash = Hash[v.name] /\ NodeOf(v).scope = 0
      BY DEF NodeOf
    <3> QED BY <3>1, <3>2
  <2>2. CASE r.status # "SUCCESS"
    BY <1>1, <1>2, <1>7, <2>2, NodeOfSymbol
  <2> QED BY <2>1, <2>2
<1> QED
  BY <1>7, <1>8, <1>9 DEF Loaded, r

LEMMA InsertFunctionNames ==
    ASSUME NEW done \in SUBSET StdFunctions, NEW t, Initializing(t, done), NEW name \in StdFunctions \ done
    PROVE  Initializing(insert_function(t, name), done \cup {name})
<1> DEFINE V == [name : StdFunctions, id : {0}]
           v == [name |-> name, id |-> 0]
           r == insert_variable(t, v)
<1>1. V \subseteq Variable /\ v \in V /\ v.name = name
  BY NamesAssumption DEF Variable
<1>2. insert_function(t, name) = r.tab
  BY DEF insert_function
<1>3. /\ TableOK(t, V) /\ t.scope = 0 /\ t.dangling = 0
      /\ OneNodePerVariable(t) /\ OneDangling(t) /\ DeclaredFirst(t) /\ Hashed(t)
      /\ \A n \in Nodes(t) : n.scope = 0 /\ n.var.name \in done
  BY DEF Initializing
<1>4. Fresh(t, v)
  BY <1>1, <1>3 DEF Fresh
<1>5. NodeOf(v).var = v /\ NodeOf(v).scope = 0 /\ NodeOf(v).prehash = Hash[v.name]
  BY DEF NodeOf
<1> HIDE DEF V, v
<1>6. TableOK(r.tab, V)
  BY <1>1, <1>3, InsertVariableOK
<1>7. /\ r.tab.scope = 0 /\ r.tab.dangling = t.dangling
      /\ Nodes(r.tab) \subseteq Nodes(t) \cup {NodeOf(v)}
      /\ OneNodePerVariable(r.tab) /\ OneDangling(r.tab) /\ DeclaredFirst(r.tab)
  BY <1>1, <1>3, <1>4, InsertVariableNodes
<1> HIDE DEF r
<1>9. r.tab.blocks = 1 /\ HasRoom(r.tab) => Loaded(r.tab, done \cup {name})
  <2>1. t.blocks = 1 /\ HasRoom(t) => Loaded(t, done)
    BY DEF Initializing
  <2> QED BY <1>1, <1>3, <1>4, <2>1, InsertFunctionRoom DEF r
<1>8. /\ Hashed(r.tab)
      /\ \A n \in Nodes(r.tab) : n.scope = 0 /\ n.var.name \in done \cup {name}
  BY <1>1, <1>3, <1>5, <1>7 DEF Hashed
<1>10. IsFiniteSet(done \cup {name}) /\ r.tab.size <= Cardinality(done \cup {name})
  <2>1. /\ IsFiniteSet(done) /\ t.size <= Cardinality(done) /\ t.size \in Nat
        /\ Cardinality(done) \in Nat
    BY FS_CardinalityType DEF Initializing, TableOK, Fields
  <2>2. /\ IsFiniteSet(done \cup {name})
        /\ Cardinality(done \cup {name}) = Cardinality(done) + 1
    BY <2>1, FS_AddElement
  <2>3. r.tab.size <= t.size + 1 /\ r.tab.size \in Nat
    <3>1. r.tab.size <= t.size + 1
      BY <1>1, <1>3, <1>4, InsertVariableNodes DEF r
    <3> QED BY <1>6, <3>1 DEF TableOK, Fields
  <2> QED BY <2>1, <2>2, <2>3
<1>11. ASSUME BLOCKSIZE >= 9 PROVE r.tab.blocks = 1
  <2>1. t.blocks = 1 /\ t.size <= Cardinality(done) /\ IsFiniteSet(done) /\ t.size \in Nat
    BY <1>11 DEF Initializing, TableOK, Fields
  <2>2. Cardinality(done) <= 5 /\ Cardinality(done) \in Nat
    <3>1. done \in SUBSET (StdFunctions \ {name})
      OBVIOUS
    <3>2. IsFiniteSet(StdFunctions) /\ Cardinality(StdFunctions) = 6
      BY SixFunctions
    <3>3. IsFiniteSet(StdFunctions \ {name}) /\ Cardinality(StdFunctions \ {name}) = 5
      BY <3>2, FS_RemoveElement
    <3> QED BY <3>1, <3>3, FS_Subset, FS_CardinalityType
  <2>3. HasRoom(t)
    BY <1>11, <2>1, <2>2, BlockSizeAssumption DEF HasRoom, BucketCount
  <2>4. Placed(t)
    BY <2>1, <2>3 DEF Initializing, Loaded
  <2> QED BY <1>1, <1>3, <1>4, <2>1, <2>3, <2>4, InsertVariableRoom DEF r
<1> QED
  BY <1>2, <1>3, <1>6, <1>7, <1>8, <1>9, <1>10, <1>11 DEF Initializing, V

LEMMA EmptyTableNames == Initializing(EmptyTable, {})
<1>1. TableOK(EmptyTable, [name : StdFunctions, id : {0}])
  BY EmptyTableOK
<1>2. /\ EmptyTable.scope = 0 /\ EmptyTable.dangling = 0
      /\ EmptyTable.size = 0 /\ EmptyTable.blocks = 1
  BY DEF EmptyTable
<1>6. IsFiniteSet({}) /\ Cardinality({}) = 0
  BY FS_EmptySet
<1>3. \A b \in DOMAIN EmptyTable.chains : DOMAIN EmptyTable.chains[b] = {}
  BY DEF EmptyTable
<1>4. Nodes(EmptyTable) = {}
  BY <1>3, NodesDef
<1>5. Loaded(EmptyTable, {})
  BY <1>3 DEF Loaded, Placed
<1> QED
  BY <1>1, <1>2, <1>3, <1>4, <1>5, <1>6
     DEF Initializing, OneNodePerVariable, OneDangling, DeclaredFirst, Hashed

LEMMA InitialTableNames == Initializing(initialize_table, StdFunctions)
<1> DEFINE t1 == insert_function(EmptyTable, "columns")
           t2 == insert_function(t1, "lines")
           t3 == insert_function(t2, "byIndex")
           t4 == insert_function(t3, "filter")
           t5 == insert_function(t4, "toString")
<1>1. StdFunctions = {"columns", "lines", "byIndex", "filter", "toString", "at"}
  BY DEF StdFunctions
<1>2. Initializing(t1, {"columns"})
  <2>1. "columns" \in StdFunctions \ {} /\ {} \cup {"columns"} = {"columns"}
    BY <1>1
  <2>2. Initializing(t1, {} \cup {"columns"})
    BY <2>1, EmptyTableNames, InsertFunctionNames
  <2> QED BY <2>1, <2>2
<1> HIDE DEF t1
<1>3. Initializing(t2, {"columns"} \cup {"lines"})
  <2>1. /\ "lines" \in StdFunctions \ {"columns"}
        /\ {"columns"} \in SUBSET StdFunctions
    BY <1>1
  <2> QED BY <1>2, <2>1, InsertFunctionNames
<1> HIDE DEF t2
<1>4. Initializing(t3, {"columns"} \cup {"lines"} \cup {"byIndex"})
  <2>1. /\ "byIndex" \in StdFunctions \ ({"columns"} \cup {"lines"})
        /\ ({"columns"} \cup {"lines"}) \in SUBSET StdFunctions
    BY <1>1
  <2> QED BY <1>3, <2>1, InsertFunctionNames
<1> HIDE DEF t3
<1>5. Initializing(t4, {"columns"} \cup {"lines"} \cup {"byIndex"} \cup {"filter"})
  <2>1. /\ "filter" \in StdFunctions \ ({"columns"} \cup {"lines"} \cup {"byIndex"})
        /\ ({"columns"} \cup {"lines"} \cup {"byIndex"}) \in SUBSET StdFunctions
    BY <1>1
  <2> QED BY <1>4, <2>1, InsertFunctionNames
<1> HIDE DEF t4
<1>6. Initializing(t5, {"columns"} \cup {"lines"} \cup {"byIndex"} \cup {"filter"}
                          \cup {"toString"})
  <2>1. /\ "toString" \in StdFunctions \ ({"columns"} \cup {"lines"} \cup {"byIndex"}
                                            \cup {"filter"})
        /\ ({"columns"} \cup {"lines"} \cup {"byIndex"}
              \cup {"filter"}) \in SUBSET StdFunctions
    BY <1>1
  <2> QED BY <1>5, <2>1, InsertFunctionNames
<1> HIDE DEF t5
<1>7. Initializing(insert_function(t5, "at"),
          {"columns"} \cup {"lines"} \cup {"byIndex"} \cup {"filter"} \cup {"toString"}
             \cup {"at"})
  <2>1. /\ "at" \in StdFunctions \ ({"columns"} \cup {"lines"} \cup {"byIndex"}
                                       \cup {"filter"} \cup {"toString"})
        /\ ({"columns"} \cup {"lines"} \cup {"byIndex"}
              \cup {"filter"} \cup {"toString"}) \in SUBSET StdFunctions
    BY <1>1
  <2> QED BY <1>6, <2>1, InsertFunctionNames
<1>8. {"columns"} \cup {"lines"} \cup {"byIndex"} \cup {"filter"} \cup {"toString"}
         \cup {"at"} = StdFunctions
  BY <1>1
<1> QED
  BY <1>7, <1>8 DEF initialize_table, t1, t2, t3, t4, t5
============================================================================
