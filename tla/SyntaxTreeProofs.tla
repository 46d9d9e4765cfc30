-------------------------- MODULE SyntaxTreeProofs --------------------------
(***************************************************************************)
(* The release of a syntax tree touches only memory that is allocated, its *)
(* list of addresses never overflows, and what it leaves is left for one   *)
(* of three reasons, for every program, every set of addresses and every   *)
(* choice of malloc.                                                       *)
(*                                                                         *)
(* The first two follow from the shape the reductions keep: a value on the *)
(* parser's stack is the only pointer to its object, and pointers go down  *)
(* a rank. The third needs what accounts for each object until then: the   *)
(* parser's stack, the table, the C stack or another object.               *)
(***************************************************************************)
EXTENDS SyntaxTree, Extrema, SequenceTheorems

\* What the release visits of an object.
Parts(o) == Range(o.fields) \ {NULL}

\* A rank that falls along every pointer: the graph has no cycle.
Ranked(rank, h, l) ==
    \A p \in l : \A f \in Parts(h[p]) : rank[f] < rank[p]

Acyclic(h, l) == \E rank \in [Addresses -> Nat] : Ranked(rank, h, l)

Distinct(s) == \A i, j \in DOMAIN s : s[i] = s[j] => i = j

\* The heap h with its live addresses l, and the values v that own their
\* objects: nothing else points to them.
Tree(h, l, v) ==
    /\ DOMAIN h \subseteq Addresses /\ l \subseteq DOMAIN h
    /\ \A a \in DOMAIN h : h[a] \in Objects
    /\ v \in Seq(l) /\ Distinct(v)
    /\ \A a \in Range(v) : h[a].kind # "variable"
    /\ \A p \in l : Parts(h[p]) \subseteq l /\ Parts(h[p]) \cap Range(v) = {}
    /\ Acyclic(h, l)

---------------------------------------------------------------------------
(* Sequences and what they point to. *)

LEMMA RangeOf ==
    ASSUME NEW S, NEW s \in Seq(S)
    PROVE  /\ Range(s) = {s[i] : i \in 1 .. Len(s)}
           /\ Range(s) \subseteq S
BY LenProperties DEF Range

LEMMA RangeAppend ==
    ASSUME NEW S, NEW s \in Seq(S), NEW e \in S
    PROVE  Range(Append(s, e)) = Range(s) \cup {e}
BY RangeOf, AppendProperties DEF Range

LEMMA RangeConcat ==
    ASSUME NEW S, NEW s \in Seq(S), NEW t \in Seq(S)
    PROVE  Range(s \o t) = Range(s) \cup Range(t)
<1>1. /\ s \o t \in Seq(S) /\ Len(s \o t) = Len(s) + Len(t)
      /\ \A i \in 1 .. Len(s) + Len(t) :
             (s \o t)[i] = IF i <= Len(s) THEN s[i] ELSE t[i - Len(s)]
  BY ConcatProperties
<1>2. Len(s) \in Nat /\ Len(t) \in Nat
  BY LenProperties
<1>3. Range(s \o t) = {(s \o t)[i] : i \in 1 .. Len(s) + Len(t)}
  BY <1>1, RangeOf
<1>4. Range(s) = {s[i] : i \in 1 .. Len(s)} /\ Range(t) = {t[i] : i \in 1 .. Len(t)}
  BY RangeOf
<1>5. ASSUME NEW i \in 1 .. Len(t) PROVE t[i] \in Range(s \o t)
  <2>1. Len(s) + i \in 1 .. Len(s) + Len(t) /\ ~(Len(s) + i <= Len(s)) /\ Len(s) + i - Len(s) = i
    BY <1>2
  <2> QED BY <2>1, <1>1, <1>3
<1>6. ASSUME NEW i \in 1 .. Len(s) PROVE s[i] \in Range(s \o t)
  BY <1>1, <1>2, <1>3
<1>7. ASSUME NEW i \in 1 .. Len(s) + Len(t) PROVE (s \o t)[i] \in Range(s) \cup Range(t)
  <2>1. CASE i <= Len(s)
    BY <2>1, <1>1, <1>2, <1>4
  <2>2. CASE ~(i <= Len(s))
    <3>1. i - Len(s) \in 1 .. Len(t)
      BY <2>2, <1>2
    <3> QED BY <2>2, <3>1, <1>1, <1>4
  <2> QED BY <2>1, <2>2
<1> QED BY <1>3, <1>4, <1>5, <1>6, <1>7

LEMMA PartsAreAddresses ==
    ASSUME NEW o \in Objects
    PROVE  /\ o.fields \in Seq(Addresses \cup {NULL})
           /\ Parts(o) \subseteq Addresses
BY RangeOf DEF Parts, Objects

\* Some number is above the ranks of all the parts of an object.
LEMMA RankAbove ==
    ASSUME NEW o \in Objects, NEW rank \in [Addresses -> Nat]
    PROVE  \E n \in Nat : \A f \in Parts(o) : rank[f] < n
<1> DEFINE I == {i \in 1 .. Len(o.fields) : o.fields[i] # NULL}
           S == {rank[o.fields[i]] : i \in I}
<1>1. o.fields \in Seq(Addresses \cup {NULL}) /\ Len(o.fields) \in Nat
  BY PartsAreAddresses, LenProperties
<1>2. Parts(o) = {o.fields[i] : i \in I}
  BY <1>1, RangeOf DEF Parts
<1>3. \A f \in Parts(o) : rank[f] \in S
  BY <1>2
<1>4. S \in SUBSET Nat
  BY <1>1, ElementOfSeq
<1>5. IsFiniteSet(S)
  <2>1. IsFiniteSet(1 .. Len(o.fields))
    BY <1>1, FS_Interval
  <2>2. IsFiniteSet(I)
    BY <2>1, FS_Subset
  <2> HIDE DEF I
  <2> DEFINE f == [i \in I |-> rank[o.fields[i]]]
  <2>3. f \in Surjection(I, S)
    BY DEF Surjection
  <2> HIDE DEF f, S
  <2> QED BY <2>2, <2>3, FS_Surjection
<1>6. CASE S = {}
  BY <1>3, <1>6
<1>7. CASE S # {}
  <2> DEFINE m == Max(S)
  <2>1. m \in S /\ \A y \in S : y <= m
    <3> HIDE DEF S
    <3> QED BY <1>4, <1>5, <1>7, MaxIsGreatest
  <2>2. m \in Nat
    <3> HIDE DEF S
    <3> QED BY <2>1, <1>4
  <2> HIDE DEF m
  <2>3. ASSUME NEW f \in Parts(o) PROVE rank[f] < m + 1
    <3> HIDE DEF S
    <3>1. rank[f] \in S
      BY <1>3
    <3>2. rank[f] \in Nat
      BY <3>1, <1>4
    <3>3. rank[f] <= m
      BY <3>1, <2>1
    <3> QED BY <3>2, <3>3, <2>2
  <2>4. m + 1 \in Nat
    BY <2>2
  <2> QED BY <2>3, <2>4
<1> QED BY <1>6, <1>7

---------------------------------------------------------------------------
(* How the shape of the heap survives what a reduction does to it. *)

\* The last values leave the stack; none of them is left in it.
LEMMA Drop ==
    ASSUME NEW h, NEW l, NEW v, Tree(h, l, v), NEW n \in 0 .. Len(v)
    PROVE  /\ Tree(h, l, SubSeq(v, 1, n))
           /\ Len(SubSeq(v, 1, n)) = n
           /\ \A i \in 1 .. n : SubSeq(v, 1, n)[i] = v[i]
           /\ Range(SubSeq(v, 1, n)) \subseteq Range(v)
           /\ \A i \in n + 1 .. Len(v) : v[i] \notin Range(SubSeq(v, 1, n))
<1> DEFINE s == SubSeq(v, 1, n)
<1>1. v \in Seq(l) /\ Len(v) \in Nat /\ DOMAIN v = 1 .. Len(v)
  BY LenProperties DEF Tree
<1>2. \A i \in 1 .. n : v[i] \in l
  BY <1>1, ElementOfSeq
<1>3. s \in Seq(l) /\ Len(s) = n /\ \A i \in 1 .. n : s[i] = v[i]
  <2>1. /\ s \in Seq(l) /\ Len(s) = (IF 1 <= n THEN n - 1 + 1 ELSE 0)
        /\ \A i \in 1 .. n - 1 + 1 : s[i] = v[1 + i - 1]
    BY <1>2, SubSeqProperties
  <2> HIDE DEF s
  <2>2. n - 1 + 1 = n /\ \A i \in 1 .. n : 1 + i - 1 = i
    OBVIOUS
  <2> QED BY <2>1, <2>2
<1> HIDE DEF s
<1>4. DOMAIN s = 1 .. n /\ Range(s) = {s[i] : i \in 1 .. n}
  BY <1>3, LenProperties, RangeOf
<1>5. Range(s) \subseteq Range(v)
  BY <1>1, <1>3, <1>4, RangeOf
<1>6. \A i \in n + 1 .. Len(v) : v[i] \notin Range(s)
  <2> SUFFICES ASSUME NEW i \in n + 1 .. Len(v), NEW j \in 1 .. n, v[i] = s[j] PROVE FALSE
    BY <1>4
  <2>1. i \in DOMAIN v /\ j \in DOMAIN v /\ i # j
    BY <1>1
  <2> QED BY <2>1, <1>3 DEF Tree, Distinct
<1>7. Distinct(s)
  <2> SUFFICES ASSUME NEW i \in 1 .. n, NEW j \in 1 .. n, s[i] = s[j] PROVE i = j
    BY <1>4 DEF Distinct
  <2>1. i \in DOMAIN v /\ j \in DOMAIN v /\ v[i] = v[j]
    BY <1>1, <1>3
  <2> QED BY <2>1 DEF Tree, Distinct
<1>8. Tree(h, l, s)
  BY <1>3, <1>5, <1>7 DEF Tree
<1> QED BY <1>3, <1>5, <1>6, <1>8 DEF s

\* What malloc returns gets an object that points only down, to what nothing
\* else owns.
LEMMA New ==
    ASSUME NEW h, NEW l, NEW v, Tree(h, l, v),
           NEW F \in SUBSET (Addresses \ l), NEW o \in Objects,
           Parts(o) \subseteq l, Parts(o) \cap Range(v) = {},
           NEW g, DOMAIN g = DOMAIN h \cup F, \A b \in F : g[b] = o,
           \A b \in DOMAIN h \ F : g[b] = h[b]
    PROVE  Tree(g, l \cup F, v)
<1>1. PICK rank \in [Addresses -> Nat] : Ranked(rank, h, l)
  BY DEF Tree, Acyclic
<1>2. PICK n \in Nat : \A f \in Parts(o) : rank[f] < n
  BY RankAbove
<1>3. l \subseteq DOMAIN h \ F /\ l \subseteq Addresses
  BY DEF Tree
<1> DEFINE r == [b \in Addresses |-> IF b \in F THEN n ELSE rank[b]]
<1>4. /\ r \in [Addresses -> Nat] /\ \A f \in F : r[f] = n
      /\ \A f \in Addresses \ F : r[f] = rank[f]
  OBVIOUS
<1> HIDE DEF r
<1>5. Ranked(r, g, l \cup F)
  <2> SUFFICES ASSUME NEW p \in l \cup F, NEW f \in Parts(g[p]) PROVE r[f] < r[p]
    BY DEF Ranked
  <2>1. CASE p \in F
    BY <2>1, <1>2, <1>3, <1>4
  <2>2. CASE p \in l
    <3>1. g[p] = h[p]
      BY <2>2, <1>3
    <3>2. f \in l
      BY <2>2, <3>1 DEF Tree
    <3> QED BY <2>2, <3>1, <3>2, <1>1, <1>3, <1>4 DEF Ranked
  <2> QED BY <2>1, <2>2
<1>6. v \in Seq(l \cup F)
  BY SeqMonotonic DEF Tree
<1>7. Range(v) \subseteq l
  BY RangeOf DEF Tree
<1>8. \A b \in Range(v) : g[b].kind # "variable"
  BY <1>3, <1>7 DEF Tree
<1>9. \A p \in l \cup F : Parts(g[p]) \subseteq l \cup F /\ Parts(g[p]) \cap Range(v) = {}
  BY <1>3 DEF Tree
<1>10. \A b \in DOMAIN g : g[b] \in Objects
  BY DEF Tree
<1>11. DOMAIN g \subseteq Addresses /\ l \cup F \subseteq DOMAIN g /\ Distinct(v)
  BY DEF Tree
<1>12. Acyclic(g, l \cup F)
  BY <1>4, <1>5 DEF Acyclic
<1> QED BY <1>6, <1>8, <1>9, <1>10, <1>11, <1>12 DEF Tree

\* An object nothing points to becomes a value.
LEMMA Push ==
    ASSUME NEW h, NEW l, NEW v, Tree(h, l, v),
           NEW a \in l, a \notin Range(v), h[a].kind # "variable",
           \A p \in l : a \notin Parts(h[p])
    PROVE  Tree(h, l, Append(v, a))
<1> DEFINE s == Append(v, a)
<1>1. v \in Seq(l) /\ Len(v) \in Nat /\ DOMAIN v = 1 .. Len(v)
  BY LenProperties DEF Tree
<1>2. /\ s \in Seq(l) /\ Len(s) = Len(v) + 1
      /\ \A i \in 1 .. Len(v) : s[i] = v[i]
      /\ s[Len(v) + 1] = a
  BY <1>1, AppendProperties
<1>3. Range(s) = Range(v) \cup {a}
  BY <1>1, RangeAppend
<1> HIDE DEF s
<1>4. DOMAIN s = 1 .. Len(v) + 1
  BY <1>2, LenProperties
<1>5. \A i \in 1 .. Len(v) : s[i] \in Range(v)
  BY <1>1, <1>2, RangeOf
<1>6. Distinct(s)
  <2> SUFFICES ASSUME NEW i \in 1 .. Len(v) + 1, NEW j \in 1 .. Len(v) + 1, s[i] = s[j]
               PROVE  i = j
    BY <1>4 DEF Distinct
  <2>1. CASE i \in 1 .. Len(v) /\ j \in 1 .. Len(v)
    <3>1. i \in DOMAIN v /\ j \in DOMAIN v /\ v[i] = v[j]
      BY <2>1, <1>1, <1>2
    <3> QED BY <3>1 DEF Tree, Distinct
  <2>2. CASE i = Len(v) + 1 /\ j \in 1 .. Len(v)
    BY <2>2, <1>2, <1>5
  <2>3. CASE i \in 1 .. Len(v) /\ j = Len(v) + 1
    BY <2>3, <1>2, <1>5
  <2>4. CASE i = Len(v) + 1 /\ j = Len(v) + 1
    BY <2>4
  <2> QED BY <1>1, <2>1, <2>2, <2>3, <2>4
<1>7. Tree(h, l, s)
  BY <1>2, <1>3, <1>6 DEF Tree
<1> QED BY <1>7 DEF s

\* The object of a value points to more: nothing points to it, so its rank may
\* rise.
LEMMA Update ==
    ASSUME NEW h, NEW l, NEW v, Tree(h, l, v),
           NEW a \in Range(v), NEW o \in Objects, o.kind # "variable",
           Parts(o) \subseteq l, Parts(o) \cap Range(v) = {},
           NEW g, DOMAIN g = DOMAIN h, g[a] = o,
           \A b \in DOMAIN h \ {a} : g[b] = h[b]
    PROVE  Tree(g, l, v)
<1>1. PICK rank \in [Addresses -> Nat] : Ranked(rank, h, l)
  BY DEF Tree, Acyclic
<1>2. PICK n \in Nat : \A f \in Parts(o) : rank[f] < n
  BY RankAbove
<1>3. Range(v) \subseteq l
  BY RangeOf DEF Tree
<1>4. a \in l /\ a \in Addresses /\ l \subseteq DOMAIN h /\ l \subseteq Addresses
  BY <1>3 DEF Tree
<1> DEFINE r == [rank EXCEPT ![a] = n]
<1>5. r \in [Addresses -> Nat] /\ r[a] = n /\ \A f \in Addresses \ {a} : r[f] = rank[f]
  BY <1>4
<1> HIDE DEF r
<1>6. \A p \in l : Parts(g[p]) \subseteq l /\ Parts(g[p]) \cap Range(v) = {}
  <2> TAKE p \in l
  <2>1. CASE p = a
    BY <2>1
  <2>2. CASE p # a
    <3>1. g[p] = h[p]
      BY <2>2, <1>4
    <3> QED BY <3>1 DEF Tree
  <2> QED BY <2>1, <2>2
<1>7. Ranked(r, g, l)
  <2> SUFFICES ASSUME NEW p \in l, NEW f \in Parts(g[p]) PROVE r[f] < r[p]
    BY DEF Ranked
  <2>1. f \in Addresses \ {a}
    BY <1>4, <1>6
  <2>2. CASE p = a
    BY <2>1, <2>2, <1>2, <1>5
  <2>3. CASE p # a
    <3>1. g[p] = h[p]
      BY <2>3, <1>4
    <3> QED BY <2>1, <2>3, <3>1, <1>1, <1>4, <1>5 DEF Ranked
  <2> QED BY <2>2, <2>3
<1>8. \A b \in Range(v) : g[b].kind # "variable"
  <2> TAKE b \in Range(v)
  <2>1. b = a \/ g[b] = h[b]
    BY <1>3, <1>4
  <2> QED BY <2>1 DEF Tree
<1>9. \A b \in DOMAIN g : g[b] \in Objects
  BY DEF Tree
<1>10. Acyclic(g, l)
  BY <1>5, <1>7 DEF Acyclic
<1> QED BY <1>6, <1>8, <1>9, <1>10 DEF Tree

\* What nothing points to may go.
LEMMA Freed ==
    ASSUME NEW h, NEW l, NEW v, Tree(h, l, v),
           NEW a, a \notin Range(v), \A p \in l : a \notin Parts(h[p])
    PROVE  Tree(h, l \ {a}, v)
<1>1. PICK rank \in [Addresses -> Nat] : Ranked(rank, h, l)
  BY DEF Tree, Acyclic
<1>2. Ranked(rank, h, l \ {a})
  BY <1>1 DEF Ranked
<1>3. Acyclic(h, l \ {a})
  BY <1>1, <1>2 DEF Acyclic
<1>4. v \in Seq(l \ {a})
  <2>1. v \in [1 .. Len(v) -> l] /\ Len(v) \in Nat
    BY LenProperties DEF Tree
  <2>2. \A i \in 1 .. Len(v) : v[i] \in l \ {a}
    BY <2>1, RangeOf DEF Tree
  <2>3. v \in [1 .. Len(v) -> l \ {a}]
    BY <2>1, <2>2
  <2> QED BY <2>1, <2>3, SeqDef
<1> QED BY <1>3, <1>4 DEF Tree

---------------------------------------------------------------------------
(* The invariant. *)

Vars(h, l) == {a \in l : h[a].kind = "variable"}

\* While a program is parsed.
Parsed(h, l, v, d, g, t) ==
    /\ Tree(h, l, v)
    /\ d \in [Names -> Vars(h, l) \cup {NULL}]
    /\ g \in [Names -> Vars(h, l) \cup {NULL}]
    /\ t \subseteq Vars(h, l)

\* The calls on the C stack go down the rank.
Descending(rank, c) ==
    \A i, j \in DOMAIN c : i < j => rank[c[j].object] < rank[c[i].object]

Walk(h, l, c) ==
    \E rank \in [Addresses -> Nat] : Ranked(rank, h, l) /\ Descending(rank, c)

\* While it is released; r is what has been recorded.
Walked(h, l, c, r) ==
    /\ \A p \in l : Parts(h[p]) \subseteq l \cup r
    /\ \A i \in DOMAIN c : c[i].object \in l /\ c[i].at >= 1
    /\ Walk(h, l, c)

ListOK(f) == Distinct(f.array) /\ Len(f.array) <= f.len

Inv ==
    /\ TypeOK
    /\ ListOK(free_addresses)
    /\ ~Releasing => calls = << >>
    /\ Parsing =>
          /\ Parsed(heap, live, values, declared, dangling, table)
          /\ program = NULL /\ todo = {}
    /\ phase \in {"parsed", "main_function", "table"} =>
          /\ Walked(heap, live, calls, Recorded)
          /\ program \in live \cup Recorded \cup {NULL}
          /\ table \subseteq live \cup Recorded
          /\ todo \subseteq table

---------------------------------------------------------------------------
(* What a reduction may point to. *)

LEMMA TupleOf ==
    ASSUME NEW S
    PROVE  /\ << >> \in Seq(S) /\ Range(<< >>) = {}
           /\ \A x \in S : <<x>> \in Seq(S) /\ Range(<<x>>) = {x}
           /\ \A x, y \in S : <<x, y>> \in Seq(S) /\ Range(<<x, y>>) = {x, y}
           /\ \A x, y, z \in S : <<x, y, z>> \in Seq(S) /\ Range(<<x, y, z>>) = {x, y, z}
<1>1. << >> \in Seq(S) /\ Range(<< >>) = {}
  BY DEF Range
<1>2. ASSUME NEW x \in S PROVE <<x>> \in Seq(S) /\ Range(<<x>>) = {x}
  BY DEF Range
<1>3. ASSUME NEW x \in S, NEW y \in S
      PROVE  <<x, y>> \in Seq(S) /\ Range(<<x, y>>) = {x, y}
  BY DEF Range
<1>4. ASSUME NEW x \in S, NEW y \in S, NEW z \in S
      PROVE  <<x, y, z>> \in Seq(S) /\ Range(<<x, y, z>>) = {x, y, z}
  BY DEF Range
<1> QED BY <1>1, <1>2, <1>3, <1>4

LEMMA ObjectOK ==
    ASSUME NEW kind \in Kinds, NEW fields \in Seq(Addresses \cup {NULL})
    PROVE  /\ Object(kind, fields) \in Objects
           /\ Object(kind, fields).kind = kind
           /\ Object(kind, fields).fields = fields
           /\ Parts(Object(kind, fields)) = Range(fields) \ {NULL}
BY DEF Object, Objects, Parts

LEMMA VariableOK ==
    /\ Object("variable", << >>) \in Objects
    /\ Object("variable", << >>).kind = "variable"
    /\ Parts(Object("variable", << >>)) = {}
<1>1. "variable" \in Kinds
  BY DEF Kinds
<1>2. << >> \in Seq(Addresses \cup {NULL}) /\ Range(<< >>) = {}
  BY TupleOf
<1> QED BY <1>1, <1>2, ObjectOK

LEMMA RecordedAreAddresses ==
    ASSUME TypeOK PROVE Recorded \subseteq Addresses
<1>1. free_addresses.array \in Seq(Addresses)
  BY DEF TypeOK, MemTypeOK
<1> QED BY <1>1, RangeOf DEF Recorded

LEMMA MallocIsFresh ==
    ASSUME TypeOK, NEW taken PROVE Malloc(taken) \subseteq Addresses \ taken
BY RecordedAreAddresses DEF Malloc

\* The last k values and the variables: what nothing else on the stack owns.
Operands(k) == {Value(i) : i \in 1 .. k} \cup Vars(heap, live)

LEMMA OperandsAreFree ==
    ASSUME Inv, Parsing, NEW k \in Nat, k <= Len(values)
    PROVE  /\ Tree(heap, live, Rest(k))
           /\ Operands(k) \subseteq live
           /\ Operands(k) \cap Range(Rest(k)) = {}
<1>1. Tree(heap, live, values)
  BY DEF Inv, Parsed
<1>2. values \in Seq(live) /\ Len(values) \in Nat /\ DOMAIN values = 1 .. Len(values)
  BY <1>1, LenProperties DEF Tree
<1> DEFINE n == Len(values) - k
<1>3. n \in 0 .. Len(values)
  BY <1>2
<1>4. /\ Tree(heap, live, Rest(k))
      /\ Range(Rest(k)) \subseteq Range(values)
      /\ \A i \in n + 1 .. Len(values) : values[i] \notin Range(Rest(k))
  BY <1>1, <1>3, Drop DEF Rest
<1>5. \A i \in 1 .. k : Value(i) \in live /\ Value(i) \notin Range(Rest(k))
  <2> TAKE i \in 1 .. k
  <2>1. Len(values) - i + 1 \in n + 1 .. Len(values) /\ Len(values) - i + 1 \in 1 .. Len(values)
    BY <1>2, <1>3
  <2> QED BY <2>1, <1>2, <1>4, ElementOfSeq DEF Value
<1>6. \A a \in Vars(heap, live) : a \in live /\ a \notin Range(Rest(k))
  BY <1>1, <1>4 DEF Tree, Vars
<1> QED BY <1>4, <1>5, <1>6 DEF Operands

LEMMA OperandsAreAddresses ==
    ASSUME Inv, Parsing, NEW k \in Nat, k <= Len(values)
    PROVE  Operands(k) \subseteq Addresses
BY OperandsAreFree DEF Tree

LEMMA OperandsHold ==
    ASSUME Inv, Parsing, NEW k \in Nat
    PROVE  /\ \A i \in 1 .. k : Value(i) \in Operands(k)
           /\ \A name \in Names : /\ declared[name] \in Operands(k) \cup {NULL}
                                  /\ dangling[name] \in Operands(k) \cup {NULL}
BY DEF Operands, Inv, Parsed

\* The core of every reduction that builds an object.
LEMMA BuildTree ==
    ASSUME Inv, NEW k \in Nat, k <= Len(values),
           NEW fresh \in SUBSET (Addresses \ live),
           NEW variable \in Objects, variable.kind = "variable",
           NEW object \in Objects, object.kind # "variable",
           Parts(variable) \subseteq Operands(k),
           Parts(object) \subseteq Operands(k) \cup fresh,
           Build(k, fresh, variable, object)
    PROVE  /\ Tree(heap', live', values')
           /\ Vars(heap, live) \cup fresh \subseteq Vars(heap', live')
<1>1. PICK a \in Malloc(live \cup fresh) :
          /\ heap' = [b \in DOMAIN heap \cup fresh \cup {a} |->
                         IF b \in fresh THEN variable
                         ELSE IF b = a THEN object ELSE heap[b]]
          /\ live' = live \cup fresh \cup {a}
          /\ values' = Append(Rest(k), a)
  BY DEF Build
<1>2. a \in Addresses /\ a \notin live /\ a \notin fresh
  BY MallocIsFresh DEF Inv
<1>3. Parsing
  BY DEF Build
<1>4. /\ Tree(heap, live, Rest(k))
      /\ Operands(k) \subseteq live
      /\ Operands(k) \cap Range(Rest(k)) = {}
  BY <1>3, OperandsAreFree
<1> DEFINE g == [b \in DOMAIN heap \cup fresh |-> IF b \in fresh THEN variable ELSE heap[b]]
<1>5. Tree(g, live \cup fresh, Rest(k))
  BY <1>4, New
<1>6. Range(Rest(k)) \subseteq live
  BY <1>4, RangeOf DEF Tree
<1>7. Parts(object) \subseteq live \cup fresh /\ Parts(object) \cap Range(Rest(k)) = {}
  BY <1>4, <1>6
<1>8. /\ DOMAIN heap' = DOMAIN g \cup {a} /\ heap'[a] = object
      /\ \A b \in DOMAIN g \ {a} : heap'[b] = g[b]
  BY <1>1, <1>2
<1> HIDE DEF g
<1>9. Tree(heap', live \cup fresh \cup {a}, Rest(k))
  <2>1. {a} \in SUBSET (Addresses \ (live \cup fresh))
    BY <1>2
  <2>2. \A b \in {a} : heap'[b] = object
    BY <1>8
  <2> QED BY <2>1, <2>2, <1>5, <1>7, <1>8, New
<1>10. \A p \in live' : a \notin Parts(heap'[p])
  <2> SUFFICES ASSUME NEW p \in live \cup fresh \cup {a}, a \in Parts(heap'[p]) PROVE FALSE
    BY <1>1
  <2>1. CASE p = a
    BY <2>1, <1>2, <1>7, <1>8
  <2>2. CASE p # a
    <3>1. p \in live \cup fresh /\ p \in DOMAIN g
      BY <2>2, <1>5 DEF Tree
    <3>2. heap'[p] = g[p]
      BY <3>1, <2>2, <1>8
    <3> QED BY <3>1, <3>2, <1>2, <1>5 DEF Tree
  <2> QED BY <2>1, <2>2
<1>11. Tree(heap', live', values')
  <2>1. a \in live' /\ a \notin Range(Rest(k)) /\ heap'[a].kind # "variable"
    BY <1>1, <1>2, <1>6, <1>8
  <2> QED BY <2>1, <1>1, <1>9, <1>10, Push
<1>12. Vars(heap, live) \cup fresh \subseteq Vars(heap', live')
  <2>1. live \subseteq DOMAIN heap
    BY <1>4 DEF Tree
  <2> QED BY <2>1, <1>1, <1>2 DEF Vars
<1> QED BY <1>11, <1>12

---------------------------------------------------------------------------
(* The invariant through the kinds of reductions. *)

\* What a step that goes on parsing has to show.
LEMMA ParsedIsEnough ==
    ASSUME Inv, Parsing, UNCHANGED <<program, scale, calls, todo, phase>>,
           free_addresses' \in [array : Seq(Addresses), len : Nat],
           ListOK(free_addresses'),
           Parsed(heap', live', values', declared', dangling', table')
    PROVE  Inv'
<1>1. Tree(heap', live', values')
  BY DEF Parsed
<1>2. calls' = << >> /\ phase' = "parse" /\ program' = NULL /\ todo' = {}
  BY DEF Inv, Parsing, Releasing
<1>3. live' \subseteq Addresses /\ Vars(heap', live') \subseteq Addresses
  BY <1>1 DEF Tree, Vars
<1>4. MemTypeOK'
  <2>1. << >> \in Seq(Frame)
    OBVIOUS
  <2> QED BY <2>1, <1>1, <1>2 DEF MemTypeOK, Tree, Phases
<1>5. values' \in Seq(Addresses)
  BY <1>1, <1>3, SeqMonotonic DEF Tree
<1>6. /\ declared' \in [Names -> Addresses \cup {NULL}]
      /\ dangling' \in [Names -> Addresses \cup {NULL}]
      /\ table' \subseteq Addresses
  BY <1>3 DEF Parsed
<1>7. scale' \in Scales
  BY DEF Inv, TypeOK
<1>8. TypeOK'
  BY <1>2, <1>4, <1>5, <1>6, <1>7 DEF TypeOK
<1> QED BY <1>2, <1>8 DEF Inv, Parsing, Releasing

\* The scopes survive when the variables do.
LEMMA ScopesGrow ==
    ASSUME Inv, Parsing, Vars(heap, live) \subseteq Vars(heap', live')
    PROVE  /\ declared \in [Names -> Vars(heap', live') \cup {NULL}]
           /\ dangling \in [Names -> Vars(heap', live') \cup {NULL}]
           /\ table \subseteq Vars(heap', live')
BY DEF Inv, Parsed

LEMMA ListKept ==
    ASSUME Inv, UNCHANGED free_addresses
    PROVE  /\ free_addresses' \in [array : Seq(Addresses), len : Nat]
           /\ ListOK(free_addresses')
BY DEF Inv, TypeOK, MemTypeOK

LEMMA BuildKeeps ==
    ASSUME Inv, NEW k \in Nat, k <= Len(values),
           NEW object \in Objects, object.kind # "variable",
           Parts(object) \subseteq Operands(k),
           Build(k, {}, Object("variable", << >>), object),
           declared' = declared,
           dangling' \in [Names -> Vars(heap, live) \cup {NULL}],
           table' \subseteq table
    PROVE  Inv'
<1>1. /\ Object("variable", << >>) \in Objects
      /\ Object("variable", << >>).kind = "variable"
      /\ Parts(Object("variable", << >>)) = {}
  BY VariableOK
<1>2. Tree(heap', live', values') /\ Vars(heap, live) \subseteq Vars(heap', live')
  BY <1>1, BuildTree
<1>3. Parsing /\ UNCHANGED <<program, scale, free_addresses, calls, todo, phase>>
  BY DEF Build
<1>4. Parsed(heap', live', values', declared', dangling', table')
  BY <1>2, <1>3, ScopesGrow DEF Parsed
<1> QED BY <1>3, <1>4, ListKept, ParsedIsEnough

LEMMA ReduceKeeps ==
    ASSUME Inv, NEW k \in Nat, k <= Len(values),
           NEW kind \in Kinds, kind # "variable",
           NEW fields \in Seq(Operands(k) \cup {NULL}),
           Reduce(k, kind, fields)
    PROVE  Inv'
<1>5. Parsing
  BY DEF Reduce, Build
<1>6. fields \in Seq(Addresses \cup {NULL}) /\ Range(fields) \subseteq Operands(k) \cup {NULL}
  BY <1>5, OperandsAreAddresses, SeqMonotonic, RangeOf
<1>1. /\ Object(kind, fields) \in Objects /\ Object(kind, fields).kind # "variable"
      /\ Parts(Object(kind, fields)) \subseteq Operands(k)
  BY <1>6, ObjectOK
<1>2. /\ Build(k, {}, Object("variable", << >>), Object(kind, fields))
      /\ UNCHANGED <<declared, dangling, table>>
  BY DEF Reduce
<1>4. dangling \in [Names -> Vars(heap, live) \cup {NULL}]
  BY <1>5 DEF Inv, Parsed
<1> QED BY <1>1, <1>2, <1>4, BuildKeeps

\* The variable of a mention is a variable of the program or fresh.
LEMMA LookupOK ==
    ASSUME Inv, Parsing, NEW name \in Names,
           NEW var \in lookup_variable_create_dangling(name)
    PROVE  /\ Fresh(var) \in SUBSET (Addresses \ live)
           /\ var \in Vars(heap, live) \cup Fresh(var)
           /\ var # NULL
<1>1. CASE Resolve(name) # NULL
  <2>1. var = Resolve(name)
    BY <1>1 DEF lookup_variable_create_dangling
  <2>2. declared[name] \in Vars(heap, live) \cup {NULL} /\ dangling[name] \in Vars(heap, live) \cup {NULL}
    BY DEF Inv, Parsed
  <2>3. var \in Vars(heap, live) /\ var # NULL
    BY <1>1, <2>1, <2>2 DEF Resolve
  <2> QED BY <2>3 DEF Vars, Fresh
<1>2. CASE Resolve(name) = NULL
  <2>1. var \in Addresses \ live
    BY <1>2, MallocIsFresh DEF lookup_variable_create_dangling, Inv
  <2>2. var # NULL
    BY <2>1, AddressesAssumption DEF NULL
  <2> QED BY <2>1, <2>2 DEF Fresh
<1> QED BY <1>1, <1>2

\* What a mention does to the scopes.
LEMMA MentionedOK ==
    ASSUME Inv, Parsing, NEW name \in Names,
           NEW var \in lookup_variable_create_dangling(name), Mentioned(name, var),
           Vars(heap, live) \cup Fresh(var) \subseteq Vars(heap', live')
    PROVE  /\ declared' \in [Names -> Vars(heap', live') \cup {NULL}]
           /\ dangling' \in [Names -> Vars(heap', live') \cup {NULL}]
           /\ table' \subseteq Vars(heap', live')
<1>1. /\ declared \in [Names -> Vars(heap', live') \cup {NULL}]
      /\ dangling \in [Names -> Vars(heap', live') \cup {NULL}]
      /\ table \subseteq Vars(heap', live')
  BY ScopesGrow
<1>2. var \in Vars(heap', live')
  BY LookupOK
<1> QED BY <1>1, <1>2 DEF Mentioned

LEMMA MentionKeeps ==
    ASSUME Inv, NEW k \in Nat, k <= Len(values), NEW name \in Names,
           NEW var \in lookup_variable_create_dangling(name),
           NEW kind \in Kinds, kind # "variable",
           NEW fields \in Seq(Operands(k) \cup {var, NULL}),
           Build(k, Fresh(var), Object("variable", << >>), Object(kind, fields)),
           Mentioned(name, var)
    PROVE  Inv'
<1>1. Parsing /\ UNCHANGED <<program, scale, free_addresses, calls, todo, phase>>
  BY DEF Build
<1>2. /\ Object("variable", << >>) \in Objects
      /\ Object("variable", << >>).kind = "variable"
      /\ Parts(Object("variable", << >>)) = {}
  BY VariableOK
<1>3. /\ Fresh(var) \in SUBSET (Addresses \ live)
      /\ var \in Operands(k) \cup Fresh(var)
  BY <1>1, LookupOK DEF Operands
<1>4. /\ Object(kind, fields) \in Objects /\ Object(kind, fields).kind # "variable"
      /\ Parts(Object(kind, fields)) \subseteq Operands(k) \cup Fresh(var)
  <2>1. Operands(k) \cup {var, NULL} \subseteq Addresses \cup {NULL}
    BY <1>1, <1>3, OperandsAreAddresses
  <2>2. /\ fields \in Seq(Addresses \cup {NULL})
        /\ Range(fields) \subseteq Operands(k) \cup {var, NULL}
    BY <2>1, SeqMonotonic, RangeOf
  <2> QED BY <2>2, <1>3, ObjectOK
<1>5. /\ Tree(heap', live', values')
      /\ Vars(heap, live) \cup Fresh(var) \subseteq Vars(heap', live')
  BY <1>2, <1>3, <1>4, BuildTree
<1>6. Parsed(heap', live', values', declared', dangling', table')
  BY <1>1, <1>5, MentionedOK DEF Parsed
<1> QED BY <1>1, <1>6, ListKept, ParsedIsEnough

LEMMA DeclareKeeps ==
    ASSUME Inv, NEW k \in Nat, k <= Len(values), NEW name \in Names,
           NEW var \in Malloc(live), NEW initial \in Seq(Operands(k)),
           NEW kind \in Kinds, kind # "variable",
           NEW fields \in Seq(Operands(k) \cup {var}),
           Build(k, {var}, Object("variable", initial), Object(kind, fields)),
           Declared(name, var)
    PROVE  Inv'
<1>1. Parsing /\ UNCHANGED <<program, scale, free_addresses, calls, todo, phase>>
  BY DEF Build
<1>8. Operands(k) \cup {var} \subseteq Addresses
  BY <1>1, OperandsAreAddresses, MallocIsFresh DEF Inv
<1>9. initial \in Seq(Addresses \cup {NULL}) /\ Range(initial) \subseteq Operands(k)
  BY <1>8, SeqMonotonic, RangeOf
<1>10. fields \in Seq(Addresses \cup {NULL}) /\ Range(fields) \subseteq Operands(k) \cup {var}
  BY <1>8, SeqMonotonic, RangeOf
<1>2. /\ Object("variable", initial) \in Objects
      /\ Object("variable", initial).kind = "variable"
      /\ Parts(Object("variable", initial)) \subseteq Operands(k)
  <2>1. "variable" \in Kinds
    BY DEF Kinds
  <2> QED BY <2>1, <1>9, ObjectOK
<1>3. {var} \in SUBSET (Addresses \ live)
  BY MallocIsFresh DEF Inv
<1>4. /\ Object(kind, fields) \in Objects /\ Object(kind, fields).kind # "variable"
      /\ Parts(Object(kind, fields)) \subseteq Operands(k) \cup {var}
  BY <1>10, ObjectOK
<1>5. /\ Tree(heap', live', values')
      /\ Vars(heap, live) \cup {var} \subseteq Vars(heap', live')
  BY <1>2, <1>3, <1>4, BuildTree
<1>6. /\ declared' \in [Names -> Vars(heap', live') \cup {NULL}]
      /\ dangling' \in [Names -> Vars(heap', live') \cup {NULL}]
      /\ table' \subseteq Vars(heap', live')
  BY <1>1, <1>5, ScopesGrow DEF Declared
<1>7. Parsed(heap', live', values', declared', dangling', table')
  BY <1>5, <1>6 DEF Parsed
<1> QED BY <1>1, <1>7, ListKept, ParsedIsEnough

\* The second value changes, and the first leaves the stack: a part of the
\* second now, or to be freed.
LEMMA UpdateTree ==
    ASSUME Inv, Parsing, 2 <= Len(values), NEW object \in Objects, object.kind # "variable",
           Parts(object) \subseteq live, Parts(object) \cap Range(values) \subseteq {Value(1)},
           heap' = [heap EXCEPT ![Value(2)] = object], values' = Rest(1)
    PROVE  /\ Tree(heap', live, values')
           /\ Vars(heap, live) \subseteq Vars(heap', live)
           /\ Value(1) \notin Parts(object) =>
                 /\ Tree(heap', live \ {Value(1)}, values')
                 /\ Vars(heap, live) \subseteq Vars(heap', live \ {Value(1)})
<1>3. Tree(heap, live, values)
  BY DEF Inv, Parsed
<1>4. values \in Seq(live) /\ Len(values) \in Nat
  BY <1>3, LenProperties DEF Tree
<1> DEFINE n == Len(values) - 1
<1>1. n \in 0 .. Len(values) /\ n \in 1 .. n /\ Len(values) - 2 + 1 = n
  BY <1>4
<1>2. /\ Len(Rest(1)) = n /\ Rest(1)[n] = values[n] /\ Range(Rest(1)) \subseteq Range(values)
      /\ values[n + 1] \notin Range(Rest(1)) /\ Tree(heap, live, Rest(1))
  BY <1>3, <1>1, Drop DEF Rest
<1>5. Value(1) \notin Range(Rest(1)) /\ Value(1) \in Range(values) /\ Value(1) \in live
  <2>1. Len(values) - 1 + 1 = n + 1 /\ n + 1 \in 1 .. Len(values)
    BY <1>1, <1>4
  <2> QED BY <2>1, <1>2, <1>4, RangeOf DEF Value
<1>7. Value(2) \in Range(Rest(1))
  <2>1. Rest(1) \in Seq(live)
    BY <1>2 DEF Tree
  <2> QED BY <2>1, <1>1, <1>2, RangeOf DEF Value
<1>8. Value(2) \in live /\ live \subseteq DOMAIN heap
  BY <1>2, <1>7, RangeOf DEF Tree
<1>9. Parts(object) \cap Range(Rest(1)) = {}
  BY <1>2, <1>5
<1>10. /\ DOMAIN heap' = DOMAIN heap /\ heap'[Value(2)] = object
       /\ \A b \in DOMAIN heap \ {Value(2)} : heap'[b] = heap[b]
  BY <1>8
<1>11. Tree(heap', live, values')
  <2> DEFINE g == heap'
             r == Rest(1)
  <2>1. /\ Tree(heap, live, r) /\ Value(2) \in Range(r) /\ Parts(object) \cap Range(r) = {}
        /\ DOMAIN g = DOMAIN heap /\ g[Value(2)] = object
        /\ \A b \in DOMAIN heap \ {Value(2)} : g[b] = heap[b]
    BY <1>2, <1>7, <1>9, <1>10
  <2> HIDE DEF g, r
  <2>2. Tree(g, live, r)
    BY <2>1, Update
  <2> QED BY <2>2 DEF g, r
<1>12. Vars(heap, live) \subseteq Vars(heap', live)
  <2>1. heap[Value(2)].kind # "variable"
    BY <1>2, <1>7 DEF Tree
  <2> QED BY <2>1, <1>8, <1>10 DEF Vars
<1>13. ASSUME Value(1) \notin Parts(object)
       PROVE  /\ Tree(heap', live \ {Value(1)}, values')
              /\ Vars(heap, live) \subseteq Vars(heap', live \ {Value(1)})
  <2>1. \A p \in live : Value(1) \notin Parts(heap'[p])
    <3> TAKE p \in live
    <3>1. p = Value(2) \/ heap'[p] = heap[p]
      BY <1>8, <1>10
    <3> QED BY <3>1, <1>3, <1>5, <1>10, <1>13 DEF Tree
  <2>2. Tree(heap', live \ {Value(1)}, values')
    BY <2>1, <1>5, <1>11, Freed
  <2>3. heap[Value(1)].kind # "variable"
    BY <1>3, <1>5 DEF Tree
  <2> QED BY <2>2, <2>3, <1>12 DEF Vars
<1> QED BY <1>11, <1>12, <1>13

\* What the stack's second object may take over.
LEMMA ValueTwo ==
    ASSUME Inv, Parsing, 2 <= Len(values)
    PROVE  /\ heap[Value(2)] \in Objects /\ heap[Value(2)].kind # "variable"
           /\ heap[Value(1)] \in Objects /\ Value(1) \in live /\ Value(1) \in Addresses
           /\ Parts(heap[Value(2)]) \subseteq live
           /\ Parts(heap[Value(2)]) \cap Range(values) = {}
           /\ Parts(heap[Value(1)]) \subseteq live
           /\ Parts(heap[Value(1)]) \cap Range(values) = {}
           /\ Value(1) # NULL /\ Value(1) \in Range(values)
           /\ Value(2) \in DOMAIN heap
<1>1. Tree(heap, live, values)
  BY DEF Inv, Parsed
<1>2. values \in Seq(live) /\ Len(values) \in Nat
  BY <1>1, LenProperties DEF Tree
<1>3. Len(values) - 1 + 1 \in 1 .. Len(values) /\ Len(values) - 2 + 1 \in 1 .. Len(values)
  BY <1>2
<1>4. Value(1) \in Range(values) /\ Value(2) \in Range(values)
  BY <1>2, <1>3, RangeOf DEF Value
<1>5. Value(1) \in live /\ Value(2) \in live /\ live \subseteq DOMAIN heap /\ live \subseteq Addresses
  BY <1>1, <1>2, <1>4, RangeOf DEF Tree
<1>6. Value(1) # NULL
  BY <1>5, AddressesAssumption DEF NULL
<1>7. heap[Value(2)] \in Objects /\ heap[Value(1)] \in Objects
  BY <1>1, <1>5 DEF Tree
<1> QED BY <1>1, <1>4, <1>5, <1>6, <1>7 DEF Tree

\* A value takes the one above it as a part.
LEMMA ExtendKeeps ==
    ASSUME Inv, 2 <= Len(values), NEW object \in Objects, object.kind = heap[Value(2)].kind,
           Parts(object) \subseteq Parts(heap[Value(2)]) \cup {Value(1)},
           Extend(2, object)
    PROVE  Inv'
<1>1. /\ Parsing /\ UNCHANGED <<program, scale, free_addresses, calls, todo, phase>>
      /\ UNCHANGED <<live, declared, dangling, table>>
      /\ heap' = [heap EXCEPT ![Value(2)] = object] /\ values' = Rest(1)
  BY DEF Extend
<1>2. /\ object.kind # "variable" /\ Parts(object) \subseteq live
      /\ Parts(object) \cap Range(values) \subseteq {Value(1)}
  BY <1>1, ValueTwo
<1>3. Tree(heap', live', values') /\ Vars(heap, live) \subseteq Vars(heap', live')
  BY <1>1, <1>2, UpdateTree
<1>4. Parsed(heap', live', values', declared', dangling', table')
  BY <1>1, <1>3, ScopesGrow DEF Parsed
<1> QED BY <1>1, <1>4, ListKept, ParsedIsEnough

---------------------------------------------------------------------------
(* The reductions. *)

\* What they put into an object, as a sequence over the operands.
LEMMA FieldsHold ==
    ASSUME Inv, Parsing
    PROVE  /\ Len(values) \in Nat
           /\ << >> \in Seq(Operands(0) \cup {NULL})
           /\ <<Value(1)>> \in Seq(Operands(1) \cup {NULL})
           /\ <<Value(2), Value(1)>> \in Seq(Operands(2) \cup {NULL})
           /\ \A name \in Names :
                /\ <<declared[name], Value(1)>> \in Seq(Operands(1) \cup {NULL})
                /\ <<Value(2), Value(1), dangling[name]>> \in Seq(Operands(2) \cup {NULL})
                /\ <<Value(2), Value(1), declared[name]>> \in Seq(Operands(2) \cup {NULL})
           /\ <<Value(2), Value(1), NULL>> \in Seq(Operands(2) \cup {NULL})
<1>1. values \in Seq(Addresses)
  BY DEF Inv, TypeOK
<1>2. Value(1) \in Operands(1) /\ Value(1) \in Operands(2) /\ Value(2) \in Operands(2)
  BY OperandsHold
<1>3. \A name \in Names : /\ declared[name] \in Operands(1) \cup {NULL}
                         /\ declared[name] \in Operands(2) \cup {NULL}
                         /\ dangling[name] \in Operands(2) \cup {NULL}
  BY OperandsHold
<1>4. << >> \in Seq(Operands(0) \cup {NULL})
  BY TupleOf
<1>5. <<Value(1)>> \in Seq(Operands(1) \cup {NULL})
  BY <1>2, TupleOf
<1>6. <<Value(2), Value(1)>> \in Seq(Operands(2) \cup {NULL})
  BY <1>2, TupleOf
<1>7. ASSUME NEW name \in Names
      PROVE  /\ <<declared[name], Value(1)>> \in Seq(Operands(1) \cup {NULL})
             /\ <<Value(2), Value(1), dangling[name]>> \in Seq(Operands(2) \cup {NULL})
             /\ <<Value(2), Value(1), declared[name]>> \in Seq(Operands(2) \cup {NULL})
  BY <1>2, <1>3, TupleOf
<1>8. <<Value(2), Value(1), NULL>> \in Seq(Operands(2) \cup {NULL})
  BY <1>2, TupleOf
<1> QED BY <1>1, <1>4, <1>5, <1>6, <1>7, <1>8, LenProperties

LEMMA Reduce0 ==
    ASSUME Inv, NEW kind \in Kinds \ {"variable"}, Reduce(0, kind, << >>)
    PROVE  Inv'
<1>1. Parsing
  BY DEF Reduce, Build
<1>2. 0 \in Nat /\ 0 <= Len(values) /\ << >> \in Seq(Operands(0) \cup {NULL})
  BY <1>1, FieldsHold
<1> QED BY <1>2, ReduceKeeps

LEMMA Reduce1 ==
    ASSUME Inv, 1 <= Len(values), NEW kind \in Kinds \ {"variable"},
           Reduce(1, kind, <<Value(1)>>)
    PROVE  Inv'
<1>1. Parsing
  BY DEF Reduce, Build
<1>2. 1 \in Nat /\ <<Value(1)>> \in Seq(Operands(1) \cup {NULL})
  BY <1>1, FieldsHold
<1> QED BY <1>2, ReduceKeeps

LEMMA Reduce2 ==
    ASSUME Inv, 2 <= Len(values), NEW kind \in Kinds \ {"variable"},
           Reduce(2, kind, <<Value(2), Value(1)>>)
    PROVE  Inv'
<1>1. Parsing
  BY DEF Reduce, Build
<1>2. 2 \in Nat /\ <<Value(2), Value(1)>> \in Seq(Operands(2) \cup {NULL})
  BY <1>1, FieldsHold
<1> QED BY <1>2, ReduceKeeps

LEMMA ReduceWithVariable ==
    ASSUME Inv, 1 <= Len(values), NEW kind \in Kinds \ {"variable"}, NEW name \in Names,
           Reduce(1, kind, <<declared[name], Value(1)>>)
    PROVE  Inv'
<1>1. Parsing
  BY DEF Reduce, Build
<1>2. 1 \in Nat /\ <<declared[name], Value(1)>> \in Seq(Operands(1) \cup {NULL})
  BY <1>1, FieldsHold
<1> QED BY <1>2, ReduceKeeps

LEMMA ConstructionKeeps ==
    ASSUME Inv
    PROVE  /\ grammar_constant => Inv'
           /\ grammar_expression_arithmetic => Inv'
           /\ grammar_expression_cmp => Inv'
           /\ grammar_expression_bool => Inv'
           /\ grammar_expression_bool_not => Inv'
           /\ grammar_new_list => Inv'
           /\ grammar_expression_from_list => Inv'
           /\ grammar_new_list_args => Inv'
           /\ grammar_function_call => Inv'
           /\ grammar_expression_from_funcall => Inv'
           /\ grammar_new_expression_list => Inv'
           /\ \A name \in Names : grammar_new_assignment_expression(name) => Inv'
           /\ \A name \in Names : grammar_using_file(name) => Inv'
<1> USE DEF Kinds
<1>1. ASSUME NEW kind \in {"binary", "compare", "boolean"}, NEW operand,
             Binary(kind, operand)
      PROVE  Inv'
  <2>1. 2 <= Len(values) /\ Reduce(2, kind, <<Value(2), Value(1)>>)
    BY <1>1 DEF Binary, Reads
  <2> QED BY <2>1, Reduce2
<1>2. grammar_constant => Inv'
  BY Reduce0 DEF grammar_constant
<1>3. grammar_expression_arithmetic => Inv'
  BY <1>1 DEF grammar_expression_arithmetic
<1>4. grammar_expression_cmp => Inv'
  BY <1>1 DEF grammar_expression_cmp
<1>5. grammar_expression_bool => Inv'
  BY <1>1 DEF grammar_expression_bool
<1>6. grammar_expression_bool_not => Inv'
  BY Reduce1 DEF grammar_expression_bool_not, Reads
<1>7. grammar_new_list => Inv'
  BY Reduce0, Reduce1 DEF grammar_new_list, Reads
<1>8. grammar_expression_from_list => Inv'
  BY Reduce1 DEF grammar_expression_from_list, Reads
<1>9. grammar_new_list_args => Inv'
  BY Reduce0, Reduce1 DEF grammar_new_list_args, Reads
<1>10. grammar_function_call => Inv'
  <2>1. Function \in Names
    BY DEF Names
  <2> QED BY <2>1, ReduceWithVariable DEF grammar_function_call, Reads
<1>11. grammar_expression_from_funcall => Inv'
  BY Reduce1 DEF grammar_expression_from_funcall, Reads
<1>12. grammar_new_expression_list => Inv'
  BY Reduce1 DEF grammar_new_expression_list, Reads
<1>13. ASSUME NEW name \in Names, grammar_new_assignment_expression(name) PROVE Inv'
  BY <1>13, ReduceWithVariable DEF grammar_new_assignment_expression, Reads
<1>14. ASSUME NEW name \in Names, grammar_using_file(name) PROVE Inv'
  BY <1>14, ReduceWithVariable DEF grammar_using_file, Reads
<1> QED BY <1>2, <1>3, <1>4, <1>5, <1>6, <1>7, <1>8, <1>9, <1>10, <1>11, <1>12, <1>13, <1>14

LEMMA FunctionKeeps ==
    ASSUME Inv, NEW var \in Returnable, grammar_new_function(var)
    PROVE  Inv'
<1>1. /\ 2 <= Len(values)
      /\ Reduce(2, "function", <<Value(2), Value(1), var>>)
  BY DEF grammar_new_function, Reads
<1>2. Parsing
  BY <1>1 DEF Reduce, Build
<1>3. 2 \in Nat /\ <<Value(2), Value(1), var>> \in Seq(Operands(2) \cup {NULL})
  BY <1>2, FieldsHold DEF Returnable
<1>4. "function" \in Kinds /\ "function" # "variable"
  BY DEF Kinds
<1> QED BY <1>1, <1>3, <1>4, ReduceKeeps

LEMMA RangeKeeps ==
    ASSUME Inv, NEW from \in 0 .. 1, NEW to \in 0 .. 1, grammar_new_list_from_range(from, to)
    PROVE  Inv'
<1>1. /\ Build(0, {}, Object("variable", << >>), Range0(from, to))
      /\ UNCHANGED <<declared, dangling, table>>
  BY DEF grammar_new_list_from_range
<1>2. Parsing
  BY <1>1 DEF Build
<1>3. << >> \in Seq(Addresses \cup {NULL}) /\ Range(<< >>) = {}
  BY TupleOf
<1>4. /\ Range0(from, to) \in Objects /\ Range0(from, to).kind # "variable"
      /\ Parts(Range0(from, to)) \subseteq Operands(0)
  BY <1>3 DEF Range0, Objects, Kinds, Parts
<1>5. dangling \in [Names -> Vars(heap, live) \cup {NULL}]
  BY <1>2 DEF Inv, Parsed
<1>6. 0 \in Nat /\ 0 <= Len(values)
  BY <1>2, FieldsHold
<1> QED BY <1>1, <1>4, <1>5, <1>6, BuildKeeps

\* The parts of a conditional are none the release visits.
LEMMA ConditionalKeeps ==
    ASSUME Inv, grammar_new_conditional PROVE Inv'
<1> DEFINE object == [Object("conditional", << >>) EXCEPT
                         !.hidden = {Value(3), Value(2), Value(1)}]
<1>1. /\ 3 <= Len(values)
      /\ Build(3, {}, Object("variable", << >>), object)
      /\ UNCHANGED <<declared, dangling, table>>
  BY DEF grammar_new_conditional, Reads
<1>2. Parsing
  BY <1>1 DEF Build
<1>3. << >> \in Seq(Addresses \cup {NULL}) /\ Range(<< >>) = {}
  BY TupleOf
<1>4. {Value(3), Value(2), Value(1)} \subseteq Addresses
  BY <1>1, <1>2, OperandsHold, OperandsAreAddresses
<1>5. /\ object \in Objects /\ object.kind # "variable"
      /\ Parts(object) \subseteq Operands(3)
  BY <1>3, <1>4 DEF Object, Objects, Kinds, Parts
<1>6. dangling \in [Names -> Vars(heap, live) \cup {NULL}]
  BY <1>2 DEF Inv, Parsed
<1> HIDE DEF object
<1> QED BY <1>1, <1>5, <1>6, BuildKeeps

LEMMA LoopKeeps ==
    ASSUME Inv, NEW name \in Names, grammar_new_loop(name) PROVE Inv'
<1> DEFINE fields == <<Value(2), Value(1), dangling[name]>>
<1>1. /\ 2 <= Len(values) /\ Build(2, {}, Object("variable", << >>), Object("loop", fields))
      /\ declared' = declared /\ table' \subseteq table
      /\ dangling' = [dangling EXCEPT ![name] = NULL]
  BY DEF grammar_new_loop, Reads
<1>2. Parsing
  BY <1>1 DEF Build
<1>3. fields \in Seq(Operands(2) \cup {NULL})
  BY <1>2, FieldsHold
<1> HIDE DEF fields
<1>4. fields \in Seq(Addresses \cup {NULL}) /\ Range(fields) \subseteq Operands(2) \cup {NULL}
  BY <1>1, <1>2, <1>3, OperandsAreAddresses, SeqMonotonic, RangeOf
<1>5. "loop" \in Kinds /\ "loop" # "variable"
  BY DEF Kinds
<1>6. /\ Object("loop", fields) \in Objects /\ Object("loop", fields).kind # "variable"
      /\ Parts(Object("loop", fields)) \subseteq Operands(2)
  BY <1>4, <1>5, ObjectOK
<1>7. dangling' \in [Names -> Vars(heap, live) \cup {NULL}]
  BY <1>1, <1>2 DEF Inv, Parsed
<1> QED BY <1>1, <1>6, <1>7, BuildKeeps

\* Reductions that mention an identifier.
LEMMA MentionsKeep ==
    ASSUME Inv, NEW name \in Names
    PROVE  /\ \A kind \in {"id", "compare"} : grammar_expression_type_from_id(name, kind) => Inv'
           /\ grammar_new_list_args_from_id(name) => Inv'
           /\ grammar_function_call_from_id(name) => Inv'
           /\ \A dest \in Names : grammar_new_assignment_from_id(name, dest) => Inv'
<1>2. ASSUME NEW kind \in {"id", "compare", "args"},
             NEW var \in lookup_variable_create_dangling(name),
             Build(0, Fresh(var), Object("variable", << >>), Object(kind, <<var>>)),
             Mentioned(name, var)
      PROVE  Inv'
  <2>1. <<var>> \in Seq(Operands(0) \cup {var, NULL})
    BY TupleOf
  <2>2. kind \in Kinds /\ kind # "variable"
    BY DEF Kinds
  <2>3. 0 \in Nat /\ 0 <= Len(values)
    BY <1>2, FieldsHold DEF Build
  <2> QED BY <1>2, <2>1, <2>2, <2>3, MentionKeeps
<1>3. ASSUME NEW kind \in {"id", "compare"}, grammar_expression_type_from_id(name, kind)
      PROVE  Inv'
  BY <1>2, <1>3 DEF grammar_expression_type_from_id
<1>4. ASSUME grammar_new_list_args_from_id(name) PROVE Inv'
  BY <1>2, <1>4 DEF grammar_new_list_args_from_id
<1>5. ASSUME grammar_function_call_from_id(name) PROVE Inv'
  <2>1. PICK var \in lookup_variable_create_dangling(name) :
            /\ Build(1, Fresh(var), Object("variable", << >>),
                     Object("calls", <<var, declared[Function], Value(1)>>))
            /\ Mentioned(name, var)
    BY <1>5 DEF grammar_function_call_from_id
  <2>2. Parsing /\ 1 <= Len(values)
    BY <1>5, <2>1 DEF grammar_function_call_from_id, Reads, Build
  <2>3. declared[Function] \in Operands(1) \cup {NULL} /\ Value(1) \in Operands(1)
    BY <2>2, OperandsHold DEF Names
  <2>4. <<var, declared[Function], Value(1)>> \in Seq(Operands(1) \cup {var, NULL})
    BY <2>3, TupleOf
  <2>5. "calls" \in Kinds /\ "calls" # "variable" /\ 1 \in Nat
    BY DEF Kinds
  <2> QED BY <2>1, <2>2, <2>4, <2>5, MentionKeeps
<1>6. ASSUME NEW dest \in Names, grammar_new_assignment_from_id(name, dest) PROVE Inv'
  <2>1. PICK var \in lookup_variable_create_dangling(name) :
            /\ Build(0, Fresh(var), Object("variable", << >>),
                     Object("assignment", <<declared[dest], var>>))
            /\ Mentioned(name, var)
    BY <1>6 DEF grammar_new_assignment_from_id
  <2>2. Parsing
    BY <2>1 DEF Build
  <2>3. declared[dest] \in Operands(0) \cup {NULL}
    BY <2>2, OperandsHold
  <2>4. <<declared[dest], var>> \in Seq(Operands(0) \cup {var, NULL})
    BY <2>3, TupleOf
  <2>5. "assignment" \in Kinds /\ "assignment" # "variable" /\ 0 \in Nat /\ 0 <= Len(values)
    BY <2>2, FieldsHold DEF Kinds
  <2> QED BY <2>1, <2>4, <2>5, MentionKeeps
<1> QED BY <1>3, <1>4, <1>5, <1>6

LEMMA DeclarationsKeep ==
    ASSUME Inv, NEW name \in Names
    PROVE  /\ grammar_new_variable(name) => Inv'
           /\ grammar_new_declaration_file_node(name) => Inv'
<1>1. ASSUME grammar_new_variable(name) PROVE Inv'
  <2>1. PICK var \in Malloc(live) :
            /\ 1 <= Len(values)
            /\ Build(1, {var}, Object("variable", <<Value(1)>>), Object("declaration", <<var>>))
            /\ Declared(name, var)
    BY <1>1 DEF grammar_new_variable, Reads
  <2>2. Parsing
    BY <2>1 DEF Build
  <2>3. <<Value(1)>> \in Seq(Operands(1)) /\ <<var>> \in Seq(Operands(1) \cup {var})
    BY <2>2, OperandsHold, TupleOf
  <2>4. "declaration" \in Kinds /\ "declaration" # "variable" /\ 1 \in Nat
    BY DEF Kinds
  <2> QED BY <2>1, <2>3, <2>4, DeclareKeeps
<1>2. ASSUME grammar_new_declaration_file_node(name) PROVE Inv'
  <2> DEFINE Plain(var) ==
               Build(0, {var}, Object("variable", << >>), Object("file", <<var>>))
             Separated(var) ==
               /\ 1 <= Len(values)
               /\ Build(1, {var}, Object("variable", << >>), Object("file", <<var, Value(1)>>))
  <2>1. PICK var \in Malloc(live) : (Plain(var) \/ Separated(var)) /\ Declared(name, var)
    BY <1>2 DEF grammar_new_declaration_file_node, Reads
  <2>2. "file" \in Kinds /\ "file" # "variable" /\ 0 \in Nat /\ 1 \in Nat
    BY DEF Kinds
  <2>3. CASE Plain(var)
    <3>1. Parsing
      BY <2>3 DEF Build
    <3>2. << >> \in Seq(Operands(0)) /\ <<var>> \in Seq(Operands(0) \cup {var})
      BY TupleOf
    <3>3. 0 <= Len(values)
      BY <3>1, FieldsHold
    <3> QED BY <2>1, <2>2, <2>3, <3>2, <3>3, DeclareKeeps
  <2>4. CASE Separated(var)
    <3>1. Parsing
      BY <2>4 DEF Build
    <3>2. Value(1) \in Operands(1)
      BY <3>1, OperandsHold
    <3>3. << >> \in Seq(Operands(1)) /\ <<var, Value(1)>> \in Seq(Operands(1) \cup {var})
      BY <3>2, TupleOf
    <3> QED BY <2>1, <2>2, <2>4, <3>3, DeclareKeeps
  <2> QED BY <2>1, <2>3, <2>4
<1> QED BY <1>1, <1>2

\* The process ends, or the parse, and leaves the objects to be walked.
LEMMA EndKeeps ==
    ASSUME Inv, NEW how \in {"crash", "abort", "parsed"}, End(how) PROVE Inv'
<1>1. /\ Parsing /\ phase' = how
      /\ UNCHANGED <<heap, live, free_addresses, calls, todo, values, declared, dangling>>
      /\ UNCHANGED <<table, program, scale>>
  BY DEF End, parseVars
<1>2. TypeOK'
  BY <1>1 DEF Inv, TypeOK, MemTypeOK, Phases
<1>3. calls = << >> /\ calls' = << >> /\ ~Releasing'
  BY <1>1 DEF Inv, Parsing, Releasing
<1>4. Tree(heap, live, values) /\ program = NULL /\ todo = {} /\ table \subseteq live
  BY <1>1 DEF Inv, Parsed, Vars
<1>5. Walked(heap, live, << >>, Recorded)
  <2>1. PICK rank \in [Addresses -> Nat] : Ranked(rank, heap, live)
    BY <1>4 DEF Tree, Acyclic
  <2>2. Descending(rank, << >>)
    BY DEF Descending
  <2>3. Walk(heap, live, << >>)
    BY <2>1, <2>2 DEF Walk
  <2> QED BY <1>4, <2>3 DEF Walked, Tree
<1>6. Recorded' = Recorded
  BY <1>1 DEF Recorded
<1> QED BY <1>1, <1>2, <1>3, <1>4, <1>5, <1>6 DEF Inv, Parsing

LEMMA ProgramKeeps ==
    ASSUME Inv, grammar_program PROVE Inv'
<1>1. /\ Parsing /\ phase' = "parsed" /\ program' = Value(1) /\ 1 <= Len(values)
      /\ UNCHANGED <<heap, live, free_addresses, calls, todo, values, declared, dangling>>
      /\ UNCHANGED <<table, scale>>
  BY DEF grammar_program, Reads
<1>2. Value(1) \in live /\ live \subseteq Addresses
  <2>1. 1 \in Nat /\ Value(1) \in Operands(1)
    BY <1>1, OperandsHold
  <2> QED BY <1>1, <2>1, OperandsAreFree DEF Tree
<1>3. TypeOK'
  BY <1>1, <1>2 DEF Inv, TypeOK, MemTypeOK, Phases
<1>4. calls = << >> /\ calls' = << >>
  BY <1>1 DEF Inv, Parsing, Releasing
<1>5. Tree(heap, live, values) /\ todo = {} /\ table \subseteq live
  BY <1>1 DEF Inv, Parsed, Vars
<1>6. Walked(heap, live, << >>, Recorded)
  <2>1. PICK rank \in [Addresses -> Nat] : Ranked(rank, heap, live)
    BY <1>5 DEF Tree, Acyclic
  <2>2. Descending(rank, << >>)
    BY DEF Descending
  <2>3. Walk(heap, live, << >>)
    BY <2>1, <2>2 DEF Walk
  <2> QED BY <1>5, <2>3 DEF Walked, Tree
<1>7. Recorded' = Recorded
  BY <1>1 DEF Recorded
<1> QED BY <1>1, <1>2, <1>3, <1>4, <1>5, <1>6, <1>7 DEF Inv, Parsing

\* An object with one more field.
LEMMA MoreFields ==
    ASSUME NEW o \in Objects, NEW a \in Addresses, NEW e \in BOOLEAN
    PROVE  LET q == [o EXCEPT !.fields = Append(@, a), !.empty = e]
           IN  /\ q \in Objects /\ q.kind = o.kind
               /\ Parts(q) \subseteq Parts(o) \cup {a}
<1> DEFINE q == [o EXCEPT !.fields = Append(@, a), !.empty = e]
<1>1. o.fields \in Seq(Addresses \cup {NULL})
  BY PartsAreAddresses
<1>2. /\ Append(o.fields, a) \in Seq(Addresses \cup {NULL})
      /\ Range(Append(o.fields, a)) = Range(o.fields) \cup {a}
  BY <1>1, AppendProperties, RangeAppend
<1>3. q \in Objects /\ q.kind = o.kind /\ q.fields = Append(o.fields, a)
  BY <1>2 DEF Objects
<1> HIDE DEF q
<1>4. Parts(q) \subseteq Parts(o) \cup {a}
  BY <1>2, <1>3 DEF Parts
<1> QED BY <1>3, <1>4 DEF q

LEMMA ExtensionsKeep ==
    ASSUME Inv
    PROVE  /\ grammar_concat_list_expr => Inv'
           /\ grammar_concat_list_args => Inv'
           /\ grammar_concat_expressions => Inv'
<1> DEFINE head == heap[Value(2)]
<1>1. ASSUME grammar_concat_list_expr PROVE Inv'
  <2>1. /\ 2 <= Len(values)
        /\ \/ End("crash")
           \/ Extend(2, [head EXCEPT !.fields = Append(@, Value(1)), !.empty = FALSE])
           \/ Extend(2, [head EXCEPT !.hidden = @ \cup {Value(1)}, !.exprs = "array",
                                     !.empty = FALSE])
    BY <1>1 DEF grammar_concat_list_expr, Reads
  <2>2. Parsing
    BY <2>1 DEF End, Extend
  <2>3. head \in Objects /\ Value(1) \in Addresses
    BY <2>1, <2>2, ValueTwo
  <2> HIDE DEF head
  <2>4. CASE End("crash")
    BY <2>4, EndKeeps
  <2>5. CASE Extend(2, [head EXCEPT !.fields = Append(@, Value(1)), !.empty = FALSE])
    BY <2>1, <2>3, <2>5, MoreFields, ExtendKeeps DEF head
  <2>6. CASE Extend(2, [head EXCEPT !.hidden = @ \cup {Value(1)}, !.exprs = "array",
                                    !.empty = FALSE])
    <3> DEFINE q == [head EXCEPT !.hidden = @ \cup {Value(1)}, !.exprs = "array",
                                 !.empty = FALSE]
    <3>1. q \in Objects /\ q.kind = head.kind /\ q.fields = head.fields
      BY <2>3 DEF Objects
    <3> HIDE DEF q
    <3>2. Parts(q) \subseteq Parts(head) \cup {Value(1)}
      BY <3>1 DEF Parts
    <3>3. Extend(2, q)
      BY <2>6 DEF q
    <3> QED BY <2>1, <3>1, <3>2, <3>3, ExtendKeeps DEF head
  <2> QED BY <2>1, <2>4, <2>5, <2>6
<1>2. ASSUME grammar_concat_list_args PROVE Inv'
  <2>1. /\ 2 <= Len(values)
        /\ Extend(2, [head EXCEPT !.fields = Append(@, Value(1)), !.empty = FALSE])
    BY <1>2 DEF grammar_concat_list_args, Reads
  <2>2. Parsing
    BY <2>1 DEF Extend
  <2>3. head \in Objects /\ Value(1) \in Addresses
    BY <2>1, <2>2, ValueTwo
  <2> HIDE DEF head
  <2> QED BY <2>1, <2>3, MoreFields, ExtendKeeps DEF head
<1>3. ASSUME grammar_concat_expressions PROVE Inv'
  <2>1. /\ 2 <= Len(values)
        /\ Extend(2, [head EXCEPT !.fields = Append(@, Value(1))])
    BY <1>3 DEF grammar_concat_expressions, Reads
  <2>2. Parsing
    BY <2>1 DEF Extend
  <2>3. head \in Objects /\ Value(1) \in Addresses /\ head.empty \in BOOLEAN
    BY <2>1, <2>2, ValueTwo DEF Objects
  <2> HIDE DEF head
  <2> DEFINE q == [head EXCEPT !.fields = Append(@, Value(1))]
  <2>4. PICK e \in BOOLEAN : e = head.empty
    BY <2>3
  <2> DEFINE p == [head EXCEPT !.fields = Append(@, Value(1)), !.empty = e]
  <2>5. /\ p \in Objects /\ p.kind = head.kind
        /\ Parts(p) \subseteq Parts(head) \cup {Value(1)}
    BY <2>3, MoreFields
  <2>6. p = q
    BY <2>3, <2>4 DEF Objects
  <2> HIDE DEF q, p
  <2>7. Extend(2, q)
    BY <2>1 DEF q
  <2> QED BY <2>1, <2>5, <2>6, <2>7, ExtendKeeps DEF head
<1> QED BY <1>1, <1>2, <1>3

\* The links of the second chain move to the first; its own object is freed,
\* and nothing points to it.
LEMMA ConcatCallKeeps ==
    ASSUME Inv, grammar_concat_function_call PROVE Inv'
<1> DEFINE o == heap[Value(2)]
           t == heap[Value(1)]
           q == [o EXCEPT !.fields = @ \o t.fields]
<1>1. /\ Parsing /\ 2 <= Len(values)
      /\ heap' = [heap EXCEPT ![Value(2)].fields = @ \o heap[Value(1)].fields]
      /\ live' = live \ {Value(1)} /\ values' = Rest(1)
      /\ UNCHANGED <<program, scale, free_addresses, calls, todo, phase>>
      /\ UNCHANGED <<declared, dangling, table>>
  BY DEF grammar_concat_function_call, Reads
<1>2. /\ o \in Objects /\ t \in Objects /\ o.kind # "variable" /\ Value(2) \in DOMAIN heap
      /\ Parts(o) \subseteq live /\ Parts(o) \cap Range(values) = {}
      /\ Parts(t) \subseteq live /\ Parts(t) \cap Range(values) = {}
      /\ Value(1) \in Range(values)
  BY <1>1, ValueTwo
<1>3. heap' = [heap EXCEPT ![Value(2)] = q]
  BY <1>1
<1> HIDE DEF o, t
<1>4. /\ o.fields \in Seq(Addresses \cup {NULL}) /\ t.fields \in Seq(Addresses \cup {NULL})
  BY <1>2, PartsAreAddresses
<1>5. /\ o.fields \o t.fields \in Seq(Addresses \cup {NULL})
      /\ Range(o.fields \o t.fields) = Range(o.fields) \cup Range(t.fields)
  BY <1>4, ConcatProperties, RangeConcat
<1>6. q \in Objects /\ q.kind = o.kind /\ q.fields = o.fields \o t.fields
  BY <1>2, <1>5 DEF Objects
<1> HIDE DEF q
<1>7. Parts(q) = Parts(o) \cup Parts(t)
  BY <1>5, <1>6 DEF Parts
<1>8. /\ Parts(q) \subseteq live /\ Parts(q) \cap Range(values) \subseteq {Value(1)}
      /\ Value(1) \notin Parts(q) /\ q.kind # "variable"
  BY <1>2, <1>6, <1>7
<1>9. Tree(heap', live', values') /\ Vars(heap, live) \subseteq Vars(heap', live')
  BY <1>1, <1>3, <1>6, <1>8, UpdateTree
<1>10. Parsed(heap', live', values', declared', dangling', table')
  BY <1>1, <1>9, ScopesGrow DEF Parsed
<1> QED BY <1>1, <1>10, ListKept, ParsedIsEnough

---------------------------------------------------------------------------
(* The list of addresses. *)

LEMMA RecordOK ==
    ASSUME TypeOK, ListOK(free_addresses), NEW ptr \in Addresses, ptr \notin Recorded
    PROVE  /\ Record(ptr) \in [array : Seq(Addresses), len : Nat]
           /\ ListOK(Record(ptr))
           /\ Range(Record(ptr).array) = Recorded \cup {ptr}
<1> DEFINE s == free_addresses.array
           u == Record(ptr).array
<1>1. s \in Seq(Addresses) /\ free_addresses.len \in Nat
  BY DEF TypeOK, MemTypeOK
<1>2. Len(s) \in Nat /\ DOMAIN s = 1 .. Len(s) /\ Len(s) <= free_addresses.len
  BY <1>1, LenProperties DEF ListOK
<1>3. u = Append(s, ptr)
  BY DEF Record
<1>4. /\ u \in Seq(Addresses) /\ Len(u) = Len(s) + 1
      /\ \A i \in 1 .. Len(s) : u[i] = s[i]
      /\ u[Len(s) + 1] = ptr
      /\ Range(u) = Recorded \cup {ptr}
  BY <1>1, <1>3, AppendProperties, RangeAppend DEF Recorded
<1> HIDE DEF u
<1>5. DOMAIN u = 1 .. Len(s) + 1
  BY <1>4, LenProperties
<1>6. \A i \in 1 .. Len(s) : u[i] \in Recorded
  BY <1>1, <1>4, RangeOf DEF Recorded
<1>7. Distinct(u)
  <2> SUFFICES ASSUME NEW i \in 1 .. Len(s) + 1, NEW j \in 1 .. Len(s) + 1, u[i] = u[j]
               PROVE  i = j
    BY <1>5 DEF Distinct
  <2>1. CASE i \in 1 .. Len(s) /\ j \in 1 .. Len(s)
    <3>1. i \in DOMAIN s /\ j \in DOMAIN s /\ s[i] = s[j]
      BY <2>1, <1>2, <1>4
    <3> QED BY <3>1 DEF ListOK, Distinct
  <2>2. CASE i = Len(s) + 1 /\ j \in 1 .. Len(s)
    BY <2>2, <1>4, <1>6
  <2>3. CASE i \in 1 .. Len(s) /\ j = Len(s) + 1
    BY <2>3, <1>4, <1>6
  <2>4. CASE i = Len(s) + 1 /\ j = Len(s) + 1
    BY <2>4
  <2> QED BY <1>2, <2>1, <2>2, <2>3, <2>4
<1>8. Record(ptr).len \in Nat /\ Len(s) + 1 <= Record(ptr).len
  BY <1>1, <1>2, CapacityAssumption DEF Record
<1>9. Record(ptr) \in [array : Seq(Addresses), len : Nat]
  BY <1>1, <1>3, <1>4, <1>8 DEF Record, u
<1> QED BY <1>4, <1>7, <1>8, <1>9 DEF ListOK, u

\* After free_and_keep_address the object is recorded, and what has been
\* allocated or recorded remains one of the two.
LEMMA FreeOK ==
    ASSUME Inv, NEW ptr \in Addresses, free_and_keep_address(ptr)
    PROVE  /\ free_addresses' \in [array : Seq(Addresses), len : Nat]
           /\ ListOK(free_addresses')
           /\ live' \subseteq live /\ live \ {ptr} \subseteq live'
           /\ Recorded' = Recorded \cup {ptr}
           /\ ptr \in live' => live' = live
<1>1. ptr # NULL
  BY AddressesAssumption DEF NULL
<1>2. CASE ptr \in Recorded
  <2>1. UNCHANGED <<live, free_addresses>>
    BY <1>2 DEF free_and_keep_address, has_been_freed
  <2> QED BY <1>2, <2>1, ListKept DEF Recorded
<1>3. CASE ptr \notin Recorded
  <2>1. free_addresses' = Record(ptr) /\ live' = live \ {ptr}
    BY <1>1, <1>3 DEF free_and_keep_address, has_been_freed
  <2> QED BY <1>3, <2>1, RecordOK DEF Inv, Recorded
<1> QED BY <1>2, <1>3

\* The empty tail of a list is freed, and recorded.
LEMMA ConcatListKeeps ==
    ASSUME Inv, grammar_concat_list_list PROVE Inv'
<1> DEFINE o == heap[Value(2)]
           q == [o EXCEPT !.exprs = "array"]
<1>1. CASE End("crash") \/ End("abort")
  BY <1>1, EndKeeps
<1>2. CASE ~(End("crash") \/ End("abort"))
  <2>1. /\ Parsing /\ 2 <= Len(values) /\ free_and_keep_address(Value(1))
        /\ heap' = [heap EXCEPT ![Value(2)].exprs = "array"]
        /\ values' = Rest(1)
        /\ UNCHANGED <<program, scale, calls, todo, phase>>
        /\ UNCHANGED <<declared, dangling, table>>
    BY <1>2 DEF grammar_concat_list_list, Reads
  <2>2. /\ o \in Objects /\ o.kind # "variable" /\ Value(1) \in Addresses
        /\ Parts(o) \subseteq live /\ Parts(o) \cap Range(values) = {}
        /\ Value(1) \in Range(values) /\ Value(2) \in DOMAIN heap
    BY <2>1, ValueTwo
  <2>3. heap' = [heap EXCEPT ![Value(2)] = q]
    BY <2>1
  <2> HIDE DEF o
  <2>4. q \in Objects /\ q.kind = o.kind /\ q.fields = o.fields
    BY <2>2 DEF Objects
  <2> HIDE DEF q
  <2>5. Parts(q) = Parts(o)
    BY <2>4 DEF Parts
  <2>6. /\ Parts(q) \subseteq live /\ Parts(q) \cap Range(values) \subseteq {Value(1)}
        /\ Value(1) \notin Parts(q) /\ q.kind # "variable"
    BY <2>2, <2>4, <2>5
  <2>7. /\ free_addresses' \in [array : Seq(Addresses), len : Nat]
        /\ ListOK(free_addresses')
        /\ live' = live \/ live' = live \ {Value(1)}
    BY <2>1, <2>2, FreeOK
  <2>8. Tree(heap', live', values') /\ Vars(heap, live) \subseteq Vars(heap', live')
    BY <2>1, <2>3, <2>4, <2>6, <2>7, UpdateTree
  <2>9. Parsed(heap', live', values', declared', dangling', table')
    BY <2>1, <2>8, ScopesGrow DEF Parsed
  <2> QED BY <2>1, <2>7, <2>9, ParsedIsEnough
<1> QED BY <1>1, <1>2

\* An identifier is added to a list of arguments: its variable may be new.
LEMMA ConcatArgKeeps ==
    ASSUME Inv, NEW name \in Names, grammar_concat_list_args_with_id(name) PROVE Inv'
<1>1. PICK var \in lookup_variable_create_dangling(name) :
          /\ heap' = [b \in DOMAIN heap \cup {var} |->
                        IF b = Value(1)
                        THEN [heap[b] EXCEPT !.fields = Append(@, var), !.empty = FALSE]
                        ELSE IF b \in Fresh(var) THEN Object("variable", << >>)
                        ELSE heap[b]]
          /\ live' = live \cup {var}
          /\ Mentioned(name, var)
  BY DEF grammar_concat_list_args_with_id
<1>2. /\ Parsing /\ 1 <= Len(values)
      /\ UNCHANGED <<values, program, scale, free_addresses, calls, todo, phase>>
  BY DEF grammar_concat_list_args_with_id, Reads
<1>3. /\ Fresh(var) \in SUBSET (Addresses \ live)
      /\ var \in Vars(heap, live) \cup Fresh(var)
  BY <1>2, LookupOK
<1>4. Tree(heap, live, values)
  BY <1>2 DEF Inv, Parsed
<1>5. values \in Seq(live) /\ Len(values) \in Nat
  BY <1>4, LenProperties DEF Tree
<1>6. Value(1) \in Range(values) /\ Value(1) \in live /\ Range(values) \subseteq live
  <2>1. Len(values) - 1 + 1 \in 1 .. Len(values)
    BY <1>2, <1>5
  <2> QED BY <2>1, <1>5, RangeOf DEF Value
<1>7. live \subseteq DOMAIN heap /\ live \subseteq Addresses /\ var \in Addresses
  BY <1>3, <1>4 DEF Tree, Vars
<1> DEFINE F == Fresh(var)
           g == [b \in DOMAIN heap \cup F |->
                    IF b \in F THEN Object("variable", << >>) ELSE heap[b]]
           o == heap[Value(1)]
           q == [o EXCEPT !.fields = Append(@, var), !.empty = FALSE]
<1>8. Tree(g, live \cup F, values)
  <2>1. /\ DOMAIN g = DOMAIN heap \cup F /\ \A b \in F : g[b] = Object("variable", << >>)
        /\ \A b \in DOMAIN heap \ F : g[b] = heap[b]
    OBVIOUS
  <2> HIDE DEF g, F
  <2>2. F \in SUBSET (Addresses \ live)
    BY <1>3 DEF F
  <2> QED BY <2>1, <2>2, <1>4, VariableOK, New
<1>9. /\ o \in Objects /\ o.kind # "variable" /\ Parts(o) \subseteq live
      /\ Parts(o) \cap Range(values) = {}
  BY <1>4, <1>6, <1>7 DEF Tree
<1>10. q \in Objects /\ q.kind = o.kind /\ Parts(q) \subseteq Parts(o) \cup {var}
  <2> HIDE DEF o
  <2> QED BY <1>7, <1>9, MoreFields
<1>11. var \in live \cup F /\ var \notin Range(values)
  <2>1. CASE var \in Vars(heap, live)
    BY <2>1, <1>4 DEF Vars, Tree
  <2>2. CASE var \in Fresh(var)
    BY <2>2, <1>3, <1>6
  <2> QED BY <2>1, <2>2, <1>3
<1>12. live' = live \cup F
  BY <1>1, <1>3 DEF Fresh, Vars
<1>13. /\ DOMAIN heap' = DOMAIN g /\ heap'[Value(1)] = q
       /\ \A b \in DOMAIN g \ {Value(1)} : heap'[b] = g[b]
  <2>1. DOMAIN heap \cup {var} = DOMAIN heap \cup F
    BY <1>3, <1>7 DEF Fresh, Vars
  <2>2. Value(1) \in DOMAIN heap
    BY <1>6, <1>7
  <2> QED BY <2>1, <2>2, <1>1
<1> HIDE DEF g, q, F
<1>14. Tree(heap', live', values')
  <2>1. /\ q \in Objects /\ q.kind # "variable" /\ Parts(q) \subseteq live \cup F
        /\ Parts(q) \cap Range(values) = {}
    BY <1>9, <1>10, <1>11
  <2> DEFINE w == heap'
  <2>2. /\ DOMAIN w = DOMAIN g /\ w[Value(1)] = q
        /\ \A b \in DOMAIN g \ {Value(1)} : w[b] = g[b]
    BY <1>13
  <2> HIDE DEF w
  <2>3. Tree(w, live \cup F, values)
    BY <2>1, <2>2, <1>6, <1>8, Update
  <2> QED BY <2>3, <1>2, <1>12 DEF w
<1>15. Vars(heap, live) \cup Fresh(var) \subseteq Vars(heap', live')
  <2>1. ASSUME NEW a \in Vars(heap, live) PROVE a \in Vars(heap', live')
    <3>1. a # Value(1) /\ a \in live /\ a \notin F /\ heap[a].kind = "variable"
      BY <1>3, <1>9 DEF Vars, F, o
    <3>2. heap'[a] = heap[a]
      BY <3>1, <1>7, <1>13 DEF g
    <3> QED BY <3>1, <3>2, <1>12 DEF Vars
  <2>2. ASSUME NEW a \in F PROVE a \in Vars(heap', live')
    <3>1. a # Value(1)
      BY <1>3, <1>6 DEF F
    <3>2. heap'[a] = Object("variable", << >>)
      BY <3>1, <1>13 DEF g
    <3> QED BY <3>2, <1>12, VariableOK DEF Vars
  <2> QED BY <2>1, <2>2 DEF F
<1>16. Parsed(heap', live', values', declared', dangling', table')
  BY <1>1, <1>2, <1>14, <1>15, MentionedOK DEF Parsed
<1> QED BY <1>2, <1>16, ListKept, ParsedIsEnough

---------------------------------------------------------------------------
(* The release. *)

LEMMA LastReplaced ==
    ASSUME NEW S, NEW c \in Seq(S), c # << >>, NEW x \in S
    PROVE  LET u == SubSeq(c, 1, Len(c) - 1) \o <<x>>
           IN  /\ u \in Seq(S) /\ Len(u) = Len(c) /\ u[Len(c)] = x
               /\ \A i \in 1 .. Len(c) - 1 : u[i] = c[i]
<1> DEFINE n == Len(c)
           b == SubSeq(c, 1, n - 1)
<1>1. n \in Nat \ {0} /\ \A i \in 1 .. n : c[i] \in S
  BY EmptySeq, ElementOfSeq
<1>2. b \in Seq(S) /\ Len(b) = n - 1 /\ \A i \in 1 .. n - 1 : b[i] = c[i]
  <2>1. \A i \in 1 .. n - 1 : c[i] \in S
    BY <1>1
  <2>2. /\ b \in Seq(S) /\ Len(b) = (IF 1 <= n - 1 THEN n - 1 - 1 + 1 ELSE 0)
        /\ \A i \in 1 .. n - 1 - 1 + 1 : b[i] = c[1 + i - 1]
    <3>1. 1 \in Int /\ n - 1 \in Int
      BY <1>1
    <3> QED BY <2>1, <3>1, SubSeqProperties
  <2> HIDE DEF b, n
  <2>3. n - 1 - 1 + 1 = n - 1 /\ \A i \in 1 .. n - 1 : 1 + i - 1 = i
    BY <1>1
  <2> QED BY <2>2, <2>3, <1>1
<1> HIDE DEF b
<1>3. b \o <<x>> = Append(b, x)
  BY <1>2, AppendIsConcat
<1>4. /\ Append(b, x) \in Seq(S) /\ Len(Append(b, x)) = n - 1 + 1
      /\ Append(b, x)[n - 1 + 1] = x
      /\ \A i \in 1 .. n - 1 : Append(b, x)[i] = b[i]
  BY <1>2, AppendProperties
<1>5. n - 1 + 1 = n
  BY <1>1
<1> QED BY <1>2, <1>3, <1>4, <1>5 DEF b

\* The function at the top goes on to its next field.
LEMMA Advance ==
    ASSUME NEW h, NEW l, NEW c \in Seq(Frame), NEW r, Walked(h, l, c, r), c # << >>,
           NEW x \in Frame, x.object = c[Len(c)].object, x.at >= 1
    PROVE  Walked(h, l, SubSeq(c, 1, Len(c) - 1) \o <<x>>, r)
<1> DEFINE u == SubSeq(c, 1, Len(c) - 1) \o <<x>>
<1>1. /\ u \in Seq(Frame) /\ Len(u) = Len(c) /\ u[Len(c)] = x
      /\ \A i \in 1 .. Len(c) - 1 : u[i] = c[i]
  BY LastReplaced
<1>2. Len(c) \in Nat \ {0} /\ DOMAIN c = 1 .. Len(c)
  BY EmptySeq, LenProperties
<1> HIDE DEF u
<1>3. DOMAIN u = 1 .. Len(c)
  BY <1>1, LenProperties
<1>4. \A i \in 1 .. Len(c) : u[i].object = c[i].object /\ (i # Len(c) => u[i] = c[i])
  <2> TAKE i \in 1 .. Len(c)
  <2>1. \A n \in Nat \ {0} : \A j \in 1 .. n : j = n \/ j \in 1 .. n - 1
    OBVIOUS
  <2>2. i = Len(c) \/ i \in 1 .. Len(c) - 1
    BY <2>1, <1>2
  <2> QED BY <2>2, <1>1, <1>2
<1>5. \A i \in DOMAIN u : u[i].object \in l /\ u[i].at >= 1
  BY <1>1, <1>2, <1>3, <1>4 DEF Walked
<1>6. Walk(h, l, u)
  <2>1. PICK rank \in [Addresses -> Nat] : Ranked(rank, h, l) /\ Descending(rank, c)
    BY DEF Walked, Walk
  <2>2. Descending(rank, u)
    BY <2>1, <1>2, <1>3, <1>4 DEF Descending
  <2> QED BY <2>1, <2>2 DEF Walk
<1>7. Walked(h, l, u, r)
  BY <1>5, <1>6 DEF Walked
<1> QED BY <1>7 DEF u

\* It calls a function for a part that is not recorded.
LEMMA Enter ==
    ASSUME NEW h, NEW l, NEW c \in Seq(Frame), NEW r, Walked(h, l, c, r), c # << >>,
           l \subseteq Addresses, r \subseteq Addresses,
           NEW f \in Parts(h[c[Len(c)].object]), f \notin r
    PROVE  /\ Append(c, [object |-> f, at |-> 1]) \in Seq(Frame)
           /\ Walked(h, l, Append(c, [object |-> f, at |-> 1]), r)
<1> DEFINE x == [object |-> f, at |-> 1]
           u == Append(c, x)
           n == Len(c)
<1>1. n \in Nat \ {0} /\ DOMAIN c = 1 .. n
  BY EmptySeq, LenProperties
<1>2. c[n].object \in l
  BY <1>1 DEF Walked
<1>3. f \in l /\ f \in Addresses
  BY <1>2 DEF Walked
<1>4. x \in Frame /\ x.object = f /\ x.at = 1
  BY <1>3 DEF Frame
<1> HIDE DEF x
<1>5. /\ u \in Seq(Frame) /\ Len(u) = n + 1 /\ u[n + 1] = x
      /\ \A i \in 1 .. n : u[i] = c[i]
  BY <1>4, AppendProperties
<1> HIDE DEF u, n
<1>6. DOMAIN u = 1 .. n + 1
  BY <1>5, LenProperties
<1>7. \A i \in 1 .. n + 1 : i = n + 1 \/ i \in 1 .. n
  BY <1>1
<1>8. \A i \in DOMAIN u : u[i].object \in l /\ u[i].at >= 1
  BY <1>1, <1>3, <1>4, <1>5, <1>6, <1>7 DEF Walked
<1>9. Walk(h, l, u)
  <2>1. PICK rank \in [Addresses -> Nat] : Ranked(rank, h, l) /\ Descending(rank, c)
    BY DEF Walked, Walk
  <2>2. rank[f] < rank[c[n].object]
    BY <2>1, <1>2 DEF Ranked, n
  <2>3. \A i \in 1 .. n : c[i].object \in Addresses
    BY <1>1 DEF Walked
  <2>4. ASSUME NEW i \in 1 .. n PROVE rank[f] < rank[c[i].object]
    <3>1. CASE i = n
      BY <3>1, <2>2
    <3>2. CASE i # n
      <4>1. n \in DOMAIN c /\ i \in DOMAIN c /\ i < n
        BY <3>2, <1>1
      <4>2. rank[c[n].object] < rank[c[i].object]
        BY <4>1, <2>1 DEF Descending
      <4>3. rank[f] \in Nat /\ rank[c[n].object] \in Nat /\ rank[c[i].object] \in Nat
        BY <1>3, <2>3, <4>1, <1>1
      <4> QED BY <2>2, <4>2, <4>3
    <3> QED BY <3>1, <3>2
  <2>5. Descending(rank, u)
    <3> SUFFICES ASSUME NEW i \in 1 .. n + 1, NEW j \in 1 .. n + 1, i < j
                 PROVE  rank[u[j].object] < rank[u[i].object]
      BY <1>6 DEF Descending
    <3>1. i \in 1 .. n
      BY <1>1
    <3>2. CASE j = n + 1
      BY <3>1, <3>2, <2>4, <1>4, <1>5
    <3>3. CASE j \in 1 .. n
      BY <3>1, <3>3, <2>1, <1>1, <1>5 DEF Descending
    <3> QED BY <3>2, <3>3, <1>7
  <2> QED BY <2>1, <2>5 DEF Walk
<1>10. Walked(h, l, u, r)
  BY <1>8, <1>9 DEF Walked
<1> QED BY <1>5, <1>10 DEF u, x

\* A root: the first call on an empty stack.
LEMMA EnterRoot ==
    ASSUME NEW h, NEW l, NEW r, Walked(h, l, << >>, r), l \subseteq Addresses, NEW f \in l
    PROVE  /\ <<[object |-> f, at |-> 1]>> \in Seq(Frame)
           /\ Walked(h, l, <<[object |-> f, at |-> 1]>>, r)
<1> DEFINE x == [object |-> f, at |-> 1]
           u == <<x>>
<1>1. x \in Frame /\ x.object = f /\ x.at = 1
  BY DEF Frame
<1> HIDE DEF x
<1>2. u \in Seq(Frame) /\ DOMAIN u = {1} /\ u[1] = x
  BY <1>1, TupleOf
<1> HIDE DEF u
<1>3. PICK rank \in [Addresses -> Nat] : Ranked(rank, h, l)
  BY DEF Walked, Walk
<1>4. Descending(rank, u)
  BY <1>2 DEF Descending
<1>5. Walk(h, l, u)
  BY <1>3, <1>4 DEF Walk
<1>6. Walked(h, l, u, r)
  BY <1>1, <1>2, <1>5 DEF Walked
<1> QED BY <1>2, <1>6 DEF u, x

\* The function at the top has freed its object and returns: no function below
\* it works on that object, which has a lower rank than theirs.
LEMMA Leave ==
    ASSUME NEW h, NEW l, NEW c \in Seq(Frame), NEW r, Walked(h, l, c, r), c # << >>,
           l \subseteq Addresses,
           NEW m, m \subseteq l, l \ {c[Len(c)].object} \subseteq m
    PROVE  /\ SubSeq(c, 1, Len(c) - 1) \in Seq(Frame)
           /\ Walked(h, m, SubSeq(c, 1, Len(c) - 1), r \cup {c[Len(c)].object})
<1> DEFINE n == Len(c)
           o == c[n].object
           u == SubSeq(c, 1, n - 1)
<1>1. n \in Nat \ {0} /\ DOMAIN c = 1 .. n /\ \A i \in 1 .. n : c[i] \in Frame
  BY EmptySeq, LenProperties, ElementOfSeq
<1>2. u \in Seq(Frame) /\ Len(u) = n - 1 /\ \A i \in 1 .. n - 1 : u[i] = c[i]
  <2>1. n - 1 \in Int /\ 1 \in Int /\ \A i \in 1 .. n - 1 : c[i] \in Frame
    BY <1>1
  <2>2. /\ u \in Seq(Frame) /\ Len(u) = (IF 1 <= n - 1 THEN n - 1 - 1 + 1 ELSE 0)
        /\ \A i \in 1 .. n - 1 - 1 + 1 : u[i] = c[1 + i - 1]
    BY <2>1, SubSeqProperties
  <2> HIDE DEF u, n
  <2>3. n - 1 - 1 + 1 = n - 1 /\ \A i \in 1 .. n - 1 : 1 + i - 1 = i
    BY <1>1
  <2> QED BY <2>2, <2>3, <1>1
<1> HIDE DEF u, n
<1>3. DOMAIN u = 1 .. n - 1 /\ \A i \in 1 .. n - 1 : i \in 1 .. n /\ i < n
  BY <1>1, <1>2, LenProperties
<1>4. PICK rank \in [Addresses -> Nat] : Ranked(rank, h, l) /\ Descending(rank, c)
  BY DEF Walked, Walk
<1>5. \A i \in DOMAIN u : u[i].object \in m /\ u[i].at >= 1
  <2> TAKE i \in DOMAIN u
  <2>1. u[i] = c[i] /\ i \in DOMAIN c /\ n \in DOMAIN c /\ i < n
    BY <1>1, <1>2, <1>3
  <2>2. c[i].object \in l /\ c[n].object \in l /\ c[i].at >= 1
    BY <2>1 DEF Walked
  <2>3. rank[o] < rank[c[i].object]
    BY <2>1, <1>4 DEF Descending
  <2>4. rank[o] \in Nat
    BY <2>2
  <2>5. c[i].object # o
    BY <2>3, <2>4
  <2> QED BY <2>1, <2>2, <2>5 DEF n
<1>6. Walk(h, m, u)
  <2>1. Ranked(rank, h, m)
    BY <1>4 DEF Ranked
  <2>2. Descending(rank, u)
    BY <1>1, <1>2, <1>3, <1>4 DEF Descending
  <2> QED BY <2>1, <2>2 DEF Walk
<1>7. \A p \in m : Parts(h[p]) \subseteq m \cup (r \cup {o})
  BY DEF Walked, n
<1>8. Walked(h, m, u, r \cup {o})
  BY <1>5, <1>6, <1>7 DEF Walked
<1> QED BY <1>2, <1>8 DEF u, n

\* What a step of the release has to show.
LEMMA WalkedIsEnough ==
    ASSUME Inv, UNCHANGED <<heap, parseVars>>,
           phase' \in {"main_function", "table"},
           live' \subseteq live,
           free_addresses' \in [array : Seq(Addresses), len : Nat],
           ListOK(free_addresses'),
           calls' \in Seq(Frame), todo' \subseteq table,
           Walked(heap, live', calls', Recorded'),
           live \cup Recorded \subseteq live' \cup Recorded',
           program \in live \cup Recorded \cup {NULL},
           table \subseteq live \cup Recorded
    PROVE  Inv'
<1>1. TypeOK'
  BY DEF Inv, TypeOK, MemTypeOK, parseVars, Phases
<1> QED BY <1>1 DEF Inv, Parsing, Releasing, parseVars

LEMMA AddressesHold ==
    ASSUME Inv
    PROVE  live \subseteq Addresses /\ Recorded \subseteq Addresses /\ calls \in Seq(Frame)
BY RecordedAreAddresses DEF Inv, TypeOK, MemTypeOK

LEMMA RootsHold ==
    ASSUME Inv, phase \in {"parsed", "main_function", "table"}
    PROVE  /\ Walked(heap, live, calls, Recorded)
           /\ program \in live \cup Recorded \cup {NULL}
           /\ table \subseteq live \cup Recorded
           /\ todo \subseteq table
BY DEF Inv

LEMMA MainFunctionKeeps ==
    ASSUME Inv, free_main_function(program), UNCHANGED parseVars PROVE Inv'
<1>1. /\ phase = "parsed" /\ phase' = "main_function" /\ calls' = Called(program)
      /\ UNCHANGED <<heap, live, free_addresses, todo>>
  BY DEF free_main_function
<1>2. calls = << >>
  BY <1>1 DEF Inv, Releasing
<1>3. calls' \in Seq(Frame) /\ Walked(heap, live, calls', Recorded)
  <2>1. CASE has_been_freed(program)
    <3>1. calls' = << >>
      BY <1>1, <2>1 DEF Called
    <3> QED BY <3>1, <1>1, <1>2, RootsHold, TupleOf
  <2>2. CASE ~has_been_freed(program)
    <3>1. program \in live
      BY <2>2, <1>1, RootsHold DEF has_been_freed
    <3>2. calls' = <<[object |-> program, at |-> 1]>>
      BY <1>1, <2>2 DEF Called
    <3> QED BY <3>1, <3>2, <1>1, <1>2, RootsHold, AddressesHold, EnterRoot
  <2> QED BY <2>1, <2>2
<1>4. Recorded' = Recorded
  BY <1>1 DEF Recorded
<1> QED BY <1>1, <1>3, <1>4, RootsHold, ListKept, WalkedIsEnough

LEMMA TableKeeps ==
    ASSUME Inv, free_table(table), UNCHANGED parseVars PROVE Inv'
<1>1. /\ phase = "main_function" /\ phase' = "table" /\ calls = << >> /\ todo' = table
      /\ UNCHANGED <<heap, live, free_addresses, calls>>
  BY DEF free_table
<1>2. Recorded' = Recorded
  BY <1>1 DEF Recorded
<1> QED BY <1>1, <1>2, RootsHold, ListKept, AddressesHold, WalkedIsEnough

LEMMA TableNodeKeeps ==
    ASSUME Inv, NEW var \in todo, free_table_node(var), UNCHANGED parseVars PROVE Inv'
<1>1. /\ phase = "table" /\ phase' = "table" /\ calls = << >> /\ calls' = Called(var)
      /\ todo' = todo \ {var}
      /\ UNCHANGED <<heap, live, free_addresses>>
  BY DEF free_table_node
<1>2. var \in live \cup Recorded
  BY <1>1, RootsHold
<1>3. calls' \in Seq(Frame) /\ Walked(heap, live, calls', Recorded)
  <2>1. CASE has_been_freed(var)
    <3>1. calls' = << >>
      BY <1>1, <2>1 DEF Called
    <3> QED BY <3>1, <1>1, RootsHold, TupleOf
  <2>2. CASE ~has_been_freed(var)
    <3>1. var \in live
      BY <2>2, <1>2 DEF has_been_freed
    <3>2. calls' = <<[object |-> var, at |-> 1]>>
      BY <1>1, <2>2 DEF Called
    <3> QED BY <3>1, <3>2, <1>1, RootsHold, AddressesHold, EnterRoot
  <2> QED BY <2>1, <2>2
<1>4. Recorded' = Recorded
  BY <1>1 DEF Recorded
<1>5. todo' \subseteq table
  BY <1>1, RootsHold
<1> QED BY <1>1, <1>3, <1>4, <1>5, RootsHold, ListKept, WalkedIsEnough

\* The frame at the top of the stack.
LEMMA TopHolds ==
    ASSUME Inv, Releasing, calls # << >>
    PROVE  /\ Top \in Frame /\ Top = calls[Len(calls)] /\ Top.object \in live
           /\ Top.object \in Addresses /\ Top.at \in Nat /\ Top.at >= 1
           /\ heap[Top.object] \in Objects
<1>1. calls \in Seq(Frame) /\ live \subseteq Addresses
  BY AddressesHold
<1>2. Len(calls) \in Nat \ {0} /\ DOMAIN calls = 1 .. Len(calls)
  BY <1>1, EmptySeq, LenProperties
<1>3. Len(calls) \in DOMAIN calls
  BY <1>2
<1>4. Top \in Frame /\ Top = calls[Len(calls)]
  BY <1>1, <1>2, <1>3, ElementOfSeq DEF Top
<1>5. Top.object \in live /\ Top.at >= 1
  BY <1>3, <1>4, RootsHold DEF Releasing, Walked
<1>6. heap[Top.object] \in Objects
  BY <1>5 DEF Inv, TypeOK, MemTypeOK
<1> QED BY <1>1, <1>4, <1>5, <1>6 DEF Frame

LEMMA FieldKeeps ==
    ASSUME Inv, ReleaseField, UNCHANGED parseVars PROVE Inv'
<1> DEFINE o == heap[Top.object]
           f == o.fields[Top.at]
           x == [Top EXCEPT !.at = @ + 1]
           u == Below \o <<x>>
<1>1. /\ Releasing /\ calls # << >> /\ Top.at <= Len(o.fields)
      /\ calls' = u \o Called(f)
      /\ UNCHANGED <<heap, live, free_addresses, todo, phase>>
  BY DEF ReleaseField
<1>2. phase \in {"main_function", "table"}
  BY <1>1 DEF Releasing
<1>3. /\ Top \in Frame /\ Top = calls[Len(calls)] /\ Top.at \in Nat /\ Top.at >= 1
      /\ o \in Objects
  BY <1>1, TopHolds
<1>4. calls \in Seq(Frame) /\ live \subseteq Addresses /\ Recorded \subseteq Addresses
  BY AddressesHold
<1>5. x \in Frame /\ x.object = calls[Len(calls)].object /\ x.at >= 1
  BY <1>3 DEF Frame
<1>6. u = SubSeq(calls, 1, Len(calls) - 1) \o <<x>>
  BY DEF Below
<1>7. /\ u \in Seq(Frame) /\ Len(u) = Len(calls) /\ u[Len(calls)] = x
  <2> HIDE DEF u, x
  <2> QED BY <1>1, <1>4, <1>5, <1>6, LastReplaced
<1>8. Walked(heap, live, u, Recorded)
  <2> HIDE DEF u, x
  <2> QED BY <1>1, <1>2, <1>4, <1>5, <1>6, RootsHold, Advance
<1>9. Recorded' = Recorded
  BY <1>1 DEF Recorded
<1>10. calls' \in Seq(Frame) /\ Walked(heap, live, calls', Recorded)
  <2>1. CASE has_been_freed(f)
    <3>1. Called(f) = << >>
      BY <2>1 DEF Called
    <3> HIDE DEF u, f
    <3>2. calls' = u
      BY <3>1, <1>1, <1>7, ConcatEmptySeq
    <3> QED BY <3>2, <1>7, <1>8
  <2>2. CASE ~has_been_freed(f)
    <3>1. f \in Parts(o) /\ f \notin Recorded
      <4> HIDE DEF o
      <4>1. o.fields \in Seq(Addresses \cup {NULL})
        BY <1>3, PartsAreAddresses
      <4>2. Len(o.fields) \in Nat
        BY <4>1, LenProperties
      <4>3. Top.at \in 1 .. Len(o.fields)
        BY <4>2, <1>1, <1>3
      <4>4. f \in Range(o.fields)
        BY <4>1, <4>3, RangeOf
      <4> QED BY <4>4, <2>2 DEF has_been_freed, Parts
    <3>2. Called(f) = <<[object |-> f, at |-> 1]>>
      BY <2>2 DEF Called
    <3>3. o = heap[u[Len(u)].object] /\ u # << >>
      <4>1. Len(calls) \in Nat \ {0}
        BY <1>1, <1>4, EmptySeq
      <4> HIDE DEF u, x
      <4>2. u # << >>
        BY <4>1, <1>7, EmptySeq
      <4> QED BY <4>2, <1>3, <1>5, <1>7
    <3> HIDE DEF u, f, o
    <3>4. /\ Append(u, [object |-> f, at |-> 1]) \in Seq(Frame)
          /\ Walked(heap, live, Append(u, [object |-> f, at |-> 1]), Recorded)
      BY <3>1, <3>3, <1>4, <1>7, <1>8, Enter
    <3>5. [object |-> f, at |-> 1] \in Frame
      BY <3>1, <1>3, PartsAreAddresses DEF Frame
    <3>6. calls' = Append(u, [object |-> f, at |-> 1])
      BY <3>2, <3>5, <1>1, <1>7, AppendIsConcat
    <3> QED BY <3>4, <3>6
  <2> QED BY <2>1, <2>2
<1>11. program \in live \cup Recorded \cup {NULL} /\ table \subseteq live \cup Recorded /\ todo \subseteq table
  BY <1>2, RootsHold
<1> QED BY <1>1, <1>2, <1>9, <1>10, <1>11, ListKept, WalkedIsEnough

LEMMA ObjectKeeps ==
    ASSUME Inv, ReleaseObject, UNCHANGED parseVars PROVE Inv'
<1>1. /\ Releasing /\ calls # << >> /\ free_and_keep_address(Top.object)
      /\ calls' = Below /\ UNCHANGED <<heap, todo, phase>>
  BY DEF ReleaseObject
<1>2. phase \in {"main_function", "table"}
  BY <1>1 DEF Releasing
<1>3. Top = calls[Len(calls)] /\ Top.object \in Addresses
  BY <1>1, TopHolds
<1>4. /\ free_addresses' \in [array : Seq(Addresses), len : Nat]
      /\ ListOK(free_addresses')
      /\ live' \subseteq live /\ live \ {Top.object} \subseteq live'
      /\ Recorded' = Recorded \cup {Top.object}
  BY <1>1, <1>3, FreeOK
<1>5. calls \in Seq(Frame) /\ live \subseteq Addresses
  BY AddressesHold
<1>6. Walked(heap, live, calls, Recorded)
  BY <1>2, RootsHold
<1>7. calls' \in Seq(Frame) /\ Walked(heap, live', calls', Recorded')
  BY <1>1, <1>3, <1>4, <1>5, <1>6, Leave DEF Below
<1>8. program \in live \cup Recorded \cup {NULL} /\ table \subseteq live \cup Recorded /\ todo \subseteq table
  BY <1>2, RootsHold
<1> QED BY <1>1, <1>2, <1>4, <1>7, <1>8, WalkedIsEnough

LEMMA ListFreedKeeps ==
    ASSUME Inv, free_free_address_list, UNCHANGED parseVars PROVE Inv'
<1>1. /\ phase' = "exit" /\ calls = << >> /\ calls' = << >>
      /\ free_addresses' = [array |-> << >>, len |-> 0]
      /\ UNCHANGED <<heap, live, todo>>
  BY DEF free_free_address_list, Released
<1>2. << >> \in Seq(Addresses) /\ Len(<< >>) = 0
  BY EmptySeq
<1>3. free_addresses' \in [array : Seq(Addresses), len : Nat] /\ ListOK(free_addresses')
  BY <1>1, <1>2 DEF ListOK, Distinct
<1>4. TypeOK'
  BY <1>1, <1>3 DEF Inv, TypeOK, MemTypeOK, parseVars, Phases
<1> QED BY <1>1, <1>3, <1>4 DEF Inv, Parsing, Releasing

---------------------------------------------------------------------------
(* The specification. *)

LEMMA InitOK == Init => Inv
<1> SUFFICES ASSUME Init PROVE Inv
  OBVIOUS
<1>1. PICK a \in Addresses :
          /\ heap = [b \in {a} |-> Object("variable", << >>)]
          /\ live = {a} /\ table = {a}
          /\ declared = [name \in Names |-> IF name = Function THEN a ELSE NULL]
  BY DEF Init
<1>2. /\ dangling = [name \in Names |-> NULL]
      /\ free_addresses = [array |-> << >>, len |-> InitialLen]
      /\ calls = << >> /\ todo = {} /\ phase = "parse" /\ values = << >>
      /\ program = NULL /\ scale \in Scales
  BY DEF Init, init_free_address_list
<1>3. << >> \in Seq(Addresses) /\ << >> \in Seq(Frame) /\ << >> \in Seq(live) /\ Len(<< >>) = 0
      /\ Range(<< >>) = {}
  BY EmptySeq, TupleOf
<1>4. TypeOK
  BY <1>1, <1>2, <1>3, VariableOK, CapacityAssumption DEF TypeOK, MemTypeOK, Phases
<1>5. ListOK(free_addresses)
  BY <1>2, <1>3, CapacityAssumption DEF ListOK, Distinct
<1>6. Tree(heap, live, values)
  <2>1. \A p \in live : Parts(heap[p]) = {}
    BY <1>1, VariableOK
  <2>2. [b \in Addresses |-> 0] \in [Addresses -> Nat] /\ Ranked([b \in Addresses |-> 0], heap, live)
    BY <2>1 DEF Ranked
  <2>3. Acyclic(heap, live)
    BY <2>2 DEF Acyclic
  <2> QED BY <2>1, <2>3, <1>1, <1>2, <1>3, VariableOK DEF Tree, Distinct
<1>7. a \in Vars(heap, live)
  BY <1>1, VariableOK DEF Vars
<1>8. Parsed(heap, live, values, declared, dangling, table)
  BY <1>1, <1>2, <1>6, <1>7 DEF Parsed
<1> QED BY <1>2, <1>4, <1>5, <1>8 DEF Inv, Parsing, Releasing

LEMMA ProductionKeeps ==
    ASSUME Inv, NEW form \in AllForms, Production(form) PROVE Inv'
<1>1. CASE form = "program"
  BY <1>1, ConstructionKeeps, ExtensionsKeep DEF Production
<1>2. CASE form = "let"
  BY <1>2, DeclarationsKeep DEF Production
<1>3. CASE form = "assignment"
  BY <1>3, ConstructionKeeps, MentionsKeep DEF Production
<1>4. CASE form = "arguments"
  BY <1>4, MentionsKeep, ConcatArgKeeps DEF Production
<1>5. CASE form = "call"
  BY <1>5, ConstructionKeeps, ExtensionsKeep, ConcatCallKeeps, MentionsKeep DEF Production
<1>6. CASE form = "file"
  BY <1>6, DeclarationsKeep, ConstructionKeeps DEF Production
<1>7. CASE form = "loop"
  BY <1>7, LoopKeeps DEF Production
<1>8. CASE form = "operator"
  BY <1>8, ConstructionKeeps, MentionsKeep DEF Production
<1>9. CASE form = "conditional"
  BY <1>9, ConstructionKeeps, MentionsKeep, ConditionalKeeps DEF Production
<1>10. CASE form = "list"
  BY <1>10, ConstructionKeeps, ExtensionsKeep DEF Production
<1>11. CASE form = "range"
  BY <1>11, RangeKeeps, ConstructionKeeps, ExtensionsKeep DEF Production
<1>12. CASE form = "lists"
  BY <1>12, ConcatListKeeps DEF Production
<1> QED BY <1>1, <1>2, <1>3, <1>4, <1>5, <1>6, <1>7, <1>8, <1>9, <1>10, <1>11, <1>12
        DEF AllForms

LEMMA NextOK == Inv /\ [Next]_vars => Inv'
<1> SUFFICES ASSUME Inv, [Next]_vars PROVE Inv'
  OBVIOUS
<1>1. ASSUME NEW form \in scale.forms, Production(form) PROVE Inv'
  <2>1. scale.forms \subseteq AllForms
    BY ScalesAssumption DEF Inv, TypeOK, Scale
  <2> QED BY <1>1, <2>1, ProductionKeeps
<1>2. ASSUME NEW var \in Returnable, grammar_new_function(var) PROVE Inv'
  BY <1>2, FunctionKeeps
<1>3. CASE grammar_program
  BY <1>3, ProgramKeeps
<1>4. CASE ParseFails
  BY <1>4, EndKeeps DEF ParseFails
<1>5. CASE free_main_function(program) /\ UNCHANGED parseVars
  BY <1>5, MainFunctionKeeps
<1>6. CASE free_table(table) /\ UNCHANGED parseVars
  BY <1>6, TableKeeps
<1>7. CASE Release /\ UNCHANGED parseVars
  BY <1>7, FieldKeeps, ObjectKeeps, TableNodeKeeps, ListFreedKeeps DEF Release
<1>8. CASE UNCHANGED vars
  BY <1>8 DEF Inv, TypeOK, MemTypeOK, Parsing, Releasing, Recorded, vars, memVars, parseVars
<1> QED BY <1>1, <1>2, <1>3, <1>4, <1>5, <1>6, <1>7, <1>8 DEF Next, Parse, free_program

LEMMA Invariance == Spec => []Inv
<1>1. Init => Inv
  BY InitOK
<1>2. Inv /\ [Next]_vars => Inv'
  BY NextOK
<1> QED BY <1>1, <1>2, PTL DEF Spec

---------------------------------------------------------------------------
(* What the release leaves. *)

\* An object of h points to o, if only by a pointer that is not followed.
PointedTo(h, l, o) ==
    \E p \in DOMAIN h :
        \/ o \in h[p].hidden
        \/ p \in l /\ o \in Range(h[p].fields)

Accounted(h, l, roots) == \A o \in l : o \in roots \/ PointedTo(h, l, o)

\* Only a conditional and a range with an element more have pointers that are
\* not followed. Neither is freed by the parse, which would lose them. The
\* function is at the bottom of the stack.
Shapes(h, l, v) ==
    /\ \A p \in DOMAIN h : h[p].hidden # {} =>
          /\ p \in l
          /\ h[p].kind = "conditional" \/ (h[p].kind = "range" /\ ~h[p].empty)
    /\ \A p \in l : h[p].kind = "range" => h[p].fields = << >>
    /\ \A i \in DOMAIN v : h[v[i]].kind = "function" => i = 1

\* The fields that a function on the C stack is through with have been freed,
\* but for the one that the function above it works on.
Visited(h, c, r) ==
    \A j \in DOMAIN c : \A i \in DOMAIN h[c[j].object].fields :
        i < c[j].at =>
            \/ h[c[j].object].fields[i] \in r \cup {NULL}
            \/ j + 1 \in DOMAIN c /\ c[j + 1].object = h[c[j].object].fields[i]

OnStack(c) == {c[i].object : i \in DOMAIN c}

LeakInv ==
    /\ Parsing =>
          /\ Shapes(heap, live, values)
          /\ Accounted(heap, live, Recorded \cup table \cup Range(values))
    /\ phase = "parsed" /\ program # NULL =>
          Accounted(heap, live, Recorded \cup table \cup {program})
    /\ phase = "main_function" /\ program # NULL =>
          Accounted(heap, live, Recorded \cup table \cup OnStack(calls))
    /\ phase = "table" /\ program # NULL =>
          Accounted(heap, live, Recorded \cup todo \cup OnStack(calls))
    /\ Releasing => Visited(heap, calls, Recorded)

\* The stack without its last k values.
LEMMA RestHolds ==
    ASSUME Inv, Parsing, NEW k \in Nat, k <= Len(values)
    PROVE  /\ Len(values) \in Nat /\ DOMAIN values = 1 .. Len(values)
           /\ Rest(k) \in Seq(live) /\ Len(Rest(k)) = Len(values) - k
           /\ \A i \in 1 .. Len(values) - k : Rest(k)[i] = values[i]
           /\ Range(values) \subseteq Range(Rest(k)) \cup {Value(i) : i \in 1 .. k}
           /\ Range(values) \subseteq live
<1>1. Tree(heap, live, values)
  BY DEF Inv, Parsed
<1>2. values \in Seq(live) /\ Len(values) \in Nat /\ DOMAIN values = 1 .. Len(values)
  BY <1>1, LenProperties DEF Tree
<1> DEFINE n == Len(values) - k
           s == SubSeq(values, 1, n)
<1>3. n \in 0 .. Len(values)
  BY <1>2
<1>4. Tree(heap, live, s) /\ Len(s) = n /\ \A i \in 1 .. n : s[i] = values[i]
  BY <1>1, <1>3, Drop
<1> HIDE DEF s
<1>5. s \in Seq(live)
  BY <1>4 DEF Tree
<1>6. Range(s) = {s[i] : i \in 1 .. n} /\ Range(values) = {values[i] : i \in 1 .. Len(values)}
  BY <1>2, <1>4, <1>5, RangeOf
<1>7. ASSUME NEW i \in 1 .. Len(values)
      PROVE  values[i] \in Range(s) \cup {Value(j) : j \in 1 .. k}
  <2>1. CASE i \in 1 .. n
    BY <2>1, <1>4, <1>6
  <2>2. CASE i \notin 1 .. n
    <3>1. Len(values) - i + 1 \in 1 .. k /\ Len(values) - (Len(values) - i + 1) + 1 = i
      BY <2>2, <1>2
    <3> QED BY <3>1 DEF Value
  <2> QED BY <2>1, <2>2
<1>8. Range(values) \subseteq Range(s) \cup {Value(i) : i \in 1 .. k}
  BY <1>6, <1>7
<1>9. Rest(k) = s
  BY DEF Rest, s
<1>10. Range(values) \subseteq live
  BY <1>2, RangeOf
<1> QED BY <1>2, <1>4, <1>5, <1>8, <1>9, <1>10

\* What the heap is like while a program is parsed.
LEMMA HeapHolds ==
    ASSUME Inv, Parsing
    PROVE  /\ live \subseteq DOMAIN heap /\ live \subseteq Addresses
           /\ \A p \in DOMAIN heap : heap[p] \in Objects
           /\ program = NULL
BY DEF Inv, Parsed, Tree

\* A step that goes on parsing.
LEMMA LeftWhileParsing ==
    ASSUME Inv, Parsing, UNCHANGED <<phase, program>>,
           Shapes(heap', live', values'),
           Accounted(heap', live', Recorded' \cup table' \cup Range(values'))
    PROVE  LeakInv'
BY HeapHolds DEF LeakInv, Parsing, Releasing

\* A reduction that builds an object: what it takes off the stack becomes a
\* part of it, or of the variable it allocates, which is in the table.
LEMMA BuildLeft ==
    ASSUME Inv, LeakInv, NEW k \in Nat, k <= Len(values),
           NEW fresh \in SUBSET (Addresses \ live),
           NEW variable, variable.kind = "variable", variable.hidden = {},
           NEW object, object.hidden # {} => object.kind = "conditional",
           object.kind = "range" => object.fields = << >>,
           object.kind = "function" => k = Len(values),
           \A i \in 1 .. k :
              \/ Value(i) \in object.hidden \cup Range(object.fields)
              \/ fresh # {} /\ Value(i) \in Range(variable.fields),
           Build(k, fresh, variable, object),
           fresh \subseteq table', table \subseteq table' \cup Range(object.fields)
    PROVE  LeakInv'
<1>1. PICK a \in Malloc(live \cup fresh) :
          /\ heap' = [b \in DOMAIN heap \cup fresh \cup {a} |->
                         IF b \in fresh THEN variable
                         ELSE IF b = a THEN object ELSE heap[b]]
          /\ live' = live \cup fresh \cup {a}
          /\ values' = Append(Rest(k), a)
  BY DEF Build
<1>2. a \in Addresses /\ a \notin live /\ a \notin fresh
  BY MallocIsFresh DEF Inv
<1>3. Parsing /\ UNCHANGED <<phase, program>> /\ Recorded' = Recorded
  BY DEF Build, Recorded
<1>4. /\ Shapes(heap, live, values)
      /\ Accounted(heap, live, Recorded \cup table \cup Range(values))
  BY <1>3 DEF LeakInv
<1>5. live \subseteq DOMAIN heap
  BY <1>3, HeapHolds
<1> DEFINE n == Len(values) - k
<1>6. /\ Len(values) \in Nat /\ DOMAIN values = 1 .. Len(values)
      /\ Rest(k) \in Seq(live) /\ Len(Rest(k)) = n /\ n \in Nat
      /\ \A i \in 1 .. n : Rest(k)[i] = values[i]
      /\ Range(values) \subseteq Range(Rest(k)) \cup {Value(i) : i \in 1 .. k}
      /\ Range(values) \subseteq live
  BY <1>3, RestHolds
<1> DEFINE g == heap'
           m == live'
<1>7. /\ DOMAIN g = DOMAIN heap \cup fresh \cup {a} /\ m = live \cup fresh \cup {a}
      /\ g[a] = object /\ \A b \in fresh : g[b] = variable
      /\ \A b \in DOMAIN heap : b \notin fresh /\ b # a => g[b] = heap[b]
  BY <1>1, <1>2
<1>8. \A b \in live : g[b] = heap[b]
  BY <1>2, <1>5, <1>7
<1> HIDE DEF g, m, n
<1>9. \A o : PointedTo(heap, live, o) => PointedTo(g, m, o)
  <2> SUFFICES ASSUME NEW o, NEW p \in DOMAIN heap,
                      o \in heap[p].hidden \/ (p \in live /\ o \in Range(heap[p].fields))
               PROVE  PointedTo(g, m, o)
    BY DEF PointedTo
  <2>1. p \in live
    BY <1>4 DEF Shapes
  <2> QED BY <2>1, <1>7, <1>8 DEF PointedTo
<1>10. \A o \in object.hidden \cup Range(object.fields) : PointedTo(g, m, o)
  BY <1>7 DEF PointedTo
<1>11. fresh # {} => \A o \in Range(variable.fields) : PointedTo(g, m, o)
  <2> SUFFICES ASSUME NEW b \in fresh, NEW o \in Range(variable.fields)
               PROVE  PointedTo(g, m, o)
    OBVIOUS
  <2>1. b \in DOMAIN g /\ b \in m /\ g[b] = variable
    BY <1>7
  <2> QED BY <2>1 DEF PointedTo
<1>12. /\ Range(values') = Range(Rest(k)) \cup {a}
       /\ DOMAIN values' = 1 .. n + 1
       /\ \A i \in 1 .. n : values'[i] = Rest(k)[i]
       /\ values'[n + 1] = a
  <2>1. Rest(k) \in Seq(Addresses \cup live) /\ a \in Addresses \cup live
    BY <1>2, <1>6, SeqMonotonic
  <2>2. /\ Append(Rest(k), a) \in Seq(Addresses \cup live) /\ Len(Append(Rest(k), a)) = n + 1
        /\ \A i \in 1 .. n : Append(Rest(k), a)[i] = Rest(k)[i]
        /\ Append(Rest(k), a)[n + 1] = a
        /\ Range(Append(Rest(k), a)) = Range(Rest(k)) \cup {a}
    BY <2>1, <1>6, AppendProperties, RangeAppend
  <2>3. DOMAIN Append(Rest(k), a) = 1 .. n + 1
    BY <2>2, LenProperties
  <2> QED BY <2>2, <2>3, <1>1
<1>13. Accounted(g, m, Recorded' \cup table' \cup Range(values'))
  <2> SUFFICES ASSUME NEW o \in m
               PROVE  o \in Recorded' \cup table' \cup Range(values') \/ PointedTo(g, m, o)
    BY DEF Accounted
  <2>1. CASE o \in fresh
    BY <2>1
  <2>2. CASE o = a
    BY <2>2, <1>12
  <2>3. CASE o \in live
    <3>1. o \in Recorded \cup table \cup Range(values) \/ PointedTo(heap, live, o)
      BY <2>3, <1>4 DEF Accounted
    <3>2. CASE o \in Recorded
      BY <3>2, <1>3
    <3>3. CASE o \in table
      BY <3>3, <1>10
    <3>4. CASE o \in Range(values)
      BY <3>4, <1>6, <1>10, <1>11, <1>12
    <3>5. CASE PointedTo(heap, live, o)
      BY <3>5, <1>9
    <3> QED BY <3>1, <3>2, <3>3, <3>4, <3>5
  <2> QED BY <2>1, <2>2, <2>3, <1>7
<1>14. Shapes(g, m, values')
  <2>1. ASSUME NEW p \in DOMAIN g, g[p].hidden # {}
        PROVE  p \in m /\ (g[p].kind = "conditional" \/ (g[p].kind = "range" /\ ~g[p].empty))
    BY <2>1, <1>4, <1>7 DEF Shapes
  <2>2. ASSUME NEW p \in m, g[p].kind = "range" PROVE g[p].fields = << >>
    BY <2>2, <1>4, <1>7, <1>8 DEF Shapes
  <2>3. ASSUME NEW i \in DOMAIN values', g[values'[i]].kind = "function" PROVE i = 1
    <3>1. CASE i \in 1 .. n
      <4>1. i \in DOMAIN values /\ values'[i] = values[i]
        BY <3>1, <1>6, <1>12 DEF n
      <4>2. values[i] \in live
        BY <4>1, <1>6 DEF Range
      <4> QED BY <2>3, <4>1, <4>2, <1>4, <1>8 DEF Shapes
    <3>2. CASE i = n + 1
      BY <2>3, <3>2, <1>6, <1>7, <1>12 DEF n
    <3> QED BY <3>1, <3>2, <1>6, <1>12
  <2> QED BY <2>1, <2>2, <2>3 DEF Shapes
<1> QED BY <1>3, <1>13, <1>14, LeftWhileParsing DEF g, m

\* The second value changes and keeps what it points to; the first leaves the
\* stack, and what it points to when it is freed.
LEMMA UpdateLeft ==
    ASSUME Inv, LeakInv, Parsing, 2 <= Len(values), NEW object,
           heap' = [heap EXCEPT ![Value(2)] = object], values' = Rest(1),
           UNCHANGED <<phase, program, table>>,
           live' \subseteq live, live \ {Value(1)} \subseteq live', Recorded \subseteq Recorded',
           object.kind = heap[Value(2)].kind,
           heap[Value(2)].hidden \subseteq object.hidden,
           Range(heap[Value(2)].fields) \subseteq Range(object.fields),
           object.hidden # {} =>
              object.kind = "conditional" \/ (object.kind = "range" /\ ~object.empty),
           object.kind = "range" => object.fields = << >>,
           Value(1) \in live' =>
              Value(1) \in object.hidden \cup Range(object.fields) \cup Recorded',
           Value(1) \notin live' =>
              /\ heap[Value(1)].hidden = {}
              /\ Range(heap[Value(1)].fields) \subseteq Range(object.fields)
    PROVE  LeakInv'
<1>1. /\ Shapes(heap, live, values)
      /\ Accounted(heap, live, Recorded \cup table \cup Range(values))
  BY DEF LeakInv
<1>2. live \subseteq DOMAIN heap
  BY HeapHolds
<1>3. /\ Len(values) \in Nat /\ DOMAIN values = 1 .. Len(values)
      /\ Rest(1) \in Seq(live) /\ Len(Rest(1)) = Len(values) - 1
      /\ \A i \in 1 .. Len(values) - 1 : Rest(1)[i] = values[i]
      /\ Range(values) \subseteq Range(Rest(1)) \cup {Value(i) : i \in 1 .. 1}
      /\ Range(values) \subseteq live
  BY RestHolds
<1>4. Value(1) # Value(2) /\ Value(1) \in live /\ Value(2) \in live
  <2>1. Distinct(values)
    BY DEF Inv, Parsed, Tree
  <2>2. Len(values) - 1 + 1 \in DOMAIN values /\ Len(values) - 2 + 1 \in DOMAIN values
    BY <1>3
  <2>3. Len(values) - 1 + 1 # Len(values) - 2 + 1
    <3>1. Len(values) \in Nat
      BY <1>3
    <3> QED BY <3>1
  <2> QED BY <2>1, <2>2, <2>3, <1>3 DEF Value, Distinct, Range
<1> DEFINE g == heap'
           m == live'
           r == Recorded' \cup table' \cup Range(values')
<1>5. /\ DOMAIN g = DOMAIN heap /\ g[Value(2)] = object
      /\ \A p \in DOMAIN heap \ {Value(2)} : g[p] = heap[p]
      /\ Value(2) \in m
  BY <1>2, <1>4
<1> HIDE DEF g, m
<1>6. ASSUME NEW o, PointedTo(heap, live, o) PROVE PointedTo(g, m, o)
  <2>1. PICK p \in DOMAIN heap :
            o \in heap[p].hidden \/ (p \in live /\ o \in Range(heap[p].fields))
    BY <1>6 DEF PointedTo
  <2>2. CASE p = Value(2)
    BY <2>1, <2>2, <1>5 DEF PointedTo
  <2>3. CASE p = Value(1)
    <3>1. CASE Value(1) \in live'
      BY <2>1, <2>3, <3>1, <1>4, <1>5 DEF PointedTo, m
    <3>2. CASE Value(1) \notin live'
      <4>1. o \in Range(object.fields)
        BY <2>1, <2>3, <3>2
      <4> QED BY <4>1, <1>2, <1>4, <1>5 DEF PointedTo
    <3> QED BY <3>1, <3>2
  <2>4. CASE p # Value(1) /\ p # Value(2)
    <3>1. g[p] = heap[p] /\ p \in DOMAIN g /\ (p \in live => p \in m)
      BY <2>4, <1>5 DEF m
    <3> QED BY <2>1, <3>1 DEF PointedTo
  <2> QED BY <2>2, <2>3, <2>4
<1>7. Accounted(g, m, r)
  <2> SUFFICES ASSUME NEW o \in m PROVE o \in r \/ PointedTo(g, m, o)
    BY DEF Accounted
  <2>1. o \in Recorded \cup table \cup Range(values) \/ PointedTo(heap, live, o)
    BY <1>1 DEF Accounted, m
  <2>2. CASE o \in Range(values)
    <3>1. o \in Range(values') \/ o = Value(1)
      BY <2>2, <1>3
    <3>2. CASE o = Value(1)
      <4>1. o \in object.hidden \cup Range(object.fields) \cup Recorded'
        BY <3>2 DEF m
      <4> QED BY <4>1, <1>2, <1>4, <1>5 DEF PointedTo
    <3> QED BY <3>1, <3>2
  <2> QED BY <2>1, <2>2, <1>6
<1>8. Shapes(g, m, values')
  <2>1. ASSUME NEW p \in DOMAIN g, g[p].hidden # {}
        PROVE  p \in m /\ (g[p].kind = "conditional" \/ (g[p].kind = "range" /\ ~g[p].empty))
    <3>1. CASE p = Value(2)
      BY <2>1, <3>1, <1>5
    <3>2. CASE p # Value(2)
      <4>1. g[p] = heap[p]
        BY <3>2, <1>5
      <4>2. p \in live /\ (g[p].kind = "conditional" \/ (g[p].kind = "range" /\ ~g[p].empty))
        BY <2>1, <4>1, <1>1, <1>5 DEF Shapes
      <4>3. p = Value(1) => p \in m
        BY <2>1, <4>1 DEF m
      <4> QED BY <4>2, <4>3 DEF m
    <3> QED BY <3>1, <3>2
  <2>2. ASSUME NEW p \in m, g[p].kind = "range" PROVE g[p].fields = << >>
    <3>1. p \in live /\ p \in DOMAIN heap
      BY <1>2 DEF m
    <3> QED BY <2>2, <3>1, <1>1, <1>5 DEF Shapes
  <2>3. ASSUME NEW i \in DOMAIN values', g[values'[i]].kind = "function" PROVE i = 1
    <3>1. DOMAIN values' = 1 .. Len(values) - 1
      BY <1>3, LenProperties
    <3>2. values'[i] = values[i] /\ i \in DOMAIN values
      BY <3>1, <1>3
    <3>3. values[i] \in live /\ values[i] \in DOMAIN heap
      BY <3>2, <1>2, <1>3 DEF Range
    <3>4. heap[values[i]].kind = "function"
      BY <2>3, <3>2, <3>3, <1>5
    <3> QED BY <3>2, <3>4, <1>1 DEF Shapes
  <2> QED BY <2>1, <2>2, <2>3 DEF Shapes
<1> QED BY <1>7, <1>8, LeftWhileParsing DEF g, m

\* What a short sequence of fields holds.
LEMMA RangeOfTuple ==
    /\ Range(<< >>) = {}
    /\ \A x : Range(<<x>>) = {x}
    /\ \A x, y : Range(<<x, y>>) = {x, y}
    /\ \A x, y, z : Range(<<x, y, z>>) = {x, y, z}
<1>1. Range(<< >>) = {}
  BY TupleOf
<1>2. ASSUME NEW x PROVE Range(<<x>>) = {x}
  BY DEF Range
<1>3. ASSUME NEW x, NEW y PROVE Range(<<x, y>>) = {x, y}
  BY DEF Range
<1>4. ASSUME NEW x, NEW y, NEW z PROVE Range(<<x, y, z>>) = {x, y, z}
  BY DEF Range
<1> QED BY <1>1, <1>2, <1>3, <1>4

LEMMA ObjectHolds ==
    ASSUME NEW kind, NEW fields
    PROVE  /\ Object(kind, fields).kind = kind
           /\ Object(kind, fields).fields = fields
           /\ Object(kind, fields).hidden = {}
BY DEF Object

\* A reduction whose object points to all it takes off the stack.
LEMMA ReduceLeft ==
    ASSUME Inv, LeakInv, NEW k \in Nat, k <= Len(values),
           NEW kind, kind # "range", kind = "function" => k = Len(values),
           NEW fields, \A i \in 1 .. k : Value(i) \in Range(fields),
           Reduce(k, kind, fields)
    PROVE  LeakInv'
<1> DEFINE o == Object(kind, fields)
           v == Object("variable", << >>)
<1>1. Build(k, {}, v, o) /\ UNCHANGED <<declared, dangling, table>>
  BY DEF Reduce
<1>2. /\ o.kind = kind /\ o.fields = fields /\ o.hidden = {}
      /\ v.kind = "variable" /\ v.hidden = {}
  BY ObjectHolds
<1> HIDE DEF o, v
<1>3. {} \in SUBSET (Addresses \ live)
  OBVIOUS
<1> QED BY <1>1, <1>2, <1>3, BuildLeft

\* A reduction that mentions a variable by its name.
LEMMA MentionLeft ==
    ASSUME Inv, LeakInv, NEW k \in Nat, k <= Len(values), NEW name \in Names,
           NEW var \in lookup_variable_create_dangling(name),
           NEW kind, kind # "range", kind # "function",
           NEW fields, \A i \in 1 .. k : Value(i) \in Range(fields),
           Build(k, Fresh(var), Object("variable", << >>), Object(kind, fields)),
           Mentioned(name, var)
    PROVE  LeakInv'
<1> DEFINE o == Object(kind, fields)
           v == Object("variable", << >>)
<1>1. Build(k, Fresh(var), v, o) /\ table' = table \cup Fresh(var)
  BY DEF Mentioned
<1>2. /\ o.kind = kind /\ o.fields = fields /\ o.hidden = {}
      /\ v.kind = "variable" /\ v.hidden = {}
  BY ObjectHolds
<1> HIDE DEF o, v
<1>3. Fresh(var) \in SUBSET (Addresses \ live)
  BY <1>1, LookupOK DEF Build
<1> QED BY <1>1, <1>2, <1>3, BuildLeft

\* A reduction that declares one.
LEMMA DeclareLeft ==
    ASSUME Inv, LeakInv, NEW k \in Nat, k <= Len(values), NEW name \in Names,
           NEW var \in Malloc(live), NEW initial,
           NEW kind, kind # "range", kind # "function", NEW fields,
           \A i \in 1 .. k : Value(i) \in Range(initial) \cup Range(fields),
           Build(k, {var}, Object("variable", initial), Object(kind, fields)),
           Declared(name, var)
    PROVE  LeakInv'
<1> DEFINE o == Object(kind, fields)
           v == Object("variable", initial)
<1>1. Build(k, {var}, v, o) /\ table' = table \cup {var}
  BY DEF Declared
<1>2. /\ o.kind = kind /\ o.fields = fields /\ o.hidden = {}
      /\ v.kind = "variable" /\ v.hidden = {} /\ v.fields = initial
  BY ObjectHolds
<1> HIDE DEF o, v
<1>3. {var} \in SUBSET (Addresses \ live)
  BY MallocIsFresh DEF Inv
<1> QED BY <1>1, <1>2, <1>3, BuildLeft

LEMMA ReducingLeft ==
    ASSUME Inv, LeakInv, NEW kind, kind # "range", kind # "function"
    PROVE  /\ Parsing /\ Reduce(0, kind, << >>) => LeakInv'
           /\ 1 <= Len(values) /\ Reduce(1, kind, <<Value(1)>>) => LeakInv'
           /\ 2 <= Len(values) /\ Reduce(2, kind, <<Value(2), Value(1)>>) => LeakInv'
           /\ \A first : 1 <= Len(values) /\ Reduce(1, kind, <<first, Value(1)>>) => LeakInv'
<1>1. ASSUME Parsing, Reduce(0, kind, << >>) PROVE LeakInv'
  <2>1. 0 \in Nat /\ 0 <= Len(values)
    BY <1>1, FieldsHold
  <2> QED BY <1>1, <2>1, ReduceLeft
<1>2. ASSUME 1 <= Len(values), Reduce(1, kind, <<Value(1)>>) PROVE LeakInv'
  <2>1. 1 \in Nat /\ \A i \in 1 .. 1 : Value(i) \in Range(<<Value(1)>>)
    BY RangeOfTuple
  <2> QED BY <1>2, <2>1, ReduceLeft
<1>3. ASSUME 2 <= Len(values), Reduce(2, kind, <<Value(2), Value(1)>>) PROVE LeakInv'
  <2>1. 2 \in Nat /\ \A i \in 1 .. 2 : Value(i) \in Range(<<Value(2), Value(1)>>)
    BY RangeOfTuple
  <2> QED BY <1>3, <2>1, ReduceLeft
<1>4. ASSUME NEW first, 1 <= Len(values), Reduce(1, kind, <<first, Value(1)>>) PROVE LeakInv'
  <2>1. 1 \in Nat /\ \A i \in 1 .. 1 : Value(i) \in Range(<<first, Value(1)>>)
    BY RangeOfTuple
  <2> QED BY <1>4, <2>1, ReduceLeft
<1> QED BY <1>1, <1>2, <1>3, <1>4

LEMMA ConstructionLeft ==
    ASSUME Inv, LeakInv
    PROVE  /\ grammar_constant => LeakInv'
           /\ grammar_expression_arithmetic => LeakInv'
           /\ grammar_expression_cmp => LeakInv'
           /\ grammar_expression_bool => LeakInv'
           /\ grammar_expression_bool_not => LeakInv'
           /\ grammar_new_list => LeakInv'
           /\ grammar_expression_from_list => LeakInv'
           /\ grammar_new_list_args => LeakInv'
           /\ grammar_function_call => LeakInv'
           /\ grammar_expression_from_funcall => LeakInv'
           /\ grammar_new_expression_list => LeakInv'
           /\ \A name \in Names : grammar_new_assignment_expression(name) => LeakInv'
           /\ \A name \in Names : grammar_using_file(name) => LeakInv'
<1>1. ASSUME NEW kind \in {"binary", "compare", "boolean"}, NEW operand,
             Binary(kind, operand)
      PROVE  LeakInv'
  <2>1. 2 <= Len(values) /\ Reduce(2, kind, <<Value(2), Value(1)>>)
    BY <1>1 DEF Binary, Reads
  <2> QED BY <2>1, ReducingLeft
<1>2. \A kind, fields : Reduce(0, kind, fields) => Parsing
  BY DEF Reduce, Build
<1>3. grammar_constant => LeakInv'
  BY <1>2, ReducingLeft DEF grammar_constant
<1>4. grammar_expression_arithmetic => LeakInv'
  BY <1>1 DEF grammar_expression_arithmetic
<1>5. grammar_expression_cmp => LeakInv'
  BY <1>1 DEF grammar_expression_cmp
<1>6. grammar_expression_bool => LeakInv'
  BY <1>1 DEF grammar_expression_bool
<1>7. grammar_expression_bool_not => LeakInv'
  BY ReducingLeft DEF grammar_expression_bool_not, Reads
<1>8. grammar_new_list => LeakInv'
  BY <1>2, ReducingLeft DEF grammar_new_list, Reads
<1>9. grammar_expression_from_list => LeakInv'
  BY ReducingLeft DEF grammar_expression_from_list, Reads
<1>10. grammar_new_list_args => LeakInv'
  BY <1>2, ReducingLeft DEF grammar_new_list_args, Reads
<1>11. grammar_function_call => LeakInv'
  BY ReducingLeft DEF grammar_function_call, Reads
<1>12. grammar_expression_from_funcall => LeakInv'
  BY ReducingLeft DEF grammar_expression_from_funcall, Reads
<1>13. grammar_new_expression_list => LeakInv'
  BY ReducingLeft DEF grammar_new_expression_list, Reads
<1>14. ASSUME NEW name \in Names, grammar_new_assignment_expression(name) PROVE LeakInv'
  BY <1>14, ReducingLeft DEF grammar_new_assignment_expression, Reads
<1>15. ASSUME NEW name \in Names, grammar_using_file(name) PROVE LeakInv'
  BY <1>15, ReducingLeft DEF grammar_using_file, Reads
<1> QED BY <1>3, <1>4, <1>5, <1>6, <1>7, <1>8, <1>9, <1>10, <1>11, <1>12, <1>13, <1>14, <1>15

\* The function takes all that is on the stack.
LEMMA FunctionLeft ==
    ASSUME Inv, LeakInv, NEW var \in Returnable, grammar_new_function(var)
    PROVE  LeakInv'
<1>1. /\ 2 = Len(values)
      /\ Reduce(2, "function", <<Value(2), Value(1), var>>)
  BY DEF grammar_new_function, Reads
<1>2. 2 \in Nat /\ \A i \in 1 .. 2 : Value(i) \in Range(<<Value(2), Value(1), var>>)
  BY RangeOfTuple
<1> QED BY <1>1, <1>2, ReduceLeft

\* A range points to nothing: its ends are numbers.
LEMMA RangeLeft ==
    ASSUME Inv, LeakInv, NEW from, NEW to, grammar_new_list_from_range(from, to)
    PROVE  LeakInv'
<1> DEFINE o == Range0(from, to)
           v == Object("variable", << >>)
<1>1. Build(0, {}, v, o) /\ UNCHANGED table
  BY DEF grammar_new_list_from_range
<1>2. /\ o.kind = "range" /\ o.fields = << >> /\ o.hidden = {}
      /\ v.kind = "variable" /\ v.hidden = {}
  BY ObjectHolds DEF Range0
<1>3. 0 \in Nat /\ 0 <= Len(values)
  BY <1>1, FieldsHold DEF Build
<1> HIDE DEF o, v
<1>4. {} \in SUBSET (Addresses \ live) /\ \A i \in 1 .. 0 : FALSE
  OBVIOUS
<1> QED BY <1>1, <1>2, <1>3, <1>4, BuildLeft

\* The parts of a conditional are kept where no release follows them.
LEMMA ConditionalLeft ==
    ASSUME Inv, LeakInv, grammar_new_conditional PROVE LeakInv'
<1> DEFINE o == [Object("conditional", << >>) EXCEPT !.hidden = {Value(3), Value(2), Value(1)}]
           v == Object("variable", << >>)
<1>1. Build(3, {}, v, o) /\ UNCHANGED table /\ 3 <= Len(values)
  BY DEF grammar_new_conditional, Reads
<1>2. /\ o.kind = "conditional" /\ o.hidden = {Value(3), Value(2), Value(1)}
      /\ v.kind = "variable" /\ v.hidden = {}
  BY ObjectHolds DEF Object
<1> HIDE DEF o, v
<1>3. 3 \in Nat /\ {} \in SUBSET (Addresses \ live)
      /\ \A i \in 1 .. 3 : Value(i) \in {Value(3), Value(2), Value(1)}
  OBVIOUS
<1> QED BY <1>1, <1>2, <1>3, BuildLeft

LEMMA LoopLeft ==
    ASSUME Inv, LeakInv, NEW name \in Names, grammar_new_loop(name) PROVE LeakInv'
<1> DEFINE o == Object("loop", <<Value(2), Value(1), dangling[name]>>)
           v == Object("variable", << >>)
<1>1. /\ Build(2, {}, v, o) /\ 2 <= Len(values)
      /\ table' \in {table, table \ {dangling[name]}}
  BY DEF grammar_new_loop, Reads
<1>2. /\ o.kind = "loop" /\ o.hidden = {}
      /\ Range(o.fields) = {Value(2), Value(1), dangling[name]}
      /\ v.kind = "variable" /\ v.hidden = {}
  BY ObjectHolds, RangeOfTuple
<1> HIDE DEF o, v
<1>3. 2 \in Nat /\ {} \in SUBSET (Addresses \ live)
      /\ \A i \in 1 .. 2 : Value(i) \in {Value(2), Value(1)}
  OBVIOUS
<1>4. table \subseteq table' \cup Range(o.fields)
  BY <1>1, <1>2
<1> QED BY <1>1, <1>2, <1>3, <1>4, BuildLeft

LEMMA MentionsLeft ==
    ASSUME Inv, LeakInv, NEW name \in Names
    PROVE  /\ \A kind \in {"id", "compare"} :
                 grammar_expression_type_from_id(name, kind) => LeakInv'
           /\ grammar_new_list_args_from_id(name) => LeakInv'
           /\ grammar_function_call_from_id(name) => LeakInv'
           /\ \A dest \in Names : grammar_new_assignment_from_id(name, dest) => LeakInv'
<1>1. ASSUME NEW kind \in {"id", "compare", "args", "assignment"}, NEW fields,
             NEW var \in lookup_variable_create_dangling(name),
             Build(0, Fresh(var), Object("variable", << >>), Object(kind, fields)),
             Mentioned(name, var)
      PROVE  LeakInv'
  <2>1. 0 \in Nat /\ 0 <= Len(values)
    BY <1>1, FieldsHold DEF Build
  <2>2. kind # "range" /\ kind # "function" /\ \A i \in 1 .. 0 : Value(i) \in Range(fields)
    OBVIOUS
  <2> QED BY <1>1, <2>1, <2>2, MentionLeft
<1>2. ASSUME NEW kind \in {"id", "compare"}, grammar_expression_type_from_id(name, kind)
      PROVE  LeakInv'
  BY <1>1, <1>2 DEF grammar_expression_type_from_id
<1>3. ASSUME grammar_new_list_args_from_id(name) PROVE LeakInv'
  BY <1>1, <1>3 DEF grammar_new_list_args_from_id
<1>4. ASSUME grammar_function_call_from_id(name) PROVE LeakInv'
  <2> DEFINE fields(var) == <<var, declared[Function], Value(1)>>
  <2>1. PICK var \in lookup_variable_create_dangling(name) :
            /\ Build(1, Fresh(var), Object("variable", << >>), Object("calls", fields(var)))
            /\ Mentioned(name, var)
    BY <1>4 DEF grammar_function_call_from_id
  <2>2. 1 <= Len(values)
    BY <1>4 DEF grammar_function_call_from_id, Reads
  <2>3. 1 \in Nat /\ \A i \in 1 .. 1 : Value(i) \in Range(fields(var))
    BY RangeOfTuple
  <2> HIDE DEF fields
  <2> QED BY <2>1, <2>2, <2>3, MentionLeft
<1>5. ASSUME NEW dest \in Names, grammar_new_assignment_from_id(name, dest) PROVE LeakInv'
  BY <1>1, <1>5 DEF grammar_new_assignment_from_id
<1> QED BY <1>2, <1>3, <1>4, <1>5

LEMMA DeclarationsLeft ==
    ASSUME Inv, LeakInv, NEW name \in Names
    PROVE  /\ grammar_new_variable(name) => LeakInv'
           /\ grammar_new_declaration_file_node(name) => LeakInv'
<1>1. ASSUME grammar_new_variable(name) PROVE LeakInv'
  <2>1. PICK var \in Malloc(live) :
            /\ 1 <= Len(values)
            /\ Build(1, {var}, Object("variable", <<Value(1)>>), Object("declaration", <<var>>))
            /\ Declared(name, var)
    BY <1>1 DEF grammar_new_variable, Reads
  <2>2. 1 \in Nat /\ \A i \in 1 .. 1 : Value(i) \in Range(<<Value(1)>>) \cup Range(<<var>>)
    BY RangeOfTuple
  <2> QED BY <2>1, <2>2, DeclareLeft
<1>2. ASSUME NEW var \in Malloc(live), Declared(name, var),
             Build(0, {var}, Object("variable", << >>), Object("file", <<var>>))
      PROVE  LeakInv'
  <2>1. 0 \in Nat /\ 0 <= Len(values)
    BY <1>2, FieldsHold DEF Build
  <2>2. \A i \in 1 .. 0 : Value(i) \in Range(<< >>) \cup Range(<<var>>)
    OBVIOUS
  <2> QED BY <1>2, <2>1, <2>2, DeclareLeft
<1>3. ASSUME NEW var \in Malloc(live), Declared(name, var), 1 <= Len(values),
             Build(1, {var}, Object("variable", << >>), Object("file", <<var, Value(1)>>))
      PROVE  LeakInv'
  <2>1. 1 \in Nat
        /\ \A i \in 1 .. 1 : Value(i) \in Range(<< >>) \cup Range(<<var, Value(1)>>)
    BY RangeOfTuple
  <2> QED BY <1>3, <2>1, DeclareLeft
<1>4. ASSUME grammar_new_declaration_file_node(name) PROVE LeakInv'
  BY <1>2, <1>3, <1>4 DEF grammar_new_declaration_file_node, Reads
<1> QED BY <1>1, <1>4

\* A list takes the value at the top of the stack.
LEMMA ExtendLeft ==
    ASSUME Inv, LeakInv, 2 <= Len(values), NEW object, object.kind = heap[Value(2)].kind,
           heap[Value(2)].hidden \subseteq object.hidden,
           Range(heap[Value(2)].fields) \subseteq Range(object.fields),
           object.hidden # {} =>
              object.kind = "conditional" \/ (object.kind = "range" /\ ~object.empty),
           object.kind = "range" => object.fields = << >>,
           Value(1) \in object.hidden \cup Range(object.fields),
           Extend(2, object)
    PROVE  LeakInv'
<1>1. /\ Parsing /\ UNCHANGED <<phase, program, table, live>> /\ Recorded' = Recorded
      /\ heap' = [heap EXCEPT ![Value(2)] = object] /\ values' = Rest(1)
  BY DEF Extend, Recorded
<1>2. Value(1) \in live
  BY <1>1, ValueTwo
<1> QED BY <1>1, <1>2, UpdateLeft

\* The object that Value(2) or Value(1) points to.
LEMMA ValuesShaped ==
    ASSUME Inv, LeakInv, Parsing, 2 <= Len(values)
    PROVE  \A i \in 1 .. 2 :
              /\ heap[Value(i)] \in Objects
              /\ heap[Value(i)].hidden # {} =>
                    \/ heap[Value(i)].kind = "conditional"
                    \/ heap[Value(i)].kind = "range" /\ ~heap[Value(i)].empty
              /\ heap[Value(i)].kind = "range" => heap[Value(i)].fields = << >>
<1>1. Shapes(heap, live, values)
  BY DEF LeakInv
<1>2. /\ Len(values) \in Nat /\ DOMAIN values = 1 .. Len(values)
      /\ Range(values) \subseteq live
  BY RestHolds
<1>3. ASSUME NEW i \in 1 .. 2 PROVE Value(i) \in live
  <2>1. Len(values) - i + 1 \in 1 .. Len(values)
    BY <1>2
  <2> QED BY <2>1, <1>2 DEF Value, Range
<1>4. \A i \in 1 .. 2 : Value(i) \in DOMAIN heap /\ heap[Value(i)] \in Objects
  BY <1>3, HeapHolds
<1> QED BY <1>1, <1>3, <1>4 DEF Shapes

\* A list with an element more, behind its pointer or out of its reach.
LEMMA OneMore ==
    ASSUME NEW o \in Objects, NEW a \in Addresses
    PROVE  /\ LET q == [o EXCEPT !.fields = Append(@, a), !.empty = FALSE]
              IN  /\ q.kind = o.kind /\ q.hidden = o.hidden
                  /\ Range(q.fields) = Range(o.fields) \cup {a}
           /\ LET q == [o EXCEPT !.fields = Append(@, a)]
              IN  /\ q.kind = o.kind /\ q.hidden = o.hidden
                  /\ Range(q.fields) = Range(o.fields) \cup {a}
           /\ LET q == [o EXCEPT !.hidden = @ \cup {a}, !.exprs = "array", !.empty = FALSE]
              IN  /\ q.kind = o.kind /\ q.hidden = o.hidden \cup {a}
                  /\ q.fields = o.fields /\ q.empty = FALSE
<1>1. o.fields \in Seq(Addresses \cup {NULL})
  BY PartsAreAddresses
<1>2. Range(Append(o.fields, a)) = Range(o.fields) \cup {a}
  BY <1>1, RangeAppend
<1> QED BY <1>2 DEF Objects

\* A parse that ends without a program leaves nothing to account for.
LEMMA EndLeft ==
    ASSUME Inv, LeakInv, NEW how \in {"crash", "abort", "parsed"}, End(how) PROVE LeakInv'
<1>1. Parsing /\ phase' = how /\ program' = program
  BY DEF End, parseVars
<1>2. program = NULL
  BY <1>1, HeapHolds
<1> QED BY <1>1, <1>2 DEF LeakInv, Parsing, Releasing

LEMMA ExtensionsLeft ==
    ASSUME Inv, LeakInv
    PROVE  /\ grammar_concat_list_expr => LeakInv'
           /\ grammar_concat_list_args => LeakInv'
           /\ grammar_concat_expressions => LeakInv'
<1> DEFINE head == heap[Value(2)]
           more == [head EXCEPT !.fields = Append(@, Value(1)), !.empty = FALSE]
           lost == [head EXCEPT !.hidden = @ \cup {Value(1)}, !.exprs = "array", !.empty = FALSE]
           last == [head EXCEPT !.fields = Append(@, Value(1))]
<1>1. ASSUME Parsing, 2 <= Len(values)
      PROVE  /\ /\ more.kind = head.kind /\ more.hidden = head.hidden
                /\ Range(more.fields) = Range(head.fields) \cup {Value(1)}
             /\ /\ last.kind = head.kind /\ last.hidden = head.hidden
                /\ Range(last.fields) = Range(head.fields) \cup {Value(1)}
             /\ /\ lost.kind = head.kind /\ lost.hidden = head.hidden \cup {Value(1)}
                /\ lost.fields = head.fields /\ lost.empty = FALSE
             /\ head.hidden # {} =>
                   head.kind = "conditional" \/ (head.kind = "range" /\ ~head.empty)
             /\ head.kind = "range" => head.fields = << >>
  <2>1. head \in Objects /\ Value(1) \in Addresses
    BY <1>1, ValueTwo
  <2>2. /\ head.hidden # {} =>
              head.kind = "conditional" \/ (head.kind = "range" /\ ~head.empty)
        /\ head.kind = "range" => head.fields = << >>
    BY <1>1, ValuesShaped
  <2> HIDE DEF head
  <2> QED BY <2>1, <2>2, OneMore
<1>2. Reads(2, list) => 2 <= Len(values) /\ (head.kind = "list" \/ head.kind = "range")
  BY DEF Reads, list
<1> HIDE DEF head, more, lost, last
<1>3. ASSUME grammar_concat_list_expr PROVE LeakInv'
  <2>1. /\ 2 <= Len(values)
        /\ \/ End("crash")
           \/ head.kind = "list" /\ Extend(2, more)
           \/ head.kind = "range" /\ Extend(2, lost)
    BY <1>2, <1>3 DEF grammar_concat_list_expr, head, more, lost
  <2>2. Parsing
    BY <2>1 DEF End, Extend
  <2>3. CASE End("crash")
    BY <2>3, EndLeft
  <2>4. CASE head.kind = "list" /\ Extend(2, more)
    BY <2>1, <2>2, <2>4, <1>1, ExtendLeft DEF head
  <2>5. CASE head.kind = "range" /\ Extend(2, lost)
    BY <2>1, <2>2, <2>5, <1>1, ExtendLeft DEF head
  <2> QED BY <2>1, <2>3, <2>4, <2>5
<1>4. ASSUME grammar_concat_list_args PROVE LeakInv'
  <2>1. 2 <= Len(values) /\ Extend(2, more) /\ head.kind = "args"
    BY <1>4 DEF grammar_concat_list_args, Reads, head, more
  <2>2. Parsing
    BY <2>1 DEF Extend
  <2> QED BY <2>1, <2>2, <1>1, ExtendLeft DEF head
<1>5. ASSUME grammar_concat_expressions PROVE LeakInv'
  <2>1. 2 <= Len(values) /\ Extend(2, last) /\ head.kind = "expressions"
    BY <1>5 DEF grammar_concat_expressions, Reads, head, last
  <2>2. Parsing
    BY <2>1 DEF Extend
  <2> QED BY <2>1, <2>2, <1>1, ExtendLeft DEF head
<1> QED BY <1>3, <1>4, <1>5

\* The links of the second chain are those of the first, whose head is freed.
LEMMA ConcatCallLeft ==
    ASSUME Inv, LeakInv, grammar_concat_function_call PROVE LeakInv'
<1> DEFINE o == heap[Value(2)]
           t == heap[Value(1)]
           q == [o EXCEPT !.fields = @ \o t.fields]
<1>1. /\ Parsing /\ 2 <= Len(values) /\ o.kind = "calls" /\ t.kind = "calls"
      /\ heap' = [heap EXCEPT ![Value(2)] = q]
      /\ live' = live \ {Value(1)} /\ values' = Rest(1)
      /\ UNCHANGED <<program, table, phase>> /\ Recorded' = Recorded
  BY DEF grammar_concat_function_call, Reads, Recorded
<1>2. o \in Objects /\ t \in Objects /\ Value(1) \in live
  BY <1>1, ValueTwo
<1>3. o.hidden = {} /\ t.hidden = {}
  BY <1>1, ValuesShaped
<1> HIDE DEF o, t
<1>4. o.fields \in Seq(Addresses \cup {NULL}) /\ t.fields \in Seq(Addresses \cup {NULL})
  BY <1>2, PartsAreAddresses
<1>5. Range(o.fields \o t.fields) = Range(o.fields) \cup Range(t.fields)
  BY <1>4, RangeConcat
<1>6. q.kind = o.kind /\ q.fields = o.fields \o t.fields /\ q.hidden = o.hidden
  BY <1>2 DEF Objects
<1> HIDE DEF q
<1> QED BY <1>1, <1>3, <1>5, <1>6, UpdateLeft DEF o, t

\* The tail of the list is an empty range, which points to nothing.
LEMMA ConcatListLeft ==
    ASSUME Inv, LeakInv, grammar_concat_list_list PROVE LeakInv'
<1> DEFINE o == heap[Value(2)]
           t == heap[Value(1)]
           q == [o EXCEPT !.exprs = "array"]
<1>1. CASE End("crash") \/ End("abort")
  BY <1>1, EndLeft
<1>2. CASE ~(End("crash") \/ End("abort"))
  <2>1. /\ Parsing /\ 2 <= Len(values) /\ free_and_keep_address(Value(1))
        /\ heap' = [heap EXCEPT ![Value(2)] = q]
        /\ values' = Rest(1) /\ t.kind = "range" /\ t.empty
        /\ UNCHANGED <<program, table, phase>>
    BY <1>2 DEF grammar_concat_list_list, Reads
  <2>2. o \in Objects /\ Value(1) \in Addresses
    BY <2>1, ValueTwo
  <2>3. /\ t.hidden = {} /\ t.fields = << >>
        /\ o.hidden # {} => o.kind = "conditional" \/ (o.kind = "range" /\ ~o.empty)
        /\ o.kind = "range" => o.fields = << >>
    BY <2>1, ValuesShaped
  <2> HIDE DEF o, t
  <2>4. /\ q.kind = o.kind /\ q.fields = o.fields /\ q.hidden = o.hidden /\ q.empty = o.empty
    BY <2>2 DEF Objects
  <2> HIDE DEF q
  <2>5. /\ live' \subseteq live /\ live \ {Value(1)} \subseteq live'
        /\ Recorded' = Recorded \cup {Value(1)}
    BY <2>1, <2>2, FreeOK
  <2>6. Range(t.fields) = {}
    BY <2>3, RangeOfTuple
  <2> QED BY <2>1, <2>3, <2>4, <2>5, <2>6, UpdateLeft DEF o, t
<1> QED BY <1>1, <1>2

\* The function is all that is left on the parser's stack.
LEMMA ProgramLeft ==
    ASSUME Inv, LeakInv, grammar_program PROVE LeakInv'
<1>1. /\ Parsing /\ phase' = "parsed" /\ program' = Value(1) /\ 1 <= Len(values)
      /\ heap[Value(1)].kind = "function"
      /\ UNCHANGED <<heap, live, free_addresses, table>>
  BY DEF grammar_program, Reads
<1>2. /\ Shapes(heap, live, values)
      /\ Accounted(heap, live, Recorded \cup table \cup Range(values))
  BY <1>1 DEF LeakInv
<1>3. Len(values) \in Nat /\ DOMAIN values = 1 .. Len(values)
  <2>1. 0 \in Nat /\ 0 <= Len(values)
    BY <1>1, FieldsHold
  <2> QED BY <1>1, <2>1, RestHolds
<1>4. Len(values) = 1
  <2>1. Len(values) - 1 + 1 = Len(values) /\ Len(values) \in DOMAIN values
    BY <1>1, <1>3
  <2> QED BY <2>1, <1>1, <1>2 DEF Shapes, Value
<1>5. Range(values) = {Value(1)}
  BY <1>3, <1>4 DEF Range, Value
<1>6. Accounted(heap', live', Recorded' \cup table' \cup {program'})
  BY <1>1, <1>2, <1>5 DEF Recorded
<1> QED BY <1>1, <1>6 DEF LeakInv, Parsing, Releasing

LEMMA ConcatArgLeft ==
    ASSUME Inv, LeakInv, NEW name \in Names, grammar_concat_list_args_with_id(name)
    PROVE  LeakInv'
<1>1. PICK var \in lookup_variable_create_dangling(name) :
          /\ heap' = [b \in DOMAIN heap \cup {var} |->
                        IF b = Value(1)
                        THEN [heap[b] EXCEPT !.fields = Append(@, var), !.empty = FALSE]
                        ELSE IF b \in Fresh(var) THEN Object("variable", << >>)
                        ELSE heap[b]]
          /\ live' = live \cup {var}
          /\ Mentioned(name, var)
  BY DEF grammar_concat_list_args_with_id
<1>2. /\ Parsing /\ 1 <= Len(values) /\ heap[Value(1)].kind = "args"
      /\ UNCHANGED <<values, program, phase>> /\ Recorded' = Recorded
  BY DEF grammar_concat_list_args_with_id, Reads, Recorded
<1>3. /\ Shapes(heap, live, values)
      /\ Accounted(heap, live, Recorded \cup table \cup Range(values))
  BY <1>2 DEF LeakInv
<1>4. /\ live \subseteq DOMAIN heap /\ live \subseteq Addresses
      /\ \A p \in DOMAIN heap : heap[p] \in Objects
  BY <1>2, HeapHolds
<1>5. /\ Fresh(var) \in SUBSET (Addresses \ live)
      /\ var \in live \cup Fresh(var) /\ table' = table \cup Fresh(var)
  BY <1>1, <1>2, LookupOK DEF Mentioned, Vars
<1>6. Range(values) \subseteq live /\ Value(1) \in live
  <2>1. /\ Len(values) \in Nat /\ DOMAIN values = 1 .. Len(values)
        /\ Range(values) \subseteq live
    <3>1. 0 \in Nat /\ 0 <= Len(values)
      BY <1>2, FieldsHold
    <3> QED BY <3>1, <1>2, RestHolds
  <2>2. Len(values) - 1 + 1 \in DOMAIN values
    BY <1>2, <2>1
  <2> QED BY <2>1, <2>2 DEF Value, Range
<1> DEFINE g == heap'
           m == live'
           o == heap[Value(1)]
           q == [o EXCEPT !.fields = Append(@, var), !.empty = FALSE]
<1>7. q.kind = o.kind /\ q.hidden = o.hidden /\ Range(q.fields) = Range(o.fields) \cup {var}
  <2>1. o \in Objects /\ var \in Addresses
    BY <1>4, <1>5, <1>6
  <2> HIDE DEF o
  <2> QED BY <2>1, OneMore
<1>8. /\ DOMAIN g = DOMAIN heap \cup {var} /\ m = live \cup {var} /\ g[Value(1)] = q
      /\ \A b \in live \ {Value(1)} : g[b] = heap[b]
      /\ \A b \in DOMAIN g \ live : b # var => g[b] = heap[b]
      /\ var \notin live => g[var].hidden = {} /\ g[var].kind = "variable"
  <2>1. Value(1) \in DOMAIN heap
    BY <1>4, <1>6
  <2> QED BY <2>1, <1>1, <1>4, <1>5, <1>6, ObjectHolds DEF Fresh
<1> HIDE DEF g, m, q
<1>9. ASSUME NEW x, PointedTo(heap, live, x) PROVE PointedTo(g, m, x)
  <2>1. PICK p \in DOMAIN heap :
            x \in heap[p].hidden \/ (p \in live /\ x \in Range(heap[p].fields))
    BY <1>9 DEF PointedTo
  <2>2. p \in live /\ p \in DOMAIN g /\ p \in m
    BY <2>1, <1>3, <1>8 DEF Shapes
  <2>3. x \in g[p].hidden \/ x \in Range(g[p].fields)
    BY <2>1, <2>2, <1>7, <1>8
  <2> QED BY <2>2, <2>3 DEF PointedTo
<1>10. Accounted(g, m, Recorded' \cup table' \cup Range(values'))
  BY <1>2, <1>3, <1>5, <1>8, <1>9 DEF Accounted
<1>11. Shapes(g, m, values')
  <2>1. ASSUME NEW p \in DOMAIN g, g[p].hidden # {}
        PROVE  p \in m /\ (g[p].kind = "conditional" \/ (g[p].kind = "range" /\ ~g[p].empty))
    <3>1. CASE p = Value(1)
      <4>1. heap[p].hidden # {} /\ p \in DOMAIN heap
        BY <2>1, <3>1, <1>4, <1>6, <1>7, <1>8
      <4> QED BY <3>1, <4>1, <1>2, <1>3 DEF Shapes
    <3>2. CASE p # Value(1)
      <4>1. g[p] = heap[p] /\ p \in DOMAIN heap
        BY <2>1, <3>2, <1>4, <1>8
      <4> QED BY <2>1, <4>1, <1>3, <1>8 DEF Shapes
    <3> QED BY <3>1, <3>2
  <2>2. ASSUME NEW p \in m, g[p].kind = "range" PROVE g[p].fields = << >>
    <3>1. p # Value(1)
      BY <2>2, <1>2, <1>7, <1>8
    <3>2. p \in live /\ g[p] = heap[p]
      BY <2>2, <3>1, <1>8
    <3> QED BY <2>2, <3>2, <1>3 DEF Shapes
  <2>3. ASSUME NEW i \in DOMAIN values', g[values'[i]].kind = "function" PROVE i = 1
    <3>1. i \in DOMAIN values /\ values[i] \in live /\ values' = values
      BY <1>2, <1>6 DEF Range
    <3>2. heap[values[i]].kind = "function"
      BY <2>3, <3>1, <1>2, <1>7, <1>8
    <3> QED BY <3>1, <3>2, <1>3 DEF Shapes
  <2> QED BY <2>1, <2>2, <2>3 DEF Shapes
<1> QED BY <1>2, <1>10, <1>11, LeftWhileParsing DEF g, m

LEMMA ProductionLeft ==
    ASSUME Inv, LeakInv, NEW form \in AllForms, Production(form) PROVE LeakInv'
<1>1. CASE form = "program"
  BY <1>1, ConstructionLeft, ExtensionsLeft DEF Production
<1>2. CASE form = "let"
  BY <1>2, DeclarationsLeft DEF Production
<1>3. CASE form = "assignment"
  BY <1>3, ConstructionLeft, MentionsLeft DEF Production
<1>4. CASE form = "arguments"
  BY <1>4, MentionsLeft, ConcatArgLeft DEF Production
<1>5. CASE form = "call"
  BY <1>5, ConstructionLeft, ExtensionsLeft, ConcatCallLeft, MentionsLeft DEF Production
<1>6. CASE form = "file"
  BY <1>6, DeclarationsLeft, ConstructionLeft DEF Production
<1>7. CASE form = "loop"
  BY <1>7, LoopLeft DEF Production
<1>8. CASE form = "operator"
  BY <1>8, ConstructionLeft, MentionsLeft DEF Production
<1>9. CASE form = "conditional"
  BY <1>9, ConstructionLeft, MentionsLeft, ConditionalLeft DEF Production
<1>10. CASE form = "list"
  BY <1>10, ConstructionLeft, ExtensionsLeft DEF Production
<1>11. CASE form = "range"
  BY <1>11, RangeLeft, ConstructionLeft, ExtensionsLeft DEF Production
<1>12. CASE form = "lists"
  BY <1>12, ConcatListLeft DEF Production
<1> QED BY <1>1, <1>2, <1>3, <1>4, <1>5, <1>6, <1>7, <1>8, <1>9, <1>10, <1>11, <1>12
        DEF AllForms

---------------------------------------------------------------------------
(* What is left through the release. *)

LEMMA CalledHolds ==
    ASSUME NEW ptr
    PROVE  /\ has_been_freed(ptr) => Called(ptr) = << >>
           /\ ~has_been_freed(ptr) =>
                 /\ ptr # NULL /\ ptr \notin Recorded
                 /\ Called(ptr) = <<[object |-> ptr, at |-> 1]>>
BY DEF Called, has_been_freed

\* The C stack with the call of a root, and nothing of it visited yet.
LEMMA RootCalled ==
    ASSUME Inv, NEW ptr \in live \cup Recorded \cup {NULL}, calls' = Called(ptr),
           UNCHANGED <<heap, free_addresses>>
    PROVE  /\ ptr \in Recorded' \cup OnStack(calls') \cup {NULL}
           /\ Recorded' = Recorded
           /\ Visited(heap', calls', Recorded')
<1> DEFINE x == [object |-> ptr, at |-> 1]
<1>1. Recorded' = Recorded
  BY DEF Recorded
<1>2. CASE has_been_freed(ptr)
  <2>1. calls' = << >>
    BY <1>2, CalledHolds
  <2> QED BY <1>1, <1>2, <2>1 DEF Visited, has_been_freed
<1>3. CASE ~has_been_freed(ptr)
  <2>1. calls' = <<x>> /\ DOMAIN <<x>> = {1} /\ <<x>>[1] = x
    BY <1>3, CalledHolds
  <2>2. x.object = ptr /\ x.at = 1
    OBVIOUS
  <2> HIDE DEF x
  <2>3. ptr \in OnStack(calls')
    BY <2>1, <2>2 DEF OnStack
  <2>4. ptr \in live
    BY <1>3 DEF has_been_freed
  <2>5. heap[ptr] \in Objects
    BY <2>4 DEF Inv, TypeOK, MemTypeOK
  <2>6. heap[ptr].fields \in Seq(Addresses \cup {NULL})
    BY <2>5, PartsAreAddresses
  <2>7. DOMAIN heap[ptr].fields = 1 .. Len(heap[ptr].fields)
    BY <2>6, LenProperties
  <2>8. \A i \in DOMAIN heap[ptr].fields : ~(i < 1)
    <3> TAKE i \in DOMAIN heap[ptr].fields
    <3>1. i \in 1 .. Len(heap[ptr].fields)
      BY <2>7
    <3>2. Len(heap[ptr].fields) \in Nat
      BY <2>6, LenProperties
    <3> QED BY <3>1, <3>2
  <2>9. Visited(heap', calls', Recorded')
    BY <2>1, <2>2, <2>8 DEF Visited
  <2> QED BY <1>1, <2>3, <2>9
<1> QED BY <1>2, <1>3

\* The release of the tree begins: what the program points to is still live.
LEMMA MainFunctionLeft ==
    ASSUME Inv, LeakInv, free_main_function(program), UNCHANGED parseVars PROVE LeakInv'
<1>1. /\ phase = "parsed" /\ phase' = "main_function" /\ calls' = Called(program)
      /\ UNCHANGED <<heap, live, free_addresses, todo, program, table>>
  BY DEF free_main_function, parseVars
<1>2. program \in live \cup Recorded \cup {NULL}
  BY <1>1, RootsHold
<1>3. /\ program \in Recorded' \cup OnStack(calls') \cup {NULL}
      /\ Recorded' = Recorded
      /\ Visited(heap', calls', Recorded')
  BY <1>1, <1>2, RootCalled
<1>4. ASSUME program # NULL PROVE Accounted(heap', live', Recorded' \cup table' \cup OnStack(calls'))
  BY <1>1, <1>3, <1>4 DEF LeakInv, Accounted
<1> QED BY <1>1, <1>3, <1>4 DEF LeakInv, Parsing, Releasing

\* The release of the table takes its variables.
LEMMA TableLeft ==
    ASSUME Inv, LeakInv, free_table(table), UNCHANGED parseVars PROVE LeakInv'
<1>1. /\ phase = "main_function" /\ phase' = "table" /\ todo' = table
      /\ UNCHANGED <<heap, live, free_addresses, calls, program>>
  BY DEF free_table, parseVars
<1>2. Recorded' = Recorded
  BY <1>1 DEF Recorded
<1> QED BY <1>1, <1>2 DEF LeakInv, Parsing, Releasing

\* A variable of the table is recorded, or its release begins.
LEMMA TableNodeLeft ==
    ASSUME Inv, LeakInv, NEW var \in todo, free_table_node(var), UNCHANGED parseVars
    PROVE  LeakInv'
<1>1. /\ phase = "table" /\ phase' = "table" /\ calls = << >> /\ calls' = Called(var)
      /\ todo' = todo \ {var}
      /\ UNCHANGED <<heap, live, free_addresses, program>>
  BY DEF free_table_node, parseVars
<1>2. var \in live \cup Recorded \cup {NULL} /\ var # NULL
  <2>1. var \in Addresses /\ \A a \in Addresses : a # NULL
    BY AddressesAssumption, AddressesHold, <1>1, RootsHold DEF NULL
  <2> QED BY <2>1, <1>1, RootsHold
<1>3. /\ var \in Recorded' \cup OnStack(calls') \cup {NULL}
      /\ Recorded' = Recorded
      /\ Visited(heap', calls', Recorded')
  BY <1>1, <1>2, RootCalled
<1>4. OnStack(calls) = {}
  BY <1>1 DEF OnStack
<1>5. ASSUME program # NULL PROVE Accounted(heap', live', Recorded' \cup todo' \cup OnStack(calls'))
  BY <1>1, <1>2, <1>3, <1>4, <1>5 DEF LeakInv, Accounted
<1> QED BY <1>1, <1>3, <1>5 DEF LeakInv, Parsing, Releasing

\* After the exit there is no more to account for.
LEMMA ListFreedLeft ==
    ASSUME free_free_address_list PROVE LeakInv'
BY DEF free_free_address_list, LeakInv, Parsing, Releasing

\* The stack without its top.
LEMMA BelowHolds ==
    ASSUME Inv, Releasing, calls # << >>
    PROVE  /\ Len(calls) \in Nat \ {0} /\ DOMAIN calls = 1 .. Len(calls)
           /\ Below \in Seq(Frame) /\ DOMAIN Below = 1 .. Len(calls) - 1
           /\ \A i \in 1 .. Len(calls) - 1 : Below[i] = calls[i]
           /\ OnStack(calls) = OnStack(Below) \cup {Top.object}
<1> DEFINE n == Len(calls)
<1>1. calls \in Seq(Frame)
  BY AddressesHold
<1>2. n \in Nat \ {0} /\ DOMAIN calls = 1 .. n /\ \A i \in 1 .. n : calls[i] \in Frame
  BY <1>1, EmptySeq, LenProperties, ElementOfSeq
<1>3. Below \in Seq(Frame) /\ Len(Below) = n - 1 /\ \A i \in 1 .. n - 1 : Below[i] = calls[i]
  <2>1. n - 1 \in Int /\ 1 \in Int /\ \A i \in 1 .. n - 1 : calls[i] \in Frame
    BY <1>2
  <2> DEFINE u == SubSeq(calls, 1, n - 1)
  <2>2. /\ u \in Seq(Frame) /\ Len(u) = (IF 1 <= n - 1 THEN n - 1 - 1 + 1 ELSE 0)
        /\ \A i \in 1 .. n - 1 - 1 + 1 : u[i] = calls[1 + i - 1]
    BY <2>1, SubSeqProperties
  <2>3. Below = u
    BY DEF Below
  <2> HIDE DEF u, n
  <2>4. n - 1 - 1 + 1 = n - 1 /\ \A i \in 1 .. n - 1 : 1 + i - 1 = i
    BY <1>2
  <2> QED BY <2>2, <2>3, <2>4, <1>2
<1>4. DOMAIN Below = 1 .. n - 1
  BY <1>3, LenProperties
<1>5. Top = calls[n]
  BY DEF Top
<1> HIDE DEF n
<1>6. \A i \in 1 .. n : i = n \/ i \in 1 .. n - 1
  BY <1>2
<1>7. n \in 1 .. n /\ \A i \in 1 .. n - 1 : i \in 1 .. n
  BY <1>2
<1>8. OnStack(calls) = OnStack(Below) \cup {Top.object}
  BY <1>2, <1>3, <1>4, <1>5, <1>6, <1>7 DEF OnStack
<1> QED BY <1>2, <1>3, <1>4, <1>8 DEF n

\* The function at the top has visited all of its fields, frees its object and
\* returns to the one below.
LEMMA ObjectLeft ==
    ASSUME Inv, LeakInv, ReleaseObject, UNCHANGED parseVars PROVE LeakInv'
<1> DEFINE n == Len(calls)
           o == Top.object
<1>1. /\ Releasing /\ calls # << >> /\ Top.at > Len(heap[o].fields)
      /\ free_and_keep_address(o) /\ calls' = Below
      /\ UNCHANGED <<heap, todo, phase, program, table>>
  BY DEF ReleaseObject, parseVars
<1>2. /\ Top = calls[n] /\ o \in live /\ o \in Addresses /\ Top.at \in Nat
      /\ heap[o] \in Objects
  BY <1>1, TopHolds
<1>3. /\ n \in Nat \ {0} /\ DOMAIN calls = 1 .. n
      /\ DOMAIN Below = 1 .. n - 1
      /\ \A i \in 1 .. n - 1 : Below[i] = calls[i]
      /\ OnStack(calls) = OnStack(Below) \cup {o}
  BY <1>1, BelowHolds
<1>4. /\ live' \subseteq live /\ live \ {o} \subseteq live'
      /\ Recorded' = Recorded \cup {o}
  BY <1>1, <1>2, FreeOK
<1>5. Visited(heap, calls, Recorded)
  BY <1>1 DEF LeakInv
<1> HIDE DEF n, o
<1>6. n \in DOMAIN calls /\ n + 1 \notin DOMAIN calls
  BY <1>3
<1>7. Range(heap[o].fields) \subseteq Recorded \cup {NULL}
  <2>1. heap[o].fields \in Seq(Addresses \cup {NULL})
    BY <1>2, PartsAreAddresses
  <2>2. /\ DOMAIN heap[o].fields = 1 .. Len(heap[o].fields)
        /\ Len(heap[o].fields) \in Nat
    BY <2>1, LenProperties
  <2>3. \A i \in DOMAIN heap[o].fields : i < Top.at
    BY <2>2, <1>1, <1>2
  <2>4. \A i \in DOMAIN heap[o].fields : heap[o].fields[i] \in Recorded \cup {NULL}
    BY <2>3, <1>2, <1>5, <1>6 DEF Visited, o
  <2> QED BY <2>4 DEF Range
<1>8. Visited(heap', calls', Recorded')
  <2> SUFFICES ASSUME NEW j \in 1 .. n - 1,
                      NEW i \in DOMAIN heap[calls[j].object].fields, i < calls[j].at
               PROVE  \/ heap[calls[j].object].fields[i] \in Recorded' \cup {NULL}
                      \/ /\ j + 1 \in 1 .. n - 1
                         /\ calls[j + 1].object = heap[calls[j].object].fields[i]
    <3>1. \A j \in 1 .. n - 1 : j + 1 \in 1 .. n - 1 => Below[j + 1] = calls[j + 1]
      BY <1>3
    <3> QED BY <3>1, <1>1, <1>3 DEF Visited
  <2>1. j \in DOMAIN calls /\ (j + 1 = n \/ j + 1 \in 1 .. n - 1)
    BY <1>3
  <2>2. \/ heap[calls[j].object].fields[i] \in Recorded \cup {NULL}
        \/ calls[j + 1].object = heap[calls[j].object].fields[i]
    BY <2>1, <1>5 DEF Visited
  <2>3. j + 1 = n => calls[j + 1].object \in Recorded'
    BY <1>2, <1>4 DEF o
  <2> QED BY <2>1, <2>2, <2>3, <1>4
<1>9. ASSUME NEW r, Accounted(heap, live, Recorded \cup r \cup OnStack(calls))
      PROVE  Accounted(heap', live', Recorded' \cup r \cup OnStack(calls'))
  <2> SUFFICES ASSUME NEW a \in live'
               PROVE  \/ a \in Recorded' \cup r \cup OnStack(calls')
                      \/ PointedTo(heap, live', a)
    BY <1>1 DEF Accounted
  <2>1. \/ a \in Recorded \cup r \cup OnStack(calls)
        \/ PointedTo(heap, live, a)
    BY <1>4, <1>9 DEF Accounted
  <2>2. CASE a \in Recorded \cup r \cup OnStack(calls)
    BY <2>2, <1>1, <1>3, <1>4
  <2>3. CASE PointedTo(heap, live, a)
    <3>1. PICK p \in DOMAIN heap :
              a \in heap[p].hidden \/ (p \in live /\ a \in Range(heap[p].fields))
      BY <2>3 DEF PointedTo
    <3>2. CASE p = o /\ a \in Range(heap[p].fields)
      <4>1. a # NULL
        BY <1>4, AddressesHold, AddressesAssumption DEF NULL
      <4> QED BY <4>1, <3>2, <1>4, <1>7
    <3>3. CASE a \in heap[p].hidden \/ p # o
      BY <3>1, <3>3, <1>4 DEF PointedTo
    <3> QED BY <3>1, <3>2, <3>3
  <2> QED BY <2>1, <2>2, <2>3
<1> QED BY <1>1, <1>8, <1>9 DEF LeakInv, Parsing, Releasing

\* The function at the top goes on to its next field, and calls a function for
\* the field it has been at unless that is NULL or recorded.
LEMMA FieldLeft ==
    ASSUME Inv, LeakInv, ReleaseField, UNCHANGED parseVars PROVE LeakInv'
<1> DEFINE n == Len(calls)
           o == Top.object
           f == heap[o].fields[Top.at]
           x == [Top EXCEPT !.at = @ + 1]
           u == Below \o <<x>>
<1>1. /\ Releasing /\ calls # << >> /\ Top.at <= Len(heap[o].fields)
      /\ calls' = u \o Called(f)
      /\ UNCHANGED <<heap, live, free_addresses, todo, phase, program, table>>
  BY DEF ReleaseField, parseVars
<1>2. /\ Top \in Frame /\ Top = calls[n] /\ o \in live /\ Top.at \in Nat /\ Top.at >= 1
      /\ heap[o] \in Objects
  BY <1>1, TopHolds
<1>3. /\ n \in Nat \ {0} /\ DOMAIN calls = 1 .. n
      /\ OnStack(calls) = OnStack(Below) \cup {o}
      /\ calls \in Seq(Frame)
  BY <1>1, BelowHolds, AddressesHold
<1>4. x \in Frame /\ x.object = o /\ x.at = Top.at + 1
  BY <1>2 DEF Frame
<1>5. /\ u \in Seq(Frame) /\ Len(u) = n /\ u[n] = x
      /\ \A i \in 1 .. n - 1 : u[i] = calls[i]
  <2>1. u = SubSeq(calls, 1, Len(calls) - 1) \o <<x>>
    BY DEF Below
  <2>2. calls \in Seq(Frame) /\ calls # << >> /\ x \in Frame
    BY <1>1, <1>3, <1>4
  <2> HIDE DEF u, x, n
  <2>3. /\ u \in Seq(Frame) /\ Len(u) = Len(calls) /\ u[Len(calls)] = x
        /\ \A i \in 1 .. Len(calls) - 1 : u[i] = calls[i]
    BY <2>1, <2>2, LastReplaced
  <2> QED BY <2>3 DEF n
<1>6. Recorded' = Recorded
  BY <1>1 DEF Recorded
<1>7. Visited(heap, calls, Recorded)
  BY <1>1 DEF LeakInv
<1>8. f \in Addresses \cup {NULL}
  <2> HIDE DEF o
  <2>1. heap[o].fields \in Seq(Addresses \cup {NULL})
    BY <1>2, PartsAreAddresses
  <2>2. Len(heap[o].fields) \in Nat
    BY <2>1, LenProperties
  <2>3. Top.at \in 1 .. Len(heap[o].fields)
    BY <2>2, <1>1, <1>2
  <2> QED BY <2>1, <2>3, ElementOfSeq
<1> HIDE DEF n, o, f, x, u
<1>9. /\ DOMAIN u = 1 .. n
      /\ \A j \in 1 .. n : u[j].object = calls[j].object
      /\ \A j \in 1 .. n : j # n => u[j] = calls[j]
  <2>1. DOMAIN u = 1 .. n
    BY <1>5, LenProperties
  <2>2. \A j \in 1 .. n : j = n \/ j \in 1 .. n - 1
    BY <1>3
  <2> QED BY <2>1, <2>2, <1>2, <1>4, <1>5 DEF o
<1>10. \/ has_been_freed(f) /\ calls' = u
       \/ /\ calls' \in Seq(Frame) /\ DOMAIN calls' = 1 .. n + 1
          /\ \A j \in 1 .. n : calls'[j] = u[j]
          /\ calls'[n + 1] = [object |-> f, at |-> 1]
          /\ f \in live
  <2>1. CASE has_been_freed(f)
    <3>1. Called(f) = << >>
      BY <2>1, CalledHolds
    <3>2. calls' = u
      BY <3>1, <1>1, <1>5, ConcatEmptySeq
    <3> QED BY <2>1, <3>2
  <2>2. CASE ~has_been_freed(f)
    <3> DEFINE y == [object |-> f, at |-> 1]
    <3>1. Called(f) = <<y>> /\ f # NULL /\ f \notin Recorded
      BY <2>2, CalledHolds
    <3>2. y \in Frame
      BY <3>1, <1>8 DEF Frame
    <3>3. calls' = Append(u, y)
      BY <3>1, <3>2, <1>1, <1>5, AppendIsConcat
    <3> HIDE DEF y
    <3>4. /\ Append(u, y) \in Seq(Frame) /\ Len(Append(u, y)) = n + 1
          /\ Append(u, y)[n + 1] = y
          /\ \A j \in 1 .. n : Append(u, y)[j] = u[j]
      BY <3>2, <1>5, AppendProperties
    <3>5. DOMAIN Append(u, y) = 1 .. n + 1
      BY <3>4, LenProperties
    <3>6. f \in live
      <4>1. heap[o].fields \in Seq(Addresses \cup {NULL})
        BY <1>2, PartsAreAddresses
      <4>2. Len(heap[o].fields) \in Nat
        BY <4>1, LenProperties
      <4>3. Top.at \in 1 .. Len(heap[o].fields)
        BY <4>2, <1>1, <1>2
      <4>4. f \in Range(heap[o].fields)
        BY <4>1, <4>3, RangeOf DEF f
      <4>5. Walked(heap, live, calls, Recorded)
        BY <1>1, RootsHold DEF Releasing
      <4> QED BY <4>4, <4>5, <3>1, <1>2 DEF Walked, Parts
    <3> QED BY <3>3, <3>4, <3>5, <3>6 DEF y
  <2> QED BY <2>1, <2>2
<1>11. DOMAIN u \subseteq DOMAIN calls' /\ \A j \in 1 .. n : calls'[j] = u[j]
  <2>1. 1 .. n \subseteq 1 .. n + 1
    BY <1>3
  <2> QED BY <2>1, <1>9, <1>10
<1>12. OnStack(calls) \subseteq OnStack(calls')
  BY <1>3, <1>9, <1>11 DEF OnStack
<1>13. Visited(heap', calls', Recorded')
  <2> SUFFICES ASSUME NEW j \in DOMAIN calls',
                      NEW i \in DOMAIN heap[calls'[j].object].fields, i < calls'[j].at
               PROVE  \/ heap[calls'[j].object].fields[i] \in Recorded \cup {NULL}
                      \/ /\ j + 1 \in DOMAIN calls'
                         /\ calls'[j + 1].object = heap[calls'[j].object].fields[i]
    BY <1>1, <1>6 DEF Visited
  <2>1. CASE j \in 1 .. n /\ j # n
    <3>1. j \in DOMAIN calls /\ j + 1 \in 1 .. n /\ calls'[j] = calls[j]
          /\ calls'[j + 1].object = calls[j + 1].object
      BY <2>1, <1>3, <1>9, <1>11
    <3> QED BY <3>1, <1>7, <1>9, <1>11 DEF Visited
  <2>2. CASE j = n
    <3>1. n \in DOMAIN calls /\ n + 1 \notin DOMAIN calls /\ n \in 1 .. n
      BY <1>3
    <3>2. calls'[n] = x /\ calls[n].object = o /\ calls[n].at = Top.at
      BY <3>1, <1>2, <1>5, <1>11 DEF o
    <3>3. i \in DOMAIN heap[o].fields /\ i < Top.at + 1
      BY <2>2, <3>2, <1>4
    <3>4. i \in Nat
      <4>1. heap[o].fields \in Seq(Addresses \cup {NULL})
        BY <1>2, PartsAreAddresses
      <4>2. DOMAIN heap[o].fields = 1 .. Len(heap[o].fields)
        BY <4>1, LenProperties
      <4> QED BY <4>2, <3>3
    <3>5. i < Top.at \/ i = Top.at
      BY <3>3, <3>4, <1>2
    <3>6. CASE i < Top.at
      <4>1. heap[o].fields[i] \in Recorded \cup {NULL}
        BY <3>1, <3>2, <3>3, <3>6, <1>7 DEF Visited
      <4> QED BY <4>1, <2>2, <3>2, <1>4
    <3>7. CASE i = Top.at
      <4>1. heap[calls'[j].object].fields[i] = f
        BY <2>2, <3>2, <3>7, <1>4 DEF f
      <4>2. CASE has_been_freed(f)
        BY <4>1, <4>2 DEF has_been_freed
      <4>3. CASE ~has_been_freed(f)
        <5>1. DOMAIN calls' = 1 .. n + 1 /\ calls'[n + 1].object = f
          BY <4>3, <1>10
        <5>2. n + 1 \in DOMAIN calls'
          BY <5>1, <1>3
        <5> QED BY <4>1, <5>1, <5>2, <2>2
      <4> QED BY <4>2, <4>3
    <3> QED BY <3>5, <3>6, <3>7
  <2>3. CASE j \notin 1 .. n
    <3>1. /\ DOMAIN calls' = 1 .. n + 1 /\ calls'[n + 1] = [object |-> f, at |-> 1]
          /\ f \in live
      BY <2>3, <1>9, <1>10
    <3>2. j = n + 1
      BY <2>3, <3>1, <1>3
    <3>3. heap[f] \in Objects
      BY <3>1 DEF Inv, TypeOK, MemTypeOK
    <3>4. heap[f].fields \in Seq(Addresses \cup {NULL})
      BY <3>3, PartsAreAddresses
    <3>5. DOMAIN heap[f].fields = 1 .. Len(heap[f].fields) /\ Len(heap[f].fields) \in Nat
      BY <3>4, LenProperties
    <3>6. i \in DOMAIN heap[f].fields /\ i < 1
      BY <3>1, <3>2
    <3> QED BY <3>5, <3>6
  <2> QED BY <2>1, <2>2, <2>3
<1>14. ASSUME NEW r, Accounted(heap, live, Recorded \cup r \cup OnStack(calls))
       PROVE  Accounted(heap', live', Recorded' \cup r \cup OnStack(calls'))
  BY <1>1, <1>6, <1>12, <1>14 DEF Accounted
<1> QED BY <1>1, <1>13, <1>14 DEF LeakInv, Parsing, Releasing

\* The variable of the lines is all there is, and it is in the table.
LEMMA InitLeft == Init => LeakInv
<1> SUFFICES ASSUME Init PROVE LeakInv
  OBVIOUS
<1>1. PICK a \in Addresses :
          /\ heap = [b \in {a} |-> Object("variable", << >>)]
          /\ live = {a} /\ table = {a}
  BY DEF Init
<1>2. phase = "parse" /\ values = << >>
  BY DEF Init
<1>3. heap[a].kind = "variable" /\ heap[a].hidden = {} /\ DOMAIN heap = {a}
  BY <1>1 DEF Object
<1>4. Shapes(heap, live, values)
  BY <1>1, <1>2, <1>3 DEF Shapes
<1>5. Accounted(heap, live, Recorded \cup table \cup Range(values))
  BY <1>1 DEF Accounted
<1> QED BY <1>2, <1>4, <1>5 DEF LeakInv, Parsing, Releasing

LEMMA NextLeft == Inv /\ LeakInv /\ [Next]_vars => LeakInv'
<1> SUFFICES ASSUME Inv, LeakInv, [Next]_vars PROVE LeakInv'
  OBVIOUS
<1>1. ASSUME NEW form \in scale.forms, Production(form) PROVE LeakInv'
  <2>1. scale.forms \subseteq AllForms
    BY ScalesAssumption DEF Inv, TypeOK, Scale
  <2> QED BY <1>1, <2>1, ProductionLeft
<1>2. ASSUME NEW var \in Returnable, grammar_new_function(var) PROVE LeakInv'
  BY <1>2, FunctionLeft
<1>3. CASE grammar_program
  BY <1>3, ProgramLeft
<1>4. CASE ParseFails
  BY <1>4, EndLeft DEF ParseFails
<1>5. CASE free_main_function(program) /\ UNCHANGED parseVars
  BY <1>5, MainFunctionLeft
<1>6. CASE free_table(table) /\ UNCHANGED parseVars
  BY <1>6, TableLeft
<1>7. CASE Release /\ UNCHANGED parseVars
  BY <1>7, FieldLeft, ObjectLeft, TableNodeLeft, ListFreedLeft DEF Release
<1>8. CASE UNCHANGED vars
  BY <1>8 DEF LeakInv, Parsing, Releasing, Recorded, vars, memVars, parseVars
<1> QED BY <1>1, <1>2, <1>3, <1>4, <1>5, <1>6, <1>7, <1>8 DEF Next, Parse, free_program

LEMMA LeakInvariance == Spec => []LeakInv
<1>1. Init => LeakInv
  BY InitLeft
<1>2. Inv /\ LeakInv /\ [Next]_vars => LeakInv'
  BY NextLeft
<1> QED BY <1>1, <1>2, Invariance, PTL DEF Spec

---------------------------------------------------------------------------
(* The theorems. *)

\* The AST, the table and the memory keep their types; in particular a program
\* consists of objects of the kinds the release knows.
THEOREM SyntaxTreeTypeCorrect == Spec => []TypeOK
<1>1. Inv => TypeOK
  BY DEF Inv
<1> QED BY <1>1, Invariance, PTL

\* free_program looks only into objects that are allocated, and frees none
\* twice, although variables are shared and malloc hands out addresses again:
\* whoever is on the C stack has a higher rank than what is freed above it.
THEOREM ReleaseIsSafe == Spec => []OnlyLiveMemoryIsTouched
<1>1. Inv => OnlyLiveMemoryIsTouched
  <2> SUFFICES ASSUME Inv, NEW i \in DOMAIN calls PROVE calls[i].object \in live
    BY DEF OnlyLiveMemoryIsTouched
  <2>1. CASE Releasing
    BY <2>1, RootsHold DEF Releasing, Walked
  <2>2. CASE ~Releasing
    <3>1. calls = << >>
      BY <2>2 DEF Inv
    <3> QED BY <3>1
  <2> QED BY <2>1, <2>2
<1> QED BY <1>1, Invariance, PTL

\* The list of addresses never overflows its array and holds no address twice,
\* for every initial length and every growth.
THEOREM ListBounded == Spec => []RecordsFit
<1>1. Inv => RecordsFit
  <2> SUFFICES ASSUME Inv PROVE RecordsFit
    OBVIOUS
  <2> DEFINE s == free_addresses.array
             n == Len(s)
  <2>1. s \in Seq(Addresses) /\ Distinct(s) /\ n <= free_addresses.len
    BY DEF Inv, TypeOK, MemTypeOK, ListOK
  <2>2. n \in Nat /\ DOMAIN s = 1 .. n /\ s \in [1 .. n -> Addresses] /\ Range(s) = {s[i] : i \in 1 .. n}
    BY <2>1, LenProperties, RangeOf
  <2>3. IsFiniteSet(1 .. n) /\ Cardinality(1 .. n) = n
    BY <2>2, FS_Interval
  <2> HIDE DEF n
  <2>4. s \in Surjection(1 .. n, Range(s))
    <3>1. s \in [1 .. n -> Range(s)]
      BY <2>2
    <3> QED BY <3>1, <2>2 DEF Surjection
  <2>5. s \in Injection(1 .. n, Range(s))
    BY <2>1, <2>2, <2>4 DEF Injection, IsInjective, Surjection, Distinct
  <2> HIDE DEF s
  <2>6. Cardinality(Range(s)) = n
    BY <2>3, <2>4, <2>5, FS_Surjection
  <2> QED BY <2>1, <2>6 DEF RecordsFit, Recorded, s, n
<1> QED BY <1>1, Invariance, PTL

\* What is still allocated when the release of a complete program is through
\* had its address recorded, is hidden, or is pointed to by what is left: there
\* is no other way to lose memory.
THEOREM LeaksExplained == Spec => []LeaksAreExplained
<1>1. LeakInv => LeaksAreExplained
  <2> SUFFICES ASSUME LeakInv, Released, program # NULL, NEW o \in live
               PROVE  \/ o \in Recorded
                      \/ \E p \in DOMAIN heap :
                            \/ o \in heap[p].hidden
                            \/ p \in live /\ \E i \in DOMAIN heap[p].fields : heap[p].fields[i] = o
    BY DEF LeaksAreExplained
  <2>1. phase = "table" /\ todo = {} /\ OnStack(calls) = {}
    BY DEF Released, OnStack
  <2>2. o \in Recorded \/ PointedTo(heap, live, o)
    BY <2>1 DEF LeakInv, Accounted
  <2>3. CASE PointedTo(heap, live, o)
    BY <2>3 DEF PointedTo, Range
  <2> QED BY <2>2, <2>3
<1> QED BY <1>1, LeakInvariance, PTL
=============================================================================
