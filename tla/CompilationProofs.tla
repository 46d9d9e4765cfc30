------------------------- MODULE CompilationProofs -------------------------
(***************************************************************************)
(* Theorems about Compilation, for every program, hash function and block  *)
(* size: its type correctness, that num_dangling is exact, and that the    *)
(* loops of symbols.c over table_size stay inside the table; that, while   *)
(* the table has grown at most once, a name has one node per scope and an  *)
(* accepted program leaves no variable unbound; what a loop leaves of its  *)
(* variable; and that a program whose variables fit the first block binds  *)
(* and releases names as NameResolution says.                              *)
(***************************************************************************)
EXTENDS Compilation, SymbolTableProofs

\* The inductive invariant. TypeOK alone is not inductive: a loop binds the
\* variable of a node, which must be allocated, and decrements num_dangling,
\* which must not be 0; growth needs the load to be below the threshold.
Inv ==
    /\ TypeOK
    /\ TableOK(tab, DOMAIN types)
    /\ IsFiniteSet(DOMAIN types)

---------------------------------------------------------------------------
(* The helpers. *)

\* What the next state must satisfy for Inv to hold in it.
LEMMA InvNext ==
    ASSUME TableOK(tab', DOMAIN types'), IsFiniteSet(DOMAIN types'),
           DOMAIN types' \subseteq Variable,
           types' \in [DOMAIN types' -> Types],
           phase' \in Phases, open' \in Seq(Frame), pending' \in BOOLEAN,
           params' \in Seq(DOMAIN types'),
           loops' \in Seq(DOMAIN types' \cup {NULL}),
           state' \in [succeed : BOOLEAN, result : 0 .. 3, syntax_error : BOOLEAN],
           exit' \in Exits \cup {Running}
    PROVE  Inv'
<1>1. Fields(tab', Variable)
  BY FieldsMonotonic DEF TableOK
<1>2. TableTypeOK(tab')
  BY <1>1 DEF Fields, TableTypeOK, Node, NodeOver
<1> QED
  BY <1>2 DEF Inv, TypeOK

LEMMA NewIsVariable ==
    ASSUME Inv, NEW name \in Names
    PROVE  New(name) \in Variable /\ New(name).name = name
<1>1. {v \in DOMAIN types : v.name = name} \in SUBSET DOMAIN types
  OBVIOUS
<1>2. Cardinality({v \in DOMAIN types : v.name = name}) \in Nat
  BY <1>1, FS_Subset, FS_CardinalityType DEF Inv
<1> QED
  BY <1>2 DEF New, Variable

\* A call that resolves or inserts a name keeps the table invariant.
LEMMA CreateDanglingOK ==
    ASSUME Inv, NEW name \in Names
    PROVE  LET r == lookup_variable_create_dangling(name)
           IN  /\ r.var \in Variable
               /\ TableOK(r.tab, DOMAIN types \cup {r.var})
<1> DEFINE r == lookup_variable_create_dangling(name)
           V == DOMAIN types
<1>1. V \subseteq Variable /\ Fields(tab, V)
  BY DEF Inv, TypeOK, TableOK
<1>2. CASE Resolve(name) # NULL
  <2>1. Resolve(name) \in V
    BY <1>1, <1>2, LookupVariable DEF Resolve
  <2>2. r.var = Resolve(name) /\ r.tab = tab
    BY <1>2 DEF lookup_variable_create_dangling
  <2>3. V \cup {r.var} = V
    BY <2>1, <2>2
  <2> QED BY <1>1, <2>1, <2>2, <2>3 DEF Inv
<1>3. CASE Resolve(name) = NULL
  <2> DEFINE v == New(name)
             W == V \cup {v}
             q == insert_dangling_variable(tab, v)
  <2>1. v \in Variable /\ W \subseteq Variable /\ V \subseteq W /\ v \in W
    BY <1>1, NewIsVariable
  <2> HIDE DEF v
  <2>2. TableOK(tab, W)
    BY <2>1, FieldsMonotonic DEF Inv, TableOK
  <2> HIDE DEF W
  <2>3. TableOK(q.tab, W) /\ q = [tab |-> q.tab, status |-> q.status]
    BY <2>1, <2>2, InsertDanglingOK
  <2>4. r = [var |-> v, tab |-> q.tab, status |-> q.status]
    BY <1>3 DEF lookup_variable_create_dangling, v
  <2> HIDE DEF q
  <2>5. r.var = v /\ r.tab = q.tab
    BY <2>3, <2>4
  <2> QED BY <2>1, <2>3, <2>5 DEF W
<1> QED
  BY <1>2, <1>3

LEMMA DeclareOK ==
    ASSUME Inv, NEW name \in Names
    PROVE  LET r == Declare(name)
           IN  /\ r.var \in Variable
               /\ TableOK(r.tab, DOMAIN types \cup {r.var})
<1> DEFINE r == Declare(name)
           V == DOMAIN types
           v == New(name)
           W == V \cup {v}
           q == insert_variable(tab, v)
<1>1. V \subseteq Variable /\ v \in Variable /\ W \subseteq Variable
      /\ V \subseteq W /\ v \in W
  BY NewIsVariable DEF Inv, TypeOK
<1>2. r = [var |-> v, tab |-> q.tab, status |-> q.status]
  BY DEF Declare
<1> HIDE DEF v
<1>3. TableOK(tab, W)
  BY <1>1, FieldsMonotonic DEF Inv, TableOK
<1> HIDE DEF W
<1>4. TableOK(q.tab, W) /\ q = [tab |-> q.tab, status |-> q.status]
  BY <1>1, <1>3, InsertVariableOK
<1> HIDE DEF q, r
<1>5. r.var = v /\ r.tab = q.tab
  BY <1>2, <1>4
<1> QED
  BY <1>1, <1>4, <1>5 DEF W, r

\* Going on after such a call keeps what Inv says of the table, the variables
\* and the process, and leaves the variables of the AST allocated.
LEMMA ContinueOK ==
    ASSUME Inv, NEW r, r.var \in Variable,
           TableOK(r.tab, DOMAIN types \cup {r.var}),
           NEW type \in Types, Continue(r, type), exit = Running
    PROVE  /\ TableOK(tab', DOMAIN types')
           /\ IsFiniteSet(DOMAIN types')
           /\ DOMAIN types \subseteq DOMAIN types'
           /\ DOMAIN types' \subseteq Variable
           /\ types' \in [DOMAIN types' -> Types]
           /\ exit' \in Exits \cup {Running}
           /\ exit' = Running => r.var \in DOMAIN types'
<1> DEFINE V == DOMAIN types
<1>1. /\ V \subseteq Variable /\ types \in [V -> Types] /\ IsFiniteSet(V)
      /\ TableOK(tab, V)
  BY DEF Inv, TypeOK
<1>2. CASE /\ r.status = "MULTIPLE_DECLARATION"
           /\ Exit(1, "multiple_declaration")
           /\ UNCHANGED <<tab, types>>
  <2>1. exit' \in Exits /\ exit' # Running
    BY <1>2 DEF Exit, Exits, Running
  <2> QED BY <1>1, <1>2, <2>1
<1>3. CASE /\ r.status \in {"SUCCESS", "NULL_DEREFERENCE"}
           /\ tab' = r.tab
           /\ types' = [v \in DOMAIN types \cup {r.var} |->
                           IF v \in DOMAIN types THEN types[v] ELSE type]
           /\ exit' = IF r.status = "SUCCESS" THEN exit
                      ELSE [code |-> 139, by |-> "null_node"]
  <2>1. exit' \in Exits \cup {Running}
    BY <1>3 DEF Exits
  <2>2. DOMAIN types' = V \cup {r.var}
    BY <1>3 
  <2>3. types' \in [V \cup {r.var} -> Types]
    BY <1>1, <1>3 
  <2>4. IsFiniteSet(V \cup {r.var})
    BY <1>1, FS_AddElement
  <2> QED BY <1>1, <1>3, <2>1, <2>2, <2>3, <2>4
<1> QED
  BY <1>2, <1>3 DEF Continue

\* The loop of grammar_new_function over the arguments goes from a table of G[0]
\* to one of G[i] after i of them. The recursive function exists, and each of
\* its tables is in its set, because a set of naturals that has no least element
\* is empty: no k is the first at which that fails.
LEMMA AssignScopesInduction ==
    ASSUME NEW G, NEW t \in G[0], NEW vs, Len(vs) \in Nat,
           \A i \in 1 .. Len(vs) : \A u \in G[i - 1] :
              assign_scope_to_dangling_variable(u, vs[i]) \in G[i]
    PROVE  AssignScopes(t, vs) \in G[Len(vs)]
<1> DEFINE n == Len(vs)
           A(u, i) == assign_scope_to_dangling_variable(u, vs[i])
           IsAfter(f, k) ==
              f = [i \in 0 .. k |-> IF i = 0 THEN t ELSE A(f[i - 1], i)]
<1>1. n \in Nat /\ \A i \in 1 .. n : \A u \in G[i - 1] : A(u, i) \in G[i]
  OBVIOUS
<1> HIDE DEF A
<1>2. \A k \in 0 .. n : \E f : IsAfter(f, k)
  <2> DEFINE Bad == {k \in 0 .. n : ~ \E f : IsAfter(f, k)}
  <2> SUFFICES ASSUME Bad # {} PROVE FALSE
    OBVIOUS
  <2> DEFINE k == Min(Bad)
  <2>1. k \in Bad /\ \A j \in Bad : k <= j
    <3>1. Bad \in SUBSET Nat
      BY <1>1
    <3> HIDE DEF Bad
    <3> QED BY <3>1, MinIsLeast
  <2> HIDE DEF k
  <2>2. CASE k = 0
    <3>1. IsAfter([i \in 0 .. 0 |-> t], 0)
      OBVIOUS
    <3> QED BY <2>1, <2>2, <3>1
  <2>3. CASE k # 0
    <3>1. k - 1 \in 0 .. n /\ k \in 1 .. n /\ k - 1 \notin Bad
      <4>1. k \in 0 .. n
        BY <2>1
      <4>2. k - 1 \in 0 .. n /\ k \in 1 .. n /\ ~(k <= k - 1)
        BY <1>1, <2>3, <4>1
      <4> HIDE DEF Bad
      <4> QED BY <2>1, <4>2
    <3>2. PICK f : IsAfter(f, k - 1)
      BY <3>1
    <3> DEFINE g == [i \in 0 .. k |-> IF i = k THEN A(f[k - 1], k) ELSE f[i]]
               h == [i \in 0 .. k |-> IF i = 0 THEN t ELSE A(g[i - 1], i)]
    <3>3. \A i \in 0 .. k : g[i] = h[i]
      <4> TAKE i \in 0 .. k
      <4>1. \A j \in 0 .. k - 1 : g[j] = f[j]
        BY <3>1
      <4>2. CASE i = k
        <5>1. k - 1 \in 0 .. k - 1 /\ k # 0
          BY <3>1
        <5>2. h[k] = A(g[k - 1], k)
          BY <3>1
        <5>3. g[k] = A(f[k - 1], k)
          BY <3>1
        <5> HIDE DEF g, h
        <5> QED BY <4>1, <4>2, <5>1, <5>2, <5>3
      <4>3. CASE i # k
        <5>1. i \in 0 .. k - 1 /\ (i # 0 => i - 1 \in 0 .. k - 1)
          BY <3>1, <4>3
        <5>2. f[i] = IF i = 0 THEN t ELSE A(f[i - 1], i)
          BY <3>2, <5>1
        <5>3. h[i] = IF i = 0 THEN t ELSE A(g[i - 1], i)
          OBVIOUS
        <5> HIDE DEF g, h
        <5> QED BY <4>1, <5>1, <5>2, <5>3
      <4> QED BY <4>2, <4>3
    <3>4. g = h
      <4>1. DOMAIN g = 0 .. k /\ DOMAIN h = 0 .. k
            /\ g = [i \in 0 .. k |-> g[i]] /\ h = [i \in 0 .. k |-> h[i]]
        OBVIOUS
      <4> HIDE DEF g, h
      <4> QED BY <3>3, <4>1
    <3>5. IsAfter(g, k)
      BY <3>4
    <3> QED BY <2>1, <3>5
  <2> QED BY <2>2, <2>3
<1>3. ASSUME NEW f, IsAfter(f, n)
      PROVE  \A i \in 0 .. n : f[i] \in G[i]
  <2> DEFINE Bad == {k \in 0 .. n : f[k] \notin G[k]}
  <2> SUFFICES ASSUME Bad # {} PROVE FALSE
    OBVIOUS
  <2> DEFINE k == Min(Bad)
  <2>1. k \in Bad /\ \A j \in Bad : k <= j
    <3>1. Bad \in SUBSET Nat
      BY <1>1
    <3> HIDE DEF Bad
    <3> QED BY <3>1, MinIsLeast
  <2> HIDE DEF k
  <2>2. f[k] = IF k = 0 THEN t ELSE A(f[k - 1], k)
    BY <1>3, <2>1
  <2>3. CASE k = 0
    BY <2>1, <2>2, <2>3
  <2>4. CASE k # 0
    <3>1. k - 1 \in 0 .. n /\ k \in 1 .. n /\ k - 1 \notin Bad
      <4>1. k \in 0 .. n
        BY <2>1
      <4>2. k - 1 \in 0 .. n /\ k \in 1 .. n /\ ~(k <= k - 1)
        BY <1>1, <2>4, <4>1
      <4> HIDE DEF Bad
      <4> QED BY <2>1, <4>2
    <3>2. f[k - 1] \in G[k - 1]
      BY <3>1
    <3>3. A(f[k - 1], k) \in G[k]
      BY <1>1, <3>1, <3>2
    <3> QED BY <2>1, <2>2, <2>4, <3>3
  <2> QED BY <2>3, <2>4
<1>4. AssignScopes(t, vs) = (CHOOSE f : IsAfter(f, n))[n]
  BY DEF AssignScopes, A
<1>5. n \in 0 .. n
  BY <1>1
<1>6. IsAfter(CHOOSE f : IsAfter(f, n), n)
  <2> HIDE DEF IsAfter
  <2> QED BY <1>2, <1>5
<1> QED
  BY <1>3, <1>4, <1>5, <1>6

LEMMA AssignScopesOK ==
    ASSUME NEW V, V \subseteq Variable, NEW t, TableOK(t, V), NEW vs \in Seq(V)
    PROVE  TableOK(AssignScopes(t, vs), V)
<1> DEFINE G == {u \in Tables(V) : TableOK(u, V)}
<1>1. Len(vs) \in Nat /\ \A i \in 1 .. Len(vs) : vs[i] \in V
  BY LenProperties, ElementOfSeq
<1>2. \A u : TableOK(u, V) <=> u \in G
  BY FieldsInTables DEF TableOK
<1> DEFINE H == [i \in 0 .. Len(vs) |-> G]
<1>3. \A i \in 1 .. Len(vs) : \A u \in H[i - 1] :
         assign_scope_to_dangling_variable(u, vs[i]) \in H[i]
  <2>1. \A i \in 1 .. Len(vs) : H[i - 1] = G /\ H[i] = G
    BY <1>1
  <2> HIDE DEF G, H
  <2> QED BY <1>1, <1>2, <2>1, AssignScopeOK
<1>4. H[0] = G /\ H[Len(vs)] = G
  BY <1>1
<1> HIDE DEF G, H
<1>5. AssignScopes(t, vs) \in G
  BY <1>1, <1>2, <1>3, <1>4, AssignScopesInduction
<1> QED
  BY <1>2, <1>5

---------------------------------------------------------------------------
(* One lemma per action, or per group of actions that change the same part. *)

States == [succeed : BOOLEAN, result : 0 .. 3, syntax_error : BOOLEAN]

LEMMA InitOK == Init => Inv
<1> SUFFICES ASSUME Init PROVE Inv
  OBVIOUS
<1> DEFINE V == [name : StdFunctions, id : {0}]
<1>1. DOMAIN types = V /\ types \in [V -> Types]
  BY DEF Init, Types
<1>2. V \subseteq Variable
  BY NamesAssumption DEF Variable
<1>3. TableOK(tab, V) /\ IsFiniteSet(V)
  BY InitializeTableOK, StdFunctionsFinite DEF Init
<1> HIDE DEF V
<1>4. TableTypeOK(tab)
  <2>1. Fields(tab, Variable)
    BY <1>2, <1>3, FieldsMonotonic DEF TableOK
  <2> QED BY <2>1 DEF Fields, TableTypeOK, Node, NodeOver
<1>5. /\ phase \in Phases /\ pending \in BOOLEAN /\ exit \in Exits \cup {Running}
      /\ state \in States
  <2>1. phase \in Phases /\ pending \in BOOLEAN
    BY DEF Init, Phases
  <2>2. exit \in Exits \cup {Running}
    BY DEF Init
  <2>3. 0 \in 0 .. 3 /\ FALSE \in BOOLEAN
    OBVIOUS
  <2>4. state \in States
    BY <2>3 DEF Init, States
  <2> QED BY <2>1, <2>2, <2>4
<1>6. /\ open \in Seq(Frame) /\ params \in Seq(V)
      /\ loops \in Seq(V \cup {NULL})
  BY EmptySeq DEF Init
<1>7. TypeOK
  BY <1>1, <1>2, <1>4, <1>5, <1>6 DEF TypeOK, States
<1> QED
  BY <1>1, <1>3, <1>7 DEF Inv

\* The sequences of the AST stay well typed when more variables are allocated.
LEMMA SequencesOK ==
    ASSUME Inv, DOMAIN types \subseteq DOMAIN types'
    PROVE  /\ params \in Seq(DOMAIN types')
           /\ loops \in Seq(DOMAIN types' \cup {NULL})
<1>1. params \in Seq(DOMAIN types) /\ loops \in Seq(DOMAIN types \cup {NULL})
  BY DEF Inv, TypeOK
<1>2. params \in Seq(DOMAIN types')
  BY <1>1, SeqMonotonic
<1>3. DOMAIN types \cup {NULL} \subseteq DOMAIN types' \cup {NULL}
  OBVIOUS
<1> QED
  BY <1>1, <1>2, <1>3, SeqMonotonic

\* An expression that resolves or declares a name.
LEMMA ReadOK ==
    ASSUME Inv, NEW r, r.var \in Variable,
           TableOK(r.tab, DOMAIN types \cup {r.var}), NEW type \in Types,
           exit = Running, Continue(r, type), ExpressionRead, state' \in States
    PROVE  Inv'
<1>1. /\ TableOK(tab', DOMAIN types')
      /\ IsFiniteSet(DOMAIN types')
      /\ DOMAIN types \subseteq DOMAIN types'
      /\ DOMAIN types' \subseteq Variable
      /\ types' \in [DOMAIN types' -> Types]
      /\ exit' \in Exits \cup {Running}
  BY ContinueOK
<1>2. params \in Seq(DOMAIN types') /\ loops \in Seq(DOMAIN types' \cup {NULL})
  BY <1>1, SequencesOK
<1>3. /\ phase' \in Phases /\ open' \in Seq(Frame) /\ pending' \in BOOLEAN
      /\ params' = params /\ loops' = loops
  BY DEF ExpressionRead, Inv, TypeOK
<1> QED
  BY <1>1, <1>2, <1>3, InvNext DEF States

\* A step that leaves the table and the variables alone.
LEMMA FrameOK ==
    ASSUME Inv, UNCHANGED <<tab, types, params, loops>>,
           phase' \in Phases, open' \in Seq(Frame), pending' \in BOOLEAN,
           state' \in States, exit' \in Exits \cup {Running}
    PROVE  Inv'
<1>1. /\ TableOK(tab', DOMAIN types') /\ IsFiniteSet(DOMAIN types')
      /\ DOMAIN types' \subseteq Variable /\ types' \in [DOMAIN types' -> Types]
      /\ params' \in Seq(DOMAIN types') /\ loops' \in Seq(DOMAIN types' \cup {NULL})
  BY DEF Inv, TypeOK
<1> QED
  BY <1>1, InvNext DEF States

LEMMA AbortOK ==
    ASSUME Inv, NEW by \in {"variable_not_found", "function_not_found"}, Abort(by)
    PROVE  Inv'
<1>1. exit' \in Exits
  BY DEF Abort, Exit, Exits
<1> QED
  BY <1>1, FrameOK DEF Abort, Inv, TypeOK, States

LEMMA ArgsOK ==
    ASSUME Inv, NEW name \in Identifiers, grammar_concat_list_args_with_id(name)
    PROVE  Inv'
<1> DEFINE r == lookup_variable_create_dangling(name)
<1>1. r.var \in Variable /\ TableOK(r.tab, DOMAIN types \cup {r.var})
  BY CreateDanglingOK, IdentifiersAssumption
<1>2. /\ exit = Running /\ Continue(r, "UNKNOWN_TYPE")
      /\ params' = IF exit' = Running THEN Append(params, r.var) ELSE params
      /\ UNCHANGED <<phase, open, pending, loops, state>>
  BY DEF grammar_concat_list_args_with_id, Parsing
<1> HIDE DEF r
<1>3. "UNKNOWN_TYPE" \in Types
  BY DEF Types
<1>4. /\ TableOK(tab', DOMAIN types')
      /\ IsFiniteSet(DOMAIN types')
      /\ DOMAIN types \subseteq DOMAIN types'
      /\ DOMAIN types' \subseteq Variable
      /\ types' \in [DOMAIN types' -> Types]
      /\ exit' \in Exits \cup {Running}
      /\ exit' = Running => r.var \in DOMAIN types'
  BY <1>1, <1>2, <1>3, ContinueOK
<1>5. params \in Seq(DOMAIN types') /\ loops \in Seq(DOMAIN types' \cup {NULL})
  BY <1>4, SequencesOK
<1>6. params' \in Seq(DOMAIN types')
  BY <1>2, <1>4, <1>5, AppendProperties
<1>7. /\ phase' \in Phases /\ open' \in Seq(Frame) /\ pending' \in BOOLEAN
      /\ state' \in States /\ loops' = loops
  BY <1>2 DEF Inv, TypeOK, States
<1> QED
  BY <1>4, <1>5, <1>6, <1>7, InvNext DEF States

\* Popping a stack leaves a stack.
LEMMA FrontIsSeq ==
    ASSUME NEW S, NEW seq \in Seq(S), seq # << >>
    PROVE  Front(seq) \in Seq(S)
<1>1. Len(seq) \in Nat /\ \A i \in 1 .. Len(seq) : seq[i] \in S
  BY LenProperties, ElementOfSeq
<1>2. \A i \in 1 .. Len(seq) - 1 : seq[i] \in S
  BY <1>1
<1> QED
  BY <1>1, <1>2, SubSeqProperties DEF Front

\* The expressions: every one of them aborts or goes on with what it read.
LEMMA MentionOK ==
    ASSUME Inv, NEW name \in Identifiers,
           \/ grammar_expression_type_from_id(name)
           \/ \E function \in Identifiers : grammar_function_call_from_id(name, function)
           \/ \E to \in Identifiers : grammar_new_assignment_from_id(name, to)
    PROVE  Inv'
<1> DEFINE r == lookup_variable_create_dangling(name)
<1>1. r.var \in Variable /\ TableOK(r.tab, DOMAIN types \cup {r.var})
  BY CreateDanglingOK, IdentifiersAssumption
<1>2. "UNKNOWN_TYPE" \in Types /\ state \in States
  BY DEF Types, Inv, TypeOK, States
<1>3. \/ Abort("function_not_found")
      \/ Abort("variable_not_found")
      \/ /\ exit = Running /\ Continue(r, "UNKNOWN_TYPE")
         /\ ExpressionRead /\ UNCHANGED state
  BY DEF grammar_expression_type_from_id, grammar_function_call_from_id,
         grammar_new_assignment_from_id, Parsing
<1> HIDE DEF r
<1>4. CASE Abort("function_not_found") \/ Abort("variable_not_found")
  BY <1>4, AbortOK
<1>5. CASE /\ exit = Running /\ Continue(r, "UNKNOWN_TYPE")
           /\ ExpressionRead /\ UNCHANGED state
  BY <1>1, <1>2, <1>5, ReadOK
<1> QED
  BY <1>3, <1>4, <1>5

LEMMA DeclarationOK ==
    ASSUME Inv, NEW name \in Identifiers,
           \/ \E s \in Separators : grammar_new_declaration_file_node(name, s)
           \/ grammar_new_variable(name)
    PROVE  Inv'
<1> DEFINE r == Declare(name)
<1>1. r.var \in Variable /\ TableOK(r.tab, DOMAIN types \cup {r.var})
  BY DeclareOK, IdentifiersAssumption
<1>2. /\ "FILE_PATH_TYPE" \in Types /\ "CONSTANT_TYPE" \in Types
      /\ state \in States
  BY DEF Types, Inv, TypeOK, States
<1>3. CASE \E s \in Separators : grammar_new_declaration_file_node(name, s)
  <2>1. PICK s \in Separators :
           /\ exit = Running /\ Continue(r, "FILE_PATH_TYPE") /\ ExpressionRead
           /\ state' = [state EXCEPT !.syntax_error =
                          @ \/ (exit' = Running /\ s = "invalid")]
    BY <1>3 DEF grammar_new_declaration_file_node, Parsing
  <2> DEFINE e == state.syntax_error \/ (exit' = Running /\ s = "invalid")
  <2>2. e \in BOOLEAN
    BY <1>2 DEF States
  <2>3. state' = [state EXCEPT !.syntax_error = e]
    BY <2>1
  <2> HIDE DEF e, r
  <2>4. state' \in States
    BY <1>2, <2>2, <2>3 DEF States
  <2> QED BY <1>1, <1>2, <2>1, <2>4, ReadOK
<1>4. CASE grammar_new_variable(name)
  <2>1. /\ exit = Running /\ Continue(r, "CONSTANT_TYPE") /\ ExpressionRead
        /\ state' = state
    BY <1>4 DEF grammar_new_variable, Parsing
  <2> HIDE DEF r
  <2> QED BY <1>1, <1>2, <2>1, ReadOK
<1> QED
  BY <1>3, <1>4

\* The steps that do not change the table.
LEMMA NoTableOK ==
    ASSUME Inv, NEW name \in Identifiers,
           \/ grammar_function_call(name)
           \/ DereferenceSeparators(name)
           \/ grammar_new_assignment_expression(name)
           \/ grammar_using_file(name)
           \/ grammar_new_return_node(name)
    PROVE  Inv'
<1>1. /\ phase \in Phases /\ open \in Seq(Frame) /\ pending \in BOOLEAN
      /\ state \in States /\ exit \in Exits \cup {Running}
  BY DEF Inv, TypeOK, States
<1>2. CASE grammar_function_call(name)
  <2>1. \/ Abort("function_not_found")
        \/ UNCHANGED <<tab, types, state, exit>> /\ ExpressionRead
    BY <1>2 DEF grammar_function_call
  <2> QED BY <1>1, <2>1, AbortOK, FrameOK DEF ExpressionRead
<1>3. CASE DereferenceSeparators(name)
  <2>1. exit' \in Exits
    BY <1>3 DEF DereferenceSeparators, Exit, Exits
  <2> QED BY <1>1, <1>3, <2>1, FrameOK DEF DereferenceSeparators
<1>4. CASE grammar_new_assignment_expression(name)
  <2>1. \/ Abort("variable_not_found")
        \/ UNCHANGED <<tab, types, state, exit>> /\ ExpressionRead
    BY <1>4 DEF grammar_new_assignment_expression
  <2> QED BY <1>1, <2>1, AbortOK, FrameOK DEF ExpressionRead
<1>5. CASE grammar_using_file(name)
  <2>1. \/ Abort("variable_not_found")
        \/ /\ open # << >> /\ open' = Front(open)
           /\ UNCHANGED <<tab, types, phase, pending, params, loops, state, exit>>
    BY <1>5 DEF grammar_using_file, Closing
  <2>2. open # << >> => Front(open) \in Seq(Frame)
    BY <1>1, FrontIsSeq
  <2> QED BY <1>1, <2>1, <2>2, AbortOK, FrameOK
<1>6. CASE grammar_new_return_node(name)
  <2>1. \/ Abort("variable_not_found")
        \/ /\ phase' = "return"
           /\ UNCHANGED <<tab, types, open, pending, params, loops, state, exit>>
    BY <1>6 DEF grammar_new_return_node
  <2>2. "return" \in Phases
    BY DEF Phases
  <2> QED BY <1>1, <2>1, <2>2, AbortOK, FrameOK
<1> QED
  BY <1>2, <1>3, <1>4, <1>5, <1>6

\* The steps of the parser around the body.
LEMMA ParserOK ==
    ASSUME Inv,
           \/ CloseParameters
           \/ \E name \in Identifiers : \E form \in {"in", "with"} : Open(form, name)
           \/ ShiftDo
           \/ ReturnNothing
           \/ grammar_program
           \/ Finish
           \/ ParseFails
    PROVE  Inv'
<1>1. /\ phase \in Phases /\ open \in Seq(Frame) /\ pending \in BOOLEAN
      /\ state \in States /\ exit \in Exits \cup {Running}
  BY DEF Inv, TypeOK, States
<1>2. CASE CloseParameters
  BY <1>1, <1>2, FrameOK DEF CloseParameters, Phases
<1>3. CASE \E name \in Identifiers : \E form \in {"in", "with"} : Open(form, name)
  <2>1. PICK name \in Identifiers, form \in {"in", "with"} : Open(form, name)
    BY <1>3
  <2>2. [form |-> form, id |-> name] \in Frame
    BY DEF Frame
  <2>3. open' \in Seq(Frame)
    BY <1>1, <2>1, <2>2, AppendProperties DEF Open
  <2> QED BY <1>1, <2>1, <2>3, FrameOK DEF Open
<1>4. CASE ShiftDo
  <2> DEFINE n == Len(open)
  <2>1. n \in Nat /\ n # 0
    BY <1>1, <1>4, LenProperties, EmptySeq DEF ShiftDo
  <2>2. open[n] \in Frame
    BY <1>1, <2>1, ElementOfSeq
  <2>3. [open[n] EXCEPT !.form = "do"] \in Frame
    BY <2>2 DEF Frame
  <2>4. open' = [open EXCEPT ![n] = [open[n] EXCEPT !.form = "do"]]
    BY <1>4 DEF ShiftDo
  <2>5. open' \in Seq(Frame)
    BY <1>1, <2>1, <2>3, <2>4, ExceptSeq
  <2> QED BY <1>1, <1>4, <2>5, FrameOK DEF ShiftDo
<1>5. CASE ReturnNothing
  BY <1>1, <1>5, FrameOK DEF ReturnNothing, Phases
<1>6. CASE grammar_program
  <2>1. {DANGLING_VARIABLES, SYNTAX_ERROR, 0} \subseteq 0 .. 3
    BY DEF DANGLING_VARIABLES, SYNTAX_ERROR
  <2>2. \E b \in BOOLEAN, n \in 0 .. 3 :
           state' = [state EXCEPT !.succeed = b, !.result = n]
    BY <1>6, <2>1 DEF grammar_program
  <2>3. state' \in States
    BY <1>1, <2>2 DEF States
  <2> QED BY <1>1, <1>6, <2>3, FrameOK DEF grammar_program, Phases
<1>7. CASE Finish
  <2>1. exit' \in Exits
    BY <1>7 DEF Finish, Exit, Exits
  <2> QED BY <1>1, <1>7, <2>1, FrameOK DEF Finish
<1>8. CASE ParseFails
  <2>1. exit' \in Exits
    BY <1>8 DEF ParseFails, Exit, Exits
  <2> QED BY <1>1, <1>8, <2>1, FrameOK DEF ParseFails
<1> QED
  BY <1>2, <1>3, <1>4, <1>5, <1>6, <1>7, <1>8

\* A loop opens a scope, binds its variable there and closes the scope.
LEMMA LoopOK ==
    ASSUME Inv, NEW name \in Identifiers, grammar_new_loop(name)
    PROVE  Inv'
<1> DEFINE V == DOMAIN types
           var == lookup_dangling_variable(tab, name)
           inside == next_scope(tab)
           bound == assign_scope_to_dangling_variable(inside, var)
<1>1. /\ V \subseteq Variable /\ IsFiniteSet(V) /\ types \in [V -> Types]
      /\ TableOK(tab, V) /\ Fields(tab, V)
      /\ open \in Seq(Frame) /\ loops \in Seq(V \cup {NULL}) /\ params \in Seq(V)
      /\ phase \in Phases /\ pending \in BOOLEAN /\ state \in States
      /\ exit \in Exits \cup {Running}
  BY DEF Inv, TypeOK, TableOK, States
<1>2. var \in V \cup {NULL}
  BY <1>1, LookupVariable, IdentifiersAssumption
<1>3. TableOK(inside, V)
  BY <1>1, NextScopeOK
<1>4. TableOK(bound, V)
  BY <1>1, <1>2, <1>3, AssignScopeOK
<1>5. TableOK(prev_scope(bound), V)
  BY <1>4, PrevScopeOK
<1>6. /\ tab' = prev_scope(bound)
      /\ types' = IF var = NULL THEN types
                  ELSE [types EXCEPT ![var] = "LOOP_VARIABLE_TYPE"]
      /\ open # << >> /\ open' = Front(open)
      /\ loops' = Append(loops, var)
      /\ UNCHANGED <<phase, pending, params, state, exit>>
  BY DEF grammar_new_loop, Closing
<1> HIDE DEF bound, var
<1>7. DOMAIN types' = V /\ types' \in [V -> Types]
  BY <1>1, <1>2, <1>6 DEF Types
<1>8. open' \in Seq(Frame)
  BY <1>1, <1>6, FrontIsSeq
<1>9. loops' \in Seq(V \cup {NULL})
  BY <1>1, <1>2, <1>6, AppendProperties
<1> QED
  BY <1>1, <1>5, <1>6, <1>7, <1>8, <1>9, InvNext DEF States

LEMMA FunctionOK ==
    ASSUME Inv, grammar_new_function
    PROVE  Inv'
<1>1. TableOK(tab', DOMAIN types')
  BY AssignScopesOK DEF grammar_new_function, Inv, TypeOK
<1> QED
  BY <1>1, InvNext DEF grammar_new_function, Inv, TypeOK, Phases

LEMMA NextOK == Inv /\ [Next]_vars => Inv'
<1> SUFFICES ASSUME Inv, [Next]_vars PROVE Inv'
  OBVIOUS
<1>1. CASE UNCHANGED vars
  BY <1>1 DEF vars, Inv, TypeOK
<1>2. CASE Next
  <2>1. ASSUME NEW name \in Identifiers, grammar_concat_list_args_with_id(name)
        PROVE  Inv'
    BY <2>1, ArgsOK
  <2>2. ASSUME NEW name \in Identifiers, grammar_new_loop(name)
        PROVE  Inv'
    BY <2>2, LoopOK
  <2> QED
    BY <1>2, <2>1, <2>2, MentionOK, DeclarationOK, NoTableOK, ParserOK, FunctionOK
       DEF Next
<1> QED
  BY <1>1, <1>2

LEMMA SpecInv == Spec => []Inv
BY InitOK, NextOK, PTL DEF Spec

---------------------------------------------------------------------------
(* The invariant of names. *)

Early == phase \in {"args", "body", "return"}

Unknown == {v \in DOMAIN types : types[v] = "UNKNOWN_TYPE"}

HasParameterHash(v) == \E i \in DOMAIN params : Hash[params[i].name] = Hash[v.name]

\* The nodes of t, the types of their variables being T. The node of a loop
\* variable stays out of reach. A dangling node is one of a mention, but
\* a second growth may bring back a chain, and insert_dangling_variable then
\* marks the declaration it finds there.
NodesOK(t, T) ==
    /\ OneNodePerVariable(t)
    /\ Hashed(t)
    /\ \A n \in Nodes(t) :
          /\ n.scope >= SCOPE_DANGLING
          /\ T[n.var] = "LOOP_VARIABLE_TYPE" => n.scope > 0
          /\ t.blocks <= 2 /\ n.scope = SCOPE_DANGLING => T[n.var] = "UNKNOWN_TYPE"

\* calloc never returns the same variable twice.
IdsOK ==
    \A v \in DOMAIN types :
        v.id < Cardinality({w \in DOMAIN types : w.name = v.name})

LoopsOK ==
    /\ \A i \in DOMAIN loops : loops[i] # NULL => types[loops[i]] = "LOOP_VARIABLE_TYPE"
    /\ LoopsBindDistinctVariables

\* num_dangling is the number of mentions that nothing has bound; the end of
\* the function binds those that have the hash of a parameter.
CountOK ==
    tab.blocks <= 2 =>
        /\ Early /\ exit.by # "null_node" => tab.dangling = Cardinality(Unknown)
        /\ ~Early =>
              \E S \in SUBSET Unknown :
                 /\ tab.dangling = Cardinality(S)
                 /\ \A v \in Unknown \ S : HasParameterHash(v)

VerdictOK ==
    /\ state.succeed => phase = "program" /\ tab.dangling = 0 /\ ~state.syntax_error
    /\ exit.code = 0 => state.succeed

TableNames ==
    /\ tab.scope = 0
    /\ NodesOK(tab, types)
    /\ Early /\ tab.blocks <= 2 => OneDangling(tab) /\ DeclaredFirst(tab)

NameInv == TableNames /\ IdsOK /\ LoopsOK /\ CountOK /\ VerdictOK

---------------------------------------------------------------------------
(* Names and the nodes they resolve to. *)

LEMMA SameVariableSameNode ==
    ASSUME NEW t, OneNodePerVariable(t), NEW m \in Nodes(t), NEW n \in Nodes(t),
           m.var = n.var
    PROVE  m = n
<1>1. PICK b \in DOMAIN t.chains : \E i \in DOMAIN t.chains[b] : m = t.chains[b][i]
  BY NodesDef
<1>2. PICK i \in DOMAIN t.chains[b] : m = t.chains[b][i]
  BY <1>1
<1>3. PICK c \in DOMAIN t.chains : \E j \in DOMAIN t.chains[c] : n = t.chains[c][j]
  BY NodesDef
<1>4. PICK j \in DOMAIN t.chains[c] : n = t.chains[c][j]
  BY <1>3
<1> QED
  BY <1>2, <1>4 DEF OneNodePerVariable

LEMMA NodesFacts ==
    ASSUME Inv
    PROVE  /\ Fields(tab, DOMAIN types) /\ DOMAIN types \subseteq Variable
           /\ Nodes(tab) \subseteq NodeOver(DOMAIN types)
           /\ \A n \in Nodes(tab) : n.var \in DOMAIN types /\ n.scope \in Int
           /\ tab.blocks \in Nat \ {0} /\ tab.dangling \in Nat /\ tab.size \in Nat
<1>1. Fields(tab, DOMAIN types) /\ DOMAIN types \subseteq Variable
  BY DEF Inv, TypeOK, TableOK
<1>2. Nodes(tab) \subseteq NodeOver(DOMAIN types)
  BY <1>1, NodesType
<1> QED
  BY <1>1, <1>2 DEF Fields, NodeOver

LEMMA NewIsFresh ==
    ASSUME Inv, IdsOK, NEW name \in Names
    PROVE  New(name) \notin DOMAIN types /\ Fresh(tab, New(name))
<1>1. ASSUME New(name) \in DOMAIN types PROVE FALSE
  <2> DEFINE n == Cardinality({w \in DOMAIN types : w.name = name})
  <2>1. New(name).name = name /\ New(name).id = n
    BY DEF New
  <2>2. n < n
    BY <1>1, <2>1 DEF IdsOK
  <2>3. n \in Nat
    BY NewIsVariable, <2>1 DEF Variable
  <2> HIDE DEF n
  <2> QED BY <2>2, <2>3
<1> QED
  BY <1>1, NodesFacts DEF Fresh

\* The variables after an allocation.
LEMMA IdsNext ==
    ASSUME Inv, IdsOK, NEW name \in Names,
           DOMAIN types' = DOMAIN types \cup {New(name)}
    PROVE  IdsOK'
<1> DEFINE D == DOMAIN types
           v == New(name)
           Of(E, s) == {w \in E : w.name = s}
           n == Cardinality(Of(D, name))
<1>1. IsFiniteSet(D)
  BY DEF Inv
<1>2. \A s : IsFiniteSet(Of(D, s)) /\ Cardinality(Of(D, s)) \in Nat
  <2> TAKE s
  <2>1. Of(D, s) \in SUBSET D
    OBVIOUS
  <2> QED BY <1>1, <2>1, FS_Subset, FS_CardinalityType
<1>3. v.name = name /\ v.id = n /\ v \notin D
  BY NewIsFresh DEF New
<1> HIDE DEF v, n
<1>4. \A s : s # name => Of(D \cup {v}, s) = Of(D, s)
  BY <1>3
<1>5. Of(D \cup {v}, name) = Of(D, name) \cup {v}
  BY <1>3
<1>6. Cardinality(Of(D \cup {v}, name)) = n + 1
  <2>1. v \notin Of(D, name)
    BY <1>3
  <2> HIDE DEF Of
  <2> QED BY <1>2, <1>5, <2>1, FS_AddElement DEF n
<1>7. \A w \in D : w.id \in Nat
  BY DEF Inv, TypeOK, Variable
<1>8. n \in Nat
  BY <1>2 DEF n
<1>9. ASSUME NEW w \in D \cup {v}
      PROVE  w.id < Cardinality(Of(D \cup {v}, w.name))
  <2>1. CASE w = v
    <3> HIDE DEF Of
    <3> QED BY <1>3, <1>6, <1>8, <2>1
  <2>2. CASE w # v /\ w.name = name
    <3>1. w.id < Cardinality(Of(D, name)) /\ w \in D
      BY <1>9, <2>2 DEF IdsOK
    <3> HIDE DEF Of
    <3> QED BY <1>6, <1>7, <1>8, <2>2, <3>1 DEF n
  <2>3. CASE w # v /\ w.name # name
    <3>1. w.id < Cardinality(Of(D, w.name))
      BY <1>9, <2>3 DEF IdsOK
    <3> HIDE DEF Of
    <3> QED BY <1>4, <2>3, <3>1
  <2> QED BY <2>1, <2>2, <2>3
<1> QED
  BY <1>9 DEF IdsOK, v

\* What a name resolves to, the scope being 0.
LEMMA ResolveNull ==
    ASSUME Inv, tab.scope = 0, NEW name \in Names, Resolve(name) = NULL
    PROVE  NoNode(tab, name, 0) /\ NoNode(tab, name, SCOPE_DANGLING)
<1>1. Fields(tab, DOMAIN types) /\ DOMAIN types \subseteq Variable
  BY NodesFacts
<1>2. lookup_variable(tab, name) = NULL /\ lookup_dangling_variable(tab, name) = NULL
  BY DEF Resolve
<1>3. lookup_node_in_scope(tab, name, 0) = 0
      /\ lookup_node_in_scope(tab, name, SCOPE_DANGLING) = 0
  BY <1>1, <1>2, LookupAtZero
<1> QED
  BY <1>1, <1>3, LookupFails DEF NoNode

LEMMA ResolveNode ==
    ASSUME Inv, tab.scope = 0, NEW name \in Names, Resolve(name) # NULL
    PROVE  \E n \in Nodes(tab) : n.var = Resolve(name) /\ n.scope \in {0, SCOPE_DANGLING}
<1>1. Fields(tab, DOMAIN types) /\ DOMAIN types \subseteq Variable
  BY NodesFacts
<1>2. CASE lookup_variable(tab, name) # NULL
  <2>1. /\ lookup_node_in_scope(tab, name, 0) # 0
        /\ Resolve(name) = lookup_variable_in_scope(tab, name, 0)
    BY <1>1, <1>2, LookupAtZero DEF Resolve
  <2> QED BY <1>1, <2>1, LookupFinds
<1>3. CASE lookup_variable(tab, name) = NULL
  <2>1. /\ lookup_node_in_scope(tab, name, SCOPE_DANGLING) # 0
        /\ Resolve(name) = lookup_variable_in_scope(tab, name, SCOPE_DANGLING)
    BY <1>1, <1>3, LookupAtZero DEF Resolve, lookup_dangling_variable
  <2> QED BY <1>1, <2>1, LookupFinds
<1> QED
  BY <1>2, <1>3

---------------------------------------------------------------------------
(* The steps that NameInv holds after. *)

\* A step that leaves the table and the variables alone.
LEMMA FrameNames ==
    ASSUME TableNames, IdsOK, UNCHANGED <<tab, types>>, Early' => Early
    PROVE  TableNames' /\ IdsOK'
BY DEF TableNames, IdsOK

\* The new variable has type; the others keep theirs.
Extends(v, type) ==
    types' = [w \in DOMAIN types \cup {v} |-> IF w \in DOMAIN types THEN types[w] ELSE type]

LEMMA ExtendsOK ==
    ASSUME NEW v, v \notin DOMAIN types, NEW type, Extends(v, type)
    PROVE  /\ DOMAIN types' = DOMAIN types \cup {v}
           /\ \A w \in DOMAIN types : types'[w] = types[w]
           /\ types'[v] = type
BY DEF Extends

\* A mention.
LEMMA MentionNames ==
    ASSUME Inv, NameInv, exit = Running, Early, phase' = phase,
           NEW name \in Identifiers,
           Continue(lookup_variable_create_dangling(name), "UNKNOWN_TYPE")
    PROVE  /\ TableNames' /\ IdsOK'
           /\ tab'.blocks <= 2 /\ exit'.by # "null_node"
                 => tab'.dangling = Cardinality(Unknown')
           /\ DOMAIN types \subseteq DOMAIN types'
           /\ \A w \in DOMAIN types : types'[w] = types[w]
           /\ exit'.code # 0
<1> DEFINE r == lookup_variable_create_dangling(name)
           D == DOMAIN types
           v == New(name)
           q == insert_dangling_variable(tab, v)
<1>1. /\ name \in Names /\ tab.scope = 0 /\ Fields(tab, D) /\ D \subseteq Variable
      /\ tab.dangling \in Nat /\ tab.blocks \in Nat /\ IsFiniteSet(D)
      /\ TableOK(tab, D) /\ Cardinality(Unknown) \in Nat /\ IsFiniteSet(Unknown)
  <2>1. Unknown \in SUBSET D /\ IsFiniteSet(D)
    BY DEF Unknown, Inv
  <2>2. Cardinality(Unknown) \in Nat /\ IsFiniteSet(Unknown)
    BY <2>1, FS_Subset, FS_CardinalityType
  <2> QED BY <2>1, <2>2, IdentifiersAssumption, NodesFacts DEF NameInv, TableNames, Inv
<1>2. exit.by # "null_node" /\ exit.code # 0
  BY DEF Running
<1>3. CASE UNCHANGED <<tab, types>> /\ exit' \in {exit, [code |-> 1, by |-> "multiple_declaration"]}
  <2>1. exit'.code # 0 /\ exit'.by # "null_node"
    BY <1>2, <1>3
  <2>2. Unknown' = Unknown
    BY <1>3 DEF Unknown
  <2>3. tab.blocks <= 2 => tab.dangling = Cardinality(Unknown)
    BY <1>2 DEF NameInv, CountOK
  <2> QED BY <1>3, <2>1, <2>2, <2>3, FrameNames DEF NameInv, Early
<1>4. CASE Resolve(name) # NULL
  <2>1. r.var = Resolve(name) /\ r.tab = tab /\ r.status = "SUCCESS"
    BY <1>4 DEF lookup_variable_create_dangling
  <2>2. r.var \in D
    BY <1>1, <1>4, <2>1, LookupVariable DEF Resolve
  <2>3. types = [w \in D |-> types[w]]
    BY DEF Inv, TypeOK
  <2> HIDE DEF r
  <2>4. types' = [w \in D \cup {r.var} |-> IF w \in D THEN types[w] ELSE "UNKNOWN_TYPE"]
        /\ tab' = tab /\ exit' = exit
    BY <2>1 DEF Continue, r
  <2>5. D \cup {r.var} = D
    BY <2>2
  <2>6. types' = types
    BY <2>3, <2>4, <2>5
  <2> QED BY <1>3, <2>4, <2>6
<1>5. CASE Resolve(name) = NULL
  <2> DEFINE W == D \cup {v}
             node == NodeOf(v)
  <2>1. v \in Variable /\ v.name = name /\ v \notin D /\ Fresh(tab, v)
    BY <1>1, NewIsVariable, NewIsFresh DEF NameInv
  <2>2. NoNode(tab, name, 0) /\ NoNode(tab, name, SCOPE_DANGLING)
    BY <1>1, <1>5, ResolveNull
  <2>3. /\ OneNodePerVariable(tab) /\ Hashed(tab)
        /\ \A n \in Nodes(tab) :
              /\ n.scope >= SCOPE_DANGLING
              /\ types[n.var] = "LOOP_VARIABLE_TYPE" => n.scope > 0
              /\ tab.blocks <= 2 /\ n.scope = SCOPE_DANGLING => types[n.var] = "UNKNOWN_TYPE"
    BY DEF NameInv, TableNames, NodesOK
  <2>4. r.var = v /\ r.tab = q.tab /\ r.status = q.status
    BY <1>5 DEF lookup_variable_create_dangling
  <2> HIDE DEF r, v
  <2>5. v \in W /\ W \subseteq Variable /\ TableOK(tab, W)
    <3>1. v \in W /\ W \subseteq Variable /\ D \subseteq W
      BY <1>1, <2>1
    <3>2. Fields(tab, W)
      BY <1>1, <3>1, FieldsMonotonic
    <3> QED BY <1>1, <3>1, <3>2 DEF TableOK
  <2> HIDE DEF W
  <2>6. /\ q.status \in {"SUCCESS", "NULL_DEREFERENCE"}
        /\ q.tab.scope = 0
        /\ q.tab.blocks >= tab.blocks
        /\ q.status = "SUCCESS" => q.tab.dangling = tab.dangling + 1
        /\ \A n \in Nodes(q.tab) :
              \E m \in Nodes(tab) \cup {node} : n = m \/ (m.scope = 0 /\ n = Marked(m))
        /\ OneNodePerVariable(q.tab)
        /\ q.tab.blocks <= 2 =>
              /\ Nodes(q.tab) \subseteq Nodes(tab) \cup {node, Marked(node)}
              /\ OneDangling(tab) => OneDangling(q.tab)
              /\ DeclaredFirst(tab) => DeclaredFirst(q.tab)
    <3>1. NoNode(tab, v.name, 0) /\ NoNode(tab, v.name, SCOPE_DANGLING)
      BY <2>1, <2>2
    <3> QED BY <1>1, <2>1, <2>3, <2>5, <3>1, InsertDanglingNodes
  <2> HIDE DEF q
  <2>7. tab' = q.tab /\ Extends(v, "UNKNOWN_TYPE")
        /\ exit' = IF q.status = "SUCCESS" THEN exit ELSE [code |-> 139, by |-> "null_node"]
    <3>1. r.status # "MULTIPLE_DECLARATION"
      BY <2>4, <2>6
    <3> QED BY <2>4, <3>1 DEF Continue, Extends, r
  <2>8. /\ DOMAIN types' = D \cup {v}
        /\ \A w \in D : types'[w] = types[w]
        /\ types'[v] = "UNKNOWN_TYPE"
    BY <2>1, <2>7, ExtendsOK
  <2>9. node.var = v /\ node.scope = 0 /\ node.prehash = Hash[node.var.name]
        /\ Marked(node).var = v /\ Marked(node).scope = SCOPE_DANGLING
    BY DEF NodeOf, Marked
  <2>10. \A m \in Nodes(tab) : m.var \in D /\ m.scope \in Int /\ m \in NodeOver(D)
    BY NodesFacts
  <2>11. \A m \in Nodes(tab) : Marked(m).var = m.var /\ Marked(m).prehash = m.prehash
                              /\ Marked(m).scope = SCOPE_DANGLING
    BY <2>10 DEF NodeOver, Marked
  <2>12. Marked(node).prehash = node.prehash
    BY DEF NodeOf, Marked
  <2> HIDE DEF node
  <2>13. Hashed(q.tab)
    <3> SUFFICES ASSUME NEW n \in Nodes(q.tab) PROVE n.prehash = Hash[n.var.name]
      BY DEF Hashed
    <3>1. PICK m \in Nodes(tab) \cup {node} : n = m \/ (m.scope = 0 /\ n = Marked(m))
      BY <2>6
    <3>2. m.prehash = Hash[m.var.name]
      BY <2>3, <2>9 DEF Hashed
    <3> QED BY <2>9, <2>11, <2>12, <3>1, <3>2
  <2>14. ASSUME NEW n \in Nodes(q.tab)
         PROVE  /\ n.scope >= SCOPE_DANGLING
                /\ types'[n.var] = "LOOP_VARIABLE_TYPE" => n.scope > 0
    <3>1. PICK m \in Nodes(tab) \cup {node} : n = m \/ (m.scope = 0 /\ n = Marked(m))
      BY <2>6
    <3>2. CASE m = node
      BY <2>8, <2>9, <3>1, <3>2 DEF SCOPE_DANGLING
    <3>3. CASE m \in Nodes(tab)
      <4>1. types'[m.var] = types[m.var] /\ n.var = m.var
        BY <2>8, <2>10, <2>11, <3>1, <3>3
      <4>2. CASE n = m
        BY <2>3, <3>3, <4>1, <4>2
      <4>3. CASE m.scope = 0 /\ n = Marked(m)
        <5>1. types[m.var] # "LOOP_VARIABLE_TYPE"
          BY <2>3, <3>3, <4>3
        <5> QED BY <2>11, <3>3, <4>1, <4>3, <5>1 DEF SCOPE_DANGLING
      <4> QED BY <3>1, <4>2, <4>3
    <3> QED BY <3>2, <3>3
  <2>15. ASSUME NEW n \in Nodes(q.tab), q.tab.blocks <= 2, n.scope = SCOPE_DANGLING
         PROVE  types'[n.var] = "UNKNOWN_TYPE"
    <3>1. n \in Nodes(tab) \/ n = node \/ n = Marked(node)
      BY <2>6, <2>15
    <3>2. tab.blocks <= 2
      <4>1. q.tab.blocks \in Int
        <5>1. TableOK(q.tab, W)
          BY <2>5, InsertDanglingOK DEF q
        <5> QED BY <5>1 DEF TableOK, Fields
      <4> QED BY <1>1, <2>6, <2>15, <4>1
    <3> QED BY <2>3, <2>8, <2>9, <2>10, <2>15, <3>1, <3>2
  <2>16. NodesOK(tab', types')
    BY <2>6, <2>7, <2>13, <2>14, <2>15 DEF NodesOK
  <2>17. tab'.blocks <= 2 => tab.blocks <= 2
    <3>1. q.tab.blocks \in Int
      <4>1. TableOK(q.tab, W)
        BY <2>5, InsertDanglingOK DEF q
      <4> QED BY <4>1 DEF TableOK, Fields
    <3> QED BY <1>1, <2>6, <2>7, <3>1
  <2>18. TableNames'
    <3>1. tab'.blocks <= 2 => OneDangling(tab') /\ DeclaredFirst(tab')
      BY <2>6, <2>7, <2>17 DEF NameInv, TableNames
    <3> QED BY <2>6, <2>7, <2>16, <3>1 DEF TableNames
  <2>19. IdsOK'
    BY <1>1, <2>8, IdsNext DEF NameInv, v
  <2>20. Unknown' = Unknown \cup {v} /\ v \notin Unknown
    BY <2>1, <2>8 DEF Unknown
  <2>21. Cardinality(Unknown') = Cardinality(Unknown) + 1
    BY <1>1, <2>20, FS_AddElement
  <2>22. tab'.blocks <= 2 /\ exit'.by # "null_node" => tab'.dangling = Cardinality(Unknown')
    <3> SUFFICES ASSUME tab'.blocks <= 2, exit'.by # "null_node"
                 PROVE  tab'.dangling = Cardinality(Unknown')
      OBVIOUS
    <3>1. q.status = "SUCCESS"
      BY <2>7
    <3>2. tab.dangling = Cardinality(Unknown)
      BY <1>2, <2>17 DEF NameInv, CountOK
    <3> QED BY <2>6, <2>7, <2>21, <3>1, <3>2
  <2>23. exit'.code # 0
    BY <1>2, <2>7
  <2> QED BY <2>8, <2>18, <2>19, <2>22, <2>23
<1> QED
  BY <1>4, <1>5

\* A declaration.
LEMMA DeclareNames ==
    ASSUME Inv, NameInv, exit = Running, Early, phase' = phase,
           NEW name \in Identifiers, NEW type \in {"CONSTANT_TYPE", "FILE_PATH_TYPE"},
           Continue(Declare(name), type)
    PROVE  /\ TableNames' /\ IdsOK'
           /\ tab'.blocks <= 2 /\ exit'.by # "null_node"
                 => tab'.dangling = Cardinality(Unknown')
           /\ DOMAIN types \subseteq DOMAIN types'
           /\ \A w \in DOMAIN types : types'[w] = types[w]
           /\ exit'.code # 0
<1> DEFINE r == Declare(name)
           D == DOMAIN types
           v == New(name)
           q == insert_variable(tab, v)
           W == D \cup {v}
<1>1. /\ name \in Names /\ tab.scope = 0 /\ Fields(tab, D) /\ D \subseteq Variable
      /\ tab.blocks \in Nat /\ TableOK(tab, D)
  BY IdentifiersAssumption, NodesFacts DEF NameInv, TableNames, Inv
<1>2. exit.by # "null_node" /\ exit.code # 0
  BY DEF Running
<1>3. tab.blocks <= 2 => tab.dangling = Cardinality(Unknown)
  BY <1>2 DEF NameInv, CountOK
<1>4. r.var = v /\ r.tab = q.tab /\ r.status = q.status
  BY DEF Declare
<1>5. v \in Variable /\ v.name = name /\ v \notin D /\ Fresh(tab, v)
  BY <1>1, NewIsVariable, NewIsFresh DEF NameInv
<1>6. /\ OneNodePerVariable(tab) /\ Hashed(tab)
      /\ \A n \in Nodes(tab) :
            /\ n.scope >= SCOPE_DANGLING
            /\ types[n.var] = "LOOP_VARIABLE_TYPE" => n.scope > 0
            /\ tab.blocks <= 2 /\ n.scope = SCOPE_DANGLING => types[n.var] = "UNKNOWN_TYPE"
  BY DEF NameInv, TableNames, NodesOK
<1> HIDE DEF r, v
<1>7. v \in W /\ W \subseteq Variable /\ TableOK(tab, W)
  <2>1. v \in W /\ W \subseteq Variable /\ D \subseteq W
    BY <1>1, <1>5
  <2>2. Fields(tab, W)
    BY <1>1, <2>1, FieldsMonotonic
  <2> QED BY <1>1, <2>1, <2>2 DEF TableOK
<1> HIDE DEF W
<1>8. /\ q.tab.scope = 0
      /\ q.tab.dangling = tab.dangling
      /\ q.tab.blocks >= tab.blocks
      /\ Nodes(q.tab) \subseteq Nodes(tab) \cup {NodeOf(v)}
      /\ OneNodePerVariable(q.tab)
      /\ OneDangling(tab) => OneDangling(q.tab)
      /\ DeclaredFirst(tab) => DeclaredFirst(q.tab)
  BY <1>1, <1>5, <1>6, <1>7, InsertVariableNodes
<1>9. q.tab.blocks \in Nat
  <2>1. TableOK(q.tab, W)
    BY <1>7, InsertVariableOK
  <2> QED BY <2>1 DEF TableOK, Fields
<1> HIDE DEF q
<1>10. CASE UNCHANGED <<tab, types>> /\ exit' = [code |-> 1, by |-> "multiple_declaration"]
  <2>1. exit'.code # 0 /\ exit'.by # "null_node"
    BY <1>10
  <2>2. Unknown' = Unknown
    BY <1>10 DEF Unknown
  <2> QED BY <1>3, <1>10, <2>1, <2>2, FrameNames DEF NameInv, Early
<1>11. CASE /\ tab' = q.tab /\ Extends(v, type)
            /\ exit' \in {exit, [code |-> 139, by |-> "null_node"]}
  <2>1. /\ DOMAIN types' = D \cup {v}
        /\ \A w \in D : types'[w] = types[w]
        /\ types'[v] = type
    BY <1>5, <1>11, ExtendsOK
  <2>2. /\ NodeOf(v).var = v /\ NodeOf(v).scope = 0
        /\ NodeOf(v).prehash = Hash[NodeOf(v).var.name]
    BY DEF NodeOf
  <2>3. \A m \in Nodes(tab) : m.var \in D /\ m.scope \in Int
    BY NodesFacts
  <2>4. Hashed(tab')
    BY <1>6, <1>8, <1>11, <2>2 DEF Hashed
  <2>5. tab'.blocks <= 2 => tab.blocks <= 2
    BY <1>1, <1>8, <1>9, <1>11
  <2>6. ASSUME NEW n \in Nodes(tab')
        PROVE  /\ n.scope >= SCOPE_DANGLING
               /\ types'[n.var] = "LOOP_VARIABLE_TYPE" => n.scope > 0
               /\ tab'.blocks <= 2 /\ n.scope = SCOPE_DANGLING
                     => types'[n.var] = "UNKNOWN_TYPE"
    <3>1. n \in Nodes(tab) \/ n = NodeOf(v)
      BY <1>8, <1>11
    <3>2. CASE n \in Nodes(tab)
      BY <1>6, <2>1, <2>3, <2>5, <3>2
    <3>3. CASE n = NodeOf(v)
      <4>1. n.var = v /\ n.scope = 0
        BY <2>2, <3>3
      <4>2. SCOPE_DANGLING = -1
        BY DEF SCOPE_DANGLING
      <4>3. type # "LOOP_VARIABLE_TYPE"
        OBVIOUS
      <4> QED BY <2>1, <4>1, <4>2, <4>3
    <3> QED BY <3>1, <3>2, <3>3
  <2>7. NodesOK(tab', types')
    BY <1>8, <1>11, <2>4, <2>6 DEF NodesOK
  <2>8. TableNames'
    <3>1. tab'.blocks <= 2 => OneDangling(tab') /\ DeclaredFirst(tab')
      BY <1>8, <1>11, <2>5 DEF NameInv, TableNames
    <3> QED BY <1>8, <1>11, <2>7, <3>1 DEF TableNames
  <2>9. IdsOK'
    BY <1>1, <2>1, IdsNext DEF NameInv, v
  <2>10. Unknown' = Unknown
    <3>1. type # "UNKNOWN_TYPE"
      OBVIOUS
    <3> QED BY <1>5, <2>1, <3>1 DEF Unknown
  <2>11. exit'.code # 0
    BY <1>2, <1>11
  <2> QED BY <1>3, <1>8, <1>11, <2>1, <2>5, <2>8, <2>9, <2>10, <2>11
<1>12. \/ UNCHANGED <<tab, types>> /\ exit' = [code |-> 1, by |-> "multiple_declaration"]
       \/ /\ tab' = q.tab /\ Extends(v, type)
          /\ exit' \in {exit, [code |-> 139, by |-> "null_node"]}
  BY <1>4 DEF Continue, Extends, Exit, r
<1> QED
  BY <1>10, <1>11, <1>12

\* The end of a loop, whose variable is the one its body left dangling.
\* The variable a loop binds is that of a dangling node of the loop's symbol.
LEMMA LoopVariable ==
    ASSUME Inv, NameInv, NEW name \in Names,
           lookup_dangling_variable(tab, name) # NULL
    PROVE  LET var == lookup_dangling_variable(tab, name)
               i == lookup_node_in_scope(tab, name, SCOPE_DANGLING)
           IN  /\ i # 0 /\ var = Chain(tab, name)[i].var
               /\ var \in DOMAIN types /\ Hash[var.name] = Hash[name]
               /\ Chain(next_scope(tab), var.name) = Chain(tab, name)
               /\ lookup_node_in_scope(next_scope(tab), var.name, SCOPE_DANGLING) = i
               /\ is_dangling(next_scope(tab), var)
<1> DEFINE var == lookup_dangling_variable(tab, name)
           inside == next_scope(tab)
           i == lookup_node_in_scope(tab, name, SCOPE_DANGLING)
<1>1. Fields(tab, DOMAIN types) /\ Hashed(tab)
  BY NodesFacts DEF NameInv, TableNames, NodesOK
<1>2. /\ \A s, t : lookup_node_in_scope(inside, s, t) = lookup_node_in_scope(tab, s, t)
      /\ \A s : Chain(inside, s) = Chain(tab, s)
  BY <1>1, NextScopeNodes
<1>3. i # 0 /\ var = Chain(tab, name)[i].var
  BY DEF lookup_dangling_variable, lookup_variable_in_scope
<1>4. /\ Chain(tab, name)[i] \in Nodes(tab)
      /\ Chain(tab, name)[i].prehash = Hash[name]
      /\ var \in DOMAIN types
  BY <1>1, <1>3, LookupFinds DEF i
<1>5. Hash[var.name] = Hash[name]
  BY <1>1, <1>3, <1>4 DEF Hashed
<1>6. /\ Chain(tab, var.name) = Chain(tab, name)
      /\ lookup_node_in_scope(tab, var.name, SCOPE_DANGLING) = i
  BY <1>5 DEF Chain, Bucket, lookup_node_in_scope, SameHash, i
<1> HIDE DEF var, inside, i
<1>7. /\ Chain(inside, var.name) = Chain(tab, name)
      /\ lookup_node_in_scope(inside, var.name, SCOPE_DANGLING) = i
  BY <1>2, <1>6
<1>8. lookup_dangling_variable(inside, var.name) = var
  BY <1>3, <1>7 DEF lookup_dangling_variable, lookup_variable_in_scope
<1>9. is_dangling(inside, var)
  BY <1>8 DEF is_dangling, var
<1> QED
  BY <1>3, <1>4, <1>5, <1>7, <1>9 DEF var, inside, i

LEMMA LoopNames ==
    ASSUME Inv, NameInv, NEW name \in Identifiers, grammar_new_loop(name)
    PROVE  NameInv'
<1> DEFINE D == DOMAIN types
           var == lookup_dangling_variable(tab, name)
           inside == next_scope(tab)
           bound == assign_scope_to_dangling_variable(inside, var)
           i == lookup_node_in_scope(tab, name, SCOPE_DANGLING)
<1>1. /\ name \in Names /\ tab.scope = 0 /\ Fields(tab, D) /\ D \subseteq Variable
      /\ tab.blocks \in Nat /\ TableOK(tab, D) /\ Early /\ exit = Running
      /\ tab.dangling \in Nat /\ IsFiniteSet(D)
  BY IdentifiersAssumption, NodesFacts
     DEF NameInv, TableNames, Inv, grammar_new_loop, Closing, Parsing, Early
<1>2. /\ OneNodePerVariable(tab) /\ Hashed(tab)
      /\ \A n \in Nodes(tab) :
            /\ n.scope >= SCOPE_DANGLING
            /\ types[n.var] = "LOOP_VARIABLE_TYPE" => n.scope > 0
            /\ tab.blocks <= 2 /\ n.scope = SCOPE_DANGLING => types[n.var] = "UNKNOWN_TYPE"
      /\ tab.blocks <= 2 => OneDangling(tab) /\ DeclaredFirst(tab)
  BY <1>1 DEF NameInv, TableNames, NodesOK
<1>3. /\ tab' = prev_scope(bound)
      /\ types' = IF var = NULL THEN types ELSE [types EXCEPT ![var] = "LOOP_VARIABLE_TYPE"]
      /\ loops' = Append(loops, var)
      /\ UNCHANGED <<phase, params, state, exit>>
  BY DEF grammar_new_loop
<1>4. /\ Nodes(inside) = Nodes(tab)
      /\ OneNodePerVariable(inside)
      /\ tab.blocks <= 2 => OneDangling(inside) /\ DeclaredFirst(inside)
      /\ inside.scope = 1 /\ inside.blocks = tab.blocks
      /\ inside.dangling = tab.dangling
      /\ \A s, t : lookup_node_in_scope(inside, s, t) = lookup_node_in_scope(tab, s, t)
      /\ \A s : Chain(inside, s) = Chain(tab, s)
  BY <1>1, <1>2, NextScopeNodes
<1>5. TableOK(inside, D)
  BY <1>1, NextScopeOK
<1>6. var \in D \cup {NULL}
  BY <1>1, LookupVariable
<1>7. TableOK(bound, D)
  BY <1>1, <1>5, <1>6, AssignScopeOK
<1> HIDE DEF var, inside, bound, i
\* What the loop binds.
<1>8. var # NULL =>
         /\ Nodes(bound) = {n \in Nodes(tab) : n.var # var}
                              \cup {[prehash |-> Hash[var.name], var |-> var, scope |-> 1]}
         /\ OneNodePerVariable(bound)
         /\ bound.scope = 1 /\ bound.blocks = tab.blocks
         /\ bound.dangling = tab.dangling - 1
         /\ tab.blocks <= 2 => OneDangling(bound) /\ DeclaredFirst(bound)
         /\ types[var] # "LOOP_VARIABLE_TYPE"
         /\ tab.blocks <= 2 => types[var] = "UNKNOWN_TYPE"
  <2> SUFFICES ASSUME var # NULL
               PROVE  /\ Nodes(bound) = {n \in Nodes(tab) : n.var # var}
                            \cup {[prehash |-> Hash[var.name], var |-> var, scope |-> 1]}
                      /\ OneNodePerVariable(bound)
                      /\ bound.scope = 1 /\ bound.blocks = tab.blocks
                      /\ bound.dangling = tab.dangling - 1
                      /\ tab.blocks <= 2 => OneDangling(bound) /\ DeclaredFirst(bound)
                      /\ types[var] # "LOOP_VARIABLE_TYPE"
                      /\ tab.blocks <= 2 => types[var] = "UNKNOWN_TYPE"
    OBVIOUS
  <2>1. /\ i # 0 /\ var = Chain(tab, name)[i].var /\ var \in D
        /\ Hash[var.name] = Hash[name]
        /\ Chain(inside, var.name) = Chain(tab, name)
        /\ lookup_node_in_scope(inside, var.name, SCOPE_DANGLING) = i
        /\ is_dangling(inside, var)
    BY <1>1, LoopVariable DEF var, inside, i
  <2>2. /\ Chain(tab, name)[i] \in Nodes(tab)
        /\ Chain(tab, name)[i].prehash = Hash[name]
        /\ Chain(tab, name)[i].scope = SCOPE_DANGLING
    BY <1>1, <2>1, LookupFinds DEF i
  <2> DEFINE m == Chain(tab, name)[i]
  <2>3. /\ m \in NodeOver(D)
        /\ Nodes(bound) = (Nodes(inside) \ {m}) \cup {[m EXCEPT !.scope = inside.scope]}
        /\ OneNodePerVariable(bound)
        /\ bound.scope = inside.scope /\ bound.blocks = inside.blocks
        /\ bound.dangling = inside.dangling - 1
        /\ OneDangling(inside) => OneDangling(bound)
        /\ DeclaredFirst(inside) /\ inside.scope # 0 => DeclaredFirst(bound)
    BY <1>1, <1>4, <1>5, <2>1, AssignNodes DEF bound
  <2>4. m \in Nodes(tab) /\ m.var = var /\ m.prehash = Hash[var.name]
        /\ m.scope = SCOPE_DANGLING
    BY <2>1, <2>2
  <2> HIDE DEF m
  <2>5. [m EXCEPT !.scope = 1] = [prehash |-> Hash[var.name], var |-> var, scope |-> 1]
    BY <2>3, <2>4 DEF NodeOver
  <2>6. Nodes(tab) \ {m} = {n \in Nodes(tab) : n.var # var}
    BY <1>2, <2>4, SameVariableSameNode
  <2>7. types[var] # "LOOP_VARIABLE_TYPE" /\ (tab.blocks <= 2 => types[var] = "UNKNOWN_TYPE")
    BY <1>2, <2>4 DEF SCOPE_DANGLING
  <2> QED BY <1>4, <2>3, <2>5, <2>6, <2>7
<1>9. var = NULL => bound = inside
  BY DEF bound, assign_scope_to_dangling_variable, is_dangling
<1>10. /\ OneNodePerVariable(bound)
       /\ bound.scope = 1 /\ bound.blocks = tab.blocks
       /\ tab.blocks <= 2 => OneDangling(bound) /\ DeclaredFirst(bound)
  BY <1>4, <1>8, <1>9
<1>11. /\ Nodes(tab') \subseteq Nodes(bound)
       /\ OneNodePerVariable(tab')
       /\ tab.blocks <= 2 => OneDangling(tab') /\ DeclaredFirst(tab')
       /\ tab'.scope = 0 /\ tab'.blocks = tab.blocks /\ tab'.dangling = bound.dangling
  <2>1. Fields(bound, D) /\ Fields(prev_scope(bound), D)
    BY <1>7, PrevScopeOK DEF TableOK
  <2>2. /\ ChainSuffixes(prev_scope(bound), bound)
        /\ prev_scope(bound).blocks = bound.blocks
        /\ prev_scope(bound).dangling = bound.dangling
        /\ bound.scope > 0 => prev_scope(bound).scope = bound.scope - 1
    BY <2>1, PrevScopeSuffix
  <2>3. /\ Nodes(prev_scope(bound)) \subseteq Nodes(bound)
        /\ OneNodePerVariable(bound) => OneNodePerVariable(prev_scope(bound))
        /\ OneDangling(bound) => OneDangling(prev_scope(bound))
        /\ DeclaredFirst(bound) => DeclaredFirst(prev_scope(bound))
    BY <2>1, <2>2, SuffixNodes
  <2> QED BY <1>3, <1>10, <2>2, <2>3
<1>12. \A n \in Nodes(tab) : n.var \in D /\ n.scope \in Int
  BY NodesFacts
<1>13. /\ DOMAIN types' = D
       /\ \A w \in D : types'[w] = IF w = var THEN "LOOP_VARIABLE_TYPE" ELSE types[w]
  <2>1. NULL \notin D
    BY <1>1, NullAssumption
  <2>2. types = [w \in D |-> types[w]]
    BY DEF Inv, TypeOK
  <2> QED BY <1>3, <1>6, <2>1, <2>2
<1>14. ASSUME NEW n \in Nodes(tab')
       PROVE  /\ n.prehash = Hash[n.var.name]
              /\ n.scope >= SCOPE_DANGLING
              /\ types'[n.var] = "LOOP_VARIABLE_TYPE" => n.scope > 0
              /\ tab.blocks <= 2 /\ n.scope = SCOPE_DANGLING
                    => types'[n.var] = "UNKNOWN_TYPE"
  <2> DEFINE new == [prehash |-> Hash[var.name], var |-> var, scope |-> 1]
  <2>1. \/ n \in Nodes(tab) /\ n.var # var
        \/ var # NULL /\ n = new
    <3>1. n \in Nodes(bound)
      BY <1>11
    <3>2. CASE var = NULL
      <4>1. n \in Nodes(tab) /\ n.var \in D
        BY <1>4, <1>9, <1>12, <3>1, <3>2
      <4> QED BY <1>1, <3>2, <4>1, NullAssumption
    <3>3. CASE var # NULL
      BY <1>8, <3>1, <3>3
    <3> QED BY <3>2, <3>3
  <2>2. CASE n \in Nodes(tab) /\ n.var # var
    BY <1>2, <1>12, <1>13, <2>2 DEF Hashed
  <2>3. CASE var # NULL /\ n = new
    <3>1. n.var = var /\ n.scope = 1 /\ n.prehash = Hash[n.var.name]
      BY <2>3
    <3> QED BY <3>1 DEF SCOPE_DANGLING
  <2> QED BY <2>1, <2>2, <2>3
<1>15. TableNames'
  <2>1. NodesOK(tab', types')
    BY <1>11, <1>14 DEF NodesOK, Hashed
  <2> QED BY <1>2, <1>11, <2>1 DEF TableNames
<1>16. IdsOK'
  BY <1>13 DEF NameInv, IdsOK
<1>17. LoopsOK'
  <2>1. loops \in Seq(D \cup {NULL}) /\ Len(loops) \in Nat
        /\ DOMAIN loops = 1 .. Len(loops)
    BY LenProperties DEF Inv, TypeOK
  <2>2. /\ DOMAIN loops' = 1 .. Len(loops) + 1
        /\ \A k \in 1 .. Len(loops) : loops'[k] = loops[k]
        /\ loops'[Len(loops) + 1] = var
    <3>1. /\ loops' \in Seq(D \cup {NULL}) /\ Len(loops') = Len(loops) + 1
          /\ \A k \in 1 .. Len(loops) : loops'[k] = loops[k]
          /\ loops'[Len(loops) + 1] = var
      BY <1>3, <1>6, <2>1, AppendProperties
    <3> QED BY <2>1, <3>1, LenProperties
  <2>3. \A k \in DOMAIN loops : loops[k] # NULL =>
           loops[k] \in D /\ types[loops[k]] = "LOOP_VARIABLE_TYPE" /\ loops[k] # var
    <3> TAKE k \in DOMAIN loops
    <3> HAVE loops[k] # NULL
    <3>1. loops[k] \in D
      BY <2>1, ElementOfSeq
    <3>2. types[loops[k]] = "LOOP_VARIABLE_TYPE"
      BY DEF NameInv, LoopsOK
    <3>3. loops[k] # var
      BY <1>8, <3>2
    <3> QED BY <3>1, <3>2, <3>3
  <2>4. \A k \in DOMAIN loops' : k \in DOMAIN loops \/ k = Len(loops) + 1
    BY <2>1, <2>2
  <2>5. \A k \in DOMAIN loops' : loops'[k] # NULL => types'[loops'[k]] = "LOOP_VARIABLE_TYPE"
    <3> SUFFICES ASSUME NEW k \in DOMAIN loops', loops'[k] # NULL
                 PROVE  types'[loops'[k]] = "LOOP_VARIABLE_TYPE"
      OBVIOUS
    <3>1. CASE k \in DOMAIN loops
      BY <1>13, <2>1, <2>2, <2>3, <3>1
    <3>2. CASE k = Len(loops) + 1
      BY <1>6, <1>13, <2>2, <3>2
    <3> QED BY <2>4, <3>1, <3>2
  <2>6. \A j, k \in DOMAIN loops' : j # k /\ loops'[j] # NULL => loops'[j] # loops'[k]
    <3> SUFFICES ASSUME NEW j \in DOMAIN loops', NEW k \in DOMAIN loops', j # k,
                        loops'[j] # NULL
                 PROVE  loops'[j] # loops'[k]
      OBVIOUS
    <3>1. CASE j \in DOMAIN loops /\ k \in DOMAIN loops
      <4>1. loops'[j] = loops[j] /\ loops'[k] = loops[k]
        BY <2>1, <2>2, <3>1
      <4> QED BY <3>1, <4>1 DEF NameInv, LoopsOK, LoopsBindDistinctVariables
    <3>2. CASE j = Len(loops) + 1 /\ k \in DOMAIN loops
      <4>1. loops'[j] = var /\ loops'[k] = loops[k]
        BY <2>1, <2>2, <3>2
      <4> QED BY <2>3, <3>2, <4>1
    <3>3. CASE j \in DOMAIN loops /\ k = Len(loops) + 1
      <4>1. loops'[j] = loops[j] /\ loops'[k] = var
        BY <2>1, <2>2, <3>3
      <4> QED BY <2>3, <3>3, <4>1
    <3> QED BY <2>4, <3>1, <3>2, <3>3
  <2> QED BY <2>5, <2>6 DEF LoopsOK, LoopsBindDistinctVariables
<1>18. CountOK'
  <2> SUFFICES ASSUME tab.blocks <= 2
               PROVE  tab'.dangling = Cardinality(Unknown')
    BY <1>1, <1>3, <1>11 DEF CountOK, Early
  <2>1. tab.dangling = Cardinality(Unknown)
    <3>1. exit.by # "null_node"
      BY <1>1 DEF Running
    <3> QED BY <1>1, <3>1 DEF NameInv, CountOK
  <2>2. CASE var = NULL
    <3>1. Unknown' = Unknown
      BY <1>3, <2>2 DEF Unknown
    <3> QED BY <1>4, <1>9, <1>11, <2>1, <2>2, <3>1
  <2>3. CASE var # NULL
    <3>1. var \in Unknown
      BY <1>6, <1>8, <2>3 DEF Unknown
    <3>2. Unknown' = Unknown \ {var}
      BY <1>13 DEF Unknown
    <3>3. IsFiniteSet(Unknown)
      <4>1. Unknown \in SUBSET D
        BY DEF Unknown
      <4> QED BY <1>1, <4>1, FS_Subset
    <3>4. Cardinality(Unknown') = Cardinality(Unknown) - 1
      BY <3>1, <3>2, <3>3, FS_RemoveElement
    <3> QED BY <1>8, <1>11, <2>1, <2>3, <3>4
  <2> QED BY <2>2, <2>3
<1>19. VerdictOK'
  <2>1. ~state.succeed
    BY <1>1 DEF NameInv, VerdictOK, Early
  <2>2. exit.code # 0
    BY <1>1 DEF Running
  <2> QED BY <1>3, <2>1, <2>2 DEF VerdictOK
<1> QED
  BY <1>15, <1>16, <1>17, <1>18, <1>19 DEF NameInv

\* The tables that binding the parameters goes through: each mention that is
\* not in S any more has the hash of a parameter.
Binding ==
    {t \in Tables(DOMAIN types) :
        /\ TableOK(t, DOMAIN types)
        /\ t.scope = 0 /\ t.blocks = tab.blocks
        /\ NodesOK(t, types)
        /\ tab.blocks <= 2 =>
              \E S \in SUBSET Unknown :
                 /\ t.dangling = Cardinality(S)
                 /\ \A v \in Unknown \ S : HasParameterHash(v)
                 /\ \A n \in Nodes(t) : n.scope = SCOPE_DANGLING => n.var \in S}

LEMMA BindingStep ==
    ASSUME Inv, NEW t \in Binding, NEW i \in DOMAIN params
    PROVE  assign_scope_to_dangling_variable(t, params[i]) \in Binding
<1> DEFINE D == DOMAIN types
           var == params[i]
           u == assign_scope_to_dangling_variable(t, var)
           m == Chain(t, var.name)[lookup_node_in_scope(t, var.name, SCOPE_DANGLING)]
           new == [m EXCEPT !.scope = t.scope]
<1>1. /\ D \subseteq Variable /\ IsFiniteSet(D) /\ var \in D
      /\ IsFiniteSet(Unknown)
  <2>1. var \in D
    BY ElementOfSeq, LenProperties DEF Inv, TypeOK
  <2>2. Unknown \in SUBSET D
    BY DEF Unknown
  <2> QED BY <2>1, <2>2, NodesFacts, FS_Subset DEF Inv
<1>2. TableOK(t, D) /\ t.scope = 0 /\ t.blocks = tab.blocks /\ NodesOK(t, types)
  BY DEF Binding
<1>3. CASE ~is_dangling(t, var)
  BY <1>3 DEF assign_scope_to_dangling_variable
<1>4. CASE is_dangling(t, var)
  <2>1. TableOK(u, D) /\ u \in Tables(D)
    BY <1>1, <1>2, AssignScopeOK, FieldsInTables DEF TableOK
  <2>2. /\ OneNodePerVariable(t) /\ Hashed(t)
        /\ \A n \in Nodes(t) :
              /\ n.scope >= SCOPE_DANGLING
              /\ types[n.var] = "LOOP_VARIABLE_TYPE" => n.scope > 0
              /\ t.blocks <= 2 /\ n.scope = SCOPE_DANGLING => types[n.var] = "UNKNOWN_TYPE"
    BY <1>2 DEF NodesOK
  <2>3. /\ m \in Nodes(t) /\ m \in NodeOver(D)
        /\ m.scope = SCOPE_DANGLING /\ m.prehash = Hash[var.name]
        /\ Nodes(u) = (Nodes(t) \ {m}) \cup {new}
        /\ OneNodePerVariable(u)
        /\ u.scope = t.scope /\ u.blocks = t.blocks
        /\ u.dangling = t.dangling - 1
    BY <1>1, <1>2, <1>4, <2>2, AssignNodes
  <2>4. /\ new.var = m.var /\ new.scope = 0 /\ new.prehash = m.prehash
        /\ Hash[m.var.name] = Hash[var.name]
    BY <1>2, <2>2, <2>3 DEF NodeOver, Hashed
  <2> HIDE DEF u, m, new, var
  <2>5. ASSUME NEW n \in Nodes(u)
        PROVE  /\ n.prehash = Hash[n.var.name]
               /\ n.scope >= SCOPE_DANGLING
               /\ types[n.var] = "LOOP_VARIABLE_TYPE" => n.scope > 0
               /\ u.blocks <= 2 /\ n.scope = SCOPE_DANGLING => types[n.var] = "UNKNOWN_TYPE"
    <3>1. CASE n \in Nodes(t)
      BY <2>2, <2>3, <3>1 DEF Hashed
    <3>2. CASE n = new
      <4>1. types[m.var] # "LOOP_VARIABLE_TYPE"
        BY <2>2, <2>3 DEF SCOPE_DANGLING
      <4> QED BY <2>3, <2>4, <3>2, <4>1 DEF SCOPE_DANGLING
    <3> QED BY <2>3, <3>1, <3>2
  <2>6. NodesOK(u, types)
    BY <2>3, <2>5 DEF NodesOK, Hashed
  <2>7. ASSUME tab.blocks <= 2
        PROVE  \E S \in SUBSET Unknown :
                  /\ u.dangling = Cardinality(S)
                  /\ \A v \in Unknown \ S : HasParameterHash(v)
                  /\ \A n \in Nodes(u) : n.scope = SCOPE_DANGLING => n.var \in S
    <3>1. PICK S \in SUBSET Unknown :
                  /\ t.dangling = Cardinality(S)
                  /\ \A v \in Unknown \ S : HasParameterHash(v)
                  /\ \A n \in Nodes(t) : n.scope = SCOPE_DANGLING => n.var \in S
      BY <2>7 DEF Binding
    <3> DEFINE T == S \ {m.var}
    <3>2. m.var \in S
      BY <2>3, <3>1
    <3>3. u.dangling = Cardinality(T)
      <4>1. IsFiniteSet(S)
        BY <1>1, <3>1, FS_Subset
      <4>2. Cardinality(T) = Cardinality(S) - 1
        BY <3>2, <4>1, FS_RemoveElement
      <4>3. u.dangling = t.dangling - 1 /\ t.dangling = Cardinality(S)
        BY <2>3, <3>1
      <4> HIDE DEF T
      <4> QED BY <4>2, <4>3
    <3>4. HasParameterHash(m.var)
      BY <2>4 DEF HasParameterHash, var
    <3>5. ASSUME NEW n \in Nodes(u), n.scope = SCOPE_DANGLING
          PROVE  n.var \in T
      <4>1. n \in Nodes(t) /\ n # m
        BY <2>3, <2>4, <3>5 DEF SCOPE_DANGLING
      <4>2. n.var # m.var
        BY <2>2, <2>3, <4>1, SameVariableSameNode
      <4> QED BY <3>1, <3>5, <4>1, <4>2
    <3>6. T \in SUBSET Unknown /\ \A v \in Unknown \ T : HasParameterHash(v)
      BY <3>1, <3>4
    <3> HIDE DEF T
    <3> QED BY <3>3, <3>5, <3>6
  <2> QED BY <1>2, <2>1, <2>3, <2>6, <2>7 DEF Binding, u, var
<1> QED
  BY <1>3, <1>4

\* Before that, nothing is bound yet.
LEMMA TabInBinding ==
    ASSUME Inv, NameInv, exit = Running, phase = "return"
    PROVE  tab \in Binding
<1>1. TableOK(tab, DOMAIN types) /\ tab \in Tables(DOMAIN types)
  BY NodesFacts, FieldsInTables DEF Inv
<1>2. tab.scope = 0 /\ NodesOK(tab, types)
  BY DEF NameInv, TableNames
<1>3. ASSUME tab.blocks <= 2
      PROVE  /\ tab.dangling = Cardinality(Unknown)
             /\ \A n \in Nodes(tab) : n.scope = SCOPE_DANGLING => n.var \in Unknown
  <2>1. exit.by # "null_node" /\ Early
    BY DEF Running, Early
  <2>2. \A n \in Nodes(tab) : n.var \in DOMAIN types
    BY NodesFacts
  <2> QED BY <1>2, <1>3, <2>1, <2>2 DEF NameInv, CountOK, NodesOK, Unknown
<1>4. Unknown \in SUBSET Unknown /\ Unknown \ Unknown = {}
  OBVIOUS
<1> QED
  BY <1>1, <1>2, <1>3, <1>4 DEF Binding

LEMMA FunctionNames ==
    ASSUME Inv, NameInv, grammar_new_function
    PROVE  NameInv'
<1>1. /\ exit = Running /\ phase = "return" /\ phase' = "function" /\ Early
      /\ tab' = AssignScopes(tab, params)
      /\ UNCHANGED <<types, params, loops, state, exit>>
  BY DEF grammar_new_function, Parsing, Early
<1>2. tab \in Binding
  BY <1>1, TabInBinding
<1>3. tab' \in Binding
  <2>1. Len(params) \in Nat /\ DOMAIN params = 1 .. Len(params)
    BY LenProperties DEF Inv, TypeOK
  <2> DEFINE n == Len(params)
             G == [i \in 0 .. n |-> Binding]
  <2>2. \A i \in 1 .. n : \A u \in G[i - 1] :
           assign_scope_to_dangling_variable(u, params[i]) \in G[i]
    <3>1. \A i \in 1 .. n : G[i - 1] = Binding /\ G[i] = Binding
      BY <2>1
    <3> HIDE DEF G
    <3> QED BY <2>1, <3>1, BindingStep
  <2>3. G[0] = Binding /\ G[n] = Binding
    BY <2>1
  <2> HIDE DEF G
  <2> QED BY <1>1, <1>2, <2>1, <2>2, <2>3, AssignScopesInduction
<1>4. tab'.scope = 0 /\ tab'.blocks = tab.blocks /\ NodesOK(tab', types)
  BY <1>3 DEF Binding
<1>5. ~Early'
  BY <1>1 DEF Early
<1>6. TableNames'
  BY <1>1, <1>4, <1>5 DEF TableNames
<1>7. IdsOK' /\ LoopsOK'
  BY <1>1 DEF NameInv, IdsOK, LoopsOK, LoopsBindDistinctVariables
<1>8. CountOK'
  <2>1. tab'.blocks <= 2 =>
           \E S \in SUBSET Unknown :
              /\ tab'.dangling = Cardinality(S)
              /\ \A v \in Unknown \ S : HasParameterHash(v)
    BY <1>3, <1>4 DEF Binding
  <2>2. Unknown' = Unknown /\ \A v : HasParameterHash(v)' = HasParameterHash(v)
    BY <1>1 DEF Unknown, HasParameterHash
  <2> QED BY <1>5, <2>1, <2>2 DEF CountOK, HasParameterHash
<1>9. VerdictOK'
  <2>1. ~state.succeed /\ exit.code # 0
    BY <1>1 DEF NameInv, VerdictOK, Running
  <2> QED BY <1>1, <2>1 DEF VerdictOK
<1> QED
  BY <1>6, <1>7, <1>8, <1>9 DEF NameInv

LEMMA InitNames == Init => NameInv
<1> SUFFICES ASSUME Init PROVE NameInv
  OBVIOUS
<1> DEFINE D == [name : StdFunctions, id : {0}]
<1>1. /\ tab = initialize_table /\ DOMAIN types = D
      /\ \A v \in D : types[v] = "FUNCTION_TYPE"
      /\ phase = "args" /\ loops = << >> /\ exit.code = -1
      /\ ~state.succeed
  BY DEF Init, Running
<1>2. Inv
  BY InitOK
<1>3. /\ tab.scope = 0 /\ tab.dangling = 0
      /\ OneNodePerVariable(tab) /\ OneDangling(tab) /\ DeclaredFirst(tab)
      /\ Hashed(tab)
      /\ \A n \in Nodes(tab) : n.scope = 0
  BY <1>1, InitialTableNames DEF Initializing
<1>4. TableNames
  <2>1. \A n \in Nodes(tab) : types[n.var] = "FUNCTION_TYPE"
    BY <1>1, <1>2, NodesFacts
  <2>2. NodesOK(tab, types)
    BY <1>3, <2>1 DEF NodesOK, SCOPE_DANGLING
  <2> QED BY <1>3, <2>2 DEF TableNames
<1>5. IdsOK
  <2> SUFFICES ASSUME NEW v \in DOMAIN types
               PROVE  v.id < Cardinality({w \in DOMAIN types : w.name = v.name})
    BY DEF IdsOK
  <2> DEFINE S == {w \in DOMAIN types : w.name = v.name}
  <2>1. v \in S /\ S \in SUBSET DOMAIN types
    OBVIOUS
  <2>2. v.id = 0
    BY <1>1
  <2> HIDE DEF S
  <2>3. IsFiniteSet(S)
    BY <1>2, <2>1, FS_Subset DEF Inv
  <2>4. Cardinality(S) \in Nat /\ Cardinality(S) # 0
    BY <2>1, <2>3, FS_CardinalityType, FS_EmptySet
  <2> QED BY <2>2, <2>4 DEF S
<1>6. LoopsOK
  BY <1>1 DEF LoopsOK, LoopsBindDistinctVariables
<1>7. CountOK
  <2>1. Unknown = {}
    BY <1>1 DEF Unknown
  <2>2. Cardinality(Unknown) = 0
    BY <2>1, FS_EmptySet
  <2>3. Early
    BY <1>1 DEF Early
  <2> QED BY <1>3, <2>2, <2>3 DEF CountOK
<1>8. VerdictOK
  BY <1>1 DEF VerdictOK
<1> QED
  BY <1>4, <1>5, <1>6, <1>7, <1>8 DEF NameInv

\* A step before the parameters are bound, when NameInv holds of the table and
\* of the types after it.
LEMMA EarlyNames ==
    ASSUME Inv, NameInv, Early, Early', TableNames', IdsOK',
           tab'.blocks <= 2 /\ exit'.by # "null_node"
              => tab'.dangling = Cardinality(Unknown'),
           \A w \in DOMAIN types : types'[w] = types[w],
           loops' = loops, state'.succeed = state.succeed, exit'.code # 0
    PROVE  NameInv'
<1>1. LoopsOK'
  <2>1. \A i \in DOMAIN loops : loops[i] # NULL => loops[i] \in DOMAIN types
    <3>1. loops \in Seq(DOMAIN types \cup {NULL})
      BY DEF Inv, TypeOK
    <3>2. DOMAIN loops = 1 .. Len(loops) /\ Len(loops) \in Nat
      BY <3>1, LenProperties
    <3> QED BY <3>1, <3>2, ElementOfSeq
  <2>2. \A i \in DOMAIN loops : loops[i] # NULL => types[loops[i]] = "LOOP_VARIABLE_TYPE"
    BY DEF NameInv, LoopsOK
  <2>3. LoopsBindDistinctVariables'
    BY DEF NameInv, LoopsOK, LoopsBindDistinctVariables
  <2>4. \A i \in DOMAIN loops' : loops'[i] # NULL => types'[loops'[i]] = "LOOP_VARIABLE_TYPE"
    BY <2>1, <2>2
  <2> QED BY <2>3, <2>4 DEF LoopsOK
<1>2. CountOK'
  BY DEF CountOK
<1>3. VerdictOK'
  <2>1. ~state.succeed
    BY DEF NameInv, VerdictOK, Early
  <2> QED BY <2>1 DEF VerdictOK
<1> QED
  BY <1>1, <1>2, <1>3 DEF NameInv

\* Such a step that leaves the table and the variables alone.
LEMMA EarlyFrame ==
    ASSUME Inv, NameInv, Early, Early', exit = Running,
           UNCHANGED <<tab, types, loops>>,
           state'.succeed = state.succeed, exit'.code # 0
    PROVE  NameInv'
<1>1. tab.blocks <= 2 => tab.dangling = Cardinality(Unknown)
  <2>1. exit.by # "null_node"
    BY DEF Running
  <2> QED BY <2>1 DEF NameInv, CountOK
<1>2. Unknown' = Unknown
  BY DEF Unknown
<1>3. TableNames' /\ IdsOK'
  BY FrameNames DEF NameInv
<1> QED
  BY <1>1, <1>2, <1>3, EarlyNames

LEMMA ArgsNames ==
    ASSUME Inv, NameInv, NEW name \in Identifiers, grammar_concat_list_args_with_id(name)
    PROVE  NameInv'
<1>1. /\ exit = Running /\ phase = "args" /\ phase' = phase
      /\ Continue(lookup_variable_create_dangling(name), "UNKNOWN_TYPE")
      /\ loops' = loops /\ state' = state
  BY DEF grammar_concat_list_args_with_id, Parsing
<1>2. Early /\ Early'
  BY <1>1 DEF Early
<1> HIDE DEF Continue
<1> QED
  BY <1>1, <1>2, MentionNames, EarlyNames

LEMMA AbortNames ==
    ASSUME Inv, NameInv, Parsing("body"), NEW by, Abort(by)
    PROVE  NameInv'
<1>1. /\ exit = Running /\ phase = "body" /\ phase' = phase
      /\ UNCHANGED <<tab, types, loops>> /\ state' = state
      /\ exit'.code = 1
  BY DEF Abort, Exit, Parsing
<1>2. Early /\ Early'
  BY <1>1 DEF Early
<1> QED
  BY <1>1, <1>2, EarlyFrame

LEMMA ExpressionNames ==
    ASSUME Inv, NameInv, NEW name \in Identifiers,
           \/ grammar_expression_type_from_id(name)
           \/ \E function \in Identifiers : grammar_function_call_from_id(name, function)
           \/ \E to \in Identifiers : grammar_new_assignment_from_id(name, to)
    PROVE  NameInv'
<1>1. /\ Parsing("body")
      /\ \/ Abort("function_not_found")
         \/ Abort("variable_not_found")
         \/ /\ Continue(lookup_variable_create_dangling(name), "UNKNOWN_TYPE")
            /\ ExpressionRead /\ UNCHANGED state
  BY DEF grammar_expression_type_from_id, grammar_function_call_from_id,
         grammar_new_assignment_from_id
<1>2. CASE Abort("function_not_found") \/ Abort("variable_not_found")
  BY <1>1, <1>2, AbortNames
<1>3. CASE /\ Continue(lookup_variable_create_dangling(name), "UNKNOWN_TYPE")
           /\ ExpressionRead /\ UNCHANGED state
  <2>1. exit = Running /\ phase = "body" /\ phase' = phase /\ loops' = loops
    BY <1>1, <1>3 DEF Parsing, ExpressionRead
  <2>2. Early /\ Early'
    BY <2>1 DEF Early
  <2> QED BY <1>3, <2>1, <2>2, MentionNames, EarlyNames
<1> QED
  BY <1>1, <1>2, <1>3

LEMMA DeclarationNames ==
    ASSUME Inv, NameInv, NEW name \in Identifiers,
           \/ \E s \in Separators : grammar_new_declaration_file_node(name, s)
           \/ grammar_new_variable(name)
    PROVE  NameInv'
<1>1. PICK type \in {"CONSTANT_TYPE", "FILE_PATH_TYPE"} :
         Continue(Declare(name), type)
  BY DEF grammar_new_declaration_file_node, grammar_new_variable
<1>2. /\ exit = Running /\ phase = "body" /\ phase' = phase /\ loops' = loops
  BY DEF grammar_new_declaration_file_node, grammar_new_variable, Parsing,
         ExpressionRead
<1>3. state'.succeed = state.succeed
  <2>1. state \in States
    BY DEF Inv, TypeOK, States
  <2>2. state' = state \/ \E b : state' = [state EXCEPT !.syntax_error = b]
    BY DEF grammar_new_declaration_file_node, grammar_new_variable
  <2> QED BY <2>1, <2>2 DEF States
<1>4. Early /\ Early'
  BY <1>2 DEF Early
<1> QED
  BY <1>1, <1>2, <1>3, <1>4, DeclareNames, EarlyNames

\* The steps of the body that leave the table alone.
LEMMA NoTableNames ==
    ASSUME Inv, NameInv, NEW name \in Identifiers,
           \/ grammar_function_call(name)
           \/ DereferenceSeparators(name)
           \/ grammar_new_assignment_expression(name)
           \/ grammar_using_file(name)
           \/ grammar_new_return_node(name)
    PROVE  NameInv'
<1>1. /\ Parsing("body")
      /\ \/ Abort("function_not_found")
         \/ Abort("variable_not_found")
         \/ UNCHANGED <<tab, types, state, exit>> /\ ExpressionRead
         \/ DereferenceSeparators(name)
         \/ /\ phase' \in {phase, "return"}
            /\ UNCHANGED <<tab, types, loops, state, exit>>
  BY DEF grammar_function_call, DereferenceSeparators, grammar_using_file, Closing,
         grammar_new_assignment_expression, grammar_new_return_node, EndOfBody
<1>2. CASE Abort("function_not_found") \/ Abort("variable_not_found")
  BY <1>1, <1>2, AbortNames
<1>3. CASE /\ phase' \in {phase, "return"} /\ UNCHANGED <<tab, types, loops, state>>
           /\ exit'.code # 0
  <2>1. exit = Running /\ Early /\ Early'
    BY <1>1, <1>3 DEF Parsing, Early
  <2> QED BY <1>3, <2>1, EarlyFrame
<1>4. exit.code # 0
  BY <1>1 DEF Parsing, Running
<1>5. CASE DereferenceSeparators(name)
  BY <1>3, <1>5 DEF DereferenceSeparators, Exit
<1> QED
  BY <1>1, <1>2, <1>3, <1>4, <1>5 DEF ExpressionRead

\* The steps of the parser around the body.
LEMMA ParserNames ==
    ASSUME Inv, NameInv,
           \/ CloseParameters
           \/ \E name \in Identifiers : \E form \in {"in", "with"} : Open(form, name)
           \/ ShiftDo
           \/ ReturnNothing
           \/ ParseFails
    PROVE  NameInv'
<1>1. /\ exit = Running
      /\ UNCHANGED <<tab, types, loops>> /\ state' = state
      /\ phase \notin {"function", "program"}
      /\ phase' \in {phase, "body", "return"}
  BY DEF CloseParameters, Open, ShiftDo, ReturnNothing, EndOfBody, ParseFails, Parsing
<1>2. exit'.code # 0
  <2>1. exit' = exit \/ ParseFails
    BY DEF CloseParameters, Open, ShiftDo, ReturnNothing
  <2>2. CASE exit' = exit
    BY <1>1, <2>2 DEF Running
  <2>3. CASE ParseFails
    BY <2>3 DEF ParseFails, Exit
  <2> QED BY <2>1, <2>2, <2>3
<1>3. Early /\ Early'
  <2>1. phase \in Phases
    BY DEF Inv, TypeOK
  <2> QED BY <1>1, <2>1 DEF Phases, Early
<1> QED
  BY <1>1, <1>2, <1>3, EarlyFrame

\* The verdict.
LEMMA ProgramNames ==
    ASSUME Inv, NameInv, grammar_program
    PROVE  NameInv'
<1>1. /\ exit = Running /\ phase = "function" /\ phase' = "program"
      /\ UNCHANGED <<tab, types, params, loops, exit>>
  BY DEF grammar_program, Parsing
<1>2. ~Early /\ ~Early' /\ exit.code # 0
  BY <1>1 DEF Early, Running
<1>3. TableNames' /\ IdsOK'
  BY <1>1, <1>2, FrameNames DEF NameInv
<1>4. LoopsOK'
  BY <1>1 DEF NameInv, LoopsOK, LoopsBindDistinctVariables
<1>5. CountOK'
  <2>1. Unknown' = Unknown
    BY <1>1 DEF Unknown
  <2>2. tab.blocks <= 2 =>
           \E S \in SUBSET Unknown :
              /\ tab.dangling = Cardinality(S)
              /\ \A v \in Unknown \ S : HasParameterHash(v)
    BY <1>2 DEF NameInv, CountOK
  <2> QED BY <1>1, <1>2, <2>1, <2>2 DEF CountOK, HasParameterHash
<1>6. state'.succeed => tab.dangling = 0 /\ ~state'.syntax_error
  <2>1. state \in States
    BY DEF Inv, TypeOK, States
  <2>2. tab.dangling \in Nat
    BY NodesFacts
  <2> QED BY <2>1, <2>2 DEF grammar_program, count_dangling, States
<1>7. VerdictOK'
  BY <1>1, <1>2, <1>6 DEF VerdictOK
<1> QED
  BY <1>3, <1>4, <1>5, <1>7 DEF NameInv

LEMMA FinishNames ==
    ASSUME Inv, NameInv, Finish
    PROVE  NameInv'
<1>1. /\ exit = Running /\ phase = "program"
      /\ exit'.code = IF state.succeed THEN 0 ELSE 255
      /\ UNCHANGED <<tab, types, phase, params, loops, state>>
  BY DEF Finish, Parsing, Exit
<1>2. ~Early /\ ~Early'
  BY <1>1 DEF Early
<1>3. TableNames' /\ IdsOK'
  BY <1>1, <1>2, FrameNames DEF NameInv
<1>4. LoopsOK'
  BY <1>1 DEF NameInv, LoopsOK, LoopsBindDistinctVariables
<1>5. CountOK'
  <2>1. Unknown' = Unknown
    BY <1>1 DEF Unknown
  <2>2. tab.blocks <= 2 =>
           \E S \in SUBSET Unknown :
              /\ tab.dangling = Cardinality(S)
              /\ \A v \in Unknown \ S : HasParameterHash(v)
    BY <1>2 DEF NameInv, CountOK
  <2> QED BY <1>1, <1>2, <2>1, <2>2 DEF CountOK, HasParameterHash
<1>6. VerdictOK'
  <2>1. state.succeed => tab.dangling = 0 /\ ~state.syntax_error
    BY DEF NameInv, VerdictOK
  <2> QED BY <1>1, <2>1 DEF VerdictOK
<1> QED
  BY <1>3, <1>4, <1>5, <1>6 DEF NameInv

LEMMA NextNames == Inv /\ NameInv /\ [Next]_vars => NameInv'
<1> SUFFICES ASSUME Inv, NameInv, [Next]_vars PROVE NameInv'
  OBVIOUS
<1>1. CASE UNCHANGED vars
  <2>1. /\ TableNames' <=> TableNames
        /\ IdsOK' <=> IdsOK
    BY <1>1 DEF vars, TableNames, IdsOK, Early
  <2>2. /\ LoopsOK' <=> LoopsOK
        /\ VerdictOK' <=> VerdictOK
    BY <1>1 DEF vars, LoopsOK, LoopsBindDistinctVariables, VerdictOK
  <2>3. CountOK' <=> CountOK
    <3>1. Unknown' = Unknown /\ (Early' <=> Early) /\ UNCHANGED <<tab, params, exit>>
      BY <1>1 DEF vars, Unknown, Early
    <3> QED BY <3>1 DEF CountOK, HasParameterHash
  <2> QED BY <2>1, <2>2, <2>3 DEF NameInv
<1>2. CASE Next
  <2>1. ASSUME NEW name \in Identifiers,
               \/ grammar_concat_list_args_with_id(name)
               \/ grammar_expression_type_from_id(name)
               \/ grammar_function_call(name)
               \/ \E function \in Identifiers : grammar_function_call_from_id(name, function)
               \/ \E s \in Separators : grammar_new_declaration_file_node(name, s)
               \/ DereferenceSeparators(name)
               \/ grammar_new_variable(name)
               \/ grammar_new_assignment_expression(name)
               \/ \E to \in Identifiers : grammar_new_assignment_from_id(name, to)
               \/ grammar_using_file(name)
               \/ grammar_new_loop(name)
               \/ grammar_new_return_node(name)
        PROVE  NameInv'
    BY <2>1, ArgsNames, ExpressionNames, DeclarationNames, NoTableNames, LoopNames
  <2>2. ASSUME \/ CloseParameters
               \/ \E name \in Identifiers : \E form \in {"in", "with"} : Open(form, name)
               \/ ShiftDo
               \/ ReturnNothing
               \/ grammar_new_function
               \/ grammar_program
               \/ Finish
               \/ ParseFails
        PROVE  NameInv'
    BY <2>2, ParserNames, FunctionNames, ProgramNames, FinishNames
  <2> QED BY <1>2, <2>1, <2>2 DEF Next
<1> QED
  BY <1>1, <1>2

LEMMA SpecNames == Spec => [](Inv /\ NameInv)
<1>1. Init => Inv /\ NameInv
  BY InitOK, InitNames
<1>2. Inv /\ NameInv /\ [Next]_vars => Inv' /\ NameInv'
  BY NextOK, NextNames
<1> QED
  BY <1>1, <1>2, PTL DEF Spec

---------------------------------------------------------------------------
(* The end of a loop. *)

\* What the end of a loop leaves of the lookups of a name.
LEMMA LoopLookups ==
    ASSUME Inv, NameInv, NEW name \in Identifiers, grammar_new_loop(name),
           NEW other \in Names, NEW scope \in {0, SCOPE_DANGLING},
           scope = 0 \/ Hash[other] # Hash[name]
    PROVE  lookup_variable_in_scope(tab', other, scope)
              = lookup_variable_in_scope(tab, other, scope)
<1> DEFINE D == DOMAIN types
           var == lookup_dangling_variable(tab, name)
           inside == next_scope(tab)
           bound == assign_scope_to_dangling_variable(inside, var)
           i == lookup_node_in_scope(tab, name, SCOPE_DANGLING)
           look(t) == lookup_variable_in_scope(t, other, scope)
<1>1. /\ name \in Names /\ tab.scope = 0 /\ Fields(tab, D) /\ D \subseteq Variable
      /\ TableOK(tab, D)
  BY IdentifiersAssumption, NodesFacts DEF NameInv, TableNames, Inv
<1>2. tab' = prev_scope(bound)
  BY DEF grammar_new_loop
<1>3. TableOK(inside, D) /\ inside.scope = 1 /\ inside.blocks = tab.blocks
      /\ inside.chains = tab.chains
  BY <1>1, NextScopeOK DEF next_scope, Fields
<1>4. look(inside) = look(tab)
  <2>1. /\ lookup_node_in_scope(inside, other, scope) = lookup_node_in_scope(tab, other, scope)
        /\ Chain(inside, other) = Chain(tab, other)
    BY <1>1, NextScopeNodes
  <2> QED BY <2>1 DEF lookup_variable_in_scope
<1>5. var \in D \cup {NULL}
  BY <1>1, LookupVariable
<1>6. TableOK(bound, D)
  BY <1>1, <1>3, <1>5, AssignScopeOK
<1>7. CASE var = NULL
  <2>1. bound = inside
    BY <1>7 DEF assign_scope_to_dangling_variable, is_dangling
  <2>2. scope # inside.scope
    BY <1>3 DEF SCOPE_DANGLING
  <2> QED BY <1>2, <1>3, <1>4, <2>1, <2>2, PrevScopeLookup
<1>8. CASE var # NULL
  <2>1. /\ i # 0 /\ var = Chain(tab, name)[i].var
        /\ var \in D /\ Hash[var.name] = Hash[name]
        /\ Chain(inside, var.name) = Chain(tab, name)
        /\ lookup_node_in_scope(inside, var.name, SCOPE_DANGLING) = i
        /\ is_dangling(inside, var)
    BY <1>1, <1>8, LoopVariable
  <2> HIDE DEF var
  <2>2. bound = [SetScope(inside, var.name, i, 1) EXCEPT !.dangling = @ - 1]
    BY <1>3, <2>1 DEF assign_scope_to_dangling_variable
  <2>3. bound.scope = 1 /\ bound.blocks = inside.blocks
        /\ bound.chains = SetScope(inside, var.name, i, 1).chains
    BY <1>3, <2>2 DEF SetScope, TableOK, Fields
  <2>4. /\ i \in 1 .. Len(Chain(inside, var.name)) /\ var.name \in Names
        /\ Chain(inside, var.name)[i].prehash = Hash[var.name]
        /\ Chain(inside, var.name)[i].scope = SCOPE_DANGLING
    <3>1. var.name \in Names
      BY <1>1, <2>1 DEF Variable
    <3> HIDE DEF i, inside
    <3> QED BY <1>3, <2>1, <3>1, LookupNode DEF TableOK
  <2> HIDE DEF bound, inside, i
  <2>5. scope # 1 /\ (Hash[other] = Hash[var.name] => scope # SCOPE_DANGLING)
    BY <2>1 DEF SCOPE_DANGLING
  <2>6. look(bound) = look(inside)
    BY <1>3, <2>3, <2>4, <2>5, SetScopeLookup DEF TableOK
  <2>7. look(prev_scope(bound)) = look(bound)
    BY <1>6, <2>3, <2>5, PrevScopeLookup
  <2> QED BY <1>2, <1>4, <2>6, <2>7
<1> QED
  BY <1>7, <1>8

---------------------------------------------------------------------------
(* The invariant of the refinement. *)

\* The symbols that a node of t has, in the scope.
Held(t, scope) == {s \in Symbols : \E n \in Nodes(t) : n.prehash = s /\ n.scope = scope}

\* The table has its first block only, and a node more would fit.
OneBlock == tab.blocks = 1 /\ HasRoom(tab)

ResolutionInv ==
    /\ Placed(tab)
    /\ \A n \in Nodes(tab) : n.scope = SCOPE_DANGLING => n.prehash \in Symbols
    /\ \A f \in StdFunctions : \E n \in Nodes(tab) :
          n.prehash = Hash[f] /\ n.scope = 0 /\ types[n.var] = "FUNCTION_TYPE"
    /\ \A i \in DOMAIN params : Hash[params[i].name] \in Symbols
    /\ ~Early => \A n \in Nodes(tab) : n.scope = SCOPE_DANGLING => ~HasParameterHash(n.var)
    /\ state.result = DANGLING_VARIABLES => phase = "program" /\ tab.dangling > 0

\* In a table whose nodes are in their buckets, the lookups of a name see every
\* node of its symbol.
LEMMA HeldNodes ==
    ASSUME NEW V, NEW t, Fields(t, V), Placed(t), NEW name \in Names,
           Hash[name] \in Symbols, NEW scope
    PROVE  Hash[name] \in Held(t, scope) <=> ~NoNode(t, name, scope)
<1> DEFINE b == Bucket(t, name)
<1>1. name \in Names /\ Hash[name] \in Symbols
  OBVIOUS
<1>2. b \in DOMAIN t.chains
  BY <1>1, BucketInRange, NodesType DEF Fields
<1>3. ASSUME NEW n \in Nodes(t), n.prehash = Hash[name], n.scope = scope
      PROVE  ~NoNode(t, name, scope)
  <2>1. PICK c \in DOMAIN t.chains : \E i \in DOMAIN t.chains[c] : n = t.chains[c][i]
    BY NodesDef
  <2>2. PICK i \in DOMAIN t.chains[c] : n = t.chains[c][i]
    BY <2>1
  <2>3. c = b
    BY <1>3, <2>2 DEF Placed, Bucket
  <2>4. i \in SameHash(t, name) /\ Chain(t, name)[i].scope = scope
    BY <1>3, <2>2, <2>3 DEF SameHash, Chain
  <2> QED BY <2>4 DEF NoNode
<1>4. ASSUME NEW i \in SameHash(t, name), Chain(t, name)[i].scope = scope
      PROVE  \E n \in Nodes(t) : n.prehash = Hash[name] /\ n.scope = scope
  <2>1. i \in DOMAIN t.chains[b] /\ t.chains[b][i].prehash = Hash[name]
        /\ t.chains[b][i].scope = scope
    BY <1>4 DEF SameHash, Chain
  <2>2. t.chains[b][i] \in Nodes(t)
    BY <1>2, <2>1, NodesDef
  <2> QED BY <2>1, <2>2
<1> QED
  BY <1>1, <1>3, <1>4 DEF Held, NoNode

LEMMA HeldLookups ==
    ASSUME NEW V, V \subseteq Variable, NEW t, Fields(t, V), t.scope = 0, Placed(t),
           NEW name \in Names, Hash[name] \in Symbols
    PROVE  /\ lookup_variable(t, name) = NULL <=> Hash[name] \notin Held(t, 0)
           /\ lookup_dangling_variable(t, name) = NULL
                 <=> Hash[name] \notin Held(t, SCOPE_DANGLING)
<1>1. name \in Names
  OBVIOUS
<1>2. \A s : lookup_node_in_scope(t, name, s) = 0 <=> NoNode(t, name, s)
  <2> TAKE s
  <2>1. CASE lookup_node_in_scope(t, name, s) = 0
    BY <1>1, <2>1, LookupFails DEF NoNode
  <2>2. CASE lookup_node_in_scope(t, name, s) # 0
    <3> DEFINE i == lookup_node_in_scope(t, name, s)
    <3>1. /\ i \in 1 .. Len(Chain(t, name)) /\ Chain(t, name)[i].prehash = Hash[name]
          /\ Chain(t, name)[i].scope = s
      BY <1>1, <2>2, LookupNode
    <3>2. i \in SameHash(t, name)
      <4> HIDE DEF i
      <4> QED BY <1>1, <3>1, ChainType DEF SameHash
    <3> QED BY <2>2, <3>1, <3>2 DEF NoNode
  <2> QED BY <2>1, <2>2
<1>3. /\ lookup_variable(t, name) = NULL <=> lookup_node_in_scope(t, name, 0) = 0
      /\ lookup_dangling_variable(t, name) = NULL
            <=> lookup_node_in_scope(t, name, SCOPE_DANGLING) = 0
  BY <1>1, LookupAtZero
<1> QED
  BY <1>2, <1>3, HeldNodes

\* SymbolsIn is Held of the table.
LEMMA SymbolsHeld ==
    ASSUME NEW V, Fields(tab, V), Placed(tab), NEW scope
    PROVE  SymbolsIn(scope) = Held(tab, scope)
<1> SUFFICES ASSUME NEW s \in Symbols
             PROVE  s \in SymbolsIn(scope) <=> s \in Held(tab, scope)
  BY DEF SymbolsIn, Held
<1>1. PICK name \in Identifiers : s = Hash[name]
  BY DEF Symbols
<1>2. s \in SymbolsIn(scope) <=> ~NoNode(tab, name, scope)
  BY <1>1 DEF SymbolsIn, NoNode, SameHash, Chain, Bucket
<1>3. name \in Names
  BY IdentifiersAssumption
<1> QED
  BY <1>1, <1>2, <1>3, HeldNodes

---------------------------------------------------------------------------
(* What the calls of the actions do to the symbols. *)

\* The nodes that an operation adds to and removes from those of a reachable
\* scope.
LEMMA HeldAdds ==
    ASSUME NEW t, NEW u, NEW n, Nodes(u) = Nodes(t) \cup {n}, NEW scope
    PROVE  /\ n.scope # scope => Held(u, scope) = Held(t, scope)
           /\ n.scope = scope /\ n.prehash \in Symbols
                 => Held(u, scope) = Held(t, scope) \cup {n.prehash}
BY DEF Held

LEMMA MentionHeld ==
    ASSUME Inv, NameInv, ResolutionInv, OneBlock, Early, NEW name \in Identifiers
    PROVE  LET r == lookup_variable_create_dangling(name)
           IN  /\ r.status = "SUCCESS" /\ Hash[r.var.name] = Hash[name]
               /\ r.tab.blocks = 1 /\ Placed(r.tab) /\ r.tab.scope = 0
               /\ Nodes(tab) \subseteq Nodes(r.tab)
               /\ \A n \in Nodes(r.tab) : n \in Nodes(tab) \/ n.prehash = Hash[name]
               /\ Held(r.tab, 0) = Held(tab, 0)
               /\ Held(r.tab, SCOPE_DANGLING) =
                     IF Hash[name] \in Held(tab, 0) THEN Held(tab, SCOPE_DANGLING)
                     ELSE Held(tab, SCOPE_DANGLING) \cup {Hash[name]}
               /\ r.var \in DOMAIN types => r.tab = tab
               /\ r.tab.size <= tab.size + 1
<1> DEFINE r == lookup_variable_create_dangling(name)
           D == DOMAIN types
           v == New(name)
           q == insert_dangling_variable(tab, v)
<1>1. /\ name \in Names /\ tab.scope = 0 /\ Fields(tab, D) /\ D \subseteq Variable
      /\ TableOK(tab, D) /\ Placed(tab) /\ tab.blocks = 1 /\ HasRoom(tab)
      /\ Hash[name] \in Symbols /\ tab.size \in Nat
  BY IdentifiersAssumption, NodesFacts
     DEF NameInv, TableNames, Inv, ResolutionInv, OneBlock, Symbols
<1>2. /\ lookup_variable(tab, name) = NULL <=> Hash[name] \notin Held(tab, 0)
      /\ lookup_dangling_variable(tab, name) = NULL
            <=> Hash[name] \notin Held(tab, SCOPE_DANGLING)
  BY <1>1, HeldLookups
<1>3. /\ OneNodePerVariable(tab) /\ Hashed(tab) /\ DeclaredFirst(tab)
  BY <1>1 DEF NameInv, TableNames, NodesOK
<1>4. CASE Resolve(name) # NULL
  <2>1. r.var = Resolve(name) /\ r.tab = tab /\ r.status = "SUCCESS"
    BY <1>4 DEF lookup_variable_create_dangling
  <2>2. Hash[r.var.name] = Hash[name]
    <3>1. CASE lookup_variable(tab, name) # NULL
      <4>1. /\ lookup_node_in_scope(tab, name, 0) # 0
            /\ Resolve(name) = lookup_variable_in_scope(tab, name, 0)
        BY <1>1, <3>1, LookupAtZero DEF Resolve
      <4> QED BY <1>1, <1>3, <2>1, <4>1, LookupFinds DEF Hashed
    <3>2. CASE lookup_variable(tab, name) = NULL
      <4>1. /\ lookup_node_in_scope(tab, name, SCOPE_DANGLING) # 0
            /\ Resolve(name) = lookup_variable_in_scope(tab, name, SCOPE_DANGLING)
        BY <1>1, <1>4, <3>2, LookupAtZero DEF Resolve, lookup_dangling_variable
      <4> QED BY <1>1, <1>3, <2>1, <4>1, LookupFinds DEF Hashed
    <3> QED BY <3>1, <3>2
  <2>3. Hash[name] \in Held(tab, 0) \/ Hash[name] \in Held(tab, SCOPE_DANGLING)
    BY <1>2, <1>4 DEF Resolve
  <2> QED BY <1>1, <2>1, <2>2, <2>3
<1>5. CASE Resolve(name) = NULL
  <2> DEFINE W == D \cup {v}
             n == Marked(NodeOf(v))
  <2>1. v \in Variable /\ v.name = name /\ v \notin D /\ Fresh(tab, v)
    BY <1>1, NewIsVariable, NewIsFresh DEF NameInv
  <2>2. NoNode(tab, v.name, 0)
    BY <1>1, <1>5, <2>1, ResolveNull
  <2>3. Hash[name] \notin Held(tab, 0)
    BY <1>2, <1>5 DEF Resolve
  <2>4. r.var = v /\ r.tab = q.tab /\ r.status = q.status
    BY <1>5 DEF lookup_variable_create_dangling
  <2> HIDE DEF r, v
  <2>5. v \in W /\ W \subseteq Variable /\ TableOK(tab, W)
    <3>1. v \in W /\ W \subseteq Variable /\ D \subseteq W
      BY <1>1, <2>1
    <3>2. Fields(tab, W)
      BY <1>1, <3>1, FieldsMonotonic
    <3> QED BY <1>1, <3>1, <3>2 DEF TableOK
  <2> HIDE DEF W
  <2>6. /\ q.status = "SUCCESS" /\ Nodes(q.tab) = Nodes(tab) \cup {n}
        /\ q.tab.blocks = tab.blocks /\ Placed(q.tab)
    BY <1>1, <1>3, <2>1, <2>2, <2>5, InsertDanglingRoom
  <2>7. n.scope = SCOPE_DANGLING /\ n.prehash = Hash[name]
    BY <2>1 DEF Marked, NodeOf
  <2>8. q.tab.scope = 0 /\ q.tab.size <= tab.size + 1
    <3>1. NoNode(tab, v.name, SCOPE_DANGLING)
      BY <1>1, <1>5, <2>1, ResolveNull
    <3> QED BY <1>1, <1>3, <2>1, <2>2, <2>5, <3>1, InsertDanglingNodes
  <2> HIDE DEF q, n
  <2>9. /\ Held(q.tab, 0) = Held(tab, 0)
        /\ Held(q.tab, SCOPE_DANGLING) = Held(tab, SCOPE_DANGLING) \cup {Hash[name]}
    <3>1. SCOPE_DANGLING # 0
      BY DEF SCOPE_DANGLING
    <3> QED BY <1>1, <2>6, <2>7, <3>1, HeldAdds
  <2> QED BY <1>1, <2>1, <2>3, <2>4, <2>6, <2>7, <2>8, <2>9 DEF r
<1> QED
  BY <1>4, <1>5

LEMMA DeclareHeld ==
    ASSUME Inv, NameInv, ResolutionInv, OneBlock, Early, NEW name \in Identifiers
    PROVE  LET r == Declare(name)
           IN  /\ r.status \in {"SUCCESS", "MULTIPLE_DECLARATION"}
               /\ r.status = "SUCCESS" <=> Hash[name] \notin Held(tab, 0)
               /\ r.tab.blocks = 1 /\ Placed(r.tab)
               /\ r.var \notin DOMAIN types
               /\ r.tab.size <= tab.size + 1
               /\ r.status = "SUCCESS" =>
                     /\ Nodes(tab) \subseteq Nodes(r.tab)
                     /\ \A n \in Nodes(r.tab) : n \in Nodes(tab) \/ n.scope = 0
                     /\ Held(r.tab, 0) = Held(tab, 0) \cup {Hash[name]}
                     /\ Held(r.tab, SCOPE_DANGLING) = Held(tab, SCOPE_DANGLING)
<1> DEFINE r == Declare(name)
           D == DOMAIN types
           v == New(name)
           q == insert_variable(tab, v)
           W == D \cup {v}
           n == NodeOf(v)
<1>1. /\ name \in Names /\ tab.scope = 0 /\ Fields(tab, D) /\ D \subseteq Variable
      /\ TableOK(tab, D) /\ Placed(tab) /\ tab.blocks = 1 /\ HasRoom(tab)
      /\ Hash[name] \in Symbols /\ tab.size \in Nat
  BY IdentifiersAssumption, NodesFacts
     DEF NameInv, TableNames, Inv, ResolutionInv, OneBlock, Symbols
<1>2. OneNodePerVariable(tab) /\ DeclaredFirst(tab)
  BY <1>1 DEF NameInv, TableNames, NodesOK
<1>3. v \in Variable /\ v.name = name /\ v \notin D /\ Fresh(tab, v)
  BY <1>1, NewIsVariable, NewIsFresh DEF NameInv
<1>4. r.var = v /\ r.tab = q.tab /\ r.status = q.status
  BY DEF Declare
<1> HIDE DEF r, v
<1>5. v \in W /\ W \subseteq Variable /\ TableOK(tab, W)
  <2>1. v \in W /\ W \subseteq Variable /\ D \subseteq W
    BY <1>1, <1>3
  <2>2. Fields(tab, W)
    BY <1>1, <2>1, FieldsMonotonic
  <2> QED BY <1>1, <2>1, <2>2 DEF TableOK
<1> HIDE DEF W
<1>6. /\ q.status \in {"SUCCESS", "MULTIPLE_DECLARATION"}
      /\ q.status = "SUCCESS" <=> NoNode(tab, v.name, 0)
      /\ q.status = "SUCCESS" => Nodes(q.tab) = Nodes(tab) \cup {n}
      /\ q.tab.blocks = tab.blocks
      /\ Placed(q.tab)
  BY <1>1, <1>2, <1>3, <1>5, InsertVariableRoom
<1>7. n.scope = 0 /\ n.prehash = Hash[name]
  BY <1>3 DEF NodeOf
<1>8. Hash[name] \in Held(tab, 0) <=> ~NoNode(tab, v.name, 0)
  BY <1>1, <1>3, HeldNodes
<1>9. SCOPE_DANGLING # 0
  BY DEF SCOPE_DANGLING
<1>11. q.tab.size <= tab.size + 1
  BY <1>1, <1>2, <1>3, <1>5, InsertVariableNodes
<1> HIDE DEF q, n
<1>10. q.status = "SUCCESS" =>
          /\ Held(q.tab, 0) = Held(tab, 0) \cup {Hash[name]}
          /\ Held(q.tab, SCOPE_DANGLING) = Held(tab, SCOPE_DANGLING)
  BY <1>1, <1>6, <1>7, <1>9, HeldAdds
<1> QED
  BY <1>1, <1>3, <1>4, <1>6, <1>7, <1>8, <1>10, <1>11 DEF r

\* Binding a dangling variable moves its symbol to the scope, and no other.
LEMMA AssignHeld ==
    ASSUME NEW V, V \subseteq Variable, NEW t, TableOK(t, V), OneNodePerVariable(t),
           Placed(t), OneDangling(t), NEW var \in V, is_dangling(t, var),
           Hash[var.name] \in Symbols
    PROVE  LET u == assign_scope_to_dangling_variable(t, var)
               h == Hash[var.name]
           IN  /\ Placed(u)
               /\ h \in Held(t, SCOPE_DANGLING)
               /\ Held(u, SCOPE_DANGLING) = Held(t, SCOPE_DANGLING) \ {h}
               /\ Held(u, 0) = IF t.scope = 0 THEN Held(t, 0) \cup {h} ELSE Held(t, 0)
               /\ \A n \in Nodes(t) : n.scope # SCOPE_DANGLING => n \in Nodes(u)
               /\ \A n \in Nodes(u) : n.scope = SCOPE_DANGLING => n \in Nodes(t)
<1> DEFINE u == assign_scope_to_dangling_variable(t, var)
           h == Hash[var.name]
           i == lookup_node_in_scope(t, var.name, SCOPE_DANGLING)
           m == Chain(t, var.name)[i]
           new == [m EXCEPT !.scope = t.scope]
<1>1. /\ Fields(t, V) /\ t.scope \in Nat /\ var.name \in Names
      /\ SCOPE_DANGLING = -1
  BY DEF TableOK, Fields, Variable, SCOPE_DANGLING
<1>2. /\ m \in Nodes(t) /\ m \in NodeOver(V)
      /\ m.scope = SCOPE_DANGLING /\ m.prehash = h
      /\ Nodes(u) = (Nodes(t) \ {m}) \cup {new}
      /\ u.scope = t.scope /\ u.blocks = t.blocks
  BY AssignNodes
<1>3. new.prehash = h /\ new.scope = t.scope
  BY <1>2 DEF NodeOver
<1>4. Placed(u)
  <2>1. i # 0
    BY DEF is_dangling, lookup_dangling_variable, lookup_variable_in_scope
  <2>2. i \in 1 .. Len(Chain(t, var.name))
    BY <1>1, <2>1, LookupNode
  <2>3. u = [SetScope(t, var.name, i, t.scope) EXCEPT !.dangling = @ - 1]
    BY DEF assign_scope_to_dangling_variable
  <2> HIDE DEF i
  <2>4. u.chains = SetScope(t, var.name, i, t.scope).chains
    BY <1>1, <2>3 DEF SetScope, Fields
  <2> HIDE DEF u
  <2> QED BY <1>1, <1>2, <2>2, <2>4, PlacedSetScope
<1> HIDE DEF u, m, new, h
<1>5. \A n \in Nodes(t) : n.prehash = h /\ n.scope = SCOPE_DANGLING => n = m
  BY <1>1, <1>2, UniqueNode
<1>6. h \in Symbols
  BY DEF h
<1>7. h \in Held(t, SCOPE_DANGLING)
  BY <1>2, <1>6 DEF Held
<1>8. Held(u, SCOPE_DANGLING) = Held(t, SCOPE_DANGLING) \ {h}
  <2>1. ASSUME NEW s \in Symbols, s \in Held(u, SCOPE_DANGLING)
        PROVE  s \in Held(t, SCOPE_DANGLING) /\ s # h
    <3>1. PICK n \in Nodes(u) : n.prehash = s /\ n.scope = SCOPE_DANGLING
      BY <2>1 DEF Held
    <3>2. n \in Nodes(t) /\ n # m
      BY <1>1, <1>2, <1>3, <3>1
    <3> QED BY <1>5, <3>1, <3>2 DEF Held
  <2>2. ASSUME NEW s \in Symbols, s \in Held(t, SCOPE_DANGLING), s # h
        PROVE  s \in Held(u, SCOPE_DANGLING)
    <3>1. PICK n \in Nodes(t) : n.prehash = s /\ n.scope = SCOPE_DANGLING
      BY <2>2 DEF Held
    <3>2. n \in Nodes(u)
      BY <1>2, <2>2, <3>1
    <3> QED BY <3>1, <3>2 DEF Held
  <2>3. /\ Held(u, SCOPE_DANGLING) \subseteq Symbols
        /\ Held(t, SCOPE_DANGLING) \subseteq Symbols
    BY DEF Held
  <2> QED BY <2>1, <2>2, <2>3
<1>9. Held(u, 0) = IF t.scope = 0 THEN Held(t, 0) \cup {h} ELSE Held(t, 0)
  <2>1. \A s \in Symbols : s \in Held(u, 0) <=>
           s \in Held(t, 0) \/ (t.scope = 0 /\ s = h)
    <3> TAKE s \in Symbols
    <3>1. \A n : n \in Nodes(u) /\ n.scope = 0 <=>
             (n \in Nodes(t) /\ n.scope = 0) \/ (n = new /\ t.scope = 0)
      BY <1>1, <1>2, <1>3
    <3> QED BY <1>3, <3>1 DEF Held
  <2>2. Held(u, 0) \subseteq Symbols /\ Held(t, 0) \subseteq Symbols
    BY DEF Held
  <2> QED BY <1>6, <2>1, <2>2
<1>10. /\ \A n \in Nodes(t) : n.scope # SCOPE_DANGLING => n \in Nodes(u)
       /\ \A n \in Nodes(u) : n.scope = SCOPE_DANGLING => n \in Nodes(t)
  BY <1>1, <1>2, <1>3
<1> QED
  BY <1>4, <1>7, <1>8, <1>9, <1>10 DEF u, h

LEMMA LoopHeld ==
    ASSUME Inv, NameInv, ResolutionInv, OneBlock, NEW name \in Identifiers,
           grammar_new_loop(name)
    PROVE  /\ tab'.blocks = 1 /\ Placed(tab') /\ tab'.size = tab.size
           /\ Held(tab', 0) = Held(tab, 0)
           /\ Held(tab', SCOPE_DANGLING) = Held(tab, SCOPE_DANGLING) \ {Hash[name]}
           /\ \A n \in Nodes(tab) : n.scope = 0 => n \in Nodes(tab')
           /\ \A n \in Nodes(tab') : n.scope = SCOPE_DANGLING => n \in Nodes(tab)
           /\ \A v \in DOMAIN types : types[v] # "UNKNOWN_TYPE" => types'[v] = types[v]
<1> DEFINE D == DOMAIN types
           var == lookup_dangling_variable(tab, name)
           inside == next_scope(tab)
           bound == assign_scope_to_dangling_variable(inside, var)
<1>1. /\ name \in Names /\ tab.scope = 0 /\ Fields(tab, D) /\ D \subseteq Variable
      /\ TableOK(tab, D) /\ Placed(tab) /\ tab.blocks = 1 /\ Hash[name] \in Symbols
      /\ Early
  BY IdentifiersAssumption, NodesFacts
     DEF NameInv, TableNames, Inv, ResolutionInv, OneBlock, Symbols, grammar_new_loop,
         Closing, Parsing, Early
<1>2. /\ OneNodePerVariable(tab) /\ OneDangling(tab)
      /\ \A n \in Nodes(tab) : n.scope = SCOPE_DANGLING => types[n.var] = "UNKNOWN_TYPE"
  BY <1>1 DEF NameInv, TableNames, NodesOK
<1>3. /\ tab' = prev_scope(bound)
      /\ types' = IF var = NULL THEN types ELSE [types EXCEPT ![var] = "LOOP_VARIABLE_TYPE"]
  BY DEF grammar_new_loop
<1>4. /\ TableOK(inside, D) /\ inside.scope = 1 /\ inside.blocks = tab.blocks
      /\ inside.chains = tab.chains /\ inside.size = tab.size
  BY <1>1, NextScopeOK DEF next_scope, Fields
<1>5. /\ Nodes(inside) = Nodes(tab) /\ OneNodePerVariable(inside) /\ OneDangling(inside)
  BY <1>1, <1>2, NextScopeNodes
<1>6. Placed(inside)
  BY <1>1, <1>4 DEF Placed, BucketCount
<1>7. \A s : Held(inside, s) = Held(tab, s)
  BY <1>5 DEF Held
<1>8. var \in D \cup {NULL}
  BY <1>1, LookupVariable
<1>9. TableOK(bound, D)
  BY <1>1, <1>4, <1>8, AssignScopeOK
<1>10. /\ var = NULL => bound = inside /\ Hash[name] \notin Held(tab, SCOPE_DANGLING)
       /\ var # NULL => /\ Hash[var.name] = Hash[name] /\ is_dangling(inside, var)
                        /\ types[var] = "UNKNOWN_TYPE"
  <2>1. ASSUME var = NULL
        PROVE  bound = inside /\ Hash[name] \notin Held(tab, SCOPE_DANGLING)
    <3>1. bound = inside
      BY <2>1 DEF assign_scope_to_dangling_variable, is_dangling
    <3> QED BY <1>1, <2>1, <3>1, HeldLookups
  <2>2. ASSUME var # NULL
        PROVE  /\ Hash[var.name] = Hash[name] /\ is_dangling(inside, var)
               /\ types[var] = "UNKNOWN_TYPE"
    <3>1. /\ lookup_node_in_scope(tab, name, SCOPE_DANGLING) # 0
          /\ Hash[var.name] = Hash[name] /\ is_dangling(inside, var)
      BY <1>1, <2>2, LoopVariable
    <3>2. \E n \in Nodes(tab) : n.var = var /\ n.scope = SCOPE_DANGLING
      BY <1>1, <3>1, LookupFinds DEF lookup_dangling_variable
    <3> QED BY <1>2, <3>1, <3>2
  <2> QED BY <2>1, <2>2
<1> HIDE DEF var, inside, bound
<1>11. /\ Placed(bound)
       /\ Held(bound, 0) = Held(tab, 0)
       /\ Held(bound, SCOPE_DANGLING) = Held(tab, SCOPE_DANGLING) \ {Hash[name]}
       /\ \A n \in Nodes(tab) : n.scope # SCOPE_DANGLING => n \in Nodes(bound)
       /\ \A n \in Nodes(bound) : n.scope = SCOPE_DANGLING => n \in Nodes(tab)
       /\ bound.scope = 1 /\ bound.blocks = 1 /\ bound.size = tab.size
  <2>1. CASE var = NULL
    BY <1>1, <1>4, <1>5, <1>6, <1>7, <1>10, <2>1
  <2>2. CASE var # NULL
    <3>1. var \in D /\ Hash[var.name] \in Symbols /\ is_dangling(inside, var)
          /\ Hash[var.name] = Hash[name]
      BY <1>1, <1>8, <1>10, <2>2
    <3> DEFINE h == Hash[var.name]
    <3>2. /\ Placed(bound)
          /\ h \in Held(inside, SCOPE_DANGLING)
          /\ Held(bound, SCOPE_DANGLING) = Held(inside, SCOPE_DANGLING) \ {h}
          /\ Held(bound, 0) = IF inside.scope = 0 THEN Held(inside, 0) \cup {h}
                                                  ELSE Held(inside, 0)
          /\ \A n \in Nodes(inside) : n.scope # SCOPE_DANGLING => n \in Nodes(bound)
          /\ \A n \in Nodes(bound) : n.scope = SCOPE_DANGLING => n \in Nodes(inside)
      BY <1>1, <1>4, <1>5, <1>6, <3>1, AssignHeld DEF bound
    <3>3. /\ bound.scope = inside.scope /\ bound.blocks = inside.blocks
          /\ bound.size = inside.size
      BY <1>1, <1>4, <1>5, <3>1, AssignNodes DEF bound
    <3> QED BY <1>1, <1>4, <1>5, <1>7, <3>1, <3>2, <3>3
  <2> QED BY <2>1, <2>2
<1>12. /\ ChainSuffixes(tab', bound) /\ tab'.blocks = 1 /\ tab'.size = tab.size
       /\ \A n \in Nodes(bound) : n.scope # 1 => n \in Nodes(tab')
       /\ Nodes(tab') \subseteq Nodes(bound)
  <2>1. Fields(bound, D) /\ Fields(prev_scope(bound), D)
    BY <1>9, PrevScopeOK DEF TableOK
  <2>2. /\ ChainSuffixes(prev_scope(bound), bound)
        /\ prev_scope(bound).blocks = bound.blocks
        /\ prev_scope(bound).size = bound.size
        /\ \A n \in Nodes(bound) : n.scope # bound.scope => n \in Nodes(prev_scope(bound))
    BY <2>1, PrevScopeSuffix
  <2>3. Nodes(prev_scope(bound)) \subseteq Nodes(bound)
    BY <2>1, <2>2, SuffixNodes
  <2> QED BY <1>3, <1>11, <2>2, <2>3
<1>13. Placed(tab')
  BY <1>11, <1>12, PlacedSuffix
<1>14. SCOPE_DANGLING = -1
  BY DEF SCOPE_DANGLING
<1>15. \A s \in {0, SCOPE_DANGLING} : Held(tab', s) = Held(bound, s)
  BY <1>12, <1>14 DEF Held
<1>16. \A v \in D : types[v] # "UNKNOWN_TYPE" => types'[v] = types[v]
  <2>1. types = [v \in D |-> types[v]]
    BY DEF Inv, TypeOK
  <2> QED BY <1>3, <1>10, <2>1
<1> QED
  BY <1>11, <1>12, <1>13, <1>14, <1>15, <1>16

\* The symbols of the first k parameters.
FirstParameters(k) == {Hash[params[i].name] : i \in 1 .. k}

\* The tables after the first k parameters have been bound.
BoundTables(k) ==
    {t \in Binding :
        /\ Placed(t) /\ OneDangling(t) /\ t.size = tab.size
        /\ Held(t, 0) = Held(tab, 0) \cup (FirstParameters(k) \cap Held(tab, SCOPE_DANGLING))
        /\ Held(t, SCOPE_DANGLING) = Held(tab, SCOPE_DANGLING) \ FirstParameters(k)
        /\ \A n \in Nodes(tab) : n.scope = 0 => n \in Nodes(t)
        /\ \A n \in Nodes(t) : n.scope = SCOPE_DANGLING => n \in Nodes(tab)}

LEMMA BoundTablesStep ==
    ASSUME Inv, ResolutionInv, NEW k \in DOMAIN params, NEW t \in BoundTables(k - 1)
    PROVE  assign_scope_to_dangling_variable(t, params[k]) \in BoundTables(k)
<1> DEFINE D == DOMAIN types
           var == params[k]
           h == Hash[var.name]
           u == assign_scope_to_dangling_variable(t, var)
           P == FirstParameters(k - 1)
           Q == FirstParameters(k)
<1>1. /\ D \subseteq Variable /\ var \in D /\ var.name \in Names /\ h \in Symbols
      /\ k \in Nat /\ k >= 1
  <2>1. var \in D /\ k \in Nat /\ k >= 1
    BY ElementOfSeq, LenProperties DEF Inv, TypeOK
  <2>2. D \subseteq Variable
    BY NodesFacts
  <2> QED BY <2>1, <2>2 DEF ResolutionInv, Variable
<1>2. /\ t \in Binding /\ TableOK(t, D) /\ Fields(t, D) /\ t.scope = 0
      /\ OneNodePerVariable(t)
      /\ Placed(t) /\ OneDangling(t) /\ t.size = tab.size
      /\ Held(t, 0) = Held(tab, 0) \cup (P \cap Held(tab, SCOPE_DANGLING))
      /\ Held(t, SCOPE_DANGLING) = Held(tab, SCOPE_DANGLING) \ P
      /\ \A n \in Nodes(tab) : n.scope = 0 => n \in Nodes(t)
      /\ \A n \in Nodes(t) : n.scope = SCOPE_DANGLING => n \in Nodes(tab)
  BY DEF BoundTables, Binding, NodesOK, TableOK
<1>3. u \in Binding
  BY <1>2, BindingStep
<1>4. Q = P \cup {h}
  <2>1. \A i : i \in 1 .. k <=> i \in 1 .. k - 1 \/ i = k
    BY <1>1
  <2> QED BY <2>1 DEF FirstParameters
<1>5. 0 # SCOPE_DANGLING
  BY DEF SCOPE_DANGLING
<1>6. CASE is_dangling(t, var)
  <2>1. /\ Placed(u)
        /\ h \in Held(t, SCOPE_DANGLING)
        /\ Held(u, SCOPE_DANGLING) = Held(t, SCOPE_DANGLING) \ {h}
        /\ Held(u, 0) = IF t.scope = 0 THEN Held(t, 0) \cup {h} ELSE Held(t, 0)
        /\ \A n \in Nodes(t) : n.scope # SCOPE_DANGLING => n \in Nodes(u)
        /\ \A n \in Nodes(u) : n.scope = SCOPE_DANGLING => n \in Nodes(t)
    BY <1>1, <1>2, <1>6, AssignHeld
  <2>2. OneDangling(u) /\ u.size = t.size
    BY <1>1, <1>2, <1>6, AssignNodes
  <2> HIDE DEF u, h, P, Q
  <2> QED BY <1>2, <1>3, <1>4, <1>5, <2>1, <2>2 DEF BoundTables, u, P, Q
<1>7. CASE ~is_dangling(t, var)
  <2>1. u = t
    BY <1>7 DEF assign_scope_to_dangling_variable
  <2>2. h \notin Held(t, SCOPE_DANGLING)
    <3>1. var # NULL
      BY <1>1, NullAssumption
    <3>2. lookup_dangling_variable(t, var.name) = NULL
      BY <1>7, <3>1 DEF is_dangling
    <3> QED BY <1>1, <1>2, <3>2, HeldLookups
  <2> HIDE DEF u, h, P, Q
  <2> QED BY <1>2, <1>3, <1>4, <2>1, <2>2 DEF BoundTables, u, P, Q
<1> QED
  BY <1>6, <1>7

LEMMA FunctionHeld ==
    ASSUME Inv, NameInv, ResolutionInv, OneBlock, grammar_new_function
    PROVE  tab' \in BoundTables(Len(params))
<1> DEFINE n == Len(params)
           G == [k \in 0 .. n |-> BoundTables(k)]
<1>1. n \in Nat /\ DOMAIN params = 1 .. n
  BY LenProperties DEF Inv, TypeOK
<1>2. tab \in BoundTables(0)
  <2>1. Early /\ tab.blocks = 1
    BY DEF grammar_new_function, Parsing, Early, OneBlock
  <2>2. tab \in Binding
    BY TabInBinding DEF grammar_new_function, Parsing
  <2>3. FirstParameters(0) = {}
    BY DEF FirstParameters
  <2>4. Placed(tab) /\ OneDangling(tab)
    BY <2>1 DEF ResolutionInv, NameInv, TableNames
  <2> QED BY <2>2, <2>3, <2>4 DEF BoundTables
<1>3. \A k \in 1 .. n : \A u \in G[k - 1] :
         assign_scope_to_dangling_variable(u, params[k]) \in G[k]
  <2>1. \A k \in 1 .. n : G[k - 1] = BoundTables(k - 1) /\ G[k] = BoundTables(k)
    BY <1>1
  <2> HIDE DEF G
  <2> QED BY <1>1, <2>1, BoundTablesStep
<1>4. G[0] = BoundTables(0) /\ G[n] = BoundTables(n)
  BY <1>1
<1> HIDE DEF G
<1> QED
  BY <1>1, <1>2, <1>3, <1>4, AssignScopesInduction DEF grammar_new_function

---------------------------------------------------------------------------
(* The steps of NameResolution, in terms of Held. *)

ParameterSymbols == {Hash[params[i].name] : i \in DOMAIN params}

Mapped == [Resolution!Next]_(Resolution!vars)

LEMMA SymbolsNow ==
    Inv /\ Placed(tab) => /\ SymbolsIn(0) = Held(tab, 0)
                          /\ SymbolsIn(SCOPE_DANGLING) = Held(tab, SCOPE_DANGLING)
BY NodesFacts, SymbolsHeld

LEMMA SymbolsNext ==
    Inv' /\ Placed(tab') => /\ SymbolsIn(0)' = Held(tab', 0)
                            /\ SymbolsIn(SCOPE_DANGLING)' = Held(tab', SCOPE_DANGLING)
<1>1. Inv /\ Placed(tab) => /\ SymbolsIn(0) = Held(tab, 0)
                            /\ SymbolsIn(SCOPE_DANGLING) = Held(tab, SCOPE_DANGLING)
  BY SymbolsNow
<1>2. (Inv /\ Placed(tab) => /\ SymbolsIn(0) = Held(tab, 0)
                             /\ SymbolsIn(SCOPE_DANGLING) = Held(tab, SCOPE_DANGLING))'
  BY <1>1, PTL
<1> QED
  BY <1>2 DEF Held

\* The verdict that each end of the process stands for.
VerdictsHold ==
    /\ exit = Running => Verdict = "compiling"
    /\ exit = [code |-> 1, by |-> "multiple_declaration"] => Verdict = "redeclared"
    /\ exit = [code |-> 1, by |-> "variable_not_found"] => Verdict = "not_found"
    /\ exit = [code |-> 1, by |-> "function_not_found"] => Verdict = "not_found"
    /\ exit = [code |-> 1, by |-> "SYNTAX_ERROR"] => Verdict = "malformed"
    /\ exit = [code |-> 2, by |-> "DANGLING_VARIABLES"] => Verdict = "malformed"
    /\ exit = [code |-> 139, by |-> "null_list"] => Verdict = "malformed"
    /\ exit = [code |-> 0, by |-> "FINISHED"] => Verdict = "accepted"
    /\ exit = [code |-> 255, by |-> "FINISHED"] =>
          Verdict = IF state.result = DANGLING_VARIABLES THEN "dangling" ELSE "malformed"

LEMMA Verdicts == VerdictsHold
<1>1. exit = Running => Verdict = "compiling"
  BY DEF Verdict, Running
<1>2. exit = [code |-> 1, by |-> "multiple_declaration"] => Verdict = "redeclared"
  BY DEF Verdict, Running
<1>3. exit = [code |-> 1, by |-> "variable_not_found"] => Verdict = "not_found"
  BY DEF Verdict, Running
<1>4. exit = [code |-> 1, by |-> "function_not_found"] => Verdict = "not_found"
  BY DEF Verdict, Running
<1>5. exit = [code |-> 1, by |-> "SYNTAX_ERROR"] => Verdict = "malformed"
  BY DEF Verdict, Running
<1>6. exit = [code |-> 2, by |-> "DANGLING_VARIABLES"] => Verdict = "malformed"
  BY DEF Verdict, Running
<1>7. exit = [code |-> 139, by |-> "null_list"] => Verdict = "malformed"
  BY DEF Verdict, Running
<1>8. exit = [code |-> 0, by |-> "FINISHED"] => Verdict = "accepted"
  BY DEF Verdict, Running
<1>9. exit = [code |-> 255, by |-> "FINISHED"] =>
          Verdict = IF state.result = DANGLING_VARIABLES THEN "dangling" ELSE "malformed"
  BY DEF Verdict, Running
<1> QED
  BY <1>1, <1>2, <1>3, <1>4, <1>5, <1>6, <1>7, <1>8, <1>9 DEF VerdictsHold

LEMMA VerdictsNext == VerdictsHold'
BY Verdicts, PTL

\* Which states a step relates: those of Linked.
Linked ==
    /\ Inv /\ Placed(tab) /\ exit = Running
    /\ Inv' /\ Placed(tab')

LEMMA MapStutter ==
    ASSUME Linked, exit' = Running,
           Held(tab', 0) = Held(tab, 0),
           Held(tab', SCOPE_DANGLING) = Held(tab, SCOPE_DANGLING),
           ParameterSymbols' = ParameterSymbols
    PROVE  Mapped
<1>1. Verdict' = Verdict
  BY Verdicts, VerdictsNext DEF Linked, VerdictsHold
<1>2. /\ SymbolsIn(0)' = SymbolsIn(0)
      /\ SymbolsIn(SCOPE_DANGLING)' = SymbolsIn(SCOPE_DANGLING)
  BY SymbolsNow, SymbolsNext DEF Linked
<1> QED
  BY <1>1, <1>2 DEF Mapped, Resolution!vars, ParameterSymbols

LEMMA MapMention ==
    ASSUME Linked, exit' = Running, NEW s \in Symbols,
           Held(tab', 0) = Held(tab, 0),
           Held(tab', SCOPE_DANGLING) = IF s \in Held(tab, 0) THEN Held(tab, SCOPE_DANGLING)
                                        ELSE Held(tab, SCOPE_DANGLING) \cup {s},
           ParameterSymbols' \in {ParameterSymbols, ParameterSymbols \cup {s}}
    PROVE  Mapped
<1>1. Verdict = "compiling" /\ Verdict' = Verdict
  BY Verdicts, VerdictsNext DEF Linked, VerdictsHold
<1>2. /\ SymbolsIn(0)' = SymbolsIn(0)
      /\ SymbolsIn(SCOPE_DANGLING)' = IF s \in SymbolsIn(0) THEN SymbolsIn(SCOPE_DANGLING)
                                      ELSE SymbolsIn(SCOPE_DANGLING) \cup {s}
  BY SymbolsNow, SymbolsNext DEF Linked
<1>3. CASE ParameterSymbols' = ParameterSymbols
  <2>1. Resolution!Mention(s)
    BY <1>1, <1>2, <1>3 DEF Resolution!Mention, Resolution!Compiling, ParameterSymbols
  <2> QED BY <2>1 DEF Mapped, Resolution!Next
<1>4. CASE ParameterSymbols' = ParameterSymbols \cup {s}
  <2>1. Resolution!Parameter(s)
    BY <1>1, <1>2, <1>4 DEF Resolution!Parameter, Resolution!Compiling, ParameterSymbols
  <2> QED BY <2>1 DEF Mapped, Resolution!Next
<1> QED
  BY <1>3, <1>4

LEMMA MapDeclare ==
    ASSUME Linked, exit' = Running, NEW s \in Symbols, s \notin Held(tab, 0),
           Held(tab', 0) = Held(tab, 0) \cup {s},
           Held(tab', SCOPE_DANGLING) = Held(tab, SCOPE_DANGLING),
           ParameterSymbols' = ParameterSymbols
    PROVE  Mapped
<1>1. Verdict = "compiling" /\ Verdict' = Verdict
  BY Verdicts, VerdictsNext DEF Linked, VerdictsHold
<1>2. /\ SymbolsIn(0)' = SymbolsIn(0) \cup {s} /\ s \notin SymbolsIn(0)
      /\ SymbolsIn(SCOPE_DANGLING)' = SymbolsIn(SCOPE_DANGLING)
  BY SymbolsNow, SymbolsNext DEF Linked
<1>3. Resolution!Declare(s)
  BY <1>1, <1>2 DEF Resolution!Declare, Resolution!Compiling, ParameterSymbols
<1> QED
  BY <1>3 DEF Mapped, Resolution!Next

LEMMA MapBind ==
    ASSUME Linked, exit' = Running, NEW s \in Symbols,
           Held(tab', 0) = Held(tab, 0),
           Held(tab', SCOPE_DANGLING) = Held(tab, SCOPE_DANGLING) \ {s},
           ParameterSymbols' = ParameterSymbols
    PROVE  Mapped
<1>1. Verdict = "compiling" /\ Verdict' = Verdict
  BY Verdicts, VerdictsNext DEF Linked, VerdictsHold
<1>2. /\ SymbolsIn(0)' = SymbolsIn(0)
      /\ SymbolsIn(SCOPE_DANGLING)' = SymbolsIn(SCOPE_DANGLING) \ {s}
  BY SymbolsNow, SymbolsNext DEF Linked
<1>3. Resolution!Bind(s)
  BY <1>1, <1>2 DEF Resolution!Bind, Resolution!Compiling, ParameterSymbols
<1> QED
  BY <1>3 DEF Mapped, Resolution!Next

LEMMA MapBindParameters ==
    ASSUME Linked, exit' = Running,
           Held(tab', 0) = Held(tab, 0) \cup (ParameterSymbols \cap Held(tab, SCOPE_DANGLING)),
           Held(tab', SCOPE_DANGLING) = Held(tab, SCOPE_DANGLING) \ ParameterSymbols,
           ParameterSymbols' = ParameterSymbols
    PROVE  Mapped
<1>1. Verdict = "compiling" /\ Verdict' = Verdict
  BY Verdicts, VerdictsNext DEF Linked, VerdictsHold
<1>2. /\ SymbolsIn(0)' = SymbolsIn(0) \cup (ParameterSymbols \cap SymbolsIn(SCOPE_DANGLING))
      /\ SymbolsIn(SCOPE_DANGLING)' = SymbolsIn(SCOPE_DANGLING) \ ParameterSymbols
  BY SymbolsNow, SymbolsNext DEF Linked
<1>3. Resolution!BindParameters
  BY <1>1, <1>2 DEF Resolution!BindParameters, Resolution!Compiling, ParameterSymbols
<1> QED
  BY <1>3 DEF Mapped, Resolution!Next

\* The steps that end the process and leave the rest alone.
LEMMA MapEnd ==
    ASSUME Linked, tab' = tab, ParameterSymbols' = ParameterSymbols,
           \/ Verdict' = "malformed"
           \/ Verdict' = "redeclared" /\ \E s \in Symbols : s \in Held(tab, 0)
           \/ Verdict' = "not_found" /\ \E s \in Symbols :
                 \/ s \notin Held(tab, 0)
                 \/ s \notin {Hash[f] : f \in StdFunctions} \cap Symbols
           \/ /\ ParameterSymbols \cap Held(tab, SCOPE_DANGLING) = {}
              /\ Verdict' = IF Held(tab, SCOPE_DANGLING) = {} THEN "accepted" ELSE "dangling"
    PROVE  Mapped
<1>1. Verdict = "compiling"
  BY Verdicts DEF Linked, VerdictsHold
<1>2. /\ SymbolsIn(0)' = SymbolsIn(0) /\ SymbolsIn(0) = Held(tab, 0)
      /\ SymbolsIn(SCOPE_DANGLING)' = SymbolsIn(SCOPE_DANGLING)
      /\ SymbolsIn(SCOPE_DANGLING) = Held(tab, SCOPE_DANGLING)
  BY SymbolsNow, SymbolsNext DEF Linked
<1>3. CASE Verdict' = "malformed"
  <2>1. Resolution!Malformed
    BY <1>1, <1>2, <1>3
       DEF Resolution!Malformed, Resolution!End, Resolution!Compiling, ParameterSymbols
  <2> QED BY <2>1 DEF Mapped, Resolution!Next
<1>4. CASE Verdict' = "redeclared" /\ \E s \in Symbols : s \in Held(tab, 0)
  <2>1. PICK s \in Symbols : s \in Held(tab, 0)
    BY <1>4
  <2>2. Resolution!Declare(s)
    BY <1>1, <1>2, <1>4, <2>1
       DEF Resolution!Declare, Resolution!End, Resolution!Compiling, ParameterSymbols
  <2> QED BY <2>2 DEF Mapped, Resolution!Next
<1>5. ASSUME Verdict' = "not_found", NEW s \in Symbols,
             \/ s \notin Held(tab, 0)
             \/ s \notin {Hash[f] : f \in StdFunctions} \cap Symbols
      PROVE  Mapped
  <2>1. CASE s \notin Held(tab, 0)
    <3>1. Resolution!Require(s)
      BY <1>1, <1>2, <1>5, <2>1
         DEF Resolution!Require, Resolution!End, Resolution!Compiling, ParameterSymbols
    <3> QED BY <3>1 DEF Mapped, Resolution!Next
  <2>2. CASE s \notin {Hash[f] : f \in StdFunctions} \cap Symbols
    <3>1. Resolution!Call(s)
      BY <1>1, <1>2, <1>5, <2>2
         DEF Resolution!Call, Resolution!End, Resolution!Compiling, ParameterSymbols
    <3> QED BY <3>1 DEF Mapped, Resolution!Next
  <2> QED BY <1>5, <2>1, <2>2
<1>6. CASE /\ ParameterSymbols \cap Held(tab, SCOPE_DANGLING) = {}
           /\ Verdict' = IF Held(tab, SCOPE_DANGLING) = {} THEN "accepted" ELSE "dangling"
  <2>1. Resolution!Judge
    BY <1>1, <1>2, <1>6
       DEF Resolution!Judge, Resolution!End, Resolution!Compiling, ParameterSymbols
  <2> QED BY <2>1 DEF Mapped, Resolution!Next
<1> QED
  BY <1>3, <1>4, <1>5, <1>6

---------------------------------------------------------------------------
(* The invariant and the mapping, action by action. *)

\* The states the refinement starts a step from.
Refining == Inv /\ NameInv /\ ResolutionInv /\ OneBlock

\* What a step before the end of the function must do for ResolutionInv.
LEMMA ResolutionKept ==
    ASSUME Refining, Inv', Early, Early', Placed(tab'),
           \A n \in Nodes(tab) : n.scope = 0 => n \in Nodes(tab'),
           \A n \in Nodes(tab') : n.scope = SCOPE_DANGLING =>
              n \in Nodes(tab) \/ n.prehash \in Symbols,
           \A v \in DOMAIN types : types[v] # "UNKNOWN_TYPE" => types'[v] = types[v],
           \A i \in DOMAIN params' : Hash[params'[i].name] \in Symbols,
           state'.result = state.result
    PROVE  ResolutionInv'
<1>1. \A n \in Nodes(tab') : n.scope = SCOPE_DANGLING => n.prehash \in Symbols
  BY DEF Refining, ResolutionInv
<1>2. ASSUME NEW f \in StdFunctions
      PROVE  \E n \in Nodes(tab') :
                n.prehash = Hash[f] /\ n.scope = 0 /\ types'[n.var] = "FUNCTION_TYPE"
  <2>1. PICK n \in Nodes(tab) :
           n.prehash = Hash[f] /\ n.scope = 0 /\ types[n.var] = "FUNCTION_TYPE"
    BY <1>2 DEF Refining, ResolutionInv
  <2>2. n.var \in DOMAIN types
    BY NodesFacts DEF Refining
  <2>3. types'[n.var] = "FUNCTION_TYPE"
    BY <2>1, <2>2
  <2> QED BY <2>1, <2>3
<1>3. state'.result # DANGLING_VARIABLES
  BY DEF Refining, ResolutionInv, Early
<1> QED
  BY <1>1, <1>2, <1>3 DEF ResolutionInv

\* The steps that leave the table and the variables alone.
LEMMA ResolutionFrame ==
    ASSUME Refining, Inv', Early, Early', UNCHANGED <<tab, types, params>>,
           state'.result = state.result
    PROVE  ResolutionInv'
<1>1. /\ Placed(tab') /\ \A i \in DOMAIN params' : Hash[params'[i].name] \in Symbols
      /\ Nodes(tab') = Nodes(tab)
  BY DEF Refining, ResolutionInv
<1> QED
  BY <1>1, ResolutionKept

\* A mention that goes on.
LEMMA MentionStep ==
    ASSUME Refining, Early, exit = Running, NEW name \in Identifiers,
           Continue(lookup_variable_create_dangling(name), "UNKNOWN_TYPE")
    PROVE  /\ exit' = Running /\ Placed(tab')
           /\ Hash[lookup_variable_create_dangling(name).var.name] = Hash[name]
           /\ Held(tab', 0) = Held(tab, 0)
           /\ Held(tab', SCOPE_DANGLING) =
                 IF Hash[name] \in Held(tab, 0) THEN Held(tab, SCOPE_DANGLING)
                 ELSE Held(tab, SCOPE_DANGLING) \cup {Hash[name]}
           /\ \A n \in Nodes(tab) : n \in Nodes(tab')
           /\ \A n \in Nodes(tab') : n \in Nodes(tab) \/ n.prehash \in Symbols
           /\ \A v \in DOMAIN types : types'[v] = types[v]
<1> DEFINE r == lookup_variable_create_dangling(name)
<1>1. /\ r.status = "SUCCESS" /\ Hash[r.var.name] = Hash[name]
      /\ r.tab.blocks = 1 /\ Placed(r.tab) /\ r.tab.scope = 0
      /\ Nodes(tab) \subseteq Nodes(r.tab)
      /\ \A n \in Nodes(r.tab) : n \in Nodes(tab) \/ n.prehash = Hash[name]
      /\ Held(r.tab, 0) = Held(tab, 0)
      /\ Held(r.tab, SCOPE_DANGLING) =
            IF Hash[name] \in Held(tab, 0) THEN Held(tab, SCOPE_DANGLING)
            ELSE Held(tab, SCOPE_DANGLING) \cup {Hash[name]}
      /\ r.var \in DOMAIN types => r.tab = tab
  BY MentionHeld DEF Refining
<1> HIDE DEF r
<1>2. /\ tab' = r.tab /\ exit' = exit
      /\ types' = [v \in DOMAIN types \cup {r.var} |->
                     IF v \in DOMAIN types THEN types[v] ELSE "UNKNOWN_TYPE"]
  BY <1>1 DEF Continue, r
<1>3. Hash[name] \in Symbols
  BY DEF Symbols
<1>4. \A v \in DOMAIN types : types'[v] = types[v]
  BY <1>2
<1> QED
  BY <1>1, <1>2, <1>3, <1>4 DEF r

LEMMA ArgsRefines ==
    ASSUME Refining, Inv', NEW name \in Identifiers,
           grammar_concat_list_args_with_id(name)
    PROVE  ResolutionInv' /\ Mapped
<1> DEFINE r == lookup_variable_create_dangling(name)
           h == Hash[name]
<1>1. /\ exit = Running /\ Early /\ Early' /\ state' = state
      /\ Continue(r, "UNKNOWN_TYPE")
      /\ params' = IF exit' = Running THEN Append(params, r.var) ELSE params
  BY DEF grammar_concat_list_args_with_id, Parsing, Early
<1>2. /\ exit' = Running /\ Placed(tab')
      /\ Hash[r.var.name] = h
      /\ Held(tab', 0) = Held(tab, 0)
      /\ Held(tab', SCOPE_DANGLING) =
            IF h \in Held(tab, 0) THEN Held(tab, SCOPE_DANGLING)
            ELSE Held(tab, SCOPE_DANGLING) \cup {h}
      /\ \A n \in Nodes(tab) : n \in Nodes(tab')
      /\ \A n \in Nodes(tab') : n \in Nodes(tab) \/ n.prehash \in Symbols
      /\ \A v \in DOMAIN types : types'[v] = types[v]
  BY <1>1, MentionStep
<1> HIDE DEF r
<1>3. h \in Symbols
  BY DEF Symbols
<1>4. /\ params \in Seq(DOMAIN types) /\ params' = Append(params, r.var)
      /\ DOMAIN params = 1 .. Len(params) /\ Len(params) \in Nat
  BY <1>1, <1>2, LenProperties DEF Refining, Inv, TypeOK
<1>5. /\ DOMAIN params' = DOMAIN params \cup {Len(params) + 1}
      /\ \A i \in DOMAIN params : params'[i] = params[i]
      /\ params'[Len(params) + 1] = r.var
  <2>1. params \in Seq(DOMAIN types \cup {r.var}) /\ r.var \in DOMAIN types \cup {r.var}
    <3>1. \A i \in 1 .. Len(params) : params[i] \in DOMAIN types
      BY <1>4, ElementOfSeq
    <3>2. params = [i \in 1 .. Len(params) |-> params[i]]
      BY <1>4
    <3> QED BY <1>4, <3>1, <3>2
  <2>2. DOMAIN params' = 1 .. Len(params) + 1
    BY <1>4, <2>1
  <2> QED BY <1>4, <2>1, <2>2
<1>6. \A i \in DOMAIN params' : Hash[params'[i].name] \in Symbols
  <2>1. \A i \in DOMAIN params : Hash[params[i].name] \in Symbols
    BY DEF Refining, ResolutionInv
  <2> QED BY <1>2, <1>3, <1>5, <2>1
<1>7. ResolutionInv'
  BY <1>1, <1>2, <1>6, ResolutionKept
<1>8. ParameterSymbols' = ParameterSymbols \cup {h}
  BY <1>2, <1>5 DEF ParameterSymbols
<1>9. Linked
  BY <1>1, <1>2 DEF Linked, Refining, ResolutionInv
<1>10. Mapped
  BY <1>2, <1>3, <1>8, <1>9, MapMention
<1> QED
  BY <1>7, <1>10

\* A call of a name with the hash of a standard function finds the function.
LEMMA FunctionIsFound ==
    ASSUME Refining, Early, NEW name \in Identifiers,
           Hash[name] \in {Hash[f] : f \in StdFunctions}
    PROVE  IsFunction(name)
<1>1. /\ name \in Names /\ tab.scope = 0 /\ Fields(tab, DOMAIN types)
      /\ DOMAIN types \subseteq Variable /\ Placed(tab) /\ tab.blocks = 1
      /\ Hash[name] \in Symbols
  BY IdentifiersAssumption, NodesFacts
     DEF Refining, NameInv, TableNames, ResolutionInv, OneBlock, Symbols
<1>2. DeclaredFirst(tab)
  BY <1>1 DEF Refining, NameInv, TableNames
<1>3. PICK m \in Nodes(tab) :
         m.prehash = Hash[name] /\ m.scope = 0 /\ types[m.var] = "FUNCTION_TYPE"
  BY DEF Refining, ResolutionInv
<1>4. lookup_variable(tab, name) # NULL
  BY <1>1, <1>3, HeldLookups DEF Held
<1>5. /\ lookup_node_in_scope(tab, name, 0) # 0
      /\ lookup_variable(tab, name) = lookup_variable_in_scope(tab, name, 0)
  BY <1>1, <1>4, LookupAtZero
<1>6. \E n \in Nodes(tab) : n.prehash = Hash[name] /\ n.scope = 0
                           /\ lookup_variable(tab, name) = n.var
  BY <1>1, <1>5, LookupFinds
<1>7. lookup_variable(tab, name) = m.var
  BY <1>1, <1>2, <1>3, <1>6, UniqueNode
<1> QED
  BY <1>3, <1>4, <1>7 DEF IsFunction

\* A name that is not found, and a function that is not.
LEMMA AbortRefines ==
    ASSUME Refining, Inv', Parsing("body"), NEW name \in Identifiers,
           \/ Abort("function_not_found") /\ ~IsFunction(name)
           \/ Abort("variable_not_found") /\ Hash[name] \notin Held(tab, 0)
    PROVE  ResolutionInv' /\ Mapped
<1>1. /\ exit = Running /\ Early /\ Early' /\ UNCHANGED <<tab, types, params, state>>
      /\ \/ exit' = [code |-> 1, by |-> "function_not_found"] /\ ~IsFunction(name)
         \/ /\ exit' = [code |-> 1, by |-> "variable_not_found"]
            /\ Hash[name] \notin Held(tab, 0)
  BY DEF Abort, Exit, Parsing, Early
<1>2. ResolutionInv'
  BY <1>1, ResolutionFrame
<1>3. Linked
  BY <1>1 DEF Linked, Refining, ResolutionInv
<1>4. ParameterSymbols' = ParameterSymbols
  BY <1>1 DEF ParameterSymbols
<1>5. Verdict' = "not_found"
  BY <1>1, VerdictsNext DEF VerdictsHold
<1>6. Hash[name] \in Symbols
  BY DEF Symbols
<1>7. \/ Hash[name] \notin Held(tab, 0)
      \/ Hash[name] \notin {Hash[f] : f \in StdFunctions} \cap Symbols
  BY <1>1, FunctionIsFound
<1>8. Mapped
  BY <1>1, <1>3, <1>4, <1>5, <1>6, <1>7, MapEnd
<1> QED
  BY <1>2, <1>8

\* A mention in an expression.
LEMMA MentionRefines ==
    ASSUME Refining, Inv', Parsing("body"), phase' = phase, state' = state,
           params' = params, NEW name \in Identifiers,
           Continue(lookup_variable_create_dangling(name), "UNKNOWN_TYPE")
    PROVE  ResolutionInv' /\ Mapped
<1> DEFINE h == Hash[name]
<1>1. exit = Running /\ Early /\ Early'
  BY DEF Parsing, Early
<1>2. /\ exit' = Running /\ Placed(tab')
      /\ Held(tab', 0) = Held(tab, 0)
      /\ Held(tab', SCOPE_DANGLING) =
            IF h \in Held(tab, 0) THEN Held(tab, SCOPE_DANGLING)
            ELSE Held(tab, SCOPE_DANGLING) \cup {h}
      /\ \A n \in Nodes(tab) : n \in Nodes(tab')
      /\ \A n \in Nodes(tab') : n \in Nodes(tab) \/ n.prehash \in Symbols
      /\ \A v \in DOMAIN types : types'[v] = types[v]
  BY <1>1, MentionStep
<1>3. h \in Symbols
  BY DEF Symbols
<1>4. \A i \in DOMAIN params' : Hash[params'[i].name] \in Symbols
  BY DEF Refining, ResolutionInv
<1>5. ResolutionInv'
  BY <1>1, <1>2, <1>4, ResolutionKept
<1>6. ParameterSymbols' = ParameterSymbols
  BY DEF ParameterSymbols
<1>7. Linked
  BY <1>1, <1>2 DEF Linked, Refining, ResolutionInv
<1>8. Mapped
  BY <1>2, <1>3, <1>6, <1>7, MapMention
<1> QED
  BY <1>5, <1>8

LEMMA ExpressionRefines ==
    ASSUME Refining, Inv', NEW name \in Identifiers,
           \/ grammar_expression_type_from_id(name)
           \/ \E function \in Identifiers : grammar_function_call_from_id(name, function)
           \/ \E to \in Identifiers : grammar_new_assignment_from_id(name, to)
    PROVE  ResolutionInv' /\ Mapped
<1> DEFINE r == lookup_variable_create_dangling(name)
<1>1. /\ Parsing("body")
      /\ \/ \E function \in Identifiers :
               Abort("function_not_found") /\ ~IsFunction(function)
         \/ \E to \in Identifiers :
               Abort("variable_not_found") /\ lookup_variable(r.tab, to) = NULL
         \/ /\ Continue(r, "UNKNOWN_TYPE")
            /\ ExpressionRead /\ UNCHANGED state
  BY DEF grammar_expression_type_from_id, grammar_function_call_from_id,
         grammar_new_assignment_from_id
<1>2. CASE \E function \in Identifiers :
             Abort("function_not_found") /\ ~IsFunction(function)
  BY <1>1, <1>2, AbortRefines
<1>3. ASSUME NEW to \in Identifiers,
             Abort("variable_not_found") /\ lookup_variable(r.tab, to) = NULL
      PROVE  ResolutionInv' /\ Mapped
  <2>1. name \in Names /\ to \in Names /\ Hash[to] \in Symbols /\ Early
    BY <1>1, IdentifiersAssumption DEF Symbols, Parsing, Early
  <2>2. Placed(r.tab) /\ r.tab.scope = 0 /\ Held(r.tab, 0) = Held(tab, 0)
    BY <2>1, MentionHeld DEF Refining
  <2>3. PICK V \in SUBSET Variable : Fields(r.tab, V)
    <3>1. r.var \in Variable /\ TableOK(r.tab, DOMAIN types \cup {r.var})
      BY <2>1, CreateDanglingOK DEF Refining
    <3>2. DOMAIN types \cup {r.var} \in SUBSET Variable
      BY <3>1, NodesFacts DEF Refining
    <3> QED BY <3>1, <3>2 DEF TableOK
  <2> HIDE DEF r
  <2>4. Hash[to] \notin Held(tab, 0)
    BY <1>3, <2>1, <2>2, <2>3, HeldLookups
  <2> QED BY <1>1, <1>3, <2>4, AbortRefines
<1>4. CASE Continue(r, "UNKNOWN_TYPE") /\ ExpressionRead /\ UNCHANGED state
  <2>1. phase' = phase /\ params' = params /\ state' = state
    BY <1>4 DEF ExpressionRead
  <2> HIDE DEF Continue
  <2> QED BY <1>1, <1>4, <2>1, MentionRefines
<1> QED
  BY <1>1, <1>2, <1>3, <1>4

LEMMA DeclarationRefines ==
    ASSUME Refining, Inv', NEW name \in Identifiers,
           \/ \E s \in Separators : grammar_new_declaration_file_node(name, s)
           \/ grammar_new_variable(name)
    PROVE  ResolutionInv' /\ Mapped
<1> DEFINE r == Declare(name)
           h == Hash[name]
<1>1. PICK type \in {"CONSTANT_TYPE", "FILE_PATH_TYPE"} : Continue(r, type)
  BY DEF grammar_new_declaration_file_node, grammar_new_variable
<1>2. exit = Running /\ Early /\ Early' /\ params' = params
  BY DEF grammar_new_declaration_file_node, grammar_new_variable, Parsing,
         ExpressionRead, Early
<1>3. state'.result = state.result
  <2>1. state \in States
    BY DEF Refining, Inv, TypeOK, States
  <2>2. state' = state \/ \E b : state' = [state EXCEPT !.syntax_error = b]
    BY DEF grammar_new_declaration_file_node, grammar_new_variable
  <2> QED BY <2>1, <2>2 DEF States
<1>4. /\ r.status \in {"SUCCESS", "MULTIPLE_DECLARATION"}
      /\ r.status = "SUCCESS" <=> h \notin Held(tab, 0)
      /\ r.tab.blocks = 1 /\ Placed(r.tab)
      /\ r.var \notin DOMAIN types
      /\ r.status = "SUCCESS" =>
            /\ Nodes(tab) \subseteq Nodes(r.tab)
            /\ \A n \in Nodes(r.tab) : n \in Nodes(tab) \/ n.scope = 0
            /\ Held(r.tab, 0) = Held(tab, 0) \cup {h}
            /\ Held(r.tab, SCOPE_DANGLING) = Held(tab, SCOPE_DANGLING)
  BY <1>2, DeclareHeld DEF Refining
<1> HIDE DEF r
<1>5. h \in Symbols /\ 0 # SCOPE_DANGLING
  BY DEF Symbols, SCOPE_DANGLING
<1>6. \A i \in DOMAIN params' : Hash[params'[i].name] \in Symbols
  BY <1>2 DEF Refining, ResolutionInv
<1>7. ParameterSymbols' = ParameterSymbols
  BY <1>2 DEF ParameterSymbols
<1>8. CASE r.status = "SUCCESS"
  <2>1. /\ tab' = r.tab /\ exit' = Running
        /\ types' = [v \in DOMAIN types \cup {r.var} |->
                       IF v \in DOMAIN types THEN types[v] ELSE type]
    BY <1>1, <1>2, <1>8 DEF Continue
  <2>2. \A v \in DOMAIN types : types'[v] = types[v]
    BY <2>1
  <2>3. ResolutionInv'
    BY <1>2, <1>3, <1>4, <1>5, <1>6, <1>8, <2>1, <2>2, ResolutionKept
  <2>4. Linked
    BY <1>2, <1>4, <2>1 DEF Linked, Refining, ResolutionInv
  <2>5. Mapped
    BY <1>4, <1>5, <1>7, <1>8, <2>1, <2>4, MapDeclare
  <2> QED BY <2>3, <2>5
<1>9. CASE r.status = "MULTIPLE_DECLARATION"
  <2>1. exit' = [code |-> 1, by |-> "multiple_declaration"] /\ UNCHANGED <<tab, types>>
    BY <1>1, <1>9 DEF Continue, Exit
  <2>2. ResolutionInv'
    BY <1>2, <1>3, <2>1, ResolutionFrame
  <2>3. Linked
    BY <1>2, <2>1 DEF Linked, Refining, ResolutionInv
  <2>4. Verdict' = "redeclared"
    BY <2>1, VerdictsNext DEF VerdictsHold
  <2>5. h \in Held(tab, 0)
    BY <1>4, <1>9
  <2>6. Mapped
    BY <1>5, <1>7, <2>1, <2>3, <2>4, <2>5, MapEnd
  <2> QED BY <2>2, <2>6
<1> QED
  BY <1>4, <1>8, <1>9

\* The steps that go on and leave the symbols alone.
LEMMA FrameRefines ==
    ASSUME Refining, Inv', Early, Early', exit = Running, exit' = Running,
           UNCHANGED <<tab, types, params>>, state' = state
    PROVE  ResolutionInv' /\ Mapped
<1>1. ResolutionInv'
  BY ResolutionFrame
<1>2. Linked /\ ParameterSymbols' = ParameterSymbols
  BY DEF Linked, Refining, ResolutionInv, ParameterSymbols
<1> QED
  BY <1>1, <1>2, MapStutter

\* The steps that end the process with no word about identifiers.
LEMMA MalformedRefines ==
    ASSUME Refining, Inv', Early, Early', exit = Running,
           exit' \in {[code |-> 1, by |-> "SYNTAX_ERROR"],
                      [code |-> 2, by |-> "DANGLING_VARIABLES"],
                      [code |-> 139, by |-> "null_list"]},
           UNCHANGED <<tab, types, params, state>>
    PROVE  ResolutionInv' /\ Mapped
<1>1. ResolutionInv'
  BY ResolutionFrame
<1>2. Linked /\ ParameterSymbols' = ParameterSymbols
  BY DEF Linked, Refining, ResolutionInv, ParameterSymbols
<1>3. Verdict' = "malformed"
  BY VerdictsNext DEF VerdictsHold
<1> QED
  BY <1>1, <1>2, <1>3, MapEnd

LEMMA NoTableRefines ==
    ASSUME Refining, Inv', NEW name \in Identifiers,
           \/ grammar_function_call(name)
           \/ DereferenceSeparators(name)
           \/ grammar_new_assignment_expression(name)
           \/ grammar_using_file(name)
           \/ grammar_new_return_node(name)
    PROVE  ResolutionInv' /\ Mapped
<1>1. /\ Parsing("body")
      /\ \/ Abort("function_not_found") /\ ~IsFunction(name)
         \/ Abort("variable_not_found") /\ lookup_variable(tab, name) = NULL
         \/ DereferenceSeparators(name)
         \/ /\ phase' \in {phase, "return"}
            /\ UNCHANGED <<tab, types, params, state, exit>>
  BY DEF grammar_function_call, grammar_using_file, Closing, ExpressionRead,
         grammar_new_assignment_expression, grammar_new_return_node, EndOfBody,
         DereferenceSeparators
<1>2. CASE Abort("function_not_found") /\ ~IsFunction(name)
  BY <1>1, <1>2, AbortRefines
<1>3. CASE Abort("variable_not_found") /\ lookup_variable(tab, name) = NULL
  <2>1. /\ name \in Names /\ tab.scope = 0 /\ Fields(tab, DOMAIN types)
        /\ DOMAIN types \subseteq Variable /\ Placed(tab) /\ Hash[name] \in Symbols
    BY IdentifiersAssumption, NodesFacts
       DEF Refining, NameInv, TableNames, ResolutionInv, Symbols
  <2>2. Hash[name] \notin Held(tab, 0)
    BY <1>3, <2>1, HeldLookups
  <2> QED BY <1>1, <1>3, <2>2, AbortRefines
<1>4. CASE DereferenceSeparators(name)
  <2>1. /\ exit = Running /\ Early /\ Early'
        /\ exit' = [code |-> 139, by |-> "null_list"]
        /\ UNCHANGED <<tab, types, params, state>>
    BY <1>4 DEF DereferenceSeparators, Exit, Parsing, Early
  <2> QED BY <2>1, MalformedRefines
<1>5. CASE phase' \in {phase, "return"} /\ UNCHANGED <<tab, types, params, state, exit>>
  <2>1. exit = Running /\ Early /\ Early'
    BY <1>1, <1>5 DEF Parsing, Early
  <2> QED BY <1>5, <2>1, FrameRefines
<1> QED
  BY <1>1, <1>2, <1>3, <1>4, <1>5

LEMMA ParserRefines ==
    ASSUME Refining, Inv',
           \/ CloseParameters
           \/ \E name \in Identifiers : \E form \in {"in", "with"} : Open(form, name)
           \/ ShiftDo
           \/ ReturnNothing
           \/ ParseFails
    PROVE  ResolutionInv' /\ Mapped
<1>1. phase \in Phases
  BY DEF Refining, Inv, TypeOK
<1>2. CASE \/ CloseParameters
           \/ \E name \in Identifiers : \E form \in {"in", "with"} : Open(form, name)
           \/ ShiftDo
           \/ ReturnNothing
  <2>1. /\ exit = Running /\ exit' = Running
        /\ UNCHANGED <<tab, types, params>> /\ state' = state
        /\ phase \in {"args", "body"} /\ phase' \in {"args", "body", "return"}
    BY <1>2 DEF CloseParameters, Open, ShiftDo, ReturnNothing, EndOfBody, Parsing
  <2>2. Early /\ Early'
    BY <2>1 DEF Early
  <2> QED BY <2>1, <2>2, FrameRefines
<1>3. CASE ParseFails
  <2>1. /\ exit = Running
        /\ exit' \in {[code |-> 1, by |-> "SYNTAX_ERROR"],
                      [code |-> 2, by |-> "DANGLING_VARIABLES"]}
        /\ UNCHANGED <<tab, types, params, state>> /\ phase' = phase
        /\ phase \notin {"function", "program"}
    BY <1>3 DEF ParseFails, Exit
  <2>2. Early /\ Early'
    BY <1>1, <2>1 DEF Phases, Early
  <2> QED BY <2>1, <2>2, MalformedRefines
<1> QED
  BY <1>2, <1>3

LEMMA LoopRefines ==
    ASSUME Refining, Inv', NEW name \in Identifiers, grammar_new_loop(name)
    PROVE  ResolutionInv' /\ Mapped
<1>1. /\ exit = Running /\ exit' = Running /\ Early /\ Early'
      /\ params' = params /\ state' = state
  BY DEF grammar_new_loop, Closing, Parsing, Early
<1>2. /\ Placed(tab')
      /\ Held(tab', 0) = Held(tab, 0)
      /\ Held(tab', SCOPE_DANGLING) = Held(tab, SCOPE_DANGLING) \ {Hash[name]}
      /\ \A n \in Nodes(tab) : n.scope = 0 => n \in Nodes(tab')
      /\ \A n \in Nodes(tab') : n.scope = SCOPE_DANGLING => n \in Nodes(tab)
      /\ \A v \in DOMAIN types : types[v] # "UNKNOWN_TYPE" => types'[v] = types[v]
  BY LoopHeld DEF Refining
<1>3. \A i \in DOMAIN params' : Hash[params'[i].name] \in Symbols
  BY <1>1 DEF Refining, ResolutionInv
<1>4. ResolutionInv'
  BY <1>1, <1>2, <1>3, ResolutionKept
<1>5. Linked /\ ParameterSymbols' = ParameterSymbols
  BY <1>1, <1>2 DEF Linked, Refining, ResolutionInv, ParameterSymbols
<1>6. Hash[name] \in Symbols
  BY DEF Symbols
<1>7. Mapped
  BY <1>1, <1>2, <1>5, <1>6, MapBind
<1> QED
  BY <1>4, <1>7

LEMMA FunctionRefines ==
    ASSUME Refining, Inv', grammar_new_function
    PROVE  ResolutionInv' /\ Mapped
<1> DEFINE P == FirstParameters(Len(params))
<1>1. /\ exit = Running /\ exit' = Running /\ Early
      /\ params' = params /\ state' = state /\ types' = types
      /\ phase = "return"
  BY DEF grammar_new_function, Parsing, Early
<1>2. P = ParameterSymbols
  <2>1. DOMAIN params = 1 .. Len(params)
    BY LenProperties DEF Refining, Inv, TypeOK
  <2> QED BY <2>1 DEF FirstParameters, ParameterSymbols
<1>3. /\ Placed(tab')
      /\ Held(tab', 0) = Held(tab, 0) \cup (P \cap Held(tab, SCOPE_DANGLING))
      /\ Held(tab', SCOPE_DANGLING) = Held(tab, SCOPE_DANGLING) \ P
      /\ \A n \in Nodes(tab) : n.scope = 0 => n \in Nodes(tab')
      /\ \A n \in Nodes(tab') : n.scope = SCOPE_DANGLING => n \in Nodes(tab)
  BY FunctionHeld DEF Refining, BoundTables
<1> HIDE DEF P
<1>4. ParameterSymbols' = ParameterSymbols
  BY <1>1 DEF ParameterSymbols
<1>5. \A n \in Nodes(tab') : n.scope = SCOPE_DANGLING => ~HasParameterHash(n.var)
  <2> SUFFICES ASSUME NEW n \in Nodes(tab'), n.scope = SCOPE_DANGLING,
                      HasParameterHash(n.var)
               PROVE  FALSE
    OBVIOUS
  <2>1. n \in Nodes(tab) /\ n.prehash = Hash[n.var.name] /\ n.prehash \in Symbols
    BY <1>3 DEF Refining, ResolutionInv, NameInv, TableNames, NodesOK, Hashed
  <2>2. n.prehash \in P
    BY <1>2, <2>1 DEF HasParameterHash, ParameterSymbols
  <2>3. n.prehash \in Held(tab', SCOPE_DANGLING)
    BY <2>1 DEF Held
  <2> QED BY <1>3, <2>2, <2>3
<1>6. ResolutionInv'
  <2>1. \A n \in Nodes(tab') : n.scope = SCOPE_DANGLING => n.prehash \in Symbols
    BY <1>3 DEF Refining, ResolutionInv
  <2>2. \A f \in StdFunctions : \E n \in Nodes(tab') :
           n.prehash = Hash[f] /\ n.scope = 0 /\ types'[n.var] = "FUNCTION_TYPE"
    BY <1>1, <1>3 DEF Refining, ResolutionInv
  <2>3. \A n \in Nodes(tab') : n.scope = SCOPE_DANGLING => ~HasParameterHash(n.var)'
    BY <1>1, <1>5 DEF HasParameterHash
  <2>4. state'.result # DANGLING_VARIABLES
    BY <1>1 DEF Refining, ResolutionInv
  <2>5. \A i \in DOMAIN params' : Hash[params'[i].name] \in Symbols
    BY <1>1 DEF Refining, ResolutionInv
  <2> QED BY <1>3, <2>1, <2>2, <2>3, <2>4, <2>5 DEF ResolutionInv
<1>7. Linked
  BY <1>1, <1>3 DEF Linked, Refining, ResolutionInv
<1>8. Mapped
  BY <1>1, <1>2, <1>3, <1>4, <1>7, MapBindParameters
<1> QED
  BY <1>6, <1>8

\* What is left dangling is no parameter, and is what the counter counts.
LEMMA LeftDangling ==
    ASSUME Refining, ~Early
    PROVE  /\ ParameterSymbols \cap Held(tab, SCOPE_DANGLING) = {}
           /\ Held(tab, SCOPE_DANGLING) = {} <=> tab.dangling = 0
<1>1. /\ Hashed(tab) /\ tab.blocks = 1 /\ Counted(tab)
      /\ \A n \in Nodes(tab) : n.scope = SCOPE_DANGLING =>
            n.prehash \in Symbols /\ ~HasParameterHash(n.var)
  BY DEF Refining, Inv, TableOK, NameInv, TableNames, NodesOK, OneBlock, ResolutionInv
<1>2. ParameterSymbols \cap Held(tab, SCOPE_DANGLING) = {}
  BY <1>1 DEF Held, ParameterSymbols, HasParameterHash, Hashed
<1>3. IsFiniteSet(DanglingNodes(tab)) /\ tab.dangling = Cardinality(DanglingNodes(tab))
  BY <1>1 DEF Counted
<1>4. tab.dangling = 0 <=> DanglingNodes(tab) = {}
  BY <1>3, FS_EmptySet
<1>5. ASSUME NEW s \in Held(tab, SCOPE_DANGLING) PROVE DanglingNodes(tab) # {}
  <2>1. PICK n \in Nodes(tab) : n.scope = SCOPE_DANGLING
    BY <1>5 DEF Held
  <2>2. PICK b \in DOMAIN tab.chains : \E i \in DOMAIN tab.chains[b] : n = tab.chains[b][i]
    BY NodesDef
  <2>3. PICK i \in DOMAIN tab.chains[b] : n = tab.chains[b][i]
    BY <2>2
  <2>4. <<b, i>> \in DanglingNodes(tab)
    BY <2>1, <2>3, DanglingNodesDef
  <2> QED BY <2>4
<1>6. ASSUME NEW p \in DanglingNodes(tab) PROVE Held(tab, SCOPE_DANGLING) # {}
  <2>1. /\ p[1] \in DOMAIN tab.chains /\ p[2] \in DOMAIN tab.chains[p[1]]
        /\ tab.chains[p[1]][p[2]].scope = SCOPE_DANGLING
    BY DanglingNodesArePairs
  <2>2. tab.chains[p[1]][p[2]] \in Nodes(tab)
    BY <2>1, NodesDef
  <2>3. tab.chains[p[1]][p[2]].prehash \in Held(tab, SCOPE_DANGLING)
    BY <1>1, <2>1, <2>2 DEF Held
  <2> QED BY <2>3
<1> QED
  BY <1>2, <1>4, <1>5, <1>6

LEMMA ProgramRefines ==
    ASSUME Refining, Inv', grammar_program
    PROVE  ResolutionInv' /\ Mapped
<1>1. /\ exit = Running /\ exit' = Running /\ ~Early /\ ~Early'
      /\ UNCHANGED <<tab, types, params>> /\ phase' = "program"
  BY DEF grammar_program, Parsing, Early
<1>2. state'.result = DANGLING_VARIABLES => tab.dangling > 0
  <2>1. state \in States
    BY DEF Refining, Inv, TypeOK, States
  <2> QED BY <2>1 DEF grammar_program, count_dangling, States, DANGLING_VARIABLES,
                      SYNTAX_ERROR
<1>3. ResolutionInv'
  BY <1>1, <1>2 DEF Refining, ResolutionInv, HasParameterHash
<1>4. Linked /\ ParameterSymbols' = ParameterSymbols
  BY <1>1 DEF Linked, Refining, ResolutionInv, ParameterSymbols
<1> QED
  BY <1>1, <1>3, <1>4, MapStutter

LEMMA FinishRefines ==
    ASSUME Refining, Inv', Finish
    PROVE  ResolutionInv' /\ Mapped
<1>1. /\ exit = Running /\ ~Early /\ ~Early'
      /\ UNCHANGED <<tab, types, params, state, phase>>
      /\ exit' = [code |-> IF state.succeed THEN 0 ELSE 255, by |-> "FINISHED"]
  BY DEF Finish, Exit, Parsing, Early
<1>2. ResolutionInv'
  BY <1>1 DEF Refining, ResolutionInv, HasParameterHash
<1>3. Linked /\ ParameterSymbols' = ParameterSymbols
  BY <1>1 DEF Linked, Refining, ResolutionInv, ParameterSymbols
<1>4. /\ ParameterSymbols \cap Held(tab, SCOPE_DANGLING) = {}
      /\ Held(tab, SCOPE_DANGLING) = {} <=> tab.dangling = 0
  BY <1>1, LeftDangling
<1>5. CASE state.succeed
  <2>1. Verdict' = "accepted"
    BY <1>1, <1>5, VerdictsNext DEF VerdictsHold
  <2>2. Held(tab, SCOPE_DANGLING) = {}
    BY <1>4, <1>5 DEF Refining, NameInv, VerdictOK
  <2> QED BY <1>1, <1>2, <1>3, <1>4, <2>1, <2>2, MapEnd
<1>6. CASE ~state.succeed /\ state.result = DANGLING_VARIABLES
  <2>1. Verdict' = "dangling"
    BY <1>1, <1>6, VerdictsNext DEF VerdictsHold, DANGLING_VARIABLES
  <2>2. Held(tab, SCOPE_DANGLING) # {}
    <3>1. tab.dangling > 0 /\ tab.dangling \in Nat
      BY <1>6, NodesFacts DEF Refining, ResolutionInv
    <3> QED BY <1>4, <3>1
  <2> QED BY <1>1, <1>2, <1>3, <1>4, <2>1, <2>2, MapEnd
<1>7. CASE ~state.succeed /\ state.result # DANGLING_VARIABLES
  <2>1. Verdict' = "malformed"
    BY <1>1, <1>7, VerdictsNext DEF VerdictsHold, DANGLING_VARIABLES
  <2> QED BY <1>1, <1>2, <1>3, <2>1, MapEnd
<1> QED
  BY <1>5, <1>6, <1>7

LEMMA NextRefines == Refining /\ Inv' /\ [Next]_vars => ResolutionInv' /\ Mapped
<1> SUFFICES ASSUME Refining, Inv', [Next]_vars PROVE ResolutionInv' /\ Mapped
  OBVIOUS
<1>1. CASE UNCHANGED vars
  <2>1. ResolutionInv'
    BY <1>1 DEF vars, Refining, ResolutionInv, HasParameterHash, Early
  <2>2. Mapped
    BY <1>1 DEF vars, Mapped, Resolution!vars, SymbolsIn, Verdict, BucketCount
  <2> QED BY <2>1, <2>2
<1>2. CASE Next
  <2>1. ASSUME NEW name \in Identifiers,
               \/ grammar_concat_list_args_with_id(name)
               \/ grammar_expression_type_from_id(name)
               \/ grammar_function_call(name)
               \/ \E function \in Identifiers : grammar_function_call_from_id(name, function)
               \/ \E s \in Separators : grammar_new_declaration_file_node(name, s)
               \/ DereferenceSeparators(name)
               \/ grammar_new_variable(name)
               \/ grammar_new_assignment_expression(name)
               \/ \E to \in Identifiers : grammar_new_assignment_from_id(name, to)
               \/ grammar_using_file(name)
               \/ grammar_new_loop(name)
               \/ grammar_new_return_node(name)
        PROVE  ResolutionInv' /\ Mapped
    BY <2>1, ArgsRefines, ExpressionRefines, DeclarationRefines, NoTableRefines,
       LoopRefines
  <2>2. ASSUME \/ CloseParameters
               \/ \E name \in Identifiers : \E form \in {"in", "with"} : Open(form, name)
               \/ ShiftDo
               \/ ReturnNothing
               \/ grammar_new_function
               \/ grammar_program
               \/ Finish
               \/ ParseFails
        PROVE  ResolutionInv' /\ Mapped
    BY <2>2, ParserRefines, FunctionRefines, ProgramRefines, FinishRefines
  <2> QED BY <1>2, <2>1, <2>2 DEF Next
<1> QED
  BY <1>1, <1>2

LEMMA InitRefines == Init /\ OneBlock => ResolutionInv /\ Resolution!Init
<1> SUFFICES ASSUME Init, OneBlock PROVE ResolutionInv /\ Resolution!Init
  OBVIOUS
<1> DEFINE D == [name : StdFunctions, id : {0}]
<1>1. /\ tab = initialize_table /\ DOMAIN types = D
      /\ \A v \in D : types[v] = "FUNCTION_TYPE"
      /\ phase = "args" /\ params = << >> /\ exit = Running /\ state.result = 0
  BY DEF Init
<1>2. Inv
  BY InitOK
<1>3. /\ Hashed(tab) /\ tab.scope = 0
      /\ \A n \in Nodes(tab) : n.scope = 0 /\ n.var.name \in StdFunctions
      /\ Loaded(tab, StdFunctions)
  BY <1>1, InitialTableNames DEF Initializing, OneBlock
<1>4. \A n \in Nodes(tab) : types[n.var] = "FUNCTION_TYPE" /\ n.scope # SCOPE_DANGLING
  BY <1>1, <1>2, <1>3, NodesFacts DEF SCOPE_DANGLING
<1>5. ResolutionInv
  <2>1. Early
    BY <1>1 DEF Early
  <2>2. DOMAIN params = {}
    BY <1>1
  <2>3. state.result # DANGLING_VARIABLES
    BY <1>1 DEF DANGLING_VARIABLES
  <2> QED BY <1>3, <1>4, <2>1, <2>2, <2>3 DEF ResolutionInv, Loaded
<1>6. SymbolsIn(0) = {Hash[f] : f \in StdFunctions} \cap Symbols
  <2>1. SymbolsIn(0) = Held(tab, 0)
    BY <1>2, <1>5, SymbolsNow DEF ResolutionInv
  <2>2. \A s \in Symbols : s \in Held(tab, 0) <=> \E f \in StdFunctions : s = Hash[f]
    BY <1>3 DEF Held, Loaded, Hashed
  <2> QED BY <2>1, <2>2 DEF Held
<1>7. SymbolsIn(SCOPE_DANGLING) = {}
  <2>1. SymbolsIn(SCOPE_DANGLING) = Held(tab, SCOPE_DANGLING)
    BY <1>2, <1>5, SymbolsNow DEF ResolutionInv
  <2> QED BY <1>4, <2>1 DEF Held
<1>8. {Hash[params[i].name] : i \in DOMAIN params} = {}
  BY <1>1
<1>9. Verdict = "compiling"
  BY <1>1, Verdicts DEF VerdictsHold
<1> QED
  BY <1>5, <1>6, <1>7, <1>8, <1>9 DEF Resolution!Init

---------------------------------------------------------------------------
(* Few variables never make the table grow. *)

Small ==
    /\ tab.blocks = 1
    /\ tab.size <= Cardinality(DOMAIN types)
    /\ Cardinality(DOMAIN types) <= MaxVariables

\* So many variables fit into the first block.
Fits == 6 <= MaxVariables /\ 4 * (MaxVariables + 1) < 3 * BLOCKSIZE

LEMMA SmallHasRoom == ASSUME Inv, Small, Fits PROVE OneBlock
<1>1. tab.size \in Nat /\ IsFiniteSet(DOMAIN types) /\ BLOCKSIZE \in Nat
      /\ MaxVariables \in Nat
  BY NodesFacts, BlockSizeAssumption, BoundsAssumption DEF Inv
<1>2. Cardinality(DOMAIN types) \in Nat
  BY <1>1, FS_CardinalityType
<1> QED
  BY <1>1, <1>2 DEF Small, Fits, OneBlock, HasRoom, BucketCount

LEMMA InitSmall == Fits /\ Init => Small
<1> SUFFICES ASSUME Fits, Init PROVE Small
  OBVIOUS
<1> DEFINE D == [name : StdFunctions, id : {0}]
           f == [s \in StdFunctions |-> [name |-> s, id |-> 0]]
<1>1. tab = initialize_table /\ DOMAIN types = D
  BY DEF Init
<1>2. BLOCKSIZE >= 9
  BY BlockSizeAssumption, BoundsAssumption DEF Fits
<1>3. IsFiniteSet(StdFunctions) /\ Cardinality(StdFunctions) = 6
  BY SixFunctions
<1>4. tab.blocks = 1 /\ tab.size <= 6
  BY <1>1, <1>2, <1>3, InitialTableNames DEF Initializing
<1>5. Cardinality(D) = 6
  <2>1. f \in [StdFunctions -> D]
    OBVIOUS
  <2>2. \A v \in D : \E s \in StdFunctions : f[s] = v
    <3> TAKE v \in D
    <3>1. v.name \in StdFunctions /\ v = [name |-> v.name, id |-> 0]
      OBVIOUS
    <3> QED BY <3>1
  <2>3. \A s, u \in StdFunctions : f[s] = f[u] => s = u
    <3> TAKE s, u \in StdFunctions
    <3>1. f[s].name = s /\ f[u].name = u
      OBVIOUS
    <3> QED BY <3>1
  <2>4. f \in Bijection(StdFunctions, D)
    <3> HIDE DEF f, D
    <3> QED BY <2>1, <2>2, <2>3 DEF Bijection, Injection, Surjection, IsInjective
  <2> HIDE DEF f, D
  <2> QED BY <1>3, <2>4, FS_Bijection DEF ExistsBijection
<1> QED
  BY <1>1, <1>4, <1>5 DEF Small, Fits

LEMMA SmallContinue ==
    ASSUME Inv, Small, NEW r, NEW type, Continue(r, type),
           r.status \in {"SUCCESS", "MULTIPLE_DECLARATION"}, r.tab.blocks = 1,
           r.tab.size <= tab.size + 1, r.tab.size \in Nat,
           r.var \in DOMAIN types => r.tab = tab
    PROVE  Small'
<1> DEFINE D == DOMAIN types
<1>1. IsFiniteSet(D) /\ Cardinality(D) \in Nat /\ tab.size \in Nat /\ MaxVariables \in Nat
  BY FS_CardinalityType, NodesFacts, BoundsAssumption DEF Inv
<1>2. CASE UNCHANGED <<tab, types>>
  BY <1>2 DEF Small
<1>3. CASE tab' = r.tab /\ DOMAIN types' = D \cup {r.var}
  <2>1. CASE r.var \in D
    <3>1. D \cup {r.var} = D
      BY <2>1
    <3> QED BY <1>3, <2>1, <3>1 DEF Small
  <2>2. CASE r.var \notin D
    <3>1. Cardinality(D) < MaxVariables
      BY <2>2 DEF Continue, CanAllocate
    <3>2. Cardinality(D \cup {r.var}) = Cardinality(D) + 1
      BY <1>1, <2>2, FS_AddElement
    <3> QED BY <1>1, <1>3, <3>1, <3>2 DEF Small
  <2> QED BY <2>1, <2>2
<1> QED
  BY <1>2, <1>3 DEF Continue

LEMMA SmallNext ==
    ASSUME Refining, Small, Inv', [Next]_vars
    PROVE  Small'
<1>1. ASSUME NEW name \in Identifiers, Early, exit = Running,
             Continue(lookup_variable_create_dangling(name), "UNKNOWN_TYPE")
      PROVE  Small'
  <2> DEFINE r == lookup_variable_create_dangling(name)
  <2>1. /\ r.status = "SUCCESS" /\ r.tab.blocks = 1 /\ r.tab.size <= tab.size + 1
        /\ r.var \in DOMAIN types => r.tab = tab
    BY <1>1, MentionHeld DEF Refining
  <2>2. r.tab.size \in Nat
    BY IdentifiersAssumption, CreateDanglingOK DEF Refining, TableOK, Fields
  <2> HIDE DEF r
  <2> QED BY <1>1, <2>1, <2>2, SmallContinue DEF Refining, r
<1>2. ASSUME NEW name \in Identifiers, Early, exit = Running,
             NEW type, Continue(Declare(name), type)
      PROVE  Small'
  <2> DEFINE r == Declare(name)
  <2>1. /\ r.status \in {"SUCCESS", "MULTIPLE_DECLARATION"}
        /\ r.tab.blocks = 1 /\ r.tab.size <= tab.size + 1
        /\ r.var \notin DOMAIN types
    BY <1>2, DeclareHeld DEF Refining
  <2>2. r.tab.size \in Nat
    BY IdentifiersAssumption, DeclareOK DEF Refining, TableOK, Fields
  <2> HIDE DEF r
  <2> QED BY <1>2, <2>1, <2>2, SmallContinue DEF Refining, r
<1>3. CASE UNCHANGED <<tab, types>>
  BY <1>3 DEF Small
<1>4. ASSUME NEW name \in Identifiers, grammar_new_loop(name) PROVE Small'
  <2>1. tab'.blocks = 1 /\ tab'.size = tab.size
    BY <1>4, LoopHeld DEF Refining
  <2>2. DOMAIN types' = DOMAIN types
    BY <1>4 DEF grammar_new_loop
  <2> QED BY <2>1, <2>2 DEF Small
<1>5. CASE grammar_new_function
  <2>1. tab'.blocks = 1 /\ tab'.size = tab.size
    BY <1>5, FunctionHeld DEF Refining, BoundTables, Binding, OneBlock
  <2>2. types' = types
    BY <1>5 DEF grammar_new_function
  <2> QED BY <2>1, <2>2 DEF Small
<1>6. ASSUME NEW name \in Identifiers,
             \/ grammar_concat_list_args_with_id(name)
             \/ grammar_expression_type_from_id(name)
             \/ \E function \in Identifiers : grammar_function_call_from_id(name, function)
             \/ \E to \in Identifiers : grammar_new_assignment_from_id(name, to)
      PROVE  Small'
  <2>1. Early /\ exit = Running
    BY <1>6 DEF grammar_concat_list_args_with_id, grammar_expression_type_from_id,
               grammar_function_call_from_id, grammar_new_assignment_from_id,
               Parsing, Early
  <2>2. \/ UNCHANGED <<tab, types>>
        \/ Continue(lookup_variable_create_dangling(name), "UNKNOWN_TYPE")
    BY <1>6 DEF grammar_concat_list_args_with_id, grammar_expression_type_from_id,
               grammar_function_call_from_id, grammar_new_assignment_from_id, Abort
  <2> QED BY <1>1, <1>3, <2>1, <2>2
<1>7. ASSUME NEW name \in Identifiers,
             \/ \E s \in Separators : grammar_new_declaration_file_node(name, s)
             \/ grammar_new_variable(name)
      PROVE  Small'
  <2>1. Early /\ exit = Running /\ \E type : Continue(Declare(name), type)
    BY <1>7 DEF grammar_new_declaration_file_node, grammar_new_variable, Parsing, Early
  <2> QED BY <1>2, <2>1
<1>8. ASSUME NEW name \in Identifiers,
             \/ grammar_function_call(name)
             \/ DereferenceSeparators(name)
             \/ grammar_new_assignment_expression(name)
             \/ grammar_using_file(name)
             \/ grammar_new_return_node(name)
             \/ \E form \in {"in", "with"} : Open(form, name)
      PROVE  Small'
  BY <1>3, <1>8
     DEF grammar_function_call, DereferenceSeparators, grammar_using_file, Abort,
         grammar_new_assignment_expression, grammar_new_return_node, Open
<1>9. CASE \/ CloseParameters \/ ShiftDo \/ ReturnNothing \/ grammar_program
           \/ Finish \/ ParseFails
  BY <1>3, <1>9 DEF CloseParameters, ShiftDo, ReturnNothing, grammar_program, Finish,
                   ParseFails
<1>10. CASE UNCHANGED vars
  BY <1>3, <1>10 DEF vars
<1> QED
  BY <1>4, <1>5, <1>6, <1>7, <1>8, <1>9, <1>10 DEF Next

---------------------------------------------------------------------------
(* The theorems. *)

\* Every variable keeps its type. In particular num_dangling, an unsigned of
\* symbols.c that three functions decrement or trust, never goes below 0.
THEOREM TypeCorrect == Spec => []TypeOK
<1>1. Inv => TypeOK
  BY DEF Inv
<1> QED
  BY <1>1, SpecInv, PTL

\* num_dangling is the number of dangling nodes while the table has one block,
\* and never less than it.
THEOREM CounterExact == Spec => []DanglingCounterIsExact
<1>1. Inv => DanglingCounterIsExact
  <2> SUFFICES ASSUME Inv PROVE DanglingCounterIsExact
    OBVIOUS
  <2>1. /\ Cardinality(DanglingNodes(tab)) \in Nat
        /\ tab.dangling \in Nat
    BY FS_CardinalityType DEF Inv, TableOK, Counted, Fields
  <2> QED BY <2>1 DEF Inv, TableOK, Counted, DanglingCounterIsExact
<1> QED
  BY <1>1, SpecInv, PTL

\* The load stays below THRESHOLD between calls, so that the loops and the
\* memset of symbols.c that take table_size for a bucket number stay inside
\* the allocation, whatever the number of names.
THEOREM LoadBounded == Spec => []TableStaysWithinLoad
<1>1. Inv => TableStaysWithinLoad
  BY DEF Inv, TableOK, TableStaysWithinLoad
<1> QED
  BY <1>1, SpecInv, PTL

\* The compiler exits with 0 only if each variable of the AST is bound and no
\* separator was refused, as long as the table has not grown twice.
THEOREM AcceptedBound == Spec => []AcceptedProgramIsBound
<1>1. Inv /\ NameInv => AcceptedProgramIsBound
  <2> SUFFICES ASSUME Inv, NameInv, exit.code = 0, tab.blocks <= 2
               PROVE  ProgramIsBound
    BY DEF AcceptedProgramIsBound
  <2>1. phase = "program" /\ tab.dangling = 0 /\ ~state.syntax_error
    BY DEF NameInv, VerdictOK
  <2>2. ~Early
    BY <2>1 DEF Early
  <2>3. PICK S \in SUBSET Unknown :
           /\ tab.dangling = Cardinality(S)
           /\ \A v \in Unknown \ S : HasParameterHash(v)
    BY <2>2 DEF NameInv, CountOK
  <2>4. S = {}
    <3>1. Unknown \in SUBSET DOMAIN types /\ S \in SUBSET DOMAIN types
      BY DEF Unknown
    <3>2. IsFiniteSet(S)
      BY <3>1, FS_Subset DEF Inv
    <3> QED BY <2>1, <2>3, <3>2, FS_EmptySet
  <2>5. \A v \in DOMAIN types : types[v] = "UNKNOWN_TYPE" => HasParameterHash(v)
    BY <2>3, <2>4 DEF Unknown
  <2> QED BY <2>1, <2>5 DEF ProgramIsBound, HasParameterHash
<1> QED
  BY <1>1, SpecNames, PTL

\* Until the parameters are declared, a name has at most one node of scope 0
\* and one of scope -1 in its chain, as long as the table has not grown twice.
THEOREM OneNodeEach == Spec => []OneNodePerNameAndScope
<1>1. Inv /\ NameInv => OneNodePerNameAndScope
  <2> SUFFICES ASSUME Inv, NameInv, Early, tab.blocks <= 2, NEW name \in Identifiers,
                      NEW i \in SameHash(tab, name), NEW j \in SameHash(tab, name),
                      i # j, Chain(tab, name)[i].scope = Chain(tab, name)[j].scope
               PROVE  Chain(tab, name)[i].scope > 0
    BY DEF OneNodePerNameAndScope, Early
  <2> DEFINE b == Bucket(tab, name)
  <2>1. OneDangling(tab) /\ DeclaredFirst(tab)
    BY DEF NameInv, TableNames
  <2>2. Fields(tab, DOMAIN types)
    BY NodesFacts
  <2>3. /\ Chain(tab, name) = tab.chains[b] /\ b \in DOMAIN tab.chains
        /\ i \in DOMAIN tab.chains[b] /\ j \in DOMAIN tab.chains[b]
        /\ i \in Nat /\ j \in Nat
        /\ tab.chains[b][i].prehash = tab.chains[b][j].prehash
    <3>1. b \in 0 .. BucketCount(tab) - 1
      BY <2>2, BucketInRange, IdentifiersAssumption DEF Fields
    <3>2. DOMAIN tab.chains = 0 .. BucketCount(tab) - 1
      BY <2>2, NodesType
    <3>3. DOMAIN Chain(tab, name) = 1 .. Len(Chain(tab, name))
      BY <2>2, ChainType, IdentifiersAssumption
    <3> QED BY <3>1, <3>2, <3>3 DEF SameHash, Chain
  <2>4. tab.chains[b][i] \in Nodes(tab)
    BY <2>3, NodesDef
  <2>5. tab.chains[b][i].scope \in Int /\ tab.chains[b][i].scope >= SCOPE_DANGLING
    BY <2>4, NodesFacts DEF NameInv, TableNames, NodesOK
  <2> HIDE DEF b
  <2>6. tab.chains[b][i].scope # SCOPE_DANGLING
    BY <2>1, <2>3 DEF OneDangling
  <2>7. tab.chains[b][i].scope # 0
    <3>1. i < j \/ j < i
      BY <2>3
    <3> QED BY <2>1, <2>3, <3>1 DEF DeclaredFirst
  <2> QED BY <2>3, <2>5, <2>6, <2>7 DEF SCOPE_DANGLING
<1> QED
  BY <1>1, SpecNames, PTL

\* No name resolves to the variable of a loop that has been reduced, in a table
\* of any size.
THEOREM LoopVariablesAreLocal == Spec => []LoopVariableIsLocal
<1>1. Inv /\ NameInv => LoopVariableIsLocal
  <2> SUFFICES ASSUME Inv, NameInv, NEW name \in Identifiers, Resolve(name) # NULL
               PROVE  types[Resolve(name)] # "LOOP_VARIABLE_TYPE"
    BY DEF LoopVariableIsLocal
  <2>1. tab.scope = 0 /\ \A n \in Nodes(tab) : types[n.var] = "LOOP_VARIABLE_TYPE" => n.scope > 0
    BY DEF NameInv, TableNames, NodesOK
  <2>2. PICK n \in Nodes(tab) : n.var = Resolve(name) /\ n.scope \in {0, SCOPE_DANGLING}
    BY <2>1, ResolveNode, IdentifiersAssumption
  <2> QED BY <2>1, <2>2 DEF SCOPE_DANGLING
<1> QED
  BY <1>1, SpecNames, PTL

\* Two loops never bind the same variable.
THEOREM LoopsBindDistinct == Spec => []LoopsBindDistinctVariables
<1>1. Inv /\ NameInv => LoopsBindDistinctVariables
  BY DEF NameInv, LoopsOK
<1> QED
  BY <1>1, SpecNames, PTL

\* Reducing a loop changes what its own symbol resolves to as a dangling
\* variable and nothing else, in a table of any size and with any collision.
THEOREM LoopReductionLocal == Spec => LoopReductionIsLocal
<1> DEFINE A == loops' # loops =>
                  \A name \in Identifiers :
                     /\ Resolved(tab', name).declared = Resolved(tab, name).declared
                     /\ Hash[name] # Hash[Last(open).id]
                           => Resolved(tab', name) = Resolved(tab, name)
<1>1. Inv /\ Inv' /\ NameInv /\ NameInv' /\ [Next]_vars => [A]_vars
  <2> SUFFICES ASSUME Inv, Inv', NameInv, NameInv', [Next]_vars, loops' # loops
               PROVE  A
    OBVIOUS
  <2>1. PICK loop \in Identifiers : grammar_new_loop(loop)
    <3> SUFFICES ASSUME \A loop \in Identifiers : ~grammar_new_loop(loop)
                 PROVE  FALSE
      OBVIOUS
    <3>1. Next /\ loops' # loops
      BY DEF vars
    <3> QED
      BY <3>1
         DEF Next, grammar_concat_list_args_with_id, grammar_expression_type_from_id,
             grammar_function_call, grammar_function_call_from_id,
             grammar_new_declaration_file_node, DereferenceSeparators,
             grammar_new_variable, grammar_new_assignment_expression,
             grammar_new_assignment_from_id, Open, grammar_using_file,
             grammar_new_return_node, CloseParameters, ShiftDo, ReturnNothing,
             grammar_new_function, grammar_program, Finish, ParseFails,
             ExpressionRead, Abort
  <2>2. Last(open).id = loop
    BY <2>1 DEF grammar_new_loop, Closing
  <2> SUFFICES ASSUME NEW name \in Identifiers
               PROVE  /\ Resolved(tab', name).declared = Resolved(tab, name).declared
                      /\ Hash[name] # Hash[loop] => Resolved(tab', name) = Resolved(tab, name)
    BY <2>2
  <2>3. name \in Names
    BY IdentifiersAssumption
  <2>4. lookup_variable(tab, name) = lookup_variable_in_scope(tab, name, 0)
    BY <2>3, NodesFacts, LookupAtZero DEF NameInv, TableNames
  <2>5. lookup_variable(tab', name) = lookup_variable_in_scope(tab', name, 0)
    <3>1. Fields(tab', DOMAIN types') /\ DOMAIN types' \subseteq Variable
      BY DEF Inv, TableOK, TypeOK
    <3>2. tab'.scope = 0
      BY DEF NameInv, TableNames
    <3> QED BY <2>3, <3>1, <3>2, LookupAtZero
  <2>6. lookup_variable_in_scope(tab', name, 0) = lookup_variable_in_scope(tab, name, 0)
    BY <2>1, <2>3, LoopLookups
  <2>7. Hash[name] # Hash[loop] =>
           lookup_dangling_variable(tab', name) = lookup_dangling_variable(tab, name)
    BY <2>1, <2>3, LoopLookups DEF lookup_dangling_variable
  <2> QED BY <2>4, <2>5, <2>6, <2>7 DEF Resolved
<1>2. Spec => [][A]_vars
  BY <1>1, SpecNames, PTL DEF Spec
<1> QED
  BY <1>2 DEF LoopReductionIsLocal

\* As long as the table has its first block and room for a symbol, the front
\* end resolves identifiers as NameResolution says, whatever the hash function
\* and the program: no chain, scope or order of insertion shows.
THEOREM ResolvesNames == Spec /\ []OneBlock => ImplementsNameResolution
<1>1. Init /\ OneBlock => Inv /\ NameInv /\ ResolutionInv /\ Resolution!Init
  BY InitOK, InitNames, InitRefines
<1>2. Inv /\ NameInv /\ ResolutionInv /\ OneBlock /\ [Next]_vars
         => /\ Inv' /\ NameInv' /\ ResolutionInv'
            /\ [Resolution!Next]_(Resolution!vars)
  <2> SUFFICES ASSUME Inv, NameInv, ResolutionInv, OneBlock, [Next]_vars
               PROVE  /\ Inv' /\ NameInv' /\ ResolutionInv'
                      /\ [Resolution!Next]_(Resolution!vars)
    OBVIOUS
  <2>1. Inv' /\ NameInv'
    BY NextOK, NextNames
  <2> QED BY <2>1, NextRefines DEF Refining, Mapped
<1> QED
  BY <1>1, <1>2, PTL DEF Spec, ImplementsNameResolution, Resolution!Spec

\* A program whose variables fit into the first block, 46 of them for the 64
\* buckets of symbols.c with those of the standard functions, never makes the
\* table grow: its identifiers are resolved as NameResolution says.
THEOREM SmallProgramsResolve ==
    ASSUME 6 <= MaxVariables, 4 * (MaxVariables + 1) < 3 * BLOCKSIZE
    PROVE  Spec => ImplementsNameResolution
<1> DEFINE SmallInv == Inv /\ NameInv /\ ResolutionInv /\ Small
<1>1. Fits
  BY DEF Fits
<1>2. Init => SmallInv /\ Resolution!Init
  BY <1>1, InitOK, InitNames, InitSmall, SmallHasRoom, InitRefines
<1>3. SmallInv /\ [Next]_vars => SmallInv' /\ [Resolution!Next]_(Resolution!vars)
  <2> SUFFICES ASSUME SmallInv, [Next]_vars
               PROVE  SmallInv' /\ [Resolution!Next]_(Resolution!vars)
    OBVIOUS
  <2>1. Refining
    BY <1>1, SmallHasRoom DEF Refining
  <2>2. Inv' /\ NameInv'
    BY NextOK, NextNames
  <2>3. ResolutionInv' /\ Mapped
    BY <2>1, <2>2, NextRefines
  <2>4. Small'
    BY <2>1, <2>2, SmallNext
  <2> QED BY <2>2, <2>3, <2>4 DEF Mapped
<1> QED
  BY <1>2, <1>3, PTL DEF Spec, ImplementsNameResolution, Resolution!Spec
============================================================================
