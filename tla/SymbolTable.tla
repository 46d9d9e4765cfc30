---------------------------- MODULE SymbolTable ----------------------------
(***************************************************************************)
(* The symbol table of the compiler (src/src/backend/symbols.c): a chained *)
(* hash table whose entries carry the scope they were declared in.         *)
(*                                                                         *)
(* The five static variables of the file are the fields of one record, so  *)
(* that a grammar action which makes several calls composes them:          *)
(*   scope    current_scope        blocks  num_blocks                      *)
(*   dangling num_dangling         size    table_size                      *)
(*   chains   table: bucket -> chain, the head of the list first           *)
(*                                                                         *)
(* A name is opaque. All the table knows of it is its djb2 value, Hash:    *)
(* names are never compared, so two names with one value are one symbol.   *)
(***************************************************************************)
EXTENDS Integers, Sequences, FiniteSets, FiniteSetsExt

CONSTANTS
    Names,      \* the identifiers, those of the standard functions included
    Hash,       \* Names -> Nat, the djb2 value of each
    BLOCKSIZE,  \* buckets added by each growth (64 in the code)
    NULL        \* the null pointer

StdFunctions == {"columns", "lines", "byIndex", "filter", "toString", "at"}

ASSUME NamesAssumption == StdFunctions \subseteq Names
ASSUME HashAssumption == Hash \in [Names -> Nat]
ASSUME BlockSizeAssumption == BLOCKSIZE \in Nat /\ BLOCKSIZE >= 2

SCOPE_DANGLING == -1

\* A struct variable: its name and which allocation of that name it is.
Variable == [name : Names, id : Nat]

ASSUME NullAssumption == NULL \notin Variable

Node == [prehash : Nat, var : Variable, scope : Int]

BucketCount(t) == t.blocks * BLOCKSIZE
Bucket(t, name) == Hash[name] % BucketCount(t)
Chain(t, name) == t.chains[Bucket(t, name)]

\* The positions of the chain of name at which a node has its prehash.
SameHash(t, name) ==
    LET chain == Chain(t, name)
        hash == Hash[name]
    IN  {i \in DOMAIN chain : chain[i].prehash = hash}

---------------------------------------------------------------------------
(* Lookups. A node pointer is its position in its chain, 0 for NULL. *)

lookup_node_in_scope(t, name, scope) ==
    LET chain == Chain(t, name)
        hits == {i \in SameHash(t, name) : chain[i].scope = scope}
    IN  IF hits = {} THEN 0 ELSE Min(hits)

lookup_variable_in_scope(t, name, scope) ==
    LET i == lookup_node_in_scope(t, name, scope)
    IN  IF i = 0 THEN NULL ELSE Chain(t, name)[i].var

lookup_variable(t, name) ==
    LET found == {s \in 0 .. t.scope : lookup_node_in_scope(t, name, s) # 0}
    IN  IF found = {} THEN NULL
                      ELSE lookup_variable_in_scope(t, name, Max(found))

lookup_dangling_variable(t, name) ==
    lookup_variable_in_scope(t, name, SCOPE_DANGLING)

is_dangling(t, var) ==
    var # NULL /\ lookup_dangling_variable(t, var.name) # NULL

count_dangling(t) == t.dangling

---------------------------------------------------------------------------
(* Insertion. The result is the table and the status the call returns;     *)
(* "NULL_DEREFERENCE" is the crash of insert_dangling_variable when the    *)
(* node it has just inserted is no longer found.                           *)

\* Mutant of Grow: the table grows only when it is full.
GrowWhenFull(t) ==
    IF t.size < BucketCount(t)
    THEN t
    ELSE [t EXCEPT
            !.blocks = @ + 1,
            !.chains = [b \in 0 .. (t.blocks + 1) * BLOCKSIZE - 1 |->
                           IF b < t.size THEN t.chains[b] ELSE << >>]]

\* At three quarters of load a block of buckets is added. The memset starts
\* at table_size, the number of entries, so the buckets from there on lose
\* their chains; the others keep them under the old modulus.
Grow(t) ==
    IF 4 * t.size < 3 * BucketCount(t)
    THEN t
    ELSE [t EXCEPT
            !.blocks = @ + 1,
            !.chains = [b \in 0 .. (t.blocks + 1) * BLOCKSIZE - 1 |->
                           IF b < t.size THEN t.chains[b] ELSE << >>]]

Push(t, var, scope) ==
    [t EXCEPT
        !.chains[Bucket(t, var.name)] =
            <<[prehash |-> Hash[var.name], var |-> var, scope |-> scope]>> \o @,
        !.size = @ + 1]

\* Mutant of insert_variable: only the head of the chain is compared.
InsertComparingHead(t, var) ==
    IF 1 \in SameHash(t, var.name) /\ Chain(t, var.name)[1].scope = t.scope
    THEN [tab |-> t, status |-> "MULTIPLE_DECLARATION"]
    ELSE [tab |-> Grow(Push(t, var, t.scope)), status |-> "SUCCESS"]

\* Only the first node with the prehash is compared with the current scope.
insert_variable(t, var) ==
    LET same == SameHash(t, var.name)
    IN  IF same # {} /\ Chain(t, var.name)[Min(same)].scope = t.scope
        THEN [tab |-> t, status |-> "MULTIPLE_DECLARATION"]
        ELSE [tab |-> Grow(Push(t, var, t.scope)), status |-> "SUCCESS"]

SetScope(t, name, i, scope) ==
    [t EXCEPT !.chains[Bucket(t, name)][i].scope = scope]

insert_dangling_variable(t, var) ==
    LET r == insert_variable(t, var)
        i == lookup_node_in_scope(r.tab, var.name, r.tab.scope)
        marked == SetScope(r.tab, var.name, i, SCOPE_DANGLING)
    IN  IF r.status # "SUCCESS" THEN r
        ELSE IF i = 0
        THEN [tab |-> r.tab, status |-> "NULL_DEREFERENCE"]
        ELSE [tab |-> [marked EXCEPT !.dangling = @ + 1], status |-> "SUCCESS"]

\* Mutants of assign_scope_to_dangling_variable: the counter is decremented
\* for any variable; the counter is not; the scope is not set.
AssignUncheckedScope(t, var) ==
    IF ~is_dangling(t, var) THEN [t EXCEPT !.dangling = @ - 1]
    ELSE LET i == lookup_node_in_scope(t, var.name, SCOPE_DANGLING)
         IN  [SetScope(t, var.name, i, t.scope) EXCEPT !.dangling = @ - 1]

AssignScopeUncounted(t, var) ==
    IF ~is_dangling(t, var) THEN t
    ELSE LET i == lookup_node_in_scope(t, var.name, SCOPE_DANGLING)
         IN  SetScope(t, var.name, i, t.scope)

AssignNoScope(t, var) ==
    IF ~is_dangling(t, var) THEN t ELSE [t EXCEPT !.dangling = @ - 1]

assign_scope_to_dangling_variable(t, var) ==
    IF ~is_dangling(t, var) THEN t
    ELSE LET i == lookup_node_in_scope(t, var.name, SCOPE_DANGLING)
         IN  [SetScope(t, var.name, i, t.scope) EXCEPT !.dangling = @ - 1]

---------------------------------------------------------------------------
(* Scopes. *)

next_scope(t) == [t EXCEPT !.scope = @ + 1]

\* Mutant of PopScope: nodes of the enclosing scopes go as well.
PopScopes(chain, scope) ==
    LET kept == {i \in DOMAIN chain : chain[i].scope > scope}
    IN  IF kept = {} THEN << >> ELSE SubSeq(chain, Min(kept), Len(chain))

\* The chain without its leading nodes of the scope.
PopScope(chain, scope) ==
    LET kept == {i \in DOMAIN chain : chain[i].scope # scope}
    IN  IF kept = {} THEN << >> ELSE SubSeq(chain, Min(kept), Len(chain))

\* Mutant of prev_scope: the scope is left open.
PopWithoutLeaving(t) ==
    [t EXCEPT
        !.chains = [b \in DOMAIN t.chains |->
                       IF b < t.size THEN PopScope(t.chains[b], t.scope)
                                     ELSE t.chains[b]]]

\* The loop runs over the first table_size buckets, not over all of them.
prev_scope(t) ==
    [t EXCEPT
        !.chains = [b \in DOMAIN t.chains |->
                       IF b < t.size THEN PopScope(t.chains[b], t.scope)
                                     ELSE t.chains[b]],
        !.scope = IF @ > 0 THEN @ - 1 ELSE @]

---------------------------------------------------------------------------
(* Initialisation: six standard functions are inserted at scope 0. *)

insert_function(t, name) == insert_variable(t, [name |-> name, id |-> 0]).tab

EmptyTable ==
    [scope |-> 0, blocks |-> 1, dangling |-> 0, size |-> 0,
     chains |-> [b \in 0 .. BLOCKSIZE - 1 |-> << >>]]

initialize_table ==
    LET t1 == insert_function(EmptyTable, "columns")
        t2 == insert_function(t1, "lines")
        t3 == insert_function(t2, "byIndex")
        t4 == insert_function(t3, "filter")
        t5 == insert_function(t4, "toString")
    IN  insert_function(t5, "at")

---------------------------------------------------------------------------
(* What the table keeps true. *)

\* The nodes of scope -1, each at <<bucket, position>>.
DanglingNodes(t) ==
    UNION {{<<b, i>> : i \in {j \in DOMAIN t.chains[b] :
                                 t.chains[b][j].scope = SCOPE_DANGLING}} :
           b \in DOMAIN t.chains}

\* Every field has its type, and there is one chain per allocated bucket.
TableTypeOK(t) ==
    /\ t \in [scope : Nat, blocks : Nat \ {0}, dangling : Nat, size : Nat,
              chains : [0 .. BucketCount(t) - 1 -> Seq(Node)]]

\* The load stays below the threshold between calls. Growth and prev_scope
\* index the table by its number of entries; this keeps them inside it.
LoadBelowThreshold(t) == 4 * t.size < 3 * BucketCount(t)
============================================================================
