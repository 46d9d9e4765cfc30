----------------------------- MODULE MemManager -----------------------------
(***************************************************************************)
(* The memory manager (src/src/backend/mem_management.c) and the end of    *)
(* symbols.c: free_program walks the AST, then the symbol table, and frees *)
(* each object once, although the variables are shared by AST and table.   *)
(* What it has freed it remembers by address.                              *)
(*                                                                         *)
(* An object is a struct of the AST with the memory only it points to: its *)
(* strings, the array of a list, the links of a chain, the block or loop   *)
(* of an expression.                                                       *)
(***************************************************************************)
EXTENDS Integers, FiniteSets, Sequences, Functions

CONSTANTS
    Addresses,   \* what malloc may return
    InitialLen,  \* slots of the address list, 50 in the code
    Growth       \* slots a full list grows by, 10 in the code

ASSUME AddressesAssumption == Addresses \subseteq Nat \ {0}
ASSUME CapacityAssumption == InitialLen \in Nat /\ Growth \in Nat \ {0}

NULL == 0

VARIABLES
    heap,    \* address -> the object stored there, or last stored there
    live,    \* the addresses of the objects allocated and not freed
    free_addresses,
    calls,   \* the C stack of the free_* functions
    todo,    \* the variables of the table free_table has still to visit
    phase

memVars == <<heap, live, free_addresses, calls, todo, phase>>

\* "parse" until free_program is called; "crash" and "abort" end the process
\* before that, "main_function", "table" and "exit" are the steps of it.
Phases == {"parse", "parsed", "crash", "abort", "main_function", "table", "exit"}

\* The structs of the AST; a conditional's operands are told apart from others.
Kinds ==
    {"variable", "constant", "id", "call", "binary", "compare", "boolean", "declaration",
     "file", "conditional", "loop", "with", "list_expression", "assignment", "list",
     "range", "args", "calls", "expressions", "function"}

\* The release visits fields in their order; it never visits hidden ones.
\* exprs is what the pointer list->exprs holds: an allocated array, NULL, or
\* the number it shares its storage with in a range; empty is list->len = 0.
Objects ==
    [kind : Kinds, fields : Seq(Addresses \cup {NULL}), hidden : SUBSET Addresses,
     exprs : {"array", "null", "number"}, empty : BOOLEAN]

Frame == [object : Addresses, at : Nat]

MemTypeOK ==
    /\ DOMAIN heap \subseteq Addresses
    /\ \A a \in DOMAIN heap : heap[a] \in Objects
    /\ live \subseteq DOMAIN heap
    /\ free_addresses \in [array : Seq(Addresses), len : Nat]
    /\ calls \in Seq(Frame)
    /\ todo \subseteq Addresses
    /\ phase \in Phases

init_free_address_list == [array |-> << >>, len |-> InitialLen]

Recorded == Range(free_addresses.array)

\* NULL counts as freed. An address malloc has handed out again still does.
has_been_freed(ptr) == ptr = NULL \/ ptr \in Recorded

\* Mutant of Record: the list never grows.
RecordWithoutGrowth(ptr) ==
    [free_addresses EXCEPT !.array = Append(@, ptr)]

Record(ptr) ==
    [array |-> Append(free_addresses.array, ptr),
     len |-> IF Len(free_addresses.array) = free_addresses.len
             THEN free_addresses.len + Growth
             ELSE free_addresses.len]

free_and_keep_address(ptr) ==
    IF has_been_freed(ptr)
    THEN UNCHANGED <<live, free_addresses>>
    ELSE /\ free_addresses' = Record(ptr)
         /\ live' = live \ {ptr}

---------------------------------------------------------------------------
(* The free_* functions: each returns at once for NULL and for what has    *)
(* been freed, releases what the object points to, then the object.        *)

\* Mutant of Called: a function without its guard.
CalledUnguarded(ptr) ==
    IF ptr = NULL THEN << >> ELSE <<[object |-> ptr, at |-> 1]>>

\* Mutant of Called: NULL is not checked.
CalledWithNull(ptr) ==
    IF ptr \in Recorded THEN << >> ELSE <<[object |-> ptr, at |-> 1]>>

\* The frame a call of free_* on the pointer leaves on the stack, if any.
Called(ptr) ==
    IF has_been_freed(ptr) THEN << >> ELSE <<[object |-> ptr, at |-> 1]>>

Top == calls[Len(calls)]
Below == SubSeq(calls, 1, Len(calls) - 1)
Releasing == phase \in {"main_function", "table"}

\* Mutant of ReleaseField: the loop over the fields does not advance.
ReleaseFieldAgain ==
    /\ Releasing
    /\ calls # << >>
    /\ Top.at <= Len(heap[Top.object].fields)
    /\ calls' = calls \o Called(heap[Top.object].fields[Top.at])
    /\ UNCHANGED <<heap, live, free_addresses, todo, phase>>

ReleaseField ==
    /\ Releasing
    /\ calls # << >>
    /\ Top.at <= Len(heap[Top.object].fields)
    /\ calls' = Below \o <<[Top EXCEPT !.at = @ + 1]>>
                \o Called(heap[Top.object].fields[Top.at])
    /\ UNCHANGED <<heap, live, free_addresses, todo, phase>>

\* Mutant of ReleaseObject: the address is not kept.
ReleaseObjectForgetting ==
    /\ Releasing
    /\ calls # << >>
    /\ Top.at > Len(heap[Top.object].fields)
    /\ live' = live \ {Top.object}
    /\ calls' = Below
    /\ UNCHANGED <<heap, free_addresses, todo, phase>>

\* Mutant of ReleaseObject: the last field is taken for the end.
ReleaseObjectEarly ==
    /\ Releasing
    /\ calls # << >>
    /\ Top.at >= Len(heap[Top.object].fields)
    /\ free_and_keep_address(Top.object)
    /\ calls' = Below
    /\ UNCHANGED <<heap, todo, phase>>

ReleaseObject ==
    /\ Releasing
    /\ calls # << >>
    /\ Top.at > Len(heap[Top.object].fields)
    /\ free_and_keep_address(Top.object)
    /\ calls' = Below
    /\ UNCHANGED <<heap, todo, phase>>

---------------------------------------------------------------------------
(* free_program. The root is NULL-checked by its caller, its function may  *)
(* be NULL: a parse that failed has none.                                  *)

free_main_function(function) ==
    /\ phase = "parsed"
    /\ phase' = "main_function"
    /\ calls' = Called(function)
    /\ UNCHANGED <<heap, live, free_addresses, todo>>

free_table(variables) ==
    /\ phase = "main_function"
    /\ calls = << >>
    /\ phase' = "table"
    /\ todo' = variables
    /\ UNCHANGED <<heap, live, free_addresses, calls>>

\* The buckets are visited in an order the hash decides.
free_table_node(var) ==
    /\ phase = "table"
    /\ calls = << >>
    /\ var \in todo
    /\ todo' = todo \ {var}
    /\ calls' = Called(var)
    /\ UNCHANGED <<heap, live, free_addresses, phase>>

Released == phase = "table" /\ calls = << >> /\ todo = {}

free_free_address_list ==
    /\ Released
    /\ phase' = "exit"
    /\ free_addresses' = [array |-> << >>, len |-> 0]
    /\ UNCHANGED <<heap, live, calls, todo>>

\* Every step of free_program but the two that take the roots.
Release ==
    \/ ReleaseField
    \/ ReleaseObject
    \/ \E var \in todo : free_table_node(var)
    \/ free_free_address_list
============================================================================
