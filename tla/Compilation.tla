---------------------------- MODULE Compilation ----------------------------
(***************************************************************************)
(* One run of the compiler front end: main (src/src/main.c) calls yyparse, *)
(* whose grammar (bison-grammar.y) runs one function of bison-actions.c    *)
(* per reduction. A step is a reduction, or the shift that opens a loop or *)
(* a `with` block. Reductions happen bottom-up: the body of a loop is read *)
(* before the loop's own action looks its variable up.                     *)
(*                                                                         *)
(* The input program is arbitrary: every step picks its identifier. The    *)
(* AST is reduced to what the symbol table can see of it, the variables it *)
(* points to. Productions that only build nodes are left out.              *)
(***************************************************************************)
EXTENDS SymbolTable, SequencesExt

CONSTANTS
    Identifiers,   \* the identifiers the program may use
    MaxVariables,  \* bound: variables allocated, standard functions included
    MaxParams,     \* bound: parameters of the function
    MaxLoops,      \* bound: loops of the program
    MaxDepth       \* bound: nesting of loops and `with` blocks

ASSUME IdentifiersAssumption == Identifiers \subseteq Names
ASSUME BoundsAssumption ==
    {MaxVariables, MaxParams, MaxLoops, MaxDepth} \subseteq Nat

VARIABLES
    tab,      \* the symbol table
    types,    \* allocated variable -> its type; the AST points to each of them
    phase,    \* the part of `function ID (args) expressions ret end` read
    open,     \* stack of the loops and `with` blocks being read
    pending,  \* TRUE while an expression is required before the next token
    params,   \* the variables of the parameter list, in order
    loops,    \* the variable of each loop node, in order of reduction
    state,    \* the global CompilerState
    exit      \* how the process ended, and through which call

vars == <<tab, types, phase, open, pending, params, loops, state, exit>>

Phases == {"args", "body", "return", "function", "program"}
Types == {"FUNCTION_TYPE", "UNKNOWN_TYPE", "CONSTANT_TYPE", "FILE_PATH_TYPE",
          "LOOP_VARIABLE_TYPE"}
Frame == [form : {"in", "do", "with"}, id : Identifiers]

\* How the process ends: a case of main's switch, the error reported before
\* an exit(1), or the pointer whose dereference kills it.
Running == [code |-> -1, by |-> "running"]
Exits ==
    {[code |-> 0, by |-> "FINISHED"], [code |-> 255, by |-> "FINISHED"],
     [code |-> 1, by |-> "SYNTAX_ERROR"], [code |-> 2, by |-> "DANGLING_VARIABLES"],
     [code |-> 1, by |-> "multiple_declaration"],
     [code |-> 1, by |-> "variable_not_found"],
     [code |-> 1, by |-> "function_not_found"],
     [code |-> 139, by |-> "null_node"], [code |-> 139, by |-> "null_list"]}

TypeOK ==
    /\ TableTypeOK(tab)
    /\ DOMAIN types \subseteq Variable
    /\ types \in [DOMAIN types -> Types]
    /\ phase \in Phases
    /\ open \in Seq(Frame)
    /\ pending \in BOOLEAN
    /\ params \in Seq(DOMAIN types)
    /\ loops \in Seq(DOMAIN types \cup {NULL})
    /\ state \in [succeed : BOOLEAN, result : 0 .. 3, syntax_error : BOOLEAN]
    /\ exit \in Exits \cup {Running}

Init ==
    /\ tab = initialize_table
    /\ types = [v \in [name : StdFunctions, id : {0}] |-> "FUNCTION_TYPE"]
    /\ phase = "args"
    /\ open = << >>
    /\ pending = FALSE
    /\ params = << >>
    /\ loops = << >>
    /\ state = [succeed |-> FALSE, result |-> 0, syntax_error |-> FALSE]
    /\ exit = Running

---------------------------------------------------------------------------
(* Helpers. *)

Parsing(p) == exit = Running /\ phase = p

\* The next variable calloc returns for the name.
New(name) ==
    [name |-> name, id |-> Cardinality({v \in DOMAIN types : v.name = name})]
CanAllocate == Cardinality(DOMAIN types) < MaxVariables

Exit(code, by) == exit' = [code |-> code, by |-> by]

\* exit(1): what the reduction did before is lost with the process.
Abort(by) ==
    /\ Exit(1, by)
    /\ UNCHANGED <<tab, types, phase, open, pending, params, loops, state>>

\* The variable a mention of the name resolves to, NULL if a new one is needed.
Resolve(name) ==
    LET declared == lookup_variable(tab, name)
    IN  IF declared # NULL THEN declared
                           ELSE lookup_dangling_variable(tab, name)

\* The variable, the table and the status after the call.
lookup_variable_create_dangling(name) ==
    IF Resolve(name) # NULL
    THEN [var |-> Resolve(name), tab |-> tab, status |-> "SUCCESS"]
    ELSE LET r == insert_dangling_variable(tab, New(name))
         IN  [var |-> New(name), tab |-> r.tab, status |-> r.status]

\* What a caller does with r: go on with the variable, of the given type if it
\* is new, or report and exit; the crash happens inside the call.
Continue(r, type) ==
    /\ r.var \in DOMAIN types \/ CanAllocate
    /\ \/ /\ r.status = "MULTIPLE_DECLARATION"
          /\ Exit(1, "multiple_declaration")
          /\ UNCHANGED <<tab, types>>
       \/ /\ r.status \in {"SUCCESS", "NULL_DEREFERENCE"}
          /\ tab' = r.tab
          /\ types' = [v \in DOMAIN types \cup {r.var} |->
                          IF v \in DOMAIN types THEN types[v] ELSE type]
          /\ exit' = IF r.status = "SUCCESS" THEN exit
                     ELSE [code |-> 139, by |-> "null_node"]

\* An expression has been read: a loop or block may now be closed.
ExpressionRead == pending' = FALSE /\ UNCHANGED <<phase, open, params, loops>>

---------------------------------------------------------------------------
(* Parameters: `args_list : ID | args_list COMMA ID`. *)

grammar_concat_list_args_with_id(name) ==
    LET r == lookup_variable_create_dangling(name)
    IN  /\ Parsing("args")
        /\ Len(params) < MaxParams
        /\ Continue(r, "UNKNOWN_TYPE")
        /\ params' = IF exit' = Running THEN Append(params, r.var) ELSE params
        /\ UNCHANGED <<phase, open, pending, loops, state>>

CloseParameters ==
    /\ Parsing("args")
    /\ phase' = "body"
    /\ pending' = TRUE
    /\ UNCHANGED <<tab, types, open, params, loops, state, exit>>

---------------------------------------------------------------------------
(* Expressions. *)

\* num_type, str_type, bool_type, cmp_type, args_list and `ID is type`: every
\* production that takes an identifier for its value.
grammar_expression_type_from_id(name) ==
    LET r == lookup_variable_create_dangling(name)
    IN  /\ Parsing("body")
        /\ Continue(r, "UNKNOWN_TYPE")
        /\ ExpressionRead
        /\ UNCHANGED state

IsFunction(name) ==
    /\ lookup_variable(tab, name) # NULL
    /\ types[lookup_variable(tab, name)] = "FUNCTION_TYPE"

grammar_function_call(name) ==
    /\ Parsing("body")
    /\ \/ /\ ~IsFunction(name)
          /\ Abort("function_not_found")
       \/ /\ IsFunction(name)
          /\ UNCHANGED <<tab, types, state, exit>>
          /\ ExpressionRead

\* `ID DOT ID (args)`: the function is resolved before the identifier.
grammar_function_call_from_id(name, function) ==
    /\ Parsing("body")
    /\ \/ /\ ~IsFunction(function)
          /\ Abort("function_not_found")
       \/ LET r == lookup_variable_create_dangling(name)
          IN  /\ IsFunction(function)
              /\ Continue(r, "UNKNOWN_TYPE")
              /\ ExpressionRead
              /\ UNCHANGED state

\* The separators after WITH. A wrong one is reported and remembered, and the
\* parse goes on.
Separators == {"valid", "invalid"}

Declare(name) ==
    LET r == insert_variable(tab, New(name))
    IN  [var |-> New(name), tab |-> r.tab, status |-> r.status]

grammar_new_declaration_file_node(name, separators) ==
    LET r == Declare(name)
    IN  /\ Parsing("body")
        /\ Continue(r, "FILE_PATH_TYPE")
        /\ state' = [state EXCEPT !.syntax_error =
                        @ \/ (exit' = Running /\ separators = "invalid")]
        /\ ExpressionRead

\* Separators that are not a list: their elements are read through NULL.
DereferenceSeparators(name) ==
    /\ Parsing("body")
    /\ Declare(name).status = "SUCCESS"
    /\ Exit(139, "null_list")
    /\ UNCHANGED <<tab, types, phase, open, pending, params, loops, state>>

grammar_new_variable(name) ==
    LET r == Declare(name)
    IN  /\ Parsing("body")
        /\ Continue(r, "CONSTANT_TYPE")
        /\ ExpressionRead
        /\ UNCHANGED state

\* `expression -> ID`, after the expression has been read.
grammar_new_assignment_expression(name) ==
    /\ Parsing("body")
    /\ ~pending
    /\ \/ /\ lookup_variable(tab, name) = NULL
          /\ Abort("variable_not_found")
       \/ /\ lookup_variable(tab, name) # NULL
          /\ UNCHANGED <<tab, types, state, exit>>
          /\ ExpressionRead

\* `ID -> ID`: the source is resolved, and inserted, before the destination.
grammar_new_assignment_from_id(from, to) ==
    LET r == lookup_variable_create_dangling(from)
        dest == lookup_variable(r.tab, to)
    IN  /\ Parsing("body")
        /\ \/ /\ r.status = "SUCCESS" /\ dest = NULL
              /\ Abort("variable_not_found")
           \/ /\ ~(r.status = "SUCCESS" /\ dest = NULL)
              /\ Continue(r, "UNKNOWN_TYPE")
              /\ ExpressionRead
              /\ UNCHANGED state

---------------------------------------------------------------------------
(* Loops and `with` blocks. *)

Open(form, name) ==
    /\ Parsing("body")
    /\ Len(open) < MaxDepth
    /\ open' = Append(open, [form |-> form, id |-> name])
    /\ pending' = TRUE
    /\ UNCHANGED <<tab, types, phase, params, loops, state, exit>>

ShiftDo ==
    /\ Parsing("body")
    /\ ~pending
    /\ open # << >> /\ Last(open).form = "in"
    /\ open' = [open EXCEPT ![Len(open)].form = "do"]
    /\ pending' = TRUE
    /\ UNCHANGED <<tab, types, phase, params, loops, state, exit>>

Closing(form, name) ==
    /\ Parsing("body")
    /\ ~pending
    /\ open # << >> /\ Last(open) = [form |-> form, id |-> name]

grammar_using_file(name) ==
    /\ Closing("with", name)
    /\ \/ /\ lookup_variable(tab, name) = NULL
          /\ Abort("variable_not_found")
       \/ /\ lookup_variable(tab, name) # NULL
          /\ open' = Front(open)
          /\ UNCHANGED <<tab, types, phase, pending, params, loops, state, exit>>

\* next_scope(); grammar_new_loop(); prev_scope(). The loop variable is the
\* dangling variable its body left; there is none when the body does not use
\* it or when the name is declared, and the node keeps a NULL variable.
grammar_new_loop(name) ==
    LET var == lookup_dangling_variable(tab, name)
        inside == next_scope(tab)
    IN  /\ Closing("do", name)
        /\ Len(loops) < MaxLoops
        /\ tab' = prev_scope(assign_scope_to_dangling_variable(inside, var))
        /\ types' = IF var = NULL THEN types
                    ELSE [types EXCEPT ![var] = "LOOP_VARIABLE_TYPE"]
        /\ open' = Front(open)
        /\ loops' = Append(loops, var)
        /\ UNCHANGED <<phase, pending, params, state, exit>>

---------------------------------------------------------------------------
(* The end of the program. *)

EndOfBody == Parsing("body") /\ ~pending /\ open = << >>

grammar_new_return_node(name) ==
    /\ EndOfBody
    /\ \/ /\ lookup_variable(tab, name) = NULL
          /\ Abort("variable_not_found")
       \/ /\ lookup_variable(tab, name) # NULL
          /\ phase' = "return"
          /\ UNCHANGED <<tab, types, open, pending, params, loops, state, exit>>

ReturnNothing ==
    /\ EndOfBody
    /\ phase' = "return"
    /\ UNCHANGED <<tab, types, open, pending, params, loops, state, exit>>

\* The loop over the arguments: the table after the first i of them.
AssignScopes(t, variables) ==
    LET after[i \in 0 .. Len(variables)] ==
            IF i = 0 THEN t
            ELSE assign_scope_to_dangling_variable(after[i - 1], variables[i])
    IN  after[Len(variables)]

\* Mutant of grammar_new_function: the parameters keep dangling.
NewFunctionForgettingArgs ==
    /\ Parsing("return")
    /\ phase' = "function"
    /\ UNCHANGED <<tab, types, open, pending, params, loops, state, exit>>

grammar_new_function ==
    /\ Parsing("return")
    /\ tab' = AssignScopes(tab, params)
    /\ phase' = "function"
    /\ UNCHANGED <<types, open, pending, params, loops, state, exit>>

DANGLING_VARIABLES == 2
SYNTAX_ERROR == 1

grammar_program ==
    /\ Parsing("function")
    /\ state' =
          IF count_dangling(tab) > 0
          THEN [state EXCEPT !.succeed = FALSE, !.result = DANGLING_VARIABLES]
          ELSE IF state.syntax_error
          THEN [state EXCEPT !.succeed = FALSE, !.result = SYNTAX_ERROR]
          ELSE [state EXCEPT !.succeed = TRUE, !.result = 0]
    /\ phase' = "program"
    /\ UNCHANGED <<tab, types, open, pending, params, loops, exit>>

\* yyparse returned 0. The outcome of generate_code does not reach the exit
\* code.
Finish ==
    /\ Parsing("program")
    /\ Exit(IF state.succeed THEN 0 ELSE 255, "FINISHED")
    /\ UNCHANGED <<tab, types, phase, open, pending, params, loops, state>>

\* yyparse returns 1 after yyerror, 2 when its stack is exhausted; main
\* switches on that value and returns it.
ParseFails ==
    /\ exit = Running
    /\ phase \notin {"function", "program"}
    /\ \/ Exit(1, "SYNTAX_ERROR")
       \/ Exit(2, "DANGLING_VARIABLES")
    /\ UNCHANGED <<tab, types, phase, open, pending, params, loops, state>>

Next ==
    \/ \E name \in Identifiers :
          \/ grammar_concat_list_args_with_id(name)
          \/ grammar_expression_type_from_id(name)
          \/ grammar_function_call(name)
          \/ \E function \in Identifiers : grammar_function_call_from_id(name, function)
          \/ \E s \in Separators : grammar_new_declaration_file_node(name, s)
          \/ DereferenceSeparators(name)
          \/ grammar_new_variable(name)
          \/ grammar_new_assignment_expression(name)
          \/ \E to \in Identifiers : grammar_new_assignment_from_id(name, to)
          \/ \E form \in {"in", "with"} : Open(form, name)
          \/ grammar_using_file(name)
          \/ grammar_new_loop(name)
          \/ grammar_new_return_node(name)
    \/ CloseParameters
    \/ ShiftDo
    \/ ReturnNothing
    \/ grammar_new_function
    \/ grammar_program
    \/ Finish
    \/ ParseFails

Spec == Init /\ [][Next]_vars

---------------------------------------------------------------------------
(* Properties. *)

Resolved(t, name) ==
    [declared |-> lookup_variable(t, name),
     dangling |-> lookup_dangling_variable(t, name)]

\* Each variable of the AST is declared, is a loop variable or has the name of
\* a parameter, and no separator was refused.
ProgramIsBound ==
    /\ ~state.syntax_error
    /\ \A v \in DOMAIN types :
          \/ types[v] # "UNKNOWN_TYPE"
          \/ \E i \in DOMAIN params : Hash[params[i].name] = Hash[v.name]

\* The compiler exits with 0 only for a program without an identifier that
\* nothing binds. grammar_program decides on the counter num_dangling alone,
\* which four functions of symbols.c maintain and which a growth of the table,
\* a reused name or a hash collision must not deceive. A second growth may.
AcceptedProgramIsBound ==
    exit.code = 0 /\ tab.blocks <= 2 => ProgramIsBound

\* num_dangling counts the nodes of scope -1: never fewer than the table
\* holds, and exactly those as long as no growth has thrown chains away. The
\* counter is unsigned, so one decrement too many would wrap.
DanglingCounterIsExact ==
    /\ tab.dangling >= Cardinality(DanglingNodes(tab))
    /\ tab.blocks = 1 => tab.dangling = Cardinality(DanglingNodes(tab))

\* Until the parameters are declared, a name has at most one node of scope 0
\* and one of scope -1 in the chain it is looked up in, although
\* insert_variable compares only the first node that has the hash. A second
\* growth may bring back a chain that was out of reach.
OneNodePerNameAndScope ==
    phase \in {"args", "body", "return"} /\ tab.blocks <= 2 =>
        \A name \in Identifiers : \A i, j \in SameHash(tab, name) :
            /\ i # j
            /\ Chain(tab, name)[i].scope = Chain(tab, name)[j].scope
            => Chain(tab, name)[i].scope > 0

\* A loop variable is out of reach once its loop is reduced, whether or not
\* prev_scope unlinked its node: it stops at the first node of another scope
\* and visits only the first table_size buckets.
LoopVariableIsLocal ==
    \A name \in Identifiers :
        Resolve(name) # NULL => types[Resolve(name)] # "LOOP_VARIABLE_TYPE"

\* Two loops never bind the same variable object, so that the name the
\* generator rewrites in one of them is not the other's.
LoopsBindDistinctVariables ==
    \A i, j \in DOMAIN loops :
        i # j /\ loops[i] # NULL => loops[i] # loops[j]

\* Reducing a loop changes what its own identifier resolves to as a dangling
\* variable, and nothing else: prev_scope pops only nodes of the loop's scope.
LoopReductionIsLocal ==
    [][loops' # loops =>
         \A name \in Identifiers :
            /\ Resolved(tab', name).declared = Resolved(tab, name).declared
            /\ Hash[name] # Hash[Last(open).id]
                  => Resolved(tab', name) = Resolved(tab, name)]_vars

\* The table never fills up, and the loops that take table_size for a number
\* of buckets stay inside the allocation.
TableStaysWithinLoad == LoadBelowThreshold(tab)

\* What the front end promises about identifiers.
Verdict ==
    CASE exit = Running -> "compiling"
      [] exit.by = "multiple_declaration" -> "redeclared"
      [] exit.by \in {"variable_not_found", "function_not_found"} -> "not_found"
      [] exit.by = "null_node" -> "crashed"
      [] exit.code = 0 -> "accepted"
      [] exit.code = 255 /\ state.result = DANGLING_VARIABLES -> "dangling"
      [] OTHER -> "malformed"

Symbols == {Hash[name] : name \in Identifiers}

\* The symbols with a node of the scope in their chain.
SymbolsIn(scope) ==
    {s \in Symbols :
        \E i \in DOMAIN tab.chains[s % BucketCount(tab)] :
            /\ tab.chains[s % BucketCount(tab)][i].prehash = s
            /\ tab.chains[s % BucketCount(tab)][i].scope = scope}

Resolution == INSTANCE NameResolution WITH
    Functions <- {Hash[f] : f \in StdFunctions} \cap Symbols,
    declared <- SymbolsIn(0),
    dangling <- SymbolsIn(SCOPE_DANGLING),
    parameters <- {Hash[params[i].name] : i \in DOMAIN params},
    verdict <- Verdict

\* While the table has one block, the front end resolves identifiers as
\* NameResolution says: hashing, chains and scopes do not show.
ImplementsNameResolution == Resolution!Spec

\* What comments say of the front end, and a run refutes.

\* A variable that is mentioned before it is bound is stored as dangling, so
\* that a program is accepted only when each of them has been bound.
EveryAcceptedProgramIsBound == exit.code = 0 => ProgramIsBound

\* A compilation that ends with dangling variables in state.result is reported
\* as one: main has a case for that result.
DanglingResultIsReported ==
    exit # Running /\ state.result = DANGLING_VARIABLES
        => exit.by = "DANGLING_VARIABLES"
============================================================================
