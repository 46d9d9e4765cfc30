----------------------------- MODULE SyntaxTree -----------------------------
(***************************************************************************)
(* The AST the reductions of bison-grammar.y build (bison-actions.c), as a *)
(* graph of objects on the heap, and its release by free_program. A step   *)
(* is one reduction: it takes the values of its symbols off the parser's   *)
(* stack and leaves one. Any sequence of reductions that ends with a       *)
(* function is the bottom-up parse of some program.                        *)
(*                                                                         *)
(* Names are resolved as NameResolution says, which Compilation implements.*)
(* A reduction that would report an error and exit is left to Compilation: *)
(* the process ends without releasing anything.                            *)
(***************************************************************************)
EXTENDS MemManager

CONSTANTS
    Identifiers,  \* the identifiers of the program
    Function,     \* the name of a standard function
    Scales        \* bound: the kinds of programs to parse, and how large

AllForms ==
    {"program", "let", "assignment", "arguments", "call", "file", "loop",
     "operator", "conditional", "list", "range", "lists"}

\* The forms of expression a program uses, and how many objects, values on
\* the parser's stack and elements of a list or a chain it takes.
Scale == [forms : SUBSET AllForms, objects : Nat, values : Nat, fields : Nat]

ASSUME ScalesAssumption == Scales \subseteq Scale
ASSUME FunctionAssumption == Function \notin Identifiers

Names == Identifiers \cup {Function}

VARIABLES
    values,    \* yyvsp: the semantic values on the parser's stack, top last
    declared,  \* name -> its variable in the scope of the program, or NULL
    dangling,  \* name -> the variable its mentions share, or NULL
    table,     \* the variables with a node in the symbol table
    program,   \* root->main_function
    scale      \* the scale of the program, for good

parseVars == <<values, declared, dangling, table, program, scale>>
vars == <<memVars, parseVars>>

\* What a nonterminal accepts, by the kind of the object its value points to.
expression ==
    {"constant", "call", "binary", "declaration", "file", "conditional", "loop",
     "with", "list_expression", "assignment"}
num_type == {"constant", "call", "id"}
cmp_type == {"constant", "call", "id", "binary"}
bool_type == {"call", "id", "compare"}
bool_expr == {"call", "id", "compare", "boolean"}
list == {"list", "range"}

TypeOK ==
    /\ MemTypeOK
    /\ values \in Seq(Addresses)
    /\ declared \in [Names -> Addresses \cup {NULL}]
    /\ dangling \in [Names -> Addresses \cup {NULL}]
    /\ table \subseteq Addresses
    /\ program \in Addresses \cup {NULL}
    /\ scale \in Scales

---------------------------------------------------------------------------
(* Helpers. *)

Object(kind, fields) ==
    [kind |-> kind, fields |-> fields, hidden |-> {}, exprs |-> "array",
     empty |-> fields = << >>]

\* What malloc may return: an address freed before, or the next one.
Malloc(taken) ==
    LET unused == {a \in Addresses : a <= scale.objects} \ (taken \cup Recorded)
    IN  (Recorded \ taken)
        \cup {a \in unused : \A b \in unused : a <= b}

Parsing == phase = "parse"

\* The value of the k-th symbol from the end of the production.
Value(k) == values[Len(values) - k + 1]
Reads(k, kinds) == k <= Len(values) /\ heap[Value(k)].kind \in kinds
Rest(k) == SubSeq(values, 1, Len(values) - k)

\* The reduction leaves a new object in the place of the last k values; fresh
\* is the variable it allocates for it, if any. The first value of a program is
\* its list of parameters, identifiers.
Build(k, fresh, variable, object) ==
    /\ Parsing
    /\ Len(values) - k < scale.values
    /\ Len(values) = k => object.kind \in {"args", "function"}
    /\ \E a \in Malloc(live \cup fresh) :
          /\ heap' = [b \in DOMAIN heap \cup fresh \cup {a} |->
                         IF b \in fresh THEN variable
                         ELSE IF b = a THEN object ELSE heap[b]]
          /\ live' = live \cup fresh \cup {a}
          /\ values' = Append(Rest(k), a)
    /\ UNCHANGED <<program, scale, free_addresses, calls, todo, phase>>

Reduce(k, kind, fields) ==
    /\ Build(k, {}, Object("variable", << >>), Object(kind, fields))
    /\ UNCHANGED <<declared, dangling, table>>

\* The reduction adds to the object of the k-th value and leaves it on top.
Extend(k, object) ==
    /\ Parsing
    /\ Len(object.fields) <= scale.fields
    /\ heap' = [heap EXCEPT ![Value(k)] = object]
    /\ values' = Rest(k - 1)
    /\ UNCHANGED <<live, declared, dangling, table, program, scale, free_addresses,
                   calls, todo, phase>>

\* The process ends, or the parse does, in the middle of a reduction.
End(how) ==
    /\ Parsing
    /\ phase' = how
    /\ UNCHANGED <<heap, live, free_addresses, calls, todo, parseVars>>

Resolve(name) ==
    IF declared[name] # NULL THEN declared[name] ELSE dangling[name]

\* The variable of a mention: the one that has the name, or a new one.
lookup_variable_create_dangling(name) ==
    IF Resolve(name) # NULL THEN {Resolve(name)} ELSE Malloc(live)

Fresh(var) == {var} \ live

\* What the lookup did to the table.
Mentioned(name, var) ==
    /\ dangling' = [dangling EXCEPT ![name] = IF var \in live THEN @ ELSE var]
    /\ table' = table \cup Fresh(var)
    /\ UNCHANGED declared

---------------------------------------------------------------------------
(* Leaves. *)

\* number, string and bool constants: their variable is in no table.
grammar_constant == Reduce(0, "constant", << >>)

\* `ID` as an operand, and `ID IS data_type`.
grammar_expression_type_from_id(name, kind) ==
    \E var \in lookup_variable_create_dangling(name) :
        /\ Build(0, Fresh(var), Object("variable", << >>), Object(kind, <<var>>))
        /\ Mentioned(name, var)

---------------------------------------------------------------------------
(* Operators: left and right share their storage with expr, the operand of *)
(* NOT.                                                                     *)

Binary(kind, operand) ==
    /\ Reads(2, operand) /\ Reads(1, operand)
    /\ Reduce(2, kind, <<Value(2), Value(1)>>)

grammar_expression_arithmetic == Binary("binary", num_type)
grammar_expression_cmp == Binary("compare", cmp_type)
grammar_expression_bool == Binary("boolean", bool_type)

\* Mutant of grammar_expression_bool_not: the operand is not stored.
BoolNotWithoutOperand ==
    /\ Reads(1, bool_type)
    /\ Reduce(1, "boolean", << >>)

grammar_expression_bool_not ==
    /\ Reads(1, bool_type)
    /\ Reduce(1, "boolean", <<Value(1)>>)

---------------------------------------------------------------------------
(* Lists. A range keeps its bounds where other lists keep the pointer to   *)
(* their elements.                                                          *)

grammar_new_list ==
    \/ Reduce(0, "list", << >>)
    \/ /\ Reads(1, expression)
       /\ Reduce(1, "list", <<Value(1)>>)

Range0(from, to) ==
    [kind |-> "range", fields |-> << >>, hidden |-> {},
     exprs |-> IF from = 0 THEN "null" ELSE "number", empty |-> from = to]

grammar_new_list_from_range(from, to) ==
    /\ from <= to
    /\ Build(0, {}, Object("variable", << >>), Range0(from, to))
    /\ UNCHANGED <<declared, dangling, table>>

\* An element after a range: realloc takes the number for the array, and
\* survives only a zero. The list is still a range when it is released.
grammar_concat_list_expr ==
    /\ Reads(2, list) /\ Reads(1, expression)
    /\ LET head == heap[Value(2)]
       IN  \/ /\ head.exprs = "number"
              /\ End("crash")
           \/ /\ head.kind = "list"
              /\ Extend(2, [head EXCEPT !.fields = Append(@, Value(1)),
                                        !.empty = FALSE])
           \/ /\ head.kind = "range" /\ head.exprs # "number"
              /\ Extend(2, [head EXCEPT !.hidden = @ \cup {Value(1)},
                                        !.exprs = "array", !.empty = FALSE])

\* A range after a list. realloc to no bytes frees an array and returns NULL,
\* which is reported as a lack of memory; a tail that is not empty has its
\* elements read through the number; the tail that is left is freed.
grammar_concat_list_list ==
    /\ Reads(2, list) /\ Reads(1, {"range"})
    /\ LET head == heap[Value(2)]
           tail == heap[Value(1)]
       IN  \/ /\ head.exprs = "number" \/ ~tail.empty
              /\ End("crash")
           \/ /\ head.exprs = "array" /\ head.empty /\ tail.empty
              /\ End("abort")
           \/ /\ head.exprs # "number" /\ tail.empty
              /\ ~(head.exprs = "array" /\ head.empty)
              /\ Parsing
              /\ free_and_keep_address(Value(1))
              /\ heap' = [heap EXCEPT ![Value(2)].exprs = "array"]
              /\ values' = Rest(1)
              /\ UNCHANGED <<declared, dangling, table, program, scale, calls, todo, phase>>

grammar_expression_from_list ==
    /\ Reads(1, list)
    /\ Reduce(1, "list_expression", <<Value(1)>>)

---------------------------------------------------------------------------
(* Arguments and calls. The expression of an argument ID is the list's own. *)

grammar_new_list_args ==
    \/ Reduce(0, "args", << >>)
    \/ /\ Reads(1, expression)
       /\ Reduce(1, "args", <<Value(1)>>)

grammar_new_list_args_from_id(name) ==
    \E var \in lookup_variable_create_dangling(name) :
        /\ Build(0, Fresh(var), Object("variable", << >>), Object("args", <<var>>))
        /\ Mentioned(name, var)

grammar_concat_list_args ==
    /\ Reads(2, {"args"}) /\ Reads(1, expression)
    /\ Extend(2, [heap[Value(2)] EXCEPT !.fields = Append(@, Value(1)), !.empty = FALSE])

grammar_concat_list_args_with_id(name) ==
    /\ Parsing
    /\ Reads(1, {"args"})
    /\ Len(heap[Value(1)].fields) < scale.fields
    /\ \E var \in lookup_variable_create_dangling(name) :
          /\ heap' = [b \in DOMAIN heap \cup {var} |->
                        IF b = Value(1)
                        THEN [heap[b] EXCEPT !.fields = Append(@, var), !.empty = FALSE]
                        ELSE IF b \in Fresh(var) THEN Object("variable", << >>)
                        ELSE heap[b]]
          /\ live' = live \cup {var}
          /\ Mentioned(name, var)
    /\ UNCHANGED <<values, program, scale, free_addresses, calls, todo, phase>>

\* A call points to the variable the table has for the function.
grammar_function_call ==
    /\ Reads(1, {"args"})
    /\ Reduce(1, "calls", <<declared[Function], Value(1)>>)

\* `ID DOT ID (args)`: a link for the identifier, then the call's.
grammar_function_call_from_id(name) ==
    /\ Reads(1, {"args"})
    /\ \E var \in lookup_variable_create_dangling(name) :
          /\ Build(1, Fresh(var), Object("variable", << >>),
                   Object("calls", <<var, declared[Function], Value(1)>>))
          /\ Mentioned(name, var)

\* Mutant of grammar_concat_function_call: the second chain is not linked.
ConcatCallUnlinked ==
    /\ Reads(2, {"calls"}) /\ Reads(1, {"calls"})
    /\ Parsing
    /\ values' = Rest(1)
    /\ UNCHANGED <<heap, live, declared, dangling, table, program, scale, free_addresses,
                   calls, todo, phase>>

\* The links of the second chain become the first one's.
grammar_concat_function_call ==
    /\ Reads(2, {"calls"}) /\ Reads(1, {"calls"})
    /\ Parsing
    /\ Len(heap[Value(2)].fields) + Len(heap[Value(1)].fields) <= scale.fields
    /\ heap' = [heap EXCEPT ![Value(2)].fields = @ \o heap[Value(1)].fields]
    /\ live' = live \ {Value(1)}
    /\ values' = Rest(1)
    /\ UNCHANGED <<declared, dangling, table, program, scale, free_addresses, calls, todo, phase>>

grammar_expression_from_funcall ==
    /\ Reads(1, {"calls"})
    /\ Reduce(1, "call", <<Value(1)>>)

---------------------------------------------------------------------------
(* Statements. *)

Declared(name, var) ==
    /\ declared[name] = NULL
    /\ declared' = [declared EXCEPT ![name] = var]
    /\ table' = table \cup {var}
    /\ UNCHANGED dangling

grammar_new_variable(name) ==
    \E var \in Malloc(live) :
        /\ Reads(1, {"constant"})
        /\ Build(1, {var}, Object("variable", <<Value(1)>>),
                 Object("declaration", <<var>>))
        /\ Declared(name, var)

\* Mutant of grammar_new_declaration_file_node: the separators are not stored.
FileWithoutSeparators(name) ==
    \E var \in Malloc(live), k \in {0, 1} :
        /\ k = 1 => Reads(1, {"list"})
        /\ Build(k, {var}, Object("variable", << >>), Object("file", <<var>>))
        /\ Declared(name, var)

\* With or without separators.
grammar_new_declaration_file_node(name) ==
    \E var \in Malloc(live) :
        /\ \/ Build(0, {var}, Object("variable", << >>), Object("file", <<var>>))
           \/ /\ Reads(1, {"list"})
              /\ Build(1, {var}, Object("variable", << >>),
                       Object("file", <<var, Value(1)>>))
        /\ Declared(name, var)

grammar_new_assignment_expression(name) ==
    /\ Reads(1, expression)
    /\ declared[name] # NULL
    /\ Reduce(1, "assignment", <<declared[name], Value(1)>>)

\* `ID -> ID`: the source's expression is the assignment's own.
grammar_new_assignment_from_id(from, name) ==
    /\ declared[name] # NULL
    /\ \E var \in lookup_variable_create_dangling(from) :
          /\ Build(0, Fresh(var), Object("variable", << >>),
                   Object("assignment", <<declared[name], var>>))
          /\ Mentioned(from, var)

\* The parts of a conditional are behind a pointer no free_* function follows.
grammar_new_conditional ==
    /\ Reads(3, bool_expr) /\ Reads(2, expression) /\ Reads(1, expression)
    /\ Build(3, {}, Object("variable", << >>),
             [Object("conditional", << >>) EXCEPT
                 !.hidden = {Value(3), Value(2), Value(1)}])
    /\ UNCHANGED <<declared, dangling, table>>

\* The dangling variable of the name, if any, becomes the loop's. prev_scope
\* unlinks its node from the table unless another scope's node is before it.
grammar_new_loop(name) ==
    /\ Reads(2, expression) /\ Reads(1, expression)
    /\ Build(2, {}, Object("variable", << >>),
             Object("loop", <<Value(2), Value(1), dangling[name]>>))
    /\ dangling' = [dangling EXCEPT ![name] = NULL]
    /\ table' \in {table, table \ {dangling[name]}}
    /\ UNCHANGED declared

grammar_new_expression_list ==
    /\ Reads(1, expression)
    /\ Reduce(1, "expressions", <<Value(1)>>)

grammar_concat_expressions ==
    /\ Reads(2, {"expressions"}) /\ Reads(1, expression)
    /\ Extend(2, [heap[Value(2)] EXCEPT !.fields = Append(@, Value(1))])

grammar_using_file(name) ==
    /\ Reads(1, {"expressions"})
    /\ declared[name] # NULL
    /\ Reduce(1, "with", <<declared[name], Value(1)>>)

---------------------------------------------------------------------------
(* The function, and the end of the parse. *)

\* With the variable it returns, or none.
grammar_new_function(return_variable) ==
    /\ Len(values) = 2
    /\ Reads(2, {"args"}) /\ Reads(1, {"expressions"})
    /\ Reduce(2, "function", <<Value(2), Value(1), return_variable>>)

grammar_program ==
    /\ Parsing
    /\ Reads(1, {"function"})
    /\ program' = Value(1)
    /\ phase' = "parsed"
    /\ UNCHANGED <<heap, live, values, declared, dangling, table, scale,
                   free_addresses, calls, todo>>

\* yyparse gives up: what its stack points to is lost.
ParseFails ==
    /\ ~Reads(1, {"function"})
    /\ End("parsed")

Init ==
    /\ \E a \in Addresses :
          /\ \A b \in Addresses : a <= b
          /\ heap = [b \in {a} |-> Object("variable", << >>)]
          /\ live = {a}
          /\ declared = [name \in Names |-> IF name = Function THEN a ELSE NULL]
          /\ table = {a}
    /\ dangling = [name \in Names |-> NULL]
    /\ free_addresses = init_free_address_list
    /\ calls = << >>
    /\ todo = {}
    /\ phase = "parse"
    /\ values = << >>
    /\ program = NULL
    /\ scale \in Scales

\* The productions of each form. Every program has a list of parameters,
\* constants and a list of expressions.
Production(form) ==
    CASE form = "program" ->
            \/ values = << >> /\ grammar_new_list_args
            \/ grammar_constant
            \/ grammar_new_expression_list
            \/ grammar_concat_expressions
      [] form = "let" ->
            \E name \in Names : grammar_new_variable(name)
      [] form = "assignment" ->
            \E name \in Names :
                \/ grammar_new_assignment_expression(name)
                \/ \E from \in Names : grammar_new_assignment_from_id(from, name)
      [] form = "arguments" ->
            \E name \in Names :
                  \/ grammar_new_list_args_from_id(name)
                  \/ grammar_concat_list_args_with_id(name)
      [] form = "call" ->
            \/ grammar_new_list_args
            \/ grammar_concat_list_args
            \/ grammar_function_call
            \/ grammar_concat_function_call
            \/ grammar_expression_from_funcall
            \/ \E name \in Names : grammar_function_call_from_id(name)
      [] form = "file" ->
            \E name \in Names :
                grammar_new_declaration_file_node(name) \/ grammar_using_file(name)
      [] form = "loop" ->
            \E name \in Names : grammar_new_loop(name)
      [] form = "operator" ->
            \/ grammar_expression_arithmetic
            \/ grammar_expression_cmp
            \/ \E name \in Names : grammar_expression_type_from_id(name, "id")
      [] form = "conditional" ->
            \/ grammar_expression_cmp
            \/ grammar_expression_bool
            \/ grammar_expression_bool_not
            \/ \E name \in Names : \E kind \in {"id", "compare"} :
                  grammar_expression_type_from_id(name, kind)
            \/ grammar_new_conditional
      [] form = "list" ->
            \/ grammar_new_list
            \/ grammar_concat_list_expr
            \/ grammar_expression_from_list
      [] form = "range" ->
            \/ \E from, to \in 0 .. 1 : grammar_new_list_from_range(from, to)
            \/ grammar_concat_list_expr
            \/ grammar_expression_from_list
      [] form = "lists" ->
            grammar_concat_list_list

\* The variable after RETURN exists, or none is named.
Returnable == {NULL} \cup {declared[name] : name \in Names}

Parse ==
    \/ \E form \in scale.forms : Production(form)
    \/ \E var \in Returnable : grammar_new_function(var)
    \/ grammar_program
    \/ ParseFails

free_program ==
    \/ free_main_function(program) /\ UNCHANGED parseVars
    \/ free_table(table) /\ UNCHANGED parseVars
    \/ Release /\ UNCHANGED parseVars

Next == Parse \/ free_program

Spec == Init /\ [][Next]_vars /\ WF_vars(free_program)

---------------------------------------------------------------------------
(* Properties. *)

\* No free_* function looks into, or frees, an object that is not allocated:
\* each variable is reached from its mentions, from its declaration and from
\* the table, and only the list of addresses tells that it is gone.
OnlyLiveMemoryIsTouched ==
    \A i \in DOMAIN calls : calls[i].object \in live

\* When free_program is through, an object of a complete program is still
\* allocated only for a reason: its address had been recorded before malloc
\* gave it to the object, it is a part of a conditional or an element added to
\* a range, or the object that points to it has been left.
LeaksAreExplained ==
    Released /\ program # NULL =>
        \A o \in live :
            \/ o \in Recorded
            \/ \E p \in DOMAIN heap :
                  \/ o \in heap[p].hidden
                  \/ p \in live /\ \E i \in DOMAIN heap[p].fields : heap[p].fields[i] = o

\* What is recorded fits in the list, and nothing is recorded twice: the
\* search for an address reads no slot that was never written.
RecordsFit ==
    /\ Len(free_addresses.array) <= free_addresses.len
    /\ Cardinality(Recorded) = Len(free_addresses.array)

\* The release comes to an end: the graph it walks has no cycle, although
\* variables are shared and the value of one is an expression.
ReleaseEnds == phase = "parsed" ~> phase = "exit"
============================================================================
