----------------------------- MODULE Generator -----------------------------
(***************************************************************************)
(* generate_code (src/src/backend/generator/code-generator.c): one walk    *)
(* over the AST that prints a C program, and main's report of it. A step   *)
(* is one generate_* function up to the recursive call it makes, if any.   *)
(*                                                                         *)
(* The program is arbitrary: each expression is chosen when the walk       *)
(* comes to it, among those the front end accepts. Of the C text the model *)
(* keeps what gcc would refuse: its blocks, the names they declare, and    *)
(* where an `else` stands.                                                 *)
(***************************************************************************)
EXTENDS Integers, Sequences, SequencesExt, FiniteSetsExt

CONSTANTS
    InputNames,      \* identifiers by the prefix that decides what a File
    OutputNames,     \* of the name is opened for
    OtherNames,
    LoopNames,       \* the identifiers of loops
    Chains,          \* bound: the calls a loop may iterate over
    Scales           \* bound: the kinds of programs, and how large

Identifiers == InputNames \cup OutputNames \cup OtherNames

Forms == {"let", "file", "copy", "arithmetic", "string", "method", "with", "loop",
          "conditional", "other"}

\* The forms of expression of a program and the names it declares, how many
\* parameters and expressions it has, and how many limits of the generator it
\* meets before its last expression.
Scale == [forms : SUBSET Forms, names : SUBSET Identifiers, params : Nat,
          expressions : Nat, limits : Nat]

ASSUME ScalesAssumption == Scales \subseteq Scale
ASSUME ChainsAssumption == Chains \subseteq Seq(STRING)

\* The names of the C program: the user's, those derived from one, and those
\* the generator declares itself. NULL is printed as "(null)".
Words ==
    Identifiers \cup LoopNames
    \cup {"output", "i", "(null)", "the arguments", "_arithm_n", "_isnum", "_line_line",
          "_line_len_implementation", "_at_implementation_ret", "_byIndex_implementation",
          "_columns_len_implementation", "_columns_remaining_implementation",
          "_columns_separator_char_implementation", "_constant_number_if",
          "_copy_loop_var_type_len", "_copy_loop_var_type_has_newline"}
Name == {"user", "file", "column", "own"} \X Words
User(name) == <<"user", name>>
FileOf(name) == <<"file", name[2]>>
Column(name) == <<"column", name[2]>>
Own(name) == <<"own", name>>
NULL == Own("(null)")

VARIABLES
    text,         \* the C text
    calls,        \* the C stack of the generate_* functions
    params,       \* main_function->args
    types,        \* the program's declared variables so far, and their types
    phase,        \* where generate_code is
    generated,    \* what it returns
    exit,         \* the exit code of the compiler
    expressions,  \* how many expressions the program has so far
    limits,       \* history: what the program asked for that cannot compile
    scale         \* the scale of the program, for good

vars ==
    <<text, calls, params, types, phase, generated, exit, expressions, limits, scale>>

---------------------------------------------------------------------------
(* The C text, printed token by token. after is TRUE where an `else` may   *)
(* stand.                                                                  *)

Block == [names : SUBSET Name, freed : SUBSET Name, if : BOOLEAN]
Errors == {"brace", "else", "undeclared", "redeclared", "freed"}
Text == [blocks : Seq(Block), after : BOOLEAN, errors : SUBSET Errors]

Token(do, names) == [do |-> do, names |-> names]
Use(names) == Token("use", names)       \* a statement that reads the names
Var(name) == Token("var", {name})       \* a declaration
Free(names) == Token("free", names)
While(names) == Token("open", names)    \* while or for, and its brace
If(names) == Token("if", names)         \* if and its brace
Check(names) == Token("check", names)   \* if (...) { ... return 1; }
Else == Token("else", {})
End == Token("end", {})

When(condition, x) == IF condition THEN {x} ELSE {}

Visible(blocks) == UNION {blocks[i].names : i \in DOMAIN blocks}

\* A name declared again in an inner block is another variable.
Freed(blocks) ==
    UNION {{name \in blocks[i].freed :
               \A j \in DOMAIN blocks : j > i => name \notin blocks[j].names}
           : i \in DOMAIN blocks}

Opened(blocks, if) == Append(blocks, [names |-> {}, freed |-> {}, if |-> if])

Printed(blocks, token) ==
    LET k == Len(blocks)
    IN  CASE token.do = "var" /\ k > 0 ->
               [blocks EXCEPT ![k] = [names |-> @.names \cup token.names,
                                      freed |-> @.freed \ token.names, if |-> @.if]]
          [] token.do = "free" /\ k > 0 ->
               [blocks EXCEPT ![k] = [names |-> @.names,
                                      freed |-> @.freed \cup token.names, if |-> @.if]]
          [] token.do \in {"open", "else"} -> Opened(blocks, FALSE)
          [] token.do = "if" -> Opened(blocks, TRUE)
          [] token.do = "end" /\ k > 0 -> Front(blocks)
          [] OTHER -> blocks

\* What gcc says of the token.
Wrong(t, token) ==
    LET k == Len(t.blocks)
        reads == token.do # "var"
    IN  When(token.do = "var" /\ k > 0 /\ token.names \subseteq t.blocks[k].names, "redeclared")
        \cup When(token.do = "end" /\ k = 0, "brace")
        \cup When(token.do = "else" /\ ~t.after, "else")
        \cup When(reads /\ ~ token.names \subseteq Visible(t.blocks), "undeclared")
        \cup When(reads /\ token.names \cap Freed(t.blocks) # {}, "freed")

ElseMayFollow(t, token) ==
    \/ token.do = "check"
    \/ token.do = "end" /\ t.blocks # << >> /\ Last(t.blocks).if

\* The text after a token.
TextAfter(t, token) ==
    [blocks |-> Printed(t.blocks, token),
     after |-> ElseMayFollow(t, token),
     errors |-> t.errors \cup Wrong(t, token)]

t ++ token == TextAfter(t, token)

\* TexlerObject *name = calloc(...), checked.
Allocated(t, name) == t ++ Var(name) ++ Check({name})

\* One token after the other.
PrintEach(t, tokens) ==
    LET printed[k \in 0 .. Len(tokens)] ==
            IF k = 0 THEN t ELSE printed[k - 1] ++ tokens[k]
    IN  printed[Len(tokens)]

\* n closing braces.
Closed(t, n) == PrintEach(t, [k \in 1 .. n |-> End])

---------------------------------------------------------------------------
(* The stack of calls. *)

\* "list" is generate_expressions_list; "expression" a generate_expression
\* that is due; "range", "calls" and "columns" a loop, "columns" while the
\* action inside the columns runs; "then" and "else" a conditional.
Functions == {"list", "expression", "range", "calls", "columns", "then", "else"}

\* var is a loop's variable under its present name; chain[at] the call of its
\* iterable that is next; index the argument of byIndex when it is a variable;
\* done is loop_action_generated, or that the list has had an expression.
Frame ==
    [fun : Functions, braces : Nat, working : Name, frees : Seq(Name), var : Name,
     chain : Chains \cup {<< >>}, at : Nat, index : Name, done : BOOLEAN]

Call(fun) ==
    [fun |-> fun, braces |-> 0, working |-> NULL, frees |-> << >>, var |-> NULL,
     chain |-> << >>, at |-> 0, index |-> NULL, done |-> FALSE]

Types == {"string", "number", "file"}
Limits ==
    {"parameters", "declared in a branch", "declared in a block", "declared parameter",
     "arithmetic", "constant added to itself", "repeated", "filter without lines",
     "no working file", "no output", "chain", "condition"}
Phases == {"open", "args", "body", "return", "main", "generated", "crash", "exit"}

TypeOK ==
    /\ text \in Text
    /\ calls \in Seq(Frame)
    /\ params \in Seq(Identifiers \cup {"constant"})
    /\ DOMAIN types \subseteq Identifiers
    /\ types \in [DOMAIN types -> Types]
    /\ phase \in Phases
    /\ generated \in BOOLEAN
    /\ exit \in {0, 139}
    /\ expressions \in 0 .. scale.expressions
    /\ limits \subseteq Limits
    /\ scale \in Scales

Top == Last(calls)
SetTop(frame) == Append(Front(calls), frame)

Loops == {"range", "calls", "columns"}
LoopVariables == {calls[i].var : i \in {j \in DOMAIN calls : calls[j].fun \in Loops}}
Declared == {User(name) : name \in DOMAIN types}

\* What an expression may mention. A parameter has no type yet.
Mentioned == Declared \cup LoopVariables \cup {User(p) : p \in Range(params)}
IsLoop(name) == name \in LoopVariables
IsFile(name) == ~IsLoop(name) /\ name \in Declared /\ types[name[2]] = "file"

\* The working file is the innermost list's. Loops share the frees_stack of
\* their list; the branches of a conditional get none.
InnermostOf(functions) == Max({i \in DOMAIN calls : calls[i].fun \in functions})
working == calls[InnermostOf({"list"})].working
FreesHolder == InnermostOf({"list", "then", "else"})

\* generate_expression is called: from a list, or for an action or a branch.
Expecting ==
    /\ phase = "body"
    /\ calls # << >>
    /\ Top.fun \in {"list", "expression"}
    /\ expressions < scale.expressions
    /\ Cardinality(limits) <= scale.limits

Returned ==
    IF Top.fun = "expression" THEN Front(calls) ELSE SetTop([Top EXCEPT !.done = TRUE])

\* The expression has printed t and returned, in its turn calling frames.
Emit(t, frames, asked) ==
    /\ Expecting
    /\ text' = t
    /\ calls' = Returned \o frames
    /\ expressions' = expressions + 1
    /\ limits' = limits \cup asked
    /\ UNCHANGED <<params, phase, generated, exit, scale>>

Statement(t, asked) == Emit(t, << >>, asked) /\ UNCHANGED types

\* It failed; no caller looks at that.
Fail == Statement(text, {})

\* left->var or right->var of an expression that has none.
Crash ==
    /\ Expecting
    /\ phase' = "crash"
    /\ exit' = 139
    /\ UNCHANGED <<text, calls, params, types, generated, expressions, limits, scale>>

InBlock(name) == text.blocks # << >> /\ name \in Last(text.blocks).names

---------------------------------------------------------------------------
(* Declarations. The front end refuses a name that is already declared,    *)
(* not one that is a parameter.                                            *)

\* The stack of free calls, with the name's.
FreesWith(name) == Append(calls[FreesHolder].frees, User(name))

\* The text after the declaration of the name is t.
Declare(name, type, t) ==
    /\ Expecting
    /\ name \notin DOMAIN types
    /\ IF calls[FreesHolder].fun # "list"
       THEN /\ text' = text
            /\ calls' = Returned
            /\ limits' = limits \cup {"declared in a branch"}
       ELSE /\ text' = t
            /\ calls' = [Returned EXCEPT ![FreesHolder].frees = FreesWith(name)]
            /\ limits' = limits
                 \cup When(\E i \in DOMAIN calls : calls[i].braces > 0, "declared in a block")
                 \cup When(name \in Range(params), "declared parameter")
    /\ types' = [n \in DOMAIN types \cup {name} |-> IF n = name THEN type ELSE types[n]]
    /\ expressions' = expressions + 1
    /\ UNCHANGED <<params, phase, generated, exit, scale>>

generate_variable(name) ==
    \E type \in {"string", "number"} :
        Declare(name, type, Allocated(text, User(name)) ++ Use({User(name)}))

\* A file that cannot be opened ends the program, after the free calls of the
\* stack. A name without a prefix is reported and left without a file.
generate_variable_file(name, path) ==
    LET t == Allocated(text, User(name))
        use == Use({User(name)})
        check == Check({User(name)} \cup Range(FreesWith(name)))
    IN  Declare(name, "file",
          CASE name \in InputNames /\ path = "directory" -> t ++ use
            [] name \in InputNames /\ path # "directory" -> t ++ check ++ use
            [] name \in OutputNames /\ path = "" -> t ++ use ++ Check({User(name)})
            [] name \in OutputNames /\ path = "STDOUT" -> t ++ use
            [] name \in OutputNames /\ path \notin {"", "STDOUT"} -> t ++ check
            [] OTHER -> t)

---------------------------------------------------------------------------
(* Assignments, to a declared variable. An operand is a constant, a call   *)
(* or a variable; only a variable has a name.                              *)

Operand(form, names) == [form |-> form, names |-> names]
Constant == Operand("constant", {})
Variables == {Operand("variable", {name}) : name \in Mentioned}
Operands == {Constant, Operand("call", {})} \cup Variables

Files(operand) == operand.form = "variable" /\ \A name \in operand.names : IsFile(name)

generate_variable_assignment_to_constant(dest) ==
    Statement(text ++ Use({User(dest)}), {})

generate_variable_assignment_to_variable(dest, source) ==
    Statement(text ++ Use({User(dest), source}), {})

\* The operands of an addition or a multiplication, in a block of their own.
generate_number_arithmetic(dest, left, right) ==
    Statement(text ++ While({}) ++ Var(Own("_arithm_n"))
                   ++ Use(left.names \cup right.names \cup {User(dest)}) ++ End, {})

\* A file times a number copies the file. With a call on the left the walk
\* reads through NULL.
generate_number_arithmetic_mul_with_file(dest, left, right) ==
    LET number == IF Files(left) THEN right ELSE left
    IN  /\ Files(left) \/ Files(right)
        /\ \/ left.form = "call" /\ Crash /\ UNCHANGED types
           \/ /\ left.form # "call" /\ number.form = "call"
              /\ Statement(text ++ While({}) ++ Var(Own("_arithm_n")) ++ End, {})
           \/ /\ left.form # "call" /\ number.form # "call"
              /\ Statement(text ++ While({}) ++ Check(number.names) ++ Var(Own("_arithm_n"))
                                ++ Use(number.names)
                                ++ While(left.names \cup right.names \cup {User(dest)})
                                ++ End ++ End, {})

\* `-`, `/` and `%` print the brace that would close an addition.
generate_number_arithmetic_none == Statement(text ++ End, {"arithmetic"})

\* The cases in the order of the code. A constant has no name: added to its
\* own destination it prints "(null)".
generate_string_arithmetic_add_expression(dest, left, right) ==
    LET names == left.names \cup right.names \cup {User(dest)}
        toFile == types[dest] = "file"
        itself(operand) == operand.names = {User(dest)}
        length == Own("_copy_loop_var_type_len")
        newline == Own("_copy_loop_var_type_has_newline")
    IN  CASE left.form = "constant" /\ right.form = "constant" ->
               Statement(IF toFile THEN text ++ Use(names) ELSE text, {})
          [] Files(left) \/ Files(right) ->
               Statement(IF toFile THEN text ++ Use(names) ELSE text, {})
          [] left.form = "variable" /\ ~Files(left) /\ ~Files(right) ->
               IF itself(left)
               THEN \/ right.form = "variable" /\ Statement(text ++ Use(names), {})
                    \/ right.form = "constant"
                       /\ Statement(text ++ Use(names \cup {NULL}), {"constant added to itself"})
                    \/ right.form = "call" /\ Crash /\ UNCHANGED types
               ELSE IF ~itself(right) /\ types[dest] # "string"
                       /\ \A name \in left.names : IsLoop(name)
               THEN Statement(text ++ Var(length) ++ Var(newline) ++ Check(left.names)
                                   ++ Use(names) ++ Check({User(dest), newline}),
                              When(InBlock(length), "repeated"))
               ELSE Statement(text ++ Use(names), {})
          [] left.form # "variable" /\ right.form = "variable" /\ ~Files(right) ->
               Statement(text ++ Use(names), {})
          [] OTHER -> Fail

\* Subtractions of strings, and every other expression, print nothing.
generate_nothing == Statement(text, {})

\* A loop over the lines of the working file is open.
InLines ==
    \E i \in DOMAIN calls :
        /\ i > InnermostOf({"list"})
        /\ calls[i].fun \in {"calls", "columns"}
        /\ "lines" \in Range(calls[i].chain)

LineLength == Own("_line_len_implementation")

\* `id.function(...) -> dest`: the calls from the last to the first, then the
\* copy of a loop variable. A call on nothing fails.
generate_variable_assignment_from_function_call(dest, id, function) ==
    LET copied(t) == IF IsLoop(id) THEN t ++ Use({id, User(dest)}) ELSE t
        result == Own("_at_implementation_ret")
    IN  CASE function = "filter" ->
               Statement(copied(text ++ Use({FileOf(working)}) ++ While({LineLength})
                                     ++ Use({LineLength, FileOf(working), id}) ++ If({id}))
                            ++ End ++ End,
                         When(~InLines, "filter without lines"))
          [] function = "toString" -> Statement(copied(text ++ Use({id, User(dest)})), {})
          [] function = "at" ->
               Statement(copied(text ++ Var(result) ++ Check({id}) ++ Use({User(dest)})),
                         When(InBlock(result), "repeated"))
          [] OTHER -> Statement(copied(text), {})

---------------------------------------------------------------------------
(* `with`, which prints no braces, and the end of a list.                  *)

generate_expressions_list_with_file(name) ==
    IF types[name] = "file"
    THEN /\ Emit(text, <<[Call("list") EXCEPT !.working = User(name)]>>, {})
         /\ UNCHANGED types
    ELSE Fail

EndOfList ==
    /\ phase = "body"
    /\ calls # << >>
    /\ Top.fun = "list" /\ Top.done
    /\ calls' = Front(calls)
    /\ phase' = IF Len(calls) = 1 THEN "return" ELSE phase
    /\ UNCHANGED <<text, params, types, generated, exit, expressions, limits, scale>>

---------------------------------------------------------------------------
(* Loops. Without a variable (its name is mentioned nowhere) a loop fails. *)

generate_loop_over_range(name) ==
    /\ Emit(text ++ While({}) ++ Var(User(name)),
             <<[Call("range") EXCEPT !.braces = 1, !.var = User(name)],
               Call("expression")>>, {})
    /\ UNCHANGED types

\* The calls stand in an order that declares what they use.
Ordered(chain) ==
    \E tail \in {<< >>, <<"byIndex">>, <<"byIndex number">>, <<"byIndex range">>} :
        chain \in {<<"lines">> \o tail, <<"columns", "lines">> \o tail}

\* What the loop needs to compile: a working file, ordered calls and, for
\* columns, a variable named "output".
LoopLimits(chain) ==
    When(working = NULL, "no working file")
    \cup When("columns" \in Range(chain) /\ "output" \notin DOMAIN types, "no output")
    \cup When(~Ordered(chain), "chain")

generate_loop_function_calls_expression(name, chain, index) ==
    /\ Emit(text ++ Use({working}) ++ While({working}) ++ Var(Own("i")) ++ Var(FileOf(working)),
             <<[Call("calls") EXCEPT !.braces = 1, !.var = User(name), !.chain = chain,
                                     !.at = Len(chain), !.index = index]>>,
             LoopLimits(chain))
    /\ UNCHANGED types

Iterating == phase = "body" /\ calls # << >> /\ Top.fun = "calls"
Following == IF Top.at < Len(Top.chain) THEN Top.chain[Top.at + 1] ELSE "none"
ByIndexes == {"byIndex", "byIndex number", "byIndex range"}
IndexNames == IF Top.index = NULL THEN {} ELSE {Top.index}

\* A call of the chain printed t and opened some braces.
Step(t, braces) ==
    /\ text' = t
    /\ calls' = SetTop([Top EXCEPT !.at = @ - 1, !.braces = @ + braces])
    /\ UNCHANGED <<params, types, phase, generated, exit, expressions, limits, scale>>

Filtered(t) ==
    t ++ Use({FileOf(working)}) ++ While({LineLength})
      ++ Use({FileOf(working), LineLength, Top.var}) ++ If({Top.var})

CallLines ==
    LET line == Allocated(text ++ Var(LineLength), Top.var)
        read == line ++ Use({FileOf(working), Top.var} \cup
                              IF Following = "byIndex" THEN IndexNames ELSE {})
    IN  /\ Iterating /\ Top.at > 0
        /\ Top.chain[Top.at] = "lines"
        /\ \/ Following \in {"byIndex", "byIndex number"} /\ Step(read ++ Check({LineLength}), 0)
           \/ Following = "byIndex range"
              /\ Step(read ++ Check({LineLength, Own("_byIndex_implementation")}), 0)
           \/ Following = "filter" /\ Step(Filtered(line), 2)
           \/ Following \notin ByIndexes \cup {"filter"} /\ Step(line, 0)

CallFilter ==
    /\ Iterating /\ Top.at > 0
    /\ Top.chain[Top.at] = "filter"
    /\ Step(Filtered(text), 2)

\* The argument of byIndex: a loop variable, a number or a range.
CallByIndex ==
    /\ Iterating /\ Top.at > 0
    /\ \/ /\ Top.chain[Top.at] \in {"byIndex", "byIndex number"}
          /\ Step(text, 0)
       \/ /\ Top.chain[Top.at] = "byIndex range"
          /\ Step(text ++ While({}) ++ Var(Own("_byIndex_implementation")), 1)

\* Any other argument, or function, ends the loop where it is.
CallFails ==
    /\ Iterating /\ Top.at > 0
    /\ Top.chain[Top.at] \notin ByIndexes \cup {"lines", "filter", "columns"}
    /\ calls' = Front(calls)
    /\ UNCHANGED <<text, params, types, phase, generated, exit, expressions, limits, scale>>

Remaining == Own("_columns_remaining_implementation")
Separator == Own("_columns_separator_char_implementation")

\* Before the action: a line, its columns, and the tests of both. The loop
\* variable takes another name for the action.
CallColumns ==
    LET indexed == \E k \in Top.at .. Len(Top.chain) : Top.chain[k] \in ByIndexes
        line == Own("_line_line")
        length == Own("_columns_len_implementation")
        column == Column(Top.var)
        lines == IF indexed THEN text ++ Use({Top.var}) ++ Var(Remaining)
                 ELSE Allocated(text ++ Use({LineLength}), line)
                         ++ While({LineLength}) ++ Use({FileOf(working), line})
                         ++ Check({LineLength, line}) ++ Var(Remaining)
        columns == Allocated(lines ++ Var(length), column)
                      ++ While({Remaining}) ++ Var(Separator)
                      ++ Use({Remaining, FileOf(working), column}) ++ If({column, length})
    IN  /\ Iterating /\ Top.at > 0
        /\ Top.chain[Top.at] = "columns"
        /\ \/ Following # "lines" /\ Step(text, 0)
           \/ /\ Following = "lines"
              /\ text' = columns
              /\ calls' = SetTop([Top EXCEPT !.fun = "columns", !.var = column,
                                     !.braces = @ + IF indexed THEN 2 ELSE 3])
                          \o <<Call("expression")>>
              /\ UNCHANGED <<params, types, phase, generated, exit, expressions, limits, scale>>

\* Mutant of EndColumns: it closes the braces of a loop without byIndex.
EndColumnsFour ==
    /\ phase = "body" /\ calls # << >> /\ Top.fun = "columns"
    /\ text' = Closed(text ++ Check({Separator, User("output")}), 4)
    /\ calls' = SetTop([Top EXCEPT !.fun = "calls", !.var = User(@[2]), !.braces = @ - 4,
                                   !.done = TRUE, !.at = @ - 1])
    /\ UNCHANGED <<params, types, phase, generated, exit, expressions, limits, scale>>

\* Mutant of EndColumns: the brace of the columns stays open.
EndColumnsOpen ==
    /\ phase = "body" /\ calls # << >> /\ Top.fun = "columns"
    /\ text' = Closed(text ++ Check({Separator, User("output")}), Top.braces - 1)
    /\ calls' = SetTop([Top EXCEPT !.fun = "calls", !.var = User(@[2]), !.braces = 0,
                                   !.done = TRUE, !.at = @ - 1])
    /\ UNCHANGED <<params, types, phase, generated, exit, expressions, limits, scale>>

\* After it: the separator goes to a variable called output, whatever the
\* program writes to; every brace of the loop is closed.
EndColumns ==
    /\ phase = "body" /\ calls # << >> /\ Top.fun = "columns"
    /\ text' = Closed(text ++ Check({Separator, User("output")}), Top.braces)
    /\ calls' = SetTop([Top EXCEPT !.fun = "calls", !.var = User(@[2]), !.braces = 0,
                                   !.done = TRUE, !.at = @ - 1])
    /\ UNCHANGED <<params, types, phase, generated, exit, expressions, limits, scale>>

generate_loop_action ==
    /\ Iterating /\ Top.at = 0 /\ ~Top.done
    /\ calls' = SetTop([Top EXCEPT !.done = TRUE]) \o <<Call("expression")>>
    /\ UNCHANGED <<text, params, types, phase, generated, exit, expressions, limits, scale>>

EndLoop ==
    /\ \/ Iterating /\ Top.at = 0 /\ Top.done
       \/ phase = "body" /\ calls # << >> /\ Top.fun = "range"
    /\ text' = Closed(text, Top.braces)
    /\ calls' = Front(calls)
    /\ UNCHANGED <<params, types, phase, generated, exit, expressions, limits, scale>>

---------------------------------------------------------------------------
(* Conditionals. *)

Then(frees) ==
    <<[Call("then") EXCEPT !.braces = 1, !.frees = frees], Call("expression")>>

\* `name is Number`; the other types are reported and fail.
generate_conditional_type(name) ==
    LET isnum == Own("_isnum")
    IN  /\ Emit(text ++ Var(isnum) ++ Use({name}) ++ If({isnum}), Then(<< >>),
                 When(InBlock(isnum), "repeated"))
        /\ UNCHANGED types

\* A comparison declares its constants under one name, and frees them after
\* the conditional. An operand that is not a variable or a constant crashes.
generate_conditional_compare(left, right) ==
    LET number == Own("_constant_number_if")
        constants == (IF left = Constant THEN <<number>> ELSE << >>)
                     \o (IF right = Constant THEN <<number>> ELSE << >>)
        declared == [k \in 0 .. 2 |->
                        CASE k = 0 -> text
                          [] k = 1 -> Allocated(text, number) ++ Use({number})
                          [] k = 2 -> Allocated(Allocated(text, number) ++ Use({number}), number)
                                         ++ Use({number})]
        names == left.names \cup right.names \cup Range(constants)
    IN  \/ /\ "call" \in {left.form, right.form}
           /\ Crash /\ UNCHANGED types
        \/ /\ "call" \notin {left.form, right.form}
           /\ Emit(declared[Len(constants)] ++ If(names), Then(constants),
                    When((constants # << >> /\ InBlock(number)) \/ Len(constants) = 2,
                         "repeated"))
           /\ UNCHANGED types

\* Any other condition prints no `if`, but its `else`.
generate_conditional_default ==
    /\ Emit(text ++ Else, <<[Call("else") EXCEPT !.braces = 1], Call("expression")>>,
             {"condition"})
    /\ UNCHANGED types

\* Mutant of EndThen: the brace of the `if` stays open.
EndThenOpen ==
    /\ phase = "body" /\ calls # << >> /\ Top.fun = "then"
    /\ text' = text ++ Else
    /\ calls' = SetTop([Top EXCEPT !.fun = "else"]) \o <<Call("expression")>>
    /\ UNCHANGED <<params, types, phase, generated, exit, expressions, limits, scale>>

EndThen ==
    /\ phase = "body" /\ calls # << >> /\ Top.fun = "then"
    /\ text' = text ++ End ++ Else
    /\ calls' = SetTop([Top EXCEPT !.fun = "else"]) \o <<Call("expression")>>
    /\ UNCHANGED <<params, types, phase, generated, exit, expressions, limits, scale>>

EndElse ==
    /\ phase = "body" /\ calls # << >> /\ Top.fun = "else"
    /\ text' = IF Top.frees = << >> THEN text ++ End
               ELSE text ++ End ++ Free(Range(Top.frees))
    /\ calls' = Front(calls)
    /\ UNCHANGED <<params, types, phase, generated, exit, expressions, limits, scale>>

---------------------------------------------------------------------------
(* The function, the C main, and the compiler's main. *)

KeepWalk == UNCHANGED <<types, exit, expressions, scale>>

\* generate_code returns, and what it returned is only logged.
Return(result) == generated' = result /\ phase' = "generated"

open_output_file ==
    /\ phase = "open"
    /\ \/ phase' = "args" /\ UNCHANGED generated
       \/ Return(FALSE)
    /\ KeepWalk /\ UNCHANGED <<text, calls, params, limits>>

\* A parameter that is not an identifier ends the walk in the middle of the
\* function's header.
generate_args(args) ==
    /\ phase = "args"
    /\ params' = args
    /\ \/ /\ "constant" \in Range(args)
          /\ Return(FALSE)
          /\ UNCHANGED <<text, calls, limits>>
       \/ /\ "constant" \notin Range(args)
          /\ text' = PrintEach(text ++ While({}), [i \in DOMAIN args |-> Var(User(args[i]))])
          /\ calls' = <<Call("list")>>
          /\ phase' = "body"
          /\ limits' = limits \cup When(Len(args) > 1, "parameters")
          /\ UNCHANGED generated
    /\ KeepWalk

\* RETURN names a declared variable, or none.
generate_return(names) ==
    /\ phase = "return"
    /\ text' = text ++ Use(names) ++ End
    /\ phase' = "main"
    /\ KeepWalk /\ UNCHANGED <<calls, params, generated, limits>>

\* The arguments of the call are printed one after the other, as one name.
generate_c_main ==
    LET declared[k \in 0 .. Len(params)] ==
            IF k = 0 THEN text ++ While({})
            ELSE Allocated(declared[k - 1], User(params[k])) ++ Use({User(params[k])})
        names == {User(p) : p \in Range(params)}
        argument == IF Len(params) > 1 THEN {Own("the arguments")} ELSE names
    IN  /\ phase = "main"
        /\ text' = declared[Len(params)] ++ Use(argument) ++ Free(names) ++ End
        /\ Return(TRUE)
        /\ KeepWalk /\ UNCHANGED <<calls, params, limits>>

\* What yyparse returned for a program it accepted.
main ==
    /\ phase = "generated"
    /\ exit' = 0
    /\ phase' = "exit"
    /\ UNCHANGED <<text, calls, params, types, generated, expressions, limits, scale>>

Init ==
    /\ text = [blocks |-> << >>, after |-> FALSE, errors |-> {}]
    /\ calls = << >>
    /\ params = << >>
    /\ types = [name \in {} |-> "file"]
    /\ phase = "open"
    /\ generated = FALSE
    /\ exit = 0
    /\ expressions = 0
    /\ limits = {}
    /\ scale \in Scales

Declaration(form) ==
    \E name \in scale.names :
        \/ form = "let" /\ generate_variable(name)
        \/ form = "file"
           /\ \E path \in {"file", "directory", "", "STDOUT"} : generate_variable_file(name, path)

Assignment(form) ==
    \E dest \in DOMAIN types :
        \/ form = "copy" /\ generate_variable_assignment_to_constant(dest)
        \/ form = "copy"
           /\ \E source \in Mentioned : generate_variable_assignment_to_variable(dest, source)
        \/ \E left, right \in Operands :
              \/ form = "arithmetic" /\ generate_number_arithmetic(dest, left, right)
              \/ form = "arithmetic" /\ generate_number_arithmetic_mul_with_file(dest, left, right)
              \/ form = "string" /\ generate_string_arithmetic_add_expression(dest, left, right)
        \/ form = "method"
           /\ \E id \in Mentioned, function \in {"filter", "toString", "at", "lines"} :
                 generate_variable_assignment_from_function_call(dest, id, function)

Loop ==
    \E name \in LoopNames :
        \/ generate_loop_over_range(name)
        \/ \E chain \in Chains :
              \E index \in IF "byIndex" \in Range(chain)
                           THEN {User(name)} \cup LoopVariables ELSE {NULL} :
                 generate_loop_function_calls_expression(name, chain, index)

Conditional ==
    \/ \E name \in Mentioned : generate_conditional_type(name)
    \/ \E left, right \in Operands : generate_conditional_compare(left, right)
    \/ generate_conditional_default

Expression ==
    \E form \in scale.forms :
        \/ Declaration(form)
        \/ Assignment(form)
        \/ form = "with"
           /\ \E name \in DOMAIN types : generate_expressions_list_with_file(name)
        \/ form = "loop" /\ Loop
        \/ form = "conditional" /\ Conditional
        \/ form = "arithmetic" /\ generate_number_arithmetic_none
        \/ form = "other" /\ generate_nothing
        \/ form = "other" /\ Fail

Continuation ==
    \/ EndOfList
    \/ CallLines \/ CallFilter \/ CallByIndex \/ CallFails \/ CallColumns
    \/ EndColumns \/ generate_loop_action \/ EndLoop
    \/ EndThen \/ EndElse

Args == UNION {[1 .. n -> Identifiers \cup {"constant"}] : n \in 0 .. scale.params}

Next ==
    \/ open_output_file
    \/ \E args \in Args : generate_args(args)
    \/ Expression \/ Continuation
    \/ \E names \in {{}} \cup {{name} : name \in Declared} : generate_return(names)
    \/ generate_c_main
    \/ main

Spec == Init /\ [][Next]_vars

---------------------------------------------------------------------------
(* Properties. *)

\* gcc accepts the text: it is complete, its blocks are balanced, every name
\* is declared once and where it is used, every else has its if. And no object
\* that was freed is used.
Compiles == generated /\ text.blocks = << >> /\ text.errors = {}

\* A program that stays within the limits of the generator compiles, however
\* its lists, loops and conditionals nest: the braces that the loops count by
\* hand are all closed, each in its place, the renamed variable of a column is
\* in scope for the action, what a declaration frees on failure is in scope.
SupportedProgramCompiles ==
    phase \in {"generated", "exit"} /\ generated /\ limits = {} => Compiles

\* The braces that callers on the stack still have to close, told apart by
\* the caller and by their number.
Owed(stack) == UNION {{i} \X (1 .. stack[i].braces) : i \in DOMAIN stack}

\* While the function is being printed, the open blocks are the function's
\* and those the callers on the stack still have to close.
BracesAreCounted ==
    phase = "body" /\ limits = {} =>
        Len(text.blocks) = 1 + Cardinality(Owed(calls))

\* A program the compiler accepts, by its exit code, compiles.
AcceptedProgramCompiles == phase = "exit" /\ exit = 0 => Compiles

\* push_free_function_call writes a pointer of 8 bytes into slot size of an
\* array of 1 + size + 8 bytes.
PushesFit ==
    \A i \in DOMAIN calls :
        LET size == Len(calls[i].frees)
        IN  size > 0 => 8 * size <= 1 + (size - 1) + 8
============================================================================
