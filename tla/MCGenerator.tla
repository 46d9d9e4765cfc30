----------------------------- MODULE MCGenerator -----------------------------
(***************************************************************************)
(* Instances of Generator for TLC.                                         *)
(***************************************************************************)
EXTENDS Generator

\* The iterables of the test programs, one more for each other call, and one
\* in an order the generator does not expect.
MCChains ==
    {<<"lines">>, <<"lines", "byIndex">>, <<"lines", "byIndex number">>,
     <<"lines", "byIndex range">>, <<"columns", "lines">>,
     <<"columns", "lines", "byIndex number">>, <<"columns">>,
     <<"lines", "filter">>, <<"byIndex other">>}

Of(forms, names, parameters, length, wrong) ==
    [forms |-> forms, names |-> names, params |-> parameters,
     expressions |-> length, limits |-> wrong]

\* Every form, in short programs; and what nests: a file and what is written
\* to in a `with` block, a loop, a conditional and its branches.
MCScales ==
    {Of(Forms, Identifiers, 1, 3, 0), Of({"let"}, Identifiers, 2, 1, 0),
     Of({"file", "copy", "with", "loop", "conditional"}, {"input", "output"}, 0, 5, 0)}

\* Two declarations, and no statement in between.
Declarations == {Of({"let"}, Identifiers, 0, 2, 0)}

\* Small programs with a statement of any form but a loop or a declaration.
Statements == {Of({"let", "copy", "conditional", "arithmetic"}, {"x"}, 1, 2, 1)}
=============================================================================
