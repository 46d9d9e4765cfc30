---------------------------- MODULE MCSyntaxTree ----------------------------
(***************************************************************************)
(* Instances of SyntaxTree for TLC: each kind of program as large as the   *)
(* sharing it brings needs.                                                *)
(***************************************************************************)
EXTENDS SyntaxTree

TenAddresses == 1 .. 10

Of(forms, objects, stack, fields) ==
    [forms |-> {"program"} \cup forms, objects |-> objects, values |-> stack,
     fields |-> fields]

\* A variable shared by its declaration, its mentions and the table; lists
\* that continue ranges; conditionals; calls in loops; files, separators and
\* `with` blocks.
AllScales ==
    {Of({"let", "assignment", "arguments"}, 7, 3, 2),
     Of({"range"}, 7, 3, 1),
     Of({"list", "range", "lists"}, 6, 3, 1),
     Of({"operator", "conditional"}, 9, 4, 2),
     Of({"loop", "call"}, 9, 3, 3),
     Of({"file", "list"}, 8, 3, 2)}
============================================================================
