-------------------------- MODULE MCLoopExecution --------------------------
(***************************************************************************)
(* Instances of LoopExecution for TLC: lines of different lengths, so that *)
(* a read that measures one line and copies another shows.                 *)
(***************************************************************************)
EXTENDS LoopExecution

Empty == [ends |-> {}, word |-> {}, separators |-> [o \in {} |-> 1]]

\* A short line before two longer ones, the word in the first and the last. The
\* last line has two columns, the line before it ends with a separator.
ThreeLines ==
    [ends |-> {1, 3, 6}, word |-> {0, 5}, separators |-> [o \in {2, 4} |-> 1]]

\* A long line before a short one, the word in the long one. It begins with an
\* empty column; the second separator is one that the declaration repeats.
LongFirst ==
    [ends |-> {3, 4}, word |-> {1}, separators |-> [o \in {0, 1} |-> o + 1]]

RegularContents == {Empty, ThreeLines, LongFirst}
DirectoryContents == {Empty, LongFirst}
============================================================================
