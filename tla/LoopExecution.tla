--------------------------- MODULE LoopExecution ---------------------------
(***************************************************************************)
(* The loops of a generated program over its input, as code-generator.c    *)
(* prints them: a C `for` over the files of the input, and inside it the   *)
(* loop that `lines`, `byIndex`, `filter` and `columns` expand to. Loops   *)
(* nest, and all those over a regular file share one TexlerObject.         *)
(*                                                                         *)
(* The program is arbitrary: whenever a body runs it may begin any         *)
(* statement that moves the file. A step is one call of the runtime.       *)
(***************************************************************************)
EXTENDS TexlerFile, SequencesExt

CONSTANTS
    Numbers,        \* the line numbers that a program asks for
    MaxFiles,       \* bound: files of a directory
    MaxStatements,  \* bound: statements that a run executes
    MaxDepth        \* bound: nesting of loops

ASSUME BoundsAssumption ==
    Numbers \cup {MaxFiles, MaxStatements, MaxDepth} \subseteq Nat

VARIABLES
    contents,        \* the contents of the input's files
    is_directory,    \* TYPE_T_FILE_LIST or TYPE_T_FILEPTR
    next_open_file,  \* of the directory
    opened,          \* the file objects, in the order they were opened
    loops,           \* the loops being executed, the innermost last
    statements,      \* how many statements were executed
    status           \* how the process ended

vars == <<contents, is_directory, next_open_file, opened, loops, statements, status>>

Forms == {"lines", "byIndex", "range", "filter", "columns", "assign", "copy"}

\* "next": before the test of `i < n_files`; "read": before the read of an
\* iteration; "skip": inside line_by_number; "column": before the next column
\* of a line; "body": in the body.
Places == {"next", "read", "skip", "column", "body"}

\* i, file, buffer and size are C variables of the loop, and if it splits its
\* lines, column and rest (what remains of the line) too. first and last are
\* the arguments of byIndex, index the counter of its range. matched and alone
\* are history: what a filter has kept of the present file, the columns of the
\* present line that the body was run for, or what a copy has written; and
\* whether the loop found the file where it expects it and no other statement
\* ran since.
Loop == [form : Forms, split : BOOLEAN, at : Places, i : Nat, file : Nat,
         buffer : Text, size : Nat, column : Text, rest : Text,
         first : Nat, last : Nat, index : Int,
         matched : Seq(Text), alone : BOOLEAN]

Statuses == {"running", "finished", "line_not_found", "out_of_bounds",
             "use_after_free"}

TypeOK ==
    /\ contents \in Seq(Contents) /\ contents # << >>
    /\ is_directory \in BOOLEAN
    /\ next_open_file \in Nat
    /\ opened \in Seq([file : DOMAIN contents, object : TexlerFile])
    /\ \A k \in DOMAIN opened :
          LET size == Size(contents[opened[k].file])
          IN  opened[k].object.pos <= size /\ opened[k].object.stream <= size
    /\ loops \in Seq(Loop)
    /\ \A l \in DOMAIN loops : loops[l].file \in DOMAIN opened \cup {0}
    /\ statements \in 0 .. MaxStatements
    /\ status \in Statuses

Init ==
    /\ is_directory \in BOOLEAN
    /\ contents \in UNION {[1 .. n -> Contents] :
                              n \in IF is_directory THEN 1 .. MaxFiles ELSE {1}}
    /\ next_open_file = 0
    /\ opened = IF is_directory THEN << >>
                                ELSE <<[file |-> 1, object |-> open_file]>>
    /\ loops = << >>
    /\ statements = 0
    /\ status = "running"

---------------------------------------------------------------------------
(* Helpers. *)

Running == status = "running"
Top == Last(loops)
In(form, at) ==
    Running /\ loops # << >> /\ Top.form = form /\ Top.at = at

SetTop(loop) == loops' = Append(Front(loops), loop)

Content(k) == contents[opened[k].file]
Object(k) == opened[k].object
SetObject(k, file) == opened' = [opened EXCEPT ![k].object = file]

\* A call of the runtime on the file of the innermost loop gave r.
Called(r) == SetObject(Top.file, r.file)

EndProcess(s) == status' = s /\ UNCHANGED <<next_open_file, opened, loops>>

KeepProgram == UNCHANGED <<contents, is_directory, statements>>
KeepFiles == UNCHANGED <<next_open_file, opened, status>>

\* A statement can begin outside of any loop and in a body.
CanBegin ==
    /\ Running
    /\ (loops # << >> => Top.at = "body")
    /\ statements < MaxStatements

Disturbed == [l \in DOMAIN loops |-> [loops[l] EXCEPT !.alone = FALSE]]

---------------------------------------------------------------------------
(* The loop over the files of the input. *)

Started(form, split, at, file, size, first, last, alone) ==
    [form |-> form, split |-> split, at |-> at, i |-> 0, file |-> file,
     buffer |-> EmptyText, size |-> size, column |-> EmptyText,
     rest |-> EmptyText, first |-> first, last |-> last, index |-> 0,
     matched |-> << >>, alone |-> alone]

Begin(form, split, first, last) ==
    /\ CanBegin
    /\ Len(loops) < MaxDepth
    /\ statements' = statements + 1
    /\ loops' = Append(Disturbed, Started(form, split, "next", 0, 0, first, last, FALSE))
    /\ KeepFiles
    /\ UNCHANGED <<contents, is_directory>>

BeginLoop ==
    \/ \E form \in {"lines", "filter"} : Begin(form, FALSE, 0, 0)
    \/ Begin("columns", TRUE, 0, 0)
    \/ \E n \in Numbers, split \in BOOLEAN : Begin("byIndex", split, n, 0)
    \/ \E from, to \in Numbers, split \in BOOLEAN :
          Begin("range", split, from, to)

\* The loop as it enters object k: a new buffer, the counter of a range. A
\* loop over lines() alone reads nothing before its body.
Entering(k, objects) ==
    [Top EXCEPT !.at = IF Top.form = "lines" THEN "body" ELSE "read",
                !.i = @ + 1, !.file = k,
                !.buffer = EmptyText, !.size = BUFFER_SIZE,
                !.column = EmptyText, !.rest = EmptyText,
                !.index = Top.first - 1,
                !.matched = << >>, !.alone = objects[k].object.pos = 0]

\* The preamble of an iteration; a filter rewinds the stream.
EnterFile(k, objects) ==
    /\ SetTop(Entering(k, objects))
    /\ opened' = IF Top.form = "filter"
                 THEN [objects EXCEPT ![k].object = rewind(@)]
                 ELSE objects

\* Mutant of get_next_file: the filter does not rewind.
NextFileWithoutRewind ==
    /\ Running /\ loops # << >> /\ Top.at = "next"
    /\ Top.i < Len(contents)
    /\ KeepProgram
    /\ ~is_directory
    /\ SetTop(Entering(1, opened))
    /\ UNCHANGED <<opened, next_open_file, status>>

\* Mutant of get_next_file: next_open_file stays.
NextFileAgain ==
    /\ Running /\ loops # << >> /\ Top.at = "next"
    /\ Top.i < Len(contents)
    /\ KeepProgram
    /\ EnterFile(Len(opened) + 1,
                 Append(opened, [file |-> next_open_file + 1, object |-> open_file]))
    /\ UNCHANGED <<next_open_file, status>>

\* The header of the `for`. A directory opens its next file, whatever loop
\* asks for it; a file that cannot be opened frees the object of the input,
\* which the header reads again.
get_next_file ==
    /\ Running /\ loops # << >> /\ Top.at = "next"
    /\ Top.i < Len(contents)
    /\ KeepProgram
    /\ \/ /\ ~is_directory
          /\ EnterFile(1, opened)
          /\ UNCHANGED <<next_open_file, status>>
       \/ /\ is_directory /\ next_open_file < Len(contents)
          /\ EnterFile(Len(opened) + 1,
                       Append(opened, [file |-> next_open_file + 1,
                                       object |-> open_file]))
          /\ next_open_file' = next_open_file + 1
          /\ UNCHANGED status
       \/ /\ is_directory /\ next_open_file < Len(contents)
          /\ EndProcess("use_after_free")
       \/ /\ is_directory /\ next_open_file >= Len(contents)
          /\ EndProcess("out_of_bounds")

EndLoop ==
    /\ Running /\ loops # << >> /\ Top.at = "next"
    /\ Top.i >= Len(contents)
    /\ loops' = Front(loops)
    /\ KeepProgram /\ KeepFiles

---------------------------------------------------------------------------
(* The inner loops. *)

\* The loop has read a line: its body runs, or it splits the line.
WithLine(r) ==
    [Top EXCEPT !.at = IF Top.split THEN "column" ELSE "body",
                !.buffer = r.buffer, !.size = r.size,
                !.rest = IF Top.split THEN r.buffer ELSE EmptyText,
                !.matched = << >>]

\* line_by_number, one line per file. A line already passed rewinds the stream,
\* but neither pos nor n_line.
CallByIndex ==
    LET file == Object(Top.file)
    IN  /\ In("byIndex", "read")
        /\ SetObject(Top.file, IF file.n_line > Top.first THEN rewind(file) ELSE file)
        /\ SetTop([Top EXCEPT
                      !.at = "skip",
                      !.alone = InStep(Content(Top.file), file) /\ file.n_line <= Top.first])
        /\ KeepProgram /\ UNCHANGED <<next_open_file, status>>

\* Mutant of Skipping: line n is skipped as well.
SkippingLineN == Top.size > 0 /\ Object(Top.file).n_line <= Top.first

Skipping == Top.size > 0 /\ Object(Top.file).n_line < Top.first

SkipLine ==
    LET r == lines(Content(Top.file), Object(Top.file), Top.buffer)
    IN  /\ In("byIndex", "skip") /\ Skipping
        /\ Called(r)
        /\ SetTop([Top EXCEPT !.buffer = r.buffer, !.size = r.size])
        /\ KeepProgram /\ UNCHANGED <<next_open_file, status>>

\* "Line n". A line that is not there ends the program.
ReadLineN ==
    LET r == lines(Content(Top.file), Object(Top.file), Top.buffer)
    IN  /\ In("byIndex", "skip") /\ ~Skipping
        /\ Called(r)
        /\ \/ /\ r.size <= 0
              /\ status' = "line_not_found"
              /\ UNCHANGED loops
           \/ /\ r.size > 0
              /\ SetTop(WithLine(r))
              /\ UNCHANGED status
        /\ KeepProgram /\ UNCHANGED next_open_file

\* byIndex over a range: one call of lines per iteration, wherever the file is.
ReadRange ==
    /\ In("range", "read")
    /\ \/ /\ Top.index >= Top.last
          /\ SetTop([Top EXCEPT !.at = "next"])
          /\ UNCHANGED opened
       \/ LET r == lines(Content(Top.file), Object(Top.file), EmptyText)
          IN  /\ Top.index < Top.last
              /\ Called(r)
              /\ SetTop(IF r.size > 0 THEN WithLine(r)
                        ELSE [Top EXCEPT !.at = "next", !.buffer = r.buffer,
                                         !.size = r.size])
    /\ KeepProgram /\ UNCHANGED <<next_open_file, status>>

\* The string is tested also when nothing was read. In a `filter` loop a match
\* runs the body; in an assignment `line.filter(word) -> file` it is written.
ReadFilter ==
    LET r == lines(Content(Top.file), Object(Top.file), Top.buffer)
        match == is_in_string(Content(Top.file), r.buffer)
    IN  /\ In("filter", "read") \/ In("assign", "read")
        /\ Top.size > 0
        /\ Called(r)
        /\ SetTop([Top EXCEPT
                      !.at = IF match /\ Top.form = "filter" THEN "body" ELSE "read",
                      !.buffer = r.buffer, !.size = r.size,
                      !.matched = IF match THEN Append(@, r.buffer) ELSE @])
        /\ KeepProgram /\ UNCHANGED <<next_open_file, status>>

EndFilter ==
    /\ In("filter", "read")
    /\ Top.size <= 0
    /\ SetTop([Top EXCEPT !.at = "next"])
    /\ KeepProgram /\ KeepFiles

\* columns().lines(): an assignment in the body may have set the size to 0.
ReadColumns ==
    LET r == lines(Content(Top.file), Object(Top.file), Top.buffer)
    IN  /\ In("columns", "read")
        /\ \/ /\ Top.size <= 0
              /\ SetTop([Top EXCEPT !.at = "next"])
              /\ UNCHANGED opened
           \/ /\ Top.size > 0
              /\ Called(r)
              /\ SetTop(IF r.size > 0 THEN WithLine(r)
                        ELSE [Top EXCEPT !.at = "next", !.buffer = r.buffer,
                                         !.size = r.size])
        /\ KeepProgram /\ UNCHANGED <<next_open_file, status>>

Remaining == Top.rest.from < Top.rest.to

InColumns == \E form \in {"columns", "byIndex", "range"} : In(form, "column")

\* The iteration ends: the loop goes to its next line, its next file.
Continued ==
    [Top EXCEPT !.at = IF Top.form \in {"lines", "byIndex"} THEN "next" ELSE "read",
                !.index = IF Top.form = "range" THEN @ + 1 ELSE @]

\* The body runs for the columns that are not empty.
NextColumn ==
    LET r == columns(Content(Top.file), Top.rest)
    IN  /\ InColumns
        /\ Remaining
        /\ SetTop([Top EXCEPT
                      !.at = IF r.size > 0 THEN "body" ELSE "column",
                      !.column = r.column, !.rest = r.rest,
                      !.matched = IF r.size > 0 THEN Append(@, r.column) ELSE @])
        /\ KeepProgram /\ KeepFiles

EndColumns ==
    /\ InColumns
    /\ ~Remaining
    /\ SetTop(Continued)
    /\ KeepProgram /\ KeepFiles

EndBody ==
    /\ Running /\ loops # << >> /\ Top.at = "body"
    /\ SetTop(IF Top.split THEN [Top EXCEPT !.at = "column"] ELSE Continued)
    /\ KeepProgram /\ KeepFiles

---------------------------------------------------------------------------
(* Statements of a body that move the file. *)

\* `line.filter(word) -> file` uses the loop variable and the size of the loop
\* it is in, and leaves them changed. The variable of a loop that splits its
\* lines is the column.
AssignFilter ==
    /\ CanBegin
    /\ loops # << >>
    /\ Len(loops) < MaxDepth
    /\ statements' = statements + 1
    /\ SetObject(Top.file, rewind(Object(Top.file)))
    /\ loops' = Append(Disturbed,
                       [Top EXCEPT !.form = "assign", !.split = FALSE, !.at = "read",
                                   !.buffer = IF Top.split THEN Top.column ELSE @,
                                   !.rest = EmptyText, !.matched = << >>,
                                   !.alone = Object(Top.file).pos = 0])
    /\ UNCHANGED <<contents, is_directory, next_open_file, status>>

Assigned(loop, buffer, size) ==
    [loop EXCEPT !.buffer = IF loop.split THEN @ ELSE buffer,
                 !.column = IF loop.split THEN buffer ELSE @,
                 !.size = size]

EndAssign ==
    LET outer == Front(loops)
    IN  /\ In("assign", "read")
        /\ Top.size <= 0
        /\ loops' = [outer EXCEPT ![Len(outer)] = Assigned(@, Top.buffer, Top.size)]
        /\ KeepProgram /\ KeepFiles

\* `input -> output` with the default separators.
CopyFile ==
    /\ CanBegin
    /\ ~is_directory
    /\ statements' = statements + 1
    /\ SetObject(1, copy_file_content(Content(1), Object(1)))
    /\ loops' = Disturbed
    /\ UNCHANGED <<contents, is_directory, next_open_file, status>>

\* `input -> output` to other separators: copy_file_content_texler reads line
\* by line from where the file is.
CopyTranslating ==
    /\ CanBegin
    /\ ~is_directory
    /\ Len(loops) < MaxDepth
    /\ statements' = statements + 1
    /\ loops' = Append(Disturbed,
                       Started("copy", TRUE, "read", 1, BUFFER_SIZE, 0, 0,
                               InStep(Content(1), Object(1)) /\ Object(1).pos = 0))
    /\ UNCHANGED <<contents, is_directory>> /\ KeepFiles

ReadCopy ==
    LET r == lines(Content(Top.file), Object(Top.file), Top.buffer)
    IN  /\ In("copy", "read")
        /\ Called(r)
        /\ loops' = IF r.size > 0
                    THEN Append(Front(loops),
                                [Top EXCEPT !.at = "column", !.buffer = r.buffer,
                                            !.rest = r.buffer])
                    ELSE Front(loops)
        /\ KeepProgram /\ UNCHANGED <<next_open_file, status>>

\* Mutant of Written: the separator after an empty column is left out, as the
\* loop over columns leaves it out.
WrittenWithColumn(f, r) ==
    LET separator == [from |-> r.column.to, to |-> r.column.to + 1]
    IN  IF r.size = 0 THEN << >>
        ELSE <<r.column>> \o IF r.separator
                             THEN [i \in 1 .. f.separators[r.column.to] |-> separator]
                             ELSE << >>

\* The column and its separator, translated, are written.
Written(f, r) ==
    LET separator == [from |-> r.column.to, to |-> r.column.to + 1]
    IN  (IF r.size > 0 THEN <<r.column>> ELSE << >>)
        \o IF r.separator
           THEN [i \in 1 .. f.separators[r.column.to] |-> separator]
           ELSE << >>

CopyColumn ==
    LET r == columns(Content(Top.file), Top.rest)
    IN  /\ In("copy", "column")
        /\ SetTop(IF Remaining
                  THEN [Top EXCEPT !.rest = r.rest,
                                   !.matched = @ \o Written(Content(Top.file), r)]
                  ELSE [Top EXCEPT !.at = "read"])
        /\ KeepProgram /\ KeepFiles

Finish ==
    /\ Running
    /\ loops = << >>
    /\ EndProcess("finished")
    /\ KeepProgram

Next ==
    \/ BeginLoop
    \/ get_next_file
    \/ EndLoop
    \/ CallByIndex
    \/ SkipLine
    \/ ReadLineN
    \/ ReadRange
    \/ ReadFilter
    \/ EndFilter
    \/ ReadColumns
    \/ NextColumn
    \/ EndColumns
    \/ EndBody
    \/ AssignFilter
    \/ EndAssign
    \/ CopyFile
    \/ CopyTranslating
    \/ ReadCopy
    \/ CopyColumn
    \/ Finish

Spec == Init /\ [][Next]_vars

\* The generated program is one sequential process: it keeps running.
FairSpec == Spec /\ WF_vars(Next)

---------------------------------------------------------------------------
(* Properties. *)

\* The loop has just read a line for its body.
Reads(form) ==
    /\ Running /\ loops # << >> /\ Top.form = form /\ Top.at \in {"read", "skip"}
    /\ loops' # << >> /\ Len(loops') = Len(loops)
    /\ Last(loops').at \in {"column", "body"}

\* byIndex(n) on a file that was only read forward, and not beyond line n,
\* delivers line n and nothing else; it ends the program only if there is no
\* line n; and it leaves the file in step for the next access. The position is
\* kept in three places that three functions must move together.
ForwardAccessIsExact ==
    loops # << >> /\ Top.form = "byIndex" /\ Top.alone =>
        /\ Top.at \in {"column", "body"} =>
              IsLineNumber(Content(Top.file), Top.buffer, Top.first)
        /\ status = "line_not_found" => Top.first > LineCount(Content(Top.file))
        /\ Top.at \in {"skip", "column", "body"} =>
              InStep(Content(Top.file), Object(Top.file))

\* A filter that starts with pos at the beginning, and is the only statement to
\* move the file meanwhile, keeps exactly the lines with the word, in their
\* order, although a copy may have left the stream at the end; only the last
\* line of the file may be kept twice.
FilterKeepsTheMatches ==
    (/\ loops # << >> /\ Top.alone
     /\ \/ Top.form = "filter" /\ Top.at = "next"
        \/ Top.form = "assign" /\ Top.size = 0)
    => LET f == Content(Top.file)
           kept == Top.matched
       IN  /\ {kept[i] : i \in DOMAIN kept} =
                 {[from |-> s, to |-> NextEnd(f, s)] :
                     s \in {t \in f.ends \cup {0} :
                               /\ t < Size(f)
                               /\ is_in_string(f, [from |-> t, to |-> NextEnd(f, t)])}}
           /\ \A i, j \in DOMAIN kept : i < j =>
                 \/ kept[i].to <= kept[j].from
                 \/ j = i + 1 /\ j = Len(kept) /\ kept[j].to = Size(f)

\* A loop that splits its line runs the body for each column of it, in their
\* order and once, also when the body reads the same file, and assigns to the
\* column or to the size that the loop over the lines tests.
ColumnsAreVisited ==
    loops # << >> /\ Top.split /\ Top.form # "copy" /\ Top.at \in {"column", "body"} =>
        LET f == Content(Top.file)
            visited == Top.matched
        IN  /\ \A i \in DOMAIN visited :
                  /\ IsColumn(f, Top.buffer, visited[i])
                  /\ i + 1 \in DOMAIN visited => visited[i].to < visited[i + 1].from
            /\ \A o \in Top.buffer.from .. Top.rest.from - 1 :
                  \/ o \in DOMAIN f.separators
                  \/ \E i \in DOMAIN visited : visited[i].from <= o /\ o < visited[i].to

\* A copy between different separators, of a file not read before, has written
\* what it has read: every character once and in order, with every separator
\* translated, also those around empty columns and at the ends of lines.
CopyLosesNothing ==
    loops # << >> /\ Top.form = "copy" /\ Top.alone =>
        /\ Pieces(Content(Top.file), Top.matched, 0, Top.rest.from)
        /\ Top.at = "read" => Top.rest.from = Object(Top.file).pos

\* No read moves a file back, so a loop over it cannot run for ever by itself.
PositionOnlyAdvances ==
    [][\A k \in DOMAIN opened : opened'[k].object.pos >= Object(k).pos]_vars

\* A directory's files are opened in order, none twice, however loops nest.
FilesOpenedInOrder ==
    \A j, k \in DOMAIN opened : j < k => opened[j].file < opened[k].file

\* Every program that runs finitely many statements ends: each loop reaches
\* the end of its file, also when its body moves the same file.
ProgramEnds == <>(status # "running")

\* What comments and tests say of the loops, and a run refutes.

\* line_by_number returns line n.
ByIndexReadsLineN ==
    [][Reads("byIndex") /\ Top.first > 0
         => IsLineNumber(Content(Top.file), Last(loops').buffer, Top.first)]_vars

\* A range of line numbers starts with its first: on a file not read yet, the
\* first iteration reads line `first`.
RangeStartsAtFirst ==
    [][(/\ Reads("range") /\ Top.first > 0 /\ Top.index = Top.first - 1
        /\ InStep(Content(Top.file), Object(Top.file)) /\ Object(Top.file).n_line = 1)
       => IsLineNumber(Content(Top.file), Last(loops').buffer, Top.first)]_vars

\* A loop over a directory visits the files of the directory.
LoopsStayInDirectory == status # "out_of_bounds"
============================================================================
