---------------------------- MODULE TexlerFile ----------------------------
(***************************************************************************)
(* A file of the generated program: the runtime functions that             *)
(* standard_functions.c and internal_functions.c print. A TexlerObject of  *)
(* type TYPE_T_FILEPTR keeps its place three times over:                   *)
(*   stream   the position of the C stream                                 *)
(*   pos      the fpos_t that lines() reads from                           *)
(*   n_line   the number of the line lines() will return                   *)
(*                                                                         *)
(* Contents are offsets: a file is the set of the offsets at which one of  *)
(* its lines ends (the newline included), with the offsets at which the    *)
(* word of a filter occurs, and those of its separators. A string that was *)
(* read is the interval of offsets it was copied from.                     *)
(***************************************************************************)
EXTENDS Integers, Sequences, FiniteSets, FiniteSetsExt

CONSTANT Contents   \* the contents a file may have

\* separators[o] is how many characters a translating copy writes for the
\* separator at o: more than one if the source names it more than once and the
\* destination has as many separators.
ASSUME ContentsAssumption ==
    \A f \in Contents :
        /\ f = [ends |-> f.ends, word |-> f.word, separators |-> f.separators]
        /\ f.ends \subseteq Nat \ {0} /\ IsFiniteSet(f.ends)
        /\ f.word \subseteq Nat
        /\ DOMAIN f.separators \subseteq Nat
        /\ \A o \in DOMAIN f.separators : f.separators[o] \in Nat \ {0}

Size(f) == Max(f.ends \cup {0})
NextEnd(f, p) == Min({e \in f.ends : e > p})
LinesBefore(f, p) == Cardinality({e \in f.ends : e <= p})
LineCount(f) == Cardinality(f.ends)

TexlerFile == [stream : Nat, pos : Nat, n_line : Nat]

\* The characters from offset `from` up to `to`; empty if they are equal.
Text == [from : Nat, to : Nat]
EmptyText == [from |-> 0, to |-> 0]

\* BUFFER_SIZE: what the generated loops start their length variable with.
BUFFER_SIZE == 256

---------------------------------------------------------------------------
(* The functions. A call that reads returns the file, the buffer and the   *)
(* size after it. Errors of the C library are left out.                    *)

open_file == [stream |-> 0, pos |-> 0, n_line |-> 1]

rewind(file) == [file EXCEPT !.stream = 0]

\* From the stream's own position to the end of a line. The stream is moved
\* to pos afterwards, wherever it was.
line_length(f, start) == IF start < Size(f) THEN NextEnd(f, start) - start ELSE 0

\* fgets of a line of the length that was measured: it stops at the end of
\* the line, and reads nothing at the end of the file, where the buffer keeps
\* what fits of its old string.
Fgets(f, pos, length, buffer) ==
    IF pos < Size(f)
    THEN [from |-> pos, to |-> Min({NextEnd(f, pos), pos + length})]
    ELSE [buffer EXCEPT !.to = Min({@, buffer.from + length})]

\* Mutants of lines: the size at the end of the file is that of the empty
\* string; the stream is not moved to pos; the length that was measured is
\* taken for the length that was read.
LinesSizeAtEof(f, file, buffer) ==
    LET length == line_length(f, file.stream)
        text == Fgets(f, file.pos, length, buffer)
        end == IF file.pos < Size(f) THEN text.to ELSE file.pos
    IN  IF length = 0
        THEN [file |-> [file EXCEPT !.stream = file.pos],
              buffer |-> buffer, size |-> 1]
        ELSE [file |-> [stream |-> end, pos |-> end, n_line |-> file.n_line + 1],
              buffer |-> text, size |-> length + 1]

LinesWithoutFsetpos(f, file, buffer) ==
    LET length == line_length(f, file.stream)
        text == Fgets(f, file.stream + length, length, buffer)
        end == IF file.stream + length < Size(f) THEN text.to ELSE Size(f)
    IN  IF length = 0
        THEN [file |-> file, buffer |-> buffer, size |-> 0]
        ELSE [file |-> [stream |-> end, pos |-> end, n_line |-> file.n_line + 1],
              buffer |-> text, size |-> length + 1]

LinesSkippingLength(f, file, buffer) ==
    LET length == line_length(f, file.stream)
        end == file.pos + length
    IN  IF length = 0
        THEN [file |-> [file EXCEPT !.stream = file.pos],
              buffer |-> buffer, size |-> 0]
        ELSE [file |-> [stream |-> end, pos |-> end, n_line |-> file.n_line + 1],
              buffer |-> Fgets(f, file.pos, length, buffer), size |-> length + 1]

lines(f, file, buffer) ==
    LET length == line_length(f, file.stream)
        text == Fgets(f, file.pos, length, buffer)
        end == IF file.pos < Size(f) THEN text.to ELSE file.pos
    IN  IF length = 0
        THEN [file |-> [file EXCEPT !.stream = file.pos],
              buffer |-> buffer, size |-> 0]
        ELSE [file |-> [stream |-> end, pos |-> end, n_line |-> file.n_line + 1],
              buffer |-> text, size |-> length + 1]

\* Reads the whole stream, from its beginning to its end, and leaves it there.
copy_file_content(f, file) == [file EXCEPT !.stream = Size(f)]

is_in_string(f, buffer) ==
    \E w \in f.word : buffer.from <= w /\ w < buffer.to

\* Mutant of columns: the size of an empty column counts its '\0'.
ColumnsSizeOfEmpty(f, str) ==
    LET found == {o \in DOMAIN f.separators : str.from <= o /\ o < str.to}
        end == IF found = {} THEN str.to ELSE Min(found)
    IN  [column |-> [from |-> str.from, to |-> end],
         size |-> 1 + end - str.from,
         separator |-> found # {},
         rest |-> [from |-> IF found = {} THEN end ELSE end + 1, to |-> str.to]]

\* The string up to its first separator, whether there is one, and what is left
\* after it; *str becomes NULL when nothing is left. An empty column has size 0.
columns(f, str) ==
    LET found == {o \in DOMAIN f.separators : str.from <= o /\ o < str.to}
        end == IF found = {} THEN str.to ELSE Min(found)
    IN  [column |-> [from |-> str.from, to |-> end],
         size |-> IF end = str.from THEN 0 ELSE 1 + end - str.from,
         separator |-> found # {},
         rest |-> [from |-> IF found = {} THEN end ELSE end + 1, to |-> str.to]]

---------------------------------------------------------------------------
(* What the calls are about. *)

\* A column of a string: not empty, without a separator, and between two of them
\* or the ends of the string.
IsColumn(f, str, text) ==
    /\ str.from <= text.from /\ text.from < text.to /\ text.to <= str.to
    /\ \A o \in DOMAIN f.separators : o < text.from \/ text.to <= o
    /\ text.from = str.from \/ text.from - 1 \in DOMAIN f.separators
    /\ text.to = str.to \/ text.to \in DOMAIN f.separators

\* The pieces are the characters between two offsets, each of them once and in
\* order; a separator is a piece of its own, and may be repeated.
Pieces(f, pieces, from, to) ==
    /\ \A i \in DOMAIN pieces :
          /\ pieces[i].from < pieces[i].to
          /\ \A o \in DOMAIN f.separators :
                \/ o < pieces[i].from \/ pieces[i].to <= o
                \/ pieces[i] = [from |-> o, to |-> o + 1]
          /\ i + 1 \in DOMAIN pieces =>
                \/ pieces[i + 1].from = pieces[i].to
                \/ pieces[i + 1] = pieces[i] /\ pieces[i].from \in DOMAIN f.separators
    /\ IF pieces = << >> THEN from = to
       ELSE pieces[1].from = from /\ pieces[Len(pieces)].to = to

IsLine(f, text) ==
    /\ text.from < text.to
    /\ text.from \in f.ends \cup {0}
    /\ text.from < Size(f) /\ text.to = NextEnd(f, text.from)

\* The text is line n of the file.
IsLineNumber(f, text, n) == IsLine(f, text) /\ n = LinesBefore(f, text.from) + 1

\* The three places agree, and are the beginning of a line.
InStep(f, file) ==
    /\ file.stream = file.pos
    /\ file.pos \in f.ends \cup {0}
    /\ file.n_line = LinesBefore(f, file.pos) + 1
============================================================================
