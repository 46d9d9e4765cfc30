------------------------ MODULE LoopExecutionProofs ------------------------
(***************************************************************************)
(* Theorems about LoopExecution, for all contents of the files, numbers of *)
(* files and lengths of a run: a forward byIndex is exact, no read moves a *)
(* file back, and a directory opens its files in order.                    *)
(***************************************************************************)
EXTENDS LoopExecution, TexlerFileProofs, SequenceTheorems

\* The files. A regular file is file 1, opened from the start; the files of a
\* directory are the objects in the order of their numbers.
FilesOK ==
    /\ contents \in Seq(Contents) /\ contents # << >>
    /\ is_directory \in BOOLEAN
    /\ next_open_file \in Nat
    /\ opened \in Seq([file : DOMAIN contents, object : TexlerFile])
    /\ \A k \in DOMAIN opened :
          InBounds(contents[opened[k].file], opened[k].object) /\ opened[k].file = k
    /\ Len(opened) = IF is_directory THEN next_open_file ELSE 1

\* A loop over the files D has one of them while it reads; byIndex starts to
\* read with a size that is not 0.
LoopOK(loop, D) ==
    /\ loop \in Loop
    /\ loop.file \in D \cup {0}
    /\ loop.at # "next" => loop.file \in D
    /\ loop.form = "byIndex" /\ loop.at = "read" => loop.size > 0

\* A loop around another one is in its body, and is not alone.
StackOK(stack, D) ==
    /\ stack \in Seq(Loop)
    /\ \A l \in DOMAIN stack :
          /\ LoopOK(stack[l], D)
          /\ l < Len(stack) => stack[l].at = "body" /\ ~stack[l].alone

\* byIndex on file f: in step as long as it is alone; while it skips lines, it
\* has not passed line n, or the file has no line n.
Forward(f, file, loop) ==
    loop.form = "byIndex" /\ loop.alone =>
        /\ loop.at \in {"skip", "column", "body"} => InStep(f, file)
        /\ loop.at = "skip" =>
              /\ file.n_line <= loop.first
              /\ \/ loop.size > 0
                 \/ file.n_line = LineCount(f) + 1 /\ loop.first > LineCount(f)
        /\ loop.at \in {"column", "body"} => IsLineNumber(f, loop.buffer, loop.first)

TopForward ==
    loops # << >> /\ Top.at # "next" => Forward(Content(Top.file), Object(Top.file), Top)

\* The inductive invariant. Forward says of the place inside line_by_number
\* what ForwardAccessIsExact says of its end.
Inv ==
    /\ FilesOK
    /\ StackOK(loops, DOMAIN opened)
    /\ TopForward
    /\ statements \in 0 .. MaxStatements
    /\ status \in Statuses
    /\ status = "line_not_found" =>
          /\ loops # << >> /\ Top.at = "skip"
          /\ Top.form = "byIndex" /\ Top.alone => Top.first > LineCount(Content(Top.file))

---------------------------------------------------------------------------
(* Stacks. *)

LEMMA FrontOfSeq ==
    ASSUME NEW S, NEW seq \in Seq(S), seq # << >>
    PROVE  /\ Front(seq) \in Seq(S) /\ Len(Front(seq)) = Len(seq) - 1
           /\ Len(seq) \in Nat /\ Len(seq) > 0
           /\ \A i \in 1 .. Len(seq) - 1 : Front(seq)[i] = seq[i]
           /\ Last(seq) = seq[Len(seq)] /\ Last(seq) \in S
<1>1. Len(seq) \in Nat /\ Len(seq) > 0 /\ seq \in [1 .. Len(seq) -> S]
  BY EmptySeq, LenProperties
<1>2. 1 \in 1 .. Len(seq) + 1 /\ Len(seq) - 1 \in 1 - 1 .. Len(seq)
  BY <1>1
<1>3. /\ Front(seq) \in Seq(S) /\ Len(Front(seq)) = Len(seq) - 1
      /\ \A i \in 1 .. Len(seq) - 1 : Front(seq)[i] = seq[i]
  BY <1>1, <1>2, SubSeqProperties DEF Front
<1> QED
  BY <1>1, <1>3 DEF Last

LEMMA Replaced ==
    ASSUME NEW S, NEW seq \in Seq(S), seq # << >>, NEW e \in S
    PROVE  LET new == Append(Front(seq), e)
           IN  /\ new \in Seq(S) /\ new # << >> /\ Len(new) = Len(seq)
               /\ DOMAIN new = DOMAIN seq
               /\ Last(new) = e /\ new[Len(seq)] = e
               /\ \A i \in 1 .. Len(seq) - 1 : new[i] = seq[i]
<1>1. /\ Front(seq) \in Seq(S) /\ Len(Front(seq)) = Len(seq) - 1
      /\ Len(seq) \in Nat /\ Len(seq) > 0
      /\ \A i \in 1 .. Len(seq) - 1 : Front(seq)[i] = seq[i]
  BY FrontOfSeq
<1> DEFINE new == Append(Front(seq), e)
<1>2. /\ new \in Seq(S) /\ Len(new) = Len(seq) /\ new[Len(seq)] = e
      /\ \A i \in 1 .. Len(seq) - 1 : new[i] = Front(seq)[i]
  BY <1>1, AppendProperties
<1>3. new # << >> /\ DOMAIN new = DOMAIN seq
  BY <1>1, <1>2, EmptySeq, LenProperties
<1> QED
  BY <1>1, <1>2, <1>3 DEF Last

\* The loop on top moves on.
LEMMA StackTop ==
    ASSUME NEW D, NEW E, D \subseteq E, NEW s, StackOK(s, D), s # << >>,
           NEW e, LoopOK(e, E)
    PROVE  LET new == Append(Front(s), e)
           IN  StackOK(new, E) /\ new # << >> /\ Last(new) = e /\ Len(new) = Len(s)
<1>1. s \in Seq(Loop) /\ e \in Loop
  BY DEF StackOK, LoopOK
<1> DEFINE new == Append(Front(s), e)
<1>2. /\ new \in Seq(Loop) /\ new # << >> /\ Len(new) = Len(s)
      /\ DOMAIN new = DOMAIN s /\ DOMAIN s = 1 .. Len(s) /\ Len(s) \in Nat
      /\ Last(new) = e /\ new[Len(s)] = e
      /\ \A i \in 1 .. Len(s) - 1 : new[i] = s[i]
  BY <1>1, Replaced, LenProperties
<1> HIDE DEF new
<1>3. ASSUME NEW l \in DOMAIN new
      PROVE  LoopOK(new[l], E) /\ (l < Len(new) => new[l].at = "body" /\ ~new[l].alone)
  <2>1. CASE l = Len(s)
    BY <1>2, <2>1
  <2>2. CASE l # Len(s)
    <3>1. l \in 1 .. Len(s) - 1 /\ l \in DOMAIN s /\ l < Len(s)
      BY <1>2, <2>2
    <3>2. new[l] = s[l] /\ LoopOK(s[l], D) /\ s[l].at = "body" /\ ~s[l].alone
      BY <1>2, <3>1 DEF StackOK
    <3> QED BY <3>2 DEF LoopOK
  <2> QED BY <2>1, <2>2
<1>4. StackOK(new, E)
  BY <1>2, <1>3 DEF StackOK
<1> QED
  BY <1>2, <1>4 DEF new

\* The loop on top ends.
LEMMA StackPop ==
    ASSUME NEW D, NEW s, StackOK(s, D), s # << >>
    PROVE  /\ StackOK(Front(s), D)
           /\ Len(Front(s)) = Len(s) - 1
           /\ Front(s) # << >> =>
                 /\ Len(Front(s)) \in DOMAIN Front(s)
                 /\ Last(Front(s)) = Front(s)[Len(Front(s))]
                 /\ Last(Front(s)).at = "body" /\ ~Last(Front(s)).alone
<1> DEFINE new == Front(s)
<1>1. s \in Seq(Loop)
  BY DEF StackOK
<1>2. /\ new \in Seq(Loop) /\ Len(new) = Len(s) - 1
      /\ Len(s) \in Nat /\ Len(s) > 0
      /\ \A i \in 1 .. Len(s) - 1 : new[i] = s[i]
  BY <1>1, FrontOfSeq
<1> HIDE DEF new
<1>3. DOMAIN new = 1 .. Len(s) - 1 /\ DOMAIN s = 1 .. Len(s)
  BY <1>1, <1>2, LenProperties
<1>4. \A l \in DOMAIN new : /\ new[l] = s[l] /\ l \in DOMAIN s /\ l < Len(s)
  BY <1>2, <1>3
<1>5. \A l \in DOMAIN new : LoopOK(new[l], D) /\ new[l].at = "body" /\ ~new[l].alone
  BY <1>4 DEF StackOK
<1>6. StackOK(new, D)
  BY <1>2, <1>5 DEF StackOK
<1>7. new # << >> => Len(new) \in DOMAIN new /\ Last(new) = new[Len(new)]
  BY <1>2, <1>3, EmptySeq DEF Last
<1> QED
  BY <1>2, <1>5, <1>6, <1>7 DEF new

\* Disturbed, of any stack.
NoneAlone(s) == [l \in DOMAIN s |-> [s[l] EXCEPT !.alone = FALSE]]

\* Another statement moves a file: no loop is alone any more.
LEMMA StackDisturbed ==
    ASSUME NEW D, NEW s, StackOK(s, D)
    PROVE  LET new == NoneAlone(s)
           IN  /\ StackOK(new, D) /\ Len(new) = Len(s) /\ DOMAIN new = DOMAIN s
               /\ \A l \in DOMAIN new : new[l].at = s[l].at /\ ~new[l].alone
               /\ new = << >> <=> s = << >>
<1> DEFINE new == [l \in DOMAIN s |-> [s[l] EXCEPT !.alone = FALSE]]
<1>1. s \in Seq(Loop) /\ Len(s) \in Nat /\ DOMAIN s = 1 .. Len(s)
  BY LenProperties DEF StackOK
<1>2. \A l \in DOMAIN s : s[l] \in Loop /\ LoopOK(s[l], D)
  BY DEF StackOK, LoopOK
<1>3. \A l \in DOMAIN s : new[l] = [s[l] EXCEPT !.alone = FALSE]
  OBVIOUS
<1>4. DOMAIN new = DOMAIN s
  OBVIOUS
<1>5. ASSUME NEW l \in DOMAIN s
      PROVE  /\ new[l] \in Loop /\ LoopOK(new[l], D)
             /\ new[l].at = s[l].at /\ ~new[l].alone
  <2>1. s[l] \in Loop /\ LoopOK(s[l], D)
    BY <1>2
  <2>2. /\ [s[l] EXCEPT !.alone = FALSE] \in Loop
        /\ LoopOK([s[l] EXCEPT !.alone = FALSE], D)
        /\ [s[l] EXCEPT !.alone = FALSE].at = s[l].at
        /\ ~[s[l] EXCEPT !.alone = FALSE].alone
    BY <2>1 DEF LoopOK, Loop
  <2> QED BY <1>3, <2>2
<1>6. new \in [1 .. Len(s) -> Loop]
  BY <1>1, <1>5
<1>7. new \in Seq(Loop) /\ Len(new) = Len(s)
  <2> HIDE DEF new
  <2>1. new \in Seq(Loop)
    BY <1>1, <1>6, SeqDef
  <2> QED BY <1>1, <1>4, <2>1, LenProperties
<1> HIDE DEF new
<1>8. ASSUME NEW l \in DOMAIN new, l < Len(new)
      PROVE  new[l].at = "body"
  BY <1>4, <1>5, <1>7, <1>8 DEF StackOK
<1>9. StackOK(new, D)
  BY <1>4, <1>5, <1>7, <1>8 DEF StackOK
<1>10. new = << >> <=> s = << >>
  BY <1>1, <1>7, EmptySeq
<1> QED
  BY <1>4, <1>5, <1>7, <1>9, <1>10 DEF new, NoneAlone

\* A loop begins in the body of the one on top.
LEMMA StackPush ==
    ASSUME NEW D, NEW s, StackOK(s, D), s # << >> => Last(s).at = "body",
           NEW e, LoopOK(e, D)
    PROVE  LET new == Append(NoneAlone(s), e)
           IN  /\ StackOK(new, D) /\ new # << >> /\ Last(new) = e
               /\ Len(new) = Len(s) + 1
<1> DEFINE disturbed == NoneAlone(s)
           new == Append(disturbed, e)
<1>1. /\ StackOK(disturbed, D) /\ Len(disturbed) = Len(s) /\ DOMAIN disturbed = DOMAIN s
      /\ \A l \in DOMAIN disturbed : disturbed[l].at = s[l].at /\ ~disturbed[l].alone
  BY StackDisturbed
<1>2. s \in Seq(Loop) /\ Len(s) \in Nat /\ DOMAIN s = 1 .. Len(s)
  BY LenProperties DEF StackOK
<1>3. \A l \in DOMAIN s : s[l].at = "body"
  <2> SUFFICES ASSUME NEW l \in DOMAIN s PROVE s[l].at = "body"
    OBVIOUS
  <2>1. l = Len(s) \/ l < Len(s)
    BY <1>2
  <2>2. s # << >>
    BY <1>2, EmptySeq
  <2> QED BY <2>1, <2>2 DEF StackOK, Last
<1> HIDE DEF disturbed
<1>4. disturbed \in Seq(Loop) /\ e \in Loop
  BY <1>1 DEF StackOK, LoopOK
<1>5. /\ new \in Seq(Loop) /\ Len(new) = Len(s) + 1 /\ new[Len(s) + 1] = e
      /\ \A l \in 1 .. Len(s) : new[l] = disturbed[l]
  BY <1>1, <1>4, AppendProperties
<1> HIDE DEF new
<1>6. DOMAIN new = 1 .. Len(s) + 1 /\ new # << >>
  BY <1>2, <1>5, LenProperties, EmptySeq
<1>7. ASSUME NEW l \in DOMAIN new
      PROVE  LoopOK(new[l], D) /\ (l < Len(new) => new[l].at = "body" /\ ~new[l].alone)
  <2>1. CASE l = Len(s) + 1
    BY <1>2, <1>5, <2>1
  <2>2. CASE l # Len(s) + 1
    <3>1. l \in 1 .. Len(s)
      BY <1>2, <1>6, <2>2
    <3> QED BY <1>1, <1>2, <1>3, <1>5, <3>1 DEF StackOK
  <2> QED BY <2>1, <2>2
<1>8. StackOK(new, D)
  BY <1>5, <1>7 DEF StackOK
<1> QED
  BY <1>5, <1>6, <1>8 DEF new, Last, disturbed

---------------------------------------------------------------------------
(* The files. *)

\* What PositionOnlyAdvances says of a step.
Advances == \A k \in DOMAIN opened : opened'[k].object.pos >= Object(k).pos

LEMMA FileAt ==
    ASSUME FilesOK, NEW k \in DOMAIN opened
    PROVE  /\ Content(k) \in Contents /\ InBounds(Content(k), Object(k))
           /\ Object(k) \in TexlerFile /\ Object(k).pos \in Nat /\ Object(k).n_line \in Nat
           /\ opened[k].file \in DOMAIN contents
           /\ opened[k] = [file |-> opened[k].file, object |-> Object(k)]
<1>1. opened[k] \in [file : DOMAIN contents, object : TexlerFile]
  BY ElementOfSeq, LenProperties DEF FilesOK
<1>2. contents[opened[k].file] \in Contents
  BY <1>1, ElementOfSeq, LenProperties DEF FilesOK
<1>3. InBounds(contents[opened[k].file], opened[k].object)
  BY DEF FilesOK
<1> QED
  BY <1>1, <1>2, <1>3 DEF Content, Object, TexlerFile

LEMMA FilesKept ==
    ASSUME FilesOK, UNCHANGED <<contents, is_directory, next_open_file, opened>>
    PROVE  FilesOK' /\ opened' = opened /\ Advances
<1>1. FilesOK'
  BY DEF FilesOK
<1>2. \A k \in DOMAIN opened : Object(k).pos \in Nat
  BY FileAt
<1> QED
  BY <1>1, <1>2 DEF Advances, Object

\* A call that keeps the object inside the file and does not move pos back.
LEMMA FilesSet ==
    ASSUME FilesOK, NEW k \in DOMAIN opened, NEW file,
           InBounds(Content(k), file), file.pos >= Object(k).pos,
           SetObject(k, file), UNCHANGED <<contents, is_directory, next_open_file>>
    PROVE  /\ FilesOK' /\ Advances
           /\ DOMAIN opened' = DOMAIN opened
           /\ opened'[k].object = file
           /\ contents'[opened'[k].file] = Content(k)
<1> DEFINE R == [file : DOMAIN contents, object : TexlerFile]
<1>1. opened \in Seq(R) /\ Len(opened) \in Nat /\ DOMAIN opened = 1 .. Len(opened)
  BY LenProperties DEF FilesOK
<1>2. \A j \in DOMAIN opened :
         /\ opened[j] \in R /\ Object(j).pos \in Nat
         /\ InBounds(Content(j), Object(j)) /\ opened[j].file = j
  BY FileAt, <1>1, ElementOfSeq DEF FilesOK
<1>3. opened' = [opened EXCEPT ![k] = [opened[k] EXCEPT !.object = file]]
  BY DEF SetObject
<1>4. [opened[k] EXCEPT !.object = file] \in R
  <2>1. file \in TexlerFile
    BY DEF InBounds
  <2>2. opened[k] \in R
    BY <1>2
  <2> QED BY <2>1, <2>2
<1>5. DOMAIN opened' = DOMAIN opened
  BY <1>3
<1>6. \A j \in DOMAIN opened :
         opened'[j] = IF j = k THEN [opened[k] EXCEPT !.object = file] ELSE opened[j]
  BY <1>1, <1>3
<1>7. opened' \in [1 .. Len(opened) -> R]
  BY <1>1, <1>2, <1>3, <1>4
<1>8. opened' \in Seq(R)
  BY <1>1, <1>7, SeqDef
<1>9. Len(opened') = Len(opened)
  BY <1>1, <1>5, <1>8, LenProperties
<1>10. /\ opened'[k].object = file /\ opened'[k].file = opened[k].file
       /\ \A j \in DOMAIN opened : j # k => opened'[j] = opened[j]
  <2>1. opened[k] \in R
    BY <1>2
  <2> QED BY <1>6, <2>1
<1>11. Advances
  BY <1>2, <1>10 DEF Advances, Object
<1>12. \A j \in DOMAIN opened' :
          InBounds(contents[opened'[j].file], opened'[j].object) /\ opened'[j].file = j
  BY <1>2, <1>5, <1>10 DEF Content, Object
<1>13. FilesOK'
  BY <1>8, <1>9, <1>12 DEF FilesOK
<1> QED
  BY <1>5, <1>10, <1>11, <1>13 DEF Content

\* A call of lines on the file of the loop on top.
LEMMA CalledLines ==
    ASSUME Inv, loops # << >>, Top.file \in DOMAIN opened, NEW buffer \in Text,
           Called(lines(Content(Top.file), Object(Top.file), buffer)),
           UNCHANGED <<contents, is_directory, next_open_file>>
    PROVE  LET r == lines(Content(Top.file), Object(Top.file), buffer)
           IN  /\ FilesOK' /\ Advances /\ DOMAIN opened' = DOMAIN opened
               /\ opened'[Top.file].object = r.file
               /\ contents'[opened'[Top.file].file] = Content(Top.file)
               /\ r.buffer \in Text /\ r.size \in Nat
<1> DEFINE k == Top.file
           f == Content(k)
           file == Object(k)
           r == lines(f, file, buffer)
<1>1. f \in Contents /\ InBounds(f, file)
  BY FileAt DEF Inv
<1>2. /\ InBounds(f, r.file) /\ r.file.pos >= file.pos
      /\ r.buffer \in Text /\ r.size \in Nat
  <2> HIDE DEF f, file
  <2> QED BY <1>1, LinesOK
<1>3. SetObject(k, r.file)
  BY DEF Called
<1>4. FilesOK
  BY DEF Inv
<1>5. /\ FilesOK' /\ Advances /\ DOMAIN opened' = DOMAIN opened
      /\ opened'[k].object = r.file
      /\ contents'[opened'[k].file] = f
  <2> HIDE DEF r
  <2> QED BY <1>2, <1>3, <1>4, FilesSet
<1> QED
  BY <1>2, <1>5

LEMMA RewindOK ==
    ASSUME NEW f \in Contents, NEW file, InBounds(f, file)
    PROVE  InBounds(f, rewind(file)) /\ rewind(file).pos = file.pos /\ file.pos \in Nat
<1>1. file \in TexlerFile /\ file.stream \in Nat /\ file.pos \in Nat
  BY DEF InBounds, TexlerFile
<1>2. rewind(file).pos = file.pos /\ rewind(file).stream = 0 /\ rewind(file) \in TexlerFile
  BY <1>1 DEF rewind, TexlerFile
<1>3. Size(f) \in Nat
  BY SizeIsLastEnd
<1> QED
  BY <1>1, <1>2, <1>3 DEF InBounds

---------------------------------------------------------------------------
(* What a step must satisfy for Inv to hold after it. *)

LEMMA TopOK ==
    ASSUME Inv, loops # << >>
    PROVE  /\ Top \in Loop /\ LoopOK(Top, DOMAIN opened)
           /\ Len(loops) \in DOMAIN loops /\ Top = loops[Len(loops)]
<1>1. loops \in Seq(Loop)
  BY DEF Inv, StackOK
<1>2. Len(loops) \in Nat /\ Len(loops) > 0 /\ DOMAIN loops = 1 .. Len(loops)
  BY <1>1, EmptySeq, LenProperties
<1>3. Len(loops) \in DOMAIN loops /\ Top = loops[Len(loops)]
  BY <1>2 DEF Top, Last
<1>4. LoopOK(Top, DOMAIN opened)
  BY <1>3 DEF Inv, StackOK
<1> QED
  BY <1>3, <1>4 DEF LoopOK

\* The other steps than a failure of line_by_number.
LEMMA InvNext ==
    ASSUME FilesOK', StackOK(loops', DOMAIN opened'),
           loops' # << >> /\ Last(loops').at # "next"
              /\ Last(loops').form = "byIndex" /\ Last(loops').alone
           => Forward(contents'[opened'[Last(loops').file].file],
                      opened'[Last(loops').file].object, Last(loops')),
           statements' \in 0 .. MaxStatements, status' \in Statuses \ {"line_not_found"}
    PROVE  Inv'
<1>1. TopForward'
  BY DEF TopForward, Forward, Top, Content, Object
<1> QED
  BY <1>1 DEF Inv

LEMMA TopMoves ==
    ASSUME Inv, loops # << >>, FilesOK', DOMAIN opened \subseteq DOMAIN opened',
           NEW e, LoopOK(e, DOMAIN opened'), SetTop(e),
           e.form = "byIndex" /\ e.at # "next" /\ e.alone
           => Forward(contents'[opened'[e.file].file], opened'[e.file].object, e),
           UNCHANGED statements, status' \in Statuses \ {"line_not_found"}
    PROVE  Inv'
<1>1. StackOK(loops', DOMAIN opened') /\ loops' # << >> /\ Last(loops') = e
  BY StackTop DEF Inv, SetTop
<1>2. statements' \in 0 .. MaxStatements
  BY DEF Inv
<1> QED
  BY <1>1, <1>2, InvNext

LEMMA TopEnds ==
    ASSUME Inv, loops # << >>, FilesOK', DOMAIN opened' = DOMAIN opened,
           loops' = Front(loops), UNCHANGED statements,
           status' \in Statuses \ {"line_not_found"}
    PROVE  Inv'
<1>1. StackOK(loops', DOMAIN opened') /\ (loops' # << >> => ~Last(loops').alone)
  BY StackPop DEF Inv
<1>2. statements' \in 0 .. MaxStatements
  BY DEF Inv
<1> QED
  BY <1>1, <1>2, InvNext

LEMMA TopBegins ==
    ASSUME Inv, loops # << >> => Top.at = "body", FilesOK',
           DOMAIN opened' = DOMAIN opened, NEW e, LoopOK(e, DOMAIN opened),
           e.at = "next" \/ e.form # "byIndex", loops' = Append(Disturbed, e),
           statements' \in 0 .. MaxStatements, status' \in Statuses \ {"line_not_found"}
    PROVE  Inv'
<1>1. StackOK(loops, DOMAIN opened) /\ (loops # << >> => Last(loops).at = "body")
  BY DEF Inv, Top
<1>2. StackOK(loops', DOMAIN opened') /\ loops' # << >> /\ Last(loops') = e
  <2>1. Disturbed = NoneAlone(loops)
    BY Zenon DEF Disturbed, NoneAlone
  <2> QED BY <1>1, <2>1, StackPush
<1> QED
  BY <1>2, InvNext

LEMMA CountStatement ==
    ASSUME Inv, CanBegin
    PROVE  statements + 1 \in 0 .. MaxStatements
<1>1. MaxStatements \in Nat
  BY BoundsAssumption
<1> QED
  BY <1>1 DEF Inv, CanBegin

---------------------------------------------------------------------------
(* Every action keeps Inv and does not move a position back. *)

LEMMA BeginLoopOK ==
    ASSUME Inv, BeginLoop
    PROVE  Inv' /\ Advances
<1>1. PICK form \in Forms, split \in BOOLEAN, first \in Nat, last \in Nat :
         Begin(form, split, first, last)
  BY BoundsAssumption DEF BeginLoop, Forms
<1> DEFINE e == Started(form, split, "next", 0, 0, first, last, FALSE)
<1>2. LoopOK(e, DOMAIN opened) /\ e.at = "next"
  <2>1. EmptyText \in Text /\ << >> \in Seq(Text)
    BY DEF EmptyText, Text
  <2> HIDE DEF EmptyText
  <2>2. e \in Loop /\ e.at = "next" /\ e.file = 0
    BY <2>1 DEF Started, Loop, Places
  <2> HIDE DEF e
  <2> QED BY <2>2 DEF LoopOK
<1> HIDE DEF e
<1>3. loops' = Append(Disturbed, e) /\ statements' = statements + 1
      /\ CanBegin /\ status' = status /\ status = "running"
      /\ (loops # << >> => Top.at = "body")
  BY <1>1 DEF Begin, KeepFiles, CanBegin, Running, e
<1>4. FilesOK' /\ opened' = opened /\ Advances
  BY <1>1, FilesKept DEF Inv, Begin, KeepFiles
<1>5. statements' \in 0 .. MaxStatements
  BY <1>3, CountStatement
<1>6. Inv'
  BY <1>2, <1>3, <1>4, <1>5, TopBegins DEF Statuses
<1> QED
  BY <1>4, <1>6

LEMMA EndLoopOK ==
    ASSUME Inv, EndLoop
    PROVE  Inv' /\ Advances
<1>1. FilesOK' /\ opened' = opened /\ Advances
  BY FilesKept DEF Inv, EndLoop, KeepFiles, KeepProgram
<1>2. Inv'
  BY <1>1, TopEnds DEF EndLoop, KeepFiles, KeepProgram, Running, Statuses
<1> QED
  BY <1>1, <1>2

LEMMA NextFileOK ==
    ASSUME FilesOK, next_open_file < Len(contents)
    PROVE  /\ [file |-> next_open_file + 1, object |-> open_file]
                \in [file : DOMAIN contents, object : TexlerFile]
           /\ contents[next_open_file + 1] \in Contents
<1> DEFINE n == next_open_file
<1>1. n \in Nat /\ DOMAIN contents = 1 .. Len(contents) /\ Len(contents) \in Nat
  BY LenProperties DEF FilesOK
<1>2. n + 1 \in DOMAIN contents
  BY <1>1
<1>3. contents[n + 1] \in Contents
  BY <1>1, <1>2, ElementOfSeq DEF FilesOK
<1>4. open_file \in TexlerFile
  BY DEF open_file, TexlerFile
<1> QED
  BY <1>2, <1>3, <1>4

\* The next file of a directory is opened at its beginning.
LEMMA FilesOpened ==
    ASSUME FilesOK, is_directory, next_open_file < Len(contents),
           opened' = Append(opened, [file |-> next_open_file + 1, object |-> open_file]),
           next_open_file' = next_open_file + 1, UNCHANGED <<contents, is_directory>>
    PROVE  /\ FilesOK' /\ Advances
           /\ Len(opened) + 1 \in DOMAIN opened' /\ Len(opened) \in Nat
           /\ DOMAIN opened \subseteq DOMAIN opened'
<1> DEFINE R == [file : DOMAIN contents, object : TexlerFile]
           e == [file |-> next_open_file + 1, object |-> open_file]
           n == next_open_file
<1>1. /\ opened \in Seq(R) /\ DOMAIN opened = 1 .. Len(opened)
      /\ Len(opened) = n /\ n \in Nat
  BY LenProperties DEF FilesOK
<1>2. e \in R /\ contents[n + 1] \in Contents
  BY NextFileOK
<1>3. open_file \in TexlerFile /\ open_file.pos = 0 /\ open_file.stream = 0
  BY DEF open_file, TexlerFile
<1>5. InBounds(contents[n + 1], open_file)
  <2>1. Size(contents[n + 1]) \in Nat
    BY <1>2, SizeIsLastEnd
  <2> QED BY <1>3, <2>1 DEF InBounds
<1>6. /\ opened' \in Seq(R) /\ Len(opened') = n + 1 /\ opened'[n + 1] = e
      /\ \A k \in 1 .. n : opened'[k] = opened[k]
  <2>1. opened' = Append(opened, e)
    OBVIOUS
  <2> HIDE DEF R, e
  <2> QED BY <1>1, <1>2, <2>1, AppendProperties
<1>7. DOMAIN opened' = 1 .. n + 1
  <2> HIDE DEF R
  <2> QED BY <1>6, LenProperties
<1>8. \A k \in DOMAIN opened' :
         InBounds(contents[opened'[k].file], opened'[k].object) /\ opened'[k].file = k
  <2> SUFFICES ASSUME NEW k \in 1 .. n + 1
               PROVE  InBounds(contents[opened'[k].file], opened'[k].object)
                      /\ opened'[k].file = k
    BY <1>7
  <2>1. CASE k = n + 1
    BY <1>5, <1>6, <2>1
  <2>2. CASE k # n + 1
    <3>1. k \in 1 .. n /\ k \in DOMAIN opened
      BY <1>1, <2>2
    <3> QED BY <1>6, <3>1 DEF FilesOK
  <2> QED BY <2>1, <2>2
<1>9. FilesOK'
  BY <1>1, <1>6, <1>8 DEF FilesOK
<1>10. Advances
  <2>1. \A k \in DOMAIN opened : Object(k).pos \in Nat /\ opened'[k] = opened[k]
    BY <1>1, <1>6, FileAt
  <2> QED BY <2>1 DEF Advances, Object
<1> QED
  BY <1>1, <1>7, <1>9, <1>10

LEMMA EnteringOK ==
    ASSUME Inv, loops # << >>, NEW k \in Nat, NEW D, k \in D, NEW objects
    PROVE  LET e == Entering(k, objects)
           IN  /\ LoopOK(e, D) /\ e.file = k
               /\ e.form = "byIndex" => e.at = "read"
<1>1. Top \in Loop
  BY TopOK
<1>2. /\ Top.first \in Nat /\ Top.i \in Nat
      /\ Top.first - 1 \in Int /\ Top.i + 1 \in Nat
  BY <1>1 DEF Loop
<1>3. EmptyText \in Text /\ << >> \in Seq(Text) /\ BUFFER_SIZE \in Nat /\ BUFFER_SIZE > 0
  BY DEF EmptyText, Text, BUFFER_SIZE
<1>4. (objects[k].object.pos = 0) \in BOOLEAN
  OBVIOUS
<1> DEFINE e == Entering(k, objects)
<1>5. e \in Loop
  BY <1>1, <1>2, <1>3, <1>4 DEF Entering, Loop, Places
<1>6. e.file = k /\ e.size = BUFFER_SIZE /\ (e.form = "byIndex" => e.at = "read")
  BY <1>1 DEF Entering, Loop
<1> QED
  BY <1>3, <1>5, <1>6 DEF LoopOK

LEMMA GetNextFileOK ==
    ASSUME Inv, get_next_file
    PROVE  Inv' /\ Advances
<1>1. /\ loops # << >> /\ Top.at = "next" /\ status = "running"
      /\ UNCHANGED <<contents, is_directory, statements>>
  BY DEF get_next_file, KeepProgram, Running
<1>2. FilesOK /\ StackOK(loops, DOMAIN opened) /\ statements \in 0 .. MaxStatements
  BY DEF Inv
<1>3. ASSUME ~is_directory, EnterFile(1, opened),
             UNCHANGED <<next_open_file, status>>
      PROVE  Inv' /\ Advances
  <2>1. 1 \in DOMAIN opened
    BY <1>2, <1>3, LenProperties DEF FilesOK
  <2>2. FilesOK' /\ Advances /\ DOMAIN opened' = DOMAIN opened
    <3>1. CASE Top.form = "filter"
      <4>1. SetObject(1, rewind(Object(1)))
        BY <1>3, <3>1 DEF EnterFile, SetObject, Object
      <4>2. /\ InBounds(Content(1), rewind(Object(1)))
            /\ rewind(Object(1)).pos >= Object(1).pos
        BY <1>2, <2>1, FileAt, RewindOK
      <4> QED BY <1>1, <1>2, <1>3, <2>1, <4>1, <4>2, FilesSet
    <3>2. CASE Top.form # "filter"
      BY <1>1, <1>2, <1>3, <3>2, FilesKept DEF EnterFile
    <3> QED BY <3>1, <3>2
  <2>3. /\ LoopOK(Entering(1, opened), DOMAIN opened')
        /\ Entering(1, opened).form = "byIndex" => Entering(1, opened).at = "read"
    BY <1>1, <2>1, <2>2, EnteringOK
  <2>4. SetTop(Entering(1, opened))
    BY <1>3 DEF EnterFile
  <2>5. Inv'
    BY <1>1, <1>3, <2>2, <2>3, <2>4, TopMoves DEF Forward, Statuses
  <2> QED BY <2>2, <2>5
<1>4. ASSUME is_directory, next_open_file < Len(contents),
             EnterFile(Len(opened) + 1,
                       Append(opened, [file |-> next_open_file + 1,
                                       object |-> open_file])),
             next_open_file' = next_open_file + 1, UNCHANGED status
      PROVE  Inv' /\ Advances
  <2> DEFINE e == [file |-> next_open_file + 1, object |-> open_file]
             objects == Append(opened, e)
             k == Len(opened) + 1
  <2>1. opened' = objects
    <3>1. CASE Top.form = "filter"
      <4> DEFINE R == [file : DOMAIN contents, object : TexlerFile]
      <4>1. opened \in Seq(R) /\ e \in R
        BY <1>2, <1>4, NextFileOK DEF FilesOK
      <4>2. objects[k] = e /\ objects \in Seq(R) /\ rewind(open_file) = open_file
        <5> HIDE DEF R, e
        <5> QED BY <4>1, AppendProperties DEF rewind, open_file
      <4>3. opened' = [objects EXCEPT ![k].object = rewind(objects[k].object)]
        BY <1>4, <3>1 DEF EnterFile
      <4>4. objects[k].object = open_file /\ [e EXCEPT !.object = open_file] = e
        BY <4>2
      <4> HIDE DEF e, k, objects, R
      <4>5. opened' = [objects EXCEPT ![k] = e]
        BY <4>2, <4>3, <4>4
      <4>6. objects = [i \in DOMAIN objects |-> objects[i]]
        BY <4>2, LenProperties
      <4> QED BY <4>2, <4>5, <4>6
    <3>2. CASE Top.form # "filter"
      BY <1>4, <3>2 DEF EnterFile
    <3> QED BY <3>1, <3>2
  <2>2. /\ FilesOK' /\ Advances /\ k \in DOMAIN opened' /\ k \in Nat
        /\ DOMAIN opened \subseteq DOMAIN opened'
    BY <1>1, <1>2, <1>4, <2>1, FilesOpened
  <2> HIDE DEF objects, k
  <2>3. /\ LoopOK(Entering(k, objects), DOMAIN opened')
        /\ Entering(k, objects).form = "byIndex" => Entering(k, objects).at = "read"
    BY <1>1, <2>2, EnteringOK
  <2>4. SetTop(Entering(k, objects))
    BY <1>4 DEF EnterFile, objects, k
  <2>5. Inv'
    BY <1>1, <1>4, <2>2, <2>3, <2>4, TopMoves DEF Forward, Statuses
  <2> QED BY <2>2, <2>5
<1>5. ASSUME NEW s \in {"use_after_free", "out_of_bounds"}, EndProcess(s)
      PROVE  Inv' /\ Advances
  <2>1. FilesOK' /\ opened' = opened /\ Advances
    BY <1>1, <1>2, <1>5, FilesKept DEF EndProcess
  <2>2. loops' = loops /\ status' = s /\ Last(loops').at = "next"
    BY <1>1, <1>5 DEF EndProcess, Top
  <2>3. Inv'
    BY <1>1, <1>2, <2>1, <2>2, InvNext DEF Statuses
  <2> QED BY <2>1, <2>3
<1> QED
  BY <1>3, <1>4, <1>5 DEF get_next_file

\* What an action of an inner loop finds.
LEMMA Reading ==
    ASSUME Inv, loops # << >>, Top.at # "next"
    PROVE  /\ FilesOK /\ Top \in Loop /\ Top.file \in DOMAIN opened
           /\ Content(Top.file) \in Contents
           /\ InBounds(Content(Top.file), Object(Top.file))
           /\ Object(Top.file).n_line \in Nat
           /\ Forward(Content(Top.file), Object(Top.file), Top)
<1>1. Top \in Loop /\ Top.file \in DOMAIN opened /\ FilesOK
  BY TopOK DEF LoopOK, Inv
<1> QED
  BY <1>1, FileAt DEF Inv, TopForward

LEMMA CallByIndexOK ==
    ASSUME Inv, CallByIndex
    PROVE  Inv' /\ Advances
<1> DEFINE k == Top.file
           f == Content(k)
           file == Object(k)
           new == IF file.n_line > Top.first THEN rewind(file) ELSE file
           e == [Top EXCEPT !.at = "skip",
                            !.alone = InStep(f, file) /\ file.n_line <= Top.first]
<1>1. /\ loops # << >> /\ Top.at = "read" /\ Top.form = "byIndex" /\ status = "running"
      /\ UNCHANGED <<contents, is_directory, statements, next_open_file, status>>
      /\ SetObject(k, new) /\ SetTop(e)
  BY DEF CallByIndex, In, Running, KeepProgram
<1>2. /\ FilesOK /\ Top \in Loop /\ k \in DOMAIN opened /\ f \in Contents
      /\ InBounds(f, file) /\ file.n_line \in Nat
  BY <1>1, Reading
<1>3. Top.size > 0 /\ Top.first \in Nat
  BY <1>1, TopOK DEF LoopOK, Loop
<1>4. InBounds(f, new) /\ new.pos >= file.pos
  <2> HIDE DEF f, file
  <2> QED BY <1>2, RewindOK
<1>5. /\ FilesOK' /\ Advances /\ DOMAIN opened' = DOMAIN opened
      /\ opened'[k].object = new /\ contents'[opened'[k].file] = f
  <2> HIDE DEF new
  <2> QED BY <1>1, <1>2, <1>4, FilesSet
<1>6. e \in Loop /\ e.file = k /\ e.at = "skip" /\ e.size = Top.size /\ e.first = Top.first
      /\ (e.alone <=> InStep(f, file) /\ file.n_line <= Top.first)
  <2>1. (InStep(f, file) /\ file.n_line <= Top.first) \in BOOLEAN
    BY DEF InStep
  <2> DEFINE a == InStep(f, file) /\ file.n_line <= Top.first
  <2> HIDE DEF a
  <2>2. [Top EXCEPT !.at = "skip", !.alone = a] \in Loop
    BY <1>2, <2>1 DEF Loop, Places, a
  <2> QED BY <1>2, <2>2 DEF Loop, a
<1> HIDE DEF e
<1>7. LoopOK(e, DOMAIN opened')
  BY <1>2, <1>5, <1>6 DEF LoopOK
<1>8. e.alone => Forward(f, new, e)
  <2> SUFFICES ASSUME e.alone PROVE Forward(f, new, e)
    OBVIOUS
  <2>1. InStep(f, file) /\ file.n_line <= Top.first
    BY <1>6
  <2>2. new = file
    BY <1>2, <1>3, <2>1
  <2> QED BY <1>3, <1>6, <2>1, <2>2 DEF Forward
<1>9. Inv'
  <2> HIDE DEF new
  <2> QED BY <1>1, <1>5, <1>6, <1>7, <1>8, TopMoves DEF Statuses
<1> QED
  BY <1>5, <1>9

LEMMA SkipLineOK ==
    ASSUME Inv, SkipLine
    PROVE  Inv' /\ Advances
<1> DEFINE k == Top.file
           f == Content(k)
           file == Object(k)
           r == lines(f, file, Top.buffer)
           e == [Top EXCEPT !.buffer = r.buffer, !.size = r.size]
<1>1. /\ loops # << >> /\ Top.at = "skip" /\ Top.form = "byIndex" /\ status = "running"
      /\ Top.size > 0 /\ file.n_line < Top.first
      /\ UNCHANGED <<contents, is_directory, statements, next_open_file, status>>
      /\ Called(r) /\ SetTop(e)
  BY DEF SkipLine, Skipping, In, Running, KeepProgram
<1>2. /\ FilesOK /\ Top \in Loop /\ k \in DOMAIN opened /\ f \in Contents
      /\ InBounds(f, file) /\ file.n_line \in Nat /\ Forward(f, file, Top)
  BY <1>1, Reading
<1>3. Top.buffer \in Text /\ Top.first \in Nat
  BY <1>2 DEF Loop
<1>4. /\ FilesOK' /\ Advances /\ DOMAIN opened' = DOMAIN opened
      /\ opened'[k].object = r.file /\ contents'[opened'[k].file] = f
      /\ r.buffer \in Text /\ r.size \in Nat
  BY <1>1, <1>2, <1>3, CalledLines
<1>5. InStep(f, file) =>
         /\ InStep(f, r.file)
         /\ r.size = 0 => r.file.n_line = file.n_line /\ file.n_line = LineCount(f) + 1
         /\ r.size # 0 => r.file.n_line = file.n_line + 1
  <2> HIDE DEF f, file
  <2> QED BY <1>2, <1>3, LinesInStep
<1>6. LineCount(f) \in Nat
  BY <1>2, LinesBeforeCounts
<1> HIDE DEF r, f, file
<1>7. /\ e \in Loop /\ e.file = k /\ e.at = "skip" /\ e.form = "byIndex"
      /\ e.size = r.size /\ e.first = Top.first /\ e.alone = Top.alone
  BY <1>1, <1>2, <1>4 DEF Loop
<1> HIDE DEF e
<1>8. LoopOK(e, DOMAIN opened')
  BY <1>2, <1>4, <1>7 DEF LoopOK
<1>9. e.alone => Forward(f, r.file, e)
  <2> SUFFICES ASSUME e.alone PROVE Forward(f, r.file, e)
    OBVIOUS
  <2>1. InStep(f, file)
    BY <1>1, <1>2, <1>7 DEF Forward
  <2>2. InStep(f, r.file)
    BY <1>5, <2>1
  <2>3. CASE r.size = 0
    <3>1. r.file.n_line = file.n_line /\ file.n_line = LineCount(f) + 1
      BY <1>5, <2>1, <2>3
    <3>2. r.file.n_line <= e.first /\ e.first > LineCount(f)
      BY <1>1, <1>2, <1>3, <1>6, <1>7, <3>1
    <3> QED BY <1>7, <2>2, <3>1, <3>2 DEF Forward
  <2>4. CASE r.size # 0
    <3>1. r.file.n_line = file.n_line + 1 /\ e.size > 0
      BY <1>4, <1>5, <1>7, <2>1, <2>4
    <3>2. r.file.n_line <= e.first
      BY <1>1, <1>2, <1>3, <1>7, <3>1
    <3> QED BY <1>7, <2>2, <3>1, <3>2 DEF Forward
  <2> QED BY <2>3, <2>4
<1>10. Inv'
  BY <1>1, <1>4, <1>7, <1>8, <1>9, TopMoves DEF Statuses
<1> QED
  BY <1>4, <1>10

\* A loop that has read a line: in its body, or about to split the line.
LEMMA WithLineOK ==
    ASSUME Top \in Loop, NEW D, Top.file \in D, NEW r, r.buffer \in Text, r.size \in Nat
    PROVE  LET e == WithLine(r)
           IN  /\ LoopOK(e, D) /\ e.at \in {"column", "body"}
               /\ e.form = Top.form /\ e.file = Top.file /\ e.buffer = r.buffer
               /\ e.first = Top.first /\ e.alone = Top.alone
<1> DEFINE at == IF Top.split THEN "column" ELSE "body"
           rest == IF Top.split THEN r.buffer ELSE EmptyText
           e == [Top EXCEPT !.at = at, !.buffer = r.buffer, !.size = r.size,
                            !.rest = rest, !.matched = << >>]
<1>1. /\ at \in {"column", "body"} /\ rest \in Text /\ << >> \in Seq(Text)
      /\ e = WithLine(r)
  BY DEF EmptyText, Text, WithLine
<1> HIDE DEF at, rest
<1>2. /\ e \in Loop /\ e.at = at /\ e.form = Top.form /\ e.file = Top.file
      /\ e.buffer = r.buffer /\ e.first = Top.first /\ e.alone = Top.alone
  BY <1>1 DEF Loop, Places
<1> HIDE DEF e
<1> QED
  BY <1>1, <1>2 DEF LoopOK

LEMMA ReadLineNOK ==
    ASSUME Inv, ReadLineN
    PROVE  Inv' /\ Advances
<1> DEFINE k == Top.file
           f == Content(k)
           file == Object(k)
           r == lines(f, file, Top.buffer)
           e == WithLine(r)
<1>1. /\ loops # << >> /\ Top.at = "skip" /\ Top.form = "byIndex"
      /\ ~(Top.size > 0 /\ file.n_line < Top.first)
      /\ UNCHANGED <<contents, is_directory, statements, next_open_file>>
      /\ Called(r)
      /\ \/ r.size <= 0 /\ status' = "line_not_found" /\ UNCHANGED loops
         \/ r.size > 0 /\ SetTop(e) /\ status' = "running"
  BY DEF ReadLineN, Skipping, In, Running, KeepProgram
<1>2. /\ FilesOK /\ Top \in Loop /\ k \in DOMAIN opened /\ f \in Contents
      /\ InBounds(f, file) /\ file.n_line \in Nat /\ Forward(f, file, Top)
  BY <1>1, Reading
<1>3. Top.buffer \in Text /\ Top.first \in Nat /\ Top.size \in Nat
  BY <1>2 DEF Loop
<1>4. /\ FilesOK' /\ Advances /\ DOMAIN opened' = DOMAIN opened
      /\ opened'[k].object = r.file /\ contents'[opened'[k].file] = f
      /\ r.buffer \in Text /\ r.size \in Nat
  BY <1>1, <1>2, <1>3, CalledLines
<1>5. InStep(f, file) =>
         /\ InStep(f, r.file)
         /\ r.size = 0 => r.file.n_line = file.n_line /\ file.n_line = LineCount(f) + 1
         /\ r.size # 0 => /\ IsLineNumber(f, r.buffer, file.n_line)
                          /\ file.n_line <= LineCount(f)
  <2> HIDE DEF f, file
  <2> QED BY <1>2, <1>3, LinesInStep
<1>6. LineCount(f) \in Nat
  BY <1>2, LinesBeforeCounts
<1> HIDE DEF r, f, file
<1>7. CASE r.size <= 0
  <2>1. r.size = 0
    BY <1>4, <1>7
  <2>2. status' = "line_not_found" /\ loops' = loops
    BY <1>1, <1>4, <1>7
  <2>3. Top.alone =>
           /\ InStep(f, r.file) /\ r.file.n_line <= Top.first
           /\ r.file.n_line = LineCount(f) + 1 /\ Top.first > LineCount(f)
    <3> SUFFICES ASSUME Top.alone
                 PROVE  /\ InStep(f, r.file) /\ r.file.n_line <= Top.first
                        /\ r.file.n_line = LineCount(f) + 1 /\ Top.first > LineCount(f)
      OBVIOUS
    <3>1. /\ InStep(f, file) /\ file.n_line <= Top.first
          /\ Top.size > 0 \/ Top.first > LineCount(f)
      BY <1>1, <1>2 DEF Forward
    <3>2. /\ InStep(f, r.file) /\ r.file.n_line = file.n_line
          /\ file.n_line = LineCount(f) + 1
      BY <1>5, <2>1, <3>1
    <3>3. Top.first > LineCount(f)
      BY <1>1, <1>2, <1>3, <1>6, <3>1, <3>2
    <3> QED BY <3>1, <3>2, <3>3
  <2>4. Forward(f, r.file, Top)
    BY <1>1, <2>3 DEF Forward
  <2>5. StackOK(loops', DOMAIN opened') /\ statements' \in 0 .. MaxStatements
    BY <1>1, <1>4, <2>2 DEF Inv
  <2>6. Last(loops') = Top
    BY <2>2 DEF Top
  <2>7. TopForward'
    BY <1>1, <1>4, <2>2, <2>4, <2>6 DEF TopForward, Top, Content, Object
  <2>8. (loops # << >> /\ Top.at = "skip" /\ (Top.form = "byIndex" /\ Top.alone =>
             Top.first > LineCount(Content(Top.file))))'
    BY <1>1, <1>4, <2>2, <2>3, <2>6 DEF Top, Content
  <2>9. Inv'
    BY <1>4, <2>2, <2>5, <2>7, <2>8 DEF Inv, Statuses
  <2> QED BY <1>4, <2>9
<1>8. CASE r.size > 0
  <2>1. SetTop(e) /\ status' = "running"
    BY <1>1, <1>4, <1>8
  <2>2. /\ LoopOK(e, DOMAIN opened') /\ e.file = k /\ e.at \in {"column", "body"}
        /\ e.form = "byIndex" /\ e.buffer = r.buffer /\ e.first = Top.first
        /\ e.alone = Top.alone
    BY <1>1, <1>2, <1>4, WithLineOK
  <2> HIDE DEF e
  <2>3. e.alone \in BOOLEAN
    BY <2>2 DEF LoopOK, Loop
  <2>4. e.alone => Forward(f, r.file, e)
    <3> SUFFICES ASSUME e.alone PROVE Forward(f, r.file, e)
      OBVIOUS
    <3>1. /\ InStep(f, file) /\ file.n_line <= Top.first
          /\ Top.size > 0 \/ file.n_line = LineCount(f) + 1
      BY <1>1, <1>2, <2>2 DEF Forward
    <3>2. /\ InStep(f, r.file) /\ IsLineNumber(f, r.buffer, file.n_line)
          /\ file.n_line <= LineCount(f)
      BY <1>4, <1>5, <1>8, <3>1
    <3>3. file.n_line = Top.first
      BY <1>1, <1>2, <1>3, <1>6, <3>1, <3>2
    <3> QED BY <2>2, <3>2, <3>3 DEF Forward
  <2>5. Inv'
    BY <1>1, <1>4, <2>1, <2>2, <2>3, <2>4, TopMoves DEF Statuses
  <2> QED BY <1>4, <2>5
<1> QED
  BY <1>4, <1>7, <1>8

LEMMA ReadRangeOK ==
    ASSUME Inv, ReadRange
    PROVE  Inv' /\ Advances
<1> DEFINE r == lines(Content(Top.file), Object(Top.file), EmptyText)
           done == [Top EXCEPT !.at = "next"]
           last == [Top EXCEPT !.at = "next", !.buffer = r.buffer, !.size = r.size]
           e == IF r.size > 0 THEN WithLine(r) ELSE last
<1>1. /\ loops # << >> /\ Top.at = "read" /\ Top.form = "range" /\ status = "running"
      /\ UNCHANGED <<contents, is_directory, statements, next_open_file, status>>
      /\ (SetTop(done) /\ UNCHANGED opened) \/ (Called(r) /\ SetTop(e))
  BY DEF ReadRange, In, Running, KeepProgram
<1>2. FilesOK /\ Top \in Loop /\ Top.file \in DOMAIN opened /\ EmptyText \in Text
  BY <1>1, Reading DEF EmptyText, Text
<1>3. CASE SetTop(done) /\ UNCHANGED opened
  <2>1. FilesOK' /\ opened' = opened /\ Advances
    BY <1>1, <1>2, <1>3, FilesKept
  <2>2. LoopOK(done, DOMAIN opened') /\ done.form = "range"
    BY <1>1, <1>2, <2>1 DEF LoopOK, Loop, Places
  <2> HIDE DEF done
  <2>3. Inv'
    BY <1>1, <1>3, <2>1, <2>2, TopMoves DEF Statuses
  <2> QED BY <2>1, <2>3
<1>4. CASE Called(r) /\ SetTop(e)
  <2>1. /\ FilesOK' /\ Advances /\ DOMAIN opened' = DOMAIN opened
        /\ r.buffer \in Text /\ r.size \in Nat
    BY <1>1, <1>2, <1>4, CalledLines
  <2> HIDE DEF r
  <2>2. LoopOK(last, DOMAIN opened') /\ last.form = "range"
    BY <1>1, <1>2, <2>1 DEF LoopOK, Loop, Places
  <2>3. LoopOK(WithLine(r), DOMAIN opened') /\ WithLine(r).form = "range"
    BY <1>1, <1>2, <2>1, WithLineOK
  <2> HIDE DEF last
  <2>4. LoopOK(e, DOMAIN opened') /\ e.form = "range"
    BY <2>2, <2>3
  <2> HIDE DEF e
  <2>5. Inv'
    BY <1>1, <1>4, <2>1, <2>4, TopMoves DEF Statuses
  <2> QED BY <2>1, <2>5
<1> QED
  BY <1>1, <1>3, <1>4

LEMMA ReadFilterOK ==
    ASSUME Inv, ReadFilter
    PROVE  Inv' /\ Advances
<1> DEFINE r == lines(Content(Top.file), Object(Top.file), Top.buffer)
           match == is_in_string(Content(Top.file), r.buffer)
           kept == IF match THEN Append(Top.matched, r.buffer) ELSE Top.matched
           at == IF match /\ Top.form = "filter" THEN "body" ELSE "read"
           e == [Top EXCEPT !.at = at, !.buffer = r.buffer, !.size = r.size,
                            !.matched = kept]
<1>1. /\ loops # << >> /\ Top.at = "read" /\ Top.form \in {"filter", "assign"}
      /\ status = "running"
      /\ UNCHANGED <<contents, is_directory, statements, next_open_file, status>>
      /\ Called(r) /\ SetTop(e)
  BY DEF ReadFilter, In, Running, KeepProgram
<1>2. FilesOK /\ Top \in Loop /\ Top.file \in DOMAIN opened /\ Top.buffer \in Text
  BY <1>1, Reading DEF Loop
<1>3. /\ FilesOK' /\ Advances /\ DOMAIN opened' = DOMAIN opened
      /\ r.buffer \in Text /\ r.size \in Nat
  BY <1>1, <1>2, CalledLines
<1> HIDE DEF r, match
<1>4. kept \in Seq(Text) /\ at \in {"body", "read"}
  BY <1>2, <1>3, AppendProperties DEF Loop
<1> HIDE DEF kept, at
<1>5. LoopOK(e, DOMAIN opened') /\ e.form # "byIndex"
  BY <1>1, <1>2, <1>3, <1>4 DEF LoopOK, Loop, Places
<1> HIDE DEF e
<1>6. Inv'
  BY <1>1, <1>3, <1>5, TopMoves DEF Statuses
<1> QED
  BY <1>3, <1>6

LEMMA EndFilterOK ==
    ASSUME Inv, EndFilter
    PROVE  Inv' /\ Advances
<1> DEFINE e == [Top EXCEPT !.at = "next"]
<1>1. /\ loops # << >> /\ Top.at = "read" /\ Top.form = "filter" /\ status = "running"
      /\ UNCHANGED <<contents, is_directory, statements, next_open_file, opened, status>>
      /\ SetTop(e)
  BY DEF EndFilter, In, Running, KeepProgram, KeepFiles
<1>2. FilesOK /\ Top \in Loop /\ Top.file \in DOMAIN opened
  BY <1>1, Reading
<1>3. FilesOK' /\ opened' = opened /\ Advances
  BY <1>1, <1>2, FilesKept
<1>4. LoopOK(e, DOMAIN opened') /\ e.form = "filter"
  BY <1>1, <1>2, <1>3 DEF LoopOK, Loop, Places
<1> HIDE DEF e
<1>5. Inv'
  BY <1>1, <1>3, <1>4, TopMoves DEF Statuses
<1> QED
  BY <1>3, <1>5

LEMMA ReadColumnsOK ==
    ASSUME Inv, ReadColumns
    PROVE  Inv' /\ Advances
<1> DEFINE r == lines(Content(Top.file), Object(Top.file), Top.buffer)
           done == [Top EXCEPT !.at = "next"]
           last == [Top EXCEPT !.at = "next", !.buffer = r.buffer, !.size = r.size]
           e == IF r.size > 0 THEN WithLine(r) ELSE last
<1>1. /\ loops # << >> /\ Top.at = "read" /\ Top.form = "columns" /\ status = "running"
      /\ UNCHANGED <<contents, is_directory, statements, next_open_file, status>>
      /\ (SetTop(done) /\ UNCHANGED opened) \/ (Called(r) /\ SetTop(e))
  BY DEF ReadColumns, In, Running, KeepProgram
<1>2. FilesOK /\ Top \in Loop /\ Top.file \in DOMAIN opened /\ Top.buffer \in Text
  BY <1>1, Reading DEF Loop
<1>3. CASE SetTop(done) /\ UNCHANGED opened
  <2>1. FilesOK' /\ opened' = opened /\ Advances
    BY <1>1, <1>2, <1>3, FilesKept
  <2>2. LoopOK(done, DOMAIN opened') /\ done.form = "columns"
    BY <1>1, <1>2, <2>1 DEF LoopOK, Loop, Places
  <2> HIDE DEF done
  <2>3. Inv'
    BY <1>1, <1>3, <2>1, <2>2, TopMoves DEF Statuses
  <2> QED BY <2>1, <2>3
<1>4. CASE Called(r) /\ SetTop(e)
  <2>1. /\ FilesOK' /\ Advances /\ DOMAIN opened' = DOMAIN opened
        /\ r.buffer \in Text /\ r.size \in Nat
    BY <1>1, <1>2, <1>4, CalledLines
  <2> HIDE DEF r
  <2>2. LoopOK(last, DOMAIN opened') /\ last.form = "columns"
    BY <1>1, <1>2, <2>1 DEF LoopOK, Loop, Places
  <2>3. LoopOK(WithLine(r), DOMAIN opened') /\ WithLine(r).form = "columns"
    BY <1>1, <1>2, <2>1, WithLineOK
  <2> HIDE DEF last
  <2>4. LoopOK(e, DOMAIN opened') /\ e.form = "columns"
    BY <2>2, <2>3
  <2> HIDE DEF e
  <2>5. Inv'
    BY <1>1, <1>4, <2>1, <2>4, TopMoves DEF Statuses
  <2> QED BY <2>1, <2>5
<1> QED
  BY <1>1, <1>3, <1>4

\* The loop goes to its next line or file.
LEMMA ContinuedOK ==
    ASSUME Top \in Loop, NEW D, Top.file \in D
    PROVE  LoopOK(Continued, D) /\ (Continued.form = "byIndex" => Continued.at = "next")
<1> DEFINE at == IF Top.form \in {"lines", "byIndex"} THEN "next" ELSE "read"
           index == IF Top.form = "range" THEN Top.index + 1 ELSE Top.index
           e == [Top EXCEPT !.at = at, !.index = index]
<1>1. /\ index \in Int /\ at \in Places /\ (Top.form = "byIndex" => at = "next")
      /\ e = Continued
  BY DEF Loop, Places, Continued
<1> HIDE DEF index, at
<1>2. /\ e \in Loop /\ e.file = Top.file /\ (e.form = "byIndex" => e.at = "next")
  BY <1>1 DEF Loop
<1> HIDE DEF e
<1> QED
  BY <1>1, <1>2 DEF LoopOK

\* The rest of the line that remains is split.
LEMMA SplitRest ==
    ASSUME Inv, loops # << >>, Top.at = "column", Remaining
    PROVE  LET r == columns(Content(Top.file), Top.rest)
           IN  r.column \in Text /\ r.rest \in Text /\ r.size \in Nat
<1>1. Content(Top.file) \in Contents /\ Top.rest \in Text
  BY Reading DEF Loop
<1> QED
  BY <1>1, ColumnsSplit DEF Remaining

LEMMA NextColumnOK ==
    ASSUME Inv, NextColumn
    PROVE  Inv' /\ Advances
<1> DEFINE r == columns(Content(Top.file), Top.rest)
           at == IF r.size > 0 THEN "body" ELSE "column"
           visited == IF r.size > 0 THEN Append(Top.matched, r.column) ELSE Top.matched
           e == [Top EXCEPT !.at = at, !.column = r.column, !.rest = r.rest,
                            !.matched = visited]
<1>1. /\ loops # << >> /\ Top.at = "column" /\ Remaining /\ status = "running"
      /\ UNCHANGED <<contents, is_directory, statements, next_open_file, opened, status>>
      /\ SetTop(e)
  BY DEF NextColumn, InColumns, In, Running, KeepProgram, KeepFiles
<1>2. /\ FilesOK /\ Top \in Loop /\ Top.file \in DOMAIN opened
      /\ Forward(Content(Top.file), Object(Top.file), Top)
  BY <1>1, Reading
<1>3. FilesOK' /\ opened' = opened /\ Advances
  BY <1>1, <1>2, FilesKept
<1>4. r.column \in Text /\ r.rest \in Text /\ r.size \in Nat
  BY <1>1, SplitRest
<1> HIDE DEF r
<1>5. at \in {"column", "body"} /\ visited \in Seq(Text)
  BY <1>2, <1>4, AppendProperties DEF Loop
<1> HIDE DEF at, visited
<1>6. /\ e \in Loop /\ e.at = at /\ e.form = Top.form /\ e.file = Top.file
      /\ e.buffer = Top.buffer /\ e.first = Top.first /\ e.alone = Top.alone
  BY <1>2, <1>4, <1>5 DEF Loop, Places
<1> HIDE DEF e
<1>7. LoopOK(e, DOMAIN opened')
  BY <1>2, <1>3, <1>5, <1>6 DEF LoopOK
<1>8. Forward(Content(Top.file), Object(Top.file), e)
  BY <1>1, <1>2, <1>5, <1>6 DEF Forward
<1>9. Inv'
  BY <1>1, <1>3, <1>6, <1>7, <1>8, TopMoves DEF Statuses, Content, Object
<1> QED
  BY <1>3, <1>9

LEMMA EndColumnsOK ==
    ASSUME Inv, EndColumns
    PROVE  Inv' /\ Advances
<1>1. /\ loops # << >> /\ Top.at = "column" /\ status = "running"
      /\ UNCHANGED <<contents, is_directory, statements, next_open_file, opened, status>>
      /\ SetTop(Continued)
  BY DEF EndColumns, InColumns, In, Running, KeepProgram, KeepFiles
<1>2. FilesOK /\ Top \in Loop /\ Top.file \in DOMAIN opened
  BY <1>1, Reading
<1>3. FilesOK' /\ opened' = opened /\ Advances
  BY <1>1, <1>2, FilesKept
<1>4. /\ LoopOK(Continued, DOMAIN opened')
      /\ Continued.form = "byIndex" => Continued.at = "next"
  BY <1>2, <1>3, ContinuedOK
<1>5. Inv'
  BY <1>1, <1>3, <1>4, TopMoves DEF Statuses
<1> QED
  BY <1>3, <1>5

LEMMA EndBodyOK ==
    ASSUME Inv, EndBody
    PROVE  Inv' /\ Advances
<1> DEFINE e == [Top EXCEPT !.at = "column"]
<1>1. /\ loops # << >> /\ Top.at = "body" /\ status = "running"
      /\ UNCHANGED <<contents, is_directory, statements, next_open_file, opened, status>>
      /\ SetTop(e) \/ SetTop(Continued)
  BY DEF EndBody, Running, KeepProgram, KeepFiles
<1>2. /\ FilesOK /\ Top \in Loop /\ Top.file \in DOMAIN opened
      /\ Forward(Content(Top.file), Object(Top.file), Top)
  BY <1>1, Reading
<1>3. FilesOK' /\ opened' = opened /\ Advances
  BY <1>1, <1>2, FilesKept
<1>4. CASE SetTop(Continued)
  <2>1. /\ LoopOK(Continued, DOMAIN opened')
        /\ Continued.form = "byIndex" => Continued.at = "next"
    BY <1>2, <1>3, ContinuedOK
  <2> QED BY <1>1, <1>3, <1>4, <2>1, TopMoves DEF Statuses
<1>5. CASE SetTop(e)
  <2>1. /\ e \in Loop /\ e.at = "column" /\ e.form = Top.form /\ e.file = Top.file
        /\ e.buffer = Top.buffer /\ e.first = Top.first /\ e.alone = Top.alone
    BY <1>2 DEF Loop, Places
  <2> HIDE DEF e
  <2>2. LoopOK(e, DOMAIN opened')
    BY <1>2, <1>3, <2>1 DEF LoopOK
  <2>3. Forward(Content(Top.file), Object(Top.file), e)
    BY <1>1, <1>2, <2>1 DEF Forward
  <2>4. Inv'
    BY <1>1, <1>3, <1>5, <2>1, <2>2, <2>3, TopMoves DEF Statuses, Content, Object
  <2> QED BY <1>3, <2>4
<1> QED
  BY <1>1, <1>4, <1>5

LEMMA AssignFilterOK ==
    ASSUME Inv, AssignFilter
    PROVE  Inv' /\ Advances
<1> DEFINE k == Top.file
           file == Object(k)
           a == file.pos = 0
           buffer == IF Top.split THEN Top.column ELSE Top.buffer
           e == [Top EXCEPT !.form = "assign", !.split = FALSE, !.at = "read",
                            !.buffer = buffer, !.rest = EmptyText,
                            !.matched = << >>, !.alone = a]
<1>1. /\ loops # << >> /\ Top.at = "body" /\ status = "running" /\ CanBegin
      /\ UNCHANGED <<contents, is_directory, next_open_file, status>>
      /\ statements' = statements + 1
      /\ SetObject(k, rewind(file)) /\ loops' = Append(Disturbed, e)
  BY DEF AssignFilter, CanBegin, Running
<1>2. /\ FilesOK /\ Top \in Loop /\ k \in DOMAIN opened /\ Content(k) \in Contents
      /\ InBounds(Content(k), file)
  BY <1>1, Reading
<1>3. InBounds(Content(k), rewind(file)) /\ rewind(file).pos >= file.pos
  <2> HIDE DEF file
  <2> QED BY <1>2, RewindOK
<1>4. FilesOK' /\ Advances /\ DOMAIN opened' = DOMAIN opened
  BY <1>1, <1>2, <1>3, FilesSet
<1>5. LoopOK(e, DOMAIN opened) /\ e.form = "assign"
  <2>1. a \in BOOLEAN /\ << >> \in Seq(Text) /\ EmptyText \in Text
    BY DEF EmptyText, Text
  <2>2. buffer \in Text
    BY <1>2 DEF Loop
  <2> HIDE DEF a, buffer
  <2>3. e \in Loop /\ e.file = k /\ e.form = "assign"
    BY <1>2, <2>1, <2>2 DEF Loop, Forms, Places
  <2> HIDE DEF e
  <2> QED BY <1>2, <2>3 DEF LoopOK
<1> HIDE DEF e
<1>6. Inv'
  BY <1>1, <1>4, <1>5, CountStatement, TopBegins DEF Statuses
<1> QED
  BY <1>4, <1>6

LEMMA StackSetLast ==
    ASSUME NEW D, NEW s, StackOK(s, D), s # << >> => Last(s).at = "body",
           NEW buffer \in Text, NEW size \in Nat
    PROVE  LET new == [s EXCEPT ![Len(s)] = Assigned(@, buffer, size)]
           IN  /\ StackOK(new, D)
               /\ new # << >> => Last(new).alone = Last(s).alone
<1> DEFINE e == Assigned(s[Len(s)], buffer, size)
           new == [s EXCEPT ![Len(s)] = Assigned(@, buffer, size)]
<1>1. /\ s \in Seq(Loop) /\ Len(s) \in Nat /\ DOMAIN s = 1 .. Len(s)
      /\ s \in [1 .. Len(s) -> Loop]
  BY LenProperties DEF StackOK
<1>2. new = [s EXCEPT ![Len(s)] = e]
  OBVIOUS
<1>3. CASE s = << >>
  <2>1. Len(s) = 0
    BY <1>1, <1>3, EmptySeq
  <2> HIDE DEF e, new
  <2>2. DOMAIN new = {} /\ new \in [1 .. 0 -> Loop]
    <3>1. 1 .. Len(s) = {} /\ 1 .. 0 = {}
      BY <2>1
    <3>2. DOMAIN new = {}
      BY <1>1, <1>2, <3>1
    <3>3. new = [i \in {} |-> new[i]]
      BY <1>2, <3>2
    <3> QED BY <3>1, <3>2, <3>3
  <2>3. new \in Seq(Loop)
    BY <2>2, SeqDef
  <2>4. StackOK(new, D) /\ new = << >>
    BY <2>2, <2>3, EmptySeq, LenProperties DEF StackOK
  <2> QED BY <2>4 DEF new
<1>4. CASE s # << >>
  <2> DEFINE n == Len(s)
             loop == s[n]
             own == IF loop.split THEN loop.buffer ELSE buffer
             column == IF loop.split THEN buffer ELSE loop.column
  <2>1. n \in DOMAIN s
    BY <1>1, <1>4, EmptySeq
  <2>2. loop \in Loop /\ LoopOK(loop, D) /\ loop.at = "body"
    BY <1>4, <2>1 DEF StackOK, LoopOK, Last
  <2>3. e = [loop EXCEPT !.buffer = own, !.column = column, !.size = size]
    BY DEF Assigned
  <2> HIDE DEF loop
  <2>4. own \in Text /\ column \in Text
    BY <2>2 DEF Loop
  <2> HIDE DEF own, column, e
  <2>5. e \in Loop /\ LoopOK(e, D) /\ e.at = "body" /\ e.alone = loop.alone
    BY <2>2, <2>3, <2>4 DEF LoopOK, Loop
  <2>6. new = [s EXCEPT ![n] = e]
    BY <1>2
  <2> HIDE DEF new
  <2>7. new \in [1 .. n -> Loop] /\ DOMAIN new = 1 .. n
    BY <1>1, <2>5, <2>6
  <2>8. new \in Seq(Loop)
    BY <1>1, <2>7, SeqDef
  <2>9. Len(new) = n
    BY <1>1, <2>7, <2>8, LenProperties
  <2>10. \A i \in DOMAIN s : new[i] = IF i = n THEN e ELSE s[i]
    BY <1>1, <2>6
  <2>11. StackOK(new, D)
    BY <1>1, <2>5, <2>7, <2>8, <2>9, <2>10 DEF StackOK
  <2>12. Last(new).alone = Last(s).alone
    BY <2>1, <2>5, <2>9, <2>10 DEF Last, loop
  <2> QED BY <2>11, <2>12 DEF new
<1> QED
  BY <1>3, <1>4

LEMMA EndAssignOK ==
    ASSUME Inv, EndAssign
    PROVE  Inv' /\ Advances
<1> DEFINE outer == Front(loops)
<1>1. /\ loops # << >> /\ Top.at = "read" /\ status = "running"
      /\ UNCHANGED <<contents, is_directory, statements, next_open_file, opened, status>>
      /\ loops' = [outer EXCEPT ![Len(outer)] = Assigned(@, Top.buffer, Top.size)]
  BY DEF EndAssign, In, Running, KeepProgram, KeepFiles
<1>2. FilesOK /\ Top.buffer \in Text /\ Top.size \in Nat
  BY <1>1, Reading DEF Loop
<1>3. FilesOK' /\ opened' = opened /\ Advances
  BY <1>1, <1>2, FilesKept
<1>4. /\ StackOK(outer, DOMAIN opened) /\ statements' \in 0 .. MaxStatements
      /\ outer # << >> => Last(outer).at = "body" /\ ~Last(outer).alone
  BY <1>1, StackPop DEF Inv
<1> HIDE DEF outer
<1>5. /\ StackOK(loops', DOMAIN opened)
      /\ loops' # << >> => Last(loops').alone = Last(outer).alone
  BY <1>1, <1>2, <1>4, StackSetLast
<1>6. loops' # << >> => outer # << >>
  <2> SUFFICES ASSUME outer = << >> PROVE loops' = << >>
    OBVIOUS
  <2>1. DOMAIN loops' = DOMAIN outer /\ DOMAIN outer = {}
    BY <1>1
  <2>2. loops' \in Seq(Loop)
    BY <1>5 DEF StackOK
  <2> QED BY <2>1, <2>2, EmptySeq, LenProperties
<1>7. Inv'
  BY <1>1, <1>3, <1>4, <1>5, <1>6, InvNext DEF Statuses
<1> QED
  BY <1>3, <1>7

\* A copy of a regular file is a statement on file 1.
LEMMA FileOne ==
    ASSUME FilesOK, ~is_directory
    PROVE  1 \in DOMAIN opened
BY LenProperties DEF FilesOK

LEMMA CopyFileOK ==
    ASSUME Inv, CopyFile
    PROVE  Inv' /\ Advances
<1> DEFINE file == Object(1)
           new == copy_file_content(Content(1), file)
<1>1. /\ ~is_directory /\ status = "running" /\ CanBegin
      /\ UNCHANGED <<contents, is_directory, next_open_file, status>>
      /\ statements' = statements + 1
      /\ SetObject(1, new) /\ loops' = Disturbed
  BY DEF CopyFile, CanBegin, Running
<1>2. FilesOK /\ 1 \in DOMAIN opened /\ StackOK(loops, DOMAIN opened)
  BY <1>1, FileOne DEF Inv
<1>3. /\ Content(1) \in Contents /\ InBounds(Content(1), file) /\ file.pos \in Nat
      /\ file \in TexlerFile /\ Size(Content(1)) \in Nat
  BY <1>2, FileAt, SizeIsLastEnd
<1>4. InBounds(Content(1), new) /\ new.pos >= file.pos
  <2> HIDE DEF file
  <2> QED BY <1>3 DEF copy_file_content, InBounds, TexlerFile
<1> HIDE DEF new
<1>5. FilesOK' /\ Advances /\ DOMAIN opened' = DOMAIN opened
  BY <1>1, <1>2, <1>4, FilesSet
<1>6. /\ StackOK(loops', DOMAIN opened')
      /\ loops' # << >> => ~Last(loops').alone
  <2>1. Disturbed = NoneAlone(loops)
    BY Zenon DEF Disturbed, NoneAlone
  <2>2. /\ StackOK(loops', DOMAIN opened)
        /\ \A l \in DOMAIN loops' : ~loops'[l].alone
    BY <1>1, <1>2, <2>1, StackDisturbed
  <2>3. loops' \in Seq(Loop)
    BY <2>2 DEF StackOK
  <2>4. loops' # << >> => Len(loops') \in DOMAIN loops'
    BY <2>3, EmptySeq, LenProperties
  <2> QED BY <1>5, <2>2, <2>4 DEF Last
<1>7. Inv'
  BY <1>1, <1>5, <1>6, CountStatement, InvNext DEF Statuses
<1> QED
  BY <1>5, <1>7

LEMMA CopyTranslatingOK ==
    ASSUME Inv, CopyTranslating
    PROVE  Inv' /\ Advances
<1> DEFINE a == InStep(Content(1), Object(1)) /\ Object(1).pos = 0
           e == Started("copy", TRUE, "read", 1, BUFFER_SIZE, 0, 0, a)
<1>1. /\ ~is_directory /\ status = "running" /\ CanBegin
      /\ loops # << >> => Top.at = "body"
      /\ UNCHANGED <<contents, is_directory, next_open_file, opened, status>>
      /\ statements' = statements + 1 /\ loops' = Append(Disturbed, e)
  BY DEF CopyTranslating, CanBegin, Running, KeepFiles
<1>2. FilesOK /\ 1 \in DOMAIN opened
  BY <1>1, FileOne DEF Inv
<1>3. FilesOK' /\ opened' = opened /\ Advances
  BY <1>1, <1>2, FilesKept
<1>4. LoopOK(e, DOMAIN opened) /\ e.form = "copy"
  <2>1. a \in BOOLEAN /\ BUFFER_SIZE \in Nat
    BY DEF InStep, BUFFER_SIZE
  <2>2. EmptyText \in Text /\ << >> \in Seq(Text)
    BY DEF EmptyText, Text
  <2> HIDE DEF a, BUFFER_SIZE, EmptyText
  <2>3. e \in Loop /\ e.form = "copy" /\ e.file = 1
    BY <2>1, <2>2 DEF Started, Loop, Forms, Places
  <2> HIDE DEF e
  <2> QED BY <1>2, <2>3 DEF LoopOK
<1> HIDE DEF e
<1>5. Inv'
  BY <1>1, <1>3, <1>4, CountStatement, TopBegins DEF Statuses
<1> QED
  BY <1>3, <1>5

LEMMA ReadCopyOK ==
    ASSUME Inv, ReadCopy
    PROVE  Inv' /\ Advances
<1> DEFINE r == lines(Content(Top.file), Object(Top.file), Top.buffer)
           e == [Top EXCEPT !.at = "column", !.buffer = r.buffer, !.rest = r.buffer]
<1>1. /\ loops # << >> /\ Top.at = "read" /\ Top.form = "copy" /\ status = "running"
      /\ UNCHANGED <<contents, is_directory, statements, next_open_file, status>>
      /\ Called(r) /\ (SetTop(e) \/ loops' = Front(loops))
  BY DEF ReadCopy, In, Running, KeepProgram, SetTop
<1>2. FilesOK /\ Top \in Loop /\ Top.file \in DOMAIN opened /\ Top.buffer \in Text
  BY <1>1, Reading DEF Loop
<1>3. /\ FilesOK' /\ Advances /\ DOMAIN opened' = DOMAIN opened
      /\ r.buffer \in Text
  BY <1>1, <1>2, CalledLines
<1> HIDE DEF r
<1>4. LoopOK(e, DOMAIN opened') /\ e.form = "copy"
  BY <1>1, <1>2, <1>3 DEF LoopOK, Loop, Places
<1> HIDE DEF e
<1>5. Inv'
  BY <1>1, <1>3, <1>4, TopMoves, TopEnds DEF Statuses
<1> QED
  BY <1>3, <1>5

\* What a copy writes for a column are texts of the file.
LEMMA WrittenOK ==
    ASSUME NEW f \in Contents, NEW str \in Text, str.from < str.to
    PROVE  Written(f, columns(f, str)) \in Seq(Text)
<1> DEFINE r == columns(f, str)
           separator == [from |-> r.column.to, to |-> r.column.to + 1]
           first == IF r.size > 0 THEN <<r.column>> ELSE << >>
           n == f.separators[r.column.to]
           second == IF r.separator THEN [i \in 1 .. n |-> separator] ELSE << >>
<1>1. /\ r.column \in Text /\ r.size \in Nat /\ r.separator \in BOOLEAN
      /\ r.separator => r.column.to \in DOMAIN f.separators
  BY ColumnsSplit
<1>2. r.separator => n \in Nat
  BY <1>1, ContentsAssumption
<1>3. Written(f, r) = first \o second
  BY DEF Written
<1> HIDE DEF r, n
<1>4. first \in Seq(Text)
  BY <1>1
<1>5. separator \in Text
  BY <1>1 DEF Text
<1> HIDE DEF first, separator
<1>6. second \in Seq(Text)
  BY <1>1, <1>2, <1>5, SeqDef
<1> HIDE DEF second
<1> QED
  BY <1>3, <1>4, <1>6, ConcatProperties DEF r

LEMMA CopyColumnOK ==
    ASSUME Inv, CopyColumn
    PROVE  Inv' /\ Advances
<1> DEFINE f == Content(Top.file)
           r == columns(f, Top.rest)
           written == Top.matched \o Written(f, r)
           more == [Top EXCEPT !.rest = r.rest, !.matched = written]
           done == [Top EXCEPT !.at = "read"]
<1>1. /\ loops # << >> /\ Top.at = "column" /\ Top.form = "copy" /\ status = "running"
      /\ UNCHANGED <<contents, is_directory, statements, next_open_file, opened, status>>
      /\ (Remaining /\ SetTop(more)) \/ SetTop(done)
  BY DEF CopyColumn, In, Running, KeepProgram, KeepFiles
<1>2. /\ FilesOK /\ Top \in Loop /\ Top.file \in DOMAIN opened /\ f \in Contents
      /\ Top.rest \in Text /\ Top.matched \in Seq(Text)
  BY <1>1, Reading DEF Loop
<1>3. FilesOK' /\ opened' = opened /\ Advances
  BY <1>1, <1>2, FilesKept
<1>4. CASE Remaining /\ SetTop(more)
  <2>1. r.rest \in Text
    BY <1>1, <1>4, SplitRest
  <2>2. written \in Seq(Text)
    <3>1. Top.rest.from < Top.rest.to
      BY <1>4 DEF Remaining
    <3> HIDE DEF f
    <3>2. Written(f, r) \in Seq(Text)
      BY <1>2, <3>1, WrittenOK
    <3> HIDE DEF r
    <3> QED BY <1>2, <3>2, ConcatProperties
  <2> HIDE DEF r, written
  <2>3. LoopOK(more, DOMAIN opened') /\ more.form = "copy"
    BY <1>1, <1>2, <1>3, <2>1, <2>2 DEF LoopOK, Loop
  <2> HIDE DEF more
  <2>4. Inv'
    BY <1>1, <1>3, <1>4, <2>3, TopMoves DEF Statuses
  <2> QED BY <1>3, <2>4
<1>5. CASE SetTop(done)
  <2>1. LoopOK(done, DOMAIN opened') /\ done.form = "copy"
    BY <1>1, <1>2, <1>3 DEF LoopOK, Loop, Places
  <2> HIDE DEF done
  <2>2. Inv'
    BY <1>1, <1>3, <1>5, <2>1, TopMoves DEF Statuses
  <2> QED BY <1>3, <2>2
<1> QED
  BY <1>1, <1>4, <1>5

LEMMA FinishOK ==
    ASSUME Inv, Finish
    PROVE  Inv' /\ Advances
<1>1. /\ loops = << >> /\ status' = "finished"
      /\ UNCHANGED <<contents, is_directory, statements, next_open_file, opened, loops>>
  BY DEF Finish, EndProcess, KeepProgram
<1>2. FilesOK' /\ opened' = opened /\ Advances
  BY <1>1, FilesKept DEF Inv
<1>3. Inv'
  BY <1>1, <1>2, InvNext DEF Inv, Statuses
<1> QED
  BY <1>2, <1>3

---------------------------------------------------------------------------
(* The theorems. *)

LEMMA InitOK ==
    ASSUME Init
    PROVE  Inv
<1>1. PICK n \in Nat : n > 0 /\ contents \in [1 .. n -> Contents]
  BY BoundsAssumption DEF Init
<1>2. contents \in Seq(Contents)
  BY <1>1, SeqDef
<1>3. Len(contents) = n /\ contents # << >> /\ 1 \in DOMAIN contents
  <2>1. DOMAIN contents = 1 .. n
    BY <1>1
  <2>2. Len(contents) = n
    BY <1>1, <1>2, <2>1, LenProperties
  <2> QED BY <1>1, <1>2, <2>1, <2>2, EmptySeq
<1>4. contents[1] \in Contents
  BY <1>1, <1>3
<1>5. InBounds(contents[1], open_file) /\ open_file \in TexlerFile
  BY <1>4, SizeIsLastEnd DEF InBounds, open_file, TexlerFile
<1>6. FilesOK
  <2>1. CASE is_directory
    BY <1>2, <1>3, <2>1, EmptySeq DEF Init, FilesOK
  <2>2. CASE ~is_directory
    <3> DEFINE e == [file |-> 1, object |-> open_file]
    <3>1. /\ opened = <<e>> /\ is_directory \in BOOLEAN /\ next_open_file = 0
          /\ e \in [file : DOMAIN contents, object : TexlerFile]
      BY <1>3, <1>5, <2>2 DEF Init
    <3>2. e.file = 1 /\ e.object = open_file
      OBVIOUS
    <3> HIDE DEF e
    <3>3. /\ opened \in Seq([file : DOMAIN contents, object : TexlerFile])
          /\ Len(opened) = 1 /\ DOMAIN opened = {1} /\ opened[1] = e
      BY <3>1
    <3> QED BY <1>2, <1>3, <1>5, <2>2, <3>1, <3>2, <3>3 DEF FilesOK
  <2> QED BY <2>1, <2>2
<1>7. StackOK(loops, DOMAIN opened) /\ loops = << >>
  BY EmptySeq DEF Init, StackOK
<1>8. statements \in 0 .. MaxStatements /\ status = "running"
  BY BoundsAssumption DEF Init
<1> QED
  BY <1>6, <1>7, <1>8 DEF Inv, TopForward, Statuses

LEMMA NextOK ==
    ASSUME Inv, [Next]_vars
    PROVE  Inv' /\ [Advances]_vars
<1>1. CASE BeginLoop        BY <1>1, BeginLoopOK
<1>2. CASE get_next_file    BY <1>2, GetNextFileOK
<1>3. CASE EndLoop          BY <1>3, EndLoopOK
<1>4. CASE CallByIndex      BY <1>4, CallByIndexOK
<1>5. CASE SkipLine         BY <1>5, SkipLineOK
<1>6. CASE ReadLineN        BY <1>6, ReadLineNOK
<1>7. CASE ReadRange        BY <1>7, ReadRangeOK
<1>8. CASE ReadFilter       BY <1>8, ReadFilterOK
<1>9. CASE EndFilter        BY <1>9, EndFilterOK
<1>10. CASE ReadColumns     BY <1>10, ReadColumnsOK
<1>11. CASE NextColumn      BY <1>11, NextColumnOK
<1>12. CASE EndColumns      BY <1>12, EndColumnsOK
<1>13. CASE EndBody         BY <1>13, EndBodyOK
<1>14. CASE AssignFilter    BY <1>14, AssignFilterOK
<1>15. CASE EndAssign       BY <1>15, EndAssignOK
<1>16. CASE CopyFile        BY <1>16, CopyFileOK
<1>17. CASE CopyTranslating BY <1>17, CopyTranslatingOK
<1>18. CASE ReadCopy        BY <1>18, ReadCopyOK
<1>19. CASE CopyColumn      BY <1>19, CopyColumnOK
<1>20. CASE Finish          BY <1>20, FinishOK
<1>21. CASE UNCHANGED vars
  <2>1. Inv'
    BY <1>21 DEF vars, Inv, FilesOK, StackOK, LoopOK, TopForward, Forward, Top,
                 Content, Object
  <2> QED BY <1>21, <2>1
<1> QED
  BY <1>1, <1>2, <1>3, <1>4, <1>5, <1>6, <1>7, <1>8, <1>9, <1>10, <1>11, <1>12, <1>13,
     <1>14, <1>15, <1>16, <1>17, <1>18, <1>19, <1>20, <1>21 DEF Next

THEOREM Invariance == Spec => []Inv
<1>1. Inv /\ [Next]_vars => Inv'
  BY NextOK
<1> QED
  BY InitOK, <1>1, PTL DEF Spec

\* The positions of every file stay inside it, and every loop that reads has a
\* file that was opened.
THEOREM LoopsTypeCorrect == Spec => []TypeOK
<1>1. ASSUME Inv PROVE TypeOK
  <2>1. /\ contents \in Seq(Contents) /\ contents # << >> /\ is_directory \in BOOLEAN
        /\ next_open_file \in Nat
        /\ opened \in Seq([file : DOMAIN contents, object : TexlerFile])
        /\ loops \in Seq(Loop) /\ statements \in 0 .. MaxStatements /\ status \in Statuses
    BY <1>1 DEF Inv, FilesOK, StackOK
  <2>2. \A k \in DOMAIN opened :
           /\ opened[k].object.pos <= Size(contents[opened[k].file])
           /\ opened[k].object.stream <= Size(contents[opened[k].file])
    BY <1>1 DEF Inv, FilesOK, InBounds
  <2>3. \A l \in DOMAIN loops : loops[l].file \in DOMAIN opened \cup {0}
    BY <1>1 DEF Inv, StackOK, LoopOK
  <2> QED BY <2>1, <2>2, <2>3 DEF TypeOK
<1>2. Inv => TypeOK
  BY <1>1
<1> QED
  BY <1>2, Invariance, PTL

\* byIndex(n) on a file that was only read forward, and not beyond line n,
\* delivers line n and leaves the file in step, for every file and every n.
THEOREM ForwardAccess == Spec => []ForwardAccessIsExact
<1>1. Inv => ForwardAccessIsExact
  BY DEF Inv, TopForward, Forward, ForwardAccessIsExact
<1> QED
  BY <1>1, Invariance, PTL

\* No statement of the generated program moves the position of a file back,
\* however loops nest and whatever their bodies do.
THEOREM Advancing == Spec => PositionOnlyAdvances
<1>1. Inv /\ [Next]_vars => [Advances]_vars
  BY NextOK
<1>2. [Advances]_vars => [\A k \in DOMAIN opened :
                             opened'[k].object.pos >= Object(k).pos]_vars
  BY DEF Advances
<1> QED
  BY <1>1, <1>2, Invariance, PTL DEF Spec, PositionOnlyAdvances

\* A directory opens its files in order, none twice.
THEOREM OpenedInOrder == Spec => []FilesOpenedInOrder
<1>1. Inv => FilesOpenedInOrder
  BY DEF Inv, FilesOK, FilesOpenedInOrder
<1> QED
  BY <1>1, Invariance, PTL
============================================================================
