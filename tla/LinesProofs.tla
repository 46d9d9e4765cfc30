---------------------------- MODULE LinesProofs ----------------------------
(***************************************************************************)
(* Theorems about the lines that LoopExecution reads, for all contents of  *)
(* the files. Of a line split into columns: the body of a loop runs for    *)
(* every column, and a copy between different separators loses nothing. Of *)
(* a filter that is alone with a file: it keeps every line with the word.  *)
(* The last needs to know of every loop on the stack what its variables    *)
(* hold, since an assignment `line.filter(word) -> file` takes them over.  *)
(***************************************************************************)
EXTENDS LoopExecutionProofs

---------------------------------------------------------------------------
(* A line that is being split. *)

\* What ColumnsAreVisited says of a line of which `rest` remains, and why it
\* will say it of the next column: the rest begins the line or follows a
\* separator, and the visited columns end before it.
LineSplit(f, line, rest, visited) ==
    /\ rest.to = line.to /\ line.from <= rest.from
    /\ rest.from < rest.to =>
          rest.from = line.from \/ rest.from - 1 \in DOMAIN f.separators
    /\ \A i \in DOMAIN visited :
          /\ IsColumn(f, line, visited[i])
          /\ i + 1 \in DOMAIN visited => visited[i].to < visited[i + 1].from
          /\ rest.from < rest.to => visited[i].to < rest.from
    /\ \A o \in line.from .. rest.from - 1 :
          \/ o \in DOMAIN f.separators
          \/ \E i \in DOMAIN visited : visited[i].from <= o /\ o < visited[i].to

LEMMA SplitStarts ==
    ASSUME NEW f, NEW line \in Text
    PROVE  LineSplit(f, line, line, << >>)
<1>1. line.from \in Nat /\ line.to \in Nat /\ DOMAIN << >> = {}
  BY DEF Text
<1>2. line.from .. line.from - 1 = {}
  BY <1>1
<1> QED
  BY <1>1, <1>2 DEF LineSplit

\* The next column of the rest is a column of the line, and follows the last
\* one that was visited.
LEMMA SplitGoesOn ==
    ASSUME NEW f \in Contents, NEW line \in Text, NEW rest \in Text,
           NEW visited \in Seq(Text), rest.from < rest.to,
           LineSplit(f, line, rest, visited)
    PROVE  LET r == columns(f, rest)
               now == IF r.size > 0 THEN Append(visited, r.column) ELSE visited
           IN  LineSplit(f, line, r.rest, now)
<1> DEFINE r == columns(f, rest)
           c == r.column
           new == r.rest
           D == DOMAIN f.separators
           m == Len(visited)
           now == IF r.size > 0 THEN Append(visited, c) ELSE visited
<1>1. /\ c \in Text /\ new \in Text /\ r.size \in Nat /\ r.separator \in BOOLEAN
      /\ c.from = rest.from /\ new.to = rest.to
      /\ rest.from <= c.to /\ c.to <= rest.to
      /\ r.size > 0 <=> c.from < c.to
      /\ \A o \in D : o < rest.from \/ c.to <= o
      /\ r.separator => c.to \in D /\ c.to < rest.to /\ new.from = c.to + 1
      /\ ~r.separator => c.to = rest.to /\ new.from = rest.to
  BY ColumnsSplit
<1>2. D \subseteq Nat /\ m \in Nat /\ DOMAIN visited = 1 .. m
  BY ContentsAssumption, LenProperties
<1>3. /\ rest.to = line.to /\ line.from <= rest.from
      /\ rest.from = line.from \/ rest.from - 1 \in D
  BY DEF LineSplit
<1>4. /\ line.from \in Nat /\ line.to \in Nat /\ rest.from \in Nat /\ rest.to \in Nat
      /\ c.from \in Nat /\ c.to \in Nat /\ new.from \in Nat /\ new.to \in Nat
  BY <1>1 DEF Text
<1>5. \A i \in 1 .. m :
         /\ visited[i] \in Text /\ IsColumn(f, line, visited[i])
         /\ i + 1 \in 1 .. m => visited[i].to < visited[i + 1].from
         /\ visited[i].to < rest.from
  BY <1>2, ElementOfSeq DEF LineSplit
<1>6. \A i \in 1 .. m : visited[i].to \in Nat /\ visited[i].from \in Nat
  BY <1>5 DEF Text
<1>7. \A o \in line.from .. rest.from - 1 :
         \/ o \in D
         \/ \E i \in 1 .. m : visited[i].from <= o /\ o < visited[i].to
  BY <1>2 DEF LineSplit
<1>8. c.from < c.to => IsColumn(f, line, c)
  <2> HIDE DEF r, c, D
  <2>1. ASSUME c.from < c.to
        PROVE  /\ line.from <= c.from /\ c.from < c.to /\ c.to <= line.to
               /\ \A o \in D : o < c.from \/ c.to <= o
               /\ c.from = line.from \/ c.from - 1 \in D
               /\ c.to = line.to \/ c.to \in D
    BY <1>1, <1>3, <1>4, <2>1
  <2> QED BY <2>1 DEF IsColumn, D
<1>9. /\ IF r.size > 0 THEN DOMAIN now = 1 .. m + 1 /\ now[m + 1] = c
                       ELSE DOMAIN now = 1 .. m
      /\ \A i \in 1 .. m : now[i] = visited[i]
  <2> HIDE DEF c
  <2>1. CASE r.size > 0
    <3> DEFINE more == Append(visited, c)
    <3>1. /\ more \in Seq(Text) /\ Len(more) = m + 1 /\ more[m + 1] = c
          /\ \A i \in 1 .. m : more[i] = visited[i]
      BY <1>1, AppendProperties
    <3>2. DOMAIN more = 1 .. m + 1
      BY <3>1, LenProperties
    <3>3. now = more
      BY <2>1
    <3> HIDE DEF more, now
    <3> QED BY <2>1, <3>1, <3>2, <3>3
  <2>2. CASE ~(r.size > 0)
    BY <1>2, <2>2
  <2> QED BY <2>1, <2>2
<1> HIDE DEF r, c, new, D, m, now
<1>10. new.to = line.to /\ line.from <= new.from /\ c.to <= new.from
  BY <1>1, <1>3, <1>4
<1>11. new.from < new.to => /\ new.from = line.from \/ new.from - 1 \in D
                            /\ c.to < new.from
  BY <1>1, <1>4
<1>12. ASSUME NEW i \in DOMAIN now
       PROVE  /\ IsColumn(f, line, now[i])
              /\ i + 1 \in DOMAIN now => now[i].to < now[i + 1].from
              /\ new.from < new.to => now[i].to < new.from
  <2>1. CASE i \in 1 .. m
    <3>1. now[i] = visited[i] /\ IsColumn(f, line, now[i])
      BY <1>5, <1>9, <2>1
    <3>2. now[i].to \in Nat /\ now[i].to < rest.from
      BY <1>5, <1>6, <2>1, <3>1
    <3>3. new.from < new.to => now[i].to < new.from
      BY <1>1, <1>4, <1>10, <3>2
    <3>4. ASSUME i + 1 \in DOMAIN now PROVE now[i].to < now[i + 1].from
      <4>1. CASE i + 1 \in 1 .. m
        BY <1>5, <1>9, <2>1, <3>1, <4>1
      <4>2. CASE i + 1 \notin 1 .. m
        <5>1. i + 1 = m + 1 /\ r.size > 0
          BY <1>2, <1>9, <2>1, <3>4, <4>2
        <5>2. now[i + 1] = c
          BY <1>9, <5>1
        <5> QED BY <1>1, <3>2, <5>2
      <4> QED BY <4>1, <4>2
    <3> QED BY <3>1, <3>3, <3>4
  <2>2. CASE i \notin 1 .. m
    <3>1. i = m + 1 /\ r.size > 0 /\ now[i] = c
      BY <1>2, <1>9, <2>2
    <3>2. i + 1 \notin DOMAIN now
      BY <1>2, <1>9, <3>1
    <3>3. IsColumn(f, line, now[i])
      BY <1>1, <1>8, <3>1
    <3> QED BY <1>11, <3>1, <3>2, <3>3
  <2> QED BY <2>1, <2>2
<1>13. ASSUME NEW o \in line.from .. new.from - 1
       PROVE  \/ o \in D
              \/ \E i \in DOMAIN now : now[i].from <= o /\ o < now[i].to
  <2>1. CASE o < rest.from
    <3>1. o \in line.from .. rest.from - 1
      BY <1>4, <2>1
    <3>2. CASE o \in D
      BY <3>2
    <3>3. CASE \E i \in 1 .. m : visited[i].from <= o /\ o < visited[i].to
      <4>1. PICK i \in 1 .. m : visited[i].from <= o /\ o < visited[i].to
        BY <3>3
      <4>2. i \in DOMAIN now /\ now[i] = visited[i]
        BY <1>2, <1>9
      <4> QED BY <4>1, <4>2
    <3> QED BY <1>7, <3>1, <3>2, <3>3
  <2>2. CASE rest.from <= o /\ o < c.to
    <3>1. r.size > 0 /\ c.from <= o
      BY <1>1, <1>4, <2>2
    <3>2. m + 1 \in DOMAIN now /\ now[m + 1] = c
      BY <1>2, <1>9, <3>1
    <3> QED BY <2>2, <3>1, <3>2
  <2>3. CASE rest.from <= o /\ c.to <= o
    <3>1. o \in Nat /\ o < new.from
      BY <1>4
    <3>2. r.separator /\ o = c.to
      BY <1>1, <1>4, <2>3, <3>1
    <3> QED BY <1>1, <3>2
  <2>4. o \in Int
    OBVIOUS
  <2> QED BY <1>4, <2>1, <2>2, <2>3, <2>4
<1>14. LineSplit(f, line, new, now)
  BY <1>10, <1>11, <1>12, <1>13 DEF LineSplit, D
<1> QED
  BY <1>14 DEF now, new, c, r

\* The column and its separator are the pieces from the beginning of what
\* remains of the line to what remains after it.
LEMMA WrittenPieces ==
    ASSUME NEW f \in Contents, NEW str \in Text, str.from < str.to
    PROVE  LET r == columns(f, str)
           IN  Pieces(f, Written(f, r), str.from, r.rest.from)
<1> DEFINE r == columns(f, str)
           c == r.column
           o == c.to
           n == f.separators[o]
           separator == [from |-> o, to |-> o + 1]
           first == IF r.size > 0 THEN <<c>> ELSE << >>
           second == IF r.separator THEN [i \in 1 .. n |-> separator] ELSE << >>
<1>1. /\ c \in Text /\ r.size \in Nat /\ r.separator \in BOOLEAN
      /\ c.from = str.from /\ str.from <= o /\ o <= str.to
      /\ r.size > 0 <=> c.from < o
      /\ \A p \in DOMAIN f.separators : p < str.from \/ o <= p
      /\ r.separator => o \in DOMAIN f.separators /\ r.rest.from = o + 1
      /\ ~r.separator => o = str.to /\ r.rest.from = str.to
  BY ColumnsSplit
<1>2. /\ DOMAIN f.separators \subseteq Nat
      /\ r.separator => n \in Nat \ {0}
  BY <1>1, ContentsAssumption
<1>3. str.from \in Nat /\ str.to \in Nat /\ o \in Nat
  BY <1>1 DEF Text
<1>4. Written(f, r) = first \o second
  BY DEF Written
<1> HIDE DEF r, n
<1>5. Pieces(f, << >>, str.from, str.from) /\ Pieces(f, << >>, o, o)
  BY DEF Pieces
<1>6. Pieces(f, first, str.from, o) /\ first \in Seq(Text)
  <2>1. CASE r.size > 0
    <3>1. c.from < c.to /\ \A p \in DOMAIN f.separators : p < c.from \/ c.to <= p
      BY <1>1, <2>1
    <3> HIDE DEF c
    <3> QED BY <1>1, <2>1, <3>1, PiecesOne DEF c
  <2>2. CASE ~(r.size > 0)
    <3>1. str.from = o /\ first = << >>
      BY <1>1, <1>3, <2>2
    <3> QED BY <1>5, <3>1
  <2> QED BY <2>1, <2>2
<1>7. Pieces(f, second, o, r.rest.from) /\ second \in Seq(Text)
  <2>1. CASE r.separator
    <3> HIDE DEF c, o
    <3>1. Pieces(f, [i \in 1 .. n |-> separator], o, o + 1)
          /\ [i \in 1 .. n |-> separator] \in Seq(Text)
      BY <1>1, <1>2, <1>3, <2>1, PiecesRepeated
    <3> QED BY <1>1, <2>1, <3>1
  <2>2. CASE ~r.separator
    BY <1>1, <1>5, <2>2
  <2> QED BY <1>1, <2>1, <2>2
<1> HIDE DEF first, second, c, o
<1>8. Pieces(f, first \o second, str.from, r.rest.from)
  BY <1>6, <1>7, PiecesConcat
<1> QED
  BY <1>4, <1>8 DEF r

---------------------------------------------------------------------------
(* The loops that split lines. *)

\* A copy has no body; only a loop that can split its lines does so; and the
\* line it splits is one of the file f.
FrameOK(f, loop) ==
    /\ loop.form = "copy" => loop.at \in {"read", "column"}
    /\ loop.form \in {"lines", "filter", "assign"} => ~loop.split
    /\ loop.split /\ loop.form # "copy" /\ loop.at \in {"column", "body"} =>
          LineSplit(f, loop.buffer, loop.rest, loop.matched)

FramesOK(stack) == \A l \in DOMAIN stack : FrameOK(contents[stack[l].file], stack[l])

\* A copy that began with the file, and moved it alone: what it wrote is what
\* it took from the line; what remains of the line ends where the file is.
CopyOK(f, file, loop) ==
    /\ Pieces(f, loop.matched, 0, loop.rest.from)
    /\ InStep(f, file)
    /\ loop.rest.from <= loop.rest.to /\ loop.rest.to = file.pos
    /\ loop.at = "read" => loop.rest.from = file.pos

SplitInv ==
    /\ FramesOK(loops)
    /\ loops # << >> /\ Top.form = "copy" /\ Top.alone =>
          CopyOK(Content(Top.file), Object(Top.file), Top)

\* The loop on top moves on, or ends, or another one begins.
LEMMA FramesTop ==
    ASSUME NEW s \in Seq(Loop), s # << >>, FramesOK(s),
           NEW e, FrameOK(contents[e.file], e)
    PROVE  FramesOK(Append(Front(s), e)) /\ Last(Append(Front(s), e)) = e
<1> DEFINE S == Loop \cup {e}
           new == Append(Front(s), e)
<1>1. s \in Seq(S) /\ e \in S
  BY SeqDef
<1> HIDE DEF S
<1>2. /\ DOMAIN new = DOMAIN s /\ Last(new) = e /\ new[Len(s)] = e
      /\ \A i \in 1 .. Len(s) - 1 : new[i] = s[i]
  BY <1>1, Replaced
<1>3. DOMAIN s = 1 .. Len(s) /\ Len(s) \in Nat
  BY LenProperties
<1> HIDE DEF new
<1>4. ASSUME NEW l \in DOMAIN new PROVE FrameOK(contents[new[l].file], new[l])
  <2>1. CASE l = Len(s)
    BY <1>2, <2>1
  <2>2. CASE l # Len(s)
    <3>1. l \in 1 .. Len(s) - 1 /\ l \in DOMAIN s
      BY <1>2, <1>3, <2>2
    <3> QED BY <1>2, <3>1 DEF FramesOK
  <2> QED BY <2>1, <2>2
<1> QED
  BY <1>2, <1>4 DEF FramesOK, new

LEMMA FramesPop ==
    ASSUME NEW s \in Seq(Loop), s # << >>, FramesOK(s)
    PROVE  FramesOK(Front(s))
<1> DEFINE new == Front(s)
<1>1. /\ new \in Seq(Loop) /\ Len(new) = Len(s) - 1 /\ Len(s) \in Nat
      /\ \A i \in 1 .. Len(s) - 1 : new[i] = s[i]
  BY FrontOfSeq
<1> HIDE DEF new
<1>2. DOMAIN new = 1 .. Len(s) - 1 /\ DOMAIN s = 1 .. Len(s)
  BY <1>1, LenProperties
<1>3. \A l \in DOMAIN new : l \in DOMAIN s /\ new[l] = s[l]
  BY <1>1, <1>2
<1> QED
  BY <1>3 DEF FramesOK, new

LEMMA FramesDisturbed ==
    ASSUME NEW s \in Seq(Loop), FramesOK(s)
    PROVE  FramesOK(NoneAlone(s))
<1> DEFINE new == NoneAlone(s)
<1>1. DOMAIN new = DOMAIN s /\ \A l \in DOMAIN s : new[l] = [s[l] EXCEPT !.alone = FALSE]
  BY DEF NoneAlone
<1>2. \A l \in DOMAIN s : s[l] \in Loop
  BY ElementOfSeq, LenProperties
<1> HIDE DEF new
<1>3. ASSUME NEW l \in DOMAIN s PROVE FrameOK(contents[new[l].file], new[l])
  <2>1. /\ new[l].form = s[l].form /\ new[l].at = s[l].at /\ new[l].split = s[l].split
        /\ new[l].file = s[l].file /\ new[l].buffer = s[l].buffer
        /\ new[l].rest = s[l].rest /\ new[l].matched = s[l].matched
    BY <1>1, <1>2 DEF Loop
  <2>2. FrameOK(contents[s[l].file], s[l])
    BY DEF FramesOK
  <2> QED BY <2>1, <2>2 DEF FrameOK
<1> QED
  BY <1>1, <1>3 DEF FramesOK, new

LEMMA FramesPush ==
    ASSUME NEW D, NEW s, StackOK(s, D), FramesOK(s), NEW e, FrameOK(contents[e.file], e)
    PROVE  FramesOK(Append(NoneAlone(s), e)) /\ Last(Append(NoneAlone(s), e)) = e
<1> DEFINE below == NoneAlone(s)
           S == Loop \cup {e}
           new == Append(below, e)
<1>1. s \in Seq(Loop) /\ below \in Seq(Loop)
  BY StackDisturbed DEF StackOK
<1>2. FramesOK(below)
  BY <1>1, FramesDisturbed
<1> HIDE DEF below
<1>3. below \in Seq(S) /\ e \in S
  BY <1>1, SeqDef
<1> HIDE DEF S
<1> DEFINE n == Len(below)
<1>4. /\ new \in Seq(S) /\ Len(new) = n + 1 /\ new[n + 1] = e
      /\ \A i \in 1 .. n : new[i] = below[i]
  BY <1>3, AppendProperties
<1> HIDE DEF new
<1>5. DOMAIN new = 1 .. n + 1 /\ DOMAIN below = 1 .. n /\ n \in Nat
  BY <1>3, <1>4, LenProperties
<1>6. ASSUME NEW l \in DOMAIN new PROVE FrameOK(contents[new[l].file], new[l])
  <2>1. CASE l = n + 1
    BY <1>4, <2>1
  <2>2. CASE l # n + 1
    <3>1. l \in 1 .. n /\ l \in DOMAIN below
      BY <1>5, <2>2
    <3> QED BY <1>2, <1>4, <3>1 DEF FramesOK
  <2> QED BY <2>1, <2>2
<1> QED
  BY <1>4, <1>6 DEF FramesOK, Last, new, below

\* An assignment changes of the loop around it only what it does not split.
LEMMA FramesAssigned ==
    ASSUME NEW s \in Seq(Loop), FramesOK(s), NEW buffer, NEW size
    PROVE  FramesOK([s EXCEPT ![Len(s)] = Assigned(@, buffer, size)])
<1> DEFINE e == Assigned(s[Len(s)], buffer, size)
           new == [s EXCEPT ![Len(s)] = Assigned(@, buffer, size)]
<1>1. DOMAIN new = DOMAIN s /\ DOMAIN s = 1 .. Len(s) /\ Len(s) \in Nat
  BY LenProperties
<1>2. \A l \in DOMAIN s : new[l] = IF l = Len(s) THEN e ELSE s[l]
  BY <1>1
<1> HIDE DEF new
<1>3. ASSUME NEW l \in DOMAIN s PROVE FrameOK(contents[new[l].file], new[l])
  <2>1. s[l] \in Loop /\ FrameOK(contents[s[l].file], s[l])
    BY <1>1, ElementOfSeq DEF FramesOK
  <2>2. CASE l # Len(s)
    BY <1>2, <2>1, <2>2
  <2>3. CASE l = Len(s)
    <3> DEFINE loop == s[l]
               own == IF loop.split THEN loop.buffer ELSE buffer
               column == IF loop.split THEN buffer ELSE loop.column
    <3>1. new[l] = [loop EXCEPT !.buffer = own, !.column = column, !.size = size]
      BY <1>2, <2>3 DEF Assigned
    <3>2. loop.split => own = loop.buffer
      OBVIOUS
    <3> HIDE DEF loop, own, column
    <3>3. /\ new[l].form = loop.form /\ new[l].at = loop.at
          /\ new[l].split = loop.split /\ new[l].file = loop.file
          /\ new[l].buffer = own /\ new[l].rest = loop.rest
          /\ new[l].matched = loop.matched
      BY <2>1, <3>1 DEF Loop, loop
    <3> QED BY <2>1, <3>2, <3>3 DEF FrameOK, loop
  <2> QED BY <2>2, <2>3
<1> QED
  BY <1>1, <1>3 DEF FramesOK, new


---------------------------------------------------------------------------
(* What a step must satisfy for SplitInv to hold after it. *)

LEMMA SplitMoves ==
    ASSUME Inv, SplitInv, loops # << >>, UNCHANGED contents, NEW e, SetTop(e),
           FrameOK(contents[e.file], e),
           e.form = "copy" /\ e.alone =>
              CopyOK(contents'[opened'[e.file].file], opened'[e.file].object, e)
    PROVE  SplitInv'
<1>1. loops \in Seq(Loop) /\ FramesOK(loops)
  BY DEF Inv, StackOK, SplitInv
<1>2. FramesOK(loops') /\ Last(loops') = e
  BY <1>1, FramesTop DEF SetTop
<1>3. FramesOK(loops)'
  BY <1>2 DEF FramesOK
<1> QED
  BY <1>2, <1>3 DEF SplitInv, Top, Content, Object

LEMMA SplitEnds ==
    ASSUME Inv, SplitInv, loops # << >>, UNCHANGED contents, loops' = Front(loops)
    PROVE  SplitInv'
<1>1. loops \in Seq(Loop) /\ FramesOK(loops)
  BY DEF Inv, StackOK, SplitInv
<1>2. FramesOK(loops')
  BY <1>1, FramesPop
<1>3. FramesOK(loops)'
  BY <1>2 DEF FramesOK
<1>4. loops' # << >> => ~Last(loops').alone
  BY StackPop DEF Inv
<1> QED
  BY <1>3, <1>4 DEF SplitInv, Top

LEMMA SplitBegins ==
    ASSUME Inv, SplitInv, UNCHANGED contents, NEW e, loops' = Append(Disturbed, e),
           FrameOK(contents[e.file], e),
           e.form = "copy" /\ e.alone =>
              CopyOK(contents'[opened'[e.file].file], opened'[e.file].object, e)
    PROVE  SplitInv'
<1>1. StackOK(loops, DOMAIN opened) /\ FramesOK(loops)
  BY DEF Inv, SplitInv
<1>2. Disturbed = NoneAlone(loops)
  BY Zenon DEF Disturbed, NoneAlone
<1>3. FramesOK(loops') /\ Last(loops') = e
  BY <1>1, <1>2, FramesPush
<1>4. FramesOK(loops)'
  BY <1>3 DEF FramesOK
<1> QED
  BY <1>3, <1>4 DEF SplitInv, Top, Content, Object

\* The loop on top.
LEMMA SplitTop ==
    ASSUME Inv, SplitInv, loops # << >>
    PROVE  /\ Top \in Loop /\ FrameOK(contents[Top.file], Top)
           /\ Top.at # "next" => Content(Top.file) = contents[Top.file]
<1>1. Top \in Loop /\ Len(loops) \in DOMAIN loops /\ Top = loops[Len(loops)]
  BY TopOK
<1>2. Top.at # "next" => Top.file \in DOMAIN opened
  BY Reading
<1>3. Top.at # "next" => opened[Top.file].file = Top.file
  BY <1>2 DEF Inv, FilesOK
<1> QED
  BY <1>1, <1>3 DEF SplitInv, FramesOK, Content

\* Another loop than a copy, outside of a line.
LEMMA BetweenLines ==
    ASSUME Inv, SplitInv, loops # << >>, UNCHANGED contents, NEW e, SetTop(e),
           Top.form # "copy", e.form = Top.form, e.split = Top.split,
           e.at \in {"next", "read", "skip"} \/ ~Top.split
    PROVE  SplitInv'
<1>1. FrameOK(contents[e.file], e)
  BY SplitTop DEF FrameOK
<1> QED
  BY <1>1, SplitMoves

---------------------------------------------------------------------------
(* Every action keeps SplitInv. *)

LEMMA SplitBeginLoop ==
    ASSUME Inv, SplitInv, BeginLoop
    PROVE  SplitInv'
<1>1. PICK form \in Forms, split \in BOOLEAN,
           first \in Numbers \cup {0}, last \in Numbers \cup {0} :
         /\ Begin(form, split, first, last)
         /\ form # "copy" /\ (form \in {"lines", "filter", "assign"} => ~split)
  BY DEF BeginLoop, Forms
<1> DEFINE e == Started(form, split, "next", 0, 0, first, last, FALSE)
<1>2. loops' = Append(Disturbed, e) /\ UNCHANGED contents
  BY <1>1 DEF Begin, KeepFiles
<1>3. e.form = form /\ e.split = split /\ e.at = "next"
  BY DEF Started
<1> HIDE DEF e
<1>4. FrameOK(contents[e.file], e)
  BY <1>1, <1>3 DEF FrameOK
<1> QED
  BY <1>1, <1>2, <1>3, <1>4, SplitBegins

LEMMA SplitNextFile ==
    ASSUME Inv, SplitInv, get_next_file
    PROVE  SplitInv'
<1>1. /\ loops # << >> /\ Top.at = "next" /\ UNCHANGED contents
      /\ \/ \E k, objects : SetTop(Entering(k, objects))
         \/ UNCHANGED loops
  BY DEF get_next_file, EnterFile, EndProcess, KeepProgram
<1>2. /\ Top \in Loop /\ Top.form # "copy"
      /\ Top.form = "lines" => ~Top.split
  BY <1>1, SplitTop DEF FrameOK
<1>3. CASE \E k, objects : SetTop(Entering(k, objects))
  <2>1. PICK k, objects : SetTop(Entering(k, objects))
    BY <1>3
  <2> DEFINE a == objects[k].object.pos = 0
             at == IF Top.form = "lines" THEN "body" ELSE "read"
             e == [Top EXCEPT !.at = at, !.i = Top.i + 1, !.file = k,
                              !.buffer = EmptyText, !.size = BUFFER_SIZE,
                              !.column = EmptyText, !.rest = EmptyText,
                              !.index = Top.first - 1,
                              !.matched = << >>, !.alone = a]
  <2>2. Entering(k, objects) = e
    BY DEF Entering
  <2>3. at = "read" \/ ~Top.split
    BY <1>2
  <2> HIDE DEF at, a
  <2>4. e.form = Top.form /\ e.split = Top.split /\ e.at = at
    BY <1>2 DEF Loop
  <2> HIDE DEF e
  <2> QED BY <1>1, <1>2, <2>1, <2>2, <2>3, <2>4, BetweenLines
<1>4. CASE UNCHANGED loops
  <2>1. FramesOK(loops)'
    BY <1>1, <1>4 DEF SplitInv, FramesOK
  <2> QED BY <1>2, <1>4, <2>1 DEF SplitInv, Top
<1> QED
  BY <1>1, <1>3, <1>4

LEMMA SplitByIndex ==
    ASSUME Inv, SplitInv, CallByIndex \/ SkipLine \/ EndFilter
    PROVE  SplitInv'
<1> DEFINE a == InStep(Content(Top.file), Object(Top.file))
                /\ Object(Top.file).n_line <= Top.first
           r == lines(Content(Top.file), Object(Top.file), Top.buffer)
           entered == [Top EXCEPT !.at = "skip", !.alone = a]
           skipped == [Top EXCEPT !.buffer = r.buffer, !.size = r.size]
           ended == [Top EXCEPT !.at = "next"]
<1>1. /\ loops # << >> /\ Top.form \in {"byIndex", "filter"} /\ UNCHANGED contents
      /\ \/ SetTop(entered) \/ SetTop(ended)
         \/ Top.at = "skip" /\ SetTop(skipped)
  BY DEF CallByIndex, SkipLine, EndFilter, In, KeepProgram
<1>2. Top \in Loop
  BY <1>1, TopOK
<1> HIDE DEF a, r
<1>3. /\ entered.form = Top.form /\ entered.split = Top.split /\ entered.at = "skip"
      /\ skipped.form = Top.form /\ skipped.split = Top.split /\ skipped.at = Top.at
      /\ ended.form = Top.form /\ ended.split = Top.split /\ ended.at = "next"
  BY <1>2 DEF Loop
<1> HIDE DEF entered, skipped, ended
<1> QED
  BY <1>1, <1>3, BetweenLines

\* The loop has read a line.
LEMMA SplitWithLine ==
    ASSUME Inv, SplitInv, loops # << >>, Top.at # "next", Top.form # "copy",
           UNCHANGED contents, NEW r, r.buffer \in Text, r.size \in Nat,
           SetTop(WithLine(r))
    PROVE  SplitInv'
<1> DEFINE at == IF Top.split THEN "column" ELSE "body"
           rest == IF Top.split THEN r.buffer ELSE EmptyText
           e == [Top EXCEPT !.at = at, !.buffer = r.buffer, !.size = r.size,
                            !.rest = rest, !.matched = << >>]
<1>1. e = WithLine(r) /\ (Top.split => rest = r.buffer)
  BY DEF WithLine
<1>2. Top \in Loop /\ FrameOK(contents[Top.file], Top)
  BY SplitTop
<1> HIDE DEF at, rest
<1>3. /\ e.at = at /\ e.form = Top.form /\ e.split = Top.split /\ e.file = Top.file
      /\ e.buffer = r.buffer /\ e.rest = rest /\ e.matched = << >>
  BY <1>2 DEF Loop
<1> HIDE DEF e
<1>4. Top.split => LineSplit(contents[e.file], e.buffer, e.rest, e.matched)
  BY <1>1, <1>3, SplitStarts
<1>5. FrameOK(contents[e.file], e)
  BY <1>2, <1>3, <1>4 DEF FrameOK
<1> QED
  BY <1>1, <1>3, <1>5, SplitMoves

LEMMA SplitReads ==
    ASSUME Inv, SplitInv, ReadLineN \/ ReadRange \/ ReadColumns
    PROVE  SplitInv'
<1>1. PICK buffer \in {Top.buffer, EmptyText} :
        LET r == lines(Content(Top.file), Object(Top.file), buffer)
        IN  /\ loops # << >> /\ Top.at \in {"read", "skip"} /\ Top.form # "copy"
            /\ UNCHANGED <<contents, is_directory, next_open_file>>
            /\ \/ UNCHANGED loops
               \/ Called(r) /\ SetTop(WithLine(r))
               \/ SetTop([Top EXCEPT !.at = "next"])
               \/ SetTop([Top EXCEPT !.at = "next", !.buffer = r.buffer,
                                     !.size = r.size])
  BY DEF ReadLineN, ReadRange, ReadColumns, In, KeepProgram
<1> DEFINE r == lines(Content(Top.file), Object(Top.file), buffer)
           done == [Top EXCEPT !.at = "next"]
           last == [Top EXCEPT !.at = "next", !.buffer = r.buffer, !.size = r.size]
<1>2. Top \in Loop /\ Top.file \in DOMAIN opened
  BY <1>1, Reading
<1>3. buffer \in Text
  BY <1>1, <1>2 DEF Loop, EmptyText, Text
<1>4. CASE UNCHANGED loops
  <2>1. FramesOK(loops)'
    BY <1>1, <1>4 DEF SplitInv, FramesOK
  <2> QED BY <1>1, <1>4, <2>1 DEF SplitInv, Top
<1>5. CASE Called(r) /\ SetTop(WithLine(r))
  <2>1. r.buffer \in Text /\ r.size \in Nat
    BY <1>1, <1>2, <1>3, <1>5, CalledLines
  <2> HIDE DEF r
  <2> QED BY <1>1, <1>5, <2>1, SplitWithLine
<1>6. CASE SetTop(done) \/ SetTop(last)
  <2> HIDE DEF r
  <2>1. /\ done.form = Top.form /\ done.split = Top.split /\ done.at = "next"
        /\ last.form = Top.form /\ last.split = Top.split /\ last.at = "next"
    BY <1>2 DEF Loop
  <2> HIDE DEF done, last
  <2> QED BY <1>1, <1>6, <2>1, BetweenLines
<1> QED
  BY <1>1, <1>4, <1>5, <1>6

LEMMA SplitReadFilter ==
    ASSUME Inv, SplitInv, ReadFilter
    PROVE  SplitInv'
<1> DEFINE r == lines(Content(Top.file), Object(Top.file), Top.buffer)
           match == is_in_string(Content(Top.file), r.buffer)
           kept == IF match THEN Append(Top.matched, r.buffer) ELSE Top.matched
           at == IF match /\ Top.form = "filter" THEN "body" ELSE "read"
           e == [Top EXCEPT !.at = at, !.buffer = r.buffer, !.size = r.size,
                            !.matched = kept]
<1>1. /\ loops # << >> /\ Top.form \in {"filter", "assign"} /\ UNCHANGED contents
      /\ SetTop(e)
  BY DEF ReadFilter, In, KeepProgram
<1>2. Top \in Loop /\ ~Top.split
  BY <1>1, SplitTop DEF FrameOK
<1> HIDE DEF kept, at, r
<1>3. e.form = Top.form /\ e.split = Top.split
  BY <1>2 DEF Loop
<1> HIDE DEF e
<1> QED
  BY <1>1, <1>2, <1>3, BetweenLines

LEMMA SplitNextColumn ==
    ASSUME Inv, SplitInv, NextColumn
    PROVE  SplitInv'
<1> DEFINE f == Content(Top.file)
           r == columns(f, Top.rest)
           at == IF r.size > 0 THEN "body" ELSE "column"
           visited == IF r.size > 0 THEN Append(Top.matched, r.column) ELSE Top.matched
           e == [Top EXCEPT !.at = at, !.column = r.column, !.rest = r.rest,
                            !.matched = visited]
<1>1. /\ loops # << >> /\ Top.at = "column" /\ Top.form # "copy"
      /\ Top.rest.from < Top.rest.to /\ UNCHANGED contents /\ SetTop(e)
  BY DEF NextColumn, InColumns, In, Remaining, KeepProgram
<1>2. /\ Top \in Loop /\ FrameOK(f, Top) /\ f = contents[Top.file] /\ f \in Contents
  BY <1>1, SplitTop, Reading
<1>3. /\ Top.buffer \in Text /\ Top.rest \in Text /\ Top.matched \in Seq(Text)
  BY <1>2 DEF Loop
<1>4. Top.split => LineSplit(f, Top.buffer, Top.rest, Top.matched)
  BY <1>1, <1>2 DEF FrameOK
<1> HIDE DEF f
<1>5. Top.split => LineSplit(f, Top.buffer, r.rest, visited)
  BY <1>1, <1>2, <1>3, <1>4, SplitGoesOn
<1> HIDE DEF r, at, visited
<1>6. /\ e.at = at /\ e.form = Top.form /\ e.split = Top.split /\ e.file = Top.file
      /\ e.buffer = Top.buffer /\ e.rest = r.rest /\ e.matched = visited
  BY <1>2 DEF Loop
<1> HIDE DEF e
<1>7. FrameOK(f, e)
  BY <1>1, <1>2, <1>5, <1>6 DEF FrameOK
<1> QED
  BY <1>1, <1>2, <1>6, <1>7, SplitMoves

\* The loop goes to its next line or file, or to the next column of its line.
LEMMA SplitEndColumns ==
    ASSUME Inv, SplitInv, EndColumns \/ EndBody
    PROVE  SplitInv'
<1> DEFINE at == IF Top.form \in {"lines", "byIndex"} THEN "next" ELSE "read"
           index == IF Top.form = "range" THEN Top.index + 1 ELSE Top.index
           next == [Top EXCEPT !.at = at, !.index = index]
           column == [Top EXCEPT !.at = "column"]
<1>1. /\ loops # << >> /\ UNCHANGED contents
      /\ \/ Top.at = "column" /\ Top.form # "copy" /\ SetTop(Continued)
         \/ Top.at = "body" /\ SetTop(Continued)
         \/ Top.at = "body" /\ SetTop(column)
  BY DEF EndColumns, EndBody, InColumns, In, KeepProgram
<1>2. Top \in Loop /\ FrameOK(contents[Top.file], Top) /\ Top.form # "copy"
  BY <1>1, SplitTop DEF FrameOK
<1>3. Continued = next /\ at \in {"next", "read"}
  BY DEF Continued
<1> HIDE DEF at, index
<1>4. next.form = Top.form /\ next.split = Top.split /\ next.at = at
  BY <1>2 DEF Loop
<1> HIDE DEF next
<1>5. CASE SetTop(Continued)
  BY <1>1, <1>2, <1>3, <1>4, <1>5, BetweenLines
<1>6. CASE Top.at = "body" /\ SetTop(column)
  <2>1. /\ column.form = Top.form /\ column.split = Top.split
        /\ column.file = Top.file /\ column.buffer = Top.buffer
        /\ column.rest = Top.rest /\ column.matched = Top.matched
    BY <1>2 DEF Loop
  <2> HIDE DEF column
  <2>2. FrameOK(contents[column.file], column)
    BY <1>2, <1>6, <2>1 DEF FrameOK
  <2> QED BY <1>1, <1>2, <1>6, <2>1, <2>2, SplitMoves
<1> QED
  BY <1>1, <1>5, <1>6

LEMMA SplitAssign ==
    ASSUME Inv, SplitInv, AssignFilter
    PROVE  SplitInv'
<1> DEFINE a == Object(Top.file).pos = 0
           buffer == IF Top.split THEN Top.column ELSE Top.buffer
           e == [Top EXCEPT !.form = "assign", !.split = FALSE, !.at = "read",
                            !.buffer = buffer, !.rest = EmptyText,
                            !.matched = << >>, !.alone = a]
<1>1. loops # << >> /\ UNCHANGED contents /\ loops' = Append(Disturbed, e)
  BY DEF AssignFilter
<1>2. Top \in Loop
  BY <1>1, TopOK
<1> HIDE DEF a, buffer
<1>3. e.form = "assign" /\ ~e.split
  BY <1>2 DEF Loop
<1> HIDE DEF e
<1>4. FrameOK(contents[e.file], e)
  BY <1>3 DEF FrameOK
<1> QED
  BY <1>1, <1>3, <1>4, SplitBegins

LEMMA SplitEndAssign ==
    ASSUME Inv, SplitInv, EndAssign
    PROVE  SplitInv'
<1> DEFINE outer == Front(loops)
<1>1. /\ loops # << >> /\ Top.at = "read" /\ UNCHANGED contents
      /\ loops' = [outer EXCEPT ![Len(outer)] = Assigned(@, Top.buffer, Top.size)]
  BY DEF EndAssign, In, KeepProgram
<1>2. loops \in Seq(Loop) /\ FramesOK(loops) /\ StackOK(loops, DOMAIN opened)
  BY DEF Inv, StackOK, SplitInv
<1>3. /\ FramesOK(outer) /\ StackOK(outer, DOMAIN opened)
      /\ outer # << >> => Last(outer).at = "body" /\ ~Last(outer).alone
  BY <1>1, <1>2, FramesPop, StackPop
<1>4. outer \in Seq(Loop)
  BY <1>3 DEF StackOK
<1>5. Top.buffer \in Text /\ Top.size \in Nat
  BY <1>1, TopOK DEF Loop
<1> HIDE DEF outer
<1>6. FramesOK(loops')
  BY <1>1, <1>3, <1>4, FramesAssigned
<1>7. /\ StackOK(loops', DOMAIN opened)
      /\ loops' # << >> => Last(loops').alone = Last(outer).alone
  BY <1>1, <1>3, <1>5, StackSetLast
<1>8. loops' # << >> => outer # << >>
  <2> SUFFICES ASSUME outer = << >> PROVE loops' = << >>
    OBVIOUS
  <2>1. DOMAIN loops' = DOMAIN outer /\ DOMAIN outer = {}
    BY <1>1
  <2>2. loops' \in Seq(Loop)
    BY <1>7 DEF StackOK
  <2> QED BY <2>1, <2>2, EmptySeq, LenProperties
<1>9. FramesOK(loops)'
  BY <1>1, <1>6 DEF FramesOK
<1> QED
  BY <1>3, <1>7, <1>8, <1>9 DEF SplitInv, Top

LEMMA SplitCopyFile ==
    ASSUME Inv, SplitInv, CopyFile
    PROVE  SplitInv'
<1>1. loops' = NoneAlone(loops) /\ UNCHANGED contents
  BY Zenon DEF CopyFile, Disturbed, NoneAlone
<1>2. loops \in Seq(Loop) /\ FramesOK(loops) /\ StackOK(loops, DOMAIN opened)
  BY DEF Inv, StackOK, SplitInv
<1>3. /\ FramesOK(loops') /\ StackOK(loops', DOMAIN opened)
      /\ \A l \in DOMAIN loops' : ~loops'[l].alone
  BY <1>1, <1>2, FramesDisturbed, StackDisturbed
<1>4. FramesOK(loops)'
  BY <1>1, <1>3 DEF FramesOK
<1>5. loops' # << >> => ~Last(loops').alone
  <2>1. loops' \in Seq(Loop)
    BY <1>3 DEF StackOK
  <2>2. loops' # << >> => Len(loops') \in DOMAIN loops'
    BY <2>1, EmptySeq, LenProperties
  <2> QED BY <1>3, <2>2 DEF Last
<1> QED
  BY <1>4, <1>5 DEF SplitInv, Top

LEMMA SplitCopyTranslating ==
    ASSUME Inv, SplitInv, CopyTranslating
    PROVE  SplitInv'
<1> DEFINE a == InStep(Content(1), Object(1)) /\ Object(1).pos = 0
           e == Started("copy", TRUE, "read", 1, BUFFER_SIZE, 0, 0, a)
<1>1. UNCHANGED <<contents, opened>> /\ loops' = Append(Disturbed, e)
  BY DEF CopyTranslating, KeepFiles
<1>2. /\ e.form = "copy" /\ e.at = "read" /\ e.file = 1 /\ e.rest = EmptyText
      /\ e.matched = << >> /\ (e.alone <=> a)
  <2>1. a \in BOOLEAN
    BY DEF InStep
  <2> HIDE DEF a
  <2> QED BY <2>1 DEF Started
<1> HIDE DEF e
<1>3. FrameOK(contents[e.file], e)
  BY <1>2 DEF FrameOK
<1>4. e.alone => CopyOK(Content(1), Object(1), e)
  <2>1. EmptyText.from = 0 /\ EmptyText.to = 0
    BY DEF EmptyText
  <2>2. Pieces(Content(1), << >>, 0, 0)
    BY DEF Pieces
  <2> HIDE DEF EmptyText
  <2> QED BY <1>2, <2>1, <2>2 DEF CopyOK
<1> QED
  BY <1>1, <1>2, <1>3, <1>4, SplitBegins DEF Content, Object

LEMMA SplitReadCopy ==
    ASSUME Inv, SplitInv, ReadCopy
    PROVE  SplitInv'
<1> DEFINE f == Content(Top.file)
           file == Object(Top.file)
           r == lines(f, file, Top.buffer)
           e == [Top EXCEPT !.at = "column", !.buffer = r.buffer, !.rest = r.buffer]
<1>1. /\ loops # << >> /\ Top.at = "read" /\ Top.form = "copy"
      /\ UNCHANGED <<contents, is_directory, next_open_file>> /\ Called(r)
      /\ \/ r.size > 0 /\ SetTop(e)
         \/ loops' = Front(loops)
  BY DEF ReadCopy, In, KeepProgram, SetTop
<1>2. /\ Top \in Loop /\ Top.file \in DOMAIN opened /\ f \in Contents
      /\ InBounds(f, file) /\ FrameOK(f, Top)
      /\ Top.alone => CopyOK(f, file, Top)
  BY <1>1, Reading, SplitTop DEF SplitInv
<1>3. Top.buffer \in Text
  BY <1>2 DEF Loop
<1>4. /\ opened'[Top.file].object = r.file /\ contents'[opened'[Top.file].file] = f
      /\ r.buffer \in Text /\ r.size \in Nat
  BY <1>1, <1>2, <1>3, CalledLines
<1>5. InStep(f, file) /\ r.size > 0 =>
         /\ InStep(f, r.file) /\ r.buffer.from = file.pos
         /\ file.pos < r.file.pos /\ r.buffer.to = r.file.pos
  <2> HIDE DEF f, file
  <2>1. InStep(f, file) => (r.size # 0 => /\ InStep(f, r.file) /\ r.buffer.from = file.pos
                            /\ file.pos < r.file.pos /\ r.buffer.to = r.file.pos)
    BY <1>2, <1>3, LinesInStep
  <2> HIDE DEF r
  <2> QED BY <1>4, <2>1
<1> HIDE DEF r, f, file
<1>6. CASE r.size > 0 /\ SetTop(e)
  <2>1. /\ e.form = "copy" /\ e.at = "column" /\ e.file = Top.file
        /\ e.rest = r.buffer /\ e.matched = Top.matched /\ e.alone = Top.alone
    BY <1>1, <1>2 DEF Loop
  <2> HIDE DEF e
  <2>2. e.alone => CopyOK(f, r.file, e)
    <3>1. file.pos \in Nat
      BY <1>2 DEF InBounds, TexlerFile
    <3>2. r.buffer.from \in Nat /\ r.buffer.to \in Nat
      BY <1>4 DEF Text
    <3> SUFFICES ASSUME e.alone PROVE CopyOK(f, r.file, e)
      OBVIOUS
    <3>3. Pieces(f, Top.matched, 0, file.pos) /\ InStep(f, file)
      BY <1>1, <1>2, <2>1 DEF CopyOK
    <3>4. /\ InStep(f, r.file) /\ r.buffer.from = file.pos
          /\ file.pos < r.file.pos /\ r.buffer.to = r.file.pos
      BY <1>5, <1>6, <3>3
    <3>5. r.buffer.from <= r.buffer.to
      BY <3>1, <3>2, <3>4
    <3> QED BY <2>1, <3>3, <3>4, <3>5 DEF CopyOK
  <2>3. FrameOK(contents[e.file], e)
    BY <2>1 DEF FrameOK
  <2> QED BY <1>1, <1>4, <1>6, <2>1, <2>2, <2>3, SplitMoves
<1>7. CASE loops' = Front(loops)
  BY <1>1, <1>7, SplitEnds
<1> QED
  BY <1>1, <1>6, <1>7

LEMMA SplitCopyColumn ==
    ASSUME Inv, SplitInv, CopyColumn
    PROVE  SplitInv'
<1> DEFINE f == Content(Top.file)
           file == Object(Top.file)
           r == columns(f, Top.rest)
           written == Top.matched \o Written(f, r)
           more == [Top EXCEPT !.rest = r.rest, !.matched = written]
           done == [Top EXCEPT !.at = "read"]
<1>1. /\ loops # << >> /\ Top.at = "column" /\ Top.form = "copy"
      /\ UNCHANGED <<contents, opened>>
      /\ \/ Top.rest.from < Top.rest.to /\ SetTop(more)
         \/ ~(Top.rest.from < Top.rest.to) /\ SetTop(done)
  BY DEF CopyColumn, In, Remaining, KeepProgram, KeepFiles
<1>2. /\ Top \in Loop /\ Top.file \in DOMAIN opened /\ f \in Contents
      /\ InBounds(f, file) /\ (Top.alone => CopyOK(f, file, Top))
  BY <1>1, Reading DEF SplitInv
<1>3. Top.rest \in Text /\ Top.matched \in Seq(Text)
  BY <1>2 DEF Loop
<1>4. Top.rest.from \in Nat /\ Top.rest.to \in Nat /\ file.pos \in Nat
  BY <1>2, <1>3 DEF Text, InBounds, TexlerFile
<1>5. contents'[opened'[Top.file].file] = f /\ opened'[Top.file].object = file
  BY <1>1 DEF Content, Object
<1> HIDE DEF f, file
<1>6. CASE Top.rest.from < Top.rest.to /\ SetTop(more)
  <2>1. /\ Pieces(f, Written(f, r), Top.rest.from, r.rest.from)
        /\ Written(f, r) \in Seq(Text)
    BY <1>2, <1>3, <1>6, WrittenPieces, WrittenOK
  <2>2. /\ r.rest.to = Top.rest.to /\ r.column \in Text /\ r.separator \in BOOLEAN
        /\ r.separator => r.column.to < Top.rest.to /\ r.rest.from = r.column.to + 1
        /\ ~r.separator => r.rest.from = Top.rest.to
    BY <1>2, <1>3, <1>6, ColumnsSplit
  <2> HIDE DEF r
  <2>3. r.rest.from <= r.rest.to
    <3>1. r.column.to \in Nat
      BY <2>2 DEF Text
    <3> QED BY <1>4, <2>2, <3>1
  <2>4. Pieces(f, Top.matched, 0, Top.rest.from) => Pieces(f, written, 0, r.rest.from)
    BY <1>3, <2>1, PiecesConcat
  <2> HIDE DEF written
  <2>5. /\ more.form = "copy" /\ more.at = "column" /\ more.file = Top.file
        /\ more.rest = r.rest /\ more.matched = written /\ more.alone = Top.alone
    BY <1>1, <1>2 DEF Loop
  <2> HIDE DEF more
  <2>6. more.alone => CopyOK(f, file, more)
    BY <1>2, <2>2, <2>3, <2>4, <2>5 DEF CopyOK
  <2>7. FrameOK(contents[more.file], more)
    BY <2>5 DEF FrameOK
  <2> QED BY <1>1, <1>5, <1>6, <2>5, <2>6, <2>7, SplitMoves
<1>7. CASE ~(Top.rest.from < Top.rest.to) /\ SetTop(done)
  <2>1. /\ done.form = "copy" /\ done.at = "read" /\ done.file = Top.file
        /\ done.rest = Top.rest /\ done.matched = Top.matched
        /\ done.alone = Top.alone
    BY <1>1, <1>2 DEF Loop
  <2> HIDE DEF done
  <2>2. done.alone => CopyOK(f, file, done)
    <3> SUFFICES ASSUME done.alone PROVE CopyOK(f, file, done)
      OBVIOUS
    <3>1. CopyOK(f, file, Top)
      BY <1>2, <2>1
    <3>2. Top.rest.from = file.pos
      BY <1>4, <1>7, <3>1 DEF CopyOK
    <3> QED BY <2>1, <3>1, <3>2 DEF CopyOK
  <2>3. FrameOK(contents[done.file], done)
    BY <2>1 DEF FrameOK
  <2> QED BY <1>1, <1>5, <1>7, <2>1, <2>2, <2>3, SplitMoves
<1> QED
  BY <1>1, <1>6, <1>7

---------------------------------------------------------------------------
(* The theorems. *)

LEMMA SplitNext ==
    ASSUME Inv, SplitInv, [Next]_vars
    PROVE  SplitInv'
<1>1. CASE EndLoop
  BY <1>1, SplitEnds DEF EndLoop, KeepProgram
<1>2. CASE Finish \/ UNCHANGED vars
  <2>1. UNCHANGED <<contents, opened, loops>>
    BY <1>2 DEF Finish, EndProcess, KeepProgram, vars
  <2> QED BY <2>1 DEF SplitInv, FramesOK, Top, Content, Object
<1> QED
  BY <1>1, <1>2, SplitBeginLoop, SplitNextFile, SplitByIndex, SplitReads,
     SplitReadFilter, SplitNextColumn, SplitEndColumns, SplitAssign,
     SplitEndAssign, SplitCopyFile, SplitCopyTranslating, SplitReadCopy,
     SplitCopyColumn DEF Next

LEMMA SplitInvariance == Spec => [](Inv /\ SplitInv)
<1>1. Init => Inv /\ SplitInv
  <2>1. Init => loops = << >>
    BY DEF Init
  <2>2. DOMAIN << >> = {}
    OBVIOUS
  <2> QED BY <2>1, <2>2, InitOK DEF SplitInv, FramesOK
<1>2. Inv /\ SplitInv /\ [Next]_vars => (Inv /\ SplitInv)'
  BY NextOK, SplitNext
<1> QED
  BY <1>1, <1>2, PTL DEF Spec

\* The body of a loop over the columns of a line runs for every column, in
\* their order and once, whatever the body does to the file.
THEOREM EveryColumn == Spec => []ColumnsAreVisited
<1>1. ASSUME Inv, SplitInv PROVE ColumnsAreVisited
  <2> SUFFICES ASSUME loops # << >>, Top.split, Top.form # "copy",
                      Top.at \in {"column", "body"}
               PROVE  LineSplit(Content(Top.file), Top.buffer, Top.rest, Top.matched)
    BY DEF ColumnsAreVisited, LineSplit
  <2> QED BY <1>1, SplitTop DEF FrameOK
<1>2. Inv /\ SplitInv => ColumnsAreVisited
  BY <1>1
<1> QED
  BY <1>2, SplitInvariance, PTL

\* A copy between different separators writes every character that it reads,
\* once and in order, with every separator translated.
THEOREM CopyComplete == Spec => []CopyLosesNothing
<1>1. Inv /\ SplitInv => CopyLosesNothing
  BY DEF SplitInv, CopyOK, CopyLosesNothing
<1> QED
  BY <1>1, SplitInvariance, PTL

---------------------------------------------------------------------------
(* What a filter keeps. *)

Line(f, p) == [from |-> p, to |-> NextEnd(f, p)]

\* The lines with the word that end at p or before.
Matches(f, p) ==
    {Line(f, s) : s \in {t \in f.ends \cup {0} : t < p /\ is_in_string(f, Line(f, t))}}

\* What FilterKeepsTheMatches says of the file up to p. The size is 0 after the
\* read at the end of the file, which may keep the last line again.
KeptUpTo(f, p, kept, size) ==
    /\ {kept[i] : i \in DOMAIN kept} = Matches(f, p)
    /\ \A i, j \in DOMAIN kept : i < j =>
          \/ kept[i].to <= kept[j].from
          \/ size = 0 /\ j = i + 1 /\ j = Len(kept) /\ kept[j].to = Size(f)

\* A filter that is alone with the file: it is in step with it, and tests what
\* it has read last.
Kept(f, file, loop) ==
    /\ file.stream = file.pos /\ file.pos \in f.ends \cup {0}
    /\ KeptUpTo(f, file.pos, loop.matched, loop.size)
    /\ loop.at = "next" => loop.size = 0
    /\ loop.size = 0 => file.pos = Size(f)
    /\ loop.buffer.from < loop.buffer.to => loop.buffer.to = file.pos
    /\ is_in_string(f, loop.buffer) =>
          loop.matched # << >> /\ Last(loop.matched) = loop.buffer

LEMMA NothingKept ==
    ASSUME NEW f \in Contents, NEW size
    PROVE  KeptUpTo(f, 0, << >>, size)
<1>1. \A t \in f.ends \cup {0} : ~(t < 0)
  BY SizeIsLastEnd
<1>2. Matches(f, 0) = {}
  BY <1>1 DEF Matches
<1>3. DOMAIN << >> = {}
  OBVIOUS
<1> QED
  BY <1>2, <1>3 DEF KeptUpTo

\* The lines up to the end of a line are those before it and the line itself.
LEMMA MatchesNext ==
    ASSUME NEW f \in Contents, NEW p \in f.ends \cup {0}, p < Size(f)
    PROVE  /\ Matches(f, NextEnd(f, p)) =
                 Matches(f, p) \cup IF is_in_string(f, Line(f, p)) THEN {Line(f, p)} ELSE {}
           /\ \A line \in Matches(f, p) : line.to <= p
<1> DEFINE n == NextEnd(f, p)
           S == f.ends \cup {0}
           M(t) == is_in_string(f, Line(f, t))
<1>1. /\ p \in Nat /\ Size(f) \in Nat
      /\ \A t \in S : t \in Nat /\ (t \in f.ends \/ t = 0)
  BY SizeIsLastEnd
<1>2. n \in Nat /\ p < n /\ \A e \in f.ends : e > p => n <= e
  BY <1>1, NextEndIsNext
<1> HIDE DEF n
<1>3. \A t \in S : t < n <=> t < p \/ t = p
  BY <1>1, <1>2
<1>4. {t \in S : t < n /\ M(t)} =
         {t \in S : t < p /\ M(t)} \cup IF M(p) THEN {p} ELSE {}
  <2> HIDE DEF M
  <2> QED BY <1>1, <1>3
<1>5. Matches(f, n) = Matches(f, p) \cup IF M(p) THEN {Line(f, p)} ELSE {}
  <2>1. /\ Matches(f, n) = {Line(f, s) : s \in {t \in S : t < n /\ M(t)}}
        /\ Matches(f, p) = {Line(f, s) : s \in {t \in S : t < p /\ M(t)}}
    BY Zenon DEF Matches
  <2> HIDE DEF M, S
  <2> QED BY <1>4, <2>1
<1>6. ASSUME NEW t \in S, t < p PROVE Line(f, t).to <= p
  <2>1. t \in Nat /\ t < Size(f) /\ p \in f.ends
    BY <1>1, <1>6
  <2>2. NextEnd(f, t) <= p
    BY <1>6, <2>1, NextEndIsNext
  <2> QED BY <2>2 DEF Line
<1>7. \A line \in Matches(f, p) : line.to <= p
  BY <1>6 DEF Matches
<1> QED
  BY <1>5, <1>7 DEF n

\* The next line is kept if it has the word.
LEMMA KeptNext ==
    ASSUME NEW f \in Contents, NEW p \in f.ends \cup {0}, p < Size(f),
           NEW kept \in Seq(Text), NEW size \in Nat \ {0}, KeptUpTo(f, p, kept, size),
           NEW more \in Nat \ {0}
    PROVE  KeptUpTo(f, NextEnd(f, p),
                    IF is_in_string(f, Line(f, p)) THEN Append(kept, Line(f, p)) ELSE kept,
                    more)
<1> DEFINE n == NextEnd(f, p)
           line == Line(f, p)
           m == Len(kept)
           new == Append(kept, line)
<1>1. p \in Nat /\ n \in Nat
  BY SizeIsLastEnd, NextEndIsNext
<1>2. line \in Text /\ line.from = p
  BY <1>1 DEF Line, Text
<1>3. /\ Matches(f, n) = Matches(f, p) \cup IF is_in_string(f, line) THEN {line} ELSE {}
      /\ \A l \in Matches(f, p) : l.to <= p
  BY MatchesNext
<1> HIDE DEF n, line
<1>4. m \in Nat /\ DOMAIN kept = 1 .. m
  BY LenProperties
<1>5. /\ {kept[i] : i \in DOMAIN kept} = Matches(f, p)
      /\ \A i, j \in DOMAIN kept : i < j => kept[i].to <= kept[j].from
  BY DEF KeptUpTo
<1>6. CASE ~is_in_string(f, line)
  BY <1>3, <1>5, <1>6 DEF KeptUpTo, n, line
<1>7. CASE is_in_string(f, line)
  <2>1. /\ new \in Seq(Text) /\ Len(new) = m + 1 /\ new[m + 1] = line
        /\ \A i \in 1 .. m : new[i] = kept[i]
    BY <1>2, AppendProperties
  <2>2. DOMAIN new = 1 .. m + 1
    BY <2>1, LenProperties
  <2> HIDE DEF new
  <2>3. {new[i] : i \in DOMAIN new} = Matches(f, n)
    <3>1. \A i \in DOMAIN new : i \in 1 .. m \/ i = m + 1
      BY <1>4, <2>2
    <3>2. m + 1 \in DOMAIN new /\ \A i \in 1 .. m : i \in DOMAIN new
      BY <1>4, <2>2
    <3>3. {new[i] : i \in DOMAIN new} = {kept[i] : i \in 1 .. m} \cup {line}
      BY <2>1, <3>1, <3>2
    <3> QED BY <1>3, <1>4, <1>5, <1>7, <3>3
  <2>4. ASSUME NEW i \in DOMAIN new, NEW j \in DOMAIN new, i < j
        PROVE  new[i].to <= new[j].from
    <3>1. i \in 1 .. m /\ new[i] = kept[i]
      BY <1>4, <2>1, <2>2, <2>4
    <3>2. CASE j \in 1 .. m
      BY <1>4, <1>5, <2>1, <2>4, <3>1, <3>2
    <3>3. CASE j \notin 1 .. m
      <4>1. j = m + 1 /\ new[j] = line
        BY <1>4, <2>1, <2>2, <3>3
      <4>2. kept[i] \in Matches(f, p)
        BY <1>4, <1>5, <3>1
      <4> QED BY <1>2, <1>3, <3>1, <4>1, <4>2
    <3> QED BY <3>2, <3>3
  <2>5. KeptUpTo(f, n, new, more)
    BY <2>3, <2>4 DEF KeptUpTo
  <2> QED BY <1>7, <2>5 DEF new, n, line
<1> QED
  BY <1>6, <1>7

\* The read at the end of the file tests the last line again.
LEMMA KeptAgain ==
    ASSUME NEW f \in Contents, NEW kept \in Seq(Text), NEW size \in Nat \ {0},
           KeptUpTo(f, Size(f), kept, size), NEW buffer \in Text, NEW again \in BOOLEAN,
           again => /\ kept # << >> /\ Last(kept) = buffer
                    /\ buffer.to = Size(f)
    PROVE  KeptUpTo(f, Size(f), IF again THEN Append(kept, buffer) ELSE kept, 0)
<1> DEFINE m == Len(kept)
           new == Append(kept, buffer)
<1>1. m \in Nat /\ DOMAIN kept = 1 .. m
  BY LenProperties
<1>2. /\ {kept[i] : i \in DOMAIN kept} = Matches(f, Size(f))
      /\ \A i, j \in DOMAIN kept : i < j => kept[i].to <= kept[j].from
  BY DEF KeptUpTo
<1>3. CASE ~again
  BY <1>2, <1>3 DEF KeptUpTo
<1>4. CASE again
  <2>1. m \in 1 .. m /\ kept[m] = buffer /\ buffer.to = Size(f)
    BY <1>1, <1>4, EmptySeq DEF Last
  <2>2. /\ new \in Seq(Text) /\ Len(new) = m + 1 /\ new[m + 1] = buffer
        /\ \A i \in 1 .. m : new[i] = kept[i]
    BY AppendProperties
  <2>3. DOMAIN new = 1 .. m + 1
    BY <2>2, LenProperties
  <2> HIDE DEF new
  <2>4. {new[i] : i \in DOMAIN new} = Matches(f, Size(f))
    <3>1. \A i \in DOMAIN new : i \in 1 .. m \/ i = m + 1
      BY <1>1, <2>3
    <3>2. \A i \in 1 .. m : i \in DOMAIN new
      BY <1>1, <2>3
    <3>3. {new[i] : i \in DOMAIN new} = {kept[i] : i \in 1 .. m}
      BY <2>1, <2>2, <3>1, <3>2
    <3> QED BY <1>1, <1>2, <3>3
  <2>5. ASSUME NEW i \in DOMAIN new, NEW j \in DOMAIN new, i < j
        PROVE  \/ new[i].to <= new[j].from
               \/ j = i + 1 /\ j = Len(new) /\ new[j].to = Size(f)
    <3>1. i \in 1 .. m /\ new[i] = kept[i]
      BY <1>1, <2>2, <2>3, <2>5
    <3>2. CASE j \in 1 .. m
      BY <1>1, <1>2, <2>2, <2>5, <3>1, <3>2
    <3>3. CASE j \notin 1 .. m
      <4>1. j = m + 1 /\ new[j] = buffer
        BY <1>1, <2>2, <2>3, <3>3
      <4>2. CASE i = m
        BY <2>1, <2>2, <4>1, <4>2
      <4>3. CASE i # m
        <5>1. i < m
          BY <1>1, <3>1, <4>3
        <5> QED BY <1>1, <1>2, <2>1, <3>1, <4>1, <5>1
      <4> QED BY <4>2, <4>3
    <3> QED BY <3>2, <3>3
  <2>6. KeptUpTo(f, Size(f), new, 0)
    BY <2>4, <2>5 DEF KeptUpTo
  <2> QED BY <1>4, <2>6 DEF new
<1> QED
  BY <1>3, <1>4

---------------------------------------------------------------------------
(* What a read does to a file and to the variables of a loop. *)

\* A text that is not empty was read from a file that moved; and a read finds
\* nothing only in a file that moved or is empty, if it does not begin with
\* pos at the beginning and the stream elsewhere.
LEMMA LinesMove ==
    ASSUME NEW f \in Contents, NEW file, InBounds(f, file), NEW buffer \in Text
    PROVE  LET r == lines(f, file, buffer)
           IN  /\ r.buffer.from < r.buffer.to =>
                     r.file.pos > 0 \/ buffer.from < buffer.to
               /\ file.pos > 0 \/ file.stream = 0 =>
                     /\ r.file.pos > 0 \/ r.file.stream = 0
                     /\ r.size = 0 => r.file.pos > 0 \/ Size(f) = 0
<1> DEFINE length == line_length(f, file.stream)
           text == Fgets(f, file.pos, length, buffer)
           end == IF file.pos < Size(f) THEN text.to ELSE file.pos
<1>1. /\ file \in TexlerFile /\ Size(f) \in Nat
      /\ file.stream \in Nat /\ file.pos \in Nat /\ file.n_line \in Nat
      /\ file.pos <= Size(f) /\ file.stream <= Size(f)
  BY SizeIsLastEnd DEF InBounds, TexlerFile
<1>2. length \in Nat /\ (length = 0 <=> file.stream >= Size(f))
  BY <1>1, LengthOK
<1>3. CASE length = 0
  <2> DEFINE new == [file EXCEPT !.stream = file.pos]
  <2>1. lines(f, file, buffer) = [file |-> new, buffer |-> buffer, size |-> 0]
    BY <1>3 DEF lines
  <2>2. new.pos = file.pos /\ new.stream = file.pos
    BY <1>1 DEF TexlerFile
  <2> HIDE DEF new
  <2>3. file.pos > 0 \/ file.stream = 0 =>
           /\ new.pos > 0 \/ new.stream = 0
           /\ new.pos > 0 \/ Size(f) = 0
    BY <1>1, <1>2, <1>3, <2>2
  <2> QED BY <2>1, <2>3
<1>4. CASE length # 0
  <2> DEFINE new == [stream |-> end, pos |-> end, n_line |-> file.n_line + 1]
  <2>1. lines(f, file, buffer) = [file |-> new, buffer |-> text, size |-> length + 1]
    BY <1>4 DEF lines
  <2>2. length > 0 /\ length + 1 # 0
    BY <1>2, <1>4
  <2>3. file.stream < Size(f)
    BY <1>1, <1>2, <1>4
  <2> HIDE DEF length
  <2>4. text \in Text /\ (file.pos < Size(f) => file.pos < text.to)
    BY <1>1, <1>2, <2>2, FgetsOK
  <2> HIDE DEF text
  <2>5. end > 0
    BY <1>1, <2>3, <2>4 DEF Text
  <2> HIDE DEF end
  <2>6. new.pos = end
    OBVIOUS
  <2> HIDE DEF new
  <2> QED BY <2>1, <2>2, <2>5, <2>6
<1> QED
  BY <1>3, <1>4

\* Where the stream is at pos and at the beginning of a line, lines delivers
\* that line, or nothing at the end of the file.
LEMMA LinesNext ==
    ASSUME NEW f \in Contents, NEW file, InBounds(f, file), NEW buffer \in Text,
           file.stream = file.pos, file.pos \in f.ends \cup {0}
    PROVE  LET r == lines(f, file, buffer)
           IN  IF file.pos = Size(f)
               THEN r.size = 0 /\ r.file = file /\ r.buffer = buffer
               ELSE /\ file.pos < Size(f)
                    /\ r.size \in Nat \ {0} /\ r.buffer = Line(f, file.pos)
                    /\ r.file.pos = NextEnd(f, file.pos)
                    /\ r.file.stream = NextEnd(f, file.pos)
                    /\ NextEnd(f, file.pos) \in f.ends
<1> DEFINE length == line_length(f, file.stream)
           text == Fgets(f, file.pos, length, buffer)
           p == file.pos
<1>1. /\ file \in TexlerFile /\ Size(f) \in Nat
      /\ file.stream = p /\ p \in Nat /\ file.n_line \in Nat /\ p <= Size(f)
  BY SizeIsLastEnd DEF InBounds, TexlerFile
<1>2. /\ length \in Nat /\ (length = 0 <=> p >= Size(f))
      /\ p < Size(f) => p + length = NextEnd(f, p)
  BY <1>1, LengthOK
<1>3. CASE p = Size(f)
  <2>1. lines(f, file, buffer) = [file |-> [file EXCEPT !.stream = file.pos],
                                  buffer |-> buffer, size |-> 0]
    BY <1>1, <1>2, <1>3 DEF lines
  <2>2. [file EXCEPT !.stream = file.pos] = file
    BY <1>1 DEF TexlerFile
  <2> QED BY <1>3, <2>1, <2>2
<1>4. CASE p # Size(f)
  <2>1. p < Size(f)
    BY <1>1, <1>4
  <2>2. length # 0 /\ length > 0 /\ length + 1 \in Nat \ {0}
    BY <1>1, <1>2, <2>1
  <2> DEFINE new == [stream |-> text.to, pos |-> text.to, n_line |-> file.n_line + 1]
  <2>3. lines(f, file, buffer) = [file |-> new, buffer |-> text, size |-> length + 1]
    BY <2>1, <2>2 DEF lines
  <2> HIDE DEF length
  <2>4. text \in Text /\ text.from = p /\ text.to = NextEnd(f, p)
    BY <1>1, <1>2, <2>1, <2>2, FgetsOK
  <2> HIDE DEF text
  <2>5. text = Line(f, p)
    BY <2>4 DEF Text, Line
  <2>6. NextEnd(f, p) \in f.ends
    BY <1>1, <2>1, NextEndIsNext
  <2> QED BY <1>4, <2>1, <2>2, <2>3, <2>4, <2>5, <2>6
<1> QED
  BY <1>3, <1>4

---------------------------------------------------------------------------
(* The variables of the loops on the stack. *)

HasText(loop) ==
    \/ loop.buffer.from < loop.buffer.to
    \/ loop.column.from < loop.column.to
    \/ loop.rest.from < loop.rest.to

\* The files that were read.
Moved == {k \in DOMAIN opened : Object(k).pos > 0}

\* A loop that has a text has read it from its file; a loop whose size is 0 in
\* its body has seen the end of it.
ReadOK(loop, moved) ==
    /\ loop.form = "assign" => loop.at = "read"
    /\ loop.form = "copy" => loop.at \in {"read", "column"}
    /\ loop.form = "filter" => ~loop.split
    /\ HasText(loop) => loop.file \in moved
    /\ /\ loop.size = 0 /\ loop.form # "copy"
       /\ loop.at \in {"column", "body"} \/ loop.form = "assign"
       => loop.file \in moved \/ Size(contents[loop.file]) = 0

AllRead(stack, moved) == \A l \in DOMAIN stack : ReadOK(stack[l], moved)

\* The inductive invariant: an assignment uses the file of the loop it is in,
\* and did not find the stream at the end of it by a copy.
FilterInv ==
    /\ AllRead(loops, Moved)
    /\ loops # << >> /\ Top.form = "assign" =>
          /\ Len(loops) > 1 /\ loops[Len(loops) - 1].file = Top.file
          /\ Object(Top.file).pos > 0 \/ Object(Top.file).stream = 0
    /\ loops # << >> /\ Top.alone /\ Top.form \in {"filter", "assign"} =>
          Top.file \in DOMAIN opened /\ Kept(Content(Top.file), Object(Top.file), Top)

LEMMA AllReadTop ==
    ASSUME NEW moved, NEW s \in Seq(Loop), s # << >>, NEW more, moved \subseteq more,
           AllRead(s, moved), NEW e, ReadOK(e, more)
    PROVE  LET new == Append(Front(s), e)
           IN  /\ AllRead(new, more) /\ Last(new) = e /\ Len(new) = Len(s)
               /\ Len(s) > 1 => new[Len(s) - 1] = s[Len(s) - 1]
<1> DEFINE S == Loop \cup {e}
           new == Append(Front(s), e)
<1>1. s \in Seq(S) /\ e \in S
  BY SeqDef
<1> HIDE DEF S
<1>2. /\ DOMAIN new = DOMAIN s /\ Last(new) = e /\ new[Len(s)] = e
      /\ Len(new) = Len(s)
      /\ \A i \in 1 .. Len(s) - 1 : new[i] = s[i]
  BY <1>1, Replaced
<1>3. DOMAIN s = 1 .. Len(s) /\ Len(s) \in Nat
  BY LenProperties
<1> HIDE DEF new
<1>4. ASSUME NEW l \in DOMAIN new PROVE ReadOK(new[l], more)
  <2>1. CASE l = Len(s)
    BY <1>2, <2>1
  <2>2. CASE l # Len(s)
    <3>1. l \in 1 .. Len(s) - 1 /\ l \in DOMAIN s
      BY <1>2, <1>3, <2>2
    <3>2. new[l] = s[l] /\ ReadOK(s[l], moved)
      BY <1>2, <3>1 DEF AllRead
    <3> QED BY <3>2 DEF ReadOK
  <2> QED BY <2>1, <2>2
<1>5. Len(s) > 1 => Len(s) - 1 \in 1 .. Len(s) - 1
  BY <1>3
<1> QED
  BY <1>2, <1>4, <1>5 DEF AllRead, new

LEMMA AllReadPop ==
    ASSUME NEW moved, NEW s \in Seq(Loop), s # << >>, AllRead(s, moved),
           NEW more, moved \subseteq more
    PROVE  AllRead(Front(s), more)
<1> DEFINE new == Front(s)
<1>1. /\ new \in Seq(Loop) /\ Len(new) = Len(s) - 1 /\ Len(s) \in Nat
      /\ \A i \in 1 .. Len(s) - 1 : new[i] = s[i]
  BY FrontOfSeq
<1> HIDE DEF new
<1>2. DOMAIN new = 1 .. Len(s) - 1 /\ DOMAIN s = 1 .. Len(s)
  BY <1>1, LenProperties
<1>3. \A l \in DOMAIN new : l \in DOMAIN s /\ new[l] = s[l]
  BY <1>1, <1>2
<1>4. \A l \in DOMAIN new : ReadOK(new[l], moved)
  BY <1>3 DEF AllRead
<1> QED
  BY <1>4 DEF AllRead, ReadOK, new

LEMMA AllReadDisturbed ==
    ASSUME NEW moved, NEW s \in Seq(Loop), AllRead(s, moved),
           NEW more, moved \subseteq more
    PROVE  AllRead(NoneAlone(s), more)
<1> DEFINE new == NoneAlone(s)
<1>1. DOMAIN new = DOMAIN s /\ \A l \in DOMAIN s : new[l] = [s[l] EXCEPT !.alone = FALSE]
  BY DEF NoneAlone
<1>2. \A l \in DOMAIN s : s[l] \in Loop
  BY ElementOfSeq, LenProperties
<1> HIDE DEF new
<1>3. ASSUME NEW l \in DOMAIN s PROVE ReadOK(new[l], more)
  <2>1. /\ new[l].form = s[l].form /\ new[l].at = s[l].at /\ new[l].file = s[l].file
        /\ new[l].split = s[l].split
        /\ new[l].buffer = s[l].buffer /\ new[l].column = s[l].column
        /\ new[l].rest = s[l].rest /\ new[l].size = s[l].size
    BY <1>1, <1>2 DEF Loop
  <2>2. ReadOK(s[l], moved)
    BY DEF AllRead
  <2> QED BY <2>1, <2>2 DEF ReadOK, HasText
<1> QED
  BY <1>1, <1>3 DEF AllRead, new

LEMMA AllReadPush ==
    ASSUME NEW moved, NEW D, NEW s, StackOK(s, D), AllRead(s, moved),
           NEW more, moved \subseteq more, NEW e, ReadOK(e, more)
    PROVE  LET new == Append(NoneAlone(s), e)
           IN  /\ AllRead(new, more) /\ Last(new) = e /\ Len(new) = Len(s) + 1
               /\ s # << >> => new[Len(s)].file = Last(s).file /\ Len(new) > 1
<1> DEFINE below == NoneAlone(s)
           S == Loop \cup {e}
           new == Append(below, e)
<1>1. s \in Seq(Loop) /\ below \in Seq(Loop) /\ Len(below) = Len(s)
  BY StackDisturbed DEF StackOK
<1>2. AllRead(below, more)
  BY <1>1, AllReadDisturbed
<1> DEFINE n == Len(s)
<1>3. s # << >> => n \in DOMAIN s /\ n > 0 /\ s[n] \in Loop /\ Last(s) = s[n]
  BY <1>1, FrontOfSeq, LenProperties DEF Last
<1>4. s # << >> => below[n] = [s[n] EXCEPT !.alone = FALSE]
  BY <1>3 DEF NoneAlone
<1>5. s # << >> => below[n].file = Last(s).file
  BY <1>3, <1>4 DEF Loop
<1> HIDE DEF below
<1>6. below \in Seq(S) /\ e \in S
  BY <1>1, SeqDef
<1> HIDE DEF S
<1>7. /\ new \in Seq(S) /\ Len(new) = n + 1 /\ new[n + 1] = e
      /\ \A i \in 1 .. n : new[i] = below[i]
  BY <1>1, <1>6, AppendProperties
<1> HIDE DEF new
<1>8. DOMAIN new = 1 .. n + 1 /\ DOMAIN below = 1 .. n /\ n \in Nat
  BY <1>1, <1>6, <1>7, LenProperties
<1>9. ASSUME NEW l \in DOMAIN new PROVE ReadOK(new[l], more)
  <2>1. CASE l = n + 1
    BY <1>7, <2>1
  <2>2. CASE l # n + 1
    <3>1. l \in 1 .. n /\ l \in DOMAIN below
      BY <1>8, <2>2
    <3> QED BY <1>2, <1>7, <3>1 DEF AllRead
  <2> QED BY <2>1, <2>2
<1>10. s # << >> => new[n].file = Last(s).file /\ Len(new) > 1
  BY <1>3, <1>5, <1>7, <1>8
<1> QED
  BY <1>7, <1>9, <1>10 DEF AllRead, Last, new, below

---------------------------------------------------------------------------
(* What a step must satisfy for FilterInv to hold after it. *)

\* A file that was read stays so.
LEMMA MovedGrows ==
    ASSUME Inv, [Next]_vars
    PROVE  Moved \subseteq Moved'
<1>1. CASE UNCHANGED vars
  BY <1>1 DEF vars, Moved, Object
<1>2. CASE Next
  <2>1. Inv' /\ (Advances \/ UNCHANGED vars)
    BY NextOK
  <2>2. next_open_file' \in {next_open_file, next_open_file + 1} /\ UNCHANGED is_directory
    BY <1>2 DEF Next, BeginLoop, Begin, get_next_file, EnterFile, EndProcess, EndLoop,
       CallByIndex, SkipLine, ReadLineN, ReadRange, ReadFilter, EndFilter, ReadColumns,
       NextColumn, EndColumns, EndBody, AssignFilter, EndAssign, CopyFile,
       CopyTranslating, ReadCopy, CopyColumn, Finish, KeepProgram, KeepFiles
  <2>3. /\ DOMAIN opened = 1 .. Len(opened)
        /\ Len(opened) = IF is_directory THEN next_open_file ELSE 1
        /\ next_open_file \in Nat
    BY LenProperties DEF Inv, FilesOK
  <2>4. /\ DOMAIN opened' = 1 .. Len(opened')
        /\ Len(opened') = IF is_directory' THEN next_open_file' ELSE 1
    <3>1. opened' \in Seq([file : DOMAIN contents', object : TexlerFile])
      BY <2>1 DEF Inv, FilesOK
    <3>2. DOMAIN opened' = 1 .. Len(opened')
      BY <3>1, LenProperties
    <3> QED BY <2>1, <3>2 DEF Inv, FilesOK
  <2>5. DOMAIN opened \subseteq DOMAIN opened'
    BY <2>2, <2>3, <2>4
  <2>6. CASE UNCHANGED vars
    BY <1>1, <2>6
  <2>7. CASE Advances
    <3> SUFFICES ASSUME NEW k \in DOMAIN opened, Object(k).pos > 0
                 PROVE  opened'[k].object.pos > 0 /\ k \in DOMAIN opened'
      BY DEF Moved, Object
    <3>1. opened'[k].object.pos >= Object(k).pos /\ Object(k).pos \in Nat
      BY <2>7, FileAt DEF Advances, Inv
    <3>2. opened'[k].object.pos \in Nat
      <4>1. k \in DOMAIN opened' /\ FilesOK'
        BY <2>1, <2>5 DEF Inv
      <4>2. InBounds(contents'[opened'[k].file], opened'[k].object)
        BY <4>1 DEF FilesOK
      <4> QED BY <4>2 DEF InBounds, TexlerFile
    <3> QED BY <2>5, <3>1, <3>2
  <2> QED BY <2>1, <2>6, <2>7
<1> QED
  BY <1>1, <1>2

\* The loop on top, with its file.
LEMMA FilterTop ==
    ASSUME Inv, FilterInv, loops # << >>
    PROVE  /\ Top \in Loop /\ ReadOK(Top, Moved)
           /\ Top.at # "next" => /\ Top.file \in DOMAIN opened
                                 /\ Content(Top.file) = contents[Top.file]
<1>1. Top \in Loop /\ Len(loops) \in DOMAIN loops /\ Top = loops[Len(loops)]
  BY TopOK
<1>2. Top.at # "next" => Top.file \in DOMAIN opened
  BY Reading
<1>3. Top.at # "next" => opened[Top.file].file = Top.file
  BY <1>2 DEF Inv, FilesOK
<1> QED
  BY <1>1, <1>2, <1>3 DEF FilterInv, AllRead, Content

LEMMA FilterMoves ==
    ASSUME Inv, FilterInv, loops # << >>, UNCHANGED contents, Moved \subseteq Moved',
           NEW e, SetTop(e), ReadOK(e, Moved'),
           e.form = "assign" =>
              /\ Top.form = "assign" /\ e.file = Top.file
              /\ opened'[e.file].object.pos > 0 \/ opened'[e.file].object.stream = 0,
           e.alone /\ e.form \in {"filter", "assign"} =>
              /\ e.file \in DOMAIN opened'
              /\ Kept(contents'[opened'[e.file].file], opened'[e.file].object, e)
    PROVE  FilterInv'
<1>1. loops \in Seq(Loop) /\ AllRead(loops, Moved)
  BY DEF Inv, StackOK, FilterInv
<1>2. loops' = Append(Front(loops), e)
  BY DEF SetTop
<1>3. /\ AllRead(loops', Moved') /\ Last(loops') = e /\ Len(loops') = Len(loops)
      /\ Len(loops) > 1 => loops'[Len(loops) - 1] = loops[Len(loops) - 1]
  <2> DEFINE more == Moved'
  <2> HIDE DEF more
  <2>1. Moved \subseteq more /\ ReadOK(e, more)
    BY DEF more
  <2>2. /\ AllRead(loops', more) /\ Last(loops') = e /\ Len(loops') = Len(loops)
        /\ Len(loops) > 1 => loops'[Len(loops) - 1] = loops[Len(loops) - 1]
    BY <1>1, <1>2, <2>1, AllReadTop
  <2> QED BY <2>2 DEF more
<1>4. AllRead(loops, Moved)'
  BY <1>3 DEF AllRead, ReadOK
<1>5. e.form = "assign" => Len(loops) > 1 /\ loops[Len(loops) - 1].file = e.file
  BY DEF FilterInv
<1> QED
  BY <1>3, <1>4, <1>5 DEF FilterInv, Top, Content, Object

\* The loop on top ends, or an assignment on top of it: it is not alone.
LEMMA FilterEnds ==
    ASSUME Inv, FilterInv, loops # << >>, UNCHANGED contents, Moved \subseteq Moved',
           loops' = Front(loops)
    PROVE  FilterInv'
<1>1. loops \in Seq(Loop) /\ AllRead(loops, Moved)
  BY DEF Inv, StackOK, FilterInv
<1>2. AllRead(loops', Moved')
  <2> DEFINE more == Moved'
  <2> HIDE DEF more
  <2>1. Moved \subseteq more
    BY DEF more
  <2>2. AllRead(loops', more)
    BY <1>1, <2>1, AllReadPop
  <2> QED BY <2>2 DEF more
<1>3. AllRead(loops, Moved)'
  BY <1>2 DEF AllRead, ReadOK
<1>4. loops' # << >> => /\ Len(loops') \in DOMAIN loops'
                        /\ Last(loops') = loops'[Len(loops')]
                        /\ Last(loops').at = "body" /\ ~Last(loops').alone
  BY StackPop DEF Inv
<1>5. loops' # << >> => Last(loops').form # "assign"
  BY <1>2, <1>4 DEF AllRead, ReadOK
<1> QED
  BY <1>3, <1>4, <1>5 DEF FilterInv, Top

LEMMA FilterBegins ==
    ASSUME Inv, FilterInv, UNCHANGED contents, Moved \subseteq Moved',
           NEW e, loops' = Append(Disturbed, e), ReadOK(e, Moved'),
           e.form = "assign" =>
              /\ loops # << >> /\ e.file = Top.file
              /\ opened'[e.file].object.pos > 0 \/ opened'[e.file].object.stream = 0,
           e.alone /\ e.form \in {"filter", "assign"} =>
              /\ e.file \in DOMAIN opened'
              /\ Kept(contents'[opened'[e.file].file], opened'[e.file].object, e)
    PROVE  FilterInv'
<1>1. StackOK(loops, DOMAIN opened) /\ AllRead(loops, Moved) /\ Len(loops) \in Nat
  BY LenProperties DEF Inv, StackOK, FilterInv
<1>2. Disturbed = NoneAlone(loops)
  BY Zenon DEF Disturbed, NoneAlone
<1>3. /\ AllRead(loops', Moved') /\ Last(loops') = e /\ Len(loops') = Len(loops) + 1
      /\ loops # << >> => loops'[Len(loops)].file = Top.file /\ Len(loops') > 1
  <2> DEFINE more == Moved'
  <2> HIDE DEF more
  <2>1. Moved \subseteq more /\ ReadOK(e, more)
    BY DEF more
  <2>2. /\ AllRead(loops', more) /\ Last(loops') = e /\ Len(loops') = Len(loops) + 1
        /\ loops # << >> => loops'[Len(loops)].file = Last(loops).file /\ Len(loops') > 1
    BY <1>1, <1>2, <2>1, AllReadPush
  <2> QED BY <2>2 DEF more, Top
<1>4. AllRead(loops, Moved)'
  BY <1>3 DEF AllRead, ReadOK
<1>5. Len(loops') - 1 = Len(loops)
  BY <1>1, <1>3
<1> QED
  BY <1>3, <1>4, <1>5 DEF FilterInv, Top, Content, Object

\* A loop that is no filter moves on.
LEMMA OtherMoves ==
    ASSUME Inv, FilterInv, loops # << >>, UNCHANGED contents, Moved \subseteq Moved',
           NEW e, SetTop(e), ReadOK(e, Moved'), e.form \notin {"filter", "assign"}
    PROVE  FilterInv'
  BY FilterMoves

\* A call of lines on the file of the loop on top.
LEMMA TextRead ==
    ASSUME Inv, FilterInv, loops # << >>, Top.at # "next", Moved \subseteq Moved',
           NEW buffer \in Text, buffer.from < buffer.to => Top.file \in Moved,
           Called(lines(Content(Top.file), Object(Top.file), buffer)),
           UNCHANGED <<contents, is_directory, next_open_file>>
    PROVE  LET r == lines(Content(Top.file), Object(Top.file), buffer)
           IN  /\ r.buffer \in Text /\ r.size \in Nat
               /\ DOMAIN opened' = DOMAIN opened
               /\ opened'[Top.file].object = r.file
               /\ contents'[opened'[Top.file].file] = Content(Top.file)
               /\ r.file.pos > 0 => Top.file \in Moved'
               /\ r.buffer.from < r.buffer.to => Top.file \in Moved'
<1> DEFINE f == Content(Top.file)
           file == Object(Top.file)
           r == lines(f, file, buffer)
<1>1. Top.file \in DOMAIN opened /\ f \in Contents /\ InBounds(f, file)
  BY Reading
<1>2. /\ DOMAIN opened' = DOMAIN opened /\ opened'[Top.file].object = r.file
      /\ contents'[opened'[Top.file].file] = f
      /\ r.buffer \in Text /\ r.size \in Nat
  BY <1>1, CalledLines
<1>3. r.buffer.from < r.buffer.to => r.file.pos > 0 \/ buffer.from < buffer.to
  <2> HIDE DEF f, file
  <2> QED BY <1>1, LinesMove
<1> HIDE DEF r
<1>4. r.file.pos > 0 => Top.file \in Moved'
  BY <1>1, <1>2 DEF Moved, Object
<1> QED
  BY <1>1, <1>2, <1>3, <1>4 DEF r

---------------------------------------------------------------------------
(* Every action keeps FilterInv. *)

LEMMA FilterBeginLoop ==
    ASSUME Inv, FilterInv, Moved \subseteq Moved', BeginLoop
    PROVE  FilterInv'
<1>1. PICK form \in Forms, split \in BOOLEAN,
           first \in Numbers \cup {0}, last \in Numbers \cup {0} :
         /\ Begin(form, split, first, last)
         /\ form \notin {"assign", "copy"} /\ (form = "filter" => ~split)
  BY DEF BeginLoop, Forms
<1> DEFINE e == Started(form, split, "next", 0, 0, first, last, FALSE)
<1>2. loops' = Append(Disturbed, e) /\ UNCHANGED contents
  BY <1>1 DEF Begin, KeepFiles
<1>3. /\ e.form \notin {"assign", "copy"} /\ e.at = "next" /\ ~e.alone
      /\ e.form = "filter" => ~e.split
      /\ ~HasText(e)
  BY <1>1 DEF Started, HasText, EmptyText
<1> HIDE DEF e
<1>4. ReadOK(e, Moved')
  BY <1>3 DEF ReadOK
<1> QED
  BY <1>2, <1>3, <1>4, FilterBegins

\* A loop enters a file; a filter that finds pos at the beginning starts there.
LEMMA FilterEnters ==
    ASSUME Inv, FilterInv, Moved \subseteq Moved', loops # << >>, Top.at = "next",
           UNCHANGED contents, NEW k, NEW objects, SetTop(Entering(k, objects)),
           k \in DOMAIN opened', contents'[opened'[k].file] \in Contents,
           opened'[k].object.pos = objects[k].object.pos,
           Top.form = "filter" => opened'[k].object.stream = 0
    PROVE  FilterInv'
<1> DEFINE a == objects[k].object.pos = 0
           at == IF Top.form = "lines" THEN "body" ELSE "read"
           e == [Top EXCEPT !.at = at, !.i = Top.i + 1, !.file = k,
                            !.buffer = EmptyText, !.size = BUFFER_SIZE,
                            !.column = EmptyText, !.rest = EmptyText,
                            !.index = Top.first - 1,
                            !.matched = << >>, !.alone = a]
<1>1. Entering(k, objects) = e /\ BUFFER_SIZE # 0
  BY DEF Entering, BUFFER_SIZE
<1>2. /\ Top \in Loop /\ Top.form \notin {"assign", "copy"}
      /\ Top.form = "filter" => ~Top.split
  BY FilterTop DEF ReadOK
<1>3. at \in {"body", "read"} /\ a \in BOOLEAN
  OBVIOUS
<1>4. a => opened'[k].object.pos = 0
  OBVIOUS
<1> HIDE DEF at, a
<1>5. /\ e.form = Top.form /\ e.at = at /\ e.file = k /\ e.size = BUFFER_SIZE
      /\ e.buffer = EmptyText /\ e.column = EmptyText /\ e.rest = EmptyText
      /\ e.matched = << >> /\ (e.alone <=> a) /\ e.split = Top.split
  BY <1>2, <1>3 DEF Loop
<1> HIDE DEF e
<1>6. ~HasText(e) /\ ~(e.buffer.from < e.buffer.to)
  BY <1>5 DEF HasText, EmptyText
<1>7. ReadOK(e, Moved')
  BY <1>1, <1>2, <1>5, <1>6 DEF ReadOK
<1> DEFINE f == contents'[opened'[k].file]
           file == opened'[k].object
<1>8. ASSUME e.alone, e.form = "filter"
      PROVE  Kept(f, file, e)
  <2>1. file.pos = 0 /\ file.stream = 0 /\ f \in Contents
    BY <1>4, <1>5, <1>8
  <2> HIDE DEF f, file
  <2>2. KeptUpTo(f, 0, << >>, e.size)
    BY <2>1, NothingKept
  <2>3. ~is_in_string(f, e.buffer)
    <3>1. f.word \subseteq Nat
      BY <2>1, ContentsAssumption
    <3> QED BY <1>5, <3>1 DEF is_in_string, EmptyText
  <2> QED BY <1>1, <1>3, <1>5, <1>6, <2>1, <2>2, <2>3 DEF Kept
<1> QED
  BY <1>1, <1>2, <1>5, <1>7, <1>8, FilterMoves

LEMMA FilterNextFile ==
    ASSUME Inv, FilterInv, Moved \subseteq Moved', get_next_file
    PROVE  FilterInv'
<1>1. loops # << >> /\ Top.at = "next" /\ UNCHANGED <<contents, is_directory>>
  BY DEF get_next_file, KeepProgram
<1>2. FilesOK /\ FilesOK'
  BY GetNextFileOK DEF Inv
<1> DEFINE R == [file : DOMAIN contents, object : TexlerFile]
<1>3. /\ opened \in Seq(R) /\ opened' \in Seq(R)
      /\ \A k \in DOMAIN opened' : contents'[opened'[k].file] \in Contents
  <2>1. /\ opened \in Seq(R) /\ opened' \in Seq(R)
        /\ contents' = contents /\ contents \in Seq(Contents)
    BY <1>1, <1>2 DEF FilesOK
  <2>2. \A k \in DOMAIN opened' : opened'[k] \in R
    <3> HIDE DEF R
    <3> QED BY <2>1, ElementOfSeq, LenProperties
  <2>3. \A k \in DOMAIN contents : contents[k] \in Contents
    BY <2>1, ElementOfSeq, LenProperties
  <2> QED BY <2>1, <2>2, <2>3
<1>4. ASSUME NEW objects \in Seq(R), NEW k \in DOMAIN objects, EnterFile(k, objects)
      PROVE  FilterInv'
  <2>1. objects[k] \in R
    BY <1>4, ElementOfSeq, LenProperties
  <2>2. CASE Top.form = "filter"
    <3> DEFINE moved == rewind(objects[k].object)
    <3>1. opened' = [objects EXCEPT ![k].object = moved]
      BY <1>4, <2>2 DEF EnterFile
    <3>2. opened'[k] = [objects[k] EXCEPT !.object = moved] /\ k \in DOMAIN opened'
      <4> HIDE DEF moved
      <4> QED BY <1>4, <2>1, <3>1
    <3>3. opened'[k].object = rewind(objects[k].object)
      BY <2>1, <3>2
    <3>4. opened'[k].object.pos = objects[k].object.pos /\ opened'[k].object.stream = 0
      BY <2>1, <3>3 DEF rewind, TexlerFile
    <3> QED BY <1>1, <1>3, <1>4, <3>2, <3>4, FilterEnters DEF EnterFile
  <2>3. CASE Top.form # "filter"
    <3>1. opened' = objects
      BY <1>4, <2>3 DEF EnterFile
    <3> QED BY <1>1, <1>3, <1>4, <2>3, <3>1, FilterEnters DEF EnterFile
  <2> QED BY <2>2, <2>3
<1>5. ASSUME EnterFile(1, opened), ~is_directory
      PROVE  FilterInv'
  <2>1. 1 \in DOMAIN opened
    BY <1>2, <1>5, LenProperties DEF FilesOK
  <2> HIDE DEF R
  <2> QED BY <1>3, <1>4, <1>5, <2>1
<1>6. ASSUME is_directory, next_open_file < Len(contents),
             EnterFile(Len(opened) + 1,
                       Append(opened, [file |-> next_open_file + 1,
                                       object |-> open_file]))
      PROVE  FilterInv'
  <2> DEFINE new == [file |-> next_open_file + 1, object |-> open_file]
             objects == Append(opened, new)
             k == Len(opened) + 1
  <2>1. new \in R
    BY <1>2, <1>6, NextFileOK
  <2> HIDE DEF R, new
  <2>2. objects \in Seq(R) /\ Len(objects) = k /\ k \in Nat
    BY <1>3, <2>1, AppendProperties, LenProperties
  <2>3. EnterFile(k, objects)
    BY <1>6 DEF new
  <2> HIDE DEF objects
  <2>4. k \in DOMAIN objects
    <3>1. DOMAIN objects = 1 .. k /\ Len(opened) \in Nat
      BY <1>3, <2>2, LenProperties
    <3> QED BY <3>1
  <2> QED BY <1>4, <2>2, <2>3, <2>4
<1>7. ASSUME NEW s, EndProcess(s)
      PROVE  FilterInv'
  <2>1. UNCHANGED <<contents, opened, loops>>
    BY <1>1, <1>7 DEF EndProcess
  <2> QED BY <2>1 DEF FilterInv, AllRead, ReadOK, Moved, Top, Content, Object
<1> QED
  BY <1>5, <1>6, <1>7 DEF get_next_file

LEMMA FilterByIndex ==
    ASSUME Inv, FilterInv, Moved \subseteq Moved', CallByIndex
    PROVE  FilterInv'
<1> DEFINE a == InStep(Content(Top.file), Object(Top.file))
                /\ Object(Top.file).n_line <= Top.first
           e == [Top EXCEPT !.at = "skip", !.alone = a]
<1>1. /\ loops # << >> /\ Top.form = "byIndex" /\ UNCHANGED contents /\ SetTop(e)
  BY DEF CallByIndex, In, KeepProgram
<1>2. Top \in Loop /\ ReadOK(Top, Moved)
  BY <1>1, FilterTop
<1> HIDE DEF a
<1>3. /\ e.form = "byIndex" /\ e.at = "skip" /\ e.file = Top.file
      /\ e.buffer = Top.buffer /\ e.column = Top.column /\ e.rest = Top.rest
  BY <1>1, <1>2 DEF Loop
<1> HIDE DEF e
<1>4. ReadOK(e, Moved')
  BY <1>2, <1>3 DEF ReadOK, HasText
<1> QED
  BY <1>1, <1>3, <1>4, OtherMoves

LEMMA FilterSkipLine ==
    ASSUME Inv, FilterInv, Moved \subseteq Moved', SkipLine
    PROVE  FilterInv'
<1> DEFINE r == lines(Content(Top.file), Object(Top.file), Top.buffer)
           e == [Top EXCEPT !.buffer = r.buffer, !.size = r.size]
<1>1. /\ loops # << >> /\ Top.form = "byIndex" /\ Top.at = "skip"
      /\ UNCHANGED <<contents, is_directory, next_open_file>> /\ Called(r) /\ SetTop(e)
  BY DEF SkipLine, In, KeepProgram
<1>2. Top \in Loop /\ ReadOK(Top, Moved)
  BY <1>1, FilterTop
<1>3. Top.buffer \in Text /\ (Top.buffer.from < Top.buffer.to => Top.file \in Moved)
  BY <1>2 DEF Loop, ReadOK, HasText
<1>4. r.buffer.from < r.buffer.to => Top.file \in Moved'
  BY <1>1, <1>3, TextRead
<1> HIDE DEF r
<1>5. /\ e.form = "byIndex" /\ e.at = "skip" /\ e.file = Top.file
      /\ e.buffer = r.buffer /\ e.column = Top.column /\ e.rest = Top.rest
  BY <1>1, <1>2 DEF Loop
<1> HIDE DEF e
<1>6. ReadOK(e, Moved')
  BY <1>2, <1>4, <1>5 DEF ReadOK, HasText
<1> QED
  BY <1>1, <1>5, <1>6, OtherMoves

\* A loop that is no filter has read a line.
LEMMA FilterWithLine ==
    ASSUME Inv, FilterInv, loops # << >>,
           Top.form \notin {"filter", "assign", "copy"},
           UNCHANGED contents, Moved \subseteq Moved', NEW r, r.size > 0,
           r.buffer.from < r.buffer.to => Top.file \in Moved',
           SetTop(WithLine(r))
    PROVE  FilterInv'
<1> DEFINE at == IF Top.split THEN "column" ELSE "body"
           rest == IF Top.split THEN r.buffer ELSE EmptyText
           e == [Top EXCEPT !.at = at, !.buffer = r.buffer, !.size = r.size,
                            !.rest = rest, !.matched = << >>]
<1>1. e = WithLine(r)
  BY DEF WithLine
<1>2. Top \in Loop /\ ReadOK(Top, Moved)
  BY FilterTop
<1>3. rest.from < rest.to => r.buffer.from < r.buffer.to
  BY DEF EmptyText
<1> HIDE DEF at, rest
<1>4. /\ e.form = Top.form /\ e.file = Top.file /\ e.size = r.size
      /\ e.buffer = r.buffer /\ e.column = Top.column /\ e.rest = rest
  BY <1>2 DEF Loop
<1> HIDE DEF e
<1>5. ReadOK(e, Moved')
  BY <1>2, <1>3, <1>4 DEF ReadOK, HasText
<1> QED
  BY <1>1, <1>4, <1>5, OtherMoves

LEMMA FilterReads ==
    ASSUME Inv, FilterInv, Moved \subseteq Moved', ReadLineN \/ ReadRange \/ ReadColumns
    PROVE  FilterInv'
<1>1. PICK buffer \in {Top.buffer, EmptyText} :
        LET r == lines(Content(Top.file), Object(Top.file), buffer)
        IN  /\ loops # << >> /\ Top.at \in {"read", "skip"}
            /\ Top.form \in {"byIndex", "range", "columns"}
            /\ UNCHANGED <<contents, is_directory, next_open_file>>
            /\ \/ UNCHANGED <<opened, loops>>
               \/ Called(r) /\ UNCHANGED loops
               \/ Called(r) /\ r.size > 0 /\ SetTop(WithLine(r))
               \/ SetTop([Top EXCEPT !.at = "next"])
               \/ Called(r) /\ SetTop([Top EXCEPT !.at = "next", !.buffer = r.buffer,
                                                  !.size = r.size])
  BY DEF ReadLineN, ReadRange, ReadColumns, In, KeepProgram
<1> DEFINE r == lines(Content(Top.file), Object(Top.file), buffer)
           done == [Top EXCEPT !.at = "next"]
           last == [Top EXCEPT !.at = "next", !.buffer = r.buffer, !.size = r.size]
<1>2. /\ Top \in Loop /\ ReadOK(Top, Moved)
  BY <1>1, FilterTop
<1>3. buffer \in Text /\ (buffer.from < buffer.to => Top.file \in Moved)
  BY <1>1, <1>2 DEF Loop, ReadOK, HasText, EmptyText, Text
<1>4. Called(r) => (r.buffer.from < r.buffer.to => Top.file \in Moved')
  BY <1>1, <1>3, TextRead
<1> HIDE DEF r
<1>5. CASE UNCHANGED loops
  <2>1. AllRead(loops, Moved)'
    BY <1>1, <1>5 DEF FilterInv, AllRead, ReadOK
  <2> QED BY <1>1, <1>5, <2>1 DEF FilterInv, Top
<1>6. CASE Called(r) /\ r.size > 0 /\ SetTop(WithLine(r))
  BY <1>1, <1>4, <1>6, FilterWithLine
<1>7. CASE SetTop(done)
  <2>1. /\ done.form = Top.form /\ done.at = "next" /\ done.file = Top.file
        /\ done.buffer = Top.buffer /\ done.column = Top.column
        /\ done.rest = Top.rest
    BY <1>2 DEF Loop
  <2> HIDE DEF done
  <2>2. ReadOK(done, Moved')
    BY <1>1, <1>2, <2>1 DEF ReadOK, HasText
  <2> QED BY <1>1, <1>7, <2>1, <2>2, OtherMoves
<1>8. CASE Called(r) /\ SetTop(last)
  <2>1. /\ last.form = Top.form /\ last.at = "next" /\ last.file = Top.file
        /\ last.buffer = r.buffer /\ last.column = Top.column
        /\ last.rest = Top.rest
    BY <1>2 DEF Loop
  <2> HIDE DEF last
  <2>2. ReadOK(last, Moved')
    BY <1>1, <1>2, <1>4, <1>8, <2>1 DEF ReadOK, HasText
  <2> QED BY <1>1, <1>8, <2>1, <2>2, OtherMoves
<1> QED
  BY <1>1, <1>5, <1>6, <1>7, <1>8 DEF r

\* The read of a filter that is alone: the next line of the file is kept if it
\* has the word; at the end of the file the last one is tested again.
LEMMA KeptReads ==
    ASSUME NEW f \in Contents, NEW file, InBounds(f, file), NEW loop \in Loop,
           Kept(f, file, loop), loop.size > 0,
           NEW e, LET r == lines(f, file, loop.buffer)
                  IN  /\ e.at \in {"body", "read"}
                      /\ e.buffer = r.buffer /\ e.size = r.size
                      /\ e.matched = IF is_in_string(f, r.buffer)
                                     THEN Append(loop.matched, r.buffer)
                                     ELSE loop.matched
    PROVE  Kept(f, lines(f, file, loop.buffer).file, e)
<1> DEFINE r == lines(f, file, loop.buffer)
           p == file.pos
           match == is_in_string(f, r.buffer)
<1>1. /\ loop.buffer \in Text /\ loop.matched \in Seq(Text) /\ loop.size \in Nat \ {0}
  BY DEF Loop
<1>2. /\ file.stream = p /\ p \in f.ends \cup {0}
      /\ KeptUpTo(f, p, loop.matched, loop.size)
      /\ loop.buffer.from < loop.buffer.to => loop.buffer.to = p
      /\ is_in_string(f, loop.buffer) =>
            loop.matched # << >> /\ Last(loop.matched) = loop.buffer
  BY DEF Kept
<1>3. IF p = Size(f)
      THEN r.size = 0 /\ r.file = file /\ r.buffer = loop.buffer
      ELSE /\ p < Size(f) /\ r.size \in Nat \ {0} /\ r.buffer = Line(f, p)
           /\ r.file.pos = NextEnd(f, p) /\ r.file.stream = NextEnd(f, p)
           /\ NextEnd(f, p) \in f.ends
  BY <1>1, <1>2, LinesNext
<1>4. /\ e.at # "next" /\ e.buffer = r.buffer /\ e.size = r.size
      /\ e.matched = IF match THEN Append(loop.matched, r.buffer) ELSE loop.matched
  OBVIOUS
<1>5. CASE p = Size(f)
  <2>1. match => /\ loop.matched # << >> /\ Last(loop.matched) = loop.buffer
                 /\ loop.buffer.to = Size(f)
    <3>1. f.word \subseteq Nat /\ loop.buffer.from \in Nat /\ loop.buffer.to \in Nat
      BY <1>1, ContentsAssumption DEF Text
    <3>2. match => loop.buffer.from < loop.buffer.to
      BY <1>3, <1>5, <3>1 DEF is_in_string
    <3> QED BY <1>2, <1>3, <1>5, <3>2
  <2>2. match \in BOOLEAN
    BY DEF is_in_string
  <2> HIDE DEF match
  <2>3. KeptUpTo(f, Size(f),
                 IF match THEN Append(loop.matched, loop.buffer) ELSE loop.matched, 0)
    BY <1>1, <1>2, <1>5, <2>1, <2>2, KeptAgain
  <2>4. KeptUpTo(f, p, e.matched, e.size)
    BY <1>3, <1>4, <1>5, <2>3
  <2>5. match => e.matched # << >> /\ Last(e.matched) = e.buffer
    <3> DEFINE new == Append(loop.matched, loop.buffer)
    <3>1. new \in Seq(Text) /\ Len(new) = Len(loop.matched) + 1
          /\ new[Len(loop.matched) + 1] = loop.buffer /\ Len(loop.matched) \in Nat
      BY <1>1, AppendProperties, LenProperties
    <3>2. new # << >> /\ Last(new) = loop.buffer
      BY <3>1, EmptySeq DEF Last
    <3> QED BY <1>3, <1>4, <1>5, <3>2
  <2> HIDE DEF r
  <2>6. /\ r.file = file /\ e.buffer = loop.buffer
        /\ is_in_string(f, e.buffer) => match
    BY <1>3, <1>4, <1>5 DEF match
  <2> HIDE DEF match
  <2>7. Kept(f, file, e)
    BY <1>2, <1>4, <1>5, <2>4, <2>5, <2>6 DEF Kept
  <2> QED BY <2>6, <2>7 DEF r
<1>6. CASE p # Size(f)
  <2> DEFINE line == Line(f, p)
             n == NextEnd(f, p)
  <2>1. match <=> is_in_string(f, line)
    BY <1>3, <1>6
  <2>2. KeptUpTo(f, n, IF is_in_string(f, line) THEN Append(loop.matched, line)
                                                ELSE loop.matched, e.size)
    BY <1>1, <1>2, <1>3, <1>4, <1>6, KeptNext
  <2>3. line \in Text /\ line.to = n
    <3>1. n \in Nat /\ p \in Nat
      BY <1>2, <1>3, <1>6, SizeIsLastEnd
    <3> QED BY <3>1 DEF Line, Text
  <2>4. match => e.matched # << >> /\ Last(e.matched) = e.buffer
    <3> DEFINE new == Append(loop.matched, line)
    <3> HIDE DEF line
    <3>1. new \in Seq(Text) /\ Len(new) = Len(loop.matched) + 1
          /\ new[Len(loop.matched) + 1] = line /\ Len(loop.matched) \in Nat
      BY <1>1, <2>3, AppendProperties, LenProperties
    <3>2. new # << >> /\ Last(new) = line
      BY <3>1, EmptySeq DEF Last
    <3> QED BY <1>3, <1>4, <1>6, <3>2 DEF line
  <2>5. KeptUpTo(f, n, e.matched, e.size)
    <3> HIDE DEF n
    <3> QED BY <1>3, <1>4, <1>6, <2>1, <2>2
  <2> HIDE DEF r, match, n
  <2>6. e.buffer.to = n /\ e.size # 0
    BY <1>3, <1>4, <1>6, <2>3
  <2>7. r.file.stream = n /\ r.file.pos = n /\ n \in f.ends \cup {0}
    BY <1>3, <1>6 DEF n
  <2>8. is_in_string(f, e.buffer) => match
    BY <1>4 DEF match
  <2>9. e.at # "next"
    OBVIOUS
  <2>10. KeptUpTo(f, r.file.pos, e.matched, e.size)
    BY <2>5, <2>7
  <2>11. Kept(f, r.file, e)
    BY <2>4, <2>6, <2>7, <2>8, <2>9, <2>10 DEF Kept
  <2> QED BY <2>11 DEF r
<1> QED
  BY <1>5, <1>6

LEMMA FilterReadFilter ==
    ASSUME Inv, FilterInv, Moved \subseteq Moved', ReadFilter
    PROVE  FilterInv'
<1> DEFINE f == Content(Top.file)
           file == Object(Top.file)
           r == lines(f, file, Top.buffer)
           match == is_in_string(f, r.buffer)
           kept == IF match THEN Append(Top.matched, r.buffer) ELSE Top.matched
           at == IF match /\ Top.form = "filter" THEN "body" ELSE "read"
           e == [Top EXCEPT !.at = at, !.buffer = r.buffer, !.size = r.size,
                            !.matched = kept]
<1>1. /\ loops # << >> /\ Top.at = "read" /\ Top.form \in {"filter", "assign"}
      /\ Top.size > 0
      /\ UNCHANGED <<contents, is_directory, next_open_file>>
      /\ Called(r) /\ SetTop(e)
  BY DEF ReadFilter, In, KeepProgram
<1>2. /\ Top \in Loop /\ ReadOK(Top, Moved) /\ f = contents[Top.file]
      /\ Top.file \in DOMAIN opened /\ f \in Contents /\ InBounds(f, file)
  BY <1>1, FilterTop, Reading
<1>3. Top.buffer \in Text /\ (Top.buffer.from < Top.buffer.to => Top.file \in Moved)
  BY <1>2 DEF Loop, ReadOK, HasText
<1>4. /\ r.buffer \in Text /\ r.size \in Nat /\ DOMAIN opened' = DOMAIN opened
      /\ opened'[Top.file].object = r.file /\ contents'[opened'[Top.file].file] = f
      /\ r.file.pos > 0 => Top.file \in Moved'
      /\ r.buffer.from < r.buffer.to => Top.file \in Moved'
  BY <1>1, <1>3, TextRead
<1>5. file.pos > 0 \/ file.stream = 0 =>
         /\ r.file.pos > 0 \/ r.file.stream = 0
         /\ r.size = 0 => r.file.pos > 0 \/ Size(f) = 0
  <2> HIDE DEF f, file
  <2> QED BY <1>2, <1>3, LinesMove
<1>6. match => r.buffer.from < r.buffer.to
  <2>1. f.word \subseteq Nat /\ r.buffer.from \in Nat /\ r.buffer.to \in Nat
    BY <1>2, <1>4, ContentsAssumption DEF Text
  <2> QED BY <2>1 DEF is_in_string
<1>7. at = "body" => match /\ Top.form = "filter"
  OBVIOUS
<1>8. at \in {"body", "read"}
  OBVIOUS
<1>9. Top.form = "assign" => file.pos > 0 \/ file.stream = 0
  BY <1>1 DEF FilterInv
<1>10. Top.alone => Kept(f, file, Top)
  BY <1>1 DEF FilterInv
<1> HIDE DEF at, kept
<1>11. /\ e.form = Top.form /\ e.at = at /\ e.file = Top.file
       /\ e.buffer = r.buffer /\ e.column = Top.column /\ e.rest = Top.rest
       /\ e.size = r.size /\ e.matched = kept /\ e.alone = Top.alone
       /\ e.split = Top.split
  <2> HIDE DEF r
  <2> QED BY <1>2 DEF Loop
<1> HIDE DEF e
<1>12. e.alone => Kept(f, r.file, e)
  <2> SUFFICES ASSUME e.alone PROVE Kept(f, r.file, e)
    OBVIOUS
  <2>1. Kept(f, file, Top)
    BY <1>10, <1>11
  <2>2. e.matched = IF match THEN Append(Top.matched, r.buffer) ELSE Top.matched
    BY <1>11 DEF kept
  <2>3. e.at \in {"body", "read"} /\ e.buffer = r.buffer /\ e.size = r.size
    BY <1>8, <1>11
  <2> HIDE DEF f, file
  <2> QED BY <1>1, <1>2, <2>1, <2>2, <2>3, KeptReads
<1> HIDE DEF r, f, file, match
<1>13. ReadOK(e, Moved')
  <2>1. /\ e.form = "assign" => e.at = "read"
        /\ e.form # "copy"
        /\ e.form = "filter" => ~e.split
    BY <1>1, <1>2, <1>7, <1>8, <1>11 DEF ReadOK
  <2>2. HasText(e) => e.file \in Moved'
    BY <1>2, <1>4, <1>11 DEF ReadOK, HasText
  <2>3. ASSUME e.size = 0, e.at \in {"column", "body"} \/ e.form = "assign"
        PROVE  e.file \in Moved' \/ Size(contents[e.file]) = 0
    <3>1. CASE e.at = "body"
      BY <1>4, <1>6, <1>7, <1>11, <3>1
    <3>2. CASE e.form = "assign"
      BY <1>2, <1>4, <1>5, <1>9, <1>11, <2>3, <3>2
    <3>3. e.at # "column"
      BY <1>8, <1>11
    <3> QED BY <2>3, <3>1, <3>2, <3>3
  <2> QED BY <2>1, <2>2, <2>3 DEF ReadOK
<1>14. e.form = "assign" =>
          /\ Top.form = "assign" /\ e.file = Top.file
          /\ opened'[e.file].object.pos > 0 \/ opened'[e.file].object.stream = 0
  BY <1>4, <1>5, <1>9, <1>11
<1>15. e.alone => /\ e.file \in DOMAIN opened'
                  /\ Kept(contents'[opened'[e.file].file], opened'[e.file].object, e)
  BY <1>2, <1>4, <1>11, <1>12
<1> QED
  BY <1>1, <1>13, <1>14, <1>15, FilterMoves

\* The rest of a filter does not touch its variables.
LEMMA FilterGoesOn ==
    ASSUME Inv, FilterInv, Moved \subseteq Moved', loops # << >>, Top.form = "filter",
           UNCHANGED <<contents, opened>>, NEW at \in {"next", "read"},
           Top.alone => Top.at # "next",
           at = "next" => Top.size = 0,
           NEW e, SetTop(e), e = [Top EXCEPT !.at = at]
    PROVE  FilterInv'
<1>1. /\ Top \in Loop /\ ReadOK(Top, Moved)
      /\ Top.alone => Top.file \in DOMAIN opened
                      /\ Kept(Content(Top.file), Object(Top.file), Top)
  BY FilterTop DEF FilterInv
<1>2. /\ e.form = "filter" /\ e.at = at /\ e.file = Top.file
      /\ e.buffer = Top.buffer /\ e.column = Top.column /\ e.rest = Top.rest
      /\ e.size = Top.size /\ e.matched = Top.matched /\ e.alone = Top.alone
      /\ e.split = Top.split
  BY <1>1 DEF Loop
<1>3. ReadOK(e, Moved')
  BY <1>1, <1>2 DEF ReadOK, HasText
<1>4. e.alone => Kept(Content(Top.file), Object(Top.file), e)
  BY <1>1, <1>2 DEF Kept
<1>5. e.alone => /\ e.file \in DOMAIN opened'
                 /\ Kept(contents'[opened'[e.file].file], opened'[e.file].object, e)
  BY <1>1, <1>2, <1>4 DEF Content, Object
<1> QED
  BY <1>2, <1>3, <1>5, FilterMoves

LEMMA FilterEndFilter ==
    ASSUME Inv, FilterInv, Moved \subseteq Moved', EndFilter
    PROVE  FilterInv'
<1> DEFINE e == [Top EXCEPT !.at = "next"]
<1>1. /\ loops # << >> /\ Top.form = "filter" /\ Top.at = "read" /\ Top.size <= 0
      /\ UNCHANGED <<contents, opened>> /\ SetTop(e)
  BY DEF EndFilter, In, KeepProgram, KeepFiles
<1>2. Top.size = 0
  <2>1. Top.size \in Nat
    BY <1>1, TopOK DEF Loop
  <2> QED BY <1>1, <2>1
<1> QED
  BY <1>1, <1>2, FilterGoesOn

LEMMA FilterNextColumn ==
    ASSUME Inv, FilterInv, Moved \subseteq Moved', NextColumn
    PROVE  FilterInv'
<1> DEFINE r == columns(Content(Top.file), Top.rest)
           at == IF r.size > 0 THEN "body" ELSE "column"
           visited == IF r.size > 0 THEN Append(Top.matched, r.column) ELSE Top.matched
           e == [Top EXCEPT !.at = at, !.column = r.column, !.rest = r.rest,
                            !.matched = visited]
<1>1. /\ loops # << >> /\ Top.at = "column"
      /\ Top.form \in {"columns", "byIndex", "range"}
      /\ Top.rest.from < Top.rest.to /\ UNCHANGED contents /\ SetTop(e)
  BY DEF NextColumn, InColumns, In, Remaining, KeepProgram
<1>2. Top \in Loop /\ ReadOK(Top, Moved) /\ Top.file \in Moved
  BY <1>1, FilterTop DEF ReadOK, HasText
<1> HIDE DEF r, at, visited
<1>3. /\ e.form = Top.form /\ e.file = Top.file
  BY <1>2 DEF Loop
<1> HIDE DEF e
<1>4. ReadOK(e, Moved')
  BY <1>1, <1>2, <1>3 DEF ReadOK
<1> QED
  BY <1>1, <1>3, <1>4, OtherMoves

\* The loop goes to its next line or file, or to the next column of its line.
LEMMA FilterEndBody ==
    ASSUME Inv, FilterInv, Moved \subseteq Moved', EndColumns \/ EndBody
    PROVE  FilterInv'
<1> DEFINE at == IF Top.form \in {"lines", "byIndex"} THEN "next" ELSE "read"
           index == IF Top.form = "range" THEN Top.index + 1 ELSE Top.index
           next == [Top EXCEPT !.at = at, !.index = index]
           column == [Top EXCEPT !.at = "column"]
<1>1. /\ loops # << >> /\ UNCHANGED <<contents, opened>>
      /\ \/ /\ Top.at = "column" /\ Top.form \notin {"filter", "copy"}
            /\ SetTop(Continued)
         \/ Top.at = "body" /\ SetTop(Continued)
         \/ Top.at = "body" /\ Top.split /\ SetTop(column)
  BY DEF EndColumns, EndBody, InColumns, In, KeepProgram, KeepFiles
<1>2. Top \in Loop /\ ReadOK(Top, Moved) /\ Top.form \notin {"assign", "copy"}
  BY <1>1, FilterTop DEF ReadOK
<1>3. Continued = next /\ at \in {"next", "read"}
  BY DEF Continued
<1>4. CASE Top.form = "filter" /\ SetTop(Continued)
  <2>1. Continued = [Top EXCEPT !.at = "read"]
    <3>1. at = "read" /\ index = Top.index
      BY <1>4
    <3> HIDE DEF at, index
    <3>2. next = [Top EXCEPT !.at = "read", !.index = Top.index]
      BY <3>1
    <3>3. [Top EXCEPT !.at = "read", !.index = Top.index] = [Top EXCEPT !.at = "read"]
      BY <1>2 DEF Loop
    <3> QED BY <1>3, <3>2, <3>3
  <2>2. Top.at # "next"
    BY <1>1
  <2> QED BY <1>1, <1>4, <2>1, <2>2, FilterGoesOn
<1>5. CASE Top.form # "filter" /\ SetTop(Continued)
  <2> HIDE DEF at, index
  <2>1. /\ next.form = Top.form /\ next.at = at /\ next.file = Top.file
        /\ next.buffer = Top.buffer /\ next.column = Top.column
        /\ next.rest = Top.rest
    BY <1>2 DEF Loop
  <2> HIDE DEF next
  <2>2. ReadOK(next, Moved')
    BY <1>2, <1>3, <1>5, <2>1 DEF ReadOK, HasText
  <2> QED BY <1>1, <1>2, <1>3, <1>5, <2>1, <2>2, OtherMoves
<1>6. CASE Top.at = "body" /\ Top.form # "filter" /\ SetTop(column)
  <2>1. /\ column.form = Top.form /\ column.at = "column" /\ column.file = Top.file
        /\ column.buffer = Top.buffer /\ column.column = Top.column
        /\ column.rest = Top.rest /\ column.size = Top.size
    BY <1>2 DEF Loop
  <2> HIDE DEF column
  <2>2. ReadOK(column, Moved')
    BY <1>1, <1>2, <1>6, <2>1 DEF ReadOK, HasText
  <2> QED BY <1>1, <1>2, <1>6, <2>1, <2>2, OtherMoves
<1>7. Top.split => Top.form # "filter"
  BY <1>2 DEF ReadOK
<1> QED
  BY <1>1, <1>4, <1>5, <1>6, <1>7

LEMMA FilterAssign ==
    ASSUME Inv, FilterInv, Moved \subseteq Moved', AssignFilter
    PROVE  FilterInv'
<1> DEFINE k == Top.file
           f == Content(k)
           file == Object(k)
           a == file.pos = 0
           buffer == IF Top.split THEN Top.column ELSE Top.buffer
           e == [Top EXCEPT !.form = "assign", !.split = FALSE, !.at = "read",
                            !.buffer = buffer, !.rest = EmptyText,
                            !.matched = << >>, !.alone = a]
<1>1. /\ loops # << >> /\ Top.at = "body"
      /\ UNCHANGED <<contents, is_directory, next_open_file>>
      /\ SetObject(k, rewind(file)) /\ loops' = Append(Disturbed, e)
  BY DEF AssignFilter, CanBegin
<1>2. /\ FilesOK /\ Top \in Loop /\ ReadOK(Top, Moved) /\ k \in DOMAIN opened
      /\ f \in Contents /\ f = contents[k] /\ InBounds(f, file)
  BY <1>1, FilterTop, Reading
<1>3. InBounds(f, rewind(file)) /\ rewind(file).pos = file.pos /\ file.pos \in Nat
  <2> HIDE DEF f, file
  <2> QED BY <1>2, RewindOK
<1>4. rewind(file).stream = 0
  BY <1>2 DEF rewind, InBounds, TexlerFile
<1>5. /\ DOMAIN opened' = DOMAIN opened /\ opened'[k].object = rewind(file)
      /\ contents'[opened'[k].file] = f
  <2> DEFINE new == rewind(file)
  <2>1. new.pos >= file.pos
    BY <1>3
  <2> HIDE DEF new
  <2>2. /\ DOMAIN opened' = DOMAIN opened /\ opened'[k].object = new
        /\ contents'[opened'[k].file] = f
    BY <1>1, <1>2, <1>3, <2>1, FilesSet DEF new
  <2> QED BY <2>2 DEF new
<1>6. a \in BOOLEAN
  OBVIOUS
<1>7. buffer.from < buffer.to => HasText(Top)
  BY DEF HasText
<1>8. buffer \in Text
  BY <1>2 DEF Loop
<1>9. a => k \notin Moved
  BY <1>2 DEF Moved
<1>10. k \in Moved => ~a
  BY <1>9
<1>11. a => file.pos = 0
  OBVIOUS
<1> HIDE DEF a, buffer, f, file
<1>12. /\ e.form = "assign" /\ e.at = "read" /\ e.file = k /\ e.size = Top.size
       /\ e.buffer = buffer /\ e.column = Top.column /\ e.rest = EmptyText
       /\ e.matched = << >> /\ (e.alone <=> a)
  BY <1>2, <1>6 DEF Loop
<1> HIDE DEF e
<1>13. HasText(e) => HasText(Top)
  BY <1>7, <1>12 DEF HasText, EmptyText
<1>14. ReadOK(e, Moved')
  BY <1>1, <1>2, <1>12, <1>13 DEF ReadOK
<1>15. ASSUME a PROVE Kept(f, rewind(file), e)
  <2>1. ~HasText(Top) /\ ~(buffer.from < buffer.to)
    BY <1>2, <1>7, <1>10, <1>15 DEF ReadOK
  <2>2. Top.size = 0 => Size(f) = 0
    BY <1>1, <1>2, <1>10, <1>15 DEF ReadOK
  <2>3. ~is_in_string(f, buffer)
    <3>1. f.word \subseteq Nat /\ buffer.from \in Nat /\ buffer.to \in Nat
      BY <1>2, <1>8, ContentsAssumption DEF Text
    <3> QED BY <2>1, <3>1 DEF is_in_string
  <2>4. KeptUpTo(f, 0, << >>, Top.size)
    BY <1>2, NothingKept
  <2>5. rewind(file).pos = 0 /\ rewind(file).stream = 0
    BY <1>3, <1>4, <1>11, <1>15
  <2> QED BY <1>12, <2>1, <2>2, <2>3, <2>4, <2>5 DEF Kept
<1> QED
  BY <1>1, <1>2, <1>4, <1>5, <1>12, <1>14, <1>15, FilterBegins

LEMMA AllReadAssigned ==
    ASSUME NEW moved, NEW s \in Seq(Loop), AllRead(s, moved), NEW more, moved \subseteq more,
           NEW k, s[Len(s)].file = k, NEW buffer, buffer.from < buffer.to => k \in moved,
           NEW size, size = 0 => k \in moved \/ Size(contents[k]) = 0
    PROVE  AllRead([s EXCEPT ![Len(s)] = Assigned(@, buffer, size)], more)
<1> DEFINE e == Assigned(s[Len(s)], buffer, size)
           new == [s EXCEPT ![Len(s)] = Assigned(@, buffer, size)]
<1>1. DOMAIN new = DOMAIN s /\ DOMAIN s = 1 .. Len(s) /\ Len(s) \in Nat
  BY LenProperties
<1>2. \A l \in DOMAIN s : new[l] = IF l = Len(s) THEN e ELSE s[l]
  BY <1>1
<1> HIDE DEF new
<1>3. ASSUME NEW l \in DOMAIN s PROVE ReadOK(new[l], more)
  <2>1. s[l] \in Loop /\ ReadOK(s[l], moved)
    BY <1>1, ElementOfSeq DEF AllRead
  <2>2. CASE l # Len(s)
    BY <1>2, <2>1, <2>2 DEF ReadOK
  <2>3. CASE l = Len(s)
    <3> DEFINE loop == s[l]
               own == IF loop.split THEN loop.buffer ELSE buffer
               column == IF loop.split THEN buffer ELSE loop.column
    <3>1. new[l] = [loop EXCEPT !.buffer = own, !.column = column, !.size = size]
      BY <1>2, <2>3 DEF Assigned
    <3>2. /\ own = loop.buffer \/ own = buffer
          /\ column = loop.column \/ column = buffer
      OBVIOUS
    <3>3. loop.file = k
      BY <2>3
    <3> HIDE DEF loop, own, column
    <3>4. /\ new[l].form = loop.form /\ new[l].at = loop.at /\ new[l].file = loop.file
          /\ new[l].split = loop.split /\ new[l].buffer = own /\ new[l].column = column
          /\ new[l].rest = loop.rest /\ new[l].size = size
      BY <2>1, <3>1 DEF Loop, loop
    <3>5. /\ loop.form = "assign" => loop.at = "read"
          /\ loop.form = "copy" => loop.at \in {"read", "column"}
      BY <2>1 DEF ReadOK, loop
    <3>6. HasText(new[l]) => k \in moved
      BY <2>1, <3>2, <3>3, <3>4 DEF ReadOK, HasText, loop
    <3>7. loop.form = "filter" => ~loop.split
      BY <2>1 DEF ReadOK, loop
    <3> QED BY <3>3, <3>4, <3>5, <3>6, <3>7 DEF ReadOK
  <2> QED BY <2>2, <2>3
<1> QED
  BY <1>1, <1>3 DEF AllRead, new

LEMMA FilterEndAssign ==
    ASSUME Inv, FilterInv, Moved \subseteq Moved', EndAssign
    PROVE  FilterInv'
<1> DEFINE outer == Front(loops)
<1>1. /\ loops # << >> /\ Top.at = "read" /\ Top.form = "assign"
      /\ UNCHANGED <<contents, opened>>
      /\ loops' = [outer EXCEPT ![Len(outer)] = Assigned(@, Top.buffer, Top.size)]
  BY DEF EndAssign, In, KeepProgram, KeepFiles
<1>2. /\ loops \in Seq(Loop) /\ AllRead(loops, Moved) /\ StackOK(loops, DOMAIN opened)
      /\ Len(loops) > 1 /\ loops[Len(loops) - 1].file = Top.file
  BY <1>1 DEF Inv, StackOK, FilterInv
<1>3. Top \in Loop /\ ReadOK(Top, Moved) /\ Top.buffer \in Text /\ Top.size \in Nat
  BY <1>1, FilterTop DEF Loop
<1>4. /\ StackOK(outer, DOMAIN opened) /\ outer \in Seq(Loop)
      /\ outer # << >> => Last(outer).at = "body" /\ ~Last(outer).alone
  BY <1>1, <1>2, StackPop DEF StackOK
<1>5. AllRead(outer, Moved)
  BY <1>1, <1>2, AllReadPop
<1>6. outer[Len(outer)].file = Top.file
  <2>1. /\ Len(outer) = Len(loops) - 1 /\ Len(loops) \in Nat
        /\ \A i \in 1 .. Len(loops) - 1 : outer[i] = loops[i]
    BY <1>1, <1>2, FrontOfSeq
  <2> HIDE DEF outer
  <2>2. Len(loops) - 1 \in 1 .. Len(loops) - 1
    BY <1>2, <2>1
  <2> QED BY <1>2, <2>1, <2>2
<1>7. /\ Top.buffer.from < Top.buffer.to => Top.file \in Moved
      /\ Top.size = 0 => Top.file \in Moved \/ Size(contents[Top.file]) = 0
  BY <1>1, <1>3 DEF ReadOK, HasText
<1> HIDE DEF outer
<1>8. AllRead(loops', Moved)
  <2> DEFINE moved == Moved
             buffer == Top.buffer
             size == Top.size
             k == Top.file
  <2> HIDE DEF moved, buffer, size, k
  <2>1. /\ AllRead(outer, moved) /\ outer[Len(outer)].file = k
        /\ buffer.from < buffer.to => k \in moved
        /\ size = 0 => k \in moved \/ Size(contents[k]) = 0
    BY <1>5, <1>6, <1>7 DEF moved, buffer, size, k
  <2>2. AllRead([outer EXCEPT ![Len(outer)] = Assigned(@, buffer, size)], moved)
    BY <1>4, <2>1, AllReadAssigned
  <2> QED BY <1>1, <2>2 DEF moved, buffer, size
<1>9. /\ StackOK(loops', DOMAIN opened)
      /\ loops' # << >> => Last(loops').alone = Last(outer).alone
  BY <1>1, <1>3, <1>4, StackSetLast
<1>10. loops' # << >> => outer # << >>
  <2> SUFFICES ASSUME outer = << >> PROVE loops' = << >>
    OBVIOUS
  <2>1. DOMAIN loops' = DOMAIN outer /\ DOMAIN outer = {}
    BY <1>1
  <2>2. loops' \in Seq(Loop)
    BY <1>9 DEF StackOK
  <2> QED BY <2>1, <2>2, EmptySeq, LenProperties
<1>11. Moved' = Moved
  BY <1>1 DEF Moved, Object
<1>12. AllRead(loops, Moved)'
  BY <1>1, <1>8, <1>11 DEF AllRead, ReadOK
<1>13. loops' # << >> => Last(loops').form # "assign"
  <2> SUFFICES ASSUME loops' # << >> PROVE Last(loops').form # "assign"
    OBVIOUS
  <2>1. loops' \in Seq(Loop) /\ outer # << >>
    BY <1>9, <1>10 DEF StackOK
  <2>2. Len(loops') \in DOMAIN loops' /\ Last(loops') = loops'[Len(loops')]
    BY <2>1, EmptySeq, LenProperties DEF Last
  <2>3. outer # << >> /\ DOMAIN loops' = DOMAIN outer
    BY <1>1, <2>1
  <2>4. Len(loops') = Len(outer) /\ Len(outer) \in DOMAIN outer
    BY <1>4, <2>1, <2>3, EmptySeq, LenProperties
  <2> DEFINE last == outer[Len(outer)]
  <2>5. last = Last(outer) /\ last \in Loop /\ last.at = "body" /\ ReadOK(last, Moved)
    BY <1>4, <1>5, <2>3, <2>4, ElementOfSeq, LenProperties DEF Last, AllRead
  <2>6. loops'[Len(loops')] = Assigned(last, Top.buffer, Top.size)
    BY <1>1, <2>4
  <2>7. Assigned(last, Top.buffer, Top.size).form = last.form
    <3> DEFINE own == IF last.split THEN last.buffer ELSE Top.buffer
               column == IF last.split THEN Top.buffer ELSE last.column
    <3>1. Assigned(last, Top.buffer, Top.size)
             = [last EXCEPT !.buffer = own, !.column = column, !.size = Top.size]
      BY DEF Assigned
    <3> HIDE DEF own, column, last
    <3> QED BY <2>5, <3>1 DEF Loop
  <2> HIDE DEF last
  <2> QED BY <2>2, <2>5, <2>6, <2>7 DEF ReadOK
<1> QED
  BY <1>4, <1>9, <1>10, <1>12, <1>13 DEF FilterInv, Top

LEMMA FilterCopyFile ==
    ASSUME Inv, FilterInv, Moved \subseteq Moved', CopyFile
    PROVE  FilterInv'
<1>1. /\ loops' = NoneAlone(loops) /\ UNCHANGED contents
      /\ loops # << >> => Top.at = "body"
  BY Zenon DEF CopyFile, CanBegin, Disturbed, NoneAlone
<1>2. loops \in Seq(Loop) /\ AllRead(loops, Moved) /\ StackOK(loops, DOMAIN opened)
  BY DEF Inv, StackOK, FilterInv
<1>3. AllRead(loops', Moved')
  <2> DEFINE more == Moved'
  <2> HIDE DEF more
  <2>1. Moved \subseteq more
    BY DEF more
  <2>2. AllRead(loops', more)
    BY <1>1, <1>2, <2>1, AllReadDisturbed
  <2> QED BY <2>2 DEF more
<1>4. /\ loops' \in Seq(Loop) /\ Len(loops') = Len(loops) /\ DOMAIN loops' = DOMAIN loops
      /\ \A l \in DOMAIN loops' : loops'[l].at = loops[l].at /\ ~loops'[l].alone
      /\ loops' = << >> <=> loops = << >>
  BY <1>1, <1>2, StackDisturbed DEF StackOK
<1>5. AllRead(loops, Moved)'
  BY <1>1, <1>3 DEF AllRead, ReadOK
<1>6. ASSUME loops' # << >>
      PROVE  ~Last(loops').alone /\ Last(loops').form # "assign"
  <2>1. /\ Len(loops') \in DOMAIN loops' /\ Last(loops') = loops'[Len(loops')]
        /\ Last(loops) = loops[Len(loops)]
    BY <1>4, <1>6, EmptySeq, LenProperties DEF Last
  <2>2. Last(loops').at = "body" /\ ~Last(loops').alone
    BY <1>1, <1>4, <1>6, <2>1 DEF Top
  <2>3. ReadOK(Last(loops'), Moved')
    BY <1>3, <2>1 DEF AllRead
  <2> QED BY <2>2, <2>3 DEF ReadOK
<1> QED
  BY <1>5, <1>6 DEF FilterInv, Top

LEMMA FilterCopyTranslating ==
    ASSUME Inv, FilterInv, Moved \subseteq Moved', CopyTranslating
    PROVE  FilterInv'
<1> DEFINE a == InStep(Content(1), Object(1)) /\ Object(1).pos = 0
           e == Started("copy", TRUE, "read", 1, BUFFER_SIZE, 0, 0, a)
<1>1. UNCHANGED contents /\ loops' = Append(Disturbed, e)
  BY DEF CopyTranslating, KeepFiles
<1>2. e.form = "copy" /\ e.at = "read" /\ ~HasText(e)
  BY DEF Started, HasText, EmptyText
<1> HIDE DEF e
<1>3. ReadOK(e, Moved')
  BY <1>2 DEF ReadOK
<1> QED
  BY <1>1, <1>2, <1>3, FilterBegins

LEMMA FilterReadCopy ==
    ASSUME Inv, FilterInv, Moved \subseteq Moved', ReadCopy
    PROVE  FilterInv'
<1> DEFINE r == lines(Content(Top.file), Object(Top.file), Top.buffer)
           e == [Top EXCEPT !.at = "column", !.buffer = r.buffer, !.rest = r.buffer]
<1>1. /\ loops # << >> /\ Top.at = "read" /\ Top.form = "copy"
      /\ UNCHANGED <<contents, is_directory, next_open_file>> /\ Called(r)
      /\ \/ r.size > 0 /\ SetTop(e)
         \/ loops' = Front(loops)
  BY DEF ReadCopy, In, KeepProgram, SetTop
<1>2. Top \in Loop /\ ReadOK(Top, Moved)
  BY <1>1, FilterTop
<1>3. Top.buffer \in Text /\ (Top.buffer.from < Top.buffer.to => Top.file \in Moved)
  BY <1>2 DEF Loop, ReadOK, HasText
<1>4. r.buffer.from < r.buffer.to => Top.file \in Moved'
  BY <1>1, <1>3, TextRead
<1> HIDE DEF r
<1>5. CASE SetTop(e)
  <2>1. /\ e.form = "copy" /\ e.at = "column" /\ e.file = Top.file
        /\ e.buffer = r.buffer /\ e.column = Top.column /\ e.rest = r.buffer
    BY <1>1, <1>2 DEF Loop
  <2> HIDE DEF e
  <2>2. ReadOK(e, Moved')
    BY <1>2, <1>4, <2>1 DEF ReadOK, HasText
  <2> QED BY <1>1, <1>5, <2>1, <2>2, OtherMoves
<1>6. CASE loops' = Front(loops)
  BY <1>1, <1>6, FilterEnds
<1> QED
  BY <1>1, <1>5, <1>6

LEMMA FilterCopyColumn ==
    ASSUME Inv, FilterInv, Moved \subseteq Moved', CopyColumn
    PROVE  FilterInv'
<1> DEFINE r == columns(Content(Top.file), Top.rest)
           written == Top.matched \o Written(Content(Top.file), r)
           more == [Top EXCEPT !.rest = r.rest, !.matched = written]
           done == [Top EXCEPT !.at = "read"]
<1>1. /\ loops # << >> /\ Top.at = "column" /\ Top.form = "copy"
      /\ UNCHANGED contents
      /\ \/ Top.rest.from < Top.rest.to /\ SetTop(more)
         \/ SetTop(done)
  BY DEF CopyColumn, In, Remaining, KeepProgram
<1>2. Top \in Loop /\ ReadOK(Top, Moved)
  BY <1>1, FilterTop
<1>3. Top.rest.from < Top.rest.to => Top.file \in Moved
  BY <1>2 DEF ReadOK, HasText
<1> HIDE DEF r, written
<1>4. /\ more.form = "copy" /\ more.at = "column" /\ more.file = Top.file
      /\ done.form = "copy" /\ done.at = "read" /\ done.file = Top.file
      /\ done.buffer = Top.buffer /\ done.column = Top.column /\ done.rest = Top.rest
  BY <1>1, <1>2 DEF Loop
<1> HIDE DEF more, done
<1>5. CASE Top.rest.from < Top.rest.to /\ SetTop(more)
  <2>1. ReadOK(more, Moved')
    BY <1>3, <1>4, <1>5 DEF ReadOK
  <2> QED BY <1>1, <1>4, <1>5, <2>1, OtherMoves
<1>6. CASE SetTop(done)
  <2>1. ReadOK(done, Moved')
    BY <1>2, <1>4 DEF ReadOK, HasText
  <2> QED BY <1>1, <1>4, <1>6, <2>1, OtherMoves
<1> QED
  BY <1>1, <1>5, <1>6

---------------------------------------------------------------------------
(* The theorem. *)

LEMMA FilterNext ==
    ASSUME Inv, FilterInv, [Next]_vars
    PROVE  FilterInv'
<1>1. Moved \subseteq Moved'
  BY MovedGrows
<1>2. CASE EndLoop
  BY <1>1, <1>2, FilterEnds DEF EndLoop, KeepProgram
<1>3. CASE Finish \/ UNCHANGED vars
  <2>1. UNCHANGED <<contents, opened, loops>>
    BY <1>3 DEF Finish, EndProcess, KeepProgram, vars
  <2> QED BY <2>1 DEF FilterInv, AllRead, ReadOK, Moved, Top, Content, Object
<1> QED
  BY <1>1, <1>2, <1>3, FilterBeginLoop, FilterNextFile, FilterByIndex, FilterSkipLine,
     FilterReads, FilterReadFilter, FilterEndFilter, FilterNextColumn, FilterEndBody,
     FilterAssign, FilterEndAssign, FilterCopyFile, FilterCopyTranslating,
     FilterReadCopy, FilterCopyColumn DEF Next

LEMMA FilterInvariance == Spec => [](Inv /\ FilterInv)
<1>1. Init => Inv /\ FilterInv
  <2>1. Init => loops = << >>
    BY DEF Init
  <2>2. DOMAIN << >> = {}
    OBVIOUS
  <2> QED BY <2>1, <2>2, InitOK DEF FilterInv, AllRead
<1>2. Inv /\ FilterInv /\ [Next]_vars => (Inv /\ FilterInv)'
  BY NextOK, FilterNext
<1> QED
  BY <1>1, <1>2, PTL DEF Spec

\* A filter that begins with pos at the beginning of a file, and is the only
\* statement to move it meanwhile, keeps every line with the word, in their
\* order, and no other; only the last line of the file may be kept twice.
THEOREM FilterComplete == Spec => []FilterKeepsTheMatches
<1>1. ASSUME Inv, FilterInv, loops # << >>, Top.alone,
             \/ Top.form = "filter" /\ Top.at = "next"
             \/ Top.form = "assign" /\ Top.size = 0
      PROVE  KeptUpTo(Content(Top.file), Size(Content(Top.file)), Top.matched, 0)
  BY <1>1 DEF FilterInv, Kept
<1>2. ASSUME NEW f, NEW kept, KeptUpTo(f, Size(f), kept, 0)
      PROVE  /\ {kept[i] : i \in DOMAIN kept} =
                   {[from |-> s, to |-> NextEnd(f, s)] :
                       s \in {t \in f.ends \cup {0} :
                                 /\ t < Size(f)
                                 /\ is_in_string(f, [from |-> t, to |-> NextEnd(f, t)])}}
             /\ \A i, j \in DOMAIN kept : i < j =>
                   \/ kept[i].to <= kept[j].from
                   \/ j = i + 1 /\ j = Len(kept) /\ kept[j].to = Size(f)
  BY <1>2 DEF KeptUpTo, Matches, Line
<1>3. Inv /\ FilterInv => FilterKeepsTheMatches
  BY <1>1, <1>2 DEF FilterKeepsTheMatches
<1> QED
  BY <1>3, FilterInvariance, PTL

=============================================================================
