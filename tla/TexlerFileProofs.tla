-------------------------- MODULE TexlerFileProofs --------------------------
(***************************************************************************)
(* What the runtime functions of TexlerFile do to a file, for every        *)
(* contents: lines never moves the position back, and on a file in step it *)
(* delivers the next line, or nothing at the end.                          *)
(***************************************************************************)
EXTENDS TexlerFile, Extrema, SequenceTheorems

\* The positions of a file object are inside the file.
InBounds(f, file) ==
    file \in TexlerFile /\ file.pos <= Size(f) /\ file.stream <= Size(f)

---------------------------------------------------------------------------
(* The ends of lines. *)

\* The size is the end of the last line.
LEMMA SizeIsLastEnd ==
    ASSUME NEW f \in Contents
    PROVE  /\ Size(f) \in Nat
           /\ Size(f) \in f.ends \cup {0}
           /\ \A e \in f.ends : e \in Nat /\ e > 0 /\ e <= Size(f)
           /\ IsFiniteSet(f.ends)
<1>1. f.ends \subseteq Nat \ {0} /\ IsFiniteSet(f.ends)
  BY ContentsAssumption
<1>2. IsFiniteSet(f.ends \cup {0})
  BY <1>1, FS_AddElement
<1> DEFINE S == f.ends \cup {0}
<1>3. S \in SUBSET Nat /\ S # {} /\ IsFiniteSet(S)
  BY <1>1, <1>2
<1>4. Max(S) \in S /\ \A y \in S : y <= Max(S)
  <2> HIDE DEF S
  <2> QED BY <1>3, MaxIsGreatest
<1> QED
  BY <1>1, <1>4 DEF Size

\* Before the end of the file there is a next end of a line.
LEMMA NextEndIsNext ==
    ASSUME NEW f \in Contents, NEW p \in Nat, p < Size(f)
    PROVE  /\ NextEnd(f, p) \in f.ends /\ NextEnd(f, p) \in Nat
           /\ p < NextEnd(f, p) /\ NextEnd(f, p) <= Size(f)
           /\ \A e \in f.ends : e > p => NextEnd(f, p) <= e
<1> DEFINE S == {e \in f.ends : e > p}
<1>1. S \in SUBSET Nat
  BY SizeIsLastEnd
<1>2. S # {}
  BY SizeIsLastEnd
<1>3. Min(S) \in S /\ \A y \in S : Min(S) <= y
  <2> HIDE DEF S
  <2> QED BY <1>1, <1>2, MinIsLeast
<1> QED
  BY <1>3, SizeIsLastEnd DEF NextEnd

\* Lines are counted by their ends.
LEMMA LinesBeforeCounts ==
    ASSUME NEW f \in Contents
    PROVE  /\ LineCount(f) \in Nat /\ LinesBefore(f, Size(f)) = LineCount(f)
           /\ \A p \in Nat :
                 LinesBefore(f, p) \in Nat /\ LinesBefore(f, p) <= LineCount(f)
           /\ \A p \in Nat : p < Size(f) =>
                 LinesBefore(f, NextEnd(f, p)) = LinesBefore(f, p) + 1
<1>1. ASSUME NEW p \in Nat
      PROVE  /\ IsFiniteSet({e \in f.ends : e <= p})
             /\ LinesBefore(f, p) \in Nat /\ LinesBefore(f, p) <= LineCount(f)
  <2>1. {e \in f.ends : e <= p} \in SUBSET f.ends
    OBVIOUS
  <2>2. /\ IsFiniteSet({e \in f.ends : e <= p})
        /\ Cardinality({e \in f.ends : e <= p}) <= Cardinality(f.ends)
    BY <2>1, SizeIsLastEnd, FS_Subset
  <2> QED BY <2>2, FS_CardinalityType DEF LinesBefore, LineCount
<1>2. {e \in f.ends : e <= Size(f)} = f.ends
  BY SizeIsLastEnd
<1>3. LineCount(f) \in Nat
  BY SizeIsLastEnd, FS_CardinalityType DEF LineCount
<1>4. ASSUME NEW p \in Nat, p < Size(f)
      PROVE  LinesBefore(f, NextEnd(f, p)) = LinesBefore(f, p) + 1
  <2> DEFINE n == NextEnd(f, p)
             S == {e \in f.ends : e <= p}
  <2>1. /\ n \in f.ends /\ n \in Nat /\ p < n
        /\ \A e \in f.ends : e > p => n <= e
    BY <1>4, NextEndIsNext
  <2>2. \A e \in f.ends : e \in Nat
    BY SizeIsLastEnd
  <2>3. {e \in f.ends : e <= n} = S \cup {n}
    <3> HIDE DEF n
    <3> QED BY <2>1, <2>2
  <2>4. n \notin S
    <3> HIDE DEF n
    <3> QED BY <2>1
  <2>5. IsFiniteSet(S)
    BY <1>1
  <2>6. Cardinality(S \cup {n}) = Cardinality(S) + 1
    <3> HIDE DEF n, S
    <3> QED BY <2>4, <2>5, FS_AddElement
  <2> QED BY <2>3, <2>6 DEF LinesBefore
<1> QED
  BY <1>1, <1>2, <1>3, <1>4 DEF LinesBefore, LineCount

---------------------------------------------------------------------------
(* Reading. *)

\* The length of a line is 0 only at the end of the file.
LEMMA LengthOK ==
    ASSUME NEW f \in Contents, NEW s \in Nat
    PROVE  /\ line_length(f, s) \in Nat
           /\ line_length(f, s) = 0 <=> s >= Size(f)
           /\ s < Size(f) => s + line_length(f, s) = NextEnd(f, s)
<1>1. Size(f) \in Nat
  BY SizeIsLastEnd
<1>2. CASE s < Size(f)
  <2>1. NextEnd(f, s) \in Nat /\ s < NextEnd(f, s)
    BY <1>2, NextEndIsNext
  <2>2. line_length(f, s) = NextEnd(f, s) - s
    BY <1>2 DEF line_length
  <2> QED BY <1>1, <1>2, <2>1, <2>2
<1>3. CASE ~(s < Size(f))
  BY <1>1, <1>3 DEF line_length
<1> QED
  BY <1>2, <1>3

\* Two naturals have a minimum.
LEMMA MinOfTwo ==
    ASSUME NEW a \in Nat, NEW b \in Nat
    PROVE  /\ Min({a, b}) \in {a, b}
           /\ Min({a, b}) <= a /\ Min({a, b}) <= b
           /\ a <= b => Min({a, b}) = a
<1> DEFINE S == {a, b}
<1>1. S \in SUBSET Nat /\ S # {}
  OBVIOUS
<1>2. Min(S) \in S /\ \A y \in S : Min(S) <= y
  <2> HIDE DEF S
  <2> QED BY <1>1, MinIsLeast
<1> QED
  BY <1>2

\* fgets ends after the position it starts from, and inside the file.
LEMMA FgetsOK ==
    ASSUME NEW f \in Contents, NEW p \in Nat, NEW length \in Nat, length > 0,
           NEW buffer \in Text
    PROVE  /\ Fgets(f, p, length, buffer) \in Text
           /\ p < Size(f) =>
                 /\ Fgets(f, p, length, buffer).from = p
                 /\ p < Fgets(f, p, length, buffer).to
                 /\ Fgets(f, p, length, buffer).to <= Size(f)
                 /\ p + length = NextEnd(f, p)
                       => Fgets(f, p, length, buffer).to = NextEnd(f, p)
<1>1. CASE p < Size(f)
  <2> DEFINE n == NextEnd(f, p)
             m == Min({n, p + length})
  <2>1. n \in Nat /\ p < n /\ n <= Size(f) /\ Size(f) \in Nat
    BY <1>1, NextEndIsNext, SizeIsLastEnd
  <2>2. p + length \in Nat
    OBVIOUS
  <2>3. m \in {n, p + length} /\ m <= n /\ (n <= p + length => m = n)
    <3> HIDE DEF n
    <3> QED BY <2>1, <2>2, MinOfTwo
  <2>4. Fgets(f, p, length, buffer) = [from |-> p, to |-> m]
    BY <1>1 DEF Fgets
  <2> HIDE DEF n, m
  <2>5. m \in Nat /\ p < m /\ m <= Size(f) /\ (p + length = n => m = n)
    BY <2>1, <2>2, <2>3
  <2> QED BY <1>1, <2>4, <2>5 DEF Text, n
<1>2. CASE ~(p < Size(f))
  <2>1. buffer.to \in Nat /\ buffer.from + length \in Nat
    BY DEF Text
  <2> DEFINE m == Min({buffer.to, buffer.from + length})
  <2>2. m \in Nat
    BY <2>1, MinOfTwo
  <2>3. Fgets(f, p, length, buffer) = [buffer EXCEPT !.to = m]
    BY <1>2 DEF Fgets
  <2> HIDE DEF m
  <2> QED BY <1>2, <2>2, <2>3 DEF Text
<1> QED
  BY <1>1, <1>2

\* lines keeps the object inside the file, and never moves it back.
LEMMA LinesOK ==
    ASSUME NEW f \in Contents, NEW file, InBounds(f, file), NEW buffer \in Text
    PROVE  LET r == lines(f, file, buffer)
           IN  /\ InBounds(f, r.file) /\ r.file.pos >= file.pos
               /\ r.buffer \in Text /\ r.size \in Nat
<1> DEFINE length == line_length(f, file.stream)
           text == Fgets(f, file.pos, length, buffer)
           end == IF file.pos < Size(f) THEN text.to ELSE file.pos
<1>1. /\ file \in TexlerFile /\ Size(f) \in Nat
      /\ file.stream \in Nat /\ file.pos \in Nat /\ file.n_line \in Nat
      /\ file.pos <= Size(f)
  BY SizeIsLastEnd DEF InBounds, TexlerFile
<1>2. length \in Nat
  BY <1>1, LengthOK
<1>3. CASE length = 0
  <2>1. lines(f, file, buffer) = [file |-> [file EXCEPT !.stream = file.pos],
                                  buffer |-> buffer, size |-> 0]
    BY <1>3 DEF lines
  <2> QED BY <1>1, <2>1 DEF InBounds, TexlerFile
<1>4. CASE length # 0
  <2> DEFINE new == [stream |-> end, pos |-> end, n_line |-> file.n_line + 1]
  <2>1. lines(f, file, buffer) = [file |-> new, buffer |-> text, size |-> length + 1]
    BY <1>4 DEF lines
  <2>2. length > 0
    BY <1>2, <1>4
  <2> HIDE DEF length
  <2>3. /\ text \in Text
        /\ file.pos < Size(f) => file.pos < text.to /\ text.to <= Size(f)
    BY <1>1, <1>2, <2>2, FgetsOK
  <2> HIDE DEF text
  <2>4. end \in Nat /\ end <= Size(f) /\ file.pos <= end
    BY <1>1, <2>3 DEF Text
  <2> HIDE DEF end
  <2>5. InBounds(f, new)
    BY <1>1, <2>4 DEF InBounds, TexlerFile
  <2> QED BY <1>1, <1>2, <2>1, <2>3, <2>4, <2>5
<1> QED
  BY <1>3, <1>4

\* On a file in step, lines delivers line n_line, or nothing at the end of the
\* file, and leaves it in step.
LEMMA LinesInStep ==
    ASSUME NEW f \in Contents, NEW file, InBounds(f, file), InStep(f, file),
           NEW buffer \in Text
    PROVE  LET r == lines(f, file, buffer)
           IN  /\ InStep(f, r.file)
               /\ r.size = 0 => r.file.n_line = file.n_line
                                /\ file.n_line = LineCount(f) + 1
               /\ r.size # 0 => /\ r.file.n_line = file.n_line + 1
                                /\ file.n_line <= LineCount(f)
                                /\ IsLineNumber(f, r.buffer, file.n_line)
                                /\ r.buffer.from = file.pos /\ file.pos < r.file.pos
                                /\ r.buffer.to = r.file.pos
<1> DEFINE length == line_length(f, file.stream)
           text == Fgets(f, file.pos, length, buffer)
           p == file.pos
<1>1. /\ file \in TexlerFile /\ Size(f) \in Nat
      /\ file.stream = p /\ p \in Nat /\ file.n_line \in Nat
      /\ p <= Size(f) /\ p \in f.ends \cup {0}
      /\ file.n_line = LinesBefore(f, p) + 1
  BY SizeIsLastEnd DEF InBounds, TexlerFile, InStep
<1>2. /\ length \in Nat /\ (length = 0 <=> p >= Size(f))
      /\ p < Size(f) => p + length = NextEnd(f, p)
  BY <1>1, LengthOK
<1>3. CASE length = 0
  <2>1. lines(f, file, buffer) = [file |-> [file EXCEPT !.stream = file.pos],
                                  buffer |-> buffer, size |-> 0]
    BY <1>3 DEF lines
  <2>2. p = Size(f)
    <3> HIDE DEF length, p
    <3> QED BY <1>1, <1>2, <1>3
  <2>3. file.n_line = LineCount(f) + 1
    BY <1>1, <2>2, LinesBeforeCounts
  <2>4. [file EXCEPT !.stream = file.pos] = file
    BY <1>1 DEF TexlerFile
  <2> QED BY <2>1, <2>3, <2>4
<1>4. CASE length # 0
  <2>1. p < Size(f) /\ length > 0
    <3> HIDE DEF length, p
    <3> QED BY <1>1, <1>2, <1>4
  <2> DEFINE new == [stream |-> text.to, pos |-> text.to, n_line |-> file.n_line + 1]
  <2>2. lines(f, file, buffer) = [file |-> new, buffer |-> text, size |-> length + 1]
    BY <1>4, <2>1 DEF lines
  <2> HIDE DEF length
  <2>3. text.from = p /\ text.to = NextEnd(f, p)
    BY <1>1, <1>2, <2>1, FgetsOK
  <2> HIDE DEF text
  <2>4. NextEnd(f, p) \in f.ends /\ NextEnd(f, p) \in Nat /\ p < NextEnd(f, p)
    BY <1>1, <2>1, NextEndIsNext
  <2>5. /\ LinesBefore(f, NextEnd(f, p)) = LinesBefore(f, p) + 1
        /\ LinesBefore(f, p) + 1 <= LineCount(f)
    BY <1>1, <2>1, <2>4, LinesBeforeCounts
  <2> HIDE DEF p
  <2>6. InStep(f, new)
    BY <1>1, <2>3, <2>4, <2>5 DEF InStep
  <2>7. IsLineNumber(f, text, file.n_line)
    BY <1>1, <2>1, <2>3, <2>4 DEF IsLineNumber, IsLine
  <2>8. length + 1 # 0
    BY <1>2
  <2>9. /\ new.n_line = file.n_line + 1 /\ new.pos = text.to
        /\ text.from = file.pos /\ file.pos < text.to
    BY <1>1, <2>3, <2>4 DEF p
  <2> HIDE DEF new
  <2> QED BY <1>1, <2>2, <2>5, <2>6, <2>7, <2>8, <2>9
<1> QED
  BY <1>3, <1>4

---------------------------------------------------------------------------
(* Columns. *)

\* columns splits a string that is not empty: the column is the string up to
\* its first separator, and the rest what is after it.
LEMMA ColumnsSplit ==
    ASSUME NEW f \in Contents, NEW str \in Text, str.from < str.to
    PROVE  LET r == columns(f, str)
           IN  /\ r.column \in Text /\ r.rest \in Text /\ r.size \in Nat
               /\ r.separator \in BOOLEAN
               /\ r.column.from = str.from /\ r.rest.to = str.to
               /\ str.from <= r.column.to /\ r.column.to <= str.to
               /\ r.size > 0 <=> r.column.from < r.column.to
               /\ \A o \in DOMAIN f.separators : o < str.from \/ r.column.to <= o
               /\ r.separator => /\ r.column.to \in DOMAIN f.separators
                                 /\ r.column.to < str.to
                                 /\ r.rest.from = r.column.to + 1
               /\ ~r.separator => r.column.to = str.to /\ r.rest.from = str.to
<1> DEFINE found == {o \in DOMAIN f.separators : str.from <= o /\ o < str.to}
           end == IF found = {} THEN str.to ELSE Min(found)
           size == IF end = str.from THEN 0 ELSE 1 + end - str.from
           after == IF found = {} THEN end ELSE end + 1
           column == [from |-> str.from, to |-> end]
           rest == [from |-> after, to |-> str.to]
           separator == found # {}
<1>1. str.from \in Nat /\ str.to \in Nat /\ DOMAIN f.separators \subseteq Nat
  BY ContentsAssumption DEF Text
<1>2. found # {} => Min(found) \in found /\ \A o \in found : Min(found) <= o
  <2>1. found \in SUBSET Nat
    BY <1>1
  <2> HIDE DEF found
  <2> QED BY <2>1, MinIsLeast
<1>3. /\ end \in Nat /\ str.from <= end /\ end <= str.to
      /\ separator => end \in DOMAIN f.separators /\ end < str.to /\ after = end + 1
      /\ ~separator => end = str.to /\ after = str.to
  <2>1. CASE found = {}
    <3>1. end = str.to /\ after = str.to /\ ~separator
      BY <2>1
    <3> HIDE DEF end, after, separator
    <3> QED BY <1>1, <3>1
  <2>2. CASE found # {}
    <3>1. end = Min(found) /\ after = end + 1 /\ separator
      BY <2>2
    <3>2. /\ Min(found) \in DOMAIN f.separators
          /\ str.from <= Min(found) /\ Min(found) < str.to
      BY <1>2, <2>2
    <3> HIDE DEF found, end, after, separator
    <3> QED BY <1>1, <3>1, <3>2
  <2> QED BY <2>1, <2>2
<1>4. ASSUME NEW o \in DOMAIN f.separators PROVE o < str.from \/ end <= o
  <2>1. o \in Nat /\ (found = {} \/ Min(found) \in Nat)
    BY <1>1, <1>2
  <2>2. CASE o \in found
    BY <1>2, <2>2
  <2>3. CASE o \notin found
    <3>1. o \in Nat /\ (o < str.from \/ str.to <= o)
      BY <1>1, <2>3
    <3> HIDE DEF end
    <3> QED BY <1>1, <1>3, <3>1
  <2> QED BY <2>2, <2>3
<1>5. columns(f, str) = [column |-> column, size |-> size, separator |-> separator,
                         rest |-> rest]
  BY DEF columns
<1>6. separator \in BOOLEAN
  OBVIOUS
<1> HIDE DEF found, separator
<1>7. after \in Nat
  BY <1>3, <1>6
<1> HIDE DEF end, after
<1>8. column \in Text /\ rest \in Text
  BY <1>1, <1>3, <1>7 DEF Text
<1>9. size \in Nat /\ (size > 0 <=> str.from < end)
  BY <1>1, <1>3
<1> HIDE DEF size
<1> QED
  BY <1>3, <1>4, <1>5, <1>6, <1>8, <1>9

\* Pieces that follow each other are pieces of the whole.
LEMMA PiecesConcat ==
    ASSUME NEW f, NEW s \in Seq(Text), NEW t \in Seq(Text), NEW a, NEW b, NEW c,
           Pieces(f, s, a, b), Pieces(f, t, b, c)
    PROVE  Pieces(f, s \o t, a, c) /\ s \o t \in Seq(Text)
<1> DEFINE m == Len(s)
           n == Len(t)
           u == s \o t
<1>1. /\ m \in Nat /\ n \in Nat /\ DOMAIN s = 1 .. m /\ DOMAIN t = 1 .. n
      /\ u \in Seq(Text) /\ Len(u) = m + n
      /\ \A i \in 1 .. m : u[i] = s[i]
      /\ \A i \in 1 .. n : u[m + i] = t[i]
      /\ (s = << >> <=> m = 0) /\ (t = << >> <=> n = 0)
  BY LenProperties, EmptySeq, ConcatProperties
<1>2. DOMAIN u = 1 .. m + n /\ (u = << >> <=> m + n = 0)
  BY <1>1, LenProperties, EmptySeq
<1> HIDE DEF m, n, u
<1>3. ASSUME NEW i \in 1 .. m + n
      PROVE  \/ i \in 1 .. m /\ u[i] = s[i]
             \/ i - m \in 1 .. n /\ u[i] = t[i - m]
  <2>1. CASE i <= m
    BY <1>1, <2>1
  <2>2. CASE ~(i <= m)
    <3>1. i - m \in 1 .. n /\ m + (i - m) = i
      BY <1>1, <2>2
    <3> QED BY <1>1, <3>1
  <2> QED BY <2>1, <2>2
<1>4. ASSUME NEW i \in 1 .. m + n
      PROVE  /\ u[i].from < u[i].to
             /\ \A o \in DOMAIN f.separators :
                   \/ o < u[i].from \/ u[i].to <= o
                   \/ u[i] = [from |-> o, to |-> o + 1]
  <2>1. CASE i \in 1 .. m /\ u[i] = s[i]
    BY <1>1, <2>1, Zenon DEF Pieces
  <2>2. CASE i - m \in 1 .. n /\ u[i] = t[i - m]
    BY <1>1, <2>2, Zenon DEF Pieces
  <2> QED BY <1>3, <2>1, <2>2
<1>5. ASSUME NEW i \in 1 .. m + n, i + 1 \in 1 .. m + n
      PROVE  \/ u[i + 1].from = u[i].to
             \/ u[i + 1] = u[i] /\ u[i].from \in DOMAIN f.separators
  <2>1. CASE i + 1 <= m
    <3>1. i \in 1 .. m /\ i + 1 \in 1 .. m
      BY <1>1, <2>1
    <3>2. u[i] = s[i] /\ u[i + 1] = s[i + 1]
      BY <1>1, <3>1, Zenon
    <3>3. \/ s[i + 1].from = s[i].to
          \/ s[i + 1] = s[i] /\ s[i].from \in DOMAIN f.separators
      BY <1>1, <3>1, Zenon DEF Pieces
    <3> QED BY <3>2, <3>3, Zenon
  <2>2. CASE i = m
    <3>1. m \in 1 .. m /\ 1 \in 1 .. n
      BY <1>1, <1>5, <2>2
    <3>2. s[m].to = b /\ t[1].from = b
      BY <1>1, <3>1 DEF Pieces, m
    <3>3. u[i] = s[m] /\ u[i + 1] = t[1]
      BY <1>1, <2>2, <3>1
    <3> QED BY <3>2, <3>3
  <2>3. CASE i > m
    <3> DEFINE j == i - m
    <3>1. j \in 1 .. n /\ j + 1 \in 1 .. n /\ m + j = i /\ m + (j + 1) = i + 1
      BY <1>1, <1>5, <2>3
    <3> HIDE DEF j
    <3>2. u[i] = t[j] /\ u[i + 1] = t[j + 1]
      BY <1>1, <3>1
    <3>3. \/ t[j + 1].from = t[j].to
          \/ t[j + 1] = t[j] /\ t[j].from \in DOMAIN f.separators
      BY <1>1, <3>1, Zenon DEF Pieces
    <3> QED BY <3>2, <3>3, Zenon
  <2>4. i + 1 <= m \/ i = m \/ i > m
    BY <1>1
  <2> QED BY <2>1, <2>2, <2>3, <2>4, Zenon
<1>6. IF u = << >> THEN a = c ELSE u[1].from = a /\ u[Len(u)].to = c
  <2>1. m > 0 => /\ 1 \in 1 .. m /\ m \in 1 .. m /\ u[1] = s[1] /\ u[m] = s[m]
                 /\ s[1].from = a /\ s[m].to = b
    BY <1>1 DEF Pieces, m
  <2>2. n > 0 => /\ 1 \in 1 .. n /\ n \in 1 .. n
                 /\ u[m + 1] = t[1] /\ u[m + n] = t[n]
                 /\ t[1].from = b /\ t[n].to = c
    BY <1>1 DEF Pieces, n
  <2>3. (m = 0 => a = b) /\ (n = 0 => b = c)
    BY <1>1 DEF Pieces
  <2> QED BY <1>1, <1>2, <2>1, <2>2, <2>3
<1> QED
  BY <1>1, <1>2, <1>4, <1>5, <1>6 DEF Pieces, u

\* A column without separators is a piece; so is a separator, as often as it is
\* written.
LEMMA PiecesOne ==
    ASSUME NEW f, NEW text \in Text, text.from < text.to,
           \A o \in DOMAIN f.separators : o < text.from \/ text.to <= o
    PROVE  Pieces(f, <<text>>, text.from, text.to) /\ <<text>> \in Seq(Text)
<1> DEFINE s == <<text>>
<1>1. s \in Seq(Text) /\ Len(s) = 1 /\ DOMAIN s = {1} /\ s[1] = text /\ s # << >>
  OBVIOUS
<1> HIDE DEF s
<1> QED
  BY <1>1 DEF Pieces, s

LEMMA PiecesRepeated ==
    ASSUME NEW f, NEW o \in Nat, o \in DOMAIN f.separators, NEW n \in Nat \ {0}
    PROVE  LET sep == [from |-> o, to |-> o + 1]
               s == [i \in 1 .. n |-> sep]
           IN  DOMAIN f.separators \subseteq Nat
               => Pieces(f, s, o, o + 1) /\ s \in Seq(Text)
<1> DEFINE sep == [from |-> o, to |-> o + 1]
           s == [i \in 1 .. n |-> sep]
<1> SUFFICES ASSUME DOMAIN f.separators \subseteq Nat
             PROVE  Pieces(f, s, o, o + 1) /\ s \in Seq(Text)
  OBVIOUS
<1>1. sep \in Text /\ sep.from = o /\ sep.to = o + 1 /\ sep.from < sep.to
  BY DEF Text
<1>2. \A p \in DOMAIN f.separators :
         p < sep.from \/ sep.to <= p \/ sep = [from |-> p, to |-> p + 1]
  <2> SUFFICES ASSUME NEW p \in DOMAIN f.separators, ~(p < o), ~(o + 1 <= p)
               PROVE  sep = [from |-> p, to |-> p + 1]
    BY <1>1
  <2>1. p = o
    OBVIOUS
  <2> QED BY <2>1
<1> HIDE DEF sep
<1>3. s \in [1 .. n -> Text] /\ \A i \in 1 .. n : s[i] = sep
  BY <1>1
<1> HIDE DEF s
<1>4. s \in Seq(Text)
  BY <1>3, SeqDef
<1>5. DOMAIN s = 1 .. n /\ Len(s) = n
  BY <1>3, <1>4, LenProperties
<1>6. s # << >> /\ 1 \in 1 .. n /\ n \in 1 .. n
  BY <1>4, <1>5, EmptySeq
<1> QED
  BY <1>1, <1>2, <1>3, <1>4, <1>5, <1>6 DEF Pieces, s, sep
============================================================================
