-------------------------- MODULE GeneratorProofs --------------------------
(***************************************************************************)
(* Theorems about Generator, for every program within the scale the module *)
(* is given: its type invariant, that the open blocks of the text are the  *)
(* ones the functions on the stack have still to close, and that a program *)
(* within the limits compiles. Inv adds what a frame of each function      *)
(* holds while the walk is below it: the calls of a loop that are left,    *)
(* the brace a conditional owes. Scoped adds what each function finds      *)
(* declared in the blocks below it when the walk returns to it.            *)
(***************************************************************************)
EXTENDS Generator, Extrema, SequenceTheorems

---------------------------------------------------------------------------
(* Sequences. *)

LEMMA FrontOf ==
    ASSUME NEW S, NEW s \in Seq(S), s # << >>
    PROVE  /\ Len(s) \in Nat \ {0} /\ DOMAIN s = 1 .. Len(s)
           /\ Last(s) = s[Len(s)] /\ Last(s) \in S
           /\ Front(s) \in Seq(S) /\ Len(Front(s)) = Len(s) - 1
           /\ \A i \in 1 .. Len(s) - 1 : Front(s)[i] = s[i]
<1> DEFINE n == Len(s)
           b == SubSeq(s, 1, n - 1)
<1>1. n \in Nat \ {0} /\ DOMAIN s = 1 .. n /\ \A i \in 1 .. n : s[i] \in S
  BY EmptySeq, LenProperties, ElementOfSeq
<1>2. b \in Seq(S) /\ Len(b) = n - 1 /\ \A i \in 1 .. n - 1 : b[i] = s[i]
  <2>1. 1 \in Int /\ n - 1 \in Int /\ \A i \in 1 .. n - 1 : s[i] \in S
    BY <1>1
  <2>2. /\ b \in Seq(S) /\ Len(b) = (IF 1 <= n - 1 THEN n - 1 - 1 + 1 ELSE 0)
        /\ \A i \in 1 .. n - 1 - 1 + 1 : b[i] = s[1 + i - 1]
    BY <2>1, SubSeqProperties
  <2> HIDE DEF b, n
  <2>3. n - 1 - 1 + 1 = n - 1 /\ \A i \in 1 .. n - 1 : 1 + i - 1 = i
    BY <1>1
  <2> QED BY <2>2, <2>3, <1>1
<1>3. Front(s) = b /\ Last(s) = s[n]
  BY DEF Front, Last
<1>4. Last(s) \in S
  <2>1. n \in 1 .. n
    BY <1>1
  <2> QED BY <2>1, <1>1, <1>3
<1> HIDE DEF b
<1> QED BY <1>1, <1>2, <1>3, <1>4

---------------------------------------------------------------------------
(* The C text. *)

TokenKinds == {"use", "var", "free", "open", "if", "check", "else", "end"}
Tokens == [do : TokenKinds, names : SUBSET Name]

LEMMA TokenIs ==
    ASSUME NEW do, NEW names
    PROVE  Token(do, names).do = do /\ Token(do, names).names = names
BY DEF Token

LEMMA TokensOK ==
    /\ \A names \in SUBSET Name :
          /\ Use(names) \in Tokens /\ Free(names) \in Tokens /\ While(names) \in Tokens
          /\ If(names) \in Tokens /\ Check(names) \in Tokens
    /\ \A name \in Name : Var(name) \in Tokens
    /\ Else \in Tokens /\ End \in Tokens
<1>1. ASSUME NEW do \in TokenKinds, NEW names \in SUBSET Name
      PROVE  Token(do, names) \in Tokens
  BY DEF Token, Tokens
<1>2. /\ \A names \in SUBSET Name :
            /\ Token("use", names) \in Tokens /\ Token("free", names) \in Tokens
            /\ Token("open", names) \in Tokens /\ Token("if", names) \in Tokens
            /\ Token("check", names) \in Tokens
      /\ \A name \in Name : Token("var", {name}) \in Tokens
      /\ Token("else", {}) \in Tokens /\ Token("end", {}) \in Tokens
  BY <1>1 DEF TokenKinds
<1> QED BY <1>2 DEF Use, Free, While, If, Check, Var, Else, End

\* The names of the C program.
LEMMA NamesOK ==
    /\ \A name \in Identifiers \cup LoopNames : User(name) \in Name
    /\ \A word \in Words : User(word) \in Name /\ Own(word) \in Name
    /\ \A name \in Name : FileOf(name) \in Name /\ Column(name) \in Name /\ User(name[2]) \in Name
<1>1. \A word \in Words : /\ <<"user", word>> \in Name /\ <<"own", word>> \in Name
                          /\ <<"file", word>> \in Name /\ <<"column", word>> \in Name
  BY DEF Name
<1>2. \A name \in Name : name[2] \in Words
  BY DEF Name
<1>3. Identifiers \cup LoopNames \subseteq Words
  BY DEF Words
<1> QED BY <1>1, <1>2, <1>3 DEF User, Own, FileOf, Column

\* Those the generator declares itself.
LEMMA OwnOK ==
    /\ \A word \in {"i", "the arguments", "_arithm_n", "_isnum", "_line_line", "(null)",
                    "_at_implementation_ret", "_byIndex_implementation",
                    "_columns_len_implementation", "_constant_number_if",
                    "_copy_loop_var_type_len", "_copy_loop_var_type_has_newline"} :
          Own(word) \in Name
    /\ NULL \in Name /\ LineLength \in Name /\ Remaining \in Name /\ Separator \in Name
    /\ User("output") \in Name
<1>1. {"output", "i", "(null)", "the arguments", "_arithm_n", "_isnum", "_line_line",
       "_line_len_implementation", "_at_implementation_ret", "_byIndex_implementation",
       "_columns_len_implementation", "_columns_remaining_implementation",
       "_columns_separator_char_implementation", "_constant_number_if",
       "_copy_loop_var_type_len", "_copy_loop_var_type_has_newline"} \subseteq Words
  BY DEF Words
<1> QED BY <1>1, NamesOK DEF NULL, LineLength, Remaining, Separator

LEMMA BlocksHold ==
    ASSUME NEW b \in Seq(Block)
    PROVE  /\ Len(b) \in Nat /\ DOMAIN b = 1 .. Len(b)
           /\ \A i \in 1 .. Len(b) : b[i] \in Block
           /\ Len(b) > 0 => Len(b) \in 1 .. Len(b) /\ b # << >>
<1>1. Len(b) \in Nat /\ DOMAIN b = 1 .. Len(b)
  BY LenProperties
<1>2. \A i \in 1 .. Len(b) : b[i] \in Block
  BY ElementOfSeq
<1> QED BY <1>1, <1>2, EmptySeq

LEMMA OpenedIs ==
    ASSUME NEW b \in Seq(Block), NEW if \in BOOLEAN
    PROVE  /\ Opened(b, if) \in Seq(Block) /\ Len(Opened(b, if)) = Len(b) + 1
           /\ \A i \in 1 .. Len(b) : Opened(b, if)[i] = b[i]
           /\ Opened(b, if)[Len(b) + 1] = [names |-> {}, freed |-> {}, if |-> if]
<1> DEFINE x == [names |-> {}, freed |-> {}, if |-> if]
<1>1. x \in Block
  BY DEF Block
<1> HIDE DEF x
<1>2. /\ Append(b, x) \in Seq(Block) /\ Len(Append(b, x)) = Len(b) + 1
      /\ \A i \in 1 .. Len(b) : Append(b, x)[i] = b[i]
      /\ Append(b, x)[Len(b) + 1] = x
  BY <1>1, AppendProperties
<1> QED BY <1>2 DEF Opened, x

\* The innermost block changes.
LEMMA InnermostIs ==
    ASSUME NEW b \in Seq(Block), Len(b) > 0, NEW x \in Block
    PROVE  /\ [b EXCEPT ![Len(b)] = x] \in Seq(Block)
           /\ Len([b EXCEPT ![Len(b)] = x]) = Len(b)
           /\ [b EXCEPT ![Len(b)] = x][Len(b)] = x
           /\ \A i \in 1 .. Len(b) : i # Len(b) => [b EXCEPT ![Len(b)] = x][i] = b[i]
<1>1. Len(b) \in 1 .. Len(b)
  BY BlocksHold
<1> QED BY <1>1, ExceptSeq

LEMMA VarIs ==
    ASSUME NEW b \in Seq(Block), Len(b) > 0, NEW names \in SUBSET Name
    PROVE  LET k == Len(b)
               u == Printed(b, Token("var", names))
           IN  /\ u \in Seq(Block) /\ Len(u) = k
               /\ \A i \in 1 .. k : i # k => u[i] = b[i]
               /\ u[k].names = b[k].names \cup names
               /\ u[k].freed = b[k].freed \ names
               /\ u[k].if = b[k].if
<1> DEFINE k == Len(b)
           x == [names |-> b[k].names \cup names, freed |-> b[k].freed \ names, if |-> b[k].if]
           u == [b EXCEPT ![k] = x]
<1>1. k \in 1 .. k /\ b[k] \in Block
  BY BlocksHold
<1>2. x \in Block
  BY <1>1 DEF Block
<1>3. Printed(b, Token("var", names)) = u
  <2>1. k \in DOMAIN b
    BY <1>1, BlocksHold
  <2> QED BY <2>1 DEF Printed, Token
<1>4. x.names = b[k].names \cup names /\ x.freed = b[k].freed \ names /\ x.if = b[k].if
  OBVIOUS
<1> HIDE DEF x
<1>5. /\ u \in Seq(Block) /\ Len(u) = k /\ u[k] = x
      /\ \A i \in 1 .. k : i # k => u[i] = b[i]
  BY <1>2, InnermostIs
<1> HIDE DEF u
<1> QED BY <1>3, <1>4, <1>5

LEMMA FreeIs ==
    ASSUME NEW b \in Seq(Block), Len(b) > 0, NEW names \in SUBSET Name
    PROVE  LET k == Len(b)
               u == Printed(b, Token("free", names))
           IN  /\ u \in Seq(Block) /\ Len(u) = k
               /\ \A i \in 1 .. k : i # k => u[i] = b[i]
               /\ u[k].names = b[k].names
               /\ u[k].freed = b[k].freed \cup names
               /\ u[k].if = b[k].if
<1> DEFINE k == Len(b)
           x == [names |-> b[k].names, freed |-> b[k].freed \cup names, if |-> b[k].if]
           u == [b EXCEPT ![k] = x]
<1>1. k \in 1 .. k /\ b[k] \in Block
  BY BlocksHold
<1>2. x \in Block
  BY <1>1 DEF Block
<1>3. Printed(b, Token("free", names)) = u
  <2>1. k \in DOMAIN b
    BY <1>1, BlocksHold
  <2> QED BY <2>1 DEF Printed, Token
<1>4. x.names = b[k].names /\ x.freed = b[k].freed \cup names /\ x.if = b[k].if
  OBVIOUS
<1> HIDE DEF x
<1>5. /\ u \in Seq(Block) /\ Len(u) = k /\ u[k] = x
      /\ \A i \in 1 .. k : i # k => u[i] = b[i]
  BY <1>2, InnermostIs
<1> HIDE DEF u
<1> QED BY <1>3, <1>4, <1>5

LEMMA EndIs ==
    ASSUME NEW b \in Seq(Block), Len(b) > 0
    PROVE  LET u == Printed(b, End)
           IN  /\ u \in Seq(Block) /\ Len(u) = Len(b) - 1
               /\ \A i \in 1 .. Len(b) - 1 : u[i] = b[i]
<1>1. b # << >>
  BY BlocksHold
<1>2. Printed(b, End) = Front(b)
  BY DEF Printed, End, Token
<1> QED BY <1>1, <1>2, FrontOf

LEMMA OthersAre ==
    ASSUME NEW b, NEW names
    PROVE  /\ Printed(b, Token("use", names)) = b /\ Printed(b, Token("check", names)) = b
           /\ Printed(b, Token("open", names)) = Opened(b, FALSE)
           /\ Printed(b, Token("else", names)) = Opened(b, FALSE)
           /\ Printed(b, Token("if", names)) = Opened(b, TRUE)
           /\ ~ Len(b) > 0 =>
                 /\ Printed(b, Token("var", names)) = b
                 /\ Printed(b, Token("free", names)) = b
                 /\ Printed(b, Token("end", names)) = b
<1>1. /\ Printed(b, Token("use", names)) = b /\ Printed(b, Token("check", names)) = b
  BY DEF Printed, Token
<1>2. /\ Printed(b, Token("open", names)) = Opened(b, FALSE)
      /\ Printed(b, Token("else", names)) = Opened(b, FALSE)
      /\ Printed(b, Token("if", names)) = Opened(b, TRUE)
  BY DEF Printed, Token
<1>3. ASSUME ~ Len(b) > 0
      PROVE  /\ Printed(b, Token("var", names)) = b
             /\ Printed(b, Token("free", names)) = b
             /\ Printed(b, Token("end", names)) = b
  BY <1>3 DEF Printed, Token
<1> QED BY <1>1, <1>2, <1>3

LEMMA PrintedOK ==
    ASSUME NEW b \in Seq(Block), NEW token \in Tokens
    PROVE  Printed(b, token) \in Seq(Block)
<1>1. token.do \in TokenKinds /\ token.names \in SUBSET Name
      /\ token = Token(token.do, token.names)
  BY DEF Tokens, Token
<1> DEFINE names == token.names
<1>2. CASE ~ Len(b) > 0 /\ token.do \in {"var", "free", "end"}
  <2>1. /\ Printed(b, Token("var", names)) = b
        /\ Printed(b, Token("free", names)) = b
        /\ Printed(b, Token("end", names)) = b
    BY <1>2, OthersAre
  <2>2. Printed(b, token) = b
    <3>1. CASE token.do = "var"
      BY <1>1, <2>1, <3>1
    <3>2. CASE token.do = "free"
      BY <1>1, <2>1, <3>2
    <3>3. CASE token.do = "end"
      BY <1>1, <2>1, <3>3
    <3> QED BY <1>2, <3>1, <3>2, <3>3
  <2> QED BY <2>2
<1>3. CASE token.do \in {"use", "check", "open", "else", "if"}
  <2>1. /\ Printed(b, Token("use", names)) = b /\ Printed(b, Token("check", names)) = b
        /\ Printed(b, Token("open", names)) = Opened(b, FALSE)
        /\ Printed(b, Token("else", names)) = Opened(b, FALSE)
        /\ Printed(b, Token("if", names)) = Opened(b, TRUE)
    BY OthersAre
  <2>2. Opened(b, FALSE) \in Seq(Block) /\ Opened(b, TRUE) \in Seq(Block)
    BY OpenedIs
  <2>3. CASE token.do = "use" \/ token.do = "check"
    BY <1>1, <2>1, <2>3
  <2>4. CASE token.do = "open" \/ token.do = "else"
    BY <1>1, <2>1, <2>2, <2>4
  <2>5. CASE token.do = "if"
    BY <1>1, <2>1, <2>2, <2>5
  <2> QED BY <1>3, <2>3, <2>4, <2>5
<1>4. CASE Len(b) > 0 /\ token.do = "var"
  BY <1>1, <1>4, VarIs
<1>5. CASE Len(b) > 0 /\ token.do = "free"
  BY <1>1, <1>5, FreeIs
<1>6. CASE Len(b) > 0 /\ token.do = "end"
  <2>1. Printed(b, token) = Printed(b, End)
    BY <1>6 DEF Printed, End, Token
  <2> QED BY <2>1, <1>6, EndIs
<1> QED BY <1>1, <1>2, <1>3, <1>4, <1>5, <1>6 DEF TokenKinds

\* The text and a token.
LEMMA TextIs ==
    ASSUME NEW t, NEW token
    PROVE  /\ (t ++ token).blocks = Printed(t.blocks, token)
           /\ (t ++ token).after = ElseMayFollow(t, token)
           /\ (t ++ token).errors = t.errors \cup Wrong(t, token)
<1>1. t ++ token = TextAfter(t, token)
  BY DEF ++
<1>2. /\ TextAfter(t, token).blocks = Printed(t.blocks, token)
      /\ TextAfter(t, token).after = ElseMayFollow(t, token)
      /\ TextAfter(t, token).errors = t.errors \cup Wrong(t, token)
  BY DEF TextAfter
<1> QED BY <1>1, <1>2

LEMMA TextOK ==
    ASSUME NEW t \in Text, NEW token \in Tokens PROVE t ++ token \in Text
<1> DEFINE b == t.blocks
<1>1. b \in Seq(Block) /\ t.errors \in SUBSET Errors
  BY DEF Text
<1>2. Printed(b, token) \in Seq(Block)
  BY <1>1, PrintedOK
<1>3. t.errors \cup Wrong(t, token) \in SUBSET Errors
  <2>1. Wrong(t, token) \in SUBSET Errors
    BY DEF Wrong, When, Errors
  <2> QED BY <2>1, <1>1
<1>4. ElseMayFollow(t, token) \in BOOLEAN
  <2>1. b # << >> => Last(b).if \in BOOLEAN
    <3>1. ASSUME b # << >> PROVE Last(b) \in Block
      <4> HIDE DEF b
      <4> QED BY <1>1, <3>1, FrontOf
    <3> QED BY <3>1 DEF Block
  <2> QED BY <2>1 DEF ElseMayFollow
<1>5. TextAfter(t, token) \in Text
  BY <1>2, <1>3, <1>4 DEF Text, TextAfter
<1> QED BY <1>5 DEF ++

\* Every natural number, by induction on a set.
LEMMA EveryNatural ==
    ASSUME NEW S, 0 \in S, \A n \in Nat : n \in S => n + 1 \in S
    PROVE  Nat \subseteq S
<1> SUFFICES ASSUME Nat \ S # {} PROVE FALSE
  OBVIOUS
<1> DEFINE C == Nat \ S
           m == Min(C)
<1>1. m \in C /\ \A k \in C : m <= k
  <2>1. C \in SUBSET Nat /\ C # {}
    OBVIOUS
  <2> HIDE DEF C
  <2> QED BY <2>1, MinIsLeast
<1> HIDE DEF m
<1>2. m \in Nat /\ m # 0 /\ m - 1 \in Nat
  BY <1>1
<1>3. m - 1 \in S
  <2>1. ~ m <= m - 1
    BY <1>2
  <2> QED BY <1>1, <1>2, <2>1
<1>4. (m - 1) + 1 = m
  BY <1>2
<1>5. (m - 1) + 1 \in S
  BY <1>2, <1>3
<1> QED BY <1>1, <1>4, <1>5

---------------------------------------------------------------------------
(* The depth of the text, token by token. *)

Depth(t) == Len(t.blocks)

LEMMA DepthIs ==
    ASSUME NEW t \in Text PROVE Depth(t) \in Nat /\ t.blocks \in Seq(Block)
<1>1. t.blocks \in Seq(Block)
  BY DEF Text
<1> QED BY <1>1, BlocksHold DEF Depth

\* A token that is neither a brace nor followed by one.
LEMMA FlatToken ==
    ASSUME NEW t \in Text, NEW token \in Tokens, token.do \in {"use", "var", "free", "check"}
    PROVE  t ++ token \in Text /\ Depth(t ++ token) = Depth(t)
<1> DEFINE b == t.blocks
           names == token.names
<1>1. b \in Seq(Block) /\ Len(b) \in Nat
  BY DepthIs DEF Depth
<1>2. names \in SUBSET Name /\ token = Token(token.do, names)
  BY DEF Tokens, Token
<1>3. Len(Printed(b, token)) = Len(b)
  <2> HIDE DEF b, names
  <2>1. Printed(b, Token("use", names)) = b /\ Printed(b, Token("check", names)) = b
    BY OthersAre
  <2>2. ~ Len(b) > 0 =>
          Printed(b, Token("var", names)) = b /\ Printed(b, Token("free", names)) = b
    BY OthersAre
  <2>3. Len(b) > 0 => Len(Printed(b, Token("var", names))) = Len(b)
    BY <1>1, <1>2, VarIs
  <2>4. Len(b) > 0 => Len(Printed(b, Token("free", names))) = Len(b)
    BY <1>1, <1>2, FreeIs
  <2>5. CASE token.do = "use" \/ token.do = "check"
    BY <1>2, <2>1, <2>5
  <2>6. CASE token.do = "var"
    BY <1>2, <2>2, <2>3, <2>6
  <2>7. CASE token.do = "free"
    BY <1>2, <2>2, <2>4, <2>7
  <2> QED BY <2>5, <2>6, <2>7
<1> QED BY <1>3, TextIs, TextOK DEF Depth

\* An opening brace.
LEMMA OpenToken ==
    ASSUME NEW t \in Text, NEW token \in Tokens, token.do \in {"open", "if", "else"}
    PROVE  t ++ token \in Text /\ Depth(t ++ token) = Depth(t) + 1
<1> DEFINE b == t.blocks
           names == token.names
<1>1. b \in Seq(Block) /\ Len(b) \in Nat
  BY DepthIs DEF Depth
<1>2. token = Token(token.do, names)
  BY DEF Tokens, Token
<1>3. Len(Printed(b, token)) = Len(b) + 1
  <2> HIDE DEF b, names
  <2>1. /\ Printed(b, Token("open", names)) = Opened(b, FALSE)
        /\ Printed(b, Token("else", names)) = Opened(b, FALSE)
        /\ Printed(b, Token("if", names)) = Opened(b, TRUE)
    BY OthersAre
  <2>2. Len(Opened(b, FALSE)) = Len(b) + 1 /\ Len(Opened(b, TRUE)) = Len(b) + 1
    BY <1>1, OpenedIs
  <2>3. CASE token.do = "open" \/ token.do = "else"
    BY <1>2, <2>1, <2>2, <2>3
  <2>4. CASE token.do = "if"
    BY <1>2, <2>1, <2>2, <2>4
  <2> QED BY <2>3, <2>4
<1> QED BY <1>3, TextIs, TextOK DEF Depth

\* The tokens of the generator.
LEMMA FlatOK ==
    /\ \A t \in Text, names \in SUBSET Name :
          /\ t ++ Use(names) \in Text /\ Depth(t ++ Use(names)) = Depth(t)
          /\ t ++ Free(names) \in Text /\ Depth(t ++ Free(names)) = Depth(t)
          /\ t ++ Check(names) \in Text /\ Depth(t ++ Check(names)) = Depth(t)
    /\ \A t \in Text, name \in Name :
          t ++ Var(name) \in Text /\ Depth(t ++ Var(name)) = Depth(t)
<1>1. \A names \in SUBSET Name :
         /\ Use(names) \in Tokens /\ Free(names) \in Tokens /\ Check(names) \in Tokens
         /\ Use(names).do = "use" /\ Free(names).do = "free" /\ Check(names).do = "check"
  BY TokensOK, TokenIs DEF Use, Free, Check
<1>2. \A name \in Name : Var(name) \in Tokens /\ Var(name).do = "var"
  BY TokensOK, TokenIs DEF Var
<1> QED BY <1>1, <1>2, FlatToken

LEMMA OpenOK ==
    ASSUME NEW t \in Text
    PROVE  /\ \A names \in SUBSET Name :
                 /\ t ++ While(names) \in Text /\ Depth(t ++ While(names)) = Depth(t) + 1
                 /\ t ++ If(names) \in Text /\ Depth(t ++ If(names)) = Depth(t) + 1
           /\ t ++ Else \in Text /\ Depth(t ++ Else) = Depth(t) + 1
<1>1. \A names \in SUBSET Name :
         /\ While(names) \in Tokens /\ If(names) \in Tokens
         /\ While(names).do = "open" /\ If(names).do = "if"
  BY TokensOK, TokenIs DEF While, If
<1>2. Else \in Tokens /\ Else.do = "else"
  BY TokensOK, TokenIs DEF Else
<1> QED BY <1>1, <1>2, OpenToken

LEMMA EndOK ==
    ASSUME NEW t \in Text
    PROVE  /\ t ++ End \in Text
           /\ Depth(t) > 0 => Depth(t ++ End) = Depth(t) - 1
<1>1. t ++ End \in Text
  BY TokensOK, TextOK
<1>2. ASSUME Depth(t) > 0 PROVE Depth(t ++ End) = Depth(t) - 1
  <2>1. t.blocks \in Seq(Block) /\ Len(t.blocks) > 0
    BY <1>2, DepthIs DEF Depth
  <2>2. Len(Printed(t.blocks, End)) = Len(t.blocks) - 1
    BY <2>1, EndIs
  <2> QED BY <2>2, TextIs DEF Depth
<1> QED BY <1>1, <1>2

LEMMA AllocatedOK ==
    ASSUME NEW t \in Text, NEW name \in Name
    PROVE  Allocated(t, name) \in Text /\ Depth(Allocated(t, name)) = Depth(t)
<1>1. {name} \in SUBSET Name
  OBVIOUS
<1> QED BY <1>1, FlatOK DEF Allocated

---------------------------------------------------------------------------
(* One token after the other. *)

\* A function of the first naturals that is defined by its own values before.
LEMMA PrintEachIs ==
    ASSUME NEW t \in Text, NEW tokens, Len(tokens) \in Nat,
           \A k \in 1 .. Len(tokens) : tokens[k] \in Tokens
    PROVE  \E f \in [0 .. Len(tokens) -> Text] :
              /\ f[0] = t /\ PrintEach(t, tokens) = f[Len(tokens)]
              /\ \A k \in 1 .. Len(tokens) : f[k] = f[k - 1] ++ tokens[k]
<1> DEFINE n == Len(tokens)
           Is(f, m) == f = [k \in 0 .. m |-> IF k = 0 THEN t ELSE f[k - 1] ++ tokens[k]]
           D == {m \in Nat : m <= n => \E f \in [0 .. m -> Text] : Is(f, m)}
<1>1. 0 \in D
  <2>1. Is([k \in 0 .. 0 |-> t], 0) /\ [k \in 0 .. 0 |-> t] \in [0 .. 0 -> Text]
    OBVIOUS
  <2> QED BY <2>1
<1>2. ASSUME NEW m \in Nat, m \in D PROVE m + 1 \in D
  <2> SUFFICES ASSUME m + 1 <= n PROVE \E g \in [0 .. m + 1 -> Text] : Is(g, m + 1)
    OBVIOUS
  <2>1. PICK f \in [0 .. m -> Text] : Is(f, m)
    BY <1>2
  <2> DEFINE g == [k \in 0 .. m + 1 |-> IF k = m + 1 THEN f[m] ++ tokens[m + 1] ELSE f[k]]
  <2>2. f[m] \in Text /\ tokens[m + 1] \in Tokens
    BY <2>1
  <2>3. f[m] ++ tokens[m + 1] \in Text
    BY <2>2, TextOK
  <2>4. g \in [0 .. m + 1 -> Text]
    BY <2>1, <2>3
  <2>5. ASSUME NEW k \in 0 .. m + 1
        PROVE  g[k] = IF k = 0 THEN t ELSE g[k - 1] ++ tokens[k]
    <3>1. CASE k = m + 1
      <4>1. k - 1 = m /\ k # 0 /\ m \in 0 .. m + 1 /\ m # m + 1
        BY <3>1
      <4>2. g[m] = f[m]
        BY <4>1
      <4> QED BY <3>1, <4>1, <4>2
    <3>2. CASE k # m + 1
      <4>1. k \in 0 .. m /\ (k # 0 => k - 1 \in 0 .. m /\ k - 1 # m + 1)
        BY <3>2
      <4>2. f[k] = IF k = 0 THEN t ELSE f[k - 1] ++ tokens[k]
        BY <2>1, <4>1
      <4>3. g[k] = f[k] /\ (k # 0 => g[k - 1] = f[k - 1])
        BY <3>2, <4>1
      <4> QED BY <4>2, <4>3
    <3> QED BY <3>1, <3>2
  <2>6. Is(g, m + 1)
    <3>1. g = [k \in 0 .. m + 1 |-> g[k]]
      OBVIOUS
    <3> HIDE DEF g
    <3>2. [k \in 0 .. m + 1 |-> g[k]]
            = [k \in 0 .. m + 1 |-> IF k = 0 THEN t ELSE g[k - 1] ++ tokens[k]]
      BY <2>5
    <3> QED BY <3>1, <3>2
  <2> QED BY <2>4, <2>6
<1>3. n \in D
  <2> HIDE DEF D
  <2> QED BY <1>1, <1>2, EveryNatural
<1>4. PICK f \in [0 .. n -> Text] : Is(f, n)
  BY <1>3
<1> DEFINE printed == CHOOSE h : Is(h, n)
<1>5. Is(printed, n)
  BY <1>4
<1>6. PrintEach(t, tokens) = printed[n]
  BY DEF PrintEach
<1>7. DOMAIN printed = 0 .. n /\ printed[0] = t
      /\ \A k \in 1 .. n : printed[k] = printed[k - 1] ++ tokens[k]
  <2> HIDE DEF printed
  <2>1. \A k \in 0 .. n : printed[k] = IF k = 0 THEN t ELSE printed[k - 1] ++ tokens[k]
    BY <1>5
  <2> QED BY <1>5, <2>1
<1>8. printed \in [0 .. n -> Text]
  <2> DEFINE E == {m \in Nat : m <= n => printed[m] \in Text}
  <2> HIDE DEF printed
  <2>1. 0 \in E
    BY <1>7
  <2>2. ASSUME NEW m \in Nat, m \in E PROVE m + 1 \in E
    <3> SUFFICES ASSUME m + 1 <= n PROVE printed[m + 1] \in Text
      OBVIOUS
    <3>1. printed[m] \in Text /\ tokens[m + 1] \in Tokens
      BY <2>2
    <3>2. m + 1 \in 1 .. n /\ (m + 1) - 1 = m
      OBVIOUS
    <3>3. printed[m + 1] = printed[m] ++ tokens[m + 1]
      BY <1>7, <3>2
    <3> QED BY <3>1, <3>3, TextOK
  <2> HIDE DEF E
  <2>3. Nat \subseteq E
    BY <2>1, <2>2, EveryNatural
  <2>4. \A m \in 0 .. n : printed[m] \in Text
    BY <2>3 DEF E
  <2>5. printed = [m \in 0 .. n |-> printed[m]]
    BY <1>5
  <2> QED BY <2>4, <2>5
<1> HIDE DEF printed
<1> QED BY <1>6, <1>7, <1>8


\* Declarations, one after the other.
LEMMA FlatEach ==
    ASSUME NEW t \in Text, NEW tokens, Len(tokens) \in Nat,
           \A k \in 1 .. Len(tokens) : tokens[k] \in Tokens /\ tokens[k].do = "var"
    PROVE  PrintEach(t, tokens) \in Text /\ Depth(PrintEach(t, tokens)) = Depth(t)
<1> DEFINE n == Len(tokens)
<1>1. PICK f \in [0 .. n -> Text] :
              /\ f[0] = t /\ PrintEach(t, tokens) = f[n]
              /\ \A k \in 1 .. n : f[k] = f[k - 1] ++ tokens[k]
  BY PrintEachIs
<1> DEFINE D == {m \in Nat : m <= n => Depth(f[m]) = Depth(t)}
<1>2. 0 \in D
  BY <1>1
<1>3. ASSUME NEW m \in Nat, m \in D PROVE m + 1 \in D
  <2> SUFFICES ASSUME m + 1 <= n PROVE Depth(f[m + 1]) = Depth(t)
    OBVIOUS
  <2>1. m + 1 \in 1 .. n /\ (m + 1) - 1 = m /\ m \in 0 .. n /\ Depth(f[m]) = Depth(t)
    BY <1>3
  <2>2. f[m + 1] = f[m] ++ tokens[m + 1] /\ f[m] \in Text
    BY <1>1, <2>1
  <2> QED BY <2>1, <2>2, FlatToken
<1> HIDE DEF D
<1>4. n \in D
  BY <1>2, <1>3, EveryNatural
<1>5. n \in 0 .. n
  OBVIOUS
<1> QED BY <1>1, <1>4, <1>5 DEF D

\* Closing braces.
LEMMA ClosedOK ==
    ASSUME NEW t \in Text, NEW n \in Nat
    PROVE  /\ Closed(t, n) \in Text
           /\ Depth(t) >= n => Depth(Closed(t, n)) = Depth(t) - n
<1> DEFINE ends == [k \in 1 .. n |-> End]
<1>1. Len(ends) = n /\ \A k \in 1 .. n : ends[k] = End
  <2>1. ends \in Seq({End}) /\ Len(ends) = n
    BY IsASeq, LenProperties
  <2> QED BY <2>1
<1>2. \A k \in 1 .. Len(ends) : ends[k] \in Tokens
  BY <1>1, TokensOK
<1> HIDE DEF ends
<1>3. PICK f \in [0 .. n -> Text] :
              /\ f[0] = t /\ PrintEach(t, ends) = f[n]
              /\ \A k \in 1 .. n : f[k] = f[k - 1] ++ End
  <2>1. PICK f \in [0 .. Len(ends) -> Text] :
              /\ f[0] = t /\ PrintEach(t, ends) = f[Len(ends)]
              /\ \A k \in 1 .. Len(ends) : f[k] = f[k - 1] ++ ends[k]
    BY <1>1, <1>2, PrintEachIs
  <2>2. \A k \in 1 .. n : f[k] = f[k - 1] ++ End
    BY <1>1, <2>1
  <2> QED BY <1>1, <2>1, <2>2
<1>4. Closed(t, n) = f[n] /\ n \in 0 .. n
  BY <1>3 DEF Closed, ends
<1>5. ASSUME Depth(t) >= n PROVE Depth(f[n]) = Depth(t) - n
  <2> DEFINE D == {m \in Nat : m <= n => Depth(f[m]) = Depth(t) - m}
  <2>1. Depth(t) \in Nat
    BY DepthIs
  <2>2. 0 \in D
    BY <1>3, <2>1
  <2>3. ASSUME NEW m \in Nat, m \in D PROVE m + 1 \in D
    <3> SUFFICES ASSUME m + 1 <= n PROVE Depth(f[m + 1]) = Depth(t) - (m + 1)
      OBVIOUS
    <3>1. m + 1 \in 1 .. n /\ (m + 1) - 1 = m /\ m \in 0 .. n /\ Depth(f[m]) = Depth(t) - m
      BY <2>3
    <3>2. f[m + 1] = f[m] ++ End /\ f[m] \in Text
      BY <1>3, <3>1
    <3>3. Depth(f[m]) > 0
      BY <1>5, <2>1, <3>1
    <3>4. Depth(f[m] ++ End) = Depth(f[m]) - 1
      BY <3>2, <3>3, EndOK
    <3> QED BY <2>1, <3>1, <3>2, <3>4
  <2> HIDE DEF D
  <2>4. n \in D
    BY <2>2, <2>3, EveryNatural
  <2> QED BY <2>4 DEF D
<1> QED BY <1>3, <1>4, <1>5

---------------------------------------------------------------------------
(* The stack of calls, by its top. *)

LEMMA StackIs ==
    ASSUME NEW s \in Seq(Frame), s # << >>
    PROVE  /\ Front(s) \in Seq(Frame) /\ Last(s) \in Frame
           /\ s = Append(Front(s), Last(s)) /\ Len(s) = Len(Front(s)) + 1
           /\ Len(Front(s)) \in Nat
<1> DEFINE b == Front(s)
           f == Last(s)
           n == Len(s)
<1>1. /\ n \in Nat \ {0} /\ DOMAIN s = 1 .. n /\ f = s[n] /\ f \in Frame
      /\ b \in Seq(Frame) /\ Len(b) = n - 1
      /\ \A i \in 1 .. n - 1 : b[i] = s[i]
  BY FrontOf
<1> HIDE DEF b, f, n
<1>2. /\ Append(b, f) \in Seq(Frame) /\ Len(Append(b, f)) = n
      /\ \A i \in 1 .. n - 1 : Append(b, f)[i] = b[i]
      /\ Append(b, f)[n] = f
  <2>1. /\ Append(b, f) \in Seq(Frame) /\ Len(Append(b, f)) = Len(b) + 1
        /\ \A i \in 1 .. Len(b) : Append(b, f)[i] = b[i]
        /\ Append(b, f)[Len(b) + 1] = f
    BY <1>1, AppendProperties
  <2>2. Len(b) = n - 1 /\ Len(b) + 1 = n
    BY <1>1
  <2> QED BY <2>1, <2>2
<1>3. \A i \in 1 .. n : s[i] = Append(b, f)[i]
  <2> TAKE i \in 1 .. n
  <2>1. i = n \/ i \in 1 .. n - 1
    BY <1>1
  <2> QED BY <1>1, <1>2, <2>1
<1>4. Len(Append(b, f)) = Len(s) /\ Len(s) = n
  BY <1>2 DEF n
<1>5. s = Append(b, f)
  BY <1>1, <1>2, <1>3, <1>4, SeqEqual
<1>6. Len(s) = Len(b) + 1 /\ Len(b) \in Nat
  BY <1>1 DEF n
<1> QED BY <1>1, <1>5, <1>6 DEF b, f

\* A frame on top of others.
LEMMA OnTop ==
    ASSUME NEW s \in Seq(Frame), NEW f \in Frame
    PROVE  /\ Append(s, f) \in Seq(Frame) /\ Append(s, f) # << >>
           /\ Front(Append(s, f)) = s /\ Last(Append(s, f)) = f
           /\ Len(Append(s, f)) = Len(s) + 1 /\ DOMAIN Append(s, f) = 1 .. Len(s) + 1
           /\ \A i \in 1 .. Len(s) : Append(s, f)[i] = s[i]
           /\ Append(s, f)[Len(s) + 1] = f
           /\ s \o <<f>> = Append(s, f)
<1> DEFINE a == Append(s, f)
<1>1. /\ a \in Seq(Frame) /\ Len(a) = Len(s) + 1 /\ Len(s) \in Nat
      /\ \A i \in 1 .. Len(s) : a[i] = s[i]
      /\ a[Len(s) + 1] = f
  BY AppendProperties, LenProperties
<1>2. a # << >> /\ DOMAIN a = 1 .. Len(s) + 1
  BY <1>1, EmptySeq, LenProperties
<1> HIDE DEF a
<1>3. /\ Front(a) \in Seq(Frame) /\ Len(Front(a)) = Len(s) /\ Last(a) = f
      /\ \A i \in 1 .. Len(s) : Front(a)[i] = a[i]
  <2>1. /\ Last(a) = a[Len(a)]
        /\ Front(a) \in Seq(Frame) /\ Len(Front(a)) = Len(a) - 1
        /\ \A i \in 1 .. Len(a) - 1 : Front(a)[i] = a[i]
    BY <1>1, <1>2, FrontOf
  <2>2. Len(a) - 1 = Len(s)
    BY <1>1
  <2> QED BY <1>1, <2>1, <2>2
<1>4. Front(a) = s
  <2>1. Front(a) \in Seq(Frame) /\ Len(Front(a)) = Len(s)
        /\ \A i \in 1 .. Len(Front(a)) : Front(a)[i] = s[i]
    BY <1>1, <1>3
  <2> QED BY <2>1, SeqEqual
<1>5. s \o <<f>> = Append(s, f)
  BY AppendIsConcat
<1> QED BY <1>1, <1>2, <1>3, <1>4, <1>5 DEF a

---------------------------------------------------------------------------
(* The braces that are owed. *)

Owes(s) == Cardinality(Owed(s))

LEMMA OwesMore ==
    ASSUME NEW s \in Seq(Frame), IsFiniteSet(Owed(s)), NEW f \in Frame
    PROVE  IsFiniteSet(Owed(Append(s, f))) /\ Owes(Append(s, f)) = Owes(s) + f.braces
<1> DEFINE n == Len(s) + 1
           M == {n} \X (1 .. f.braces)
<1>1. f.braces \in Nat /\ Len(s) \in Nat
  BY LenProperties DEF Frame
<1>2. Owed(Append(s, f)) = Owed(s) \cup M
  <2>1. DOMAIN Append(s, f) = 1 .. n /\ DOMAIN s = 1 .. Len(s)
    BY OnTop, LenProperties
  <2>2. 1 .. n = (1 .. Len(s)) \cup {n}
    BY <1>1
  <2>3. \A i \in 1 .. Len(s) : Append(s, f)[i] = s[i]
    BY OnTop
  <2>4. Append(s, f)[n] = f
    BY OnTop
  <2>5. Owed(Append(s, f))
          = UNION {{i} \X (1 .. Append(s, f)[i].braces) : i \in (1 .. Len(s)) \cup {n}}
    BY <2>1, <2>2 DEF Owed
  <2>6. Owed(s) = UNION {{i} \X (1 .. s[i].braces) : i \in 1 .. Len(s)}
    BY <2>1 DEF Owed
  <2>7. UNION {{i} \X (1 .. Append(s, f)[i].braces) : i \in (1 .. Len(s)) \cup {n}}
          = (UNION {{i} \X (1 .. s[i].braces) : i \in 1 .. Len(s)})
            \cup ({n} \X (1 .. f.braces))
    BY <2>3, <2>4
  <2> QED BY <2>5, <2>6, <2>7
<1>3. IsFiniteSet(M) /\ Cardinality(M) = f.braces
  <2>1. IsFiniteSet({n}) /\ Cardinality({n}) = 1
    BY FS_Singleton
  <2>2. IsFiniteSet(1 .. f.braces) /\ Cardinality(1 .. f.braces) = f.braces
    <3>1. /\ IsFiniteSet(1 .. f.braces)
          /\ Cardinality(1 .. f.braces) = IF 1 > f.braces THEN 0 ELSE f.braces - 1 + 1
      <4>1. 1 \in Int /\ f.braces \in Int
        BY <1>1
      <4> QED BY <4>1, FS_Interval
    <3> QED BY <1>1, <3>1
  <2>3. IsFiniteSet(M) /\ Cardinality(M) = 1 * f.braces
    BY <2>1, <2>2, FS_Product
  <2> QED BY <1>1, <2>3
<1>4. Owed(s) \cap M = {}
  <2>1. DOMAIN s = 1 .. Len(s)
    BY LenProperties
  <2>2. \A p \in Owed(s) : p[1] \in 1 .. Len(s)
    BY <2>1 DEF Owed
  <2>3. n \notin 1 .. Len(s)
    BY <1>1
  <2>4. \A p \in M : p[1] = n
    OBVIOUS
  <2> QED BY <2>2, <2>3, <2>4
<1> HIDE DEF M
<1>5. /\ IsFiniteSet(Owed(s) \cup M)
      /\ Cardinality(Owed(s) \cup M)
           = Cardinality(Owed(s)) + Cardinality(M) - Cardinality(Owed(s) \cap M)
  BY <1>3, FS_Union
<1>6. Cardinality(Owed(s) \cap M) = 0 /\ Cardinality(Owed(s)) \in Nat
  BY <1>4, FS_EmptySet, FS_CardinalityType
<1> QED BY <1>1, <1>2, <1>3, <1>5, <1>6 DEF Owes

LEMMA OwedFinite ==
    ASSUME NEW s \in Seq(Frame)
    PROVE  IsFiniteSet(Owed(s)) /\ Owes(s) \in Nat /\ Owes(<< >>) = 0
<1> DEFINE D == {n \in Nat : \A q \in Seq(Frame) : Len(q) = n => IsFiniteSet(Owed(q))}
<1>0. Owed(<< >>) = {}
  BY DEF Owed
<1>1. 0 \in D
  <2>1. ASSUME NEW q \in Seq(Frame), Len(q) = 0 PROVE IsFiniteSet(Owed(q))
    <3>1. q = << >>
      BY <2>1, EmptySeq
    <3> QED BY <1>0, <3>1, FS_EmptySet
  <2> QED BY <2>1
<1>2. ASSUME NEW n \in Nat, n \in D PROVE n + 1 \in D
  <2>1. ASSUME NEW q \in Seq(Frame), Len(q) = n + 1 PROVE IsFiniteSet(Owed(q))
    <3>1. q # << >>
      BY <2>1, EmptySeq
    <3>2. /\ Front(q) \in Seq(Frame) /\ Last(q) \in Frame
          /\ q = Append(Front(q), Last(q)) /\ Len(q) = Len(Front(q)) + 1
          /\ Len(Front(q)) \in Nat
      BY <3>1, StackIs
    <3>3. Len(Front(q)) = n
      BY <2>1, <3>2
    <3>4. IsFiniteSet(Owed(Front(q)))
      BY <1>2, <3>2, <3>3
    <3>5. IsFiniteSet(Owed(Append(Front(q), Last(q))))
      BY <3>2, <3>4, OwesMore
    <3> QED BY <3>2, <3>5
  <2> QED BY <2>1
<1> HIDE DEF D
<1>3. Nat \subseteq D
  BY <1>1, <1>2, EveryNatural
<1>4. Len(s) \in Nat
  BY LenProperties
<1>5. IsFiniteSet(Owed(s))
  BY <1>3, <1>4 DEF D
<1>6. Cardinality(Owed(s)) \in Nat /\ Cardinality(Owed(<< >>)) = 0
  BY <1>0, <1>5, FS_CardinalityType, FS_EmptySet
<1> QED BY <1>5, <1>6 DEF Owes

\* One frame more, and one frame less.
LEMMA OwesTop ==
    ASSUME NEW s \in Seq(Frame)
    PROVE  /\ Owes(s) \in Nat
           /\ \A f \in Frame : Owes(Append(s, f)) = Owes(s) + f.braces
           /\ s # << >> => Owes(Front(s)) \in Nat /\ Owes(s) = Owes(Front(s)) + Last(s).braces
<1>1. \A q \in Seq(Frame) : IsFiniteSet(Owed(q)) /\ Owes(q) \in Nat
  BY OwedFinite
<1>2. \A q \in Seq(Frame), f \in Frame : Owes(Append(q, f)) = Owes(q) + f.braces
  BY <1>1, OwesMore
<1>3. ASSUME s # << >>
      PROVE  Owes(Front(s)) \in Nat /\ Owes(s) = Owes(Front(s)) + Last(s).braces
  <2>1. Front(s) \in Seq(Frame) /\ Last(s) \in Frame /\ s = Append(Front(s), Last(s))
    BY <1>3, StackIs
  <2>2. Owes(Append(Front(s), Last(s))) = Owes(Front(s)) + Last(s).braces
    BY <1>2, <2>1
  <2> QED BY <1>1, <2>1, <2>2
<1> QED BY <1>1, <1>2, <1>3


---------------------------------------------------------------------------
(* Frames. *)

LEMMA CallIs ==
    ASSUME NEW fun \in Functions
    PROVE  /\ Call(fun) \in Frame /\ Call(fun).fun = fun /\ Call(fun).braces = 0
           /\ Call(fun).chain = << >> /\ Call(fun).at = 0
<1>1. NULL \in Name /\ << >> \in Seq(Name)
  BY OwnOK, EmptySeq
<1> QED BY <1>1 DEF Call, Frame

LEMMA DoneIs ==
    ASSUME NEW f \in Frame
    PROVE  LET g == [f EXCEPT !.done = TRUE]
           IN  /\ g \in Frame /\ g.fun = f.fun /\ g.braces = f.braces
               /\ g.chain = f.chain /\ g.at = f.at
BY DEF Frame

LEMMA FreesIs ==
    ASSUME NEW f \in Frame, NEW frees \in Seq(Name)
    PROVE  LET g == [f EXCEPT !.frees = frees]
           IN  /\ g \in Frame /\ g.fun = f.fun /\ g.braces = f.braces
               /\ g.chain = f.chain /\ g.at = f.at
BY DEF Frame

LEMMA StepIs ==
    ASSUME NEW f \in Frame, f.at > 0, NEW braces \in Nat
    PROVE  LET g == [f EXCEPT !.at = @ - 1, !.braces = @ + braces]
           IN  /\ g \in Frame /\ g.fun = f.fun /\ g.braces = f.braces + braces
               /\ g.chain = f.chain /\ g.at = f.at - 1
<1>1. f.at - 1 \in Nat /\ f.braces + braces \in Nat
  BY DEF Frame
<1> QED BY <1>1 DEF Frame

ColumnsFrame(f, var, braces) ==
    [f EXCEPT !.fun = "columns", !.var = var, !.braces = @ + braces]

LEMMA ColumnsFrameIs ==
    ASSUME NEW f \in Frame, NEW var \in Name, NEW braces \in Nat
    PROVE  LET g == ColumnsFrame(f, var, braces)
           IN  /\ g \in Frame /\ g.fun = "columns" /\ g.braces = f.braces + braces
               /\ g.chain = f.chain /\ g.at = f.at
<1>1. f.braces + braces \in Nat /\ "columns" \in Functions
  BY DEF Frame, Functions
<1> QED BY <1>1 DEF ColumnsFrame, Frame

LEMMA AfterColumnsIs ==
    ASSUME NEW f \in Frame, f.at > 0
    PROVE  LET g == [f EXCEPT !.fun = "calls", !.var = User(@[2]), !.braces = 0,
                              !.done = TRUE, !.at = @ - 1]
           IN  /\ g \in Frame /\ g.fun = "calls" /\ g.braces = 0
               /\ g.chain = f.chain /\ g.at = f.at - 1
<1>1. f.at - 1 \in Nat /\ "calls" \in Functions
  BY DEF Frame, Functions
<1>2. User(f.var[2]) \in Name
  BY NamesOK DEF Frame
<1> QED BY <1>1, <1>2 DEF Frame

LEMMA ElseIs ==
    ASSUME NEW f \in Frame
    PROVE  LET g == [f EXCEPT !.fun = "else"]
           IN  /\ g \in Frame /\ g.fun = "else" /\ g.braces = f.braces
               /\ g.chain = f.chain /\ g.at = f.at
<1>1. "else" \in Functions
  BY DEF Functions
<1> QED BY <1>1 DEF Frame

LoopFrame(name, chain, index) ==
    [Call("calls") EXCEPT !.braces = 1, !.var = name, !.chain = chain,
                          !.at = Len(chain), !.index = index]

LEMMA LoopFrameIs ==
    ASSUME NEW name \in Name, NEW chain \in Chains, NEW index \in Name
    PROVE  LET f == LoopFrame(name, chain, index)
           IN  /\ f \in Frame /\ f.fun = "calls" /\ f.braces = 1
               /\ f.chain = chain /\ f.at = Len(chain)
<1>1. Call("calls") \in Frame /\ Call("calls").fun = "calls"
  BY CallIs DEF Functions
<1>2. Len(chain) \in Nat
  BY ChainsAssumption, LenProperties
<1> QED BY <1>1, <1>2 DEF LoopFrame, Frame

\* The frames that an expression calls.
LEMMA CalledOK ==
    /\ \A name \in Name :
         LET f == [Call("list") EXCEPT !.working = name]
         IN  /\ f \in Frame /\ f.fun = "list" /\ f.braces = 0
    /\ \A name \in Name :
         LET f == [Call("range") EXCEPT !.braces = 1, !.var = name]
         IN  /\ f \in Frame /\ f.fun = "range" /\ f.braces = 1
    /\ \A frees \in Seq(Name) :
         LET f == [Call("then") EXCEPT !.braces = 1, !.frees = frees]
         IN  /\ f \in Frame /\ f.fun = "then" /\ f.braces = 1
    /\ LET f == [Call("else") EXCEPT !.braces = 1]
       IN  /\ f \in Frame /\ f.fun = "else" /\ f.braces = 1
<1>0. \A fun \in Functions : Call(fun) \in Frame /\ Call(fun).fun = fun /\ Call(fun).braces = 0
  BY CallIs
<1>1. {"list", "range", "calls", "then", "else"} \subseteq Functions
  BY DEF Functions
<1>2. ASSUME NEW name \in Name
      PROVE  LET f == [Call("list") EXCEPT !.working = name]
             IN  /\ f \in Frame /\ f.fun = "list" /\ f.braces = 0
  <2>1. Call("list") \in Frame /\ Call("list").fun = "list" /\ Call("list").braces = 0
    BY <1>0, <1>1
  <2> QED BY <2>1 DEF Frame
<1>3. ASSUME NEW name \in Name
      PROVE  LET f == [Call("range") EXCEPT !.braces = 1, !.var = name]
             IN  /\ f \in Frame /\ f.fun = "range" /\ f.braces = 1
  <2>1. Call("range") \in Frame /\ Call("range").fun = "range"
    BY <1>0, <1>1
  <2> QED BY <2>1 DEF Frame
<1>5. ASSUME NEW frees \in Seq(Name)
      PROVE  LET f == [Call("then") EXCEPT !.braces = 1, !.frees = frees]
             IN  /\ f \in Frame /\ f.fun = "then" /\ f.braces = 1
  <2>1. Call("then") \in Frame /\ Call("then").fun = "then"
    BY <1>0, <1>1
  <2> QED BY <2>1 DEF Frame
<1>6. LET f == [Call("else") EXCEPT !.braces = 1]
      IN  /\ f \in Frame /\ f.fun = "else" /\ f.braces = 1
  <2>1. Call("else") \in Frame /\ Call("else").fun = "else"
    BY <1>0, <1>1
  <2> QED BY <2>1 DEF Frame
<1> QED BY <1>2, <1>3, <1>5, <1>6

---------------------------------------------------------------------------
(* The stack of calls. *)

\* What a function on the stack owes by its kind, and where it is in its
\* chain. In a program within the limits its calls are ordered.
Fits(f, asked) ==
    /\ f.fun \in {"list", "expression"} => f.braces = 0
    /\ f.fun \in {"then", "else"} => f.braces = 1
    /\ f.fun \in {"calls", "columns"} =>
          f.at <= Len(f.chain) /\ (asked = {} => Ordered(f.chain))
    /\ f.fun = "columns" => f.at > 0

Stack(s, asked) ==
    /\ s \in Seq(Frame) /\ s # << >>
    /\ s[1].fun = "list"
    /\ \A i \in 1 .. Len(s) : Fits(s[i], asked)

LEMMA StackTop ==
    ASSUME NEW s, NEW asked, Stack(s, asked)
    PROVE  /\ s \in Seq(Frame) /\ s # << >> /\ Len(s) \in Nat \ {0} /\ DOMAIN s = 1 .. Len(s)
           /\ Front(s) \in Seq(Frame) /\ Last(s) \in Frame /\ Last(s) = s[Len(s)]
           /\ Fits(Last(s), asked)
           /\ Owes(s) \in Nat /\ Owes(Front(s)) \in Nat
           /\ Owes(s) = Owes(Front(s)) + Last(s).braces
           /\ Len(s) # 1 => Stack(Front(s), asked)
           /\ Last(s).fun # "list" => Stack(Front(s), asked) /\ Len(s) # 1
<1>1. /\ s \in Seq(Frame) /\ s # << >> /\ s[1].fun = "list"
      /\ \A i \in 1 .. Len(s) : Fits(s[i], asked)
  BY DEF Stack
<1>2. /\ Len(s) \in Nat \ {0} /\ DOMAIN s = 1 .. Len(s)
      /\ Last(s) = s[Len(s)] /\ Last(s) \in Frame
      /\ Front(s) \in Seq(Frame) /\ Len(Front(s)) = Len(s) - 1
      /\ \A i \in 1 .. Len(s) - 1 : Front(s)[i] = s[i]
  BY <1>1, FrontOf
<1>3. Fits(Last(s), asked)
  <2>1. Len(s) \in 1 .. Len(s)
    BY <1>2
  <2> QED BY <1>1, <1>2, <2>1
<1>4. /\ Owes(s) \in Nat /\ Owes(Front(s)) \in Nat
      /\ Owes(s) = Owes(Front(s)) + Last(s).braces
  BY <1>1, OwesTop
<1>5. ASSUME Len(s) # 1 PROVE Stack(Front(s), asked)
  <2>1. Len(Front(s)) > 0 /\ 1 \in 1 .. Len(s) - 1
    BY <1>2, <1>5
  <2>2. Front(s) # << >>
    BY <1>2, <2>1, EmptySeq
  <2>3. Front(s)[1].fun = "list"
    BY <1>1, <1>2, <2>1
  <2>4. \A i \in 1 .. Len(Front(s)) : Fits(Front(s)[i], asked)
    BY <1>1, <1>2
  <2> QED BY <1>2, <2>2, <2>3, <2>4 DEF Stack
<1>6. Last(s).fun # "list" => Len(s) # 1
  BY <1>1, <1>2
<1> QED BY <1>1, <1>2, <1>3, <1>4, <1>5, <1>6

LEMMA PushOK ==
    ASSUME NEW s, NEW asked, Stack(s, asked), NEW f \in Frame, Fits(f, asked)
    PROVE  /\ Stack(Append(s, f), asked) /\ Owes(Append(s, f)) = Owes(s) + f.braces
           /\ s \o <<f>> = Append(s, f)
<1>1. /\ s \in Seq(Frame) /\ s # << >> /\ s[1].fun = "list"
      /\ \A i \in 1 .. Len(s) : Fits(s[i], asked)
      /\ Len(s) \in Nat \ {0}
  BY StackTop DEF Stack
<1> DEFINE a == Append(s, f)
<1>2. /\ a \in Seq(Frame) /\ a # << >>
      /\ Len(a) = Len(s) + 1
      /\ \A i \in 1 .. Len(s) : a[i] = s[i]
      /\ a[Len(s) + 1] = f
      /\ s \o <<f>> = a
  BY <1>1, OnTop
<1> HIDE DEF a
<1>3. a[1].fun = "list"
  BY <1>1, <1>2
<1>4. \A i \in 1 .. Len(a) : Fits(a[i], asked)
  BY <1>1, <1>2
<1>5. Stack(a, asked)
  BY <1>2, <1>3, <1>4 DEF Stack
<1> QED BY <1>1, <1>2, <1>5, OwesTop DEF a

\* The function on top changes.
LEMMA ReplaceOK ==
    ASSUME NEW s, NEW asked, Stack(s, asked), NEW f \in Frame, Fits(f, asked),
           f.fun = "list" <=> Last(s).fun = "list"
    PROVE  /\ Stack(Append(Front(s), f), asked)
           /\ Owes(Append(Front(s), f)) = Owes(Front(s)) + f.braces
<1>1. /\ s \in Seq(Frame) /\ s # << >> /\ Front(s) \in Seq(Frame)
      /\ Last(s).fun # "list" => Stack(Front(s), asked)
      /\ \A i \in 1 .. Len(s) : Fits(s[i], asked)
      /\ s[1].fun = "list" /\ Len(s) \in Nat \ {0}
      /\ Last(s) = s[Len(s)]
  BY StackTop DEF Stack
<1>2. Owes(Append(Front(s), f)) = Owes(Front(s)) + f.braces
  BY <1>1, OwesTop
<1>3. CASE f.fun # "list"
  BY <1>1, <1>2, <1>3, PushOK
<1>4. CASE f.fun = "list"
  <2> DEFINE b == Front(s)
             a == Append(b, f)
  <2>1. /\ b \in Seq(Frame) /\ Len(b) = Len(s) - 1
        /\ \A i \in 1 .. Len(s) - 1 : b[i] = s[i]
    BY <1>1, FrontOf
  <2> HIDE DEF b
  <2>2. /\ a \in Seq(Frame) /\ a # << >>
        /\ Len(a) = Len(b) + 1
        /\ \A i \in 1 .. Len(b) : a[i] = b[i]
        /\ a[Len(b) + 1] = f
    BY <2>1, OnTop
  <2> HIDE DEF a
  <2>3. /\ Len(a) = Len(s) /\ a[Len(s)] = f
        /\ \A i \in 1 .. Len(s) - 1 : a[i] = s[i]
    BY <1>1, <2>1, <2>2
  <2>4. a[1].fun = "list"
    BY <1>1, <1>4, <2>3
  <2>5. \A i \in 1 .. Len(a) : Fits(a[i], asked)
    BY <1>1, <2>3
  <2>6. Stack(a, asked)
    BY <2>2, <2>4, <2>5 DEF Stack
  <2> QED BY <1>2, <2>6 DEF a, b
<1> QED BY <1>3, <1>4

LEMMA WeakenOK ==
    ASSUME NEW s, NEW asked, Stack(s, asked), NEW more
    PROVE  Stack(s, asked \cup more)
<1>1. \A f : Fits(f, asked) => Fits(f, asked \cup more)
  BY DEF Fits
<1> QED BY <1>1 DEF Stack

\* The innermost list, and the one that holds the stack of free calls.
LEMMA InnermostFunction ==
    ASSUME NEW asked, Stack(calls, asked), NEW functions, "list" \in functions
    PROVE  /\ InnermostOf(functions) \in 1 .. Len(calls)
           /\ calls[InnermostOf(functions)].fun \in functions
           /\ \A j \in 1 .. Len(calls) : j > InnermostOf(functions) => calls[j].fun \notin functions
<1> DEFINE S == {i \in DOMAIN calls : calls[i].fun \in functions}
<1>1. DOMAIN calls = 1 .. Len(calls) /\ Len(calls) \in Nat \ {0} /\ calls[1].fun = "list"
  BY StackTop DEF Stack
<1>2. S \in SUBSET Nat /\ S # {}
  <2>1. 1 \in S
    BY <1>1
  <2> QED BY <1>1, <2>1
<1>3. IsFiniteSet(S)
  <2>1. IsFiniteSet(1 .. Len(calls))
    <3>1. 1 \in Int /\ Len(calls) \in Int
      BY <1>1
    <3> QED BY <3>1, FS_Interval
  <2>2. S \subseteq 1 .. Len(calls)
    BY <1>1
  <2> QED BY <2>1, <2>2, FS_Subset
<1>4. Max(S) \in S /\ \A y \in S : y <= Max(S)
  <2> HIDE DEF S
  <2> QED BY <1>2, <1>3, MaxIsGreatest
<1>5. InnermostOf(functions) = Max(S)
  BY DEF InnermostOf
<1>6. \A j \in 1 .. Len(calls) : j > Max(S) => j \notin S
  <2> HIDE DEF S
  <2> TAKE j \in 1 .. Len(calls)
  <2> HAVE j > Max(S)
  <2>1. j \in Nat
    BY <1>1
  <2>3. Max(S) \in Nat
    BY <1>2, <1>4
  <2>2. ~ j <= Max(S)
    BY <2>1, <2>3
  <2> QED BY <1>4, <2>2
<1> QED BY <1>1, <1>4, <1>5, <1>6

LEMMA WorkingOK ==
    ASSUME NEW asked, Stack(calls, asked)
    PROVE  working \in Name
<1>1. InnermostOf({"list"}) \in 1 .. Len(calls)
  BY InnermostFunction
<1>2. calls \in Seq(Frame)
  BY DEF Stack
<1>3. calls[InnermostOf({"list"})] \in Frame
  BY <1>1, <1>2, ElementOfSeq
<1> QED BY <1>3 DEF working, Frame


---------------------------------------------------------------------------
(* The invariant. *)

\* Why BracesAreCounted and TypeOK survive a step: every frame fits its
\* function, no block is open before the program's main is, and the names of
\* the parameters are known by the time the C main declares them.
Inv ==
    /\ TypeOK
    /\ phase = "body" => Stack(calls, limits)
    /\ phase \in {"open", "args"} => text.blocks = << >>
    /\ phase \in {"body", "return", "main"} => params \in Seq(Identifiers)
    /\ BracesAreCounted

LEMMA BracesAre ==
    ASSUME TypeOK
    PROVE  BracesAreCounted <=> (phase = "body" /\ limits = {} => Depth(text) = 1 + Owes(calls))
BY DEF BracesAreCounted, Depth, Owes

\* An action of the walk that leaves the program's data alone but for types.
LEMMA WalkOK ==
    ASSUME Inv, phase = "body", NEW s, NEW asked \in SUBSET Limits,
           text' \in Text, calls' = s, limits' = limits \cup asked, phase' = "body",
           Stack(s, limits \cup asked),
           limits \cup asked = {} => Depth(text)' = 1 + Owes(s),
           DOMAIN types' \subseteq Identifiers, types' \in [DOMAIN types' -> Types],
           expressions' \in 0 .. scale.expressions,
           UNCHANGED <<params, generated, exit, scale>>
    PROVE  Inv'
<1>1. TypeOK /\ params \in Seq(Identifiers)
  BY DEF Inv
<1>2. s \in Seq(Frame)
  BY DEF Stack
<1>3. limits' \in SUBSET Limits
  BY <1>1 DEF TypeOK
<1>4. "body" \in Phases
  BY DEF Phases
<1>5. TypeOK'
  BY <1>1, <1>2, <1>3, <1>4 DEF TypeOK
<1>6. BracesAreCounted'
  BY DEF BracesAreCounted, Depth, Owes
<1>7. Stack(calls, limits)'
  BY DEF Stack
<1> QED BY <1>1, <1>5, <1>6, <1>7 DEF Inv

LEMMA ReturnedOK ==
    ASSUME NEW asked, Stack(calls, asked), Top.fun \in {"list", "expression"}
    PROVE  /\ Stack(Returned, asked) /\ Owes(Returned) = Owes(calls)
           /\ Returned \o << >> = Returned
<1>1. /\ Last(calls) \in Frame /\ Fits(Last(calls), asked)
      /\ calls \in Seq(Frame) /\ Front(calls) \in Seq(Frame)
      /\ Owes(calls) \in Nat /\ Owes(Front(calls)) \in Nat
      /\ Owes(calls) = Owes(Front(calls)) + Last(calls).braces
      /\ Last(calls).fun # "list" => Stack(Front(calls), asked)
  BY StackTop
<1>2. Last(calls).braces = 0
  BY <1>1 DEF Fits, Top
<1>3. CASE Top.fun = "expression"
  <2>1. Returned = Front(calls)
    BY <1>3 DEF Returned
  <2>2. Front(calls) \o << >> = Front(calls)
    BY <1>1, ConcatEmptySeq
  <2>3. Owes(Front(calls)) = Owes(calls)
    BY <1>1, <1>2
  <2> QED BY <1>1, <1>3, <2>1, <2>2, <2>3 DEF Top
<1>4. CASE Top.fun = "list"
  <2> DEFINE g == [Last(calls) EXCEPT !.done = TRUE]
  <2>1. /\ g \in Frame /\ g.fun = Last(calls).fun /\ g.braces = Last(calls).braces
        /\ g.chain = Last(calls).chain /\ g.at = Last(calls).at
    BY <1>1, DoneIs
  <2>2. Returned = Append(Front(calls), g)
    BY <1>4 DEF Returned, SetTop, Top
  <2> HIDE DEF g
  <2>3. Fits(g, asked)
    BY <1>1, <2>1 DEF Fits
  <2>4. /\ Stack(Append(Front(calls), g), asked)
        /\ Owes(Append(Front(calls), g)) = Owes(Front(calls)) + g.braces
    BY <2>1, <2>3, ReplaceOK
  <2>5. Append(Front(calls), g) \o << >> = Append(Front(calls), g)
    BY <2>4, ConcatEmptySeq DEF Stack
  <2> QED BY <1>1, <1>2, <2>1, <2>2, <2>4, <2>5
<1> QED BY <1>3, <1>4

\* An expression that has returned, in its turn calling frames.
LEMMA EmitOK ==
    ASSUME Inv, NEW t \in Text, NEW frames, NEW asked \in SUBSET Limits, NEW d \in Int,
           Emit(t, frames, asked), UNCHANGED types,
           Stack(Returned \o frames, limits \cup asked),
           Owes(Returned \o frames) = Owes(calls) + d,
           asked = {} => Depth(t) = Depth(text) + d
    PROVE  Inv'
<1>1. /\ phase = "body" /\ expressions < scale.expressions
      /\ text' = t /\ calls' = Returned \o frames
      /\ expressions' = expressions + 1 /\ limits' = limits \cup asked
      /\ UNCHANGED <<params, phase, generated, exit, scale>>
  BY DEF Emit, Expecting
<1>2. TypeOK /\ Stack(calls, limits)
  BY <1>1 DEF Inv
<1>3. expressions' \in 0 .. scale.expressions
  <2>1. expressions \in 0 .. scale.expressions /\ scale \in Scale
    BY <1>2, ScalesAssumption DEF TypeOK
  <2>2. scale.expressions \in Nat
    BY <2>1 DEF Scale
  <2> QED BY <1>1, <2>1, <2>2
<1>4. limits \cup asked = {} => Depth(text)' = 1 + Owes(Returned \o frames)
  <2>1. ASSUME limits \cup asked = {} PROVE Depth(t) = 1 + Owes(Returned \o frames)
    <3>1. limits = {} /\ asked = {}
      BY <2>1
    <3>2. Depth(text) = 1 + Owes(calls)
      BY <1>1, <1>2, <3>1, BracesAre DEF Inv
    <3>3. Owes(calls) \in Nat
      BY <1>2, StackTop
    <3> QED BY <3>1, <3>2, <3>3
  <2>2. Depth(text)' = Depth(t)
    BY <1>1 DEF Depth
  <2> QED BY <2>1, <2>2
<1>5. DOMAIN types' \subseteq Identifiers /\ types' \in [DOMAIN types' -> Types]
  BY <1>2 DEF TypeOK
<1> DEFINE s == Returned \o frames
<1>6. calls' = s /\ Stack(s, limits \cup asked)
  BY <1>1
<1>7. limits \cup asked = {} => Depth(text)' = 1 + Owes(s)
  BY <1>4
<1> HIDE DEF s
<1> QED BY <1>1, <1>3, <1>5, <1>6, <1>7, WalkOK

\* An expression that returns, or the process that ends, in it.
Plain ==
    \/ \E t \in Text, asked \in SUBSET Limits :
          /\ asked = {} => Depth(t) = Depth(text)
          /\ Statement(t, asked)
    \/ Crash /\ UNCHANGED types

LEMMA PlainOK ==
    ASSUME Inv, Plain PROVE Inv'
<1>1. ASSUME NEW t \in Text, NEW asked \in SUBSET Limits,
             asked = {} => Depth(t) = Depth(text), Statement(t, asked)
      PROVE  Inv'
  <2>1. Emit(t, << >>, asked) /\ UNCHANGED types
    BY <1>1 DEF Statement
  <2>2. phase = "body" /\ Top.fun \in {"list", "expression"}
    BY <2>1 DEF Emit, Expecting
  <2>3. Stack(calls, limits)
    BY <2>2 DEF Inv
  <2>4. /\ Stack(Returned, limits) /\ Owes(Returned) = Owes(calls)
        /\ Returned \o << >> = Returned
    BY <2>2, <2>3, ReturnedOK
  <2>5. Stack(Returned, limits \cup asked)
    BY <2>4, WeakenOK
  <2>6. Owes(calls) \in Nat /\ Depth(text) \in Nat /\ 0 \in Int
    <3>1. text \in Text
      BY DEF Inv, TypeOK
    <3>2. Depth(text) \in Nat
      BY <3>1, DepthIs
    <3>3. Owes(calls) \in Nat
      BY <2>3, StackTop
    <3> QED BY <3>2, <3>3
  <2>7. Owes(Returned \o << >>) = Owes(calls) + 0
        /\ (asked = {} => Depth(t) = Depth(text) + 0)
    BY <1>1, <2>4, <2>6
  <2>8. Stack(Returned \o << >>, limits \cup asked)
    BY <2>4, <2>5
  <2> DEFINE none == << >>
  <2> HIDE DEF none
  <2>9. /\ Emit(t, none, asked) /\ Stack(Returned \o none, limits \cup asked)
        /\ Owes(Returned \o none) = Owes(calls) + 0
    BY <2>1, <2>7, <2>8 DEF none
  <2> QED BY <1>1, <2>1, <2>6, <2>7, <2>9, EmitOK
<1>2. ASSUME Crash, UNCHANGED types PROVE Inv'
  <2>1. /\ phase' = "crash" /\ exit' = 139
        /\ UNCHANGED <<text, calls, params, types, generated, expressions, limits, scale>>
    BY <1>2 DEF Crash
  <2>2. TypeOK'
    BY <2>1 DEF Inv, TypeOK, Phases
  <2>3. BracesAreCounted'
    BY <2>1 DEF BracesAreCounted
  <2> QED BY <2>1, <2>2, <2>3 DEF Inv
<1> QED BY <1>1, <1>2 DEF Plain


---------------------------------------------------------------------------
(* What an expression may mention has a name of the C program. *)

LEMMA MentionedOK ==
    ASSUME Inv, phase = "body"
    PROVE  /\ text \in Text /\ working \in Name /\ limits \subseteq Limits
           /\ LoopVariables \subseteq Name /\ Mentioned \subseteq Name
           /\ \A name \in DOMAIN types : User(name) \in Name
           /\ \A operand \in Operands : operand.names \in SUBSET Name
<1>1. TypeOK /\ params \in Seq(Identifiers) /\ Stack(calls, limits)
  BY DEF Inv
<1>2. \A name \in Identifiers : User(name) \in Name
  BY NamesOK
<1>3. LoopVariables \subseteq Name
  <2>1. \A i \in DOMAIN calls : calls[i] \in Frame
    <3>1. calls \in Seq(Frame) /\ DOMAIN calls = 1 .. Len(calls)
      BY <1>1, StackTop
    <3> QED BY <3>1, ElementOfSeq
  <2>2. \A i \in DOMAIN calls : calls[i].var \in Name
    BY <2>1 DEF Frame
  <2> QED BY <2>2 DEF LoopVariables
<1>4. Declared \subseteq Name /\ \A name \in DOMAIN types : User(name) \in Name
  BY <1>1, <1>2 DEF TypeOK, Declared
<1>5. {User(p) : p \in Range(params)} \subseteq Name
  <2>1. \A p \in Range(params) : p \in Identifiers
    <3>1. DOMAIN params = 1 .. Len(params) /\ \A i \in 1 .. Len(params) : params[i] \in Identifiers
      BY <1>1, LenProperties, ElementOfSeq
    <3> QED BY <3>1 DEF Range
  <2> QED BY <1>2, <2>1
<1>6. Mentioned \subseteq Name
  BY <1>3, <1>4, <1>5 DEF Mentioned
<1>7. \A operand \in Operands : operand.names \in SUBSET Name
  BY <1>6 DEF Operands, Operand, Constant, Variables
<1>8. text \in Text /\ limits \subseteq Limits
  BY <1>1 DEF TypeOK
<1>9. working \in Name
  BY <1>1, WorkingOK
<1> QED BY <1>3, <1>4, <1>6, <1>7, <1>8, <1>9

LEMMA LimitsOK ==
    /\ \A condition, limit : limit \in Limits => When(condition, limit) \in SUBSET Limits
    /\ {"parameters", "declared in a branch", "declared in a block", "declared parameter",
        "arithmetic", "constant added to itself", "repeated", "filter without lines",
        "no working file", "no output", "chain", "condition"} \subseteq Limits
    /\ {} \in SUBSET Limits
BY DEF When, Limits

LEMMA PlainStatement ==
    ASSUME NEW t \in Text, NEW asked \in SUBSET Limits, Statement(t, asked),
           asked = {} => Depth(t) = Depth(text)
    PROVE  Plain
BY DEF Plain

LEMMA PlainSame ==
    ASSUME NEW t \in Text, NEW asked \in SUBSET Limits, Statement(t, asked),
           Depth(t) = Depth(text)
    PROVE  Plain
BY DEF Plain

LEMMA PlainFail ==
    ASSUME Inv, Fail PROVE Plain
<1>1. text \in Text
  BY DEF Inv, TypeOK
<1>2. Statement(text, {})
  BY DEF Fail
<1> QED BY <1>1, <1>2, LimitsOK DEF Plain

---------------------------------------------------------------------------
(* The assignments print no brace that they do not close. *)

LEMMA ConstantOK ==
    ASSUME Inv, phase = "body", NEW dest \in DOMAIN types,
           generate_variable_assignment_to_constant(dest)
    PROVE  Plain
<1>1. text \in Text /\ {User(dest)} \in SUBSET Name
  BY MentionedOK
<1> DEFINE t == text ++ Use({User(dest)})
<1>2. t \in Text /\ Depth(t) = Depth(text)
  BY <1>1, FlatOK
<1>3. Statement(t, {})
  BY DEF generate_variable_assignment_to_constant
<1> HIDE DEF t
<1> QED BY <1>2, <1>3, LimitsOK, PlainSame

LEMMA VariableOK ==
    ASSUME Inv, phase = "body", NEW dest \in DOMAIN types, NEW source \in Mentioned,
           generate_variable_assignment_to_variable(dest, source)
    PROVE  Plain
<1>1. text \in Text /\ {User(dest), source} \in SUBSET Name
  BY MentionedOK
<1> DEFINE t == text ++ Use({User(dest), source})
<1>2. t \in Text /\ Depth(t) = Depth(text)
  BY <1>1, FlatOK
<1>3. Statement(t, {})
  BY DEF generate_variable_assignment_to_variable
<1> HIDE DEF t
<1> QED BY <1>2, <1>3, LimitsOK, PlainSame

LEMMA ArithmeticOK ==
    ASSUME Inv, phase = "body", NEW dest \in DOMAIN types, NEW left \in Operands,
           NEW right \in Operands, generate_number_arithmetic(dest, left, right)
    PROVE  Plain
<1> DEFINE names == left.names \cup right.names \cup {User(dest)}
           t1 == text ++ While({})
           t2 == t1 ++ Var(Own("_arithm_n"))
           t3 == t2 ++ Use(names)
           t4 == t3 ++ End
<1>1. text \in Text /\ names \in SUBSET Name /\ {} \in SUBSET Name
  BY MentionedOK
<1>2. Depth(text) \in Nat /\ Own("_arithm_n") \in Name
  BY <1>1, DepthIs, OwnOK
<1>3. Statement(t4, {})
  BY DEF generate_number_arithmetic
<1>4. t1 \in Text /\ Depth(t1) = Depth(text) + 1
  BY <1>1, OpenOK
<1> HIDE DEF t1, names
<1>5. t2 \in Text /\ Depth(t2) = Depth(text) + 1
  BY <1>2, <1>4, FlatOK
<1> HIDE DEF t2
<1>6. t3 \in Text /\ Depth(t3) = Depth(text) + 1
  BY <1>1, <1>5, FlatOK
<1> HIDE DEF t3
<1>7. t4 \in Text /\ Depth(t4) = Depth(text)
  BY <1>2, <1>6, EndOK
<1> HIDE DEF t4
<1> QED BY <1>3, <1>7, LimitsOK, PlainSame

LEMMA FileTimesNumberOK ==
    ASSUME Inv, phase = "body", NEW dest \in DOMAIN types, NEW left \in Operands,
           NEW right \in Operands, generate_number_arithmetic_mul_with_file(dest, left, right)
    PROVE  Plain
<1> DEFINE number == IF Files(left) THEN right ELSE left
           names == left.names \cup right.names \cup {User(dest)}
           t1 == text ++ While({})
           u2 == t1 ++ Var(Own("_arithm_n"))
           u3 == u2 ++ End
           t2 == t1 ++ Check(number.names)
           t3 == t2 ++ Var(Own("_arithm_n"))
           t4 == t3 ++ Use(number.names)
           t5 == t4 ++ While(names)
           t6 == t5 ++ End
           t7 == t6 ++ End
<1>1. text \in Text /\ names \in SUBSET Name /\ number.names \in SUBSET Name /\ {} \in SUBSET Name
  BY MentionedOK
<1>2. Depth(text) \in Nat /\ Own("_arithm_n") \in Name
  BY <1>1, DepthIs, OwnOK
<1>3. (Crash /\ UNCHANGED types) \/ Statement(u3, {}) \/ Statement(t7, {})
  BY DEF generate_number_arithmetic_mul_with_file
<1>4. t1 \in Text /\ Depth(t1) = Depth(text) + 1
  BY <1>1, OpenOK
<1> HIDE DEF t1, names, number
<1>5. u2 \in Text /\ Depth(u2) = Depth(text) + 1 /\ t2 \in Text /\ Depth(t2) = Depth(text) + 1
  BY <1>1, <1>2, <1>4, FlatOK
<1> HIDE DEF t2, u2
<1>6. u3 \in Text /\ Depth(u3) = Depth(text)
  BY <1>2, <1>5, EndOK
<1>7. t3 \in Text /\ Depth(t3) = Depth(text) + 1
  BY <1>2, <1>5, FlatOK
<1> HIDE DEF t3, u3
<1>8. t4 \in Text /\ Depth(t4) = Depth(text) + 1
  BY <1>1, <1>7, FlatOK
<1> HIDE DEF t4
<1>9. t5 \in Text /\ Depth(t5) = Depth(text) + 2
  BY <1>1, <1>2, <1>8, OpenOK
<1> HIDE DEF t5
<1>10. t6 \in Text /\ Depth(t6) = Depth(text) + 1
  BY <1>2, <1>9, EndOK
<1> HIDE DEF t6
<1>11. t7 \in Text /\ Depth(t7) = Depth(text)
  BY <1>2, <1>10, EndOK
<1> HIDE DEF t7
<1> QED BY <1>3, <1>6, <1>11, LimitsOK, PlainSame DEF Plain

LEMMA NoneOK ==
    ASSUME Inv, phase = "body", generate_number_arithmetic_none PROVE Plain
<1> DEFINE t == text ++ End
<1>1. text \in Text
  BY MentionedOK
<1>2. t \in Text /\ {"arithmetic"} \in SUBSET Limits /\ {"arithmetic"} # {}
  BY <1>1, EndOK, LimitsOK
<1>3. Statement(t, {"arithmetic"})
  BY DEF generate_number_arithmetic_none
<1> HIDE DEF t
<1> QED BY <1>2, <1>3, PlainStatement

LEMMA StringOK ==
    ASSUME Inv, phase = "body", NEW dest \in DOMAIN types, NEW left \in Operands,
           NEW right \in Operands, generate_string_arithmetic_add_expression(dest, left, right)
    PROVE  Plain
<1> DEFINE names == left.names \cup right.names \cup {User(dest)}
           length == Own("_copy_loop_var_type_len")
           newline == Own("_copy_loop_var_type_has_newline")
           used == text ++ Use(names)
           null == text ++ Use(names \cup {NULL})
           t1 == text ++ Var(length)
           t2 == t1 ++ Var(newline)
           t3 == t2 ++ Check(left.names)
           t4 == t3 ++ Use(names)
           t5 == t4 ++ Check({User(dest), newline})
<1>1. /\ text \in Text /\ names \in SUBSET Name /\ left.names \in SUBSET Name
      /\ names \cup {NULL} \in SUBSET Name /\ {User(dest), newline} \in SUBSET Name
      /\ length \in Name /\ newline \in Name
  <2>1. text \in Text /\ names \in SUBSET Name /\ left.names \in SUBSET Name
        /\ User(dest) \in Name
    BY MentionedOK
  <2>2. length \in Name /\ newline \in Name /\ NULL \in Name
    BY OwnOK
  <2> HIDE DEF names
  <2> QED BY <2>1, <2>2
<1>2. \/ Crash /\ UNCHANGED types
      \/ Statement(used, {})
      \/ Statement(text, {})
      \/ Statement(null, {"constant added to itself"})
      \/ Statement(t5, When(InBlock(length), "repeated"))
  BY DEF generate_string_arithmetic_add_expression, Fail
<1> HIDE DEF names, length, newline
<1>3. /\ used \in Text /\ Depth(used) = Depth(text)
      /\ null \in Text /\ Depth(null) = Depth(text)
      /\ t1 \in Text /\ Depth(t1) = Depth(text)
  BY <1>1, FlatOK
<1> HIDE DEF used, null, t1
<1>4. t2 \in Text /\ Depth(t2) = Depth(text)
  BY <1>1, <1>3, FlatOK
<1> HIDE DEF t2
<1>5. t3 \in Text /\ Depth(t3) = Depth(text)
  BY <1>1, <1>4, FlatOK
<1> HIDE DEF t3
<1>6. t4 \in Text /\ Depth(t4) = Depth(text)
  BY <1>1, <1>5, FlatOK
<1> HIDE DEF t4
<1>7. t5 \in Text /\ Depth(t5) = Depth(text)
  BY <1>1, <1>6, FlatOK
<1> HIDE DEF t5
<1>8. {"constant added to itself"} \in SUBSET Limits
      /\ When(InBlock(length), "repeated") \in SUBSET Limits
  BY LimitsOK
<1> DEFINE asked == When(InBlock(length), "repeated")
<1> HIDE DEF asked
<1>9. CASE Crash /\ UNCHANGED types
  BY <1>9 DEF Plain
<1>10. CASE Statement(used, {})
  BY <1>3, <1>10, LimitsOK, PlainSame
<1>11. CASE Statement(text, {})
  BY <1>1, <1>11, LimitsOK, PlainSame
<1>12. CASE Statement(null, {"constant added to itself"})
  BY <1>3, <1>8, <1>12, PlainSame
<1>13. CASE Statement(t5, When(InBlock(length), "repeated"))
  BY <1>7, <1>8, <1>13, PlainSame
<1> QED BY <1>2, <1>9, <1>10, <1>11, <1>12, <1>13

LEMMA MethodOK ==
    ASSUME Inv, phase = "body", NEW dest \in DOMAIN types, NEW id \in Mentioned, NEW function,
           generate_variable_assignment_from_function_call(dest, id, function)
    PROVE  Plain
<1> DEFINE result == Own("_at_implementation_ret")
           copied(t) == IF IsLoop(id) THEN t ++ Use({id, User(dest)}) ELSE t
           f1 == text ++ Use({FileOf(working)})
           f2 == f1 ++ While({LineLength})
           f3 == f2 ++ Use({LineLength, FileOf(working), id})
           f4 == f3 ++ If({id})
           f5 == copied(f4)
           f6 == f5 ++ End
           f7 == f6 ++ End
           s1 == text ++ Use({id, User(dest)})
           a1 == text ++ Var(result)
           a2 == a1 ++ Check({id})
           a3 == a2 ++ Use({User(dest)})
<1>1. /\ text \in Text /\ {id, User(dest)} \in SUBSET Name /\ {id} \in SUBSET Name
      /\ {User(dest)} \in SUBSET Name
      /\ {FileOf(working)} \in SUBSET Name /\ {LineLength} \in SUBSET Name
      /\ {LineLength, FileOf(working), id} \in SUBSET Name /\ result \in Name
  <2>1. text \in Text /\ id \in Name /\ User(dest) \in Name /\ working \in Name
    BY MentionedOK
  <2>2. LineLength \in Name /\ result \in Name /\ FileOf(working) \in Name
    BY <2>1, OwnOK, NamesOK
  <2> QED BY <2>1, <2>2
<1>2. \/ Statement(f7, When(~InLines, "filter without lines"))
      \/ Statement(copied(s1), {})
      \/ Statement(copied(a3), When(InBlock(result), "repeated"))
      \/ Statement(copied(text), {})
  BY DEF generate_variable_assignment_from_function_call
<1>3. \A t \in Text : copied(t) \in Text /\ Depth(copied(t)) = Depth(t)
  BY <1>1, FlatOK
<1>4. Depth(text) \in Nat
  BY <1>1, DepthIs
<1> HIDE DEF copied, result
<1>5. /\ f1 \in Text /\ Depth(f1) = Depth(text) /\ s1 \in Text /\ Depth(s1) = Depth(text)
      /\ a1 \in Text /\ Depth(a1) = Depth(text)
  BY <1>1, FlatOK
<1> HIDE DEF f1, s1, a1
<1>6. f2 \in Text /\ Depth(f2) = Depth(text) + 1
  BY <1>1, <1>5, OpenOK
<1> HIDE DEF f2
<1>7. f3 \in Text /\ Depth(f3) = Depth(text) + 1
  BY <1>1, <1>6, FlatOK
<1> HIDE DEF f3
<1>8. f4 \in Text /\ Depth(f4) = Depth(text) + 2
  BY <1>1, <1>4, <1>7, OpenOK
<1> HIDE DEF f4
<1>9. f5 \in Text /\ Depth(f5) = Depth(text) + 2
  BY <1>3, <1>8
<1> HIDE DEF f5
<1>10. f6 \in Text /\ Depth(f6) = Depth(text) + 1
  BY <1>4, <1>9, EndOK
<1> HIDE DEF f6
<1>11. f7 \in Text /\ Depth(f7) = Depth(text)
  BY <1>4, <1>10, EndOK
<1> HIDE DEF f7
<1>12. a2 \in Text /\ Depth(a2) = Depth(text)
  BY <1>1, <1>5, FlatOK
<1> HIDE DEF a2
<1>13. a3 \in Text /\ Depth(a3) = Depth(text)
  BY <1>1, <1>12, FlatOK
<1> HIDE DEF a3
<1>14. /\ copied(s1) \in Text /\ Depth(copied(s1)) = Depth(text)
       /\ copied(a3) \in Text /\ Depth(copied(a3)) = Depth(text)
       /\ copied(text) \in Text /\ Depth(copied(text)) = Depth(text)
  BY <1>1, <1>3, <1>5, <1>13
<1>15. /\ When(~InLines, "filter without lines") \in SUBSET Limits
       /\ When(InBlock(result), "repeated") \in SUBSET Limits
  BY LimitsOK
<1>16. CASE Statement(f7, When(~InLines, "filter without lines"))
  BY <1>11, <1>15, <1>16, PlainSame
<1>17. CASE Statement(copied(s1), {})
  BY <1>14, <1>17, LimitsOK, PlainSame
<1>18. CASE Statement(copied(a3), When(InBlock(result), "repeated"))
  BY <1>14, <1>15, <1>18, PlainSame
<1>19. CASE Statement(copied(text), {})
  BY <1>14, <1>19, LimitsOK, PlainSame
<1> QED BY <1>2, <1>16, <1>17, <1>18, <1>19

LEMMA AssignmentOK ==
    ASSUME Inv, phase = "body", NEW form, Assignment(form) PROVE Plain
<1>1. PICK dest \in DOMAIN types :
        \/ generate_variable_assignment_to_constant(dest)
        \/ \E source \in Mentioned : generate_variable_assignment_to_variable(dest, source)
        \/ \E left, right \in Operands :
              \/ generate_number_arithmetic(dest, left, right)
              \/ generate_number_arithmetic_mul_with_file(dest, left, right)
              \/ generate_string_arithmetic_add_expression(dest, left, right)
        \/ \E id \in Mentioned, function \in {"filter", "toString", "at", "lines"} :
              generate_variable_assignment_from_function_call(dest, id, function)
  BY DEF Assignment
<1>2. CASE generate_variable_assignment_to_constant(dest)
  BY <1>2, ConstantOK
<1>3. CASE \E source \in Mentioned : generate_variable_assignment_to_variable(dest, source)
  BY <1>3, VariableOK
<1>4. ASSUME NEW left \in Operands, NEW right \in Operands,
             \/ generate_number_arithmetic(dest, left, right)
             \/ generate_number_arithmetic_mul_with_file(dest, left, right)
             \/ generate_string_arithmetic_add_expression(dest, left, right)
      PROVE  Plain
  <2>1. CASE generate_number_arithmetic(dest, left, right)
    BY <2>1, ArithmeticOK
  <2>2. CASE generate_number_arithmetic_mul_with_file(dest, left, right)
    BY <2>2, FileTimesNumberOK
  <2>3. CASE generate_string_arithmetic_add_expression(dest, left, right)
    BY <2>3, StringOK
  <2> QED BY <1>4, <2>1, <2>2, <2>3
<1>5. ASSUME NEW id \in Mentioned, NEW function \in {"filter", "toString", "at", "lines"},
             generate_variable_assignment_from_function_call(dest, id, function)
      PROVE  Plain
  BY <1>5, MethodOK
<1> QED BY <1>1, <1>2, <1>3, <1>4, <1>5


---------------------------------------------------------------------------
(* Declarations. *)

LEMMA FreesStack ==
    ASSUME NEW r, NEW asked, Stack(r, asked), NEW h \in 1 .. Len(r), NEW frees \in Seq(Name)
    PROVE  /\ Stack([r EXCEPT ![h].frees = frees], asked)
           /\ Owes([r EXCEPT ![h].frees = frees]) = Owes(r)
<1> DEFINE g == [r[h] EXCEPT !.frees = frees]
           s == [r EXCEPT ![h].frees = frees]
<1>1. /\ r \in Seq(Frame) /\ r # << >> /\ r[1].fun = "list"
      /\ \A i \in 1 .. Len(r) : Fits(r[i], asked)
      /\ Len(r) \in Nat \ {0} /\ DOMAIN r = 1 .. Len(r)
  BY StackTop DEF Stack
<1>2. r[h] \in Frame
  BY <1>1, ElementOfSeq
<1>3. /\ g \in Frame /\ g.fun = r[h].fun /\ g.braces = r[h].braces
      /\ g.chain = r[h].chain /\ g.at = r[h].at
  BY <1>2, FreesIs
<1>4. s = [r EXCEPT ![h] = g]
  BY <1>1
<1> HIDE DEF g, s
<1>5. /\ s \in Seq(Frame) /\ Len(s) = Len(r) /\ s[h] = g
      /\ \A i \in 1 .. Len(r) : i # h => s[i] = r[i]
  BY <1>1, <1>3, <1>4, ExceptSeq
<1>6. DOMAIN s = 1 .. Len(r) /\ s # << >>
  BY <1>1, <1>5, LenProperties, EmptySeq
<1>7. \A i \in 1 .. Len(r) : s[i].fun = r[i].fun /\ s[i].braces = r[i].braces
  BY <1>3, <1>5
<1>8. \A i \in 1 .. Len(s) : Fits(s[i], asked)
  BY <1>1, <1>3, <1>5 DEF Fits
<1>9. s[1].fun = "list"
  BY <1>1, <1>7
<1>10. Owed(s) = Owed(r)
  BY <1>1, <1>6, <1>7 DEF Owed
<1>11. Stack(s, asked) /\ Owes(s) = Owes(r)
  BY <1>5, <1>6, <1>8, <1>9, <1>10 DEF Stack, Owes
<1> QED BY <1>11 DEF s

LEMMA HolderOK ==
    ASSUME NEW asked, Stack(calls, asked), Top.fun \in {"list", "expression"}
    PROVE  /\ FreesHolder \in 1 .. Len(Returned) /\ FreesHolder \in 1 .. Len(calls)
           /\ calls[FreesHolder] \in Frame
<1> DEFINE h == FreesHolder
<1>1. h \in 1 .. Len(calls) /\ calls[h].fun \in {"list", "then", "else"}
  BY InnermostFunction DEF FreesHolder
<1>2. /\ calls \in Seq(Frame) /\ Len(calls) \in Nat \ {0} /\ calls # << >>
      /\ Last(calls) = calls[Len(calls)] /\ Last(calls) \in Frame /\ Front(calls) \in Seq(Frame)
  BY StackTop
<1>3. Len(Front(calls)) = Len(calls) - 1
  BY <1>2, FrontOf
<1>4. calls[h] \in Frame
  BY <1>1, <1>2, ElementOfSeq
<1> HIDE DEF h
<1>5. CASE Top.fun = "expression"
  <2>1. h # Len(calls)
    BY <1>1, <1>2, <1>5 DEF Top
  <2>2. Len(Returned) = Len(calls) - 1
    BY <1>3, <1>5 DEF Returned
  <2>3. h \in 1 .. Len(Returned)
    BY <1>1, <1>2, <2>1, <2>2
  <2> QED BY <1>1, <1>4, <2>3 DEF h
<1>6. CASE Top.fun = "list"
  <2>1. Returned = Append(Front(calls), [Last(calls) EXCEPT !.done = TRUE])
    BY <1>6 DEF Returned, SetTop, Top
  <2>2. [Last(calls) EXCEPT !.done = TRUE] \in Frame
    BY <1>2, DoneIs
  <2>3. Len(Returned) = Len(Front(calls)) + 1
    BY <1>2, <2>1, <2>2, OnTop
  <2>4. Len(Returned) = Len(calls)
    BY <1>2, <1>3, <2>3
  <2>5. h \in 1 .. Len(Returned)
    BY <1>1, <2>4
  <2> QED BY <1>1, <1>4, <2>5 DEF h
<1> QED BY <1>5, <1>6

LEMMA FreesWithOK ==
    ASSUME Inv, phase = "body", Top.fun \in {"list", "expression"}, NEW name \in Identifiers
    PROVE  /\ User(name) \in Name /\ FreesWith(name) \in Seq(Name)
           /\ {User(name)} \cup Range(FreesWith(name)) \in SUBSET Name
<1>1. Stack(calls, limits) /\ User(name) \in Name
  BY NamesOK DEF Inv
<1>2. calls[FreesHolder] \in Frame
  BY <1>1, HolderOK
<1>3. FreesWith(name) \in Seq(Name)
  <2>1. calls[FreesHolder].frees \in Seq(Name)
    BY <1>2 DEF Frame
  <2> QED BY <1>1, <2>1, AppendProperties DEF FreesWith
<1>4. Range(FreesWith(name)) \subseteq Name
  <2>1. /\ DOMAIN FreesWith(name) = 1 .. Len(FreesWith(name))
        /\ \A i \in 1 .. Len(FreesWith(name)) : FreesWith(name)[i] \in Name
    BY <1>3, LenProperties, ElementOfSeq
  <2> QED BY <2>1 DEF Range
<1> QED BY <1>1, <1>3, <1>4

LEMMA DeclareOK ==
    ASSUME Inv, NEW name \in Identifiers, NEW type \in Types, NEW t \in Text,
           Depth(t) = Depth(text), Declare(name, type, t)
    PROVE  Inv'
<1>1. /\ phase = "body" /\ Top.fun \in {"list", "expression"}
      /\ expressions < scale.expressions
      /\ types' = [n \in DOMAIN types \cup {name} |-> IF n = name THEN type ELSE types[n]]
      /\ expressions' = expressions + 1
      /\ UNCHANGED <<params, phase, generated, exit, scale>>
  BY DEF Declare, Expecting
<1>2. TypeOK /\ Stack(calls, limits) /\ text \in Text
  BY <1>1 DEF Inv, TypeOK
<1>3. expressions' \in 0 .. scale.expressions
  <2>1. expressions \in 0 .. scale.expressions /\ scale \in Scale
    BY <1>2, ScalesAssumption DEF TypeOK
  <2>2. scale.expressions \in Nat
    BY <2>1 DEF Scale
  <2> QED BY <1>1, <2>1, <2>2
<1>4. DOMAIN types' \subseteq Identifiers /\ types' \in [DOMAIN types' -> Types]
  <2>1. DOMAIN types \subseteq Identifiers /\ types \in [DOMAIN types -> Types]
    BY <1>2 DEF TypeOK
  <2>2. DOMAIN types' = DOMAIN types \cup {name}
    BY <1>1
  <2>3. \A n \in DOMAIN types \cup {name} : (IF n = name THEN type ELSE types[n]) \in Types
    BY <2>1
  <2>4. [n \in DOMAIN types \cup {name} |-> IF n = name THEN type ELSE types[n]]
          \in [DOMAIN types \cup {name} -> Types]
    BY <2>3
  <2> QED BY <1>1, <2>1, <2>2, <2>4
<1>5. /\ Stack(Returned, limits) /\ Owes(Returned) = Owes(calls) /\ Owes(calls) \in Nat
  <2>1. Owes(calls) \in Nat
    BY <1>2, StackTop
  <2>2. Stack(Returned, limits) /\ Owes(Returned) = Owes(calls)
    BY <1>1, <1>2, ReturnedOK
  <2> QED BY <2>1, <2>2
<1>6. limits = {} => Depth(text) = 1 + Owes(calls)
  BY <1>1, <1>2, BracesAre DEF Inv
<1>7. phase' = "body"
  BY <1>1
<1>8. CASE calls[FreesHolder].fun # "list"
  <2>1. text' = text /\ calls' = Returned /\ limits' = limits \cup {"declared in a branch"}
    BY <1>8 DEF Declare
  <2>2. {"declared in a branch"} \in SUBSET Limits
    BY LimitsOK
  <2>3. Stack(Returned, limits \cup {"declared in a branch"})
    BY <1>5, WeakenOK
  <2>4. ~ limits \cup {"declared in a branch"} = {}
    OBVIOUS
  <2>5. text' \in Text
    BY <1>2, <2>1
  <2> QED BY <1>1, <1>3, <1>4, <1>7, <2>1, <2>2, <2>3, <2>4, <2>5, WalkOK
<1>9. CASE calls[FreesHolder].fun = "list"
  <2> DEFINE s == [Returned EXCEPT ![FreesHolder].frees = FreesWith(name)]
             A == When(\E i \in DOMAIN calls : calls[i].braces > 0, "declared in a block")
             B == When(name \in Range(params), "declared parameter")
             asked == A \cup B
  <2>1. text' = t /\ calls' = s /\ limits' = limits \cup A \cup B
    BY <1>9 DEF Declare
  <2>2. asked \in SUBSET Limits
    <3>1. A \in SUBSET Limits /\ B \in SUBSET Limits
      BY LimitsOK
    <3> HIDE DEF A, B
    <3> QED BY <3>1
  <2>3. limits' = limits \cup asked
    <3> HIDE DEF A, B
    <3> QED BY <2>1
  <2>4. FreesWith(name) \in Seq(Name) /\ FreesHolder \in 1 .. Len(Returned)
    BY <1>1, <1>2, FreesWithOK, HolderOK
  <2>5. Stack(s, limits) /\ Owes(s) = Owes(Returned)
    BY <1>5, <2>4, FreesStack
  <2> HIDE DEF s, asked
  <2>6. Stack(s, limits \cup asked)
    BY <2>5, WeakenOK
  <2>7. limits \cup asked = {} => Depth(text)' = 1 + Owes(s)
    <3>1. Depth(text)' = Depth(t)
      BY <2>1 DEF Depth
    <3>2. limits \cup asked = {} => limits = {}
      OBVIOUS
    <3> QED BY <1>5, <1>6, <2>5, <3>1, <3>2
  <2>8. text' \in Text /\ calls' = s
    BY <2>1
  <2> QED BY <1>1, <1>3, <1>4, <1>7, <2>2, <2>3, <2>6, <2>7, <2>8, WalkOK
<1> QED BY <1>8, <1>9

LEMMA DeclarationOK ==
    ASSUME Inv, phase = "body", Top.fun \in {"list", "expression"}, NEW form, Declaration(form)
    PROVE  Inv'
<1>1. PICK name \in scale.names :
        \/ generate_variable(name)
        \/ \E path \in {"file", "directory", "", "STDOUT"} : generate_variable_file(name, path)
  BY DEF Declaration
<1>2. name \in Identifiers
  <2>1. scale \in Scale
    BY ScalesAssumption DEF Inv, TypeOK
  <2> QED BY <2>1 DEF Scale
<1> DEFINE t == Allocated(text, User(name))
           use == Use({User(name)})
           check == Check({User(name)} \cup Range(FreesWith(name)))
<1>3. /\ text \in Text /\ User(name) \in Name /\ {User(name)} \in SUBSET Name
      /\ {User(name)} \cup Range(FreesWith(name)) \in SUBSET Name
  BY <1>2, MentionedOK, FreesWithOK
<1>4. t \in Text /\ Depth(t) = Depth(text)
  BY <1>3, AllocatedOK
<1> HIDE DEF t
<1>5. /\ t ++ use \in Text /\ Depth(t ++ use) = Depth(text)
      /\ t ++ check \in Text /\ Depth(t ++ check) = Depth(text)
  BY <1>3, <1>4, FlatOK
<1>6. /\ t ++ check ++ use \in Text /\ Depth(t ++ check ++ use) = Depth(text)
      /\ t ++ use ++ Check({User(name)}) \in Text
      /\ Depth(t ++ use ++ Check({User(name)})) = Depth(text)
  <2>1. \A u \in Text : /\ u ++ use \in Text /\ Depth(u ++ use) = Depth(u)
                        /\ u ++ Check({User(name)}) \in Text
                        /\ Depth(u ++ Check({User(name)})) = Depth(u)
    BY <1>3, FlatOK
  <2> HIDE DEF use, check
  <2> QED BY <1>5, <2>1
<1>7. {"string", "number", "file"} \subseteq Types
  BY DEF Types
<1>8. CASE generate_variable(name)
  <2>1. PICK type \in {"string", "number"} : Declare(name, type, t ++ use)
    BY <1>8 DEF generate_variable, t
  <2>2. type \in Types
    BY <1>7
  <2> HIDE DEF use
  <2> QED BY <1>2, <1>5, <2>1, <2>2, DeclareOK
<1>9. ASSUME NEW path \in {"file", "directory", "", "STDOUT"}, generate_variable_file(name, path)
      PROVE  Inv'
  <2> DEFINE u == CASE name \in InputNames /\ path = "directory" -> t ++ use
                    [] name \in InputNames /\ path # "directory" -> t ++ check ++ use
                    [] name \in OutputNames /\ path = "" -> t ++ use ++ Check({User(name)})
                    [] name \in OutputNames /\ path = "STDOUT" -> t ++ use
                    [] name \in OutputNames /\ path \notin {"", "STDOUT"} -> t ++ check
                    [] OTHER -> t
  <2>1. Declare(name, "file", u)
    BY <1>9 DEF generate_variable_file, t
  <2> DEFINE v1 == t ++ use
             v2 == t ++ check ++ use
             v3 == t ++ use ++ Check({User(name)})
             v4 == t ++ check
  <2>2. u \in {v1, v2, v3, v4, t}
    <3> HIDE DEF use, check
    <3> QED OBVIOUS
  <2>3. \A v \in {v1, v2, v3, v4, t} : v \in Text /\ Depth(v) = Depth(text)
    BY <1>4, <1>5, <1>6
  <2> HIDE DEF u, v1, v2, v3, v4
  <2>4. u \in Text /\ Depth(u) = Depth(text)
    BY <2>2, <2>3
  <2> QED BY <1>2, <1>7, <2>1, <2>4, DeclareOK
<1> QED BY <1>1, <1>8, <1>9

---------------------------------------------------------------------------
(* Expressions that call functions. *)

LEMMA PairIs ==
    ASSUME NEW f, NEW g PROVE <<f>> \o <<g>> = <<f, g>>
<1> DEFINE S == {f, g}
           a == <<f>> \o <<g>>
           b == <<f, g>>
<1>1. <<f>> \in Seq(S) /\ <<g>> \in Seq(S) /\ b \in Seq(S)
  OBVIOUS
<1>2. Len(<<f>>) = 1 /\ Len(<<g>>) = 1 /\ Len(b) = 2 /\ b[1] = f /\ b[2] = g
      /\ <<f>>[1] = f /\ <<g>>[1] = g
  OBVIOUS
<1> HIDE DEF b, S
<1>3. /\ a \in Seq(S) /\ Len(a) = Len(<<f>>) + Len(<<g>>)
      /\ \A i \in 1 .. Len(<<f>>) + Len(<<g>>) :
            a[i] = IF i <= Len(<<f>>) THEN <<f>>[i] ELSE <<g>>[i - Len(<<f>>)]
  BY <1>1, ConcatProperties
<1> HIDE DEF a
<1>4. Len(a) = 2 /\ a[1] = f /\ a[2] = g
  BY <1>2, <1>3
<1>5. a = b
  BY <1>1, <1>2, <1>3, <1>4, SeqEqual
<1> QED BY <1>5 DEF a, b

LEMMA EmitOne ==
    ASSUME Inv, NEW t \in Text, NEW f \in Frame, NEW asked \in SUBSET Limits,
           Fits(f, limits \cup asked), Emit(t, <<f>>, asked), UNCHANGED types,
           asked = {} => Depth(t) = Depth(text) + f.braces
    PROVE  Inv'
<1>1. phase = "body" /\ Top.fun \in {"list", "expression"}
  BY DEF Emit, Expecting
<1>2. Stack(calls, limits)
  BY <1>1 DEF Inv
<1>3. Stack(Returned, limits) /\ Owes(Returned) = Owes(calls)
  BY <1>1, <1>2, ReturnedOK
<1>4. Stack(Returned, limits \cup asked)
  BY <1>3, WeakenOK
<1>5. /\ Stack(Append(Returned, f), limits \cup asked)
      /\ Owes(Append(Returned, f)) = Owes(Returned) + f.braces
      /\ Returned \o <<f>> = Append(Returned, f)
  BY <1>4, PushOK
<1> DEFINE frames == <<f>>
<1>6. /\ Stack(Returned \o frames, limits \cup asked)
      /\ Owes(Returned \o frames) = Owes(calls) + f.braces
      /\ Emit(t, frames, asked)
  BY <1>3, <1>5
<1>7. f.braces \in Int
  BY DEF Frame
<1> HIDE DEF frames
<1> QED BY <1>6, <1>7, EmitOK

LEMMA EmitTwo ==
    ASSUME Inv, NEW t \in Text, NEW f \in Frame, NEW asked \in SUBSET Limits,
           Fits(f, limits \cup asked), Emit(t, <<f, Call("expression")>>, asked),
           UNCHANGED types, asked = {} => Depth(t) = Depth(text) + f.braces
    PROVE  Inv'
<1> DEFINE g == Call("expression")
<1>1. phase = "body" /\ Top.fun \in {"list", "expression"}
  BY DEF Emit, Expecting
<1>2. Stack(calls, limits)
  BY <1>1 DEF Inv
<1>3. Stack(Returned, limits) /\ Owes(Returned) = Owes(calls)
  BY <1>1, <1>2, ReturnedOK
<1>4. Stack(Returned, limits \cup asked)
  BY <1>3, WeakenOK
<1>5. /\ Stack(Append(Returned, f), limits \cup asked)
      /\ Owes(Append(Returned, f)) = Owes(Returned) + f.braces
      /\ Returned \o <<f>> = Append(Returned, f)
  BY <1>4, PushOK
<1>6. g \in Frame /\ g.fun = "expression" /\ g.braces = 0
  BY CallIs DEF Functions
<1> HIDE DEF g
<1>7. Fits(g, limits \cup asked)
  BY <1>6 DEF Fits
<1>8. /\ Stack(Append(Append(Returned, f), g), limits \cup asked)
      /\ Owes(Append(Append(Returned, f), g)) = Owes(Append(Returned, f)) + g.braces
      /\ Append(Returned, f) \o <<g>> = Append(Append(Returned, f), g)
  BY <1>5, <1>6, <1>7, PushOK
<1>9. Returned \o <<f, g>> = Append(Append(Returned, f), g)
  <2>1. Returned \in Seq(Frame) /\ <<f>> \in Seq(Frame) /\ <<g>> \in Seq(Frame)
    BY <1>3, <1>6 DEF Stack
  <2>2. (Returned \o <<f>>) \o <<g>> = Returned \o (<<f>> \o <<g>>)
    BY <2>1, ConcatAssociative
  <2>3. <<f>> \o <<g>> = <<f, g>>
    BY PairIs
  <2> QED BY <1>5, <1>8, <2>2, <2>3
<1>10. f.braces \in Int /\ Owes(calls) \in Nat
  <2>1. Owes(calls) \in Nat
    BY <1>2, StackTop
  <2> QED BY <2>1 DEF Frame
<1> DEFINE frames == <<f, g>>
<1>11. Emit(t, frames, asked)
  BY DEF g
<1>12. Stack(Returned \o frames, limits \cup asked)
  BY <1>8, <1>9
<1>13. Owes(Returned \o frames) = Owes(calls) + f.braces
  <2>1. Owes(Append(Append(Returned, f), g)) = Owes(calls) + f.braces
    BY <1>3, <1>5, <1>6, <1>8, <1>10
  <2> QED BY <1>9, <2>1
<1> HIDE DEF frames
<1> QED BY <1>10, <1>11, <1>12, <1>13, EmitOK

LEMMA WithOK ==
    ASSUME Inv, phase = "body", NEW name \in DOMAIN types,
           generate_expressions_list_with_file(name)
    PROVE  Inv'
<1>1. text \in Text /\ User(name) \in Name
  BY MentionedOK
<1>2. CASE types[name] = "file"
  <2> DEFINE f == [Call("list") EXCEPT !.working = User(name)]
  <2>1. Emit(text, <<f>>, {}) /\ UNCHANGED types
    BY <1>2 DEF generate_expressions_list_with_file
  <2>2. f \in Frame /\ f.fun = "list" /\ f.braces = 0
    BY <1>1, CalledOK
  <2> HIDE DEF f
  <2>3. Fits(f, limits \cup {})
    BY <2>2 DEF Fits
  <2>4. Depth(text) = Depth(text) + f.braces
    BY <1>1, <2>2, DepthIs
  <2> QED BY <1>1, <2>1, <2>2, <2>3, <2>4, LimitsOK, EmitOne
<1>3. CASE types[name] # "file"
  <2>1. Fail
    BY <1>3 DEF generate_expressions_list_with_file
  <2> QED BY <2>1, PlainFail, PlainOK
<1> QED BY <1>2, <1>3

LEMMA RangeLoopOK ==
    ASSUME Inv, phase = "body", NEW name \in LoopNames, generate_loop_over_range(name)
    PROVE  Inv'
<1> DEFINE f == [Call("range") EXCEPT !.braces = 1, !.var = User(name)]
           t1 == text ++ While({})
           t2 == t1 ++ Var(User(name))
<1>1. text \in Text /\ User(name) \in Name /\ {} \in SUBSET Name /\ Depth(text) \in Nat
  BY MentionedOK, NamesOK, DepthIs
<1>2. Emit(t2, <<f, Call("expression")>>, {}) /\ UNCHANGED types
  BY DEF generate_loop_over_range
<1>3. f \in Frame /\ f.fun = "range" /\ f.braces = 1
  BY <1>1, CalledOK
<1> HIDE DEF f
<1>4. t1 \in Text /\ Depth(t1) = Depth(text) + 1
  BY <1>1, OpenOK
<1> HIDE DEF t1
<1>5. t2 \in Text /\ Depth(t2) = Depth(text) + 1
  BY <1>1, <1>4, FlatOK
<1> HIDE DEF t2
<1>6. Fits(f, limits \cup {})
  BY <1>3 DEF Fits
<1>7. Depth(t2) = Depth(text) + f.braces
  BY <1>3, <1>5
<1> QED BY <1>2, <1>3, <1>5, <1>6, <1>7, LimitsOK, EmitTwo

LEMMA CallsLoopOK ==
    ASSUME Inv, phase = "body", NEW name \in LoopNames, NEW chain \in Chains, NEW index \in Name,
           generate_loop_function_calls_expression(name, chain, index)
    PROVE  Inv'
<1> DEFINE f == [Call("calls") EXCEPT !.braces = 1, !.var = User(name), !.chain = chain,
                                      !.at = Len(chain), !.index = index]
           t1 == text ++ Use({working})
           t2 == t1 ++ While({working})
           t3 == t2 ++ Var(Own("i"))
           t4 == t3 ++ Var(FileOf(working))
           asked == LoopLimits(chain)
<1>1. /\ text \in Text /\ User(name) \in Name /\ {working} \in SUBSET Name
      /\ Depth(text) \in Nat /\ FileOf(working) \in Name /\ Own("i") \in Name
  <2>1. text \in Text /\ working \in Name
    BY MentionedOK
  <2> QED BY <2>1, NamesOK, OwnOK, DepthIs
<1>2. Emit(t4, <<f>>, asked) /\ UNCHANGED types
  BY DEF generate_loop_function_calls_expression
<1>3. f \in Frame /\ f.fun = "calls" /\ f.braces = 1 /\ f.chain = chain /\ f.at = Len(chain)
  <2>1. f = LoopFrame(User(name), chain, index)
    BY DEF LoopFrame
  <2> HIDE DEF f
  <2> QED BY <1>1, <2>1, LoopFrameIs
<1> HIDE DEF f
<1>4. t1 \in Text /\ Depth(t1) = Depth(text)
  BY <1>1, FlatOK
<1> HIDE DEF t1
<1>5. t2 \in Text /\ Depth(t2) = Depth(text) + 1
  BY <1>1, <1>4, OpenOK
<1> HIDE DEF t2
<1>6. t3 \in Text /\ Depth(t3) = Depth(text) + 1
  BY <1>1, <1>5, FlatOK
<1> HIDE DEF t3
<1>7. t4 \in Text /\ Depth(t4) = Depth(text) + 1
  BY <1>1, <1>6, FlatOK
<1> HIDE DEF t4
<1>8. asked \in SUBSET Limits /\ (asked = {} => Ordered(chain))
  BY DEF LoopLimits, When, Limits
<1>9. Fits(f, limits \cup asked)
  <2>1. Len(chain) \in Nat
    BY ChainsAssumption, LenProperties
  <2> HIDE DEF asked
  <2> QED BY <1>3, <1>8, <2>1 DEF Fits
<1>10. Depth(t4) = Depth(text) + f.braces
  BY <1>3, <1>7
<1> HIDE DEF asked
<1> QED BY <1>2, <1>3, <1>7, <1>8, <1>9, <1>10, EmitOne

LEMMA LoopOK ==
    ASSUME Inv, phase = "body", Loop PROVE Inv'
<1>1. PICK name \in LoopNames :
        \/ generate_loop_over_range(name)
        \/ \E chain \in Chains :
              \E index \in IF "byIndex" \in Range(chain)
                           THEN {User(name)} \cup LoopVariables ELSE {NULL} :
                 generate_loop_function_calls_expression(name, chain, index)
  BY DEF Loop
<1>2. CASE generate_loop_over_range(name)
  BY <1>2, RangeLoopOK
<1>3. ASSUME NEW chain \in Chains,
             NEW index \in IF "byIndex" \in Range(chain)
                           THEN {User(name)} \cup LoopVariables ELSE {NULL},
             generate_loop_function_calls_expression(name, chain, index)
      PROVE  Inv'
  <2>1. index \in Name
    <3>1. User(name) \in Name /\ LoopVariables \subseteq Name /\ NULL \in Name
      BY MentionedOK, NamesOK, OwnOK
    <3> QED BY <3>1
  <2> QED BY <1>3, <2>1, CallsLoopOK
<1> QED BY <1>1, <1>2, <1>3


---------------------------------------------------------------------------
(* Conditionals. *)

ThenFrame(frees) == [Call("then") EXCEPT !.braces = 1, !.frees = frees]

LEMMA ThenFrameIs ==
    ASSUME NEW frees \in Seq(Name), NEW asked
    PROVE  /\ ThenFrame(frees) \in Frame /\ ThenFrame(frees).fun = "then"
           /\ ThenFrame(frees).braces = 1 /\ Fits(ThenFrame(frees), asked)
           /\ Then(frees) = <<ThenFrame(frees), Call("expression")>>
<1>1. Call("then") \in Frame /\ Call("then").fun = "then"
  BY CallIs DEF Functions
<1>2. /\ ThenFrame(frees) \in Frame /\ ThenFrame(frees).fun = "then"
      /\ ThenFrame(frees).braces = 1
  BY <1>1 DEF ThenFrame, Frame
<1>3. Fits(ThenFrame(frees), asked)
  BY <1>2 DEF Fits
<1> QED BY <1>2, <1>3 DEF Then, ThenFrame

LEMMA EmitThen ==
    ASSUME Inv, NEW t \in Text, NEW frees \in Seq(Name), NEW asked \in SUBSET Limits,
           Emit(t, Then(frees), asked), UNCHANGED types, Depth(t) = Depth(text) + 1
    PROVE  Inv'
<1> DEFINE f == ThenFrame(frees)
<1>1. /\ f \in Frame /\ f.braces = 1 /\ Fits(f, limits \cup asked)
      /\ Then(frees) = <<f, Call("expression")>>
  BY ThenFrameIs
<1> HIDE DEF f
<1>2. Emit(t, <<f, Call("expression")>>, asked)
  BY <1>1
<1>3. Depth(t) = Depth(text) + f.braces
  BY <1>1
<1> QED BY <1>1, <1>2, <1>3, EmitTwo

LEMMA TypeTestOK ==
    ASSUME Inv, phase = "body", NEW name \in Mentioned, generate_conditional_type(name)
    PROVE  Inv'
<1> DEFINE isnum == Own("_isnum")
           t1 == text ++ Var(isnum)
           t2 == t1 ++ Use({name})
           t3 == t2 ++ If({isnum})
           asked == When(InBlock(isnum), "repeated")
<1>1. /\ text \in Text /\ isnum \in Name /\ {name} \in SUBSET Name
      /\ {isnum} \in SUBSET Name /\ << >> \in Seq(Name)
  BY MentionedOK, OwnOK, EmptySeq
<1>2. Emit(t3, Then(<< >>), asked) /\ UNCHANGED types
  BY DEF generate_conditional_type
<1>3. asked \in SUBSET Limits
  BY LimitsOK
<1> HIDE DEF isnum, asked
<1>4. t1 \in Text /\ Depth(t1) = Depth(text)
  BY <1>1, FlatOK
<1> HIDE DEF t1
<1>5. t2 \in Text /\ Depth(t2) = Depth(text)
  BY <1>1, <1>4, FlatOK
<1> HIDE DEF t2
<1>6. t3 \in Text /\ Depth(t3) = Depth(text) + 1
  BY <1>1, <1>5, OpenOK
<1> HIDE DEF t3
<1> DEFINE none == << >>
<1>7. none \in Seq(Name) /\ Emit(t3, Then(none), asked)
  BY <1>1, <1>2
<1> HIDE DEF none
<1> QED BY <1>2, <1>3, <1>6, <1>7, EmitThen

LEMMA CompareOK ==
    ASSUME Inv, phase = "body", NEW left \in Operands, NEW right \in Operands,
           generate_conditional_compare(left, right)
    PROVE  Inv'
<1> DEFINE number == Own("_constant_number_if")
           a == IF left = Constant THEN <<number>> ELSE << >>
           b == IF right = Constant THEN <<number>> ELSE << >>
           constants == a \o b
           u1 == Allocated(text, number)
           v1 == u1 ++ Use({number})
           u2 == Allocated(v1, number)
           v2 == u2 ++ Use({number})
           t == CASE Len(constants) = 0 -> text
                  [] Len(constants) = 1 -> v1
                  [] Len(constants) = 2 -> v2
           names == left.names \cup right.names \cup Range(constants)
           asked == When((constants # << >> /\ InBlock(number)) \/ Len(constants) = 2, "repeated")
<1>1. /\ text \in Text /\ number \in Name /\ {number} \in SUBSET Name
      /\ left.names \in SUBSET Name /\ right.names \in SUBSET Name
  BY MentionedOK, OwnOK
<1>2. constants \in {<< >>, <<number>>, <<number, number>>}
  <2> HIDE DEF number
  <2>1. a \in {<< >>, <<number>>} /\ b \in {<< >>, <<number>>}
    OBVIOUS
  <2>2. << >> \in Seq({number}) /\ <<number>> \in Seq({number})
    OBVIOUS
  <2>3. << >> \o << >> = << >> /\ <<number>> \o << >> = <<number>> /\ << >> \o <<number>> = <<number>>
    BY <2>2, ConcatEmptySeq
  <2>4. <<number>> \o <<number>> = <<number, number>>
    BY PairIs
  <2> HIDE DEF a, b
  <2> QED BY <2>1, <2>3, <2>4
<1>3. /\ Len(constants) \in {0, 1, 2} /\ constants \in Seq(Name) /\ Range(constants) \subseteq Name
  <2> HIDE DEF number, constants
  <2>1. CASE constants = << >>
    BY <2>1 DEF Range
  <2>2. CASE constants = <<number>>
    BY <1>1, <2>2 DEF Range
  <2>3. CASE constants = <<number, number>>
    BY <1>1, <2>3 DEF Range
  <2> QED BY <1>2, <2>1, <2>2, <2>3
<1>4. \/ Crash /\ UNCHANGED types
      \/ Emit(t ++ If(names), Then(constants), asked) /\ UNCHANGED types
  <2> DEFINE declared == [k \in 0 .. 2 |->
                            CASE k = 0 -> text
                              [] k = 1 -> Allocated(text, number) ++ Use({number})
                              [] k = 2 -> Allocated(Allocated(text, number) ++ Use({number}), number)
                                             ++ Use({number})]
  <2>1. \/ Crash /\ UNCHANGED types
        \/ Emit(declared[Len(constants)] ++ If(names), Then(constants), asked) /\ UNCHANGED types
    BY DEF generate_conditional_compare
  <2>2. declared[0] = text /\ declared[1] = v1 /\ declared[2] = v2
    <3> HIDE DEF number
    <3> QED OBVIOUS
  <2>3. declared[Len(constants)] = t
    <3> HIDE DEF declared, constants, v1, v2
    <3> QED BY <1>3, <2>2
  <2> HIDE DEF declared, constants, names, asked, t
  <2> QED BY <2>1, <2>3
<1> HIDE DEF number, constants
<1>5. u1 \in Text /\ Depth(u1) = Depth(text)
  BY <1>1, AllocatedOK
<1> HIDE DEF u1
<1>6. v1 \in Text /\ Depth(v1) = Depth(text)
  BY <1>1, <1>5, FlatOK
<1> HIDE DEF v1
<1>7. u2 \in Text /\ Depth(u2) = Depth(text)
  BY <1>1, <1>6, AllocatedOK
<1> HIDE DEF u2
<1>8. v2 \in Text /\ Depth(v2) = Depth(text)
  BY <1>1, <1>7, FlatOK
<1> HIDE DEF v2
<1>9. t \in Text /\ Depth(t) = Depth(text)
  BY <1>1, <1>3, <1>6, <1>8
<1>10. names \in SUBSET Name
  BY <1>1, <1>3
<1>11. asked \in SUBSET Limits
  BY LimitsOK
<1> HIDE DEF t, names, asked
<1> DEFINE w == t ++ If(names)
<1>12. w \in Text /\ Depth(w) = Depth(text) + 1
  BY <1>9, <1>10, OpenOK
<1>13. CASE Crash /\ UNCHANGED types
  BY <1>13, PlainOK DEF Plain
<1>14. CASE Emit(w, Then(constants), asked) /\ UNCHANGED types
  <2> HIDE DEF w
  <2> QED BY <1>3, <1>11, <1>12, <1>14, EmitThen
<1> QED BY <1>4, <1>13, <1>14

LEMMA DefaultOK ==
    ASSUME Inv, phase = "body", generate_conditional_default PROVE Inv'
<1> DEFINE f == [Call("else") EXCEPT !.braces = 1]
           t == text ++ Else
           asked == {"condition"}
<1>1. text \in Text
  BY MentionedOK
<1>2. Emit(t, <<f, Call("expression")>>, asked) /\ UNCHANGED types
  BY DEF generate_conditional_default
<1>3. f \in Frame /\ f.fun = "else" /\ f.braces = 1
  BY CalledOK
<1> HIDE DEF f
<1>4. t \in Text /\ asked \in SUBSET Limits /\ asked # {}
  BY <1>1, OpenOK, LimitsOK
<1>5. Fits(f, limits \cup asked)
  BY <1>3 DEF Fits
<1> HIDE DEF t, asked
<1> QED BY <1>2, <1>3, <1>4, <1>5, EmitTwo

LEMMA ConditionalOK ==
    ASSUME Inv, phase = "body", Conditional PROVE Inv'
<1>1. CASE \E name \in Mentioned : generate_conditional_type(name)
  BY <1>1, TypeTestOK
<1>2. CASE \E left, right \in Operands : generate_conditional_compare(left, right)
  BY <1>2, CompareOK
<1>3. CASE generate_conditional_default
  BY <1>3, DefaultOK
<1> QED BY <1>1, <1>2, <1>3 DEF Conditional

---------------------------------------------------------------------------
(* An expression is only chosen when one is expected. *)

LEMMA ExpressionExpected ==
    ASSUME Expression PROVE Expecting
<1>1. \A t, asked : Statement(t, asked) => Expecting
  BY DEF Statement, Emit
<1>2. Crash => Expecting
  BY DEF Crash
<1>3. \A t, frames, asked : Emit(t, frames, asked) => Expecting
  BY DEF Emit
<1>4. \A name, type, t : Declare(name, type, t) => Expecting
  BY DEF Declare
<1>5. \A form : Declaration(form) => Expecting
  BY <1>4 DEF Declaration, generate_variable, generate_variable_file
<1>6. ASSUME NEW form, Assignment(form) PROVE Expecting
  <2>1. \A dest : generate_variable_assignment_to_constant(dest) => Expecting
    BY <1>1 DEF generate_variable_assignment_to_constant
  <2>2. \A dest, source : generate_variable_assignment_to_variable(dest, source) => Expecting
    BY <1>1 DEF generate_variable_assignment_to_variable
  <2>3. \A dest, left, right : generate_number_arithmetic(dest, left, right) => Expecting
    BY <1>1 DEF generate_number_arithmetic
  <2>4. ASSUME NEW dest, NEW left, NEW right,
               generate_number_arithmetic_mul_with_file(dest, left, right)
        PROVE  Expecting
    BY <1>1, <1>2, <2>4 DEF generate_number_arithmetic_mul_with_file
  <2>5. ASSUME NEW dest, NEW left, NEW right,
               generate_string_arithmetic_add_expression(dest, left, right)
        PROVE  Expecting
    BY <1>1, <1>2, <2>5 DEF generate_string_arithmetic_add_expression, Fail
  <2>6. ASSUME NEW dest, NEW id, NEW function,
               generate_variable_assignment_from_function_call(dest, id, function)
        PROVE  Expecting
    BY <1>1, <2>6 DEF generate_variable_assignment_from_function_call
  <2> QED BY <1>6, <2>1, <2>2, <2>3, <2>4, <2>5, <2>6 DEF Assignment
<1>7. \A name : generate_expressions_list_with_file(name) => Expecting
  BY <1>1, <1>3 DEF generate_expressions_list_with_file, Fail
<1>8. Loop => Expecting
  BY <1>3 DEF Loop, generate_loop_over_range, generate_loop_function_calls_expression
<1>9. Conditional => Expecting
  <2>1. \A name : generate_conditional_type(name) => Expecting
    BY <1>3 DEF generate_conditional_type
  <2>2. ASSUME NEW left, NEW right, generate_conditional_compare(left, right) PROVE Expecting
    BY <1>2, <1>3, <2>2 DEF generate_conditional_compare
  <2>3. generate_conditional_default => Expecting
    BY <1>3 DEF generate_conditional_default
  <2> QED BY <2>1, <2>2, <2>3 DEF Conditional
<1>10. generate_number_arithmetic_none \/ generate_nothing \/ Fail => Expecting
  BY <1>1 DEF generate_number_arithmetic_none, generate_nothing, Fail
<1> QED BY <1>5, <1>6, <1>7, <1>8, <1>9, <1>10 DEF Expression

LEMMA ExpressionOK ==
    ASSUME Inv, Expression PROVE Inv'
<1>1. phase = "body" /\ Top.fun \in {"list", "expression"}
  BY ExpressionExpected DEF Expecting
<1>2. PICK form \in scale.forms :
        \/ Declaration(form)
        \/ Assignment(form)
        \/ \E name \in DOMAIN types : generate_expressions_list_with_file(name)
        \/ Loop
        \/ Conditional
        \/ generate_number_arithmetic_none
        \/ generate_nothing
        \/ Fail
  BY DEF Expression
<1>3. CASE Declaration(form)
  BY <1>1, <1>3, DeclarationOK
<1>4. CASE Assignment(form)
  BY <1>1, <1>4, AssignmentOK, PlainOK
<1>5. CASE \E name \in DOMAIN types : generate_expressions_list_with_file(name)
  BY <1>1, <1>5, WithOK
<1>6. CASE Loop
  BY <1>1, <1>6, LoopOK
<1>7. CASE Conditional
  BY <1>1, <1>7, ConditionalOK
<1>8. CASE generate_number_arithmetic_none
  BY <1>1, <1>8, NoneOK, PlainOK
<1>9. CASE generate_nothing \/ Fail
  <2>1. Fail
    BY <1>9 DEF generate_nothing, Fail
  <2> QED BY <2>1, PlainFail, PlainOK
<1> QED BY <1>2, <1>3, <1>4, <1>5, <1>6, <1>7, <1>8, <1>9


---------------------------------------------------------------------------
(* The walk goes on in the function on top of the stack. *)

LEMMA ContinueOK ==
    ASSUME Inv, phase = "body", NEW t \in Text, NEW s, text' = t, calls' = s,
           Stack(s, limits), limits = {} => Depth(t) = 1 + Owes(s),
           UNCHANGED <<params, types, phase, generated, exit, expressions, limits, scale>>
    PROVE  Inv'
<1>1. /\ limits' = limits \cup {} /\ phase' = "body" /\ text' \in Text
      /\ Stack(s, limits \cup {}) /\ {} \in SUBSET Limits
  <2>1. limits \cup {} = limits
    OBVIOUS
  <2> QED BY <2>1
<1>2. limits \cup {} = {} => Depth(text)' = 1 + Owes(s)
  BY DEF Depth
<1>3. /\ DOMAIN types' \subseteq Identifiers /\ types' \in [DOMAIN types' -> Types]
      /\ expressions' \in 0 .. scale.expressions
  BY DEF Inv, TypeOK
<1> QED BY <1>1, <1>2, <1>3, WalkOK

\* The function on top, and what it owes.
LEMMA TopOK ==
    ASSUME Inv, phase = "body"
    PROVE  /\ Stack(calls, limits) /\ Top \in Frame /\ Top = Last(calls) /\ Fits(Top, limits)
           /\ text \in Text /\ Depth(text) \in Nat /\ Top.braces \in Nat
           /\ Owes(Front(calls)) \in Nat
           /\ limits = {} => Depth(text) = 1 + Owes(Front(calls)) + Top.braces
           /\ Top.fun # "list" => Stack(Front(calls), limits)
<1>1. Stack(calls, limits) /\ TypeOK
  BY DEF Inv
<1>2. /\ Last(calls) \in Frame /\ Fits(Last(calls), limits)
      /\ Owes(calls) \in Nat /\ Owes(Front(calls)) \in Nat
      /\ Owes(calls) = Owes(Front(calls)) + Last(calls).braces
      /\ Last(calls).fun # "list" => Stack(Front(calls), limits)
  BY <1>1, StackTop
<1>3. text \in Text /\ Depth(text) \in Nat
  BY <1>1, DepthIs DEF TypeOK
<1>4. Last(calls).braces \in Nat
  BY <1>2 DEF Frame
<1>5. limits = {} => Depth(text) = 1 + Owes(calls)
  BY <1>1, BracesAre DEF Inv
<1> QED BY <1>1, <1>2, <1>3, <1>4, <1>5 DEF Top

\* It changes, and the text with it.
LEMMA TopChanges ==
    ASSUME Inv, phase = "body", NEW t \in Text, NEW g \in Frame, Fits(g, limits),
           g.fun = "list" <=> Top.fun = "list", text' = t, calls' = SetTop(g),
           limits = {} => Depth(t) = Depth(text) + g.braces - Top.braces,
           UNCHANGED <<params, types, phase, generated, exit, expressions, limits, scale>>
    PROVE  Inv'
<1>1. /\ Stack(calls, limits) /\ Top = Last(calls)
      /\ Depth(text) \in Nat /\ Top.braces \in Nat
      /\ Owes(Front(calls)) \in Nat
      /\ limits = {} => Depth(text) = 1 + Owes(Front(calls)) + Top.braces
  BY TopOK
<1> DEFINE s == Append(Front(calls), g)
<1>2. Stack(s, limits) /\ Owes(s) = Owes(Front(calls)) + g.braces
  BY <1>1, ReplaceOK
<1>3. calls' = s
  BY DEF SetTop
<1> HIDE DEF s
<1>4. g.braces \in Nat
  BY DEF Frame
<1>5. limits = {} => Depth(t) = 1 + Owes(s)
  BY <1>1, <1>2, <1>4
<1> QED BY <1>2, <1>3, <1>5, ContinueOK

\* It changes and calls an expression.
LEMMA TopCalls ==
    ASSUME Inv, phase = "body", NEW t \in Text, NEW g \in Frame, Fits(g, limits),
           g.fun = "list" <=> Top.fun = "list", text' = t,
           calls' = SetTop(g) \o <<Call("expression")>>,
           limits = {} => Depth(t) = Depth(text) + g.braces - Top.braces,
           UNCHANGED <<params, types, phase, generated, exit, expressions, limits, scale>>
    PROVE  Inv'
<1>1. /\ Stack(calls, limits) /\ Top = Last(calls)
      /\ Depth(text) \in Nat /\ Top.braces \in Nat
      /\ Owes(Front(calls)) \in Nat
      /\ limits = {} => Depth(text) = 1 + Owes(Front(calls)) + Top.braces
  BY TopOK
<1> DEFINE s == Append(Front(calls), g)
           e == Call("expression")
           u == Append(s, e)
<1>2. Stack(s, limits) /\ Owes(s) = Owes(Front(calls)) + g.braces
  BY <1>1, ReplaceOK
<1>3. calls' = s \o <<e>>
  BY DEF SetTop
<1>4. e \in Frame /\ e.fun = "expression" /\ e.braces = 0
  BY CallIs DEF Functions
<1> HIDE DEF s, e
<1>5. Fits(e, limits)
  BY <1>4 DEF Fits
<1>6. Stack(u, limits) /\ Owes(u) = Owes(s) + e.braces /\ s \o <<e>> = u
  BY <1>2, <1>4, <1>5, PushOK
<1>7. calls' = u
  BY <1>3, <1>6
<1> HIDE DEF u
<1>8. g.braces \in Nat
  BY DEF Frame
<1>9. limits = {} => Depth(t) = 1 + Owes(u)
  BY <1>1, <1>2, <1>4, <1>6, <1>8
<1> QED BY <1>6, <1>7, <1>9, ContinueOK

\* It returns, and the braces it owed are closed.
LEMMA TopReturns ==
    ASSUME Inv, phase = "body", NEW t \in Text, Top.fun # "list",
           text' = t, calls' = Front(calls),
           limits = {} => Depth(t) = Depth(text) - Top.braces,
           UNCHANGED <<params, types, phase, generated, exit, expressions, limits, scale>>
    PROVE  Inv'
<1>1. /\ Stack(Front(calls), limits)
      /\ Depth(text) \in Nat /\ Top.braces \in Nat
      /\ Owes(Front(calls)) \in Nat
      /\ limits = {} => Depth(text) = 1 + Owes(Front(calls)) + Top.braces
  BY TopOK
<1> DEFINE s == Front(calls)
<1> HIDE DEF s
<1>2. limits = {} => Depth(t) = 1 + Owes(s)
  BY <1>1 DEF s
<1>3. Stack(s, limits) /\ calls' = s
  BY <1>1 DEF s
<1> QED BY <1>2, <1>3, ContinueOK

LEMMA EndOfListOK ==
    ASSUME Inv, EndOfList PROVE Inv'
<1>1. /\ phase = "body" /\ Top.fun = "list" /\ calls' = Front(calls)
      /\ phase' = (IF Len(calls) = 1 THEN "return" ELSE phase)
      /\ UNCHANGED <<text, params, types, generated, exit, expressions, limits, scale>>
  BY DEF EndOfList
<1>2. /\ Stack(calls, limits) /\ Fits(Top, limits) /\ text \in Text /\ TypeOK
      /\ Depth(text) \in Nat /\ Owes(Front(calls)) \in Nat
      /\ limits = {} => Depth(text) = 1 + Owes(Front(calls)) + Top.braces
      /\ params \in Seq(Identifiers)
  BY <1>1, TopOK DEF Inv
<1>3. Front(calls) \in Seq(Frame) /\ (Len(calls) # 1 => Stack(Front(calls), limits))
  BY <1>2, StackTop
<1>4. CASE Len(calls) = 1
  <2>1. phase' = "return"
    BY <1>1, <1>4
  <2>2. "return" \in Phases
    BY DEF Phases
  <2>3. TypeOK'
    BY <1>1, <1>2, <1>3, <2>1, <2>2 DEF TypeOK
  <2>4. BracesAreCounted'
    BY <2>1 DEF BracesAreCounted
  <2> QED BY <1>1, <1>2, <2>1, <2>3, <2>4 DEF Inv
<1>5. CASE Len(calls) # 1
  <2>1. Top.braces = 0
    BY <1>1, <1>2 DEF Fits
  <2> DEFINE s == Front(calls)
  <2>2. Stack(s, limits) /\ calls' = s
    BY <1>1, <1>3, <1>5
  <2>3. limits = {} => Depth(text) = 1 + Owes(s)
    BY <1>2, <2>1
  <2> HIDE DEF s
  <2>4. text' = text
        /\ UNCHANGED <<params, types, phase, generated, exit, expressions, limits, scale>>
    BY <1>1, <1>5
  <2> QED BY <1>1, <1>2, <2>2, <2>3, <2>4, ContinueOK
<1> QED BY <1>4, <1>5

---------------------------------------------------------------------------
(* The calls of a loop. *)

\* One and two members of a set are sequences over it.
LEMMA OneOf ==
    ASSUME NEW S, NEW x, x \in S PROVE <<x>> \in Seq(S)
<1>1. << >> \in Seq(S)
  BY EmptySeq
<1>2. Append(<< >>, x) = <<x>>
  OBVIOUS
<1>3. Append(<< >>, x) \in Seq(S)
  BY <1>1, AppendProperties
<1> QED BY <1>2, <1>3

LEMMA TwoOf ==
    ASSUME NEW S, NEW x, x \in S, NEW y, y \in S PROVE <<x, y>> \in Seq(S)
<1>1. <<x>> \in Seq(S) /\ <<y>> \in Seq(S)
  BY OneOf
<1>2. <<x>> \o <<y>> \in Seq(S)
  BY <1>1, ConcatProperties
<1> QED BY <1>2, PairIs

\* Ordered calls are ones the generator knows.
LEMMA OrderedCalls ==
    ASSUME NEW chain, Ordered(chain), NEW k \in 1 .. Len(chain)
    PROVE  chain[k] \in ByIndexes \cup {"lines", "columns"}
<1> DEFINE S == ByIndexes \cup {"lines", "columns"}
<1>1. PICK tail \in {<< >>, <<"byIndex">>, <<"byIndex number">>, <<"byIndex range">>} :
        chain \in {<<"lines">> \o tail, <<"columns", "lines">> \o tail}
  BY DEF Ordered
<1>2. {"byIndex", "byIndex number", "byIndex range", "lines", "columns"} \subseteq S
  BY DEF ByIndexes
<1> HIDE DEF S
<1>3. tail \in Seq(S) /\ <<"lines">> \in Seq(S) /\ <<"columns", "lines">> \in Seq(S)
  <2>1. /\ "byIndex" \in S /\ "byIndex number" \in S /\ "byIndex range" \in S
        /\ "lines" \in S /\ "columns" \in S
    BY <1>2
  <2>2. << >> \in Seq(S)
    BY EmptySeq
  <2>3. <<"byIndex">> \in Seq(S)
    BY <2>1, OneOf
  <2>4. <<"byIndex number">> \in Seq(S)
    BY <2>1, OneOf
  <2>5. <<"byIndex range">> \in Seq(S)
    BY <2>1, OneOf
  <2>6. <<"lines">> \in Seq(S)
    BY <2>1, OneOf
  <2>7. <<"columns", "lines">> \in Seq(S)
    BY <2>1, TwoOf
  <2>8. tail \in Seq(S)
    BY <2>2, <2>3, <2>4, <2>5
  <2> QED BY <2>6, <2>7, <2>8
<1>4. <<"lines">> \o tail \in Seq(S) /\ <<"columns", "lines">> \o tail \in Seq(S)
  BY <1>3, ConcatProperties
<1>5. chain \in Seq(S)
  BY <1>1, <1>4
<1>6. chain[k] \in S
  BY <1>5, ElementOfSeq
<1> QED BY <1>6 DEF S

LEMMA StepOK ==
    ASSUME Inv, Iterating, Top.at > 0, NEW t \in Text, NEW braces \in Nat,
           Depth(t) = Depth(text) + braces, Step(t, braces)
    PROVE  Inv'
<1>1. phase = "body" /\ Top.fun = "calls"
  BY DEF Iterating
<1>2. Top \in Frame /\ Fits(Top, limits) /\ Depth(text) \in Nat /\ Top.braces \in Nat
  BY <1>1, TopOK
<1> DEFINE g == [Top EXCEPT !.at = @ - 1, !.braces = @ + braces]
<1>3. /\ g \in Frame /\ g.fun = Top.fun /\ g.braces = Top.braces + braces
      /\ g.chain = Top.chain /\ g.at = Top.at - 1
  BY <1>2, StepIs
<1>4. /\ text' = t /\ calls' = SetTop(g)
      /\ UNCHANGED <<params, types, phase, generated, exit, expressions, limits, scale>>
  BY DEF Step
<1> HIDE DEF g
<1>5. Fits(g, limits)
  <2>1. Top.at <= Len(Top.chain) /\ (limits = {} => Ordered(Top.chain))
    BY <1>1, <1>2 DEF Fits
  <2>2. Top.at \in Nat /\ Len(Top.chain) \in Nat
    <3>1. Top.at \in Nat /\ Top.chain \in Chains \cup {<< >>}
      BY <1>2 DEF Frame
    <3>2. Top.chain \in Seq(STRING)
      BY <3>1, ChainsAssumption, EmptySeq
    <3> QED BY <3>1, <3>2, LenProperties
  <2>3. g.at <= Len(g.chain)
    BY <1>3, <2>1, <2>2
  <2> QED BY <1>1, <1>3, <2>1, <2>3 DEF Fits
<1>6. Depth(t) = Depth(text) + g.braces - Top.braces
  BY <1>2, <1>3
<1> QED BY <1>1, <1>3, <1>4, <1>5, <1>6, TopChanges

\* What the calls of a loop mention.
LEMMA LoopNamesOK ==
    ASSUME Inv, Iterating
    PROVE  /\ text \in Text /\ Depth(text) \in Nat /\ Top.var \in Name
           /\ LineLength \in Name /\ FileOf(working) \in Name
           /\ {LineLength} \in SUBSET Name /\ {FileOf(working)} \in SUBSET Name
           /\ {Top.var} \in SUBSET Name /\ {} \in SUBSET Name
           /\ {FileOf(working), LineLength, Top.var} \in SUBSET Name
           /\ {FileOf(working), Top.var} \cup IndexNames \in SUBSET Name
           /\ {FileOf(working), Top.var} \cup {} \in SUBSET Name
           /\ Own("_byIndex_implementation") \in Name
           /\ {LineLength, Own("_byIndex_implementation")} \in SUBSET Name
<1>1. phase = "body"
  BY DEF Iterating
<1>2. text \in Text /\ Depth(text) \in Nat /\ Top \in Frame /\ working \in Name
  BY <1>1, TopOK, MentionedOK
<1>3. Top.var \in Name /\ Top.index \in Name
  BY <1>2 DEF Frame
<1>4. IndexNames \subseteq Name
  BY <1>3 DEF IndexNames
<1>5. LineLength \in Name /\ Own("_byIndex_implementation") \in Name /\ FileOf(working) \in Name
  BY <1>2, OwnOK, NamesOK
<1> QED BY <1>2, <1>3, <1>4, <1>5

LEMMA FilteredOK ==
    ASSUME Inv, Iterating, NEW t \in Text
    PROVE  Filtered(t) \in Text /\ Depth(Filtered(t)) = Depth(t) + 2
<1> DEFINE t1 == t ++ Use({FileOf(working)})
           t2 == t1 ++ While({LineLength})
           t3 == t2 ++ Use({FileOf(working), LineLength, Top.var})
           t4 == t3 ++ If({Top.var})
<1>1. /\ {LineLength} \in SUBSET Name /\ {FileOf(working)} \in SUBSET Name
      /\ {Top.var} \in SUBSET Name
      /\ {FileOf(working), LineLength, Top.var} \in SUBSET Name
  BY LoopNamesOK
<1>2. Filtered(t) = t4 /\ Depth(t) \in Nat
  BY DepthIs DEF Filtered
<1>3. t1 \in Text /\ Depth(t1) = Depth(t)
  BY <1>1, FlatOK
<1> HIDE DEF t1
<1>4. t2 \in Text /\ Depth(t2) = Depth(t) + 1
  BY <1>1, <1>3, OpenOK
<1> HIDE DEF t2
<1>5. t3 \in Text /\ Depth(t3) = Depth(t) + 1
  BY <1>1, <1>4, FlatOK
<1> HIDE DEF t3
<1>6. t4 \in Text /\ Depth(t4) = Depth(t) + 2
  BY <1>1, <1>2, <1>5, OpenOK
<1> QED BY <1>2, <1>6

LEMMA CallLinesOK ==
    ASSUME Inv, CallLines PROVE Inv'
<1> DEFINE l1 == text ++ Var(LineLength)
           line == Allocated(l1, Top.var)
           index == IF Following = "byIndex" THEN IndexNames ELSE {}
           read == line ++ Use({FileOf(working), Top.var} \cup index)
           r1 == read ++ Check({LineLength})
           r2 == read ++ Check({LineLength, Own("_byIndex_implementation")})
           f == Filtered(line)
<1>1. /\ Iterating /\ Top.at > 0
      /\ Step(r1, 0) \/ Step(r2, 0) \/ Step(f, 2) \/ Step(line, 0)
  BY DEF CallLines
<1>2. /\ text \in Text /\ Depth(text) \in Nat /\ LineLength \in Name /\ Top.var \in Name
      /\ {LineLength} \in SUBSET Name
      /\ {LineLength, Own("_byIndex_implementation")} \in SUBSET Name
      /\ {FileOf(working), Top.var} \cup index \in SUBSET Name
  BY <1>1, LoopNamesOK
<1> HIDE DEF index
<1>3. l1 \in Text /\ Depth(l1) = Depth(text)
  BY <1>2, FlatOK
<1> HIDE DEF l1
<1>4. line \in Text /\ Depth(line) = Depth(text)
  BY <1>2, <1>3, AllocatedOK
<1> HIDE DEF line
<1>5. read \in Text /\ Depth(read) = Depth(text)
  BY <1>2, <1>4, FlatOK
<1> HIDE DEF read
<1>6. r1 \in Text /\ Depth(r1) = Depth(text) /\ r2 \in Text /\ Depth(r2) = Depth(text)
  BY <1>2, <1>5, FlatOK
<1> HIDE DEF r1, r2
<1>7. f \in Text /\ Depth(f) = Depth(text) + 2
  BY <1>1, <1>4, FilteredOK
<1> HIDE DEF f
<1>8. Depth(text) = Depth(text) + 0 /\ 0 \in Nat /\ 2 \in Nat
  BY <1>2
<1>9. CASE Step(r1, 0)
  BY <1>1, <1>6, <1>8, <1>9, StepOK
<1>10. CASE Step(r2, 0)
  BY <1>1, <1>6, <1>8, <1>10, StepOK
<1>11. CASE Step(f, 2)
  BY <1>1, <1>7, <1>8, <1>11, StepOK
<1>12. CASE Step(line, 0)
  BY <1>1, <1>4, <1>8, <1>12, StepOK
<1> QED BY <1>1, <1>9, <1>10, <1>11, <1>12

LEMMA CallFilterOK ==
    ASSUME Inv, CallFilter PROVE Inv'
<1>1. Iterating /\ Top.at > 0 /\ Step(Filtered(text), 2)
  BY DEF CallFilter
<1>2. text \in Text
  BY <1>1, LoopNamesOK
<1>3. Filtered(text) \in Text /\ Depth(Filtered(text)) = Depth(text) + 2
  BY <1>1, <1>2, FilteredOK
<1> QED BY <1>1, <1>3, StepOK

LEMMA CallByIndexOK ==
    ASSUME Inv, CallByIndex PROVE Inv'
<1> DEFINE t1 == text ++ While({})
           t2 == t1 ++ Var(Own("_byIndex_implementation"))
<1>1. Iterating /\ Top.at > 0 /\ (Step(text, 0) \/ Step(t2, 1))
  BY DEF CallByIndex
<1>2. /\ text \in Text /\ Depth(text) \in Nat /\ {} \in SUBSET Name
      /\ Own("_byIndex_implementation") \in Name
  BY <1>1, LoopNamesOK
<1>3. t1 \in Text /\ Depth(t1) = Depth(text) + 1
  BY <1>2, OpenOK
<1> HIDE DEF t1
<1>4. t2 \in Text /\ Depth(t2) = Depth(text) + 1
  BY <1>2, <1>3, FlatOK
<1> HIDE DEF t2
<1>5. Depth(text) = Depth(text) + 0 /\ 0 \in Nat /\ 1 \in Nat
  BY <1>2
<1>6. CASE Step(text, 0)
  BY <1>1, <1>2, <1>5, <1>6, StepOK
<1>7. CASE Step(t2, 1)
  BY <1>1, <1>4, <1>5, <1>7, StepOK
<1> QED BY <1>1, <1>6, <1>7

LEMMA CallFailsOK ==
    ASSUME Inv, CallFails PROVE Inv'
<1>1. /\ Iterating /\ phase = "body" /\ Top.fun = "calls" /\ Top.at > 0
      /\ Top.chain[Top.at] \notin ByIndexes \cup {"lines", "filter", "columns"}
      /\ calls' = Front(calls) /\ text' = text
      /\ UNCHANGED <<params, types, phase, generated, exit, expressions, limits, scale>>
  BY DEF CallFails, Iterating
<1>2. Top \in Frame /\ Fits(Top, limits) /\ text \in Text
  BY <1>1, TopOK
<1>3. limits # {}
  <2> SUFFICES ASSUME limits = {} PROVE FALSE
    OBVIOUS
  <2>1. Ordered(Top.chain) /\ Top.at <= Len(Top.chain)
    BY <1>1, <1>2 DEF Fits
  <2>2. Top.at \in Nat /\ Len(Top.chain) \in Nat
    <3>1. Top.at \in Nat /\ Top.chain \in Chains \cup {<< >>}
      BY <1>2 DEF Frame
    <3>2. Top.chain \in Seq(STRING)
      BY <3>1, ChainsAssumption, EmptySeq
    <3> QED BY <3>1, <3>2, LenProperties
  <2>3. Top.at \in 1 .. Len(Top.chain)
    BY <1>1, <2>1, <2>2
  <2>4. Top.chain[Top.at] \in ByIndexes \cup {"lines", "columns"}
    BY <2>1, <2>3, OrderedCalls
  <2> QED BY <1>1, <2>4
<1> QED BY <1>1, <1>2, <1>3, TopReturns

LEMMA CallColumnsOK ==
    ASSUME Inv, CallColumns PROVE Inv'
<1> DEFINE indexed == \E k \in Top.at .. Len(Top.chain) : Top.chain[k] \in ByIndexes
           line == Own("_line_line")
           length == Own("_columns_len_implementation")
           column == Column(Top.var)
           i1 == text ++ Use({Top.var})
           i2 == i1 ++ Var(Remaining)
           n1 == text ++ Use({LineLength})
           n2 == Allocated(n1, line)
           n3 == n2 ++ While({LineLength})
           n4 == n3 ++ Use({FileOf(working), line})
           n5 == n4 ++ Check({LineLength, line})
           n6 == n5 ++ Var(Remaining)
           lines == IF indexed THEN i2 ELSE n6
           braces == IF indexed THEN 2 ELSE 3
           c1 == lines ++ Var(length)
           c2 == Allocated(c1, column)
           c3 == c2 ++ While({Remaining})
           c4 == c3 ++ Var(Separator)
           c5 == c4 ++ Use({Remaining, FileOf(working), column})
           columns == c5 ++ If({column, length})
           g == [Top EXCEPT !.fun = "columns", !.var = column, !.braces = @ + braces]
<1>1. Iterating /\ Top.at > 0 /\ phase = "body" /\ Top.fun = "calls"
  BY DEF CallColumns, Iterating
<1>2. \/ Step(text, 0)
      \/ /\ text' = columns
         /\ calls' = SetTop(g) \o <<Call("expression")>>
         /\ UNCHANGED <<params, types, phase, generated, exit, expressions, limits, scale>>
  BY DEF CallColumns
<1>3. /\ text \in Text /\ Depth(text) \in Nat /\ Top.var \in Name
      /\ LineLength \in Name /\ FileOf(working) \in Name
      /\ {LineLength} \in SUBSET Name /\ {Top.var} \in SUBSET Name
  BY <1>1, LoopNamesOK
<1>4. /\ line \in Name /\ length \in Name /\ Remaining \in Name /\ Separator \in Name
      /\ column \in Name
  BY <1>3, OwnOK, NamesOK
<1> HIDE DEF line, length, column
<1>5. /\ {FileOf(working), line} \in SUBSET Name /\ {LineLength, line} \in SUBSET Name
      /\ {Remaining} \in SUBSET Name /\ {Remaining, FileOf(working), column} \in SUBSET Name
      /\ {column, length} \in SUBSET Name
  BY <1>3, <1>4
<1>6. Top \in Frame /\ Fits(Top, limits) /\ Top.braces \in Nat
  BY <1>1, TopOK
<1>7. CASE Step(text, 0)
  <2>1. Depth(text) = Depth(text) + 0 /\ 0 \in Nat
    BY <1>3
  <2> QED BY <1>1, <1>3, <1>7, <2>1, StepOK
<1>8. CASE /\ text' = columns
           /\ calls' = SetTop(g) \o <<Call("expression")>>
           /\ UNCHANGED <<params, types, phase, generated, exit, expressions, limits, scale>>
  <2>1. braces \in Nat
    OBVIOUS
  <2>2. /\ g \in Frame /\ g.fun = "columns" /\ g.braces = Top.braces + braces
        /\ g.chain = Top.chain /\ g.at = Top.at
    <3>1. g = ColumnsFrame(Top, column, braces)
      BY DEF ColumnsFrame
    <3> HIDE DEF g, braces
    <3> QED BY <1>4, <1>6, <2>1, <3>1, ColumnsFrameIs
  <2>3. Fits(g, limits)
    BY <1>1, <1>6, <2>2 DEF Fits
  <2>4. lines \in Text /\ Depth(lines) = Depth(text) + braces - 2
    <3> HIDE DEF indexed
    <3>1. i1 \in Text /\ Depth(i1) = Depth(text) /\ n1 \in Text /\ Depth(n1) = Depth(text)
      BY <1>3, FlatOK
    <3> HIDE DEF i1, n1
    <3>2. i2 \in Text /\ Depth(i2) = Depth(text)
      BY <1>4, <3>1, FlatOK
    <3> HIDE DEF i2
    <3>3. n2 \in Text /\ Depth(n2) = Depth(text)
      BY <1>4, <3>1, AllocatedOK
    <3> HIDE DEF n2
    <3>4. n3 \in Text /\ Depth(n3) = Depth(text) + 1
      BY <1>3, <3>3, OpenOK
    <3> HIDE DEF n3
    <3>5. n4 \in Text /\ Depth(n4) = Depth(text) + 1
      BY <1>5, <3>4, FlatOK
    <3> HIDE DEF n4
    <3>6. n5 \in Text /\ Depth(n5) = Depth(text) + 1
      BY <1>5, <3>5, FlatOK
    <3> HIDE DEF n5
    <3>7. n6 \in Text /\ Depth(n6) = Depth(text) + 1
      BY <1>4, <3>6, FlatOK
    <3> HIDE DEF n6
    <3> QED BY <1>3, <3>2, <3>7
  <2> HIDE DEF lines, braces, g
  <2>5. c1 \in Text /\ Depth(c1) = Depth(lines)
    BY <1>4, <2>4, FlatOK
  <2> HIDE DEF c1
  <2>6. c2 \in Text /\ Depth(c2) = Depth(lines)
    BY <1>4, <2>5, AllocatedOK
  <2> HIDE DEF c2
  <2>7. c3 \in Text /\ Depth(c3) = Depth(lines) + 1
    BY <1>5, <2>6, OpenOK
  <2> HIDE DEF c3
  <2>8. c4 \in Text /\ Depth(c4) = Depth(lines) + 1
    BY <1>4, <2>7, FlatOK
  <2> HIDE DEF c4
  <2>9. c5 \in Text /\ Depth(c5) = Depth(lines) + 1
    BY <1>5, <2>8, FlatOK
  <2> HIDE DEF c5
  <2>10. columns \in Text /\ Depth(columns) = Depth(lines) + 1 + 1
    BY <1>5, <2>9, OpenOK
  <2> HIDE DEF columns
  <2>11. Depth(columns) = Depth(text) + g.braces - Top.braces
    BY <1>3, <1>6, <2>1, <2>2, <2>4, <2>10 DEF braces
  <2>12. /\ text' = columns /\ calls' = SetTop(g) \o <<Call("expression")>>
         /\ UNCHANGED <<params, types, phase, generated, exit, expressions, limits, scale>>
    BY <1>8
  <2>13. g.fun = "list" <=> Top.fun = "list"
    BY <1>1, <2>2
  <2> QED BY <1>1, <2>2, <2>3, <2>10, <2>11, <2>12, <2>13, TopCalls
<1> QED BY <1>2, <1>7, <1>8

LEMMA EndColumnsOK ==
    ASSUME Inv, EndColumns PROVE Inv'
<1> DEFINE u == text ++ Check({Separator, User("output")})
           t == Closed(u, Top.braces)
           g == [Top EXCEPT !.fun = "calls", !.var = User(@[2]), !.braces = 0,
                            !.done = TRUE, !.at = @ - 1]
<1>1. /\ phase = "body" /\ Top.fun = "columns" /\ text' = t /\ calls' = SetTop(g)
      /\ UNCHANGED <<params, types, phase, generated, exit, expressions, limits, scale>>
  BY DEF EndColumns
<1>2. /\ Top \in Frame /\ Fits(Top, limits) /\ text \in Text /\ Depth(text) \in Nat
      /\ Top.braces \in Nat /\ Owes(Front(calls)) \in Nat
      /\ limits = {} => Depth(text) = 1 + Owes(Front(calls)) + Top.braces
  BY <1>1, TopOK
<1>3. Top.at > 0 /\ Top.at <= Len(Top.chain) /\ (limits = {} => Ordered(Top.chain))
  BY <1>1, <1>2 DEF Fits
<1>4. /\ g \in Frame /\ g.fun = "calls" /\ g.braces = 0
      /\ g.chain = Top.chain /\ g.at = Top.at - 1
  BY <1>2, <1>3, AfterColumnsIs
<1> HIDE DEF g
<1>5. Fits(g, limits)
  <2>1. Top.at \in Nat /\ Len(Top.chain) \in Nat
    <3>1. Top.at \in Nat /\ Top.chain \in Chains \cup {<< >>}
      BY <1>2 DEF Frame
    <3>2. Top.chain \in Seq(STRING)
      BY <3>1, ChainsAssumption, EmptySeq
    <3> QED BY <3>1, <3>2, LenProperties
  <2>2. g.at <= Len(g.chain)
    BY <1>3, <1>4, <2>1
  <2> QED BY <1>3, <1>4, <2>2 DEF Fits
<1>6. {Separator, User("output")} \in SUBSET Name
  BY OwnOK
<1>7. u \in Text /\ Depth(u) = Depth(text)
  BY <1>2, <1>6, FlatOK
<1> HIDE DEF u
<1>8. t \in Text /\ (Depth(u) >= Top.braces => Depth(t) = Depth(u) - Top.braces)
  BY <1>2, <1>7, ClosedOK
<1> HIDE DEF t
<1>9. limits = {} => Depth(t) = Depth(text) + g.braces - Top.braces
  BY <1>2, <1>4, <1>7, <1>8
<1> QED BY <1>1, <1>4, <1>5, <1>8, <1>9, TopChanges

LEMMA LoopActionOK ==
    ASSUME Inv, generate_loop_action PROVE Inv'
<1> DEFINE g == [Top EXCEPT !.done = TRUE]
<1>1. /\ phase = "body" /\ Top.fun = "calls" /\ text' = text
      /\ calls' = SetTop(g) \o <<Call("expression")>>
      /\ UNCHANGED <<params, types, phase, generated, exit, expressions, limits, scale>>
  BY DEF generate_loop_action, Iterating
<1>2. /\ Top \in Frame /\ Fits(Top, limits) /\ text \in Text /\ Depth(text) \in Nat
      /\ Top.braces \in Nat
  BY <1>1, TopOK
<1>3. /\ g \in Frame /\ g.fun = Top.fun /\ g.braces = Top.braces
      /\ g.chain = Top.chain /\ g.at = Top.at
  BY <1>2, DoneIs
<1> HIDE DEF g
<1>4. Fits(g, limits)
  BY <1>2, <1>3 DEF Fits
<1>5. Depth(text) = Depth(text) + g.braces - Top.braces
  BY <1>2, <1>3
<1> QED BY <1>1, <1>2, <1>3, <1>4, <1>5, TopCalls

LEMMA EndLoopOK ==
    ASSUME Inv, EndLoop PROVE Inv'
<1> DEFINE t == Closed(text, Top.braces)
<1>1. /\ phase = "body" /\ Top.fun # "list" /\ text' = t /\ calls' = Front(calls)
      /\ UNCHANGED <<params, types, phase, generated, exit, expressions, limits, scale>>
  BY DEF EndLoop, Iterating
<1>2. /\ text \in Text /\ Depth(text) \in Nat
      /\ Top.braces \in Nat /\ Owes(Front(calls)) \in Nat
      /\ limits = {} => Depth(text) = 1 + Owes(Front(calls)) + Top.braces
  BY <1>1, TopOK
<1>3. t \in Text /\ (Depth(text) >= Top.braces => Depth(t) = Depth(text) - Top.braces)
  BY <1>2, ClosedOK
<1> HIDE DEF t
<1>4. limits = {} => Depth(t) = Depth(text) - Top.braces
  BY <1>2, <1>3
<1> QED BY <1>1, <1>3, <1>4, TopReturns

LEMMA EndThenOK ==
    ASSUME Inv, EndThen PROVE Inv'
<1> DEFINE g == [Top EXCEPT !.fun = "else"]
           u == text ++ End
           t == u ++ Else
<1>1. /\ phase = "body" /\ Top.fun = "then" /\ text' = t
      /\ calls' = SetTop(g) \o <<Call("expression")>>
      /\ UNCHANGED <<params, types, phase, generated, exit, expressions, limits, scale>>
  BY DEF EndThen
<1>2. /\ Top \in Frame /\ Fits(Top, limits) /\ text \in Text /\ Depth(text) \in Nat
      /\ Top.braces \in Nat /\ Owes(Front(calls)) \in Nat
      /\ limits = {} => Depth(text) = 1 + Owes(Front(calls)) + Top.braces
  BY <1>1, TopOK
<1>3. /\ g \in Frame /\ g.fun = "else" /\ g.braces = Top.braces
      /\ g.chain = Top.chain /\ g.at = Top.at
  BY <1>2, ElseIs
<1> HIDE DEF g
<1>4. Fits(g, limits)
  BY <1>1, <1>2, <1>3 DEF Fits
<1>5. u \in Text /\ (Depth(text) > 0 => Depth(u) = Depth(text) - 1)
  BY <1>2, EndOK
<1> HIDE DEF u
<1>6. t \in Text /\ Depth(t) = Depth(u) + 1
  BY <1>5, OpenOK
<1> HIDE DEF t
<1>7. limits = {} => Depth(t) = Depth(text) + g.braces - Top.braces
  BY <1>2, <1>3, <1>5, <1>6
<1>8. g.fun = "list" <=> Top.fun = "list"
  BY <1>1, <1>3
<1> QED BY <1>1, <1>3, <1>4, <1>6, <1>7, <1>8, TopCalls

LEMMA EndElseOK ==
    ASSUME Inv, EndElse PROVE Inv'
<1> DEFINE u == text ++ End
           v == u ++ Free(Range(Top.frees))
<1>1. /\ phase = "body" /\ Top.fun = "else" /\ text' \in {u, v} /\ calls' = Front(calls)
      /\ UNCHANGED <<params, types, phase, generated, exit, expressions, limits, scale>>
  BY DEF EndElse
<1>2. /\ Top \in Frame /\ Fits(Top, limits) /\ text \in Text /\ Depth(text) \in Nat
      /\ Top.braces \in Nat /\ Owes(Front(calls)) \in Nat
      /\ limits = {} => Depth(text) = 1 + Owes(Front(calls)) + Top.braces
  BY <1>1, TopOK
<1>3. Range(Top.frees) \in SUBSET Name
  <2>1. Top.frees \in Seq(Name)
    BY <1>2 DEF Frame
  <2>2. DOMAIN Top.frees = 1 .. Len(Top.frees)
        /\ \A i \in 1 .. Len(Top.frees) : Top.frees[i] \in Name
    BY <2>1, LenProperties, ElementOfSeq
  <2> QED BY <2>2 DEF Range
<1>4. u \in Text /\ (Depth(text) > 0 => Depth(u) = Depth(text) - 1)
  BY <1>2, EndOK
<1> HIDE DEF u
<1>5. v \in Text /\ Depth(v) = Depth(u)
  BY <1>3, <1>4, FlatOK
<1> HIDE DEF v
<1>6. Top.braces = 1
  BY <1>1, <1>2 DEF Fits
<1> DEFINE t == IF text' = u THEN u ELSE v
<1>7. /\ t \in Text /\ text' = t
      /\ (limits = {} => Depth(t) = Depth(text) - Top.braces)
  BY <1>1, <1>2, <1>4, <1>5, <1>6
<1>8. PICK w \in Text : /\ text' = w
                        /\ (limits = {} => Depth(w) = Depth(text) - Top.braces)
  BY <1>7
<1>9. Top.fun # "list"
  BY <1>1
<1> QED BY <1>1, <1>8, <1>9, TopReturns

LEMMA ContinuationOK ==
    ASSUME Inv, Continuation PROVE Inv'
BY EndOfListOK, CallLinesOK, CallFilterOK, CallByIndexOK, CallFailsOK, CallColumnsOK,
   EndColumnsOK, LoopActionOK, EndLoopOK, EndThenOK, EndElseOK DEF Continuation


---------------------------------------------------------------------------
(* The function's header and its end, the C main, the compiler's main. *)

\* Nothing but the phase changes that the invariant tells about.
LEMMA OpenOutputOK ==
    ASSUME Inv, open_output_file PROVE Inv'
<1>1. /\ phase = "open" /\ phase' \in {"args", "generated"} /\ generated' \in BOOLEAN
      /\ UNCHANGED <<text, calls, params, types, exit, expressions, limits, scale>>
  BY DEF open_output_file, Return, KeepWalk, Inv, TypeOK
<1>2. TypeOK'
  BY <1>1 DEF Inv, TypeOK, Phases
<1>3. BracesAreCounted'
  BY <1>1 DEF BracesAreCounted
<1> QED BY <1>1, <1>2, <1>3 DEF Inv

LEMMA ArgsOK ==
    ASSUME Inv, NEW args \in Args, generate_args(args) PROVE Inv'
<1> DEFINE names == Identifiers \cup {"constant"}
<1>1. /\ phase = "args" /\ params' = args
      /\ UNCHANGED <<types, exit, expressions, scale>>
  BY DEF generate_args, KeepWalk
<1>2. PICK n \in 0 .. scale.params : args \in [1 .. n -> names]
  BY DEF Args
<1>3. n \in Nat
  <2>1. scale \in Scale
    BY ScalesAssumption DEF Inv, TypeOK
  <2> QED BY <2>1 DEF Scale
<1>4. args \in Seq(names) /\ Len(args) = n /\ DOMAIN args = 1 .. n
  BY <1>2, <1>3, IsASeq, LenProperties
<1>5. TypeOK /\ text.blocks = << >> /\ text \in Text
  BY <1>1 DEF Inv, TypeOK
<1>6. CASE "constant" \in Range(args)
  <2>1. /\ generated' = FALSE /\ phase' = "generated"
        /\ UNCHANGED <<text, calls, limits>>
    BY <1>6 DEF generate_args, Return
  <2>2. TypeOK'
    BY <1>1, <1>4, <1>5, <2>1 DEF TypeOK, Phases
  <2>3. BracesAreCounted'
    BY <2>1 DEF BracesAreCounted
  <2> QED BY <2>1, <2>2, <2>3 DEF Inv
<1>7. CASE "constant" \notin Range(args)
  <2> DEFINE u == text ++ While({})
             tokens == [i \in DOMAIN args |-> Var(User(args[i]))]
             t == PrintEach(u, tokens)
             e == Call("list")
             asked == When(Len(args) > 1, "parameters")
  <2>1. /\ text' = t /\ calls' = <<e>> /\ phase' = "body"
        /\ limits' = limits \cup asked /\ UNCHANGED generated
    BY <1>7 DEF generate_args
  <2>2. args \in Seq(Identifiers)
    <3>1. \A i \in 1 .. n : args[i] \in names /\ args[i] # "constant"
      BY <1>2, <1>4, <1>7 DEF Range
    <3>2. args \in [1 .. n -> Identifiers]
      BY <1>2, <3>1
    <3> QED BY <1>3, <3>2, IsASeq
  <2>3. u \in Text /\ Depth(u) = 1
    <3>1. Depth(text) = 0 /\ {} \in SUBSET Name
      BY <1>5, EmptySeq DEF Depth
    <3>2. u \in Text /\ Depth(u) = Depth(text) + 1
      BY <1>5, <3>1, OpenOK
    <3> QED BY <3>1, <3>2
  <2> HIDE DEF u
  <2>4. \A i \in 1 .. n : tokens[i] \in Tokens /\ tokens[i].do = "var"
    <3>1. \A i \in 1 .. n : User(args[i]) \in Name
      <4>1. \A i \in 1 .. n : args[i] \in Identifiers
        BY <1>4, <2>2, ElementOfSeq
      <4> QED BY <4>1, NamesOK
    <3>2. \A name \in Name : Var(name) \in Tokens /\ Var(name).do = "var"
      BY TokensOK, TokenIs DEF Var
    <3> QED BY <1>4, <3>1, <3>2
  <2>5. Len(tokens) = n
    <3>1. tokens = [i \in 1 .. n |-> tokens[i]]
      BY <1>4
    <3>2. DOMAIN tokens = 1 .. n
      BY <1>4
    <3> HIDE DEF tokens
    <3>3. tokens \in [1 .. n -> Tokens]
      BY <2>4, <3>1
    <3>4. tokens \in Seq(Tokens)
      BY <1>3, <3>3, IsASeq
    <3> QED BY <1>3, <3>2, <3>4, LenProperties
  <2> HIDE DEF tokens
  <2>6. t \in Text /\ Depth(t) = 1
    BY <1>3, <2>3, <2>4, <2>5, FlatEach
  <2> HIDE DEF t
  <2>7. e \in Frame /\ e.fun = "list" /\ e.braces = 0
    BY CallIs DEF Functions
  <2> HIDE DEF e
  <2>8. <<e>> \in Seq(Frame) /\ Len(<<e>>) = 1 /\ <<e>>[1] = e /\ <<e>> # << >>
    BY <2>7
  <2>9. asked \in SUBSET Limits
    BY LimitsOK
  <2> HIDE DEF asked
  <2>10. limits' \in SUBSET Limits
    BY <1>5, <2>1, <2>9 DEF TypeOK
  <2>11. Fits(e, limits')
    BY <2>7 DEF Fits
  <2>12. Stack(<<e>>, limits')
    <3>1. \A i \in 1 .. 1 : <<e>>[i] = e
      BY <2>8
    <3> DEFINE s == <<e>>
    <3>2. s \in Seq(Frame) /\ Len(s) = 1 /\ s[1] = e /\ s # << >> /\ \A i \in 1 .. 1 : s[i] = e
      BY <2>8, <3>1
    <3> HIDE DEF s
    <3>3. Stack(s, limits')
      BY <2>7, <2>11, <3>2 DEF Stack
    <3> QED BY <3>3 DEF s
  <2>13. Owes(<<e>>) = 0
    <3>1. << >> \in Seq(Frame) /\ Append(<< >>, e) = <<e>>
      BY <2>7
    <3>2. Owes(Append(<< >>, e)) = Owes(<< >>) + e.braces
      BY <2>7, <3>1, OwesTop
    <3>3. Owes(<< >>) = 0
      BY <3>1, OwedFinite
    <3> QED BY <2>7, <3>1, <3>2, <3>3
  <2>14. TypeOK'
    <3>1. args \in Seq(names) /\ "body" \in Phases
      BY <1>4 DEF Phases
    <3>2. calls' \in Seq(Frame)
      BY <2>1, <2>8
    <3> QED BY <1>1, <1>5, <2>1, <2>6, <2>10, <3>1, <3>2 DEF TypeOK
  <2>15. BracesAreCounted'
    <3>1. Depth(text)' = 1 /\ Owes(calls)' = 0
      BY <2>1, <2>6, <2>13 DEF Depth, Owes
    <3> QED BY <3>1 DEF BracesAreCounted, Depth, Owes
  <2>16. Stack(calls, limits)'
    BY <2>1, <2>12
  <2> QED BY <1>1, <2>1, <2>2, <2>14, <2>15, <2>16 DEF Inv
<1> QED BY <1>6, <1>7

LEMMA ReturnOK ==
    ASSUME Inv, NEW names \in {{}} \cup {{name} : name \in Declared}, generate_return(names)
    PROVE  Inv'
<1> DEFINE u == text ++ Use(names)
           t == u ++ End
<1>1. /\ phase = "return" /\ text' = t /\ phase' = "main"
      /\ UNCHANGED <<calls, params, types, generated, exit, expressions, limits, scale>>
  BY DEF generate_return, KeepWalk
<1>2. TypeOK /\ params \in Seq(Identifiers)
  BY <1>1 DEF Inv
<1>3. names \in SUBSET Name
  <2>1. \A name \in Identifiers : User(name) \in Name
    BY NamesOK
  <2>2. Declared \subseteq Name
    BY <1>2, <2>1 DEF TypeOK, Declared
  <2> QED BY <2>2
<1>4. u \in Text
  BY <1>2, <1>3, FlatOK DEF TypeOK
<1> HIDE DEF u
<1>5. t \in Text
  BY <1>4, EndOK
<1> HIDE DEF t
<1>6. TypeOK'
  BY <1>1, <1>2, <1>5 DEF TypeOK, Phases
<1>7. BracesAreCounted'
  BY <1>1 DEF BracesAreCounted
<1> QED BY <1>1, <1>2, <1>6, <1>7 DEF Inv

\* The objects of the arguments are declared one after the other.
LEMMA CMainOK ==
    ASSUME Inv, generate_c_main PROVE Inv'
<1> DEFINE n == Len(params)
           start == text ++ While({})
           After(t, k) == Allocated(t, User(params[k])) ++ Use({User(params[k])})
           Is(f, m) == f = [k \in 0 .. m |-> IF k = 0 THEN start ELSE After(f[k - 1], k)]
           declared == CHOOSE f : Is(f, n)
           names == {User(p) : p \in Range(params)}
           argument == IF n > 1 THEN {Own("the arguments")} ELSE names
           u == declared[n]
           v == u ++ Use(argument)
           w == v ++ Free(names)
           t == w ++ End
<1>1. /\ phase = "main" /\ text' = t /\ generated' = TRUE /\ phase' = "generated"
      /\ UNCHANGED <<calls, params, types, exit, expressions, limits, scale>>
  BY DEF generate_c_main, Return, KeepWalk
<1>2. TypeOK /\ params \in Seq(Identifiers) /\ text \in Text
  BY <1>1 DEF Inv, TypeOK
<1>3. /\ n \in Nat /\ DOMAIN params = 1 .. n
      /\ \A k \in 1 .. n : User(params[k]) \in Name
  <2>1. \A k \in 1 .. Len(params) : params[k] \in Identifiers
    BY <1>2, ElementOfSeq
  <2> QED BY <1>2, <2>1, LenProperties, NamesOK
<1>4. names \in SUBSET Name
  BY <1>3 DEF Range
<1>5. argument \in SUBSET Name
  BY <1>4, OwnOK
<1>6. start \in Text
  <2>1. {} \in SUBSET Name
    OBVIOUS
  <2> QED BY <1>2, <2>1, OpenOK
<1>7. \A k \in 1 .. n, s \in Text : After(s, k) \in Text
  BY <1>3, AllocatedOK, FlatOK
<1> HIDE DEF start, After, n, names, argument
<1>8. u \in Text
  <2> DEFINE D == {m \in Nat : m <= n => \E f \in [0 .. m -> Text] : Is(f, m)}
  <2>1. 0 \in D
    <3>1. Is([k \in 0 .. 0 |-> start], 0) /\ [k \in 0 .. 0 |-> start] \in [0 .. 0 -> Text]
      BY <1>6
    <3> QED BY <3>1
  <2>2. ASSUME NEW m \in Nat, m \in D PROVE m + 1 \in D
    <3> SUFFICES ASSUME m + 1 <= n PROVE \E g \in [0 .. m + 1 -> Text] : Is(g, m + 1)
      OBVIOUS
    <3>1. PICK f \in [0 .. m -> Text] : Is(f, m)
      BY <1>3, <2>2
    <3> DEFINE g == [k \in 0 .. m + 1 |-> IF k = m + 1 THEN After(f[m], m + 1) ELSE f[k]]
    <3>2. f[m] \in Text /\ m + 1 \in 1 .. n
      BY <1>3, <3>1
    <3>3. After(f[m], m + 1) \in Text
      BY <1>7, <3>2
    <3>4. g \in [0 .. m + 1 -> Text]
      BY <3>1, <3>3
    <3>5. ASSUME NEW k \in 0 .. m + 1
          PROVE  g[k] = IF k = 0 THEN start ELSE After(g[k - 1], k)
      <4>1. CASE k = m + 1
        <5>1. k - 1 = m /\ k # 0 /\ m \in 0 .. m + 1 /\ m # m + 1
          BY <4>1
        <5>2. g[m] = f[m]
          BY <5>1
        <5> QED BY <4>1, <5>1, <5>2
      <4>2. CASE k # m + 1
        <5>1. k \in 0 .. m /\ (k # 0 => k - 1 \in 0 .. m /\ k - 1 # m + 1)
          BY <4>2
        <5>2. f[k] = IF k = 0 THEN start ELSE After(f[k - 1], k)
          BY <3>1, <5>1
        <5>3. g[k] = f[k] /\ (k # 0 => g[k - 1] = f[k - 1])
          BY <4>2, <5>1
        <5> QED BY <5>2, <5>3
      <4> QED BY <4>1, <4>2
    <3>6. Is(g, m + 1)
      <4>1. g = [k \in 0 .. m + 1 |-> g[k]]
        OBVIOUS
      <4> HIDE DEF g
      <4>2. [k \in 0 .. m + 1 |-> g[k]]
              = [k \in 0 .. m + 1 |-> IF k = 0 THEN start ELSE After(g[k - 1], k)]
        BY <3>5
      <4> QED BY <4>1, <4>2
    <3> QED BY <3>4, <3>6
  <2>3. n \in D
    <3> HIDE DEF D
    <3> QED BY <1>3, <2>1, <2>2, EveryNatural
  <2>4. PICK f \in [0 .. n -> Text] : Is(f, n)
    BY <1>3, <2>3
  <2>5. Is(declared, n)
    BY <2>4
  <2> HIDE DEF declared
  <2>6. /\ DOMAIN declared = 0 .. n
        /\ \A k \in 0 .. n : declared[k] = IF k = 0 THEN start ELSE After(declared[k - 1], k)
    BY <2>5
  <2> DEFINE E == {m \in Nat : m <= n => declared[m] \in Text}
  <2>7. 0 \in E
    BY <1>3, <1>6, <2>6
  <2>8. ASSUME NEW m \in Nat, m \in E PROVE m + 1 \in E
    <3> SUFFICES ASSUME m + 1 <= n PROVE declared[m + 1] \in Text
      OBVIOUS
    <3>1. declared[m] \in Text /\ m + 1 \in 1 .. n /\ (m + 1) - 1 = m /\ m + 1 # 0
          /\ m + 1 \in 0 .. n
      BY <1>3, <2>8
    <3>2. declared[m + 1] = After(declared[m], m + 1)
      BY <2>6, <3>1
    <3> QED BY <1>7, <3>1, <3>2
  <2> HIDE DEF E
  <2>9. n \in E
    BY <1>3, <2>7, <2>8, EveryNatural
  <2> QED BY <1>3, <2>9 DEF E
<1> HIDE DEF u
<1>9. v \in Text
  BY <1>5, <1>8, FlatOK
<1> HIDE DEF v
<1>10. w \in Text
  BY <1>4, <1>9, FlatOK
<1> HIDE DEF w
<1>11. t \in Text
  BY <1>10, EndOK
<1> HIDE DEF t
<1>12. TypeOK'
  BY <1>1, <1>2, <1>11 DEF TypeOK, Phases
<1>13. BracesAreCounted'
  BY <1>1 DEF BracesAreCounted
<1> QED BY <1>1, <1>12, <1>13 DEF Inv

LEMMA MainOK ==
    ASSUME Inv, main PROVE Inv'
<1>1. /\ phase = "generated" /\ phase' = "exit" /\ exit' = 0
      /\ UNCHANGED <<text, calls, params, types, generated, expressions, limits, scale>>
  BY DEF main
<1>2. TypeOK'
  BY <1>1 DEF Inv, TypeOK, Phases
<1>3. BracesAreCounted'
  BY <1>1 DEF BracesAreCounted
<1> QED BY <1>1, <1>2, <1>3 DEF Inv

---------------------------------------------------------------------------
(* The theorems. *)

LEMMA InitInv == Init => Inv
<1> SUFFICES ASSUME Init PROVE Inv
  OBVIOUS
<1>1. text = [blocks |-> << >>, after |-> FALSE, errors |-> {}] /\ text \in Text
  <2>1. text = [blocks |-> << >>, after |-> FALSE, errors |-> {}] /\ << >> \in Seq(Block)
    BY EmptySeq DEF Init
  <2> QED BY <2>1 DEF Text
<1>2. types \in [DOMAIN types -> Types] /\ DOMAIN types = {}
  BY DEF Init
<1>3. calls \in Seq(Frame) /\ params \in Seq(Identifiers \cup {"constant"})
  BY EmptySeq DEF Init
<1>4. expressions \in 0 .. scale.expressions
  <2>1. scale \in Scale /\ expressions = 0
    BY ScalesAssumption DEF Init
  <2> QED BY <2>1 DEF Scale
<1>5. TypeOK
  BY <1>1, <1>2, <1>3, <1>4 DEF Init, TypeOK, Phases
<1> QED BY <1>1, <1>5 DEF Init, Inv, BracesAreCounted

LEMMA NextInv == Inv /\ [Next]_vars => Inv'
<1> SUFFICES ASSUME Inv, [Next]_vars PROVE Inv'
  OBVIOUS
<1>1. CASE open_output_file
  BY <1>1, OpenOutputOK
<1>2. CASE \E args \in Args : generate_args(args)
  BY <1>2, ArgsOK
<1>3. CASE Expression
  BY <1>3, ExpressionOK
<1>4. CASE Continuation
  BY <1>4, ContinuationOK
<1>5. CASE \E names \in {{}} \cup {{name} : name \in Declared} : generate_return(names)
  BY <1>5, ReturnOK
<1>6. CASE generate_c_main
  BY <1>6, CMainOK
<1>7. CASE main
  BY <1>7, MainOK
<1>8. CASE UNCHANGED vars
  <2>1. UNCHANGED <<text, calls, params, types, phase, generated, exit, expressions, limits, scale>>
    BY <1>8 DEF vars
  <2>2. TypeOK'
    BY <2>1 DEF Inv, TypeOK
  <2>3. BracesAreCounted'
    BY <2>1 DEF Inv, BracesAreCounted
  <2>4. (phase = "body" => Stack(calls, limits))'
    BY <2>1 DEF Inv
  <2> QED BY <2>1, <2>2, <2>3, <2>4 DEF Inv
<1> QED BY <1>1, <1>2, <1>3, <1>4, <1>5, <1>6, <1>7, <1>8 DEF Next

LEMMA Invariant == Spec => []Inv
BY InitInv, NextInv, PTL DEF Spec

\* The generator keeps its types: whatever the program, its stack of calls
\* holds frames of generate_* functions that owe no negative number of braces.
THEOREM GeneratorTypeCorrect == Spec => []TypeOK
<1>1. Inv => TypeOK
  BY DEF Inv
<1> QED BY <1>1, Invariant, PTL

\* In every program within the limits, however its lists, loops and
\* conditionals nest, the open blocks of the text are at every point the
\* function's and those the functions on the stack have still to close.
THEOREM BracesCounted == Spec => []BracesAreCounted
<1>1. Inv => BracesAreCounted
  BY DEF Inv
<1> QED BY <1>1, Invariant, PTL


---------------------------------------------------------------------------
(* What may be read. Of all the names only the constant of a comparison is *)
(* freed while the function is printed, and it is only read in the block   *)
(* that has declared it.                                                   *)

Number == Own("_constant_number_if")

Fresh(if) == [names |-> {}, freed |-> {}, if |-> if]

With(b, names) ==
    [names |-> b.names \cup names, freed |-> b.freed \ names, if |-> b.if]

\* The text has no error, and its blocks are B and in them b.
Sound(t, B, b) ==
    /\ t \in Text /\ t.errors = {}
    /\ B \in Seq(Block) /\ b \in Block
    /\ t.blocks = Append(B, b)
    /\ b.freed \subseteq {Number}
    /\ \A j \in DOMAIN B : B[j].freed \subseteq {Number}

Readable(B, b) == ((Visible(B) \cup b.names) \ {Number}) \cup (b.names \ b.freed)

LEMMA VisibleAppend ==
    ASSUME NEW B \in Seq(Block), NEW b \in Block
    PROVE  Visible(Append(B, b)) = Visible(B) \cup b.names
<1> DEFINE u == Append(B, b)
           n == Len(B)
<1>1. /\ u \in Seq(Block) /\ Len(u) = n + 1 /\ u[n + 1] = b
      /\ \A i \in 1 .. n : u[i] = B[i]
  BY AppendProperties
<1>2. n \in Nat /\ DOMAIN B = 1 .. n /\ DOMAIN u = 1 .. n + 1
  BY <1>1, LenProperties
<1> HIDE DEF u, n
<1>3. DOMAIN u = DOMAIN B \cup {n + 1}
  BY <1>2
<1>4. Visible(u) = Visible(B) \cup b.names
  BY <1>1, <1>2, <1>3 DEF Visible
<1> QED BY <1>4 DEF u

LEMMA BlockEqual ==
    ASSUME NEW x \in Block, NEW y \in Block,
           x.names = y.names, x.freed = y.freed, x.if = y.if
    PROVE  x = y
BY DEF Block

LEMMA WithIs ==
    ASSUME NEW b \in Block, NEW names \in SUBSET Name
    PROVE  /\ With(b, names) \in Block
           /\ With(b, names).names = b.names \cup names
           /\ With(b, names).freed = b.freed \ names
           /\ With(b, names).if = b.if
BY DEF With, Block

LEMMA FreshIs ==
    ASSUME NEW if \in BOOLEAN
    PROVE  /\ Fresh(if) \in Block /\ Fresh(if).names = {} /\ Fresh(if).freed = {}
           /\ Fresh(if).if = if
BY DEF Fresh, Block

LEMMA ReadableWith ==
    ASSUME NEW B, NEW b \in Block, NEW names \in SUBSET Name
    PROVE  Readable(B, b) \cup names \subseteq Readable(B, With(b, names))
<1>1. /\ With(b, names).names = b.names \cup names
      /\ With(b, names).freed = b.freed \ names
  BY WithIs
<1> QED BY <1>1 DEF Readable

LEMMA ReadableFresh ==
    ASSUME NEW B \in Seq(Block), NEW b \in Block, NEW if \in BOOLEAN
    PROVE  Readable(B, b) \ {Number} \subseteq Readable(Append(B, b), Fresh(if))
<1>1. Fresh(if).names = {} /\ Visible(Append(B, b)) = Visible(B) \cup b.names
  BY FreshIs, VisibleAppend
<1> QED BY <1>1 DEF Readable

LEMMA SoundIs ==
    ASSUME NEW t, NEW B, NEW b, Sound(t, B, b)
    PROVE  /\ t.blocks \in Seq(Block) /\ Len(t.blocks) = Len(B) + 1 /\ Len(B) \in Nat
           /\ DOMAIN t.blocks = 1 .. Len(B) + 1 /\ DOMAIN B = 1 .. Len(B)
           /\ t.blocks[Len(B) + 1] = b
           /\ \A i \in 1 .. Len(B) : t.blocks[i] = B[i]
           /\ t.blocks # << >> /\ Last(t.blocks) = b /\ Front(t.blocks) = B
           /\ Visible(t.blocks) = Visible(B) \cup b.names
<1>1. B \in Seq(Block) /\ b \in Block /\ t.blocks = Append(B, b)
  BY DEF Sound
<1> DEFINE u == Append(B, b)
           n == Len(B)
<1>2. /\ u \in Seq(Block) /\ Len(u) = n + 1 /\ u[n + 1] = b
      /\ \A i \in 1 .. n : u[i] = B[i]
  BY <1>1, AppendProperties
<1>3. n \in Nat /\ DOMAIN B = 1 .. n /\ DOMAIN u = 1 .. n + 1
  BY <1>1, <1>2, LenProperties
<1>4. Visible(u) = Visible(B) \cup b.names
  BY <1>1, VisibleAppend
<1>5. u # << >> /\ Last(u) = b
  <2> HIDE DEF u, n
  <2>1. u # << >>
    BY <1>2, <1>3, BlocksHold
  <2>2. Last(u) = u[Len(u)]
    BY <1>2, <2>1, FrontOf
  <2> QED BY <1>2, <2>1, <2>2
<1>6. Front(u) = B
  <2>1. /\ Front(u) \in Seq(Block) /\ Len(Front(u)) = Len(u) - 1
        /\ \A i \in 1 .. Len(u) - 1 : Front(u)[i] = u[i]
    BY <1>2, <1>5, FrontOf
  <2> DEFINE v == Front(u)
  <2> HIDE DEF u, v, n
  <2>2. Len(v) = n /\ \A i \in 1 .. n : v[i] = B[i]
    BY <1>2, <1>3, <2>1 DEF v
  <2>3. v \in Seq(Block) /\ Len(B) = n
    BY <2>1 DEF v, n
  <2>4. v = B
    BY <1>1, <2>2, <2>3, SeqEqual
  <2> QED BY <2>4 DEF v, u
<1> HIDE DEF u, n
<1> QED BY <1>1, <1>2, <1>3, <1>4, <1>5, <1>6 DEF u, n

\* A name that may be read is visible and not freed.
LEMMA ReadIsRight ==
    ASSUME NEW t, NEW B, NEW b, Sound(t, B, b), NEW names, names \subseteq Readable(B, b)
    PROVE  names \subseteq Visible(t.blocks) /\ names \cap Freed(t.blocks) = {}
<1> DEFINE u == t.blocks
           n == Len(B)
<1>1. /\ u \in Seq(Block) /\ n \in Nat /\ DOMAIN u = 1 .. n + 1 /\ DOMAIN B = 1 .. n
      /\ u[n + 1] = b /\ \A i \in 1 .. n : u[i] = B[i]
      /\ Visible(u) = Visible(B) \cup b.names
  BY SoundIs
<1>2. b.freed \subseteq {Number} /\ \A j \in DOMAIN B : B[j].freed \subseteq {Number}
  BY DEF Sound
<1> HIDE DEF u, n
<1>3. names \subseteq Visible(u)
  BY <1>1 DEF Readable
<1>4. ASSUME NEW name \in names, name \in Freed(u) PROVE FALSE
  <2>1. PICK i \in DOMAIN u : /\ name \in u[i].freed
                              /\ \A j \in DOMAIN u : j > i => name \notin u[j].names
    BY <1>4 DEF Freed
  <2>2. u[i].freed \subseteq {Number}
    <3>1. CASE i = n + 1
      BY <1>1, <1>2, <3>1
    <3>2. CASE i # n + 1
      <4>1. i \in 1 .. n
        BY <1>1, <3>2
      <4> QED BY <1>1, <1>2, <4>1
    <3> QED BY <3>1, <3>2
  <2>3. name = Number
    BY <2>1, <2>2
  <2>4. Number \in b.names \ b.freed
    BY <1>4, <2>3 DEF Readable
  <2>5. CASE i = n + 1
    BY <1>1, <2>1, <2>3, <2>4, <2>5
  <2>6. CASE i # n + 1
    <3>1. n + 1 \in DOMAIN u /\ n + 1 > i
      BY <1>1, <2>6
    <3> QED BY <1>1, <2>1, <2>3, <2>4, <3>1
  <2> QED BY <2>5, <2>6
<1> QED BY <1>3, <1>4 DEF u

---------------------------------------------------------------------------
(* One token. *)

LEMMA UseSound ==
    ASSUME NEW t, NEW B, NEW b, Sound(t, B, b),
           NEW names \in SUBSET Name, names \subseteq Readable(B, b)
    PROVE  /\ Sound(t ++ Use(names), B, b)
           /\ Sound(t ++ Check(names), B, b)
<1>1. ASSUME NEW do \in {"use", "check"}
      PROVE  Sound(t ++ Token(do, names), B, b)
  <2> DEFINE token == Token(do, names)
  <2>1. token \in Tokens /\ token.do = do /\ token.names = names
    BY DEF Token, Tokens, TokenKinds
  <2>2. t \in Text /\ t.errors = {} /\ t.blocks = Append(B, b)
    BY DEF Sound
  <2>3. names \subseteq Visible(t.blocks) /\ names \cap Freed(t.blocks) = {}
    BY ReadIsRight
  <2>4. Printed(t.blocks, token) = t.blocks
    BY OthersAre
  <2> HIDE DEF token
  <2>5. Wrong(t, token) = {}
    BY <2>1, <2>3 DEF Wrong, When
  <2>6. t ++ token \in Text /\ (t ++ token).blocks = t.blocks /\ (t ++ token).errors = {}
    BY <2>1, <2>2, <2>4, <2>5, TextOK, TextIs
  <2>7. Sound(t ++ token, B, b)
    BY <2>2, <2>6 DEF Sound
  <2> QED BY <2>7 DEF token
<1> QED BY <1>1 DEF Use, Check

LEMMA VarSound ==
    ASSUME NEW t, NEW B, NEW b, Sound(t, B, b), NEW name \in Name, name \notin b.names
    PROVE  Sound(t ++ Var(name), B, With(b, {name}))
<1> DEFINE token == Var(name)
           u == t.blocks
           n == Len(B)
           w == With(b, {name})
           v == Printed(u, token)
<1>1. token \in Tokens /\ token.do = "var" /\ token.names = {name}
  BY TokensOK DEF Var, Token
<1>2. t \in Text /\ t.errors = {} /\ u = Append(B, b) /\ B \in Seq(Block) /\ b \in Block
      /\ b.freed \subseteq {Number} /\ \A j \in DOMAIN B : B[j].freed \subseteq {Number}
  BY DEF Sound
<1>3. /\ u \in Seq(Block) /\ Len(u) = n + 1 /\ n \in Nat /\ u[n + 1] = b
      /\ \A i \in 1 .. n : u[i] = B[i]
  BY SoundIs
<1>4. w \in Block /\ w.names = b.names \cup {name} /\ w.freed = b.freed \ {name} /\ w.if = b.if
  BY <1>2, WithIs
<1>5. /\ v \in Seq(Block) /\ Len(v) = Len(u)
      /\ \A i \in 1 .. Len(u) : i # Len(u) => v[i] = u[i]
      /\ v[Len(u)].names = b.names \cup {name}
      /\ v[Len(u)].freed = b.freed \ {name}
      /\ v[Len(u)].if = b.if
  <2>1. {name} \in SUBSET Name /\ Len(u) > 0 /\ u[Len(u)] = b
    BY <1>3
  <2>2. v = Printed(u, Token("var", {name}))
    BY DEF Var
  <2> HIDE DEF u, v, token
  <2>3. LET k == Len(u)
            x == Printed(u, Token("var", {name}))
        IN  /\ x \in Seq(Block) /\ Len(x) = k
            /\ \A i \in 1 .. k : i # k => x[i] = u[i]
            /\ x[k].names = u[k].names \cup {name}
            /\ x[k].freed = u[k].freed \ {name}
            /\ x[k].if = u[k].if
    <3>1. u \in Seq(Block)
      BY <1>3
    <3> HIDE <1>3, <2>2
    <3> QED BY <3>1, <2>1, VarIs
  <2> QED BY <2>1, <2>2, <2>3
<1>6. v = Append(B, w)
  <2> DEFINE a == Append(B, w)
  <2>1. /\ a \in Seq(Block) /\ Len(a) = n + 1 /\ a[n + 1] = w
        /\ \A i \in 1 .. n : a[i] = B[i]
    BY <1>2, <1>4, AppendProperties
  <2> HIDE DEF u, v, w, a, n, token
  <2>2. v[n + 1] = w
    <3>1. v[n + 1] \in Block
      <4>1. n + 1 \in 1 .. Len(v)
        BY <1>3, <1>5
      <4> QED BY <4>1, <1>5, BlocksHold
    <3>2. /\ v[n + 1].names = w.names /\ v[n + 1].freed = w.freed /\ v[n + 1].if = w.if
      BY <1>3, <1>4, <1>5
    <3> QED BY <3>1, <3>2, <1>4, BlockEqual
  <2>3. Len(v) = n + 1 /\ \A i \in 1 .. n + 1 : v[i] = a[i]
    BY <1>3, <1>5, <2>1, <2>2
  <2>4. v = a
    BY <1>5, <2>1, <2>3, SeqEqual
  <2> QED BY <2>4 DEF a
<1>7. Wrong(t, token) = {}
  <2>1. ~ {name} \subseteq u[Len(u)].names
    BY <1>3
  <2> HIDE DEF token
  <2> QED BY <1>1, <2>1 DEF Wrong, When
<1>8. t ++ token \in Text /\ (t ++ token).blocks = v /\ (t ++ token).errors = {}
  BY <1>1, <1>2, <1>7, TextOK, TextIs
<1> HIDE DEF token, u, v, w, n
<1>9. Sound(t ++ token, B, w)
  BY <1>2, <1>4, <1>6, <1>8 DEF Sound
<1> QED BY <1>9 DEF token, w

LEMMA AllocatedSound ==
    ASSUME NEW t, NEW B, NEW b, Sound(t, B, b), NEW name \in Name, name \notin b.names
    PROVE  Sound(Allocated(t, name), B, With(b, {name}))
<1>1. Sound(t ++ Var(name), B, With(b, {name}))
  BY VarSound
<1>2. b \in Block /\ {name} \in SUBSET Name
  BY DEF Sound
<1>3. {name} \subseteq Readable(B, With(b, {name}))
  BY <1>2, ReadableWith
<1>4. Sound((t ++ Var(name)) ++ Check({name}), B, With(b, {name}))
  BY <1>1, <1>2, <1>3, UseSound
<1> QED BY <1>4 DEF Allocated

LEMMA OpenSound ==
    ASSUME NEW t, NEW B, NEW b, Sound(t, B, b),
           NEW names \in SUBSET Name, names \subseteq Readable(B, b)
    PROVE  /\ Sound(t ++ While(names), Append(B, b), Fresh(FALSE))
           /\ Sound(t ++ If(names), Append(B, b), Fresh(TRUE))
<1>1. ASSUME NEW do \in {"open", "if"}
      PROVE  Sound(t ++ Token(do, names), Append(B, b), Fresh(do = "if"))
  <2> DEFINE token == Token(do, names)
             u == t.blocks
             x == Fresh(do = "if")
  <2>1. token \in Tokens /\ token.do = do /\ token.names = names
    BY DEF Token, Tokens, TokenKinds
  <2>2. t \in Text /\ t.errors = {} /\ u = Append(B, b) /\ b \in Block /\ B \in Seq(Block)
        /\ b.freed \subseteq {Number} /\ \A j \in DOMAIN B : B[j].freed \subseteq {Number}
    BY DEF Sound
  <2>3. names \subseteq Visible(u) /\ names \cap Freed(u) = {}
    BY ReadIsRight
  <2>4. Printed(u, token) = Append(u, x)
    <3>1. Printed(u, token) = Opened(u, do = "if")
      BY OthersAre
    <3> QED BY <3>1 DEF Opened, Fresh
  <2>5. x \in Block /\ x.freed = {}
    BY FreshIs
  <2>6. /\ u \in Seq(Block) /\ DOMAIN u = 1 .. Len(B) + 1 /\ DOMAIN B = 1 .. Len(B) /\ Len(B) \in Nat
        /\ u[Len(B) + 1] = b /\ \A i \in 1 .. Len(B) : u[i] = B[i]
    BY SoundIs
  <2> HIDE DEF token, x, u
  <2>7. Wrong(t, token) = {}
    BY <2>1, <2>3 DEF Wrong, When, u
  <2>8. t ++ token \in Text /\ (t ++ token).blocks = Append(u, x) /\ (t ++ token).errors = {}
    BY <2>1, <2>2, <2>4, <2>7, TextOK, TextIs DEF u
  <2>9. \A j \in DOMAIN u : u[j].freed \subseteq {Number}
    <3> SUFFICES ASSUME NEW j \in DOMAIN u PROVE u[j].freed \subseteq {Number}
      OBVIOUS
    <3>1. j = Len(B) + 1 \/ j \in 1 .. Len(B)
      BY <2>6
    <3> QED BY <2>2, <2>6, <3>1
  <2>10. Sound(t ++ token, u, x)
    BY <2>2, <2>5, <2>6, <2>8, <2>9 DEF Sound
  <2> QED BY <2>2, <2>10 DEF token, x
<1>2. Sound(t ++ Token("open", names), Append(B, b), Fresh(FALSE))
  <2>1. Sound(t ++ Token("open", names), Append(B, b), Fresh("open" = "if"))
    BY <1>1
  <2>2. ("open" = "if") = FALSE
    OBVIOUS
  <2> QED BY <2>1, <2>2
<1>3. Sound(t ++ Token("if", names), Append(B, b), Fresh(TRUE))
  <2>1. Sound(t ++ Token("if", names), Append(B, b), Fresh("if" = "if"))
    BY <1>1
  <2>2. ("if" = "if") = TRUE
    OBVIOUS
  <2> QED BY <2>1, <2>2
<1> QED BY <1>2, <1>3 DEF While, If

\* A closing brace goes back to the block around.
LEMMA EndSound ==
    ASSUME NEW t, NEW B \in Seq(Block), NEW a \in Block, NEW b, Sound(t, Append(B, a), b)
    PROVE  Sound(t ++ End, B, a) /\ (t ++ End).after = b.if
<1> DEFINE A == Append(B, a)
<1>1. t \in Text /\ t.errors = {} /\ t.blocks = Append(A, b) /\ A \in Seq(Block) /\ b \in Block
      /\ \A j \in DOMAIN A : A[j].freed \subseteq {Number}
  BY DEF Sound
<1>2. /\ t.blocks \in Seq(Block) /\ Len(t.blocks) = Len(A) + 1 /\ Len(A) \in Nat
      /\ t.blocks # << >> /\ Last(t.blocks) = b /\ Front(t.blocks) = A
  BY SoundIs
<1>3. /\ Len(A) = Len(B) + 1 /\ A[Len(B) + 1] = a /\ \A j \in 1 .. Len(B) : A[j] = B[j]
  BY AppendProperties
<1>4. Len(B) \in Nat /\ DOMAIN B = 1 .. Len(B) /\ DOMAIN A = 1 .. Len(A)
  BY <1>1, LenProperties
<1> HIDE DEF A
<1>5. End \in Tokens /\ End.do = "end" /\ End.names = {}
  BY TokensOK DEF End, Token
<1>6. Wrong(t, End) = {}
  <2>1. Len(t.blocks) # 0
    BY <1>2
  <2> QED BY <1>5, <2>1 DEF Wrong, When
<1>7. Printed(t.blocks, End) = A
  BY <1>2, <1>5 DEF Printed
<1>8. ElseMayFollow(t, End) = b.if
  <2>1. b.if \in BOOLEAN
    BY <1>1 DEF Block
  <2>2. ElseMayFollow(t, End) <=> b.if
    BY <1>2, <1>5 DEF ElseMayFollow
  <2>3. ElseMayFollow(t, End) \in BOOLEAN
    BY DEF ElseMayFollow
  <2> QED BY <2>1, <2>2, <2>3
<1>9. /\ t ++ End \in Text /\ (t ++ End).blocks = A /\ (t ++ End).errors = {}
      /\ (t ++ End).after = b.if
  BY <1>1, <1>5, <1>6, <1>7, <1>8, TextOK, TextIs
<1>10. a.freed \subseteq {Number} /\ \A j \in DOMAIN B : B[j].freed \subseteq {Number}
  BY <1>1, <1>3, <1>4
<1>11. Sound(t ++ End, B, a)
  BY <1>9, <1>10 DEF Sound, A
<1> QED BY <1>9, <1>11

LEMMA ElseSound ==
    ASSUME NEW t, NEW B, NEW b, Sound(t, B, b), t.after
    PROVE  Sound(t ++ Else, Append(B, b), Fresh(FALSE))
<1> DEFINE u == t.blocks
           x == Fresh(FALSE)
<1>1. Else \in Tokens /\ Else.do = "else" /\ Else.names = {}
  BY TokensOK DEF Else, Token
<1>2. t \in Text /\ t.errors = {} /\ u = Append(B, b) /\ b \in Block /\ B \in Seq(Block)
      /\ b.freed \subseteq {Number} /\ \A j \in DOMAIN B : B[j].freed \subseteq {Number}
  BY DEF Sound
<1>3. Printed(u, Else) = Append(u, x)
  <2>1. Printed(u, Else) = Opened(u, FALSE)
    BY OthersAre DEF Else
  <2> QED BY <2>1 DEF Opened, Fresh
<1>4. x \in Block /\ x.freed = {}
  BY FreshIs
<1>5. /\ u \in Seq(Block) /\ DOMAIN u = 1 .. Len(B) + 1 /\ DOMAIN B = 1 .. Len(B) /\ Len(B) \in Nat
      /\ u[Len(B) + 1] = b /\ \A i \in 1 .. Len(B) : u[i] = B[i]
  BY SoundIs
<1>6. Wrong(t, Else) = {}
  BY <1>1 DEF Wrong, When
<1> HIDE DEF x
<1>7. t ++ Else \in Text /\ (t ++ Else).blocks = Append(u, x) /\ (t ++ Else).errors = {}
  <2>1. /\ (t ++ Else).blocks = Printed(u, Else)
        /\ (t ++ Else).errors = t.errors \cup Wrong(t, Else)
    BY TextIs
  <2>2. t ++ Else \in Text
    BY <1>1, <1>2, TextOK
  <2> QED BY <1>2, <1>3, <1>6, <2>1, <2>2
<1> HIDE DEF u
<1>8. \A j \in DOMAIN u : u[j].freed \subseteq {Number}
  <2> SUFFICES ASSUME NEW j \in DOMAIN u PROVE u[j].freed \subseteq {Number}
    OBVIOUS
  <2>1. j = Len(B) + 1 \/ j \in 1 .. Len(B)
    BY <1>5
  <2> QED BY <1>2, <1>5, <2>1
<1>9. Sound(t ++ Else, u, x)
  BY <1>4, <1>5, <1>7, <1>8 DEF Sound
<1> QED BY <1>2, <1>9 DEF x

\* The constants of a comparison are freed.
LEMMA FreeSound ==
    ASSUME NEW t, NEW B, NEW b, Sound(t, B, b),
           NEW names \in SUBSET Name, names \subseteq Readable(B, b)
    PROVE  /\ (t ++ Free(names)) \in Text /\ (t ++ Free(names)).errors = {}
           /\ Len((t ++ Free(names)).blocks) = Len(B) + 1
           /\ \E c \in Block :
                 /\ (t ++ Free(names)).blocks = Append(B, c)
                 /\ c.names = b.names /\ c.freed = b.freed \cup names /\ c.if = b.if
                 /\ names \subseteq {Number} => Sound(t ++ Free(names), B, c)
<1> DEFINE token == Free(names)
           u == t.blocks
           n == Len(B)
           v == Printed(u, token)
<1>1. token \in Tokens /\ token.do = "free" /\ token.names = names
  BY TokensOK DEF Free, Token
<1>2. t \in Text /\ t.errors = {} /\ u = Append(B, b) /\ B \in Seq(Block) /\ b \in Block
      /\ b.freed \subseteq {Number} /\ \A j \in DOMAIN B : B[j].freed \subseteq {Number}
  BY DEF Sound
<1>3. /\ u \in Seq(Block) /\ Len(u) = n + 1 /\ n \in Nat /\ u[n + 1] = b
      /\ \A i \in 1 .. n : u[i] = B[i]
  BY SoundIs
<1>4. /\ v \in Seq(Block) /\ Len(v) = n + 1
      /\ \A i \in 1 .. n : v[i] = B[i]
      /\ v[n + 1].names = b.names
      /\ v[n + 1].freed = b.freed \cup names
      /\ v[n + 1].if = b.if
  <2>1. u \in Seq(Block) /\ Len(u) > 0 /\ u[Len(u)] = b
    BY <1>3
  <2>2. v = Printed(u, Token("free", names))
    BY DEF Free
  <2> HIDE DEF u, v, token, n
  <2>3. LET k == Len(u)
            x == Printed(u, Token("free", names))
        IN  /\ x \in Seq(Block) /\ Len(x) = k
            /\ \A i \in 1 .. k : i # k => x[i] = u[i]
            /\ x[k].names = u[k].names
            /\ x[k].freed = u[k].freed \cup names
            /\ x[k].if = u[k].if
    <3> HIDE <2>2
    <3> QED BY <2>1, FreeIs
  <2>4. \A i \in 1 .. n : i \in 1 .. Len(u) /\ i # Len(u)
    BY <1>3
  <2> QED BY <1>3, <2>1, <2>2, <2>3, <2>4
<1> DEFINE c == v[n + 1]
<1>5. c \in Block
  <2>1. n + 1 \in 1 .. Len(v)
    BY <1>3, <1>4
  <2> QED BY <2>1, <1>4, BlocksHold
<1>6. v = Append(B, c)
  <2> DEFINE a == Append(B, c)
  <2>1. /\ a \in Seq(Block) /\ Len(a) = n + 1 /\ a[n + 1] = c
        /\ \A i \in 1 .. n : a[i] = B[i]
    BY <1>2, <1>5, AppendProperties
  <2> HIDE DEF u, v, a, n, token
  <2>3. Len(v) = n + 1 /\ \A i \in 1 .. n + 1 : v[i] = a[i]
    BY <1>3, <1>4, <2>1
  <2>4. v = a
    BY <1>4, <2>1, <2>3, SeqEqual
  <2> QED BY <2>4 DEF a
<1>7. Wrong(t, token) = {}
  <2>1. names \subseteq Visible(u) /\ names \cap Freed(u) = {}
    BY ReadIsRight
  <2> HIDE DEF token
  <2> QED BY <1>1, <2>1 DEF Wrong, When
<1>8. t ++ token \in Text /\ (t ++ token).blocks = v /\ (t ++ token).errors = {}
  BY <1>1, <1>2, <1>7, TextOK, TextIs
<1>9. c.names = b.names /\ c.freed = b.freed \cup names /\ c.if = b.if
  BY <1>4
<1> HIDE DEF token, u, v, n, c
<1>10. names \subseteq {Number} => Sound(t ++ token, B, c)
  BY <1>2, <1>5, <1>6, <1>8, <1>9 DEF Sound
<1> QED BY <1>4, <1>5, <1>6, <1>8, <1>9, <1>10 DEF token, n

---------------------------------------------------------------------------
(* A text without errors, block by block. *)

Clean(t) ==
    /\ t \in Text /\ t.errors = {} /\ t.blocks # << >>
    /\ \A j \in DOMAIN t.blocks : t.blocks[j].freed \subseteq {Number}

LEMMA CleanSound ==
    ASSUME NEW t, Clean(t)
    PROVE  Sound(t, Front(t.blocks), Last(t.blocks))
<1> DEFINE u == t.blocks
<1>1. u \in Seq(Block) /\ u # << >> /\ t \in Text /\ t.errors = {}
      /\ \A j \in DOMAIN u : u[j].freed \subseteq {Number}
  BY DEF Clean, Text
<1> HIDE DEF u
<1>2. /\ Len(u) \in Nat \ {0} /\ DOMAIN u = 1 .. Len(u)
      /\ Last(u) = u[Len(u)] /\ Last(u) \in Block
      /\ Front(u) \in Seq(Block) /\ Len(Front(u)) = Len(u) - 1
      /\ \A i \in 1 .. Len(u) - 1 : Front(u)[i] = u[i]
  BY <1>1, FrontOf
<1> DEFINE B == Front(u)
           b == Last(u)
           a == Append(B, b)
<1>5. B \in Seq(Block) /\ b \in Block /\ Len(B) = Len(u) - 1 /\ b = u[Len(u)]
      /\ \A i \in 1 .. Len(u) - 1 : B[i] = u[i]
  BY <1>2
<1> HIDE DEF B, b
<1>3. /\ a \in Seq(Block) /\ Len(a) = Len(B) + 1 /\ a[Len(B) + 1] = b
      /\ \A i \in 1 .. Len(B) : a[i] = B[i]
  BY <1>5, AppendProperties
<1>4. DOMAIN B = 1 .. Len(B)
  BY <1>5, LenProperties
<1> HIDE DEF a
<1>6. Len(a) = Len(u) /\ \A i \in 1 .. Len(u) : a[i] = u[i]
  BY <1>2, <1>3, <1>5
<1>7. u = a
  BY <1>1, <1>3, <1>6, SeqEqual
<1>8. b.freed \subseteq {Number} /\ \A j \in DOMAIN B : B[j].freed \subseteq {Number}
  BY <1>1, <1>2, <1>4, <1>5
<1>9. Sound(t, B, b)
  BY <1>1, <1>5, <1>7, <1>8 DEF Sound, a, u
<1> QED BY <1>9 DEF B, b, u

LEMMA SoundClean ==
    ASSUME NEW t, NEW B, NEW b, Sound(t, B, b)
    PROVE  Clean(t)
<1>1. /\ DOMAIN t.blocks = 1 .. Len(B) + 1 /\ DOMAIN B = 1 .. Len(B) /\ Len(B) \in Nat
      /\ t.blocks[Len(B) + 1] = b /\ t.blocks # << >>
      /\ \A i \in 1 .. Len(B) : t.blocks[i] = B[i]
  BY SoundIs
<1>2. t \in Text /\ t.errors = {} /\ b.freed \subseteq {Number}
      /\ \A j \in DOMAIN B : B[j].freed \subseteq {Number}
  BY DEF Sound
<1>3. ASSUME NEW j \in DOMAIN t.blocks PROVE t.blocks[j].freed \subseteq {Number}
  <2>1. j = Len(B) + 1 \/ j \in 1 .. Len(B)
    BY <1>1
  <2> QED BY <1>1, <1>2, <2>1
<1> QED BY <1>1, <1>2, <1>3 DEF Clean

LEMMA BlocksByLast ==
    ASSUME NEW u \in Seq(Block), u # << >>
    PROVE  \E A \in Seq(Block), a \in Block : u = Append(A, a)
<1>2. /\ Len(u) \in Nat \ {0}
      /\ Last(u) = u[Len(u)] /\ Last(u) \in Block
      /\ Front(u) \in Seq(Block) /\ Len(Front(u)) = Len(u) - 1
      /\ \A i \in 1 .. Len(u) - 1 : Front(u)[i] = u[i]
  BY FrontOf
<1> DEFINE B == Front(u)
           b == Last(u)
           a == Append(B, b)
<1>3. /\ a \in Seq(Block) /\ Len(a) = Len(B) + 1 /\ a[Len(B) + 1] = b
      /\ \A i \in 1 .. Len(B) : a[i] = B[i]
  BY <1>2, AppendProperties
<1> HIDE DEF a
<1>4. Len(a) = Len(u) /\ \A i \in 1 .. Len(u) : a[i] = u[i]
  BY <1>2, <1>3
<1>5. u = a
  BY <1>3, <1>4, SeqEqual
<1> QED BY <1>2, <1>5 DEF a

\* u is t up to its block n.
CutTo(u, t, n) ==
    /\ Len(u.blocks) = n
    /\ \A i \in 1 .. n : u.blocks[i] = t.blocks[i]

\* n closing braces, fewer than there are blocks.
LEMMA ClosedSound ==
    ASSUME NEW t, Clean(t), NEW n \in Nat, n < Len(t.blocks)
    PROVE  Clean(Closed(t, n)) /\ CutTo(Closed(t, n), t, Len(t.blocks) - n)
<1> DEFINE ends == [k \in 1 .. n |-> End]
           N == Len(t.blocks)
<1>0. t \in Text /\ t.blocks \in Seq(Block) /\ N \in Nat
  <2>1. t \in Text /\ t.blocks \in Seq(Block)
    BY DEF Clean, Text
  <2> QED BY <2>1, LenProperties
<1> HIDE DEF N
<1>1. Len(ends) = n /\ \A k \in 1 .. n : ends[k] = End
  <2>1. ends \in Seq({End}) /\ Len(ends) = n
    BY IsASeq, LenProperties
  <2> QED BY <2>1
<1>2. \A k \in 1 .. Len(ends) : ends[k] \in Tokens
  BY <1>1, TokensOK
<1> HIDE DEF ends
<1>3. PICK f \in [0 .. n -> Text] :
              /\ f[0] = t /\ PrintEach(t, ends) = f[n]
              /\ \A k \in 1 .. n : f[k] = f[k - 1] ++ End
  <2>1. PICK f \in [0 .. Len(ends) -> Text] :
              /\ f[0] = t /\ PrintEach(t, ends) = f[Len(ends)]
              /\ \A k \in 1 .. Len(ends) : f[k] = f[k - 1] ++ ends[k]
    BY <1>0, <1>1, <1>2, PrintEachIs
  <2>2. \A k \in 1 .. n : f[k] = f[k - 1] ++ End
    BY <1>1, <2>1
  <2> QED BY <1>1, <2>1, <2>2
<1>4. Closed(t, n) = f[n]
  BY <1>3 DEF Closed, ends
<1> DEFINE D == {m \in Nat : m <= n => Clean(f[m]) /\ CutTo(f[m], t, N - m)}
<1>5. 0 \in D
  <2>1. CutTo(f[0], t, N - 0)
    BY <1>0, <1>3 DEF CutTo, N
  <2> QED BY <1>3, <2>1
<1>6. ASSUME NEW m \in Nat, m \in D PROVE m + 1 \in D
  <2> SUFFICES ASSUME m + 1 <= n PROVE Clean(f[m + 1]) /\ CutTo(f[m + 1], t, N - (m + 1))
    OBVIOUS
  <2>1. m + 1 \in 1 .. n /\ (m + 1) - 1 = m /\ Clean(f[m]) /\ CutTo(f[m], t, N - m)
    BY <1>6
  <2> HIDE DEF D
  <2>2. f[m + 1] = f[m] ++ End
    BY <1>3, <2>1
  <2> DEFINE u == f[m].blocks
             B == Front(u)
  <2>3. Sound(f[m], B, Last(u))
    BY <2>1, CleanSound
  <2>4. u \in Seq(Block) /\ Len(u) = N - m /\ \A i \in 1 .. N - m : u[i] = t.blocks[i]
    BY <2>1 DEF CutTo, Clean, Text
  <2>5. N - m \in Nat /\ N - m > 1 /\ N - (m + 1) \in Nat \ {0}
    BY <1>0, <2>1 DEF N
  <2>6. /\ B \in Seq(Block) /\ Len(B) = Len(u) - 1
        /\ \A i \in 1 .. Len(u) - 1 : B[i] = u[i]
    <3> HIDE DEF u
    <3>1. u # << >>
      BY <2>4, <2>5, BlocksHold
    <3> QED BY <2>4, <3>1, FrontOf
  <2> HIDE DEF u, B
  <2>7. B # << >> /\ Len(B) = N - (m + 1)
    <3>1. Len(B) = N - (m + 1)
      BY <1>0, <2>4, <2>5, <2>6
    <3> QED BY <2>5, <2>6, <3>1, BlocksHold
  <2>8. PICK A \in Seq(Block), a \in Block : B = Append(A, a)
    BY <2>6, <2>7, BlocksByLast
  <2>9. Sound(f[m] ++ End, A, a)
    BY <2>3, <2>8, EndSound
  <2>10. (f[m] ++ End).blocks = B
    BY <2>8, <2>9 DEF Sound
  <2>11. \A i \in 1 .. N - (m + 1) : B[i] = t.blocks[i]
    <3> TAKE i \in 1 .. N - (m + 1)
    <3>1. i \in 1 .. N - m /\ i \in 1 .. Len(u) - 1
      BY <1>0, <2>4, <2>5
    <3> QED BY <2>4, <2>6, <3>1
  <2>12. CutTo(f[m] ++ End, t, N - (m + 1))
    BY <2>7, <2>10, <2>11 DEF CutTo
  <2> QED BY <2>2, <2>9, <2>12, SoundClean
<1> HIDE DEF D
<1>7. n \in D
  BY <1>5, <1>6, EveryNatural
<1>8. Clean(f[n]) /\ CutTo(f[n], t, N - n)
  BY <1>7 DEF D
<1> QED BY <1>4, <1>8 DEF N

---------------------------------------------------------------------------
(* What the functions on the stack find in the blocks. The blocks up to m  *)
(* are those of the callers, the ones from m + 1 to n the function's own.  *)

TextLength == Own("_copy_loop_var_type_len")
Newline == Own("_copy_loop_var_type_has_newline")
ByIndexOf == Own("_byIndex_implementation")

\* The names that the blocks up to n declare.
Seen(bs, n) == (UNION {bs[j].names : j \in 1 .. n}) \ {Number}

\* The working file of the innermost list of a stack.
Working(s) == s[Max({i \in DOMAIN s : s[i].fun \in {"list"}})].working

\* A loop whose calls are not all printed: the innermost block is its own and
\* has no more than what the calls so far have declared.
Begun(f, w, bs, m, n) ==
    LET next == IF f.at < Len(f.chain) THEN f.chain[f.at + 1] ELSE "none"
    IN  /\ m < n
        /\ f.var \in {User(x) : x \in LoopNames}
        /\ FileOf(w) \in Seen(bs, n)
        /\ "columns" \in Range(f.chain) => User("output") \in Seen(bs, m)
        /\ f.index \in {NULL, f.var} \cup Seen(bs, m)
        /\ f.chain[f.at] # "columns" => bs[n].names \subseteq {Own("i"), FileOf(w), ByIndexOf}
        /\ f.chain[f.at] = "lines" /\ next = "byIndex range" => ByIndexOf \in Seen(bs, n)
        /\ f.chain[f.at] = "columns" =>
              /\ {f.var, LineLength} \subseteq Seen(bs, n)
              /\ bs[n].names \subseteq {Own("i"), FileOf(w), ByIndexOf, LineLength, f.var}

FrameOK(f, w, bs, m, n) ==
    /\ f.fun = "list" => ({f.working} \ {NULL}) \cup Range(f.frees) \subseteq Seen(bs, m)
    /\ f.fun \in {"then", "else"} =>
          /\ m < n
          /\ Range(f.frees) \subseteq {Number} \cap (bs[m].names \ bs[m].freed)
    /\ f.fun = "then" => bs[n].if
    /\ f.fun = "range" => f.var \in Seen(bs, n)
    /\ f.fun = "columns" =>
          /\ {f.var, LineLength, FileOf(w), Separator, User("output")} \subseteq Seen(bs, n)
          /\ f.at = 1
    /\ f.fun = "calls" /\ f.at = 0 =>
          \/ f.braces = 0 /\ f.done
          \/ m < n /\ {f.var, LineLength, FileOf(w)} \subseteq Seen(bs, n)
    /\ f.fun = "calls" /\ f.at > 0 => Begun(f, w, bs, m, n)

\* A function that another one runs above. A loop has then printed its calls.
Parked(f) == f.fun = "calls" => f.at = 0 /\ f.braces > 0

Settled(s, bs) ==
    \A i \in 1 .. Len(s) :
        /\ Parked(s[i])
        /\ FrameOK(s[i], Working(SubSeq(s, 1, i)), bs,
                   1 + Owes(SubSeq(s, 1, i - 1)), 1 + Owes(SubSeq(s, 1, i)))

\* bs2 has the blocks of bs up to n, the last one perhaps with more names.
Kept(bs, bs2, n) ==
    /\ n <= Len(bs) /\ n <= Len(bs2)
    /\ \A j \in 1 .. n - 1 : bs2[j] = bs[j]
    /\ bs[n].names \subseteq bs2[n].names /\ bs2[n].if = bs[n].if

LEMMA PrefixIs ==
    ASSUME NEW s \in Seq(Frame), NEW i \in 1 .. Len(s)
    PROVE  /\ SubSeq(s, 1, i) \in Seq(Frame) /\ SubSeq(s, 1, i - 1) \in Seq(Frame)
           /\ Len(SubSeq(s, 1, i)) = i /\ \A j \in 1 .. i : SubSeq(s, 1, i)[j] = s[j]
           /\ SubSeq(s, 1, i) = Append(SubSeq(s, 1, i - 1), s[i])
           /\ s[i] \in Frame
<1>1. Len(s) \in Nat /\ \A j \in 1 .. Len(s) : s[j] \in Frame
  BY LenProperties, ElementOfSeq
<1>2. ASSUME NEW k \in 0 .. Len(s)
      PROVE  /\ SubSeq(s, 1, k) \in Seq(Frame) /\ Len(SubSeq(s, 1, k)) = k
             /\ \A j \in 1 .. k : SubSeq(s, 1, k)[j] = s[j]
  <2> DEFINE b == SubSeq(s, 1, k)
  <2>1. 1 \in Int /\ k \in Int /\ \A j \in 1 .. k : s[j] \in Frame
    BY <1>1
  <2>2. /\ b \in Seq(Frame) /\ Len(b) = (IF 1 <= k THEN k - 1 + 1 ELSE 0)
        /\ \A j \in 1 .. k - 1 + 1 : b[j] = s[1 + j - 1]
    BY <2>1, SubSeqProperties
  <2> HIDE DEF b
  <2>3. k - 1 + 1 = k /\ (\A j \in 1 .. k : 1 + j - 1 = j) /\ (~ 1 <= k => k = 0)
    BY <1>1
  <2> QED BY <2>2, <2>3
<1> DEFINE a == SubSeq(s, 1, i)
           b == SubSeq(s, 1, i - 1)
           c == Append(b, s[i])
<1>3. /\ a \in Seq(Frame) /\ Len(a) = i /\ \A j \in 1 .. i : a[j] = s[j]
  <2>1. i \in 0 .. Len(s)
    BY <1>1
  <2> QED BY <1>2, <2>1
<1>4. /\ b \in Seq(Frame) /\ Len(b) = i - 1 /\ \A j \in 1 .. i - 1 : b[j] = s[j]
  <2>1. i - 1 \in 0 .. Len(s)
    BY <1>1
  <2> QED BY <1>2, <2>1
<1> HIDE DEF a, b
<1>5. s[i] \in Frame
  BY <1>1
<1>6. /\ c \in Seq(Frame) /\ Len(c) = Len(b) + 1 /\ c[Len(b) + 1] = s[i]
      /\ \A j \in 1 .. Len(b) : c[j] = b[j]
  BY <1>4, <1>5, AppendProperties
<1> HIDE DEF c
<1>7. Len(c) = i /\ \A j \in 1 .. i : a[j] = c[j]
  BY <1>1, <1>3, <1>4, <1>6
<1>8. a = c
  BY <1>3, <1>6, <1>7, SeqEqual
<1> QED BY <1>3, <1>4, <1>5, <1>8 DEF a, b, c

\* The frames below a frame are a prefix of the stack.
LEMMA PrefixOn ==
    ASSUME NEW s \in Seq(Frame), NEW f \in Frame
    PROVE  /\ \A i \in 0 .. Len(s) : SubSeq(Append(s, f), 1, i) = SubSeq(s, 1, i)
           /\ SubSeq(Append(s, f), 1, Len(s) + 1) = Append(s, f)
           /\ SubSeq(s, 1, Len(s)) = s
<1> DEFINE a == Append(s, f)
           n == Len(s)
<1>1. /\ a \in Seq(Frame) /\ Len(a) = n + 1 /\ n \in Nat
      /\ \A i \in 1 .. n : a[i] = s[i]
  BY AppendProperties, LenProperties
<1>2. ASSUME NEW u \in Seq(Frame), NEW k \in 0 .. Len(u)
      PROVE  /\ SubSeq(u, 1, k) \in Seq(Frame) /\ Len(SubSeq(u, 1, k)) = k
             /\ \A j \in 1 .. k : SubSeq(u, 1, k)[j] = u[j]
  <2> DEFINE b == SubSeq(u, 1, k)
  <2>0. Len(u) \in Nat /\ \A j \in 1 .. Len(u) : u[j] \in Frame
    BY LenProperties, ElementOfSeq
  <2>1. 1 \in Int /\ k \in Int /\ \A j \in 1 .. k : u[j] \in Frame
    BY <2>0
  <2>2. /\ b \in Seq(Frame) /\ Len(b) = (IF 1 <= k THEN k - 1 + 1 ELSE 0)
        /\ \A j \in 1 .. k - 1 + 1 : b[j] = u[1 + j - 1]
    BY <2>1, SubSeqProperties
  <2> HIDE DEF b
  <2>3. k - 1 + 1 = k /\ (\A j \in 1 .. k : 1 + j - 1 = j) /\ (~ 1 <= k => k = 0)
    BY <2>0
  <2> QED BY <2>2, <2>3
<1> HIDE DEF a, n
<1>3. ASSUME NEW i \in 0 .. n PROVE SubSeq(a, 1, i) = SubSeq(s, 1, i)
  <2>1. i \in 0 .. Len(a) /\ i \in 0 .. Len(s)
    BY <1>1 DEF n
  <2>2. /\ SubSeq(a, 1, i) \in Seq(Frame) /\ Len(SubSeq(a, 1, i)) = i
        /\ \A j \in 1 .. i : SubSeq(a, 1, i)[j] = a[j]
    BY <1>1, <1>2, <2>1
  <2>3. /\ SubSeq(s, 1, i) \in Seq(Frame) /\ Len(SubSeq(s, 1, i)) = i
        /\ \A j \in 1 .. i : SubSeq(s, 1, i)[j] = s[j]
    BY <1>2, <2>1
  <2>4. \A j \in 1 .. i : SubSeq(a, 1, i)[j] = SubSeq(s, 1, i)[j]
    BY <1>1, <2>2, <2>3
  <2> QED BY <2>2, <2>3, <2>4, SeqEqual
<1>4. ASSUME NEW u \in Seq(Frame) PROVE SubSeq(u, 1, Len(u)) = u
  <2>1. Len(u) \in 0 .. Len(u)
    BY LenProperties
  <2>2. /\ SubSeq(u, 1, Len(u)) \in Seq(Frame) /\ Len(SubSeq(u, 1, Len(u))) = Len(u)
        /\ \A j \in 1 .. Len(u) : SubSeq(u, 1, Len(u))[j] = u[j]
    BY <1>2, <2>1
  <2> QED BY <2>2, SeqEqual
<1>5. SubSeq(a, 1, n + 1) = a
  BY <1>1, <1>4
<1> QED BY <1>3, <1>4, <1>5 DEF a, n

\* The blocks of a frame, one after the other.
LEMMA OwesPrefix ==
    ASSUME NEW s \in Seq(Frame), NEW i \in 1 .. Len(s)
    PROVE  /\ Owes(SubSeq(s, 1, i)) \in Nat /\ Owes(SubSeq(s, 1, i - 1)) \in Nat
           /\ Owes(SubSeq(s, 1, i)) = Owes(SubSeq(s, 1, i - 1)) + s[i].braces
           /\ Owes(SubSeq(s, 1, i)) <= Owes(s)
<1> DEFINE a == SubSeq(s, 1, i)
           b == SubSeq(s, 1, i - 1)
<1>1. /\ a \in Seq(Frame) /\ b \in Seq(Frame) /\ Len(a) = i
      /\ \A j \in 1 .. i : a[j] = s[j]
      /\ a = Append(b, s[i]) /\ s[i] \in Frame
  BY PrefixIs
<1> HIDE DEF a, b
<1>2. Owes(a) \in Nat /\ Owes(b) \in Nat /\ Owes(a) = Owes(b) + s[i].braces
  BY <1>1, OwesTop
<1>3. Owes(a) <= Owes(s)
  <2>1. Owed(a) \subseteq Owed(s)
    <3>1. DOMAIN a = 1 .. i /\ DOMAIN s = 1 .. Len(s) /\ 1 .. i \subseteq 1 .. Len(s)
      BY <1>1, LenProperties
    <3>2. \A j \in DOMAIN a : j \in DOMAIN s /\ a[j].braces = s[j].braces
      BY <1>1, <3>1
    <3> QED BY <3>2 DEF Owed
  <2>2. IsFiniteSet(Owed(s)) /\ IsFiniteSet(Owed(a))
    BY <1>1, OwedFinite
  <2> QED BY <2>1, <2>2, FS_Subset DEF Owes
<1> QED BY <1>2, <1>3 DEF a, b

LEMMA SeenKept ==
    ASSUME NEW bs, NEW bs2, NEW n \in Nat, Kept(bs, bs2, n), NEW k \in Nat, k <= n
    PROVE  Seen(bs, k) \subseteq Seen(bs2, k)
<1>1. ASSUME NEW j \in 1 .. k PROVE bs[j].names \subseteq bs2[j].names
  <2>1. j = n \/ j \in 1 .. n - 1
    OBVIOUS
  <2> QED BY <2>1 DEF Kept
<1> QED BY <1>1 DEF Seen

\* Only a loop whose calls are left depends on more than what is kept.
LEMMA FrameKept ==
    ASSUME NEW f, NEW w, NEW bs, NEW bs2, NEW m \in Nat, NEW n \in Nat, m <= n, 1 <= m,
           Kept(bs, bs2, n), FrameOK(f, w, bs, m, n), ~ (f.fun = "calls" /\ f.at > 0)
    PROVE  FrameOK(f, w, bs2, m, n)
<1>1. Seen(bs, n) \subseteq Seen(bs2, n) /\ Seen(bs, m) \subseteq Seen(bs2, m)
  BY SeenKept
<1>2. m < n => bs2[m] = bs[m]
  BY DEF Kept
<1>3. bs2[n].if = bs[n].if
  BY DEF Kept
<1> QED BY <1>1, <1>2, <1>3 DEF FrameOK

LEMMA SettledKept ==
    ASSUME NEW s \in Seq(Frame), NEW bs, NEW bs2, Settled(s, bs), Kept(bs, bs2, 1 + Owes(s))
    PROVE  Settled(s, bs2)
<1> SUFFICES ASSUME NEW i \in 1 .. Len(s)
             PROVE  FrameOK(s[i], Working(SubSeq(s, 1, i)), bs2,
                            1 + Owes(SubSeq(s, 1, i - 1)), 1 + Owes(SubSeq(s, 1, i)))
  BY DEF Settled
<1> DEFINE m == 1 + Owes(SubSeq(s, 1, i - 1))
           n == 1 + Owes(SubSeq(s, 1, i))
           N == 1 + Owes(s)
           w == Working(SubSeq(s, 1, i))
<1>1. m \in Nat /\ n \in Nat /\ 1 <= m /\ m <= n /\ n <= N /\ N \in Nat
  <2>1. /\ Owes(SubSeq(s, 1, i)) \in Nat /\ Owes(SubSeq(s, 1, i - 1)) \in Nat
        /\ Owes(SubSeq(s, 1, i)) = Owes(SubSeq(s, 1, i - 1)) + s[i].braces
        /\ Owes(SubSeq(s, 1, i)) <= Owes(s) /\ Owes(s) \in Nat /\ s[i].braces \in Nat
    <3>1. s[i] \in Frame
      BY PrefixIs
    <3>2. s[i].braces \in Nat
      BY <3>1 DEF Frame
    <3> QED BY <3>2, OwesPrefix, OwesTop
  <2> QED BY <2>1
<1>2. FrameOK(s[i], w, bs, m, n) /\ Parked(s[i])
  BY DEF Settled
<1> HIDE DEF m, n, N, w
<1>3. Kept(bs, bs2, N)
  BY DEF N
<1>4. Kept(bs, bs2, n)
  <2>1. CASE n = N
    BY <1>3, <2>1
  <2>2. CASE n < N
    <3>1. bs2[n] = bs[n] /\ \A j \in 1 .. n - 1 : bs2[j] = bs[j]
      BY <1>1, <1>3, <2>2 DEF Kept
    <3>2. n <= Len(bs) /\ n <= Len(bs2)
      <4>1. N <= Len(bs) /\ N <= Len(bs2)
        BY <1>3 DEF Kept
      <4> QED BY <1>1, <4>1
    <3> QED BY <3>1, <3>2 DEF Kept
  <2> QED BY <1>1, <2>1, <2>2
<1>5. ~ (s[i].fun = "calls" /\ s[i].at > 0)
  BY <1>2 DEF Parked
<1>6. FrameOK(s[i], w, bs2, m, n)
  BY <1>1, <1>2, <1>4, <1>5, FrameKept
<1> QED BY <1>6 DEF m, n, w

\* The stack, its top apart.
Frames(s, bs) ==
    /\ Settled(Front(s), bs)
    /\ FrameOK(Last(s), Working(s), bs, 1 + Owes(Front(s)), 1 + Owes(s))

LEMMA SettledTop ==
    ASSUME NEW s \in Seq(Frame), NEW f \in Frame, NEW bs
    PROVE  Settled(Append(s, f), bs) <=>
             /\ Settled(s, bs) /\ Parked(f)
             /\ FrameOK(f, Working(Append(s, f)), bs, 1 + Owes(s), 1 + Owes(Append(s, f)))
<1> DEFINE a == Append(s, f)
           n == Len(s)
           P(u, i) == /\ Parked(u[i])
                      /\ FrameOK(u[i], Working(SubSeq(u, 1, i)), bs,
                                 1 + Owes(SubSeq(u, 1, i - 1)), 1 + Owes(SubSeq(u, 1, i)))
<1>1. Len(a) = n + 1 /\ n \in Nat /\ (\A i \in 1 .. n : a[i] = s[i]) /\ a[n + 1] = f
  BY OnTop, LenProperties
<1>2. /\ \A i \in 0 .. n : SubSeq(a, 1, i) = SubSeq(s, 1, i)
      /\ SubSeq(a, 1, n + 1) = a /\ SubSeq(s, 1, n) = s
  BY PrefixOn
<1>3. (Settled(a, bs) <=> \A i \in 1 .. Len(a) : P(a, i))
      /\ (Settled(s, bs) <=> \A i \in 1 .. Len(s) : P(s, i))
  BY DEF Settled
<1>4. ASSUME NEW i \in 1 .. n PROVE P(a, i) <=> P(s, i)
  <2>1. a[i] = s[i] /\ SubSeq(a, 1, i) = SubSeq(s, 1, i)
    BY <1>1, <1>2
  <2>2. SubSeq(a, 1, i - 1) = SubSeq(s, 1, i - 1)
    <3>1. i - 1 \in 0 .. n
      BY <1>1
    <3> QED BY <1>2, <3>1
  <2> HIDE DEF a
  <2> QED BY <2>1, <2>2
<1>5. P(a, n + 1) <=> /\ Parked(f)
                      /\ FrameOK(f, Working(a), bs, 1 + Owes(s), 1 + Owes(a))
  <2>1. (n + 1) - 1 = n /\ n \in 0 .. n
    BY <1>1
  <2>2. SubSeq(a, 1, (n + 1) - 1) = s
    BY <1>2, <2>1
  <2> HIDE DEF a, n
  <2> QED BY <1>1, <1>2, <2>2
<1> HIDE DEF P, a
<1>6. (\A i \in 1 .. Len(a) : P(a, i)) <=> (\A i \in 1 .. n : P(s, i)) /\ P(a, n + 1)
  <2> HIDE DEF n
  <2>1. \A i \in 1 .. Len(a) : i \in 1 .. n \/ i = n + 1
    BY <1>1
  <2>2. n + 1 \in 1 .. Len(a) /\ 1 .. n \subseteq 1 .. Len(a)
    BY <1>1
  <2> QED BY <1>4, <2>1, <2>2
<1> QED BY <1>3, <1>5, <1>6 DEF a

\* A list has a working file of its own; what it calls works on it.
LEMMA WorkingOn ==
    ASSUME NEW s \in Seq(Frame), NEW f \in Frame,
           s # << >> => s[1].fun = "list", s = << >> => f.fun = "list"
    PROVE  /\ f.fun = "list" => Working(Append(s, f)) = f.working
           /\ f.fun # "list" => Working(Append(s, f)) = Working(s)
<1> DEFINE a == Append(s, f)
           n == Len(s)
           L(u) == {i \in DOMAIN u : u[i].fun \in {"list"}}
<1>1. /\ Len(a) = n + 1 /\ n \in Nat /\ DOMAIN a = 1 .. n + 1 /\ DOMAIN s = 1 .. n
      /\ (\A i \in 1 .. n : a[i] = s[i]) /\ a[n + 1] = f
  BY OnTop, LenProperties
<1>2. Working(a) = a[Max(L(a))].working /\ Working(s) = s[Max(L(s))].working
  BY DEF Working
<1> HIDE DEF a, n
<1>3. CASE f.fun = "list"
  <2>1. n + 1 \in L(a) /\ \A i \in L(a) : i <= n + 1
    BY <1>1, <1>3
  <2>2. L(a) \in SUBSET Nat /\ L(a) # {} /\ IsFiniteSet(L(a))
    <3>1. L(a) \subseteq 1 .. n + 1 /\ 1 \in Int /\ n + 1 \in Int
      BY <1>1
    <3> HIDE DEF L
    <3>2. IsFiniteSet(1 .. n + 1)
      BY <3>1, FS_Interval
    <3>3. IsFiniteSet(L(a))
      BY <3>1, <3>2, FS_Subset
    <3> QED BY <1>1, <2>1, <3>1, <3>3
  <2> HIDE DEF L
  <2>3. Max(L(a)) = n + 1
    <3>1. Max(L(a)) \in L(a) /\ \A i \in L(a) : i <= Max(L(a))
      BY <2>2, MaxIsGreatest
    <3> QED BY <1>1, <2>1, <2>2, <3>1
  <2> QED BY <1>1, <1>2, <1>3, <2>3 DEF a
<1>4. CASE f.fun # "list"
  <2>1. L(a) = L(s)
    <3>1. \A i \in 1 .. n + 1 : i = n + 1 \/ i \in 1 .. n
      BY <1>1
    <3> QED BY <1>1, <1>4, <3>1
  <2>2. L(s) \in SUBSET Nat /\ L(s) # {} /\ L(s) \subseteq 1 .. n
    <3>1. s # << >> /\ 1 \in 1 .. n
      <4>1. s # << >>
        BY <1>4
      <4> QED BY <4>1, FrontOf DEF n
    <3>2. 1 \in L(s)
      BY <1>1, <3>1
    <3> QED BY <1>1, <3>2
  <2> HIDE DEF L
  <2>3. Max(L(s)) \in L(s)
    <3>1. 1 \in Int /\ n \in Int
      BY <1>1
    <3>2. IsFiniteSet(1 .. n)
      BY <3>1, FS_Interval
    <3>3. IsFiniteSet(L(s))
      BY <2>2, <3>2, FS_Subset
    <3> QED BY <2>2, <3>3, MaxIsGreatest
  <2>4. a[Max(L(s))] = s[Max(L(s))]
    BY <1>1, <2>2, <2>3
  <2> QED BY <1>2, <1>4, <2>1, <2>4 DEF a
<1> QED BY <1>3, <1>4

---------------------------------------------------------------------------
(* The invariant of the names. *)

UserIds == {User(x) : x \in Identifiers}
Known == DOMAIN types \cup Range(params)

\* The length of a text is declared with its newline.
Tidy(t) ==
    \A j \in DOMAIN t.blocks :
        Newline \in t.blocks[j].names => TextLength \in t.blocks[j].names

\* In a program within the limits there is no error, the program's names are
\* those of the function's block, and every function on the stack finds what
\* it needs.
Scoped == limits = {} =>
    /\ text.errors = {}
    /\ phase \in {"body", "return"} =>
          Clean(text) /\ text.blocks[1].names \cap UserIds = {User(x) : x \in Known}
    /\ phase = "body" => Tidy(text) /\ Frames(calls, text.blocks)
    /\ phase = "return" => Len(text.blocks) = 1
    /\ phase \notin {"body", "return", "crash"} => text.blocks = << >>
    /\ phase \in {"body", "return", "main"} => Len(params) <= 1
    /\ phase \in {"open", "args"} => DOMAIN types = {}

\* t2 is t up to block n, with other names in the last of these, and goes on.
Over(t2, t, n) ==
    /\ Clean(t2) /\ Tidy(t2) /\ Kept(t.blocks, t2.blocks, n)
    /\ t2.blocks[1].names \cap UserIds = t.blocks[1].names \cap UserIds

\* The state of the walk within the limits.
LEMMA BodyIs ==
    ASSUME Inv, Scoped, phase = "body", limits = {}
    PROVE  /\ Clean(text) /\ Tidy(text) /\ Frames(calls, text.blocks)
           /\ Sound(text, Front(text.blocks), Last(text.blocks))
           /\ text.blocks[1].names \cap UserIds = {User(x) : x \in Known}
           /\ Stack(calls, {}) /\ Top \in Frame /\ Top = Last(calls) /\ Fits(Top, {})
           /\ Owes(calls) \in Nat /\ Owes(Front(calls)) \in Nat /\ Top.braces \in Nat
           /\ Len(text.blocks) = 1 + Owes(calls)
           /\ Owes(calls) = Owes(Front(calls)) + Top.braces
           /\ calls \in Seq(Frame) /\ Front(calls) \in Seq(Frame)
           /\ calls = Append(Front(calls), Top)
<1>1. Clean(text) /\ Tidy(text) /\ Frames(calls, text.blocks)
      /\ text.blocks[1].names \cap UserIds = {User(x) : x \in Known}
  BY DEF Scoped
<1>2. Sound(text, Front(text.blocks), Last(text.blocks))
  BY <1>1, CleanSound
<1>3. Stack(calls, {}) /\ Top \in Frame /\ Top = Last(calls) /\ Fits(Top, {}) /\ Top.braces \in Nat
  BY TopOK
<1>4. /\ calls \in Seq(Frame) /\ calls # << >> /\ Front(calls) \in Seq(Frame)
      /\ Owes(calls) \in Nat /\ Owes(Front(calls)) \in Nat
      /\ Owes(calls) = Owes(Front(calls)) + Top.braces
  BY <1>3, StackTop
<1>5. Len(text.blocks) = 1 + Owes(calls)
  BY BracesAre DEF Inv, Depth
<1>6. calls = Append(Front(calls), Top)
  BY <1>3, <1>4, StackIs
<1> QED BY <1>1, <1>2, <1>3, <1>4, <1>5, <1>6

\* The walk goes on with a stack and a text.
LEMMA ScopedGoesOn ==
    ASSUME Inv, Scoped, phase = "body", phase' = "body", limits' = {} => limits = {},
           UNCHANGED <<params, types>>, NEW n,
           limits' = {} => Over(text', text, n) /\ Frames(calls', text'.blocks)
    PROVE  Scoped'
<1> SUFFICES ASSUME limits' = {} PROVE Scoped'
  BY DEF Scoped
<1>1. limits = {} /\ Over(text', text, n) /\ Frames(calls', text'.blocks)
  OBVIOUS
<1>2. Clean(text') /\ Tidy(text')
      /\ text'.blocks[1].names \cap UserIds = text.blocks[1].names \cap UserIds
  BY <1>1 DEF Over
<1>3. text.blocks[1].names \cap UserIds = {User(x) : x \in Known}
  BY <1>1 DEF Scoped
<1>4. Known' = Known
  BY DEF Known
<1>5. text'.errors = {} /\ Len(params') <= 1
  BY <1>1, <1>2 DEF Clean, Scoped
<1>6. text'.blocks[1].names \cap UserIds = {User(x) : x \in Known'}
  BY <1>2, <1>3, <1>4
<1>7. Clean(text)' /\ Tidy(text)' /\ Frames(calls, text.blocks)'
  BY <1>1, <1>2 DEF Clean, Tidy
<1> QED BY <1>5, <1>6, <1>7 DEF Scoped

---------------------------------------------------------------------------
(* Stacks of functions that find what they need. *)

LEMMA FramesPush ==
    ASSUME NEW R \in Seq(Frame), NEW g \in Frame, NEW bs, NEW bs2, Settled(R, bs),
           Kept(bs, bs2, 1 + Owes(R)),
           FrameOK(g, Working(Append(R, g)), bs2, 1 + Owes(R), 1 + Owes(R) + g.braces)
    PROVE  /\ Frames(Append(R, g), bs2)
           /\ Parked(g) => Frames(Append(Append(R, g), Call("expression")), bs2)
<1> DEFINE a == Append(R, g)
           e == Call("expression")
<1>1. a \in Seq(Frame) /\ Front(a) = R /\ Last(a) = g
  BY OnTop
<1>2. Owes(R) \in Nat /\ Owes(a) = Owes(R) + g.braces /\ g.braces \in Nat
  <2>1. g.braces \in Nat
    BY DEF Frame
  <2> QED BY <2>1, OwesTop
<1>3. Settled(R, bs2)
  BY SettledKept
<1>4. FrameOK(g, Working(a), bs2, 1 + Owes(R), 1 + Owes(a))
  <2>1. 1 + Owes(R) + g.braces = 1 + Owes(a)
    BY <1>2
  <2> QED BY <2>1
<1>5. Frames(a, bs2)
  BY <1>1, <1>3, <1>4 DEF Frames
<1>6. ASSUME Parked(g) PROVE Frames(Append(a, e), bs2)
  <2>1. e \in Frame /\ e.fun = "expression"
    BY CallIs DEF Functions
  <2>2. Settled(a, bs2)
    BY <1>3, <1>4, <1>6, SettledTop
  <2> HIDE DEF a, e
  <2>3. Front(Append(a, e)) = a /\ Last(Append(a, e)) = e
    BY <1>1, <2>1, OnTop
  <2>4. \A m, n, w : FrameOK(e, w, bs2, m, n)
    BY <2>1 DEF FrameOK
  <2> QED BY <2>2, <2>3, <2>4 DEF Frames
<1> QED BY <1>5, <1>6

LEMMA FramesStay ==
    ASSUME NEW R \in Seq(Frame), R # << >>, NEW bs, NEW bs2, Settled(R, bs),
           Kept(bs, bs2, 1 + Owes(R))
    PROVE  Frames(R, bs2)
<1>1. Settled(R, bs2)
  BY SettledKept
<1>2. Front(R) \in Seq(Frame) /\ Last(R) \in Frame /\ R = Append(Front(R), Last(R))
  BY StackIs
<1> QED BY <1>1, <1>2, SettledTop DEF Frames

\* The frame after it has called something else.
LEMMA DoneFrame ==
    ASSUME NEW f \in Frame
    PROVE  LET g == [f EXCEPT !.done = TRUE]
           IN  /\ g.working = f.working /\ g.frees = f.frees /\ g.var = f.var
               /\ g.index = f.index /\ g.done = TRUE
BY DEF Frame

LEMMA ReturnedSettled ==
    ASSUME Inv, Scoped, phase = "body", limits = {}, Top.fun \in {"list", "expression"}
    PROVE  /\ Settled(Returned, text.blocks) /\ Returned \in Seq(Frame) /\ Returned # << >>
           /\ Owes(Returned) = Owes(calls) /\ Owes(calls) \in Nat
           /\ Working(Returned) = working
           /\ Stack(Returned, {}) /\ Len(text.blocks) = 1 + Owes(Returned)
<1> DEFINE bs == text.blocks
           F == Front(calls)
<1>1. /\ Frames(calls, bs) /\ Stack(calls, {}) /\ Top \in Frame /\ Top = Last(calls)
      /\ Fits(Top, {}) /\ Owes(calls) \in Nat /\ Owes(F) \in Nat
      /\ Len(bs) = 1 + Owes(calls) /\ Owes(calls) = Owes(F) + Top.braces
      /\ calls \in Seq(Frame) /\ F \in Seq(Frame) /\ calls = Append(F, Top)
  BY BodyIs
<1>2. Stack(Returned, {}) /\ Owes(Returned) = Owes(calls)
  BY <1>1, ReturnedOK
<1>3. Returned \in Seq(Frame) /\ Returned # << >>
  BY <1>2 DEF Stack
<1>4. Settled(F, bs) /\ FrameOK(Top, Working(calls), bs, 1 + Owes(F), 1 + Owes(calls))
  BY <1>1 DEF Frames
<1>5. Top.braces = 0
  BY <1>1 DEF Fits
<1>6. working = Working(calls)
  BY DEF working, Working, InnermostOf
<1>7. Owes(calls) = Owes(F)
  BY <1>1, <1>5
<1>8. (F # << >> => F[1].fun = "list") /\ (F = << >> => Top.fun = "list")
  <2>1. Len(calls) # 1 => Stack(F, {})
    BY <1>1, StackTop
  <2>2. Len(calls) = Len(F) + 1 /\ Len(F) \in Nat
    BY <1>1, StackIs, StackTop
  <2>3. CASE Len(calls) # 1
    BY <2>1, <2>3 DEF Stack
  <2>4. CASE Len(calls) = 1
    <3>1. Len(F) = 0
      <4> HIDE DEF F
      <4> QED BY <2>2, <2>4
    <3>2. F = << >>
      BY <3>1, <1>1, EmptySeq
    <3>3. Top.fun = "list"
      BY <2>4, <1>1, StackTop DEF Stack
    <3> QED BY <3>2, <3>3
  <2> QED BY <2>3, <2>4
<1> HIDE DEF F, bs
<1>9. CASE Top.fun = "expression"
  <2>1. Returned = F
    BY <1>9 DEF Returned, F
  <2>2. Working(Returned) = working
    <3>1. Working(Append(F, Top)) = Working(F)
      BY <1>1, <1>8, <1>9, WorkingOn
    <3> QED BY <1>1, <1>6, <2>1, <3>1
  <2> QED BY <1>1, <1>2, <1>3, <1>4, <2>1, <2>2 DEF bs
<1>10. CASE Top.fun = "list"
  <2> DEFINE g == [Top EXCEPT !.done = TRUE]
  <2>1. Returned = Append(F, g)
    BY <1>10 DEF Returned, SetTop, F
  <2>2. g \in Frame /\ g.fun = "list" /\ g.braces = 0 /\ g.working = Top.working
        /\ g.frees = Top.frees
    BY <1>1, <1>5, <1>10, DoneIs, DoneFrame
  <2> HIDE DEF g
  <2>3. Working(Append(F, g)) = g.working /\ Working(Append(F, Top)) = Top.working
    BY <1>1, <1>8, <1>10, <2>2, WorkingOn
  <2>4. Owes(Append(F, g)) = Owes(calls)
    BY <1>2, <2>1
  <2>5. FrameOK(g, Working(Append(F, g)), bs, 1 + Owes(F), 1 + Owes(Append(F, g)))
    BY <1>4, <1>10, <2>2 DEF FrameOK
  <2>6. Parked(g)
    BY <2>2 DEF Parked
  <2>7. Settled(Returned, bs)
    BY <1>1, <1>4, <2>1, <2>2, <2>5, <2>6, SettledTop
  <2>8. Working(Returned) = working
    <3>1. Working(calls) = Top.working
      BY <1>1, <2>3
    <3>2. Working(Returned) = g.working
      BY <2>1, <2>3
    <3> QED BY <1>6, <2>2, <3>1, <3>2
  <2> QED BY <1>1, <1>2, <1>3, <2>7, <2>8 DEF bs
<1> QED BY <1>9, <1>10

---------------------------------------------------------------------------
(* Names, by their kind. *)

OwnNames == {"own"} \X Words

LEMMA KindsOfNames ==
    /\ \A x, y : User(x) # Own(y)
    /\ \A n, y : FileOf(n) # Own(y) /\ Column(n) # Own(y)
    /\ \A n, x : FileOf(n) # User(x) /\ Column(n) # User(x)
    /\ \A n, x : FileOf(n) # Column(x)
    /\ \A x, y : x # y => Own(x) # Own(y) /\ User(x) # User(y)
    /\ OwnNames \cap UserIds = {}
    /\ \A x \in Words : Own(x) \in OwnNames
    /\ Number # NULL /\ Number # LineLength /\ Number # Separator /\ Number # Remaining
    /\ Number # ByIndexOf
<1>1. OwnNames \cap UserIds = {}
  BY DEF OwnNames, UserIds, User
<1>2. \A x \in Words : Own(x) \in OwnNames
  BY DEF OwnNames, Own
<1>3. /\ \A x, y : User(x) # Own(y)
      /\ \A n, y : FileOf(n) # Own(y) /\ Column(n) # Own(y)
      /\ \A n, x : FileOf(n) # User(x) /\ Column(n) # User(x)
      /\ \A n, x : FileOf(n) # Column(x)
  BY DEF User, Own, FileOf, Column
<1>4. \A x, y : x # y => Own(x) # Own(y) /\ User(x) # User(y)
  BY DEF Own, User
<1>5. /\ Number # NULL /\ Number # LineLength /\ Number # Separator /\ Number # Remaining
      /\ Number # ByIndexOf
  BY <1>4 DEF Number, NULL, LineLength, Separator, Remaining, ByIndexOf
<1> QED BY <1>1, <1>2, <1>3, <1>4, <1>5

LEMMA SeenAll ==
    ASSUME NEW t, Clean(t)
    PROVE  /\ Seen(t.blocks, Len(t.blocks)) = Visible(t.blocks) \ {Number}
           /\ Seen(t.blocks, Len(t.blocks)) \subseteq Readable(Front(t.blocks), Last(t.blocks))
           /\ \A m, n \in Nat : m <= n => Seen(t.blocks, m) \subseteq Seen(t.blocks, n)
<1> DEFINE u == t.blocks
<1>1. Sound(t, Front(u), Last(u))
  BY CleanSound
<1>2. Visible(u) = Visible(Front(u)) \cup Last(u).names
  BY <1>1, SoundIs
<1>3. u \in Seq(Block)
  BY DEF Clean, Text
<1>4. DOMAIN u = 1 .. Len(u)
  BY <1>3, LenProperties
<1> HIDE DEF u
<1>5. Seen(u, Len(u)) = Visible(u) \ {Number}
  BY <1>4 DEF Seen, Visible
<1>6. \A m, n \in Nat : m <= n => Seen(u, m) \subseteq Seen(u, n)
  <2> SUFFICES ASSUME NEW m \in Nat, NEW n \in Nat, m <= n PROVE Seen(u, m) \subseteq Seen(u, n)
    OBVIOUS
  <2>1. 1 .. m \subseteq 1 .. n
    OBVIOUS
  <2> QED BY <2>1 DEF Seen
<1>7. Seen(u, Len(u)) \subseteq Readable(Front(u), Last(u))
  BY <1>2, <1>5 DEF Readable
<1> QED BY <1>5, <1>6, <1>7 DEF u

---------------------------------------------------------------------------
(* From a text to the next one. *)

\* The innermost block with some names of the generator more.
Grown(b, c) ==
    /\ b.names \subseteq c.names /\ c.names \subseteq b.names \cup OwnNames
    /\ c.if = b.if
    /\ Newline \in c.names => TextLength \in c.names

LEMMA OverFlat ==
    ASSUME NEW t, Clean(t), Tidy(t), NEW t2, NEW c,
           Sound(t2, Front(t.blocks), c), Grown(Last(t.blocks), c)
    PROVE  Over(t2, t, Len(t.blocks))
<1> DEFINE B == Front(t.blocks)
           b == Last(t.blocks)
           u == t.blocks
           v == t2.blocks
           n == Len(B)
<1>1. /\ n \in Nat /\ Len(u) = n + 1 /\ u[n + 1] = b /\ DOMAIN u = 1 .. n + 1
      /\ \A i \in 1 .. n : u[i] = B[i]
  <2>1. Sound(t, B, b)
    BY CleanSound
  <2> HIDE DEF B, b
  <2> QED BY <2>1, SoundIs
<1>2. /\ Len(v) = n + 1 /\ v[n + 1] = c /\ DOMAIN v = 1 .. n + 1
      /\ \A i \in 1 .. n : v[i] = B[i]
  BY SoundIs
<1>3. b.names \subseteq c.names /\ c.names \subseteq b.names \cup OwnNames /\ c.if = b.if
      /\ (Newline \in c.names => TextLength \in c.names)
  BY DEF Grown
<1>4. Clean(t2)
  BY SoundClean
<1>5. \A j \in DOMAIN u : Newline \in u[j].names => TextLength \in u[j].names
  BY DEF Tidy
<1> HIDE DEF B, b, u, v, n
<1>6. Tidy(t2)
  <2> SUFFICES ASSUME NEW j \in DOMAIN v, Newline \in v[j].names
               PROVE  TextLength \in v[j].names
    BY DEF Tidy, v
  <2>1. j = n + 1 \/ j \in 1 .. n
    BY <1>1, <1>2
  <2>2. CASE j \in 1 .. n
    <3>1. v[j] = u[j] /\ j \in DOMAIN u
      BY <1>1, <1>2, <2>2
    <3> QED BY <1>5, <3>1
  <2> QED BY <1>2, <1>3, <2>1, <2>2
<1>7. Kept(u, v, n + 1)
  <2>1. \A j \in 1 .. (n + 1) - 1 : v[j] = u[j]
    BY <1>1, <1>2
  <2> QED BY <1>1, <1>2, <1>3, <2>1 DEF Kept
<1>8. v[1].names \cap UserIds = u[1].names \cap UserIds
  <2>1. CASE n = 0
    <3>1. v[1] = c /\ u[1] = b
      BY <1>1, <1>2, <2>1
    <3> QED BY <1>3, <3>1, KindsOfNames
  <2>2. CASE n # 0
    <3>1. 1 \in 1 .. n
      BY <1>1, <2>2
    <3> QED BY <1>1, <1>2, <3>1
  <2> QED BY <2>1, <2>2
<1> QED BY <1>1, <1>4, <1>6, <1>7, <1>8 DEF Over, u, v

LEMMA OverOpen ==
    ASSUME NEW t, Clean(t), Tidy(t), NEW t2, NEW c \in Block, NEW d,
           Sound(t2, Append(Front(t.blocks), c), d), Grown(Last(t.blocks), c),
           Newline \notin d.names
    PROVE  /\ Over(t2, t, Len(t.blocks))
           /\ Len(t2.blocks) = Len(t.blocks) + 1
           /\ t2.blocks[Len(t.blocks) + 1] = d /\ t2.blocks[Len(t.blocks)] = c
           /\ Visible(t2.blocks) = Visible(Front(t.blocks)) \cup c.names \cup d.names
           /\ Visible(t.blocks) \subseteq Visible(t2.blocks)
<1> DEFINE B == Front(t.blocks)
           b == Last(t.blocks)
           u == t.blocks
           v == t2.blocks
           n == Len(B)
           A == Append(B, c)
<1>0. Sound(t, B, b)
  BY CleanSound
<1>1. /\ n \in Nat /\ Len(u) = n + 1 /\ u[n + 1] = b /\ DOMAIN u = 1 .. n + 1
      /\ Visible(u) = Visible(B) \cup b.names
      /\ \A i \in 1 .. n : u[i] = B[i]
  <2> HIDE DEF B, b
  <2> QED BY <1>0, SoundIs
<1>2. B \in Seq(Block)
  BY <1>0 DEF Sound
<1>3. /\ Len(A) = n + 1 /\ A[n + 1] = c /\ \A i \in 1 .. n : A[i] = B[i]
  <2> HIDE DEF B
  <2> QED BY <1>2, AppendProperties
<1>4. Visible(A) = Visible(B) \cup c.names
  <2> HIDE DEF B
  <2> QED BY <1>2, VisibleAppend
<1>5. /\ Len(v) = Len(A) + 1 /\ v[Len(A) + 1] = d /\ DOMAIN v = 1 .. Len(A) + 1
      /\ \A i \in 1 .. Len(A) : v[i] = A[i]
      /\ Visible(v) = Visible(A) \cup d.names
  BY SoundIs
<1>6. b.names \subseteq c.names /\ c.names \subseteq b.names \cup OwnNames /\ c.if = b.if
      /\ (Newline \in c.names => TextLength \in c.names)
  BY DEF Grown
<1>7. Clean(t2)
  BY SoundClean
<1>8. \A j \in DOMAIN u : Newline \in u[j].names => TextLength \in u[j].names
  BY DEF Tidy
<1> HIDE DEF B, b, u, v, n, A
<1>9. /\ Len(v) = n + 2 /\ v[n + 2] = d /\ DOMAIN v = 1 .. n + 2 /\ v[n + 1] = c
      /\ \A i \in 1 .. n : v[i] = B[i]
  <2>1. Len(A) + 1 = n + 2 /\ n + 1 \in 1 .. Len(A) /\ 1 .. n \subseteq 1 .. Len(A)
    BY <1>1, <1>3
  <2> QED BY <1>3, <1>5, <2>1
<1>10. Tidy(t2)
  <2> SUFFICES ASSUME NEW j \in DOMAIN v, Newline \in v[j].names
               PROVE  TextLength \in v[j].names
    BY DEF Tidy, v
  <2>1. j = n + 2 \/ j = n + 1 \/ j \in 1 .. n
    BY <1>1, <1>9
  <2>2. CASE j \in 1 .. n
    <3>1. v[j] = u[j] /\ j \in DOMAIN u
      BY <1>1, <1>9, <2>2
    <3> QED BY <1>8, <3>1
  <2> QED BY <1>6, <1>9, <2>1, <2>2
<1>11. Kept(u, v, n + 1)
  <2>1. \A j \in 1 .. (n + 1) - 1 : v[j] = u[j]
    BY <1>1, <1>9
  <2>2. n + 1 <= Len(u) /\ n + 1 <= Len(v)
    BY <1>1, <1>9
  <2> QED BY <1>1, <1>6, <1>9, <2>1, <2>2 DEF Kept
<1>12. v[1].names \cap UserIds = u[1].names \cap UserIds
  <2>1. CASE n = 0
    <3>1. v[1] = c /\ u[1] = b
      BY <1>1, <1>9, <2>1
    <3> QED BY <1>6, <3>1, KindsOfNames
  <2>2. CASE n # 0
    <3>1. 1 \in 1 .. n
      BY <1>1, <2>2
    <3> QED BY <1>1, <1>9, <3>1
  <2> QED BY <2>1, <2>2
<1>13. Over(t2, t, n + 1)
  BY <1>7, <1>10, <1>11, <1>12 DEF Over, u, v
<1>14. Len(v) = Len(u) + 1 /\ v[Len(u) + 1] = d /\ v[Len(u)] = c
  <2>1. Len(u) + 1 = n + 2
    BY <1>1
  <2> QED BY <1>1, <1>9, <2>1
<1>15. Visible(v) = Visible(B) \cup c.names \cup d.names /\ Visible(u) \subseteq Visible(v)
  BY <1>1, <1>4, <1>5, <1>6
<1> QED BY <1>1, <1>13, <1>14, <1>15 DEF u, v, B

---------------------------------------------------------------------------
(* What an expression may mention can be read. *)

LEMMA LoopsSeen ==
    ASSUME Inv, Scoped, phase = "body", limits = {}, Top.fun \in {"list", "expression"}
    PROVE  LoopVariables \subseteq Seen(text.blocks, Len(text.blocks))
<1> DEFINE F == Front(calls)
           bs == text.blocks
<1>1. /\ Frames(calls, bs) /\ Top = Last(calls) /\ Owes(calls) \in Nat /\ Owes(F) \in Nat
      /\ Len(bs) = 1 + Owes(calls) /\ Owes(calls) = Owes(F) + Top.braces /\ Top.braces \in Nat
      /\ calls \in Seq(Frame) /\ F \in Seq(Frame) /\ Clean(text) /\ Stack(calls, {})
  BY BodyIs
<1>2. /\ calls # << >> /\ Len(calls) = Len(F) + 1 /\ Len(F) \in Nat
      /\ DOMAIN calls = 1 .. Len(calls) /\ \A i \in 1 .. Len(calls) - 1 : F[i] = calls[i]
      /\ Top = calls[Len(calls)]
  BY <1>1, StackTop, StackIs, FrontOf
<1>3. Settled(F, bs)
  BY <1>1 DEF Frames
<1> HIDE DEF F
<1> SUFFICES ASSUME NEW i \in DOMAIN calls, calls[i].fun \in Loops
             PROVE  calls[i].var \in Seen(bs, Len(bs))
  BY DEF LoopVariables
<1>4. i \in 1 .. Len(F) /\ F[i] = calls[i]
  <2>1. i # Len(calls)
    BY <1>2 DEF Loops
  <2>2. i \in 1 .. Len(calls) - 1 /\ Len(calls) - 1 = Len(F)
    BY <1>2, <2>1
  <2> QED BY <1>2, <2>2
<1> DEFINE m == 1 + Owes(SubSeq(F, 1, i - 1))
           n == 1 + Owes(SubSeq(F, 1, i))
           w == Working(SubSeq(F, 1, i))
           f == calls[i]
<1>5. Parked(f) /\ FrameOK(f, w, bs, m, n)
  BY <1>3, <1>4 DEF Settled
<1>6. n \in Nat /\ n <= Len(bs) /\ Len(bs) \in Nat
  <2>1. Owes(SubSeq(F, 1, i)) \in Nat /\ Owes(SubSeq(F, 1, i)) <= Owes(F)
    BY <1>1, <1>4, OwesPrefix
  <2> QED BY <1>1, <2>1
<1>7. Seen(bs, n) \subseteq Seen(bs, Len(bs))
  <2> HIDE DEF n
  <2> QED BY <1>1, <1>6, SeenAll
<1>8. f \in Frame
  BY <1>1, ElementOfSeq
<1> HIDE DEF m, n, w, f
<1>9. f.var \in Seen(bs, n)
  <2>1. CASE f.fun = "range"
    BY <1>5, <2>1 DEF FrameOK
  <2>2. CASE f.fun = "columns"
    BY <1>5, <2>2 DEF FrameOK
  <2>3. CASE f.fun = "calls"
    <3>1. f.at = 0 /\ f.braces > 0
      BY <1>5, <2>3 DEF Parked
    <3>2. f.braces # 0
      BY <3>1
    <3> QED BY <1>5, <2>3, <3>1, <3>2 DEF FrameOK
  <2>4. f.fun \in Loops
    BY DEF f
  <2> QED BY <2>1, <2>2, <2>3, <2>4 DEF Loops
<1> QED BY <1>7, <1>9 DEF f

LEMMA MentionedSeen ==
    ASSUME Inv, Scoped, phase = "body", limits = {}, Top.fun \in {"list", "expression"}
    PROVE  LET seen == Seen(text.blocks, Len(text.blocks))
           IN  /\ Mentioned \subseteq seen /\ Declared \subseteq seen
               /\ \A operand \in Operands : operand.names \subseteq seen
               /\ Declared \subseteq Seen(text.blocks, 1)
<1> DEFINE bs == text.blocks
           seen == Seen(bs, Len(bs))
<1>1. LoopVariables \subseteq seen
  BY LoopsSeen
<1>2. /\ Clean(text) /\ Len(bs) = 1 + Owes(calls) /\ Owes(calls) \in Nat
      /\ bs[1].names \cap UserIds = {User(x) : x \in Known}
  BY BodyIs
<1>3. {User(x) : x \in Known} \subseteq Seen(bs, 1)
  <2>1. \A x : User(x) # Number
    BY KindsOfNames DEF Number
  <2> QED BY <1>2, <2>1 DEF Seen
<1>4. Seen(bs, 1) \subseteq seen
  <2>1. 1 \in Nat /\ Len(bs) \in Nat /\ 1 <= Len(bs)
    BY <1>2
  <2> QED BY <1>2, <2>1, SeenAll
<1> HIDE DEF bs, seen
<1>5. Declared \subseteq Seen(bs, 1) /\ {User(p) : p \in Range(params)} \subseteq Seen(bs, 1)
  BY <1>3 DEF Declared, Known
<1>6. Mentioned \subseteq seen
  BY <1>1, <1>4, <1>5 DEF Mentioned
<1>7. \A operand \in Operands : operand.names \subseteq seen
  BY <1>6 DEF Operands, Variables, Constant, Operand
<1> QED BY <1>4, <1>5, <1>6, <1>7 DEF bs, seen

---------------------------------------------------------------------------
(* Expressions, by what they print. *)

LEMMA StatementScoped ==
    ASSUME Inv, Scoped, phase = "body", NEW t, NEW asked, Statement(t, asked),
           limits = {} /\ asked = {} =>
              \E c : Sound(t, Front(text.blocks), c) /\ Grown(Last(text.blocks), c)
    PROVE  Scoped'
<1>1. /\ Top.fun \in {"list", "expression"} /\ text' = t /\ calls' = Returned \o << >>
      /\ limits' = limits \cup asked /\ UNCHANGED <<params, phase, types>>
  BY DEF Statement, Emit, Expecting
<1>2. ASSUME limits' = {}
      PROVE  Over(text', text, Len(text.blocks)) /\ Frames(calls', text'.blocks)
  <2>1. limits = {} /\ asked = {}
    BY <1>1, <1>2
  <2>2. PICK c : Sound(t, Front(text.blocks), c) /\ Grown(Last(text.blocks), c)
    BY <2>1
  <2>3. Clean(text) /\ Tidy(text)
    BY <2>1, BodyIs
  <2>4. Over(t, text, Len(text.blocks))
    BY <2>2, <2>3, OverFlat
  <2>5. /\ Settled(Returned, text.blocks) /\ Returned \in Seq(Frame) /\ Returned # << >>
        /\ Stack(Returned, {}) /\ Len(text.blocks) = 1 + Owes(Returned)
    BY <1>1, <2>1, ReturnedSettled
  <2>6. Kept(text.blocks, t.blocks, 1 + Owes(Returned))
    BY <2>4, <2>5 DEF Over
  <2>7. Frames(Returned, t.blocks)
    BY <2>5, <2>6, FramesStay
  <2>8. calls' = Returned
    BY <1>1, <2>5
  <2> QED BY <1>1, <2>4, <2>7, <2>8
<1>3. limits' = {} => limits = {}
  BY <1>1
<1> QED BY <1>1, <1>2, <1>3, ScopedGoesOn

\* The expression has called g, and g perhaps an expression.
LEMMA CallingScoped ==
    ASSUME Inv, Scoped, phase = "body", NEW t, NEW g \in Frame, NEW asked, NEW frames,
           \/ frames = <<g>>
           \/ frames = <<g, Call("expression")>> /\ Parked(g),
           Emit(t, frames, asked), UNCHANGED types,
           limits = {} /\ asked = {} =>
              /\ Over(t, text, Len(text.blocks))
              /\ FrameOK(g, IF g.fun = "list" THEN g.working ELSE working, t.blocks,
                         Len(text.blocks), Len(text.blocks) + g.braces)
    PROVE  Scoped'
<1> DEFINE R == Returned
           n == Len(text.blocks)
           e == Call("expression")
<1>1. /\ Top.fun \in {"list", "expression"} /\ text' = t /\ calls' = R \o frames
      /\ limits' = limits \cup asked /\ UNCHANGED <<params, phase, types>>
  BY DEF Emit, Expecting
<1>2. ASSUME limits' = {}
      PROVE  Over(text', text, n) /\ Frames(calls', text'.blocks)
  <2>1. limits = {} /\ asked = {}
    BY <1>1, <1>2
  <2>2. /\ Over(t, text, n)
        /\ FrameOK(g, IF g.fun = "list" THEN g.working ELSE working, t.blocks, n, n + g.braces)
    BY <2>1
  <2>3. /\ Settled(R, text.blocks) /\ R \in Seq(Frame) /\ R # << >> /\ Working(R) = working
        /\ Stack(R, {}) /\ n = 1 + Owes(R)
    BY <1>1, <2>1, ReturnedSettled
  <2>4. e \in Frame
    BY CallIs DEF Functions
  <2> HIDE DEF R, n, e
  <2>5. Working(Append(R, g)) = IF g.fun = "list" THEN g.working ELSE working
    <3>1. R[1].fun = "list"
      BY <2>3 DEF Stack
    <3> QED BY <2>3, <3>1, WorkingOn
  <2>6. Kept(text.blocks, t.blocks, 1 + Owes(R))
    BY <2>2, <2>3 DEF Over
  <2>7. FrameOK(g, Working(Append(R, g)), t.blocks, 1 + Owes(R), 1 + Owes(R) + g.braces)
    BY <2>2, <2>3, <2>5
  <2>8. /\ Frames(Append(R, g), t.blocks)
        /\ Parked(g) => Frames(Append(Append(R, g), e), t.blocks)
    BY <2>3, <2>6, <2>7, FramesPush DEF e
  <2>9. CASE frames = <<g>>
    <3>1. calls' = Append(R, g)
      BY <1>1, <2>3, <2>9, OnTop
    <3> QED BY <1>1, <2>2, <2>8, <3>1
  <2>10. CASE frames = <<g, e>> /\ Parked(g)
    <3>1. R \o <<g, e>> = Append(Append(R, g), e)
      <4>1. <<g>> \in Seq(Frame) /\ <<e>> \in Seq(Frame)
        BY <2>4, OneOf
      <4>2. <<g, e>> = <<g>> \o <<e>>
        BY PairIs
      <4>3. R \o (<<g>> \o <<e>>) = (R \o <<g>>) \o <<e>>
        BY <2>3, <4>1, ConcatAssociative
      <4>4. R \o <<g>> = Append(R, g) /\ Append(R, g) \in Seq(Frame)
        BY <2>3, OnTop
      <4>5. Append(R, g) \o <<e>> = Append(Append(R, g), e)
        BY <2>4, <4>4, OnTop
      <4> QED BY <4>2, <4>3, <4>4, <4>5
    <3>2. calls' = Append(Append(R, g), e)
      BY <1>1, <2>10, <3>1
    <3> QED BY <1>1, <2>2, <2>8, <2>10, <3>2
  <2> QED BY <2>9, <2>10 DEF e
<1>3. limits' = {} => limits = {}
  BY <1>1
<1> QED BY <1>1, <1>2, <1>3, ScopedGoesOn

---------------------------------------------------------------------------
(* What may be read inside an open block. *)

LEMMA GrownWith ==
    ASSUME NEW b, NEW c \in Block, Grown(b, c), NEW x \in OwnNames, x # Newline, x \in Name
    PROVE  Grown(b, With(c, {x}))
<1>1. /\ With(c, {x}).names = c.names \cup {x} /\ With(c, {x}).if = c.if
  BY WithIs
<1> QED BY <1>1 DEF Grown

LEMMA StatementIs ==
    ASSUME Inv, Scoped, phase = "body", limits = {}, Top.fun \in {"list", "expression"}
    PROVE  LET B == Front(text.blocks)
               b == Last(text.blocks)
               seen == Seen(text.blocks, Len(text.blocks))
           IN  /\ Sound(text, B, b) /\ B \in Seq(Block) /\ b \in Block /\ Grown(b, b)
               /\ seen \subseteq Readable(B, b) /\ Number \notin seen
               /\ \A if \in BOOLEAN : seen \subseteq Readable(Append(B, b), Fresh(if))
               /\ text.blocks # << >>
<1> DEFINE B == Front(text.blocks)
           b == Last(text.blocks)
           seen == Seen(text.blocks, Len(text.blocks))
<1>1. Clean(text) /\ Tidy(text) /\ Sound(text, B, b)
  BY BodyIs
<1>2. seen \subseteq Readable(B, b)
  BY <1>1, SeenAll
<1>3. Number \notin seen
  BY DEF Seen
<1>4. B \in Seq(Block) /\ b \in Block
  BY <1>1 DEF Sound
<1>5. Grown(b, b)
  <2>1. text.blocks # << >> /\ text.blocks \in Seq(Block)
    BY <1>1 DEF Clean, Text
  <2>2. b = text.blocks[Len(text.blocks)] /\ Len(text.blocks) \in DOMAIN text.blocks
    <3> DEFINE u == text.blocks
    <3> HIDE DEF u
    <3>1. Len(u) \in Nat \ {0} /\ DOMAIN u = 1 .. Len(u) /\ Last(u) = u[Len(u)]
      BY <2>1, FrontOf DEF u
    <3> QED BY <3>1 DEF u
  <2>3. Newline \in b.names => TextLength \in b.names
    BY <1>1, <2>2 DEF Tidy
  <2> QED BY <2>3 DEF Grown
<1>6. text.blocks # << >>
  BY <1>1 DEF Clean
<1> HIDE DEF B, b, seen
<1>7. \A if \in BOOLEAN : seen \subseteq Readable(Append(B, b), Fresh(if))
  BY <1>2, <1>3, <1>4, ReadableFresh
<1> QED BY <1>1, <1>2, <1>3, <1>4, <1>5, <1>6, <1>7 DEF B, b, seen

---------------------------------------------------------------------------
(* The assignments. *)

\* They print t when the expression is in B and b.
Prints(t) ==
    \E c : Sound(t, Front(text.blocks), c) /\ Grown(Last(text.blocks), c)

LEMMA PrintsUse ==
    ASSUME Inv, Scoped, phase = "body", limits = {}, Top.fun \in {"list", "expression"},
           NEW names \in SUBSET Name, names \subseteq Seen(text.blocks, Len(text.blocks))
    PROVE  Prints(text ++ Use(names)) /\ Prints(text)
<1> DEFINE B == Front(text.blocks)
           b == Last(text.blocks)
<1>1. Sound(text, B, b) /\ Grown(b, b) /\ names \subseteq Readable(B, b)
  BY StatementIs
<1> HIDE DEF B, b
<1>2. Sound(text ++ Use(names), B, b)
  BY <1>1, UseSound
<1> QED BY <1>1, <1>2 DEF Prints, B, b

LEMMA ConstantScoped ==
    ASSUME Inv, Scoped, phase = "body", NEW dest \in DOMAIN types,
           generate_variable_assignment_to_constant(dest)
    PROVE  Scoped'
<1>1. Statement(text ++ Use({User(dest)}), {})
  BY DEF generate_variable_assignment_to_constant
<1>2. Top.fun \in {"list", "expression"}
  BY <1>1 DEF Statement, Emit, Expecting
<1>3. ASSUME limits = {} PROVE Prints(text ++ Use({User(dest)}))
  <2>1. {User(dest)} \in SUBSET Name
    BY MentionedOK
  <2>2. User(dest) \in Seen(text.blocks, Len(text.blocks))
    BY <1>2, <1>3, MentionedSeen DEF Declared
  <2> QED BY <1>2, <1>3, <2>1, <2>2, PrintsUse
<1> QED BY <1>1, <1>3, StatementScoped DEF Prints

LEMMA VariableScoped ==
    ASSUME Inv, Scoped, phase = "body", NEW dest \in DOMAIN types, NEW source \in Mentioned,
           generate_variable_assignment_to_variable(dest, source)
    PROVE  Scoped'
<1> DEFINE names == {User(dest), source}
<1>1. Statement(text ++ Use(names), {})
  BY DEF generate_variable_assignment_to_variable
<1>2. Top.fun \in {"list", "expression"}
  BY <1>1 DEF Statement, Emit, Expecting
<1>3. ASSUME limits = {} PROVE Prints(text ++ Use(names))
  <2>1. names \in SUBSET Name
    BY MentionedOK
  <2>2. names \subseteq Seen(text.blocks, Len(text.blocks))
    BY <1>2, <1>3, MentionedSeen DEF Declared
  <2> QED BY <1>2, <1>3, <2>1, <2>2, PrintsUse
<1> QED BY <1>1, <1>3, StatementScoped DEF Prints

LEMMA SameScoped ==
    ASSUME Inv, Scoped, phase = "body", Statement(text, {}) PROVE Scoped'
<1>1. Top.fun \in {"list", "expression"}
  BY DEF Statement, Emit, Expecting
<1>2. ASSUME limits = {} PROVE Prints(text)
  <2>1. {} \in SUBSET Name /\ {} \subseteq Seen(text.blocks, Len(text.blocks))
    OBVIOUS
  <2> QED BY <1>1, <1>2, <2>1, PrintsUse
<1> QED BY <1>2, StatementScoped DEF Prints

LEMMA CrashScoped ==
    ASSUME Inv, Scoped, Crash PROVE Scoped'
<1>1. phase' = "crash" /\ UNCHANGED <<text, limits>>
  BY DEF Crash
<1> QED BY <1>1 DEF Scoped

\* The operands of an assignment can be read.
LEMMA OperandsSeen ==
    ASSUME Inv, Scoped, phase = "body", limits = {}, Top.fun \in {"list", "expression"},
           NEW dest \in DOMAIN types, NEW left \in Operands, NEW right \in Operands
    PROVE  LET seen == Seen(text.blocks, Len(text.blocks))
               names == left.names \cup right.names \cup {User(dest)}
           IN  /\ names \in SUBSET Name /\ names \subseteq seen
               /\ left.names \in SUBSET Name /\ left.names \subseteq seen
               /\ right.names \in SUBSET Name /\ right.names \subseteq seen
               /\ User(dest) \in Name /\ User(dest) \in seen
<1>1. /\ left.names \in SUBSET Name /\ right.names \in SUBSET Name /\ User(dest) \in Name
  BY MentionedOK
<1> DEFINE seen == Seen(text.blocks, Len(text.blocks))
<1>2. left.names \subseteq seen /\ right.names \subseteq seen /\ Declared \subseteq seen
  BY MentionedSeen
<1>3. User(dest) \in Declared
  BY DEF Declared
<1> HIDE DEF seen
<1> QED BY <1>1, <1>2, <1>3 DEF seen

\* A block of a statement's own, and a name in it.
LEMMA OwnBlock ==
    ASSUME Inv, Scoped, phase = "body", limits = {}, Top.fun \in {"list", "expression"},
           NEW name \in Name
    PROVE  LET B == Front(text.blocks)
               b == Last(text.blocks)
               c == With(Fresh(FALSE), {name})
               seen == Seen(text.blocks, Len(text.blocks))
           IN  /\ Sound(text ++ While({}), Append(B, b), Fresh(FALSE))
               /\ Sound(text ++ While({}) ++ Var(name), Append(B, b), c)
               /\ seen \subseteq Readable(Append(B, b), c)
               /\ seen \subseteq Readable(Append(B, b), Fresh(FALSE))
               /\ c \in Block /\ B \in Seq(Block) /\ b \in Block
<1> DEFINE B == Front(text.blocks)
           b == Last(text.blocks)
           c == With(Fresh(FALSE), {name})
           seen == Seen(text.blocks, Len(text.blocks))
           A == Append(B, b)
<1>1. Sound(text, B, b) /\ B \in Seq(Block) /\ b \in Block /\ seen \subseteq Readable(A, Fresh(FALSE))
  BY StatementIs
<1> HIDE DEF B, b, seen
<1>2. Sound(text ++ While({}), A, Fresh(FALSE))
  <2>1. {} \in SUBSET Name /\ {} \subseteq Readable(B, b)
    OBVIOUS
  <2> QED BY <1>1, <2>1, OpenSound
<1> HIDE DEF A
<1>3. Fresh(FALSE).names = {} /\ Fresh(FALSE) \in Block
  BY FreshIs
<1>4. Sound(text ++ While({}) ++ Var(name), A, c)
  BY <1>2, <1>3, VarSound
<1>5. seen \subseteq Readable(A, c) /\ c \in Block
  <2>1. {name} \in SUBSET Name
    OBVIOUS
  <2> QED BY <1>1, <1>3, <2>1, ReadableWith, WithIs DEF A
<1> QED BY <1>1, <1>2, <1>4, <1>5 DEF A, B, b, c, seen

LEMMA ArithmeticScoped ==
    ASSUME Inv, Scoped, phase = "body", NEW dest \in DOMAIN types, NEW left \in Operands,
           NEW right \in Operands, generate_number_arithmetic(dest, left, right)
    PROVE  Scoped'
<1> DEFINE names == left.names \cup right.names \cup {User(dest)}
           n == Own("_arithm_n")
           t2 == text ++ While({}) ++ Var(n)
           t3 == t2 ++ Use(names)
           t4 == t3 ++ End
<1>1. Statement(t4, {})
  BY DEF generate_number_arithmetic
<1>2. Top.fun \in {"list", "expression"}
  BY <1>1 DEF Statement, Emit, Expecting
<1>3. ASSUME limits = {} PROVE Prints(t4)
  <2> DEFINE B == Front(text.blocks)
             b == Last(text.blocks)
             c == With(Fresh(FALSE), {n})
             seen == Seen(text.blocks, Len(text.blocks))
  <2>1. n \in Name
    BY OwnOK
  <2>2. /\ Sound(t2, Append(B, b), c) /\ seen \subseteq Readable(Append(B, b), c)
        /\ B \in Seq(Block) /\ b \in Block
    BY <1>2, <1>3, <2>1, OwnBlock
  <2>3. names \in SUBSET Name /\ names \subseteq seen
    BY <1>2, <1>3, OperandsSeen
  <2>4. Grown(b, b)
    BY <1>2, <1>3, StatementIs
  <2> HIDE DEF B, b, c, seen, names, n, t2
  <2>5. Sound(t3, Append(B, b), c)
    BY <2>2, <2>3, UseSound
  <2> HIDE DEF t3
  <2>6. Sound(t4, B, b)
    BY <2>2, <2>5, EndSound
  <2> HIDE DEF t4
  <2> QED BY <2>4, <2>6 DEF Prints, B, b
<1> HIDE DEF t4
<1> QED BY <1>1, <1>3, StatementScoped DEF Prints

LEMMA FileTimesNumberScoped ==
    ASSUME Inv, Scoped, phase = "body", NEW dest \in DOMAIN types, NEW left \in Operands,
           NEW right \in Operands, generate_number_arithmetic_mul_with_file(dest, left, right)
    PROVE  Scoped'
<1> DEFINE names == left.names \cup right.names \cup {User(dest)}
           number == IF Files(left) THEN right ELSE left
           n == Own("_arithm_n")
           t1 == text ++ While({})
           u2 == t1 ++ Var(n)
           u3 == u2 ++ End
           t2 == t1 ++ Check(number.names)
           t3 == t2 ++ Var(n)
           t4 == t3 ++ Use(number.names)
           t5 == t4 ++ While(names)
           t6 == t5 ++ End
           t7 == t6 ++ End
<1>1. Crash \/ Statement(u3, {}) \/ Statement(t7, {})
  BY DEF generate_number_arithmetic_mul_with_file
<1>2. Top.fun \in {"list", "expression"}
  BY <1>1 DEF Statement, Emit, Expecting, Crash
<1>3. ASSUME limits = {} PROVE Prints(u3) /\ Prints(t7)
  <2> DEFINE B == Front(text.blocks)
             b == Last(text.blocks)
             A == Append(B, b)
             c == With(Fresh(FALSE), {n})
             seen == Seen(text.blocks, Len(text.blocks))
  <2>1. n \in Name
    BY OwnOK
  <2>2. /\ Sound(t1, A, Fresh(FALSE)) /\ Sound(u2, A, c)
        /\ seen \subseteq Readable(A, c) /\ seen \subseteq Readable(A, Fresh(FALSE))
        /\ B \in Seq(Block) /\ b \in Block /\ c \in Block
    BY <1>2, <1>3, <2>1, OwnBlock
  <2>3. /\ names \in SUBSET Name /\ names \subseteq seen
        /\ number.names \in SUBSET Name /\ number.names \subseteq seen
    BY <1>2, <1>3, OperandsSeen
  <2>4. Grown(b, b)
    BY <1>2, <1>3, StatementIs
  <2>5. Fresh(FALSE).names = {}
    BY FreshIs
  <2> HIDE DEF B, b, c, seen, names, number, n, t1, u2
  <2>6. Sound(u3, B, b)
    BY <2>2, EndSound
  <2>7. Sound(t2, A, Fresh(FALSE))
    <3> HIDE DEF A
    <3> QED BY <2>2, <2>3, UseSound
  <2> HIDE DEF t2
  <2>8. Sound(t3, A, c)
    <3> HIDE DEF A
    <3> QED BY <2>1, <2>5, <2>7, VarSound DEF c
  <2> HIDE DEF t3
  <2>9. Sound(t4, A, c)
    <3> HIDE DEF A
    <3> QED BY <2>2, <2>3, <2>8, UseSound
  <2> HIDE DEF t4
  <2>10. A \in Seq(Block)
    BY <2>2, AppendProperties
  <2>11. Sound(t5, Append(A, c), Fresh(FALSE))
    <3> HIDE DEF A
    <3> QED BY <2>2, <2>3, <2>9, OpenSound
  <2> HIDE DEF t5
  <2>12. Sound(t6, A, c)
    <3> HIDE DEF A
    <3> QED BY <2>2, <2>10, <2>11, EndSound
  <2> HIDE DEF t6
  <2>13. Sound(t7, B, b)
    BY <2>2, <2>12, EndSound
  <2> HIDE DEF t7, u3
  <2> QED BY <2>4, <2>6, <2>13 DEF Prints, B, b
<1> HIDE DEF t7, u3
<1>4. CASE Crash
  BY <1>4, CrashScoped
<1>5. CASE Statement(u3, {})
  BY <1>3, <1>5, StatementScoped DEF Prints
<1>6. CASE Statement(t7, {})
  BY <1>3, <1>6, StatementScoped DEF Prints
<1> QED BY <1>1, <1>4, <1>5, <1>6

\* What is not within the limits is asked for.
LEMMA AskedScoped ==
    ASSUME Inv, Scoped, phase = "body", NEW t, NEW asked, Statement(t, asked), asked # {}
    PROVE  Scoped'
BY StatementScoped

LEMMA NoneScoped ==
    ASSUME Inv, Scoped, phase = "body", generate_number_arithmetic_none PROVE Scoped'
<1> DEFINE t == text ++ End
           asked == {"arithmetic"}
<1>1. Statement(t, asked) /\ asked # {}
  BY DEF generate_number_arithmetic_none
<1> HIDE DEF t, asked
<1> QED BY <1>1, AskedScoped

LEMMA StringScoped ==
    ASSUME Inv, Scoped, phase = "body", NEW dest \in DOMAIN types, NEW left \in Operands,
           NEW right \in Operands, generate_string_arithmetic_add_expression(dest, left, right)
    PROVE  Scoped'
<1> DEFINE names == left.names \cup right.names \cup {User(dest)}
           used == text ++ Use(names)
           null == text ++ Use(names \cup {NULL})
           t1 == text ++ Var(TextLength)
           t2 == t1 ++ Var(Newline)
           t3 == t2 ++ Check(left.names)
           t4 == t3 ++ Use(names)
           t5 == t4 ++ Check({User(dest), Newline})
           asked == When(InBlock(TextLength), "repeated")
<1>1. \/ Crash
      \/ Statement(used, {})
      \/ Statement(text, {})
      \/ Statement(null, {"constant added to itself"})
      \/ Statement(t5, asked)
  BY DEF generate_string_arithmetic_add_expression, Fail, TextLength, Newline
<1>2. Top.fun \in {"list", "expression"}
  BY <1>1 DEF Statement, Emit, Expecting, Crash
<1>3. ASSUME limits = {} PROVE Prints(used)
  <2>1. names \in SUBSET Name /\ names \subseteq Seen(text.blocks, Len(text.blocks))
    BY <1>2, <1>3, OperandsSeen
  <2> HIDE DEF names
  <2> QED BY <1>2, <1>3, <2>1, PrintsUse
<1>4. ASSUME limits = {}, asked = {} PROVE Prints(t5)
  <2> DEFINE B == Front(text.blocks)
             b == Last(text.blocks)
             c == With(b, {TextLength})
             d == With(c, {Newline})
             seen == Seen(text.blocks, Len(text.blocks))
  <2>1. /\ names \in SUBSET Name /\ names \subseteq seen /\ User(dest) \in Name
        /\ left.names \in SUBSET Name /\ left.names \subseteq seen /\ User(dest) \in seen
    BY <1>2, <1>4, OperandsSeen
  <2>2. /\ Sound(text, B, b) /\ b \in Block /\ Grown(b, b) /\ seen \subseteq Readable(B, b)
        /\ text.blocks # << >>
    BY <1>2, <1>4, StatementIs
  <2>3. TextLength \notin b.names
    BY <1>4, <2>2 DEF InBlock, When
  <2>4. Newline \notin b.names
    BY <2>2, <2>3 DEF Grown
  <2>5. /\ TextLength \in Name /\ Newline \in Name /\ TextLength # Newline
        /\ TextLength \in OwnNames /\ Newline \in OwnNames
    <3>1. Own("_copy_loop_var_type_len") \in Name
          /\ Own("_copy_loop_var_type_has_newline") \in Name
      BY OwnOK
    <3>2. Own("_copy_loop_var_type_len") # Own("_copy_loop_var_type_has_newline")
      BY DEF Own
    <3>3. {"_copy_loop_var_type_len", "_copy_loop_var_type_has_newline"} \subseteq Words
      BY DEF Words
    <3> QED BY <3>1, <3>2, <3>3, KindsOfNames DEF TextLength, Newline
  <2> HIDE DEF B, b, seen, names, asked
  <2>6. Sound(t1, B, c) /\ c \in Block /\ c.names = b.names \cup {TextLength} /\ c.if = b.if
        /\ seen \subseteq Readable(B, c)
    <3>1. {TextLength} \in SUBSET Name
      BY <2>5
    <3> QED BY <2>2, <2>3, <2>5, <3>1, VarSound, WithIs, ReadableWith
  <2> HIDE DEF c, t1
  <2>7. Sound(t2, B, d) /\ d \in Block /\ d.names = c.names \cup {Newline} /\ d.if = c.if
        /\ seen \cup {Newline} \subseteq Readable(B, d)
    <3>1. {Newline} \in SUBSET Name /\ Newline \notin c.names
      BY <2>4, <2>5, <2>6
    <3> QED BY <2>5, <2>6, <3>1, VarSound, WithIs, ReadableWith
  <2> HIDE DEF d, t2
  <2>8. Sound(t3, B, d)
    BY <2>1, <2>7, UseSound
  <2> HIDE DEF t3
  <2>9. Sound(t4, B, d)
    BY <2>1, <2>7, <2>8, UseSound
  <2> HIDE DEF t4
  <2>10. Sound(t5, B, d)
    <3>1. {User(dest), Newline} \in SUBSET Name /\ {User(dest), Newline} \subseteq Readable(B, d)
      BY <2>1, <2>5, <2>7
    <3> QED BY <2>9, <3>1, UseSound
  <2>11. Grown(b, d)
    BY <2>2, <2>5, <2>6, <2>7 DEF Grown
  <2> HIDE DEF t5
  <2> QED BY <2>10, <2>11 DEF Prints, B, b
<1> HIDE DEF t5, used, null, asked
<1>5. CASE Crash
  BY <1>5, CrashScoped
<1>6. CASE Statement(used, {})
  BY <1>3, <1>6, StatementScoped DEF Prints
<1>7. CASE Statement(text, {})
  BY <1>7, SameScoped
<1>8. CASE Statement(null, {"constant added to itself"})
  <2>1. {"constant added to itself"} # {}
    OBVIOUS
  <2> QED BY <1>8, <2>1, AskedScoped
<1>9. CASE Statement(t5, asked)
  BY <1>4, <1>9, StatementScoped DEF Prints
<1> QED BY <1>1, <1>5, <1>6, <1>7, <1>8, <1>9

\* Below a loop over the lines of the working file, what a filter reads.
LEMMA LinesSeen ==
    ASSUME Inv, Scoped, phase = "body", limits = {}, Top.fun \in {"list", "expression"}, InLines
    PROVE  {LineLength, FileOf(working)} \subseteq Seen(text.blocks, Len(text.blocks))
<1> DEFINE F == Front(calls)
           bs == text.blocks
           h == InnermostOf({"list"})
<1>1. /\ Frames(calls, bs) /\ Top = Last(calls) /\ Owes(calls) \in Nat /\ Owes(F) \in Nat
      /\ Len(bs) = 1 + Owes(calls) /\ Owes(calls) = Owes(F) + Top.braces /\ Top.braces \in Nat
      /\ calls \in Seq(Frame) /\ F \in Seq(Frame) /\ Clean(text) /\ Stack(calls, {})
  BY BodyIs
<1>2. /\ calls # << >> /\ Len(calls) = Len(F) + 1 /\ Len(F) \in Nat
      /\ DOMAIN calls = 1 .. Len(calls) /\ \A k \in 1 .. Len(calls) - 1 : F[k] = calls[k]
      /\ Top = calls[Len(calls)]
  BY <1>1, StackTop, StackIs, FrontOf
<1>3. Settled(F, bs)
  BY <1>1 DEF Frames
<1>4. /\ h \in 1 .. Len(calls) /\ calls[h].fun \in {"list"}
      /\ \A j \in 1 .. Len(calls) : j > h => calls[j].fun \notin {"list"}
  BY <1>1, InnermostFunction
<1>5. PICK i \in DOMAIN calls : i > h /\ calls[i].fun \in {"calls", "columns"}
  BY DEF InLines
<1> HIDE DEF F, h
<1>6. i \in 1 .. Len(F) /\ F[i] = calls[i]
  <2>1. i # Len(calls)
    BY <1>2, <1>5
  <2>2. i \in 1 .. Len(calls) - 1 /\ Len(calls) - 1 = Len(F)
    BY <1>2, <2>1
  <2> QED BY <1>2, <2>2
<1> DEFINE m == 1 + Owes(SubSeq(F, 1, i - 1))
           n == 1 + Owes(SubSeq(F, 1, i))
           s == SubSeq(F, 1, i)
           w == Working(s)
           f == calls[i]
<1>7. Parked(f) /\ FrameOK(f, w, bs, m, n)
  BY <1>3, <1>6 DEF Settled
<1>8. n \in Nat /\ n <= Len(bs) /\ Len(bs) \in Nat
  <2>1. Owes(SubSeq(F, 1, i)) \in Nat /\ Owes(SubSeq(F, 1, i)) <= Owes(F)
    BY <1>1, <1>6, OwesPrefix
  <2> QED BY <1>1, <2>1
<1>9. Seen(bs, n) \subseteq Seen(bs, Len(bs))
  <2> HIDE DEF n
  <2> QED BY <1>1, <1>8, SeenAll
<1>10. w = working
  <2>1. s \in Seq(Frame) /\ Len(s) = i /\ \A j \in 1 .. i : s[j] = F[j]
    BY <1>1, <1>6, PrefixIs
  <2> HIDE DEF s
  <2>2. DOMAIN s = 1 .. i /\ \A j \in 1 .. i : s[j] = calls[j]
    <3>1. DOMAIN s = 1 .. i
      BY <2>1, LenProperties
    <3>2. \A j \in 1 .. i : j \in 1 .. Len(calls) - 1
      BY <1>2, <1>6
    <3> QED BY <1>2, <2>1, <3>1, <3>2
  <2>3. {j \in DOMAIN s : s[j].fun \in {"list"}} = {j \in DOMAIN calls : calls[j].fun \in {"list"}}
    <3>1. \A j \in DOMAIN calls : calls[j].fun \in {"list"} => j \in 1 .. i
      <4> TAKE j \in DOMAIN calls
      <4> HAVE calls[j].fun \in {"list"}
      <4>1. ~(j > h)
        BY <1>2, <1>4
      <4> QED BY <1>2, <1>4, <1>5, <4>1
    <3>2. 1 .. i \subseteq DOMAIN calls
      BY <1>2, <1>6
    <3> QED BY <2>2, <3>1, <3>2
  <2>4. h = Max({j \in DOMAIN s : s[j].fun \in {"list"}})
    BY <2>3 DEF h, InnermostOf
  <2>5. Working(s) = s[h].working
    BY <2>4 DEF Working
  <2>6. h \in 1 .. i
    BY <1>2, <1>4, <1>5, <1>6
  <2> QED BY <2>2, <2>5, <2>6 DEF working, h
<1> HIDE DEF m, n, w, f
<1>11. {LineLength, FileOf(w)} \subseteq Seen(bs, n)
  <2>1. f.fun \in {"calls", "columns"}
    BY <1>5 DEF f
  <2>2. CASE f.fun = "columns"
    BY <1>7, <2>2 DEF FrameOK
  <2>3. CASE f.fun = "calls"
    <3>1. f.at = 0 /\ f.braces > 0
      BY <1>7, <2>3 DEF Parked
    <3>2. f.braces # 0
      BY <3>1
    <3> QED BY <1>7, <2>3, <3>1, <3>2 DEF FrameOK
  <2> QED BY <2>1, <2>2, <2>3
<1> QED BY <1>9, <1>10, <1>11

LEMMA MethodScoped ==
    ASSUME Inv, Scoped, phase = "body", NEW dest \in DOMAIN types, NEW id \in Mentioned,
           NEW function, generate_variable_assignment_from_function_call(dest, id, function)
    PROVE  Scoped'
<1> DEFINE result == Own("_at_implementation_ret")
           pair == {id, User(dest)}
           copied(t) == IF IsLoop(id) THEN t ++ Use(pair) ELSE t
           f1 == text ++ Use({FileOf(working)})
           f2 == f1 ++ While({LineLength})
           f3 == f2 ++ Use({LineLength, FileOf(working), id})
           f4 == f3 ++ If({id})
           f5 == copied(f4)
           f6 == f5 ++ End
           f7 == f6 ++ End
           s1 == text ++ Use(pair)
           a1 == text ++ Var(result)
           a2 == a1 ++ Check({id})
           a3 == a2 ++ Use({User(dest)})
           lines == When(~InLines, "filter without lines")
           again == When(InBlock(result), "repeated")
<1>1. \/ Statement(f7, lines)
      \/ Statement(copied(s1), {})
      \/ Statement(copied(a3), again)
      \/ Statement(copied(text), {})
  BY DEF generate_variable_assignment_from_function_call
<1>2. Top.fun \in {"list", "expression"}
  BY <1>1 DEF Statement, Emit, Expecting
<1> DEFINE B == Front(text.blocks)
           b == Last(text.blocks)
           seen == Seen(text.blocks, Len(text.blocks))
<1>3. ASSUME limits = {}
      PROVE  /\ Sound(text, B, b) /\ B \in Seq(Block) /\ b \in Block /\ Grown(b, b)
             /\ seen \subseteq Readable(B, b) /\ text.blocks # << >>
             /\ \A if \in BOOLEAN : seen \subseteq Readable(Append(B, b), Fresh(if))
             /\ Number \notin seen
  BY <1>2, <1>3, StatementIs
<1>4. /\ pair \in SUBSET Name /\ {id} \in SUBSET Name /\ {User(dest)} \in SUBSET Name
      /\ {FileOf(working)} \in SUBSET Name /\ {LineLength} \in SUBSET Name
      /\ {LineLength, FileOf(working), id} \in SUBSET Name /\ result \in Name
      /\ result \in OwnNames /\ result # Newline
  <2>1. text \in Text /\ id \in Name /\ User(dest) \in Name /\ working \in Name
    BY MentionedOK
  <2>2. LineLength \in Name /\ result \in Name /\ FileOf(working) \in Name
    BY <2>1, OwnOK, NamesOK
  <2>3. result \in OwnNames /\ result # Newline
    <3>1. "_at_implementation_ret" \in Words
      BY DEF Words
    <3> QED BY <3>1, KindsOfNames DEF Newline
  <2> QED BY <2>1, <2>2, <2>3
<1>5. ASSUME limits = {} PROVE id \in seen /\ User(dest) \in seen
  BY <1>2, <1>5, MentionedSeen DEF Declared
<1>6. ASSUME limits = {}, lines = {} PROVE {LineLength, FileOf(working)} \subseteq seen
  BY <1>2, <1>6, LinesSeen DEF When
<1>7. ASSUME limits = {}, again = {} PROVE result \notin b.names
  BY <1>3, <1>7 DEF When, InBlock
<1> HIDE DEF B, b, seen, result, lines, again
<1>8. ASSUME limits = {}, lines = {} PROVE Prints(f7)
  <2> DEFINE A == Append(B, b)
             C == Append(A, Fresh(FALSE))
             x == Fresh(FALSE)
             y == Fresh(TRUE)
  <2>1. x \in Block /\ y \in Block /\ A \in Seq(Block)
    BY <1>3, <1>8, FreshIs, AppendProperties
  <2>2. seen \subseteq Readable(A, x)
    BY <1>3, <1>8
  <2>3. Sound(f1, B, b)
    BY <1>3, <1>4, <1>6, <1>8, UseSound
  <2> HIDE DEF f1
  <2>4. Sound(f2, A, x)
    BY <1>3, <1>4, <1>6, <1>8, <2>3, OpenSound
  <2> HIDE DEF f2, A, x
  <2>5. Sound(f3, A, x)
    <3>1. {LineLength, FileOf(working), id} \subseteq Readable(A, x)
      BY <1>5, <1>6, <1>8, <2>2
    <3> QED BY <1>4, <2>4, <3>1, UseSound
  <2> HIDE DEF f3
  <2>6. Sound(f4, Append(A, x), y)
    <3>1. {id} \subseteq Readable(A, x)
      BY <1>5, <1>8, <2>2
    <3> QED BY <1>4, <2>5, <3>1, OpenSound
  <2> HIDE DEF f4
  <2>7. Readable(A, x) \ {Number} \subseteq Readable(Append(A, x), y)
    BY <2>1, ReadableFresh
  <2>8. pair \subseteq Readable(Append(A, x), y)
    BY <1>3, <1>5, <1>8, <2>2, <2>7
  <2> HIDE DEF y, pair
  <2>9. Sound(f5, Append(A, x), y)
    BY <1>4, <2>6, <2>8, UseSound
  <2> HIDE DEF f5
  <2>10. Sound(f6, A, x)
    BY <2>1, <2>9, EndSound
  <2> HIDE DEF f6
  <2>11. Sound(f7, B, b)
    BY <1>3, <1>8, <2>10, EndSound DEF A
  <2> HIDE DEF f7
  <2> QED BY <1>3, <1>8, <2>11 DEF Prints, B, b
<1>9. ASSUME limits = {}, NEW t, Prints(t) PROVE Prints(copied(t))
  <2>1. PICK c : Sound(t, B, c) /\ Grown(b, c)
    BY <1>9 DEF Prints, B, b
  <2>2. pair \subseteq seen
    BY <1>5, <1>9
  <2>3. seen \subseteq Readable(B, c)
    <3>1. Number \notin seen /\ seen \subseteq Readable(B, b)
      BY <1>3, <1>9
    <3>2. b.names \subseteq c.names
      BY <2>1 DEF Grown
    <3> QED BY <3>1, <3>2 DEF Readable
  <2> HIDE DEF pair
  <2>4. Sound(t ++ Use(pair), B, c)
    BY <1>4, <2>1, <2>2, <2>3, UseSound
  <2> QED BY <1>9, <2>1, <2>4 DEF Prints, B, b
<1>10. ASSUME limits = {} PROVE Prints(text) /\ Prints(s1)
  <2>1. pair \subseteq seen
    BY <1>5, <1>10
  <2> HIDE DEF pair
  <2> QED BY <1>2, <1>4, <1>10, <2>1, PrintsUse DEF seen
<1>11. ASSUME limits = {}, again = {} PROVE Prints(a3)
  <2> DEFINE c == With(b, {result})
  <2>1. {result} \in SUBSET Name
    BY <1>4
  <2>2. Sound(a1, B, c) /\ seen \subseteq Readable(B, c) /\ Grown(b, c)
    <3>1. seen \subseteq Readable(B, c)
      BY <1>3, <1>11, <2>1, ReadableWith
    <3> QED BY <1>3, <1>4, <1>7, <1>11, <3>1, VarSound, GrownWith
  <2> HIDE DEF c, a1
  <2>3. Sound(a2, B, c)
    BY <1>4, <1>5, <1>11, <2>2, UseSound
  <2> HIDE DEF a2
  <2>4. Sound(a3, B, c)
    BY <1>4, <1>5, <1>11, <2>2, <2>3, UseSound
  <2> HIDE DEF a3
  <2> QED BY <2>2, <2>4 DEF Prints, B, b
<1> HIDE DEF f7, s1, a3, copied
<1>12. CASE Statement(f7, lines)
  BY <1>8, <1>12, StatementScoped DEF Prints
<1>13. CASE Statement(copied(s1), {})
  BY <1>9, <1>10, <1>13, StatementScoped DEF Prints
<1>14. CASE Statement(copied(a3), again)
  BY <1>9, <1>11, <1>14, StatementScoped DEF Prints
<1>15. CASE Statement(copied(text), {})
  BY <1>9, <1>10, <1>15, StatementScoped DEF Prints
<1> QED BY <1>1, <1>12, <1>13, <1>14, <1>15

LEMMA AssignmentScoped ==
    ASSUME Inv, Scoped, phase = "body", NEW form, Assignment(form) PROVE Scoped'
<1>1. PICK dest \in DOMAIN types :
        \/ generate_variable_assignment_to_constant(dest)
        \/ \E source \in Mentioned : generate_variable_assignment_to_variable(dest, source)
        \/ \E left, right \in Operands :
              \/ generate_number_arithmetic(dest, left, right)
              \/ generate_number_arithmetic_mul_with_file(dest, left, right)
              \/ generate_string_arithmetic_add_expression(dest, left, right)
        \/ \E id \in Mentioned, function \in {"filter", "toString", "at", "lines"} :
              generate_variable_assignment_from_function_call(dest, id, function)
  BY DEF Assignment
<1>2. CASE generate_variable_assignment_to_constant(dest)
  BY <1>2, ConstantScoped
<1>3. CASE \E source \in Mentioned : generate_variable_assignment_to_variable(dest, source)
  BY <1>3, VariableScoped
<1>4. ASSUME NEW left \in Operands, NEW right \in Operands,
             \/ generate_number_arithmetic(dest, left, right)
             \/ generate_number_arithmetic_mul_with_file(dest, left, right)
             \/ generate_string_arithmetic_add_expression(dest, left, right)
      PROVE  Scoped'
  BY <1>4, ArithmeticScoped, FileTimesNumberScoped, StringScoped
<1>5. ASSUME NEW id \in Mentioned, NEW function \in {"filter", "toString", "at", "lines"},
             generate_variable_assignment_from_function_call(dest, id, function)
      PROVE  Scoped'
  BY <1>5, MethodScoped
<1> QED BY <1>1, <1>2, <1>3, <1>4, <1>5

---------------------------------------------------------------------------
(* Declarations. *)

\* What the functions of a stack owe and work on does not depend on frees.
LEMMA SameShape ==
    ASSUME NEW u \in Seq(Frame), NEW v \in Seq(Frame), Len(u) = Len(v),
           \A i \in 1 .. Len(u) : /\ u[i].fun = v[i].fun /\ u[i].braces = v[i].braces
                                  /\ u[i].working = v[i].working
    PROVE  /\ Owes(u) = Owes(v)
           /\ u # << >> /\ u[1].fun = "list" => Working(u) = Working(v)
<1> DEFINE L(s) == {i \in DOMAIN s : s[i].fun \in {"list"}}
<1>1. DOMAIN u = 1 .. Len(u) /\ DOMAIN v = 1 .. Len(u) /\ Len(u) \in Nat
  BY LenProperties
<1>2. Owed(u) = Owed(v)
  BY <1>1 DEF Owed
<1>3. L(u) = L(v)
  BY <1>1
<1>4. Working(u) = u[Max(L(u))].working /\ Working(v) = v[Max(L(v))].working
  BY DEF Working
<1>5. ASSUME u # << >>, u[1].fun = "list" PROVE Working(u) = Working(v)
  <2>1. Len(u) \in Nat \ {0}
    BY <1>5, FrontOf
  <2>2. 1 \in L(u) /\ L(u) \subseteq 1 .. Len(u) /\ 1 \in Int /\ Len(u) \in Int
    BY <1>1, <1>5, <2>1
  <2> HIDE DEF L
  <2>3. IsFiniteSet(1 .. Len(u))
    BY <2>2, FS_Interval
  <2>4. IsFiniteSet(L(u)) /\ L(u) \in SUBSET Nat /\ L(u) # {}
    BY <2>2, <2>3, FS_Subset
  <2>5. Max(L(u)) \in 1 .. Len(u)
    BY <2>2, <2>4, MaxIsGreatest
  <2> QED BY <1>3, <1>4, <2>5
<1> QED BY <1>2, <1>5 DEF Owes

\* A list frees more of what the function declares.
LEMMA SettledFrees ==
    ASSUME NEW r \in Seq(Frame), r # << >>, r[1].fun = "list", NEW bs, Settled(r, bs),
           NEW h \in 1 .. Len(r), r[h].fun = "list", NEW frees \in Seq(Name),
           Range(frees) \subseteq Seen(bs, 1)
    PROVE  Settled([r EXCEPT ![h].frees = frees], bs)
<1> DEFINE g == [r[h] EXCEPT !.frees = frees]
           s == [r EXCEPT ![h].frees = frees]
<1>1. Len(r) \in Nat /\ DOMAIN r = 1 .. Len(r) /\ r[h] \in Frame
  BY LenProperties, ElementOfSeq
<1>2. /\ g \in Frame /\ g.fun = r[h].fun /\ g.braces = r[h].braces /\ g.at = r[h].at
      /\ g.working = r[h].working /\ g.frees = frees
  <2>1. /\ g \in Frame /\ g.fun = r[h].fun /\ g.braces = r[h].braces /\ g.at = r[h].at
    BY <1>1, FreesIs
  <2>2. g.working = r[h].working /\ g.frees = frees
    BY <1>1 DEF Frame
  <2> QED BY <2>1, <2>2
<1>3. s = [r EXCEPT ![h] = g]
  BY <1>1
<1> HIDE DEF g, s
<1>4. /\ s \in Seq(Frame) /\ Len(s) = Len(r) /\ s[h] = g
      /\ \A i \in 1 .. Len(r) : i # h => s[i] = r[i]
  BY <1>1, <1>2, <1>3, ExceptSeq
<1> SUFFICES ASSUME NEW i \in 1 .. Len(r)
             PROVE  /\ Parked(s[i])
                    /\ FrameOK(s[i], Working(SubSeq(s, 1, i)), bs,
                               1 + Owes(SubSeq(s, 1, i - 1)), 1 + Owes(SubSeq(s, 1, i)))
  BY <1>4 DEF Settled, s
<1> DEFINE a == SubSeq(r, 1, i)
           b == SubSeq(r, 1, i - 1)
           x == SubSeq(s, 1, i)
           y == SubSeq(s, 1, i - 1)
<1>5. /\ a \in Seq(Frame) /\ b \in Seq(Frame) /\ Len(a) = i /\ \A j \in 1 .. i : a[j] = r[j]
      /\ a = Append(b, r[i]) /\ r[i] \in Frame
  BY PrefixIs
<1>6. /\ x \in Seq(Frame) /\ y \in Seq(Frame) /\ Len(x) = i /\ \A j \in 1 .. i : x[j] = s[j]
      /\ x = Append(y, s[i]) /\ s[i] \in Frame
  BY <1>4, PrefixIs
<1>7. /\ Owes(a) \in Nat /\ Owes(b) \in Nat /\ Owes(a) = Owes(b) + r[i].braces
  BY OwesPrefix
<1>8. /\ Owes(x) \in Nat /\ Owes(y) \in Nat /\ Owes(x) = Owes(y) + s[i].braces
  BY <1>4, OwesPrefix
<1>9. Parked(r[i]) /\ FrameOK(r[i], Working(a), bs, 1 + Owes(b), 1 + Owes(a))
  BY DEF Settled
<1> HIDE DEF a, b, x, y
<1>10. \A j \in 1 .. Len(r) : /\ s[j].fun = r[j].fun /\ s[j].braces = r[j].braces
                              /\ s[j].working = r[j].working
  BY <1>2, <1>4
<1>11. Owes(x) = Owes(a) /\ Working(x) = Working(a)
  <2>1. \A j \in 1 .. i : j \in 1 .. Len(r)
    BY <1>1
  <2>2. \A j \in 1 .. Len(x) : /\ x[j].fun = a[j].fun /\ x[j].braces = a[j].braces
                               /\ x[j].working = a[j].working
    BY <1>5, <1>6, <1>10, <2>1
  <2>3. x # << >> /\ x[1].fun = "list"
    <3>1. 1 \in 1 .. i /\ i # 0
      BY <1>1
    <3>2. x # << >>
      BY <1>6, <3>1, EmptySeq
    <3> QED BY <1>6, <1>10, <2>1, <3>1, <3>2
  <2>4. x \in Seq(Frame) /\ a \in Seq(Frame) /\ Len(x) = Len(a)
    BY <1>5, <1>6
  <2>5. Owes(x) = Owes(a) /\ (x # << >> /\ x[1].fun = "list" => Working(x) = Working(a))
    BY <2>2, <2>4, SameShape
  <2> QED BY <2>3, <2>5
<1>12. Owes(y) = Owes(b)
  <2>1. s[i].braces = r[i].braces /\ r[i].braces \in Nat
    BY <1>5, <1>10 DEF Frame
  <2> QED BY <1>7, <1>8, <1>11, <2>1
<1>13. FrameOK(s[i], Working(a), bs, 1 + Owes(b), 1 + Owes(a)) /\ Parked(s[i])
  <2>1. CASE i # h
    BY <1>4, <1>9, <2>1
  <2>2. CASE i = h
    <3>1. Seen(bs, 1) \subseteq Seen(bs, 1 + Owes(b))
      <4>1. 1 .. 1 \subseteq 1 .. 1 + Owes(b)
        BY <1>7
      <4> QED BY <4>1 DEF Seen
    <3>2. s[i].fun = "list" /\ s[i].frees = frees /\ s[i].working = r[i].working
      BY <1>2, <1>4, <2>2
    <3>3. r[i].fun = "list"
      BY <2>2
    <3>4. {r[i].working} \ {NULL} \subseteq Seen(bs, 1 + Owes(b))
      BY <1>9, <3>3 DEF FrameOK
    <3> QED BY <3>1, <3>2, <3>4 DEF FrameOK, Parked
  <2> QED BY <2>1, <2>2
<1> QED BY <1>11, <1>12, <1>13 DEF x, y

LEMMA RangeAppend ==
    ASSUME NEW S, NEW s \in Seq(S), NEW x \in S
    PROVE  Range(Append(s, x)) = Range(s) \cup {x}
<1> DEFINE a == Append(s, x)
           n == Len(s)
<1>1. /\ a \in Seq(S) /\ Len(a) = n + 1 /\ a[n + 1] = x
      /\ \A i \in 1 .. n : a[i] = s[i]
  BY AppendProperties
<1>2. DOMAIN a = 1 .. n + 1 /\ DOMAIN s = 1 .. n /\ n \in Nat
  BY <1>1, LenProperties
<1> HIDE DEF a, n
<1>3. DOMAIN a = DOMAIN s \cup {n + 1}
  BY <1>2
<1>4. Range(a) = Range(s) \cup {x}
  BY <1>1, <1>2, <1>3 DEF Range
<1> QED BY <1>4 DEF a

\* A declaration within the limits stands in the function's own block.
LEMMA DeclareIs ==
    ASSUME Inv, Scoped, phase = "body", limits = {}, Top.fun \in {"list", "expression"},
           NEW name \in Identifiers, name \notin Known,
           \A i \in DOMAIN calls : ~(calls[i].braces > 0), calls[FreesHolder].fun = "list"
    PROVE  LET b == Last(text.blocks)
               c == With(b, {User(name)})
           IN  /\ Sound(text, << >>, b) /\ Front(text.blocks) = << >>
               /\ text.blocks[1] = b /\ b \in Block
               /\ User(name) \notin b.names /\ User(name) \in Name
               /\ Owes(calls) = 0 /\ Len(text.blocks) = 1
               /\ Range(FreesWith(name)) \subseteq Seen(text.blocks, 1) \cup {User(name)}
               /\ {User(name)} \cup Range(FreesWith(name)) \subseteq Readable(<< >>, c)
<1> DEFINE bs == text.blocks
           b == Last(bs)
           c == With(b, {User(name)})
           h == FreesHolder
<1>1. /\ Sound(text, Front(bs), b) /\ Stack(calls, {}) /\ calls \in Seq(Frame)
      /\ Len(bs) = 1 + Owes(calls) /\ Clean(text)
      /\ bs[1].names \cap UserIds = {User(x) : x \in Known}
  BY BodyIs
<1>2. Owes(calls) = 0
  <2>1. \A i \in DOMAIN calls : calls[i].braces = 0
    <3> TAKE i \in DOMAIN calls
    <3>1. calls[i] \in Frame
      BY <1>1, ElementOfSeq, LenProperties
    <3>2. calls[i].braces \in Nat /\ ~(calls[i].braces > 0)
      BY <3>1 DEF Frame
    <3> QED BY <3>2
  <2>2. \A i \in DOMAIN calls : {i} \X (1 .. calls[i].braces) = {}
    <3> TAKE i \in DOMAIN calls
    <3>1. 1 .. calls[i].braces = {}
      BY <2>1
    <3> QED BY <3>1
  <2>3. Owed(calls) = {}
    BY <2>2 DEF Owed
  <2> QED BY <2>3, FS_EmptySet DEF Owes
<1>3. Len(bs) = 1
  BY <1>1, <1>2
<1>4. Front(bs) = << >> /\ bs[1] = b /\ b \in Block
  <2>1. bs \in Seq(Block) /\ bs # << >>
    BY <1>1 DEF Clean, Text
  <2> HIDE DEF bs
  <2>2. /\ Front(bs) \in Seq(Block) /\ Len(Front(bs)) = Len(bs) - 1
        /\ Last(bs) = bs[Len(bs)] /\ Last(bs) \in Block
    BY <2>1, FrontOf
  <2>3. Len(Front(bs)) = 0 /\ Last(bs) = bs[1]
    BY <1>3, <2>2
  <2>4. Front(bs) = << >>
    BY <2>2, <2>3, EmptySeq
  <2> QED BY <2>2, <2>3, <2>4
<1>5. Sound(text, << >>, b)
  BY <1>1, <1>4
<1>6. User(name) \in Name /\ User(name) \in UserIds
  BY NamesOK DEF UserIds
<1>7. User(name) \notin b.names
  <2>1. User(name) \notin {User(x) : x \in Known}
    BY DEF User
  <2> QED BY <1>1, <1>4, <1>6, <2>1
<1>8. Range(FreesWith(name)) \subseteq Seen(bs, 1) \cup {User(name)}
  <2>1. /\ Settled(Returned, bs) /\ Returned \in Seq(Frame) /\ Owes(Returned) = 0
    BY <1>2, ReturnedSettled
  <2>2. h \in 1 .. Len(Returned) /\ h \in 1 .. Len(calls) /\ calls[h] \in Frame
    BY <1>1, HolderOK
  <2>3. Returned[h].frees = calls[h].frees /\ Returned[h].fun = "list"
    <3>1. /\ calls # << >> /\ Front(calls) \in Seq(Frame) /\ Top \in Frame
          /\ Len(Front(calls)) = Len(calls) - 1 /\ Len(calls) \in Nat \ {0}
          /\ \A i \in 1 .. Len(calls) - 1 : Front(calls)[i] = calls[i]
          /\ Top = calls[Len(calls)]
      BY <1>1, StackTop, FrontOf DEF Top
    <3>2. CASE Top.fun = "expression"
      <4>1. Returned = Front(calls)
        BY <3>2 DEF Returned
      <4>2. h \in 1 .. Len(calls) - 1
        BY <2>2, <3>1, <4>1
      <4> QED BY <3>1, <4>1, <4>2
    <3>3. CASE Top.fun = "list"
      <4> DEFINE g == [Top EXCEPT !.done = TRUE]
      <4>1. Returned = Append(Front(calls), g)
        BY <3>3 DEF Returned, SetTop
      <4>2. g \in Frame /\ g.fun = Top.fun /\ g.frees = Top.frees
        BY <3>1, DoneIs, DoneFrame
      <4> HIDE DEF g, h
      <4>3. /\ \A i \in 1 .. Len(calls) - 1 : Append(Front(calls), g)[i] = Front(calls)[i]
            /\ Append(Front(calls), g)[Len(calls)] = g
        <5> DEFINE F == Front(calls)
        <5>1. F \in Seq(Frame) /\ Len(F) = Len(calls) - 1
          BY <3>1
        <5> HIDE DEF F
        <5>2. /\ \A i \in 1 .. Len(F) : Append(F, g)[i] = F[i]
              /\ Append(F, g)[Len(F) + 1] = g
          BY <4>2, <5>1, OnTop
        <5>3. Len(F) + 1 = Len(calls)
          BY <3>1, <5>1
        <5> QED BY <5>1, <5>2, <5>3 DEF F
      <4>4. h = Len(calls) \/ h \in 1 .. Len(calls) - 1
        BY <2>2, <3>1
      <4> QED BY <3>1, <4>1, <4>2, <4>3, <4>4 DEF h
    <3> QED BY <3>2, <3>3
  <2>4. Range(calls[h].frees) \subseteq Seen(bs, 1)
    <3> DEFINE m == Owes(SubSeq(Returned, 1, h - 1))
               w == Working(SubSeq(Returned, 1, h))
               k == Owes(SubSeq(Returned, 1, h))
    <3>1. FrameOK(Returned[h], w, bs, 1 + m, 1 + k)
      BY <2>1, <2>2 DEF Settled
    <3>2. m = 0
      <4>1. m \in Nat /\ k = m + Returned[h].braces /\ k <= Owes(Returned)
        BY <2>1, <2>2, OwesPrefix
      <4>2. Returned[h] \in Frame
        BY <2>1, <2>2, ElementOfSeq
      <4>3. Returned[h].braces \in Nat
        BY <4>2 DEF Frame
      <4> HIDE DEF m, k, h
      <4> QED BY <2>1, <4>1, <4>3
    <3> HIDE DEF m, w, k
    <3>3. 1 + m = 1
      BY <3>2
    <3> QED BY <2>3, <3>1, <3>3 DEF FrameOK
  <2>5. calls[h].frees \in Seq(Name)
    BY <2>2 DEF Frame
  <2> DEFINE f == calls[h].frees
  <2>6. FreesWith(name) = Append(f, User(name))
    BY DEF FreesWith
  <2> HIDE DEF f, h
  <2>7. Range(Append(f, User(name))) = Range(f) \cup {User(name)}
    BY <1>6, <2>5, RangeAppend DEF f, h
  <2> QED BY <2>4, <2>6, <2>7 DEF f, h
<1>9. {User(name)} \cup Range(FreesWith(name)) \subseteq Readable(<< >>, c)
  <2>1. Seen(bs, 1) \subseteq Readable(<< >>, b)
    BY <1>1, <1>3, <1>4, SeenAll
  <2>2. {User(name)} \in SUBSET Name
    BY <1>6
  <2>3. Readable(<< >>, b) \cup {User(name)} \subseteq Readable(<< >>, c)
    BY <1>4, <2>2, ReadableWith
  <2> QED BY <1>8, <2>1, <2>3
<1> QED BY <1>2, <1>3, <1>4, <1>5, <1>6, <1>7, <1>8, <1>9

LEMMA DeclareScoped ==
    ASSUME Inv, Scoped, phase = "body", NEW name \in Identifiers, NEW type, NEW t,
           Declare(name, type, t),
           limits' = {} => Sound(t, << >>, With(Last(text.blocks), {User(name)}))
    PROVE  Scoped'
<1>1. /\ Top.fun \in {"list", "expression"} /\ name \notin DOMAIN types
      /\ DOMAIN types' = DOMAIN types \cup {name} /\ UNCHANGED <<params, phase>>
      /\ calls[FreesHolder].fun # "list" =>
            limits' = limits \cup {"declared in a branch"}
      /\ calls[FreesHolder].fun = "list" =>
            /\ text' = t
            /\ calls' = [Returned EXCEPT ![FreesHolder].frees = FreesWith(name)]
            /\ limits' = limits
                 \cup When(\E i \in DOMAIN calls : calls[i].braces > 0, "declared in a block")
                 \cup When(name \in Range(params), "declared parameter")
  BY DEF Declare, Expecting
<1> SUFFICES ASSUME limits' = {} PROVE Scoped'
  BY DEF Scoped
<1>2. /\ limits = {} /\ calls[FreesHolder].fun = "list" /\ name \notin Known
      /\ \A i \in DOMAIN calls : ~(calls[i].braces > 0)
  <2>1. calls[FreesHolder].fun = "list"
    BY <1>1
  <2>2. /\ limits = {}
        /\ When(\E i \in DOMAIN calls : calls[i].braces > 0, "declared in a block") = {}
        /\ When(name \in Range(params), "declared parameter") = {}
    BY <1>1, <2>1
  <2>3. name \notin Range(params)
    BY <2>2 DEF When
  <2>4. ~ \E i \in DOMAIN calls : calls[i].braces > 0
    BY <2>2 DEF When
  <2> QED BY <1>1, <2>1, <2>2, <2>3, <2>4 DEF Known
<1> DEFINE bs == text.blocks
           b == Last(bs)
           c == With(b, {User(name)})
           v == t.blocks
           r == Returned
           h == FreesHolder
           frees == FreesWith(name)
           s == [r EXCEPT ![h].frees = frees]
<1>3. /\ Sound(text, << >>, b) /\ bs[1] = b /\ b \in Block /\ User(name) \in Name
      /\ Owes(calls) = 0 /\ Len(bs) = 1 /\ Range(frees) \subseteq Seen(bs, 1) \cup {User(name)}
  BY <1>1, <1>2, DeclareIs
<1>4. Sound(t, << >>, c)
  OBVIOUS
<1>5. /\ c.names = b.names \cup {User(name)} /\ c.if = b.if /\ c \in Block
  <2>1. {User(name)} \in SUBSET Name
    BY <1>3
  <2> HIDE DEF b
  <2> QED BY <1>3, <2>1, WithIs
<1>6. /\ Clean(t) /\ Tidy(text) /\ bs[1].names \cap UserIds = {User(x) : x \in Known}
      /\ Stack(calls, {})
  BY <1>2, <1>4, SoundClean, BodyIs
<1>7. /\ Len(v) = 1 /\ v[1] = c /\ DOMAIN v = 1 .. 1 /\ DOMAIN bs = 1 .. 1
  <2>1. /\ Len(v) = Len(<< >>) + 1 /\ v[Len(<< >>) + 1] = c /\ DOMAIN v = 1 .. Len(<< >>) + 1
    BY <1>4, SoundIs
  <2>2. DOMAIN bs = 1 .. Len(<< >>) + 1
    BY <1>3, SoundIs
  <2>3. Len(<< >>) = 0
    BY EmptySeq
  <2> QED BY <2>1, <2>2, <2>3
<1>8. /\ Settled(r, bs) /\ r \in Seq(Frame) /\ r # << >> /\ Owes(r) = 0 /\ Stack(r, {})
  BY <1>1, <1>2, <1>3, ReturnedSettled
<1>9. h \in 1 .. Len(r) /\ r[h].fun = "list" /\ frees \in Seq(Name)
  <2>1. h \in 1 .. Len(r) /\ frees \in Seq(Name)
    BY <1>1, <1>6, HolderOK, FreesWithOK
  <2>2. r[h].fun = calls[h].fun
    <3>1. /\ calls # << >> /\ calls \in Seq(Frame) /\ Top \in Frame
          /\ Front(calls) \in Seq(Frame)
          /\ Len(Front(calls)) = Len(calls) - 1 /\ Len(calls) \in Nat \ {0}
          /\ \A i \in 1 .. Len(calls) - 1 : Front(calls)[i] = calls[i]
          /\ Top = calls[Len(calls)]
      BY <1>6, StackTop, FrontOf DEF Top
    <3>2. CASE Top.fun = "expression"
      <4>1. r = Front(calls)
        BY <3>2 DEF Returned
      <4> HIDE DEF r, h
      <4>2. h \in 1 .. Len(calls) - 1
        BY <2>1, <3>1, <4>1
      <4> QED BY <3>1, <4>1, <4>2
    <3>3. CASE Top.fun = "list"
      <4> DEFINE g == [Top EXCEPT !.done = TRUE]
                 F == Front(calls)
      <4>1. r = Append(F, g)
        BY <3>3 DEF Returned, SetTop
      <4>2. g \in Frame /\ g.fun = Top.fun
        BY <3>1, DoneIs
      <4>3. F \in Seq(Frame) /\ Len(F) = Len(calls) - 1
            /\ \A i \in 1 .. Len(calls) - 1 : F[i] = calls[i]
        BY <3>1
      <4> HIDE DEF g, h, r, F
      <4>4. /\ \A i \in 1 .. Len(F) : Append(F, g)[i] = F[i]
            /\ Append(F, g)[Len(F) + 1] = g /\ Len(Append(F, g)) = Len(F) + 1
        BY <4>2, <4>3, OnTop
      <4>5. Len(F) + 1 = Len(calls)
        BY <3>1, <4>3
      <4>6. h = Len(calls) \/ h \in 1 .. Len(calls) - 1
        BY <2>1, <3>1, <4>1, <4>4, <4>5
      <4> QED BY <3>1, <4>1, <4>2, <4>3, <4>4, <4>5, <4>6
    <3> QED BY <1>1, <3>2, <3>3
  <2> QED BY <1>2, <2>1, <2>2
<1>10. text' = t /\ calls' = s
  BY <1>1, <1>2
<1>11. Known' = Known \cup {name}
  BY <1>1 DEF Known
<1> HIDE DEF bs, b, c, v, r, h, frees
<1>12. Kept(bs, v, 1)
  <2>1. \A j \in 1 .. 1 - 1 : v[j] = bs[j]
    OBVIOUS
  <2> QED BY <1>3, <1>5, <1>7, <2>1 DEF Kept
<1>13. Settled(r, v)
  <2>1. 1 + Owes(r) = 1
    BY <1>8
  <2> QED BY <1>8, <1>12, <2>1, SettledKept
<1>14. Settled(s, v)
  <2>1. User(name) \in Seen(v, 1)
    <3>1. User(name) \in v[1].names
      BY <1>5, <1>7
    <3>2. User(name) # Number
      BY KindsOfNames DEF Number
    <3> QED BY <3>1, <3>2 DEF Seen
  <2>2. Seen(bs, 1) \subseteq Seen(v, 1)
    BY <1>12, SeenKept
  <2>3. Range(frees) \subseteq Seen(v, 1)
    BY <1>3, <2>1, <2>2
  <2>4. r[1].fun = "list"
    BY <1>8 DEF Stack
  <2> QED BY <1>8, <1>9, <1>13, <2>3, <2>4, SettledFrees
<1>15. Stack(s, {}) /\ Owes(s) = Owes(r)
  BY <1>8, <1>9, FreesStack
<1> HIDE DEF s
<1>16. Frames(s, v)
  <2>1. Kept(v, v, 1 + Owes(s))
    <3>1. 1 + Owes(s) = 1
      BY <1>8, <1>15
    <3>2. Kept(v, v, 1)
      BY <1>7 DEF Kept
    <3> QED BY <3>1, <3>2
  <2>2. s \in Seq(Frame) /\ s # << >>
    BY <1>15 DEF Stack
  <2> QED BY <1>14, <2>1, <2>2, FramesStay
<1>17. Tidy(t)
  <2>1. User(name) # Newline /\ User(name) # TextLength
    BY KindsOfNames DEF Newline, TextLength
  <2>2. Newline \in bs[1].names => TextLength \in bs[1].names
    BY <1>6, <1>7 DEF Tidy, bs
  <2>3. Newline \in c.names => TextLength \in c.names
    BY <1>3, <1>5, <2>1, <2>2
  <2> QED BY <1>7, <2>3 DEF Tidy, v
<1>18. v[1].names \cap UserIds = {User(x) : x \in Known'}
  <2>1. User(name) \in UserIds
    BY DEF UserIds
  <2>2. v[1].names \cap UserIds = (bs[1].names \cap UserIds) \cup {User(name)}
    BY <1>3, <1>5, <1>7, <2>1
  <2> QED BY <1>6, <1>11, <2>2
<1>19. t.errors = {} /\ Len(params') <= 1
  BY <1>1, <1>2, <1>6 DEF Clean, Scoped
<1>20. text' = t /\ text'.blocks = v /\ calls' = s /\ phase' = "body"
  BY <1>1, <1>10 DEF v
<1>21. Clean(text)' /\ Tidy(text)' /\ Frames(calls, text.blocks)'
  BY <1>6, <1>16, <1>17, <1>20 DEF Clean, Tidy
<1> QED BY <1>18, <1>19, <1>20, <1>21 DEF Scoped

LEMMA DeclarationScoped ==
    ASSUME Inv, Scoped, phase = "body", Top.fun \in {"list", "expression"}, NEW form,
           Declaration(form)
    PROVE  Scoped'
<1>1. PICK name \in scale.names :
        \/ generate_variable(name)
        \/ \E path \in {"file", "directory", "", "STDOUT"} : generate_variable_file(name, path)
  BY DEF Declaration
<1>2. name \in Identifiers
  <2>1. scale \in Scale
    BY ScalesAssumption DEF Inv, TypeOK
  <2> QED BY <2>1 DEF Scale
<1> DEFINE b == Last(text.blocks)
           c == With(b, {User(name)})
           names == {User(name)} \cup Range(FreesWith(name))
           t == Allocated(text, User(name))
           use == Use({User(name)})
           check == Check(names)
           own == Check({User(name)})
           Good(u) == Sound(u, << >>, c)
           v1 == t ++ use
           v2 == t ++ check ++ use
           v3 == t ++ use ++ own
           v4 == t ++ check
           Within == /\ limits = {} /\ calls[FreesHolder].fun = "list" /\ name \notin Known
                     /\ \A i \in DOMAIN calls : ~(calls[i].braces > 0)
<1>3. ASSUME Within PROVE \A u \in {v1, v2, v3, v4, t} : Good(u)
  <2>1. /\ Sound(text, << >>, b) /\ User(name) \notin b.names /\ User(name) \in Name
        /\ names \subseteq Readable(<< >>, c)
    BY <1>2, <1>3, DeclareIs
  <2>2. names \in SUBSET Name /\ {User(name)} \in SUBSET Name /\ {User(name)} \subseteq names
    BY <1>2, FreesWithOK
  <2> HIDE DEF b
  <2>3. Sound(t, << >>, c)
    BY <2>1, AllocatedSound
  <2> HIDE DEF c, t, names
  <2>4. \A u : Sound(u, << >>, c) =>
          /\ Sound(u ++ use, << >>, c) /\ Sound(u ++ check, << >>, c)
          /\ Sound(u ++ own, << >>, c)
    BY <2>1, <2>2, UseSound
  <2> HIDE DEF use, check, own
  <2> QED BY <2>3, <2>4
<1>4. ASSUME NEW type, NEW u, Declare(name, type, u), u \in {v1, v2, v3, v4, t} PROVE Scoped'
  <2>1. ASSUME limits' = {} PROVE Within
    <3>1. /\ name \notin DOMAIN types
          /\ calls[FreesHolder].fun # "list" =>
                limits' = limits \cup {"declared in a branch"}
          /\ calls[FreesHolder].fun = "list" =>
                limits' = limits
                 \cup When(\E i \in DOMAIN calls : calls[i].braces > 0, "declared in a block")
                 \cup When(name \in Range(params), "declared parameter")
      BY <1>4 DEF Declare
    <3>2. calls[FreesHolder].fun = "list"
      BY <2>1, <3>1
    <3>3. /\ limits = {}
          /\ When(\E i \in DOMAIN calls : calls[i].braces > 0, "declared in a block") = {}
          /\ When(name \in Range(params), "declared parameter") = {}
      BY <2>1, <3>1, <3>2
    <3>4. name \notin Range(params)
      BY <3>3 DEF When
    <3>5. ~ \E i \in DOMAIN calls : calls[i].braces > 0
      BY <3>3 DEF When
    <3> QED BY <3>1, <3>2, <3>3, <3>4, <3>5 DEF Known
  <2> HIDE DEF v1, v2, v3, v4, t, Within
  <2>2. limits' = {} => Good(u)
    BY <1>3, <1>4, <2>1
  <2> QED BY <1>2, <1>4, <2>2, DeclareScoped
<1>5. CASE generate_variable(name)
  <2>1. \E type \in {"string", "number"} : Declare(name, type, v1)
    BY <1>5 DEF generate_variable
  <2> HIDE DEF v1
  <2> QED BY <1>4, <2>1
<1>6. ASSUME NEW path \in {"file", "directory", "", "STDOUT"}, generate_variable_file(name, path)
      PROVE  Scoped'
  <2> DEFINE u == CASE name \in InputNames /\ path = "directory" -> t ++ use
                    [] name \in InputNames /\ path # "directory" -> t ++ check ++ use
                    [] name \in OutputNames /\ path = "" -> t ++ use ++ Check({User(name)})
                    [] name \in OutputNames /\ path = "STDOUT" -> t ++ use
                    [] name \in OutputNames /\ path \notin {"", "STDOUT"} -> t ++ check
                    [] OTHER -> t
  <2>1. Declare(name, "file", u)
    BY <1>6 DEF generate_variable_file
  <2>2. u \in {v1, v2, v3, v4, t}
    <3> HIDE DEF use, check, own, t
    <3> QED BY DEF own
  <2> HIDE DEF u
  <2> QED BY <1>4, <2>1, <2>2
<1> QED BY <1>1, <1>5, <1>6

---------------------------------------------------------------------------
(* Expressions that call functions. *)

LEMMA WithScoped ==
    ASSUME Inv, Scoped, phase = "body", NEW name \in DOMAIN types,
           generate_expressions_list_with_file(name)
    PROVE  Scoped'
<1> DEFINE g == [Call("list") EXCEPT !.working = User(name)]
           n == Len(text.blocks)
<1>1. CASE types[name] = "file"
  <2>1. Emit(text, <<g>>, {}) /\ UNCHANGED types
    BY <1>1 DEF generate_expressions_list_with_file
  <2>2. User(name) \in Name
    BY MentionedOK
  <2>3. g \in Frame /\ g.fun = "list" /\ g.braces = 0
    BY <2>2, CalledOK
  <2>4. g.working = User(name) /\ g.frees = << >>
    BY DEF Call
  <2> HIDE DEF g
  <2>5. Top.fun \in {"list", "expression"}
    BY <2>1 DEF Emit, Expecting
  <2>6. ASSUME limits = {}
        PROVE  Over(text, text, n) /\ FrameOK(g, g.working, text.blocks, n, n + g.braces)
    <3>1. /\ Clean(text) /\ Tidy(text) /\ Sound(text, Front(text.blocks), Last(text.blocks))
          /\ Grown(Last(text.blocks), Last(text.blocks))
      BY <2>5, <2>6, BodyIs, StatementIs
    <3>2. Over(text, text, n)
      BY <3>1, OverFlat
    <3>3. User(name) \in Seen(text.blocks, n)
      BY <2>5, <2>6, MentionedSeen DEF Declared
    <3>4. Range(g.frees) = {}
      BY <2>4 DEF Range
    <3> QED BY <2>3, <2>4, <3>2, <3>3, <3>4 DEF FrameOK
  <2> DEFINE frames == <<g>>
  <2>7. frames = <<g>> /\ Emit(text, frames, {})
    BY <2>1
  <2> HIDE DEF frames, n
  <2>8. limits = {} /\ {} = {} =>
          /\ Over(text, text, Len(text.blocks))
          /\ FrameOK(g, IF g.fun = "list" THEN g.working ELSE working, text.blocks,
                     Len(text.blocks), Len(text.blocks) + g.braces)
    BY <2>3, <2>6 DEF n
  <2> QED BY <2>1, <2>3, <2>7, <2>8, CallingScoped
<1>2. CASE types[name] # "file"
  <2>1. Statement(text, {})
    BY <1>2 DEF generate_expressions_list_with_file, Fail
  <2> QED BY <2>1, SameScoped
<1> QED BY <1>1, <1>2

LEMMA RangeLoopScoped ==
    ASSUME Inv, Scoped, phase = "body", NEW name \in LoopNames, generate_loop_over_range(name)
    PROVE  Scoped'
<1> DEFINE g == [Call("range") EXCEPT !.braces = 1, !.var = User(name)]
           t == text ++ While({}) ++ Var(User(name))
           n == Len(text.blocks)
<1>1. Emit(t, <<g, Call("expression")>>, {}) /\ UNCHANGED types
  BY DEF generate_loop_over_range
<1>2. User(name) \in Name
  BY NamesOK
<1>3. g \in Frame /\ g.fun = "range" /\ g.braces = 1
  BY <1>2, CalledOK
<1>4. g.var = User(name)
  BY DEF Call
<1> HIDE DEF g
<1>5. Top.fun \in {"list", "expression"}
  BY <1>1 DEF Emit, Expecting
<1>6. ASSUME limits = {}
      PROVE  Over(t, text, n) /\ FrameOK(g, working, t.blocks, n, n + g.braces)
  <2> DEFINE B == Front(text.blocks)
             b == Last(text.blocks)
             d == With(Fresh(FALSE), {User(name)})
  <2>1. Clean(text) /\ Tidy(text)
    BY <1>6, BodyIs
  <2>2. Sound(t, Append(B, b), d) /\ b \in Block
    BY <1>2, <1>5, <1>6, OwnBlock
  <2>3. Grown(b, b)
    BY <1>5, <1>6, StatementIs
  <2>4. d.names = {User(name)}
    <3>1. {User(name)} \in SUBSET Name /\ Fresh(FALSE) \in Block /\ Fresh(FALSE).names = {}
      BY <1>2, FreshIs
    <3>2. d.names = Fresh(FALSE).names \cup {User(name)}
      BY <3>1, WithIs
    <3> HIDE DEF d
    <3> QED BY <3>1, <3>2
  <2>5. User(name) # Newline /\ User(name) # Number
    BY KindsOfNames DEF Newline, Number
  <2> HIDE DEF d, t
  <2>6. Newline \notin d.names
    BY <2>4, <2>5
  <2>7. Over(t, text, n) /\ t.blocks[n + 1] = d
    BY <2>1, <2>2, <2>3, <2>6, OverOpen
  <2>8. User(name) \in Seen(t.blocks, n + 1)
    <3>1. n \in Nat
      BY <1>6, BodyIs
    <3>2. n + 1 \in 1 .. n + 1
      BY <3>1
    <3> HIDE DEF n
    <3> QED BY <2>4, <2>5, <2>7, <3>2 DEF Seen
  <2> QED BY <1>3, <1>4, <2>7, <2>8 DEF FrameOK
<1> DEFINE frames == <<g, Call("expression")>>
<1>7. frames = <<g, Call("expression")>> /\ Emit(t, frames, {}) /\ Parked(g)
  BY <1>1, <1>3 DEF Parked
<1> HIDE DEF frames, t, n
<1>8. limits = {} /\ {} = {} =>
        /\ Over(t, text, Len(text.blocks))
        /\ FrameOK(g, IF g.fun = "list" THEN g.working ELSE working, t.blocks,
                   Len(text.blocks), Len(text.blocks) + g.braces)
  BY <1>3, <1>6 DEF n
<1> QED BY <1>1, <1>3, <1>7, <1>8, CallingScoped

LEMMA ConcatAt ==
    ASSUME NEW S, NEW h \in Seq(S), NEW g \in Seq(S)
    PROVE  /\ h \o g \in Seq(S) /\ Len(h \o g) = Len(h) + Len(g)
           /\ Len(h) \in Nat /\ Len(g) \in Nat
           /\ \A i \in 1 .. Len(h) : (h \o g)[i] = h[i]
           /\ \A i \in 1 .. Len(g) : (h \o g)[Len(h) + i] = g[i]
<1>1. /\ h \o g \in Seq(S) /\ Len(h \o g) = Len(h) + Len(g)
      /\ \A i \in 1 .. Len(h) + Len(g) :
            (h \o g)[i] = IF i <= Len(h) THEN h[i] ELSE g[i - Len(h)]
  BY ConcatProperties
<1>2. Len(h) \in Nat /\ Len(g) \in Nat
  BY LenProperties
<1> DEFINE c == h \o g
           m == Len(h)
           n == Len(g)
<1>3. c \in Seq(S) /\ Len(c) = m + n /\ m \in Nat /\ n \in Nat
      /\ \A i \in 1 .. m + n : c[i] = IF i <= m THEN h[i] ELSE g[i - m]
  BY <1>1, <1>2
<1> HIDE DEF c, m, n
<1>4. \A i \in 1 .. m : c[i] = h[i]
  BY <1>3
<1>5. \A i \in 1 .. n : c[m + i] = g[i]
  <2> TAKE i \in 1 .. n
  <2>1. m + i \in 1 .. m + n /\ ~(m + i <= m) /\ (m + i) - m = i
    BY <1>3
  <2> QED BY <1>3, <2>1
<1> QED BY <1>3, <1>4, <1>5 DEF c, m, n

\* A call after others.
LEMMA OneMore ==
    ASSUME NEW S, NEW h \in Seq(S), NEW x \in S
    PROVE  /\ Len(h \o <<x>>) = Len(h) + 1 /\ Len(h) \in Nat /\ h \o <<x>> \in Seq(S)
           /\ \A i \in 1 .. Len(h) : (h \o <<x>>)[i] = h[i]
           /\ (h \o <<x>>)[Len(h) + 1] = x
<1>1. <<x>> \in Seq(S)
  BY OneOf
<1>2. \A g \in Seq(S) :
        /\ h \o g \in Seq(S) /\ Len(h \o g) = Len(h) + Len(g) /\ Len(h) \in Nat
        /\ \A i \in 1 .. Len(h) : (h \o g)[i] = h[i]
        /\ \A i \in 1 .. Len(g) : (h \o g)[Len(h) + i] = g[i]
  BY ConcatAt
<1>3. Len(<<x>>) = 1 /\ <<x>>[1] = x /\ 1 \in 1 .. 1
  OBVIOUS
<1> DEFINE g == <<x>>
<1>4. g \in Seq(S) /\ Len(g) = 1 /\ g[1] = x /\ 1 \in 1 .. 1
  BY <1>1, <1>3
<1> HIDE DEF g
<1>5. /\ h \o g \in Seq(S) /\ Len(h \o g) = Len(h) + 1 /\ Len(h) \in Nat
      /\ \A i \in 1 .. Len(h) : (h \o g)[i] = h[i]
      /\ (h \o g)[Len(h) + 1] = x
  BY <1>2, <1>4
<1> QED BY <1>5 DEF g

\* Where the calls of an ordered chain stand.
LEMMA OrderedShape ==
    ASSUME NEW chain, Ordered(chain)
    PROVE  /\ Len(chain) \in Nat
           /\ \E p \in {1, 2} :
                 /\ Len(chain) \in {p, p + 1}
                 /\ chain[p] = "lines"
                 /\ p = 2 => chain[1] = "columns" /\ "columns" \in Range(chain)
                 /\ Len(chain) = p + 1 => chain[p + 1] \in ByIndexes
<1> DEFINE S == ByIndexes \cup {"lines", "columns"}
           one == <<"lines">>
           two == <<"columns", "lines">>
<1>1. PICK h \in {one, two}, tail \in {<< >>} \cup {<<x>> : x \in ByIndexes} : chain = h \o tail
  BY DEF Ordered, ByIndexes
<1>2. "lines" \in S /\ "columns" \in S /\ ByIndexes \subseteq S
  OBVIOUS
<1>3. /\ one \in Seq(S) /\ Len(one) = 1 /\ one[1] = "lines"
      /\ two \in Seq(S) /\ Len(two) = 2 /\ two[2] = "lines" /\ two[1] = "columns"
  <2> HIDE DEF S
  <2>1. one \in Seq(S) /\ two \in Seq(S)
    BY <1>2, OneOf, TwoOf
  <2> QED BY <2>1
<1> HIDE DEF S, one, two
<1>4. PICK p \in {1, 2} : /\ h \in Seq(S) /\ Len(h) = p /\ h[p] = "lines"
                          /\ p = 2 => h[1] = "columns"
  <2>1. CASE h = one
    BY <1>3, <2>1
  <2>2. CASE h = two
    BY <1>3, <2>2
  <2> QED BY <1>1, <2>1, <2>2
<1>5. /\ chain \in Seq(S) /\ Len(chain) \in {p, p + 1}
      /\ \A i \in 1 .. p : chain[i] = h[i]
      /\ Len(chain) = p + 1 => chain[p + 1] \in ByIndexes
  <2>1. CASE tail = << >>
    <3>1. chain = h
      BY <1>1, <1>4, <2>1, ConcatEmptySeq
    <3> QED BY <1>4, <3>1
  <2>2. ASSUME NEW x \in ByIndexes, tail = <<x>>
        PROVE  <1>5
    <3>1. x \in S
      BY <1>2
    <3>2. /\ Len(h \o <<x>>) = Len(h) + 1 /\ h \o <<x>> \in Seq(S)
          /\ \A i \in 1 .. Len(h) : (h \o <<x>>)[i] = h[i]
          /\ (h \o <<x>>)[Len(h) + 1] = x
      BY <1>4, <3>1, OneMore
    <3>3. /\ Len(chain) = Len(h) + 1 /\ chain \in Seq(S)
          /\ \A i \in 1 .. Len(h) : chain[i] = h[i]
          /\ chain[Len(h) + 1] = x
      BY <1>1, <2>2, <3>2
    <3> QED BY <1>4, <3>3
  <2> QED BY <1>1, <2>1, <2>2
<1>6. 1 \in 1 .. p /\ p \in 1 .. p /\ p \in Nat
  BY <1>4
<1>7. Len(chain) \in Nat /\ DOMAIN chain = 1 .. Len(chain)
  BY <1>5, LenProperties
<1>8. chain[1] \in Range(chain)
  <2>1. 1 \in 1 .. Len(chain)
    BY <1>4, <1>5
  <2> QED BY <1>7, <2>1 DEF Range
<1>9. /\ Len(chain) \in {p, p + 1} /\ chain[p] = "lines"
      /\ p = 2 => chain[1] = "columns" /\ "columns" \in Range(chain)
      /\ Len(chain) = p + 1 => chain[p + 1] \in ByIndexes
  BY <1>4, <1>5, <1>6, <1>8
<1> QED BY <1>4, <1>7, <1>9

\* A list on the stack works on a file that is declared.
LEMMA WorkingSeen ==
    ASSUME NEW s \in Seq(Frame), s # << >>, s[1].fun = "list", NEW bs, Settled(s, bs),
           Working(s) # NULL
    PROVE  Working(s) \in Seen(bs, 1 + Owes(s))
<1> DEFINE L == {i \in DOMAIN s : s[i].fun \in {"list"}}
           h == Max(L)
<1>1. Len(s) \in Nat /\ DOMAIN s = 1 .. Len(s) /\ 1 \in 1 .. Len(s) /\ Owes(s) \in Nat
  BY FrontOf, OwesTop
<1>2. L \in SUBSET Nat /\ L # {} /\ IsFiniteSet(L)
  <2>1. L \subseteq 1 .. Len(s) /\ 1 \in Int /\ Len(s) \in Int
    BY <1>1
  <2>2. 1 \in L
    BY <1>1
  <2> HIDE DEF L
  <2>3. IsFiniteSet(1 .. Len(s))
    BY <2>1, FS_Interval
  <2>4. IsFiniteSet(L)
    BY <2>1, <2>3, FS_Subset
  <2> QED BY <2>1, <2>2, <2>4
<1>3. h \in L
  <2> HIDE DEF L
  <2> QED BY <1>2, MaxIsGreatest
<1>4. h \in 1 .. Len(s) /\ s[h].fun = "list"
  BY <1>1, <1>3
<1>5. Working(s) = s[h].working
  BY DEF Working
<1> HIDE DEF h, L
<1> DEFINE m == 1 + Owes(SubSeq(s, 1, h - 1))
           n == 1 + Owes(SubSeq(s, 1, h))
           w == Working(SubSeq(s, 1, h))
<1>6. FrameOK(s[h], w, bs, m, n)
  BY <1>4 DEF Settled
<1>7. m \in Nat /\ m <= 1 + Owes(s)
  <2>1. /\ Owes(SubSeq(s, 1, h)) \in Nat /\ Owes(SubSeq(s, 1, h - 1)) \in Nat
        /\ Owes(SubSeq(s, 1, h)) = Owes(SubSeq(s, 1, h - 1)) + s[h].braces
        /\ Owes(SubSeq(s, 1, h)) <= Owes(s)
    BY <1>4, OwesPrefix
  <2>2. s[h].braces \in Nat
    <3>1. s[h] \in Frame
      BY <1>4, ElementOfSeq
    <3> QED BY <3>1 DEF Frame
  <2> QED BY <1>1, <2>1, <2>2
<1> HIDE DEF m, n, w
<1>8. s[h].working \in Seen(bs, m)
  BY <1>4, <1>5, <1>6 DEF FrameOK
<1>9. Seen(bs, m) \subseteq Seen(bs, 1 + Owes(s))
  <2>1. 1 .. m \subseteq 1 .. 1 + Owes(s)
    BY <1>1, <1>7
  <2> QED BY <2>1 DEF Seen
<1> QED BY <1>5, <1>8, <1>9

LEMMA WorkingRead ==
    ASSUME Inv, Scoped, phase = "body", limits = {}, Top.fun \in {"list", "expression"},
           working # NULL
    PROVE  working \in Seen(text.blocks, Len(text.blocks))
<1>1. /\ Settled(Returned, text.blocks) /\ Returned \in Seq(Frame) /\ Returned # << >>
      /\ Working(Returned) = working /\ Stack(Returned, {})
      /\ Len(text.blocks) = 1 + Owes(Returned)
  BY ReturnedSettled
<1>2. Returned[1].fun = "list"
  BY <1>1 DEF Stack
<1> QED BY <1>1, <1>2, WorkingSeen

LEMMA LoopFields ==
    ASSUME NEW name, NEW chain, NEW index
    PROVE  LoopFrame(name, chain, index).var = name /\ LoopFrame(name, chain, index).index = index
BY DEF LoopFrame, Call

\* What a loop within the limits finds.
LEMMA LoopWithin ==
    ASSUME NEW chain, LoopLimits(chain) = {}
    PROVE  /\ working # NULL /\ Ordered(chain)
           /\ "columns" \in Range(chain) => "output" \in DOMAIN types
BY DEF LoopLimits, When

LEMMA CallsLoopScoped ==
    ASSUME Inv, Scoped, phase = "body", NEW name \in LoopNames, NEW chain \in Chains,
           NEW index \in {NULL, User(name)} \cup LoopVariables,
           generate_loop_function_calls_expression(name, chain, index)
    PROVE  Scoped'
<1> DEFINE g == LoopFrame(User(name), chain, index)
           file == FileOf(working)
           i == Own("i")
           t1 == text ++ Use({working})
           t2 == t1 ++ While({working})
           t3 == t2 ++ Var(i)
           t == t3 ++ Var(file)
           n == Len(text.blocks)
           asked == LoopLimits(chain)
<1>1. Emit(t, <<g>>, asked) /\ UNCHANGED types
  BY DEF generate_loop_function_calls_expression, LoopFrame
<1>2. /\ User(name) \in Name /\ index \in Name /\ working \in Name /\ file \in Name /\ i \in Name
  <2>1. LoopVariables \subseteq Name /\ working \in Name
    BY MentionedOK
  <2> QED BY <2>1, NamesOK, OwnOK
<1>3. /\ g \in Frame /\ g.fun = "calls" /\ g.braces = 1 /\ g.chain = chain /\ g.at = Len(chain)
      /\ g.var = User(name) /\ g.index = index
  BY <1>2, LoopFrameIs, LoopFields
<1> HIDE DEF g
<1>4. Top.fun \in {"list", "expression"}
  BY <1>1 DEF Emit, Expecting
<1>5. ASSUME limits = {}, asked = {}
      PROVE  Over(t, text, n) /\ FrameOK(g, working, t.blocks, n, n + g.braces)
  <2> DEFINE B == Front(text.blocks)
             b == Last(text.blocks)
             A == Append(B, b)
             f == Fresh(FALSE)
             c == With(f, {i})
             d == With(c, {file})
             seen == Seen(text.blocks, n)
  <2>1. /\ Clean(text) /\ Tidy(text) /\ Len(text.blocks) = 1 + Owes(calls) /\ Owes(calls) \in Nat
    BY <1>5, BodyIs
  <2>2. working # NULL /\ Ordered(chain) /\ ("columns" \in Range(chain) => "output" \in DOMAIN types)
    BY <1>5, LoopWithin
  <2>3. /\ Sound(text, B, b) /\ B \in Seq(Block) /\ b \in Block /\ Grown(b, b)
        /\ seen \subseteq Readable(B, b)
    BY <1>4, <1>5, StatementIs
  <2>4. {working} \in SUBSET Name /\ {working} \subseteq Readable(B, b)
    <3>1. working \in seen
      BY <1>4, <1>5, <2>2, WorkingRead
    <3> QED BY <1>2, <2>3, <3>1
  <2>5. /\ {i} \in SUBSET Name /\ {file} \in SUBSET Name /\ file # i
        /\ Newline # i /\ Newline # file /\ Number # i /\ Number # file
    BY <1>2, KindsOfNames DEF Newline, Number
  <2>6. f \in Block /\ f.names = {}
    BY FreshIs
  <2> HIDE DEF B, b, i, file
  <2>7. Sound(t1, B, b)
    BY <2>3, <2>4, UseSound
  <2> HIDE DEF t1
  <2>8. Sound(t2, A, f)
    BY <2>4, <2>7, OpenSound
  <2> HIDE DEF A, f, t2
  <2>9. c \in Block /\ c.names = {i}
    <3>1. c \in Block /\ c.names = f.names \cup {i}
      BY <2>5, <2>6, WithIs
    <3> HIDE DEF c
    <3> QED BY <2>6, <3>1
  <2>10. Sound(t3, A, c)
    BY <1>2, <2>6, <2>8, VarSound
  <2> HIDE DEF c, t3
  <2>11. d \in Block /\ d.names = {i, file}
    <3>1. d \in Block /\ d.names = c.names \cup {file}
      BY <2>5, <2>9, WithIs
    <3> HIDE DEF d
    <3> QED BY <2>9, <3>1
  <2>12. Sound(t, A, d)
    <3>1. file \notin c.names
      BY <2>5, <2>9
    <3> QED BY <1>2, <2>10, <3>1, VarSound
  <2> HIDE DEF d, t
  <2>13. Newline \notin d.names
    BY <2>5, <2>11
  <2>14. Over(t, text, n) /\ Len(t.blocks) = n + 1 /\ t.blocks[n + 1] = d
    BY <2>1, <2>3, <2>12, <2>13, OverOpen DEF A, B, b
  <2> DEFINE bs == t.blocks
  <2>15. n \in Nat /\ n < n + 1 /\ n >= 1 /\ n + 1 \in 1 .. n + 1
    BY <2>1
  <2>16. Kept(text.blocks, bs, n)
    BY <2>14 DEF Over
  <2>17. bs[n + 1].names = {i, file}
    BY <2>11, <2>14
  <2> HIDE DEF n, bs
  <2>18. seen \subseteq Seen(bs, n)
    BY <2>15, <2>16, SeenKept
  <2>19. file \in Seen(bs, n + 1)
    BY <2>5, <2>15, <2>17 DEF Seen
  <2>20. "columns" \in Range(chain) => User("output") \in Seen(bs, n)
    <3>1. Declared \subseteq seen
      BY <1>4, <1>5, MentionedSeen DEF n
    <3> QED BY <2>2, <2>18, <3>1 DEF Declared
  <2>21. index \in {NULL, g.var} \cup Seen(bs, n)
    <3>1. LoopVariables \subseteq seen
      BY <1>4, <1>5, LoopsSeen DEF n
    <3> HIDE DEF seen
    <3> QED BY <1>3, <2>18, <3>1
  <2>22. Len(chain) \in Nat \ {0} /\ chain[Len(chain)] # "columns"
    <3>1. PICK p \in {1, 2} : /\ Len(chain) \in {p, p + 1}
                              /\ chain[p] = "lines"
                              /\ Len(chain) = p + 1 => chain[p + 1] \in ByIndexes
      BY <2>2, OrderedShape
    <3>2. Len(chain) \in Nat \ {0}
      BY <3>1
    <3>3. chain[Len(chain)] \in ByIndexes \cup {"lines"}
      BY <3>1
    <3> QED BY <3>2, <3>3 DEF ByIndexes
  <2>23. g.chain[g.at] # "columns" /\ g.at > 0 /\ ~(g.at < Len(g.chain))
    BY <1>3, <2>22
  <2>24. g.var \in {User(x) : x \in LoopNames}
    BY <1>3
  <2>25. Begun(g, working, bs, n, n + 1)
    BY <1>3, <2>15, <2>17, <2>19, <2>20, <2>21, <2>23, <2>24 DEF Begun, file, i
  <2>26. FrameOK(g, working, bs, n, n + 1)
    BY <1>3, <2>23, <2>25 DEF FrameOK
  <2> QED BY <1>3, <2>14, <2>26 DEF bs
<1> DEFINE frames == <<g>>
<1>6. frames = <<g>> /\ Emit(t, frames, asked)
  BY <1>1
<1> HIDE DEF frames, t, n, asked
<1>7. limits = {} /\ asked = {} =>
        /\ Over(t, text, Len(text.blocks))
        /\ FrameOK(g, IF g.fun = "list" THEN g.working ELSE working, t.blocks,
                   Len(text.blocks), Len(text.blocks) + g.braces)
  BY <1>3, <1>5 DEF n
<1> QED BY <1>1, <1>3, <1>6, <1>7, CallingScoped

LEMMA LoopScoped ==
    ASSUME Inv, Scoped, phase = "body", Loop PROVE Scoped'
<1>1. PICK name \in LoopNames :
        \/ generate_loop_over_range(name)
        \/ \E chain \in Chains :
              \E index \in IF "byIndex" \in Range(chain)
                           THEN {User(name)} \cup LoopVariables ELSE {NULL} :
                 generate_loop_function_calls_expression(name, chain, index)
  BY DEF Loop
<1>2. CASE generate_loop_over_range(name)
  BY <1>2, RangeLoopScoped
<1>3. ASSUME NEW chain \in Chains,
             NEW index \in IF "byIndex" \in Range(chain)
                           THEN {User(name)} \cup LoopVariables ELSE {NULL},
             generate_loop_function_calls_expression(name, chain, index)
      PROVE  Scoped'
  <2>1. index \in {NULL, User(name)} \cup LoopVariables
    OBVIOUS
  <2> QED BY <1>3, <2>1, CallsLoopScoped
<1> QED BY <1>1, <1>2, <1>3

---------------------------------------------------------------------------
(* Conditionals. *)

LEMMA ThenFrees ==
    ASSUME NEW frees PROVE ThenFrame(frees).frees = frees
BY DEF ThenFrame, Call

\* A conditional frees in the block around it what it has declared there.
LEMMA ThenScoped ==
    ASSUME Inv, Scoped, phase = "body", NEW t, NEW frees \in Seq(Name), NEW asked,
           Emit(t, Then(frees), asked), UNCHANGED types,
           limits = {} /\ asked = {} =>
              \E c \in Block :
                 /\ Sound(t, Append(Front(text.blocks), c), Fresh(TRUE))
                 /\ Grown(Last(text.blocks), c)
                 /\ Range(frees) \subseteq {Number} \cap (c.names \ c.freed)
    PROVE  Scoped'
<1> DEFINE g == ThenFrame(frees)
           n == Len(text.blocks)
<1>1. /\ g \in Frame /\ g.fun = "then" /\ g.braces = 1 /\ g.frees = frees
      /\ Then(frees) = <<g, Call("expression")>>
  BY ThenFrameIs, ThenFrees
<1> HIDE DEF g
<1>2. Parked(g)
  BY <1>1 DEF Parked
<1>3. ASSUME limits = {}, asked = {}
      PROVE  Over(t, text, n) /\ FrameOK(g, working, t.blocks, n, n + g.braces)
  <2> DEFINE d == Fresh(TRUE)
  <2>1. PICK c \in Block : /\ Sound(t, Append(Front(text.blocks), c), d)
                           /\ Grown(Last(text.blocks), c)
                           /\ Range(frees) \subseteq {Number} \cap (c.names \ c.freed)
    BY <1>3
  <2>2. d \in Block /\ d.names = {} /\ d.if = TRUE
    BY FreshIs
  <2> HIDE DEF d
  <2>3. Clean(text) /\ Tidy(text) /\ Newline \notin d.names
    BY <1>3, <2>2, BodyIs
  <2>4. /\ Over(t, text, n) /\ t.blocks[n + 1] = d /\ t.blocks[n] = c
    BY <2>1, <2>3, OverOpen
  <2>5. n \in Nat
    BY <1>3, BodyIs
  <2> HIDE DEF n
  <2>6. FrameOK(g, working, t.blocks, n, n + 1)
    BY <1>1, <2>1, <2>2, <2>4, <2>5 DEF FrameOK
  <2> QED BY <1>1, <2>4, <2>6
<1> DEFINE frames == Then(frees)
<1>4. frames = <<g, Call("expression")>> /\ Emit(t, frames, asked)
  BY <1>1
<1> HIDE DEF frames, n
<1>5. limits = {} /\ asked = {} =>
        /\ Over(t, text, Len(text.blocks))
        /\ FrameOK(g, IF g.fun = "list" THEN g.working ELSE working, t.blocks,
                   Len(text.blocks), Len(text.blocks) + g.braces)
  BY <1>1, <1>3 DEF n
<1> QED BY <1>1, <1>2, <1>4, <1>5, CallingScoped

LEMMA TypeTestScoped ==
    ASSUME Inv, Scoped, phase = "body", NEW name \in Mentioned, generate_conditional_type(name)
    PROVE  Scoped'
<1> DEFINE isnum == Own("_isnum")
           t1 == text ++ Var(isnum)
           t2 == t1 ++ Use({name})
           t3 == t2 ++ If({isnum})
           asked == When(InBlock(isnum), "repeated")
<1>1. /\ isnum \in Name /\ {name} \in SUBSET Name /\ {isnum} \in SUBSET Name /\ << >> \in Seq(Name)
  BY MentionedOK, OwnOK, EmptySeq
<1>2. Emit(t3, Then(<< >>), asked) /\ UNCHANGED types
  BY DEF generate_conditional_type
<1>3. Top.fun \in {"list", "expression"}
  BY <1>2 DEF Emit, Expecting
<1>4. isnum \in OwnNames /\ isnum # Newline
  BY KindsOfNames DEF Newline, Words
<1>5. ASSUME limits = {}, asked = {}
      PROVE  \E c \in Block :
                /\ Sound(t3, Append(Front(text.blocks), c), Fresh(TRUE))
                /\ Grown(Last(text.blocks), c)
                /\ Range(<< >>) \subseteq {Number} \cap (c.names \ c.freed)
  <2> DEFINE B == Front(text.blocks)
             b == Last(text.blocks)
             c == With(b, {isnum})
             seen == Seen(text.blocks, Len(text.blocks))
  <2>1. /\ Sound(text, B, b) /\ B \in Seq(Block) /\ b \in Block /\ Grown(b, b)
        /\ seen \subseteq Readable(B, b) /\ text.blocks # << >>
    BY <1>3, <1>5, StatementIs
  <2>2. isnum \notin b.names
    BY <1>5, <2>1 DEF When, InBlock
  <2>3. name \in seen
    BY <1>3, <1>5, MentionedSeen
  <2> HIDE DEF B, b, isnum, seen
  <2>4. Sound(t1, B, c)
    BY <1>1, <2>1, <2>2, VarSound
  <2>5. Readable(B, b) \cup {isnum} \subseteq Readable(B, c)
    BY <1>1, <2>1, ReadableWith
  <2>6. c \in Block
    BY <1>1, <2>1, WithIs
  <2>7. Grown(b, c)
    BY <1>1, <1>4, <2>1, GrownWith
  <2> HIDE DEF c, t1
  <2>8. {name} \subseteq Readable(B, c) /\ {isnum} \subseteq Readable(B, c)
    BY <2>1, <2>3, <2>5
  <2>9. Sound(t2, B, c)
    BY <1>1, <2>4, <2>8, UseSound
  <2> HIDE DEF t2
  <2>10. Sound(t3, Append(B, c), Fresh(TRUE))
    BY <1>1, <2>8, <2>9, OpenSound
  <2>11. Range(<< >>) = {}
    BY DEF Range
  <2> QED BY <2>6, <2>7, <2>10, <2>11 DEF B, b
<1> DEFINE none == << >>
<1> HIDE DEF t3, asked
<1>6. /\ none \in Seq(Name) /\ Emit(t3, Then(none), asked)
      /\ limits = {} /\ asked = {} =>
           \E c \in Block :
              /\ Sound(t3, Append(Front(text.blocks), c), Fresh(TRUE))
              /\ Grown(Last(text.blocks), c)
              /\ Range(none) \subseteq {Number} \cap (c.names \ c.freed)
  BY <1>1, <1>2, <1>5
<1> HIDE DEF none
<1> QED BY <1>2, <1>6, ThenScoped

LEMMA CompareScoped ==
    ASSUME Inv, Scoped, phase = "body", NEW left \in Operands, NEW right \in Operands,
           generate_conditional_compare(left, right)
    PROVE  Scoped'
<1> DEFINE x == IF left = Constant THEN <<Number>> ELSE << >>
           y == IF right = Constant THEN <<Number>> ELSE << >>
           constants == x \o y
           u1 == Allocated(text, Number)
           v1 == u1 ++ Use({Number})
           v2 == Allocated(v1, Number) ++ Use({Number})
           t == CASE Len(constants) = 0 -> text
                  [] Len(constants) = 1 -> v1
                  [] Len(constants) = 2 -> v2
           names == left.names \cup right.names \cup Range(constants)
           asked == When((constants # << >> /\ InBlock(Number)) \/ Len(constants) = 2, "repeated")
           w == t ++ If(names)
<1>1. Number \in Name /\ {Number} \in SUBSET Name
  BY OwnOK DEF Number
<1>2. constants \in {<< >>, <<Number>>, <<Number, Number>>}
  <2>1. x \in {<< >>, <<Number>>} /\ y \in {<< >>, <<Number>>}
    OBVIOUS
  <2>2. << >> \in Seq({Number}) /\ <<Number>> \in Seq({Number})
    OBVIOUS
  <2>3. << >> \o << >> = << >> /\ <<Number>> \o << >> = <<Number>> /\ << >> \o <<Number>> = <<Number>>
    BY <2>2, ConcatEmptySeq
  <2>4. <<Number>> \o <<Number>> = <<Number, Number>>
    BY PairIs
  <2> HIDE DEF x, y
  <2> QED BY <2>1, <2>3, <2>4
<1>3. \/ Crash /\ UNCHANGED types
      \/ Emit(w, Then(constants), asked) /\ UNCHANGED types
  <2> DEFINE declared == [k \in 0 .. 2 |->
                            CASE k = 0 -> text
                              [] k = 1 -> Allocated(text, Number) ++ Use({Number})
                              [] k = 2 -> Allocated(Allocated(text, Number) ++ Use({Number}), Number)
                                             ++ Use({Number})]
  <2>1. \/ Crash /\ UNCHANGED types
        \/ Emit(declared[Len(constants)] ++ If(names), Then(constants), asked) /\ UNCHANGED types
    BY DEF generate_conditional_compare, Number
  <2>2. declared[0] = text /\ declared[1] = v1 /\ declared[2] = v2
    OBVIOUS
  <2>3. declared[Len(constants)] = t
    <3>1. Len(constants) \in {0, 1, 2}
      <4> HIDE DEF constants
      <4> QED BY <1>2
    <3> HIDE DEF declared, constants, v1, v2
    <3> QED BY <2>2, <3>1
  <2> HIDE DEF declared, constants, names, asked, t
  <2> QED BY <2>1, <2>3
<1>4. CASE Crash /\ UNCHANGED types
  BY <1>4, CrashScoped
<1>5. CASE Emit(w, Then(constants), asked) /\ UNCHANGED types
  <2>1. Top.fun \in {"list", "expression"}
    BY <1>5 DEF Emit, Expecting
  <2>2. constants \in Seq(Name)
    <3>1. << >> \in Seq(Name) /\ <<Number>> \in Seq(Name) /\ <<Number, Number>> \in Seq(Name)
      BY <1>1, OneOf, TwoOf, EmptySeq
    <3> HIDE DEF constants
    <3> QED BY <1>2, <3>1
  <2>3. ASSUME limits = {}, asked = {}
        PROVE  \E c \in Block :
                  /\ Sound(w, Append(Front(text.blocks), c), Fresh(TRUE))
                  /\ Grown(Last(text.blocks), c)
                  /\ Range(constants) \subseteq {Number} \cap (c.names \ c.freed)
    <3> DEFINE B == Front(text.blocks)
               b == Last(text.blocks)
               seen == Seen(text.blocks, Len(text.blocks))
    <3>1. /\ Sound(text, B, b) /\ B \in Seq(Block) /\ b \in Block /\ Grown(b, b)
          /\ seen \subseteq Readable(B, b) /\ text.blocks # << >>
      BY <2>1, <2>3, StatementIs
    <3>2. left.names \cup right.names \subseteq seen
      BY <2>1, <2>3, MentionedSeen
    <3>3. left.names \in SUBSET Name /\ right.names \in SUBSET Name
      BY MentionedOK
    <3>4. Len(constants) # 2 /\ (constants # << >> => Number \notin b.names)
      BY <2>3, <3>1 DEF When, InBlock
    <3> HIDE DEF B, b, seen, constants
    <3>5. CASE constants = << >>
      <4>1. t = text /\ Range(constants) = {}
        BY <3>5 DEF Range
      <4> HIDE DEF t
      <4>2. names \in SUBSET Name /\ names \subseteq Readable(B, b)
        BY <3>1, <3>2, <3>3, <4>1
      <4> HIDE DEF names
      <4>3. Sound(w, Append(B, b), Fresh(TRUE))
        BY <3>1, <4>1, <4>2, OpenSound
      <4> QED BY <3>1, <4>1, <4>3 DEF B, b
    <3>6. CASE constants = <<Number>>
      <4> DEFINE c == With(b, {Number})
      <4>1. t = v1 /\ Range(constants) = {Number}
        BY <3>6 DEF Range
      <4>2. Number \notin b.names
        BY <3>4, <3>6
      <4>3. Sound(u1, B, c)
        BY <1>1, <3>1, <4>2, AllocatedSound
      <4>4. Readable(B, b) \cup {Number} \subseteq Readable(B, c)
        BY <1>1, <3>1, ReadableWith
      <4>5. c \in Block /\ c.names = b.names \cup {Number} /\ c.freed = b.freed \ {Number}
        BY <1>1, <3>1, WithIs
      <4>6. Grown(b, c)
        <5>1. Number \in OwnNames /\ Number # Newline
          BY KindsOfNames DEF Newline, Number, Words
        <5> QED BY <1>1, <3>1, <5>1, GrownWith
      <4> HIDE DEF c, u1, t
      <4>7. Sound(v1, B, c)
        BY <1>1, <4>3, <4>4, UseSound
      <4> HIDE DEF v1
      <4>8. names \in SUBSET Name /\ names \subseteq Readable(B, c)
        BY <1>1, <3>1, <3>2, <3>3, <4>1, <4>4
      <4> HIDE DEF names
      <4>9. Sound(w, Append(B, c), Fresh(TRUE))
        BY <4>1, <4>7, <4>8, OpenSound
      <4>10. Range(constants) \subseteq {Number} \cap (c.names \ c.freed)
        BY <4>1, <4>5
      <4> QED BY <4>5, <4>6, <4>9, <4>10 DEF B, b
    <3>7. constants # <<Number, Number>>
      <4>1. Len(<<Number, Number>>) = 2
        OBVIOUS
      <4> QED BY <3>4, <4>1
    <3> QED BY <1>2, <3>5, <3>6, <3>7
  <2>4. limits = {} /\ asked = {} =>
          \E c \in Block :
             /\ Sound(w, Append(Front(text.blocks), c), Fresh(TRUE))
             /\ Grown(Last(text.blocks), c)
             /\ Range(constants) \subseteq {Number} \cap (c.names \ c.freed)
    BY <2>3
  <2> HIDE DEF w, constants, asked
  <2> QED BY <1>5, <2>2, <2>4, ThenScoped
<1> QED BY <1>3, <1>4, <1>5

LEMMA DefaultScoped ==
    ASSUME Inv, Scoped, phase = "body", generate_conditional_default PROVE Scoped'
<1> DEFINE g == [Call("else") EXCEPT !.braces = 1]
           t == text ++ Else
           asked == {"condition"}
           frames == <<g, Call("expression")>>
<1>1. Emit(t, frames, asked) /\ UNCHANGED types
  BY DEF generate_conditional_default
<1>2. g \in Frame /\ g.fun = "else"
  BY CalledOK
<1> HIDE DEF g
<1>3. Parked(g)
  BY <1>2 DEF Parked
<1>4. frames = <<g, Call("expression")>> /\ asked # {}
  OBVIOUS
<1> HIDE DEF frames, asked, t
<1>5. limits = {} /\ asked = {} =>
        /\ Over(t, text, Len(text.blocks))
        /\ FrameOK(g, IF g.fun = "list" THEN g.working ELSE working, t.blocks,
                   Len(text.blocks), Len(text.blocks) + g.braces)
  BY <1>4
<1> QED BY <1>1, <1>2, <1>3, <1>4, <1>5, CallingScoped

LEMMA ConditionalScoped ==
    ASSUME Inv, Scoped, phase = "body", Conditional PROVE Scoped'
<1>1. CASE \E name \in Mentioned : generate_conditional_type(name)
  BY <1>1, TypeTestScoped
<1>2. CASE \E left, right \in Operands : generate_conditional_compare(left, right)
  BY <1>2, CompareScoped
<1>3. CASE generate_conditional_default
  BY <1>3, DefaultScoped
<1> QED BY <1>1, <1>2, <1>3 DEF Conditional

LEMMA ExpressionScoped ==
    ASSUME Inv, Scoped, Expression PROVE Scoped'
<1>1. phase = "body" /\ Top.fun \in {"list", "expression"}
  BY ExpressionExpected DEF Expecting
<1>2. PICK form \in scale.forms :
        \/ Declaration(form)
        \/ Assignment(form)
        \/ \E name \in DOMAIN types : generate_expressions_list_with_file(name)
        \/ Loop
        \/ Conditional
        \/ generate_number_arithmetic_none
        \/ generate_nothing
        \/ Fail
  BY DEF Expression
<1>3. CASE Declaration(form)
  BY <1>1, <1>3, DeclarationScoped
<1>4. CASE Assignment(form)
  BY <1>1, <1>4, AssignmentScoped
<1>5. CASE \E name \in DOMAIN types : generate_expressions_list_with_file(name)
  BY <1>1, <1>5, WithScoped
<1>6. CASE Loop
  BY <1>1, <1>6, LoopScoped
<1>7. CASE Conditional
  BY <1>1, <1>7, ConditionalScoped
<1>8. CASE generate_number_arithmetic_none
  BY <1>1, <1>8, NoneScoped
<1>9. CASE generate_nothing \/ Fail
  <2>1. Statement(text, {})
    BY <1>9 DEF generate_nothing, Fail
  <2> QED BY <1>1, <2>1, SameScoped
<1> QED BY <1>2, <1>3, <1>4, <1>5, <1>6, <1>7, <1>8, <1>9

---------------------------------------------------------------------------
(* The walk goes on in the function on top of the stack. *)

\* What it finds.
LEMMA TopIs ==
    ASSUME Inv, Scoped, phase = "body", limits = {}, Top.fun # "list"
    PROVE  LET bs == text.blocks
               F == Front(calls)
               m == 1 + Owes(F)
               n == Len(bs)
           IN  /\ Clean(text) /\ Tidy(text) /\ Sound(text, Front(bs), Last(bs))
               /\ Settled(F, bs) /\ FrameOK(Top, working, bs, m, n)
               /\ Stack(F, {}) /\ F \in Seq(Frame) /\ F # << >> /\ F[1].fun = "list"
               /\ Working(F) = working /\ calls = Append(F, Top)
               /\ m \in Nat /\ 1 <= m /\ n \in Nat /\ n = m + Top.braces
               /\ Top.braces \in Nat /\ Top \in Frame /\ Fits(Top, {})
<1> DEFINE bs == text.blocks
           F == Front(calls)
<1>1. /\ Clean(text) /\ Tidy(text) /\ Frames(calls, bs) /\ Sound(text, Front(bs), Last(bs))
      /\ Stack(calls, {}) /\ Top \in Frame /\ Top = Last(calls) /\ Fits(Top, {})
      /\ Owes(calls) \in Nat /\ Owes(F) \in Nat /\ Top.braces \in Nat
      /\ Len(bs) = 1 + Owes(calls) /\ Owes(calls) = Owes(F) + Top.braces
      /\ calls \in Seq(Frame) /\ F \in Seq(Frame) /\ calls = Append(F, Top)
  BY BodyIs
<1>2. Stack(F, {})
  BY <1>1, StackTop
<1>3. F # << >> /\ F[1].fun = "list"
  BY <1>2 DEF Stack
<1>4. Settled(F, bs) /\ FrameOK(Top, Working(calls), bs, 1 + Owes(F), 1 + Owes(calls))
  BY <1>1 DEF Frames
<1>5. working = Working(calls)
  BY DEF working, Working, InnermostOf
<1> HIDE DEF F, bs
<1>6. Working(Append(F, Top)) = Working(F)
  BY <1>1, <1>3, WorkingOn
<1>7. Working(F) = working
  BY <1>1, <1>5, <1>6
<1>8. FrameOK(Top, working, bs, 1 + Owes(F), Len(bs))
  BY <1>1, <1>4, <1>5
<1>9. /\ 1 + Owes(F) \in Nat /\ 1 <= 1 + Owes(F) /\ Len(bs) \in Nat
      /\ Len(bs) = (1 + Owes(F)) + Top.braces
  BY <1>1
<1> QED BY <1>1, <1>2, <1>3, <1>4, <1>7, <1>8, <1>9 DEF F, bs

\* The blocks of its callers stay.
LEMMA OverInner ==
    ASSUME NEW t, Clean(t), Tidy(t), NEW t2, Clean(t2), NEW n \in Nat, 1 <= n,
           n <= Len(t.blocks), n <= Len(t2.blocks),
           \A j \in 1 .. n - 1 : t2.blocks[j] = t.blocks[j],
           t2.blocks[n].names = t.blocks[n].names, t2.blocks[n].if = t.blocks[n].if,
           \A j \in DOMAIN t2.blocks : j > n => Newline \notin t2.blocks[j].names
    PROVE  Over(t2, t, n)
<1> DEFINE u == t.blocks
           v == t2.blocks
<1>1. u \in Seq(Block) /\ v \in Seq(Block)
  BY DEF Clean, Text
<1>2. DOMAIN u = 1 .. Len(u) /\ DOMAIN v = 1 .. Len(v) /\ Len(u) \in Nat /\ Len(v) \in Nat
  BY <1>1, LenProperties
<1> HIDE DEF u, v
<1>3. \A j \in 1 .. n : v[j].names = u[j].names
  <2> TAKE j \in 1 .. n
  <2>1. CASE j = n
    BY <2>1 DEF u, v
  <2>2. CASE j # n
    <3>1. j \in 1 .. n - 1
      BY <2>2
    <3> QED BY <3>1 DEF u, v
  <2> QED BY <2>1, <2>2
<1>4. ASSUME NEW j \in DOMAIN v, Newline \in v[j].names PROVE TextLength \in v[j].names
  <2>1. j \in 1 .. n
    BY <1>2, <1>4 DEF v
  <2>2. j \in DOMAIN u
    BY <1>2, <2>1 DEF u
  <2> QED BY <1>3, <1>4, <2>1, <2>2 DEF Tidy, u
<1>5. Tidy(t2)
  BY <1>4 DEF Tidy, v
<1>6. Kept(u, v, n)
  BY DEF Kept, u, v
<1>7. v[1].names = u[1].names
  BY <1>3
<1> QED BY <1>5, <1>6, <1>7 DEF Over, u, v

\* It changes, or calls an expression.
LEMMA TopScoped ==
    ASSUME Inv, Scoped, phase = "body", Top.fun # "list", NEW t, NEW g \in Frame, g.fun # "list",
           \/ calls' = SetTop(g)
           \/ calls' = SetTop(g) \o <<Call("expression")>> /\ (limits = {} => Parked(g)),
           text' = t, UNCHANGED <<params, types, phase, limits>>,
           limits = {} =>
              LET m == 1 + Owes(Front(calls))
              IN  Over(t, text, m) /\ FrameOK(g, working, t.blocks, m, m + g.braces)
    PROVE  Scoped'
<1> DEFINE F == Front(calls)
           e == Call("expression")
           m == 1 + Owes(F)
           a == Append(F, g)
<1>1. ASSUME limits' = {}
      PROVE  Over(text', text, m) /\ Frames(calls', text'.blocks)
  <2>1. limits = {}
    BY <1>1
  <2>2. Over(t, text, m) /\ FrameOK(g, working, t.blocks, m, m + g.braces)
    BY <2>1
  <2>3. /\ Settled(F, text.blocks) /\ F \in Seq(Frame) /\ F # << >> /\ F[1].fun = "list"
        /\ Working(F) = working
    BY <2>1, TopIs
  <2>4. e \in Frame
    BY CallIs DEF Functions
  <2>5. SetTop(g) = a
    BY DEF SetTop
  <2> HIDE DEF F, e
  <2>6. Working(a) = working
    BY <2>3, WorkingOn
  <2>7. Kept(text.blocks, t.blocks, 1 + Owes(F))
    BY <2>2 DEF Over
  <2>8. FrameOK(g, Working(a), t.blocks, 1 + Owes(F), 1 + Owes(F) + g.braces)
    BY <2>2, <2>6
  <2>9. Frames(a, t.blocks) /\ (Parked(g) => Frames(Append(a, e), t.blocks))
    BY <2>3, <2>7, <2>8, FramesPush DEF e
  <2>10. a \in Seq(Frame) /\ a \o <<e>> = Append(a, e)
    <3>1. a \in Seq(Frame)
      BY <2>3, OnTop
    <3> HIDE DEF a
    <3> QED BY <2>4, <3>1, OnTop
  <2> HIDE DEF a, m
  <2>11. Frames(calls', t.blocks)
    BY <2>1, <2>5, <2>9, <2>10 DEF e
  <2> QED BY <2>2, <2>11
<1> HIDE DEF m
<1>2. phase' = "body" /\ (limits' = {} => limits = {})
  OBVIOUS
<1> QED BY <1>1, <1>2, ScopedGoesOn

\* It returns.
LEMMA PopScoped ==
    ASSUME Inv, Scoped, phase = "body", Top.fun # "list", NEW t, calls' = Front(calls),
           text' = t, UNCHANGED <<params, types, phase, limits>>,
           limits = {} => Over(t, text, 1 + Owes(Front(calls)))
    PROVE  Scoped'
<1> DEFINE F == Front(calls)
           m == 1 + Owes(F)
<1>1. ASSUME limits' = {}
      PROVE  Over(text', text, m) /\ Frames(calls', text'.blocks)
  <2>1. limits = {}
    BY <1>1
  <2>2. Over(t, text, m)
    BY <2>1
  <2>3. Settled(F, text.blocks) /\ F \in Seq(Frame) /\ F # << >>
    BY <2>1, TopIs
  <2> HIDE DEF F
  <2>4. Kept(text.blocks, t.blocks, 1 + Owes(F))
    BY <2>2 DEF Over
  <2>5. Frames(F, t.blocks)
    BY <2>3, <2>4, FramesStay
  <2> QED BY <2>2, <2>5 DEF F
<1> HIDE DEF m
<1>2. phase' = "body" /\ (limits' = {} => limits = {})
  OBVIOUS
<1> QED BY <1>1, <1>2, ScopedGoesOn

\* Nothing is printed.
LEMMA OverSame ==
    ASSUME NEW t, Clean(t), Tidy(t), NEW n \in Nat, 1 <= n, n <= Len(t.blocks)
    PROVE  Over(t, t, n)
BY DEF Over, Kept

\* Blocks are closed.
LEMMA OverCut ==
    ASSUME NEW t, Clean(t), Tidy(t), NEW t2, Clean(t2), NEW n \in Nat, 1 <= n,
           n <= Len(t.blocks), CutTo(t2, t, n)
    PROVE  Over(t2, t, n)
<1>1. Len(t2.blocks) = n /\ \A i \in 1 .. n : t2.blocks[i] = t.blocks[i]
  BY DEF CutTo
<1>2. DOMAIN t2.blocks = 1 .. n
  <2>1. t2.blocks \in Seq(Block)
    BY DEF Clean, Text
  <2> QED BY <1>1, <2>1, LenProperties
<1>3. /\ \A j \in 1 .. n - 1 : t2.blocks[j] = t.blocks[j]
      /\ t2.blocks[n] = t.blocks[n] /\ n <= Len(t2.blocks)
      /\ \A j \in DOMAIN t2.blocks : ~(j > n)
  BY <1>1, <1>2
<1> QED BY <1>3, OverInner

LEMMA EndOfListScoped ==
    ASSUME Inv, Scoped, EndOfList PROVE Scoped'
<1> DEFINE F == Front(calls)
           m == 1 + Owes(F)
<1>1. /\ phase = "body" /\ calls # << >> /\ Top.fun = "list" /\ calls' = F
      /\ phase' = IF Len(calls) = 1 THEN "return" ELSE phase
      /\ UNCHANGED <<text, params, types, limits>>
  BY DEF EndOfList
<1>2. ASSUME limits = {}
      PROVE  /\ Clean(text) /\ Tidy(text) /\ Settled(F, text.blocks) /\ F \in Seq(Frame)
             /\ m \in Nat /\ 1 <= m /\ Len(text.blocks) = m /\ Len(calls) = Len(F) + 1
             /\ Len(F) \in Nat /\ text.errors = {} /\ Len(params) <= 1
             /\ text.blocks[1].names \cap UserIds = {User(x) : x \in Known}
  <2>1. /\ Clean(text) /\ Tidy(text) /\ Frames(calls, text.blocks)
        /\ text.blocks[1].names \cap UserIds = {User(x) : x \in Known}
        /\ Stack(calls, {}) /\ Fits(Top, {}) /\ Owes(F) \in Nat /\ F \in Seq(Frame)
        /\ Len(text.blocks) = 1 + Owes(calls) /\ Owes(calls) = Owes(F) + Top.braces
    BY <1>1, <1>2, BodyIs
  <2>2. Top.braces = 0
    BY <1>1, <2>1 DEF Fits
  <2>3. calls \in Seq(Frame)
    BY <2>1 DEF Stack
  <2>4. Len(calls) = Len(F) + 1 /\ Len(F) \in Nat
    BY <1>1, <2>3, StackIs
  <2>5. Settled(F, text.blocks)
    BY <2>1 DEF Frames
  <2>6. m \in Nat /\ 1 <= m /\ Len(text.blocks) = m
    BY <2>1, <2>2
  <2>7. Len(params) <= 1 /\ text.errors = {}
    BY <1>1, <1>2 DEF Scoped
  <2> QED BY <2>1, <2>4, <2>5, <2>6, <2>7
<1>3. CASE Len(calls) = 1
  <2> SUFFICES ASSUME limits = {} PROVE Scoped'
    BY <1>1 DEF Scoped
  <2>1. F = << >>
    <3>1. Len(F) = 0 /\ F \in Seq(Frame)
      <4> HIDE DEF F
      <4> QED BY <1>2, <1>3
    <3> HIDE DEF F
    <3> QED BY <3>1, EmptySeq
  <2>2. m = 1
    <3>1. Owes(F) = 0
      BY <2>1, OwedFinite, EmptySeq
    <3> HIDE DEF F
    <3> QED BY <3>1
  <2>3. Len(text.blocks) = 1
    BY <1>2, <2>2
  <2>4. phase' = "return"
    BY <1>1, <1>3
  <2>5. Known' = Known
    BY <1>1 DEF Known
  <2> QED BY <1>1, <1>2, <2>3, <2>4, <2>5 DEF Scoped
<1>4. CASE Len(calls) # 1
  <2>1. phase' = "body"
    BY <1>1, <1>4
  <2>2. ASSUME limits' = {}
        PROVE  Over(text', text, m) /\ Frames(calls', text'.blocks)
    <3>1. limits = {}
      BY <1>1, <2>2
    <3>2. Over(text, text, m)
      <4> HIDE DEF m, F
      <4>1. /\ Clean(text) /\ Tidy(text) /\ m \in Nat /\ 1 <= m /\ m <= Len(text.blocks)
        BY <1>2, <3>1
      <4> QED BY <4>1, OverSame
    <3>3. F # << >>
      <4>1. Len(F) # 0
        <5> HIDE DEF F
        <5> QED BY <1>2, <1>4, <3>1
      <4> HIDE DEF F
      <4> QED BY <4>1, EmptySeq
    <3>4. Kept(text.blocks, text.blocks, 1 + Owes(F))
      BY <3>2 DEF Over
    <3>5. Settled(F, text.blocks) /\ F \in Seq(Frame)
      BY <1>2, <3>1
    <3> HIDE DEF F
    <3>6. Frames(F, text.blocks)
      BY <3>3, <3>4, <3>5, FramesStay
    <3> QED BY <1>1, <3>2, <3>6
  <2>3. limits' = {} => limits = {}
    BY <1>1
  <2> HIDE DEF m
  <2> QED BY <1>1, <2>1, <2>2, <2>3, ScopedGoesOn
<1> QED BY <1>3, <1>4

LEMMA EndLoopScoped ==
    ASSUME Inv, Scoped, EndLoop PROVE Scoped'
<1> DEFINE t == Closed(text, Top.braces)
           m == 1 + Owes(Front(calls))
<1>1. /\ phase = "body" /\ Top.fun # "list" /\ text' = t /\ calls' = Front(calls)
      /\ UNCHANGED <<params, types, phase, limits>>
  BY DEF EndLoop, Iterating
<1>2. ASSUME limits = {} PROVE Over(t, text, m)
  <2>1. /\ Clean(text) /\ Tidy(text) /\ m \in Nat /\ 1 <= m /\ Len(text.blocks) \in Nat
        /\ Len(text.blocks) = m + Top.braces /\ Top.braces \in Nat
    BY <1>1, <1>2, TopIs
  <2> HIDE DEF m
  <2>2. Top.braces < Len(text.blocks) /\ Len(text.blocks) - Top.braces = m
        /\ m <= Len(text.blocks)
    BY <2>1
  <2>3. Clean(t) /\ CutTo(t, text, m)
    <3>1. Clean(Closed(text, Top.braces))
          /\ CutTo(Closed(text, Top.braces), text, Len(text.blocks) - Top.braces)
      BY <2>1, <2>2, ClosedSound
    <3> QED BY <2>2, <3>1
  <2> HIDE DEF t
  <2> QED BY <2>1, <2>2, <2>3, OverCut
<1> HIDE DEF t
<1> QED BY <1>1, <1>2, PopScoped

LEMMA LoopActionScoped ==
    ASSUME Inv, Scoped, generate_loop_action PROVE Scoped'
<1> DEFINE g == [Top EXCEPT !.done = TRUE]
           m == 1 + Owes(Front(calls))
<1>1. /\ phase = "body" /\ Top.fun = "calls" /\ Top.at = 0 /\ ~Top.done
      /\ text' = text /\ calls' = SetTop(g) \o <<Call("expression")>>
      /\ UNCHANGED <<params, types, phase, limits>>
  BY DEF generate_loop_action, Iterating
<1>2. Top \in Frame
  BY <1>1, TopOK
<1>3. /\ g \in Frame /\ g.fun = "calls" /\ g.braces = Top.braces /\ g.at = 0 /\ g.var = Top.var
  BY <1>1, <1>2, DoneIs, DoneFrame
<1> HIDE DEF g
<1>4. ASSUME limits = {}
      PROVE  /\ Parked(g)
             /\ Over(text, text, m) /\ FrameOK(g, working, text.blocks, m, m + g.braces)
  <2>1. /\ Clean(text) /\ Tidy(text) /\ m \in Nat /\ 1 <= m /\ Len(text.blocks) \in Nat
        /\ Len(text.blocks) = m + Top.braces /\ Top.braces \in Nat
        /\ FrameOK(Top, working, text.blocks, m, Len(text.blocks))
    BY <1>1, <1>4, TopIs
  <2> HIDE DEF m
  <2>2. Over(text, text, m)
    <3>1. m <= Len(text.blocks)
      BY <2>1
    <3> QED BY <2>1, <3>1, OverSame
  <2>3. /\ m < Len(text.blocks)
        /\ {Top.var, LineLength, FileOf(working)} \subseteq Seen(text.blocks, Len(text.blocks))
    BY <1>1, <2>1 DEF FrameOK
  <2>4. Top.braces > 0
    BY <2>1, <2>3
  <2>5. FrameOK(g, working, text.blocks, m, Len(text.blocks))
    BY <1>3, <2>3 DEF FrameOK
  <2>6. Parked(g)
    BY <1>3, <2>4 DEF Parked
  <2> QED BY <1>3, <2>1, <2>2, <2>5, <2>6
<1> HIDE DEF m
<1>5. limits = {} =>
        LET k == 1 + Owes(Front(calls))
        IN  Over(text, text, k) /\ FrameOK(g, working, text.blocks, k, k + g.braces)
  BY <1>4 DEF m
<1> QED BY <1>1, <1>3, <1>4, <1>5, TopScoped

\* The block around a function's own one.
LEMMA AroundIs ==
    ASSUME NEW t, NEW B, NEW b, Sound(t, B, b), Len(B) >= 1
    PROVE  \E A \in Seq(Block), a \in Block :
              B = Append(A, a) /\ Len(B) = Len(A) + 1 /\ Len(A) \in Nat /\ B[Len(B)] = a
<1>1. B \in Seq(Block) /\ Len(B) \in Nat
  BY SoundIs DEF Sound
<1>2. B # << >>
  BY <1>1, EmptySeq
<1>3. PICK A \in Seq(Block), a \in Block : B = Append(A, a)
  BY <1>1, <1>2, BlocksByLast
<1>4. Len(Append(A, a)) = Len(A) + 1 /\ Append(A, a)[Len(A) + 1] = a
  BY AppendProperties
<1>5. Len(A) \in Nat
  BY LenProperties
<1> QED BY <1>3, <1>4, <1>5

LEMMA ElseFrees ==
    ASSUME NEW f \in Frame PROVE [f EXCEPT !.fun = "else"].frees = f.frees
BY DEF Frame

LEMMA EndThenScoped ==
    ASSUME Inv, Scoped, EndThen PROVE Scoped'
<1> DEFINE g == [Top EXCEPT !.fun = "else"]
           m == 1 + Owes(Front(calls))
           u == text ++ End
           t == u ++ Else
<1>1. /\ phase = "body" /\ Top.fun = "then"
      /\ text' = t /\ calls' = SetTop(g) \o <<Call("expression")>>
      /\ UNCHANGED <<params, types, phase, limits>>
  BY DEF EndThen
<1>2. Top \in Frame
  BY <1>1, TopOK
<1>3. g \in Frame /\ g.fun = "else" /\ g.braces = Top.braces /\ g.frees = Top.frees
  BY <1>2, ElseIs, ElseFrees
<1> HIDE DEF g
<1>4. Parked(g)
  BY <1>3 DEF Parked
<1>5. ASSUME limits = {}
      PROVE  Over(t, text, m) /\ FrameOK(g, working, t.blocks, m, m + g.braces)
  <2> DEFINE B == Front(text.blocks)
             b == Last(text.blocks)
             f == Fresh(FALSE)
  <2>1. /\ Clean(text) /\ Tidy(text) /\ m \in Nat /\ 1 <= m /\ Len(text.blocks) \in Nat
        /\ Len(text.blocks) = m + Top.braces /\ Fits(Top, {})
        /\ FrameOK(Top, working, text.blocks, m, Len(text.blocks)) /\ Sound(text, B, b)
    BY <1>1, <1>5, TopIs
  <2> HIDE DEF m
  <2>2. Top.braces = 1
    BY <1>1, <2>1 DEF Fits
  <2>3. Len(text.blocks) = m + 1
    BY <2>1, <2>2
  <2>4. text.blocks[m + 1].if
        /\ Range(Top.frees) \subseteq {Number} \cap (text.blocks[m].names \ text.blocks[m].freed)
    BY <1>1, <2>1, <2>3 DEF FrameOK
  <2> HIDE DEF B, b
  <2>5. /\ Len(B) = m /\ text.blocks[m + 1] = b
        /\ \A i \in 1 .. m : text.blocks[i] = B[i]
    <3>1. /\ Len(text.blocks) = Len(B) + 1 /\ Len(B) \in Nat
          /\ text.blocks[Len(B) + 1] = b
          /\ \A i \in 1 .. Len(B) : text.blocks[i] = B[i]
      BY <2>1, SoundIs
    <3>2. Len(B) = m
      BY <2>1, <2>3, <3>1
    <3> QED BY <3>1, <3>2
  <2>6. PICK A \in Seq(Block), a \in Block : B = Append(A, a)
    <3>1. Len(B) >= 1
      BY <2>1, <2>5
    <3> QED BY <2>1, <3>1, AroundIs
  <2>7. Sound(u, A, a) /\ u.after
    <3>1. Sound(text, Append(A, a), b)
      BY <2>1, <2>6
    <3>2. Sound(text ++ End, A, a) /\ (text ++ End).after = b.if
      BY <3>1, EndSound
    <3> QED BY <2>4, <2>5, <3>2
  <2> HIDE DEF u
  <2>8. Sound(t, B, f)
    BY <2>6, <2>7, ElseSound
  <2> HIDE DEF t
  <2>9. f.names = {}
    BY FreshIs
  <2> HIDE DEF f
  <2>10. /\ Clean(t) /\ Len(t.blocks) = m + 1 /\ DOMAIN t.blocks = 1 .. m + 1
         /\ t.blocks[m + 1] = f /\ \A i \in 1 .. m : t.blocks[i] = B[i]
    <3>1. /\ Len(t.blocks) = Len(B) + 1 /\ DOMAIN t.blocks = 1 .. Len(B) + 1
          /\ t.blocks[Len(B) + 1] = f
          /\ \A i \in 1 .. Len(B) : t.blocks[i] = B[i]
      BY <2>8, SoundIs
    <3> QED BY <2>5, <2>8, <3>1, SoundClean
  <2>11. \A i \in 1 .. m : t.blocks[i] = text.blocks[i]
    BY <2>5, <2>10
  <2>12. t.blocks[m] = text.blocks[m]
    BY <2>1, <2>11
  <2>13. Over(t, text, m)
    <3>1. /\ m <= Len(text.blocks) /\ m <= Len(t.blocks)
          /\ \A j \in 1 .. m - 1 : t.blocks[j] = text.blocks[j]
      BY <2>1, <2>3, <2>10, <2>11
    <3>2. \A j \in DOMAIN t.blocks : j > m => Newline \notin t.blocks[j].names
      <4> TAKE j \in DOMAIN t.blocks
      <4> HAVE j > m
      <4>1. j = m + 1
        BY <2>1, <2>10
      <4> QED BY <2>9, <2>10, <4>1
    <3> QED BY <2>1, <2>10, <2>12, <3>1, <3>2, OverInner
  <2>14. FrameOK(g, working, t.blocks, m, m + 1)
    <3>1. m < m + 1
      BY <2>1
    <3> QED BY <1>3, <2>4, <2>12, <3>1 DEF FrameOK
  <2> QED BY <1>3, <2>2, <2>13, <2>14
<1> HIDE DEF m, t
<1>6. limits = {} =>
        LET k == 1 + Owes(Front(calls))
        IN  Over(t, text, k) /\ FrameOK(g, working, t.blocks, k, k + g.braces)
  BY <1>5 DEF m
<1> QED BY <1>1, <1>3, <1>4, <1>6, TopScoped

LEMMA EndElseScoped ==
    ASSUME Inv, Scoped, EndElse PROVE Scoped'
<1> DEFINE m == 1 + Owes(Front(calls))
           frees == Range(Top.frees)
           u == text ++ End
           v == u ++ Free(frees)
           t == IF Top.frees = << >> THEN u ELSE v
<1>1. /\ phase = "body" /\ Top.fun = "else" /\ text' = t /\ calls' = Front(calls)
      /\ UNCHANGED <<params, types, phase, limits>>
  BY DEF EndElse
<1>2. Number \in Name
  BY OwnOK DEF Number
<1>3. ASSUME limits = {} PROVE Over(t, text, m)
  <2> DEFINE B == Front(text.blocks)
             b == Last(text.blocks)
  <2>1. /\ Clean(text) /\ Tidy(text) /\ m \in Nat /\ 1 <= m /\ Len(text.blocks) \in Nat
        /\ Len(text.blocks) = m + Top.braces /\ Fits(Top, {})
        /\ FrameOK(Top, working, text.blocks, m, Len(text.blocks)) /\ Sound(text, B, b)
    BY <1>1, <1>3, TopIs
  <2> HIDE DEF m
  <2>2. Top.braces = 1
    BY <1>1, <2>1 DEF Fits
  <2>3. Len(text.blocks) = m + 1
    BY <2>1, <2>2
  <2>4. frees \subseteq {Number} \cap (text.blocks[m].names \ text.blocks[m].freed)
    BY <1>1, <2>1 DEF FrameOK
  <2> HIDE DEF B, b, frees
  <2>5. Len(B) = m /\ \A i \in 1 .. m : text.blocks[i] = B[i]
    <3>1. /\ Len(text.blocks) = Len(B) + 1 /\ Len(B) \in Nat
          /\ \A i \in 1 .. Len(B) : text.blocks[i] = B[i]
      BY <2>1, SoundIs
    <3>2. Len(B) = m
      BY <2>1, <2>3, <3>1
    <3> QED BY <3>1, <3>2
  <2>6. PICK A \in Seq(Block), a \in Block :
           B = Append(A, a) /\ Len(B) = Len(A) + 1 /\ Len(A) \in Nat /\ B[Len(B)] = a
    <3>1. Len(B) >= 1
      BY <2>1, <2>5
    <3> QED BY <2>1, <3>1, AroundIs
  <2>7. Sound(u, A, a)
    <3>1. Sound(text, Append(A, a), b)
      BY <2>1, <2>6
    <3> QED BY <3>1, EndSound
  <2> HIDE DEF u
  <2>8. text.blocks[m] = a
    <3>1. m \in 1 .. m
      BY <2>1
    <3> QED BY <2>5, <2>6, <3>1
  <2>9. frees \in SUBSET Name /\ frees \subseteq {Number} /\ frees \subseteq Readable(A, a)
    BY <1>2, <2>4, <2>8 DEF Readable
  <2>10. PICK c \in Block : Sound(t, A, c) /\ c.names = a.names /\ c.if = a.if
    <3>1. CASE Top.frees = << >>
      BY <2>7, <3>1
    <3>2. CASE Top.frees # << >>
      <4>1. \E x \in Block : Sound(v, A, x) /\ x.names = a.names /\ x.if = a.if
        BY <2>7, <2>9, FreeSound
      <4> HIDE DEF v
      <4> QED BY <3>2, <4>1
    <3> QED BY <3>1, <3>2
  <2> HIDE DEF t
  <2>11. /\ Clean(t) /\ Len(t.blocks) = m /\ DOMAIN t.blocks = 1 .. m
         /\ t.blocks[m] = c /\ \A i \in 1 .. m - 1 : t.blocks[i] = A[i]
    <3>1. /\ Len(t.blocks) = Len(A) + 1 /\ DOMAIN t.blocks = 1 .. Len(A) + 1
          /\ t.blocks[Len(A) + 1] = c
          /\ \A i \in 1 .. Len(A) : t.blocks[i] = A[i]
      BY <2>10, SoundIs
    <3>2. Len(A) + 1 = m /\ Len(A) = m - 1
      BY <2>1, <2>5, <2>6
    <3> QED BY <2>10, <3>1, <3>2, SoundClean
  <2>12. \A i \in 1 .. m - 1 : t.blocks[i] = text.blocks[i]
    <3>1. \A i \in 1 .. Len(A) : Append(A, a)[i] = A[i]
      BY AppendProperties
    <3>2. Len(A) = m - 1 /\ \A i \in 1 .. m - 1 : i \in 1 .. m
      BY <2>1, <2>5, <2>6
    <3> QED BY <2>5, <2>6, <2>11, <3>1, <3>2
  <2>13. /\ m <= Len(text.blocks) /\ m <= Len(t.blocks)
         /\ \A j \in DOMAIN t.blocks : ~(j > m)
    BY <2>1, <2>3, <2>11
  <2> QED BY <2>1, <2>8, <2>10, <2>11, <2>12, <2>13, OverInner
<1> HIDE DEF t
<1> QED BY <1>1, <1>3, PopScoped

LEMMA AfterColumns ==
    ASSUME NEW f \in Frame
    PROVE  [f EXCEPT !.fun = "calls", !.var = User(@[2]), !.braces = 0,
                     !.done = TRUE, !.at = @ - 1].done = TRUE
BY DEF Frame

LEMMA EndColumnsScoped ==
    ASSUME Inv, Scoped, EndColumns PROVE Scoped'
<1> DEFINE g == [Top EXCEPT !.fun = "calls", !.var = User(@[2]), !.braces = 0,
                            !.done = TRUE, !.at = @ - 1]
           m == 1 + Owes(Front(calls))
           names == {Separator, User("output")}
           u == text ++ Check(names)
           t == Closed(u, Top.braces)
<1>1. /\ phase = "body" /\ Top.fun = "columns" /\ text' = t /\ calls' = SetTop(g)
      /\ UNCHANGED <<params, types, phase, limits>>
  BY DEF EndColumns
<1>2. Top \in Frame /\ Fits(Top, limits)
  BY <1>1, TopOK
<1>3. g \in Frame /\ g.fun = "calls" /\ g.braces = 0 /\ g.at = Top.at - 1 /\ g.done = TRUE
  <2>1. Top.at > 0
    BY <1>1, <1>2 DEF Fits
  <2> QED BY <1>2, <2>1, AfterColumnsIs, AfterColumns
<1> HIDE DEF g
<1>4. ASSUME limits = {}
      PROVE  Over(t, text, m) /\ FrameOK(g, working, t.blocks, m, m + g.braces)
  <2> DEFINE B == Front(text.blocks)
             b == Last(text.blocks)
  <2>1. /\ Clean(text) /\ Tidy(text) /\ m \in Nat /\ 1 <= m /\ Len(text.blocks) \in Nat
        /\ Len(text.blocks) = m + Top.braces /\ Top.braces \in Nat
        /\ FrameOK(Top, working, text.blocks, m, Len(text.blocks)) /\ Sound(text, B, b)
    BY <1>1, <1>4, TopIs
  <2> HIDE DEF m
  <2>2. names \subseteq Seen(text.blocks, Len(text.blocks)) /\ Top.at = 1
    BY <1>1, <2>1 DEF FrameOK
  <2>3. names \in SUBSET Name
    BY OwnOK
  <2>4. names \subseteq Readable(B, b)
    <3>1. Seen(text.blocks, Len(text.blocks)) \subseteq Readable(B, b)
      BY <2>1, SeenAll
    <3> QED BY <2>2, <3>1
  <2> HIDE DEF B, b, names
  <2>5. Sound(u, B, b)
    BY <2>1, <2>3, <2>4, UseSound
  <2> HIDE DEF u
  <2>6. Clean(u) /\ u.blocks = text.blocks
    BY <2>1, <2>5, SoundClean DEF Sound
  <2>7. Top.braces < Len(u.blocks) /\ Len(u.blocks) - Top.braces = m /\ m <= Len(text.blocks)
    BY <2>1, <2>6
  <2>8. Clean(t) /\ CutTo(t, u, m)
    <3>1. Clean(Closed(u, Top.braces))
          /\ CutTo(Closed(u, Top.braces), u, Len(u.blocks) - Top.braces)
      BY <2>1, <2>6, <2>7, ClosedSound
    <3> QED BY <2>7, <3>1
  <2> HIDE DEF t
  <2>9. CutTo(t, text, m)
    BY <2>6, <2>8 DEF CutTo
  <2>10. Over(t, text, m)
    BY <2>1, <2>7, <2>8, <2>9, OverCut
  <2>11. g.at = 0
    BY <1>3, <2>2
  <2>12. FrameOK(g, working, t.blocks, m, m + g.braces)
    BY <1>3, <2>11 DEF FrameOK
  <2> QED BY <2>10, <2>12
<1> HIDE DEF m, t
<1>5. limits = {} =>
        LET k == 1 + Owes(Front(calls))
        IN  Over(t, text, k) /\ FrameOK(g, working, t.blocks, k, k + g.braces)
  BY <1>4 DEF m
<1>6. g.fun # "list" /\ Top.fun # "list"
  BY <1>1, <1>3
<1> QED BY <1>1, <1>3, <1>5, <1>6, TopScoped

---------------------------------------------------------------------------
(* The calls of a loop. *)

\* Where a call of an ordered chain stands.
LEMMA OrderedAt ==
    ASSUME NEW chain, Ordered(chain), NEW at \in Nat, at > 0, at <= Len(chain)
    PROVE  LET next == IF at < Len(chain) THEN chain[at + 1] ELSE "none"
           IN  /\ chain[at] \in ByIndexes \cup {"lines", "columns"}
               /\ chain[at] = "lines" =>
                     /\ next \in ByIndexes \cup {"none"}
                     /\ at = 1 \/ (at = 2 /\ chain[1] = "columns")
               /\ chain[at] \in ByIndexes =>
                     at > 1 /\ chain[at - 1] = "lines" /\ ~(at < Len(chain))
               /\ chain[at] = "columns" =>
                     at = 1 /\ at < Len(chain) /\ chain[2] = "lines" /\ "columns" \in Range(chain)
<1>1. PICK p \in {1, 2} :
         /\ Len(chain) \in {p, p + 1}
         /\ chain[p] = "lines"
         /\ p = 2 => chain[1] = "columns" /\ "columns" \in Range(chain)
         /\ Len(chain) = p + 1 => chain[p + 1] \in ByIndexes
  BY OrderedShape
<1> DEFINE next == IF at < Len(chain) THEN chain[at + 1] ELSE "none"
<1>2. "lines" \notin ByIndexes /\ "columns" \notin ByIndexes
  BY DEF ByIndexes
<1>3. \/ at = p
      \/ at = p + 1 /\ Len(chain) = p + 1
      \/ at = 1 /\ p = 2
  BY <1>1
<1>4. CASE at = p
  <2>1. chain[at] = "lines"
    BY <1>1, <1>4
  <2>2. next \in ByIndexes \cup {"none"}
    <3>1. CASE Len(chain) = p
      BY <1>1, <1>4, <3>1
    <3>2. CASE Len(chain) = p + 1
      BY <1>1, <1>4, <3>2
    <3> QED BY <1>1, <3>1, <3>2
  <2>3. at = 1 \/ (at = 2 /\ chain[1] = "columns")
    BY <1>1, <1>4
  <2> QED BY <1>2, <2>1, <2>2, <2>3
<1>5. CASE at = p + 1 /\ Len(chain) = p + 1
  <2>1. chain[at] \in ByIndexes
    BY <1>1, <1>5
  <2>2. at > 1 /\ at - 1 = p /\ ~(at < Len(chain))
    BY <1>1, <1>5
  <2>3. chain[at - 1] = "lines"
    BY <1>1, <2>2
  <2> QED BY <1>2, <2>1, <2>2, <2>3
<1>6. CASE at = 1 /\ p = 2
  <2>1. chain[at] = "columns" /\ chain[2] = "lines" /\ "columns" \in Range(chain)
    BY <1>1, <1>6
  <2>2. at < Len(chain) /\ at + 1 = 2
    BY <1>1, <1>6
  <2> QED BY <1>2, <1>6, <2>1, <2>2
<1> QED BY <1>3, <1>4, <1>5, <1>6

StepFrame(f, braces) == [f EXCEPT !.at = @ - 1, !.braces = @ + braces]

LEMMA StepFrameIs ==
    ASSUME NEW f \in Frame, f.at > 0, NEW braces \in Nat
    PROVE  LET g == StepFrame(f, braces)
           IN  /\ g \in Frame /\ g.fun = f.fun /\ g.braces = f.braces + braces
               /\ g.chain = f.chain /\ g.at = f.at - 1
               /\ g.var = f.var /\ g.index = f.index
<1>1. /\ StepFrame(f, braces).var = f.var /\ StepFrame(f, braces).index = f.index
  BY DEF StepFrame, Frame
<1> QED BY <1>1, StepIs DEF StepFrame

\* A call of the loop has printed t.
LEMMA StepScoped ==
    ASSUME Inv, Scoped, Iterating, Top.at > 0, NEW t, NEW braces \in Nat, Step(t, braces),
           limits = {} =>
              LET m == 1 + Owes(Front(calls))
              IN  /\ Over(t, text, m)
                  /\ FrameOK(StepFrame(Top, braces), working, t.blocks, m,
                             m + (Top.braces + braces))
    PROVE  Scoped'
<1> DEFINE g == StepFrame(Top, braces)
<1>1. /\ phase = "body" /\ Top.fun = "calls" /\ text' = t /\ calls' = SetTop(g)
      /\ UNCHANGED <<params, types, phase, limits>>
  BY DEF Iterating, Step, StepFrame
<1>2. Top \in Frame
  BY <1>1, TopOK
<1>3. g \in Frame /\ g.fun = "calls" /\ g.braces = Top.braces + braces
  BY <1>1, <1>2, StepFrameIs
<1> HIDE DEF g
<1>4. limits = {} =>
        LET k == 1 + Owes(Front(calls))
        IN  Over(t, text, k) /\ FrameOK(g, working, t.blocks, k, k + g.braces)
  BY <1>3 DEF g
<1>5. g.fun # "list" /\ Top.fun # "list"
  BY <1>1, <1>3
<1> QED BY <1>1, <1>3, <1>4, <1>5, TopScoped

\* The loop on top, before it prints.
LEMMA LoopIs ==
    ASSUME Inv, Scoped, Iterating, Top.at > 0, limits = {}
    PROVE  LET bs == text.blocks
               m == 1 + Owes(Front(calls))
               n == Len(bs)
           IN  /\ Clean(text) /\ Tidy(text) /\ Sound(text, Front(bs), Last(bs))
               /\ bs[n] = Last(bs) /\ Last(bs) \in Block /\ Len(Front(bs)) + 1 = n
               /\ m \in Nat /\ 1 <= m /\ n \in Nat /\ m < n /\ n = m + Top.braces
               /\ Begun(Top, working, bs, m, n)
               /\ Seen(bs, n) \subseteq Readable(Front(bs), Last(bs))
               /\ Seen(bs, m) \subseteq Seen(bs, n)
               /\ Top \in Frame /\ Ordered(Top.chain) /\ Top.at \in Nat /\ Top.at <= Len(Top.chain)
               /\ Top.fun = "calls" /\ Top.braces \in Nat
<1> DEFINE bs == text.blocks
           m == 1 + Owes(Front(calls))
           n == Len(bs)
<1>1. phase = "body" /\ Top.fun = "calls"
  BY DEF Iterating
<1>2. /\ Clean(text) /\ Tidy(text) /\ Sound(text, Front(bs), Last(bs))
      /\ FrameOK(Top, working, bs, m, n)
      /\ m \in Nat /\ 1 <= m /\ n \in Nat /\ n = m + Top.braces
      /\ Top.braces \in Nat /\ Top \in Frame /\ Fits(Top, {})
  BY <1>1, TopIs
<1>3. /\ Len(bs) = Len(Front(bs)) + 1 /\ bs[Len(Front(bs)) + 1] = Last(bs)
      /\ Last(bs) \in Block
  BY <1>2, SoundIs DEF Sound
<1>4. Begun(Top, working, bs, m, n)
  BY <1>1, <1>2 DEF FrameOK
<1>5. m < n
  BY <1>4 DEF Begun
<1>6. Seen(bs, n) \subseteq Readable(Front(bs), Last(bs))
  BY <1>2, SeenAll
<1>7. Seen(bs, m) \subseteq Seen(bs, n)
  <2> HIDE DEF m, n
  <2>1. m <= n
    BY <1>2, <1>5
  <2> QED BY <1>2, <2>1, SeenAll
<1>8. Ordered(Top.chain) /\ Top.at <= Len(Top.chain)
  BY <1>1, <1>2 DEF Fits
<1>9. Top.at \in Nat
  BY <1>2 DEF Frame
<1> HIDE DEF m
<1> QED BY <1>1, <1>2, <1>3, <1>4, <1>5, <1>6, <1>7, <1>8, <1>9 DEF m

\* Blocks that begin as B, then c and perhaps others.
Above(A, B, c) ==
    /\ A \in Seq(Block) /\ Len(B) + 1 <= Len(A)
    /\ \A j \in 1 .. Len(B) : A[j] = B[j]
    /\ A[Len(B) + 1] = c
    /\ \A j \in 1 .. Len(A) : j > Len(B) => Newline \notin A[j].names

LEMMA AboveFirst ==
    ASSUME NEW B \in Seq(Block), NEW c \in Block, Newline \notin c.names
    PROVE  Above(Append(B, c), B, c) /\ Len(Append(B, c)) = Len(B) + 1
<1> DEFINE a == Append(B, c)
           n == Len(B)
<1>1. /\ a \in Seq(Block) /\ Len(a) = n + 1 /\ n \in Nat /\ a[n + 1] = c
      /\ \A i \in 1 .. n : a[i] = B[i]
  BY AppendProperties, LenProperties
<1> HIDE DEF a, n
<1>2. \A j \in 1 .. Len(a) : j > n => Newline \notin a[j].names
  <2> TAKE j \in 1 .. Len(a)
  <2> HAVE j > n
  <2>1. j = n + 1
    BY <1>1
  <2> QED BY <1>1, <2>1
<1>3. n + 1 <= Len(a)
  BY <1>1
<1>4. /\ a \in Seq(Block) /\ Len(B) + 1 <= Len(a)
      /\ \A j \in 1 .. Len(B) : a[j] = B[j]
      /\ a[Len(B) + 1] = c
      /\ \A j \in 1 .. Len(a) : j > Len(B) => Newline \notin a[j].names
      /\ Len(a) = Len(B) + 1
  BY <1>1, <1>2, <1>3 DEF n
<1>5. Above(a, B, c)
  BY <1>4 DEF Above
<1> QED BY <1>4, <1>5 DEF a

LEMMA AboveMore ==
    ASSUME NEW B \in Seq(Block), NEW c, NEW A, Above(A, B, c), NEW x \in Block,
           Newline \notin x.names
    PROVE  /\ Above(Append(A, x), B, c) /\ Len(Append(A, x)) = Len(A) + 1
           /\ Append(A, x)[Len(A) + 1] = x
<1> DEFINE a == Append(A, x)
           n == Len(B)
           k == Len(A)
<1>1. /\ A \in Seq(Block) /\ n + 1 <= k
      /\ \A j \in 1 .. n : A[j] = B[j]
      /\ A[n + 1] = c
      /\ \A j \in 1 .. k : j > n => Newline \notin A[j].names
  BY DEF Above
<1>2. /\ a \in Seq(Block) /\ Len(a) = k + 1 /\ a[k + 1] = x
      /\ \A i \in 1 .. k : a[i] = A[i]
  BY <1>1, AppendProperties
<1>3. k \in Nat /\ n \in Nat
  BY <1>1, LenProperties
<1> HIDE DEF a, n, k
<1>4. \A j \in 1 .. k + 1 : j > n => Newline \notin a[j].names
  <2> TAKE j \in 1 .. k + 1
  <2> HAVE j > n
  <2>1. CASE j = k + 1
    BY <1>2, <2>1
  <2>2. CASE j # k + 1
    <3>1. j \in 1 .. k
      BY <1>3, <2>2
    <3> QED BY <1>1, <1>2, <3>1
  <2> QED BY <2>1, <2>2
<1>5. /\ \A j \in 1 .. n : a[j] = B[j]
      /\ a[n + 1] = c /\ n + 1 <= Len(a)
  <2>1. \A j \in 1 .. n : j \in 1 .. k
    BY <1>1, <1>3
  <2>2. n + 1 \in 1 .. k
    BY <1>1, <1>3
  <2> QED BY <1>1, <1>2, <1>3, <2>1, <2>2
<1>6. Above(a, B, c)
  BY <1>2, <1>4, <1>5 DEF Above, n
<1> QED BY <1>2, <1>6 DEF a, k

\* What the callers and the loop find below them stays.
LEMMA InnerOver ==
    ASSUME Inv, Scoped, Iterating, Top.at > 0, limits = {}, NEW t, Clean(t),
           NEW c \in Block, Above(t.blocks, Front(text.blocks), c),
           Last(text.blocks).names \subseteq c.names, c.if = Last(text.blocks).if
    PROVE  LET m == 1 + Owes(Front(calls))
               n == Len(text.blocks)
               k == Len(t.blocks)
           IN  /\ Over(t, text, m)
               /\ Seen(text.blocks, n) \subseteq Seen(t.blocks, k)
               /\ Seen(text.blocks, m) \subseteq Seen(t.blocks, m)
               /\ n <= k /\ k \in Nat
<1> DEFINE bs == text.blocks
           vs == t.blocks
           m == 1 + Owes(Front(calls))
           n == Len(bs)
           k == Len(vs)
           B == Front(bs)
           b == Last(bs)
<1>1. /\ Clean(text) /\ Tidy(text) /\ Sound(text, B, b)
      /\ bs[n] = b /\ b \in Block /\ Len(B) + 1 = n
      /\ m \in Nat /\ 1 <= m /\ n \in Nat /\ m < n
  BY LoopIs
<1>2. /\ vs \in Seq(Block) /\ Len(B) + 1 <= k
      /\ \A j \in 1 .. Len(B) : vs[j] = B[j]
      /\ vs[Len(B) + 1] = c
      /\ \A j \in 1 .. k : j > Len(B) => Newline \notin vs[j].names
  BY DEF Above
<1>3. Len(B) \in Nat /\ \A i \in 1 .. Len(B) : bs[i] = B[i]
  BY <1>1, SoundIs
<1>4. k \in Nat /\ DOMAIN vs = 1 .. k
  BY <1>2, LenProperties
<1>5. b.names \subseteq c.names
  OBVIOUS
<1> HIDE DEF bs, vs, m, n, k, B, b
<1>6. Len(B) = n - 1
  BY <1>1, <1>3
<1>7. n <= k
  BY <1>1, <1>2
<1>8. /\ \A j \in 1 .. n - 1 : vs[j] = bs[j]
      /\ vs[n] = c
      /\ \A j \in DOMAIN vs : j > n - 1 => Newline \notin vs[j].names
  BY <1>1, <1>2, <1>3, <1>4, <1>6
<1>9. n - 1 \in 1 .. n - 1 /\ vs[n - 1] = bs[n - 1]
  <2>1. n - 1 \in 1 .. n - 1
    BY <1>1
  <2> QED BY <1>8, <2>1
<1>10. Over(t, text, n - 1)
  <2> DEFINE p == n - 1
  <2>1. /\ p \in Nat /\ 1 <= p /\ p <= Len(bs) /\ p <= Len(vs)
        /\ \A j \in 1 .. p - 1 : j \in 1 .. p
    BY <1>1, <1>4, <1>7 DEF n, k
  <2>2. /\ vs[p].names = bs[p].names /\ vs[p].if = bs[p].if
        /\ \A j \in 1 .. p : vs[j] = bs[j]
        /\ \A j \in DOMAIN vs : j > p => Newline \notin vs[j].names
    BY <1>8, <1>9
  <2> HIDE DEF p
  <2>3. \A j \in 1 .. p - 1 : vs[j] = bs[j]
    BY <2>1, <2>2
  <2>4. Over(t, text, p)
    BY <1>1, <2>1, <2>2, <2>3, OverInner DEF vs, bs
  <2> QED BY <2>4 DEF p
<1>11. Over(t, text, m)
  <2>1. m \in 1 .. n - 1 /\ m <= n /\ \A j \in 1 .. m - 1 : j \in 1 .. n - 1
    BY <1>1
  <2>2. vs[m] = bs[m] /\ \A j \in 1 .. m - 1 : vs[j] = bs[j]
    BY <1>8, <2>1
  <2>3. m <= Len(bs) /\ m <= Len(vs)
    BY <1>1, <1>4, <1>7, <2>1 DEF n, k
  <2>4. Kept(bs, vs, m)
    BY <2>2, <2>3 DEF Kept
  <2> QED BY <1>10, <2>4 DEF Over, bs, vs
<1>12. Seen(bs, n) \subseteq Seen(vs, k)
  <2> SUFFICES ASSUME NEW j \in 1 .. n PROVE \E i \in 1 .. k : bs[j].names \subseteq vs[i].names
    BY DEF Seen
  <2>1. j \in 1 .. k
    BY <1>1, <1>4, <1>7
  <2>2. CASE j = n
    BY <1>1, <1>5, <1>8, <2>1, <2>2
  <2>3. CASE j # n
    <3>1. j \in 1 .. n - 1
      BY <1>1, <2>3
    <3> QED BY <1>8, <2>1, <3>1
  <2> QED BY <2>2, <2>3
<1>13. Seen(bs, m) \subseteq Seen(vs, m)
  <2>1. Kept(bs, vs, m)
    BY <1>11 DEF Over, bs, vs
  <2>2. m <= m
    BY <1>1
  <2> QED BY <1>1, <2>1, <2>2, SeenKept
<1> QED BY <1>4, <1>7, <1>11, <1>12, <1>13 DEF bs, vs, m, n, k

\* What the innermost block of a loop declares before its lines.
LEMMA BegunIs ==
    ASSUME Inv, Scoped, Iterating, Top.at > 0, limits = {}
    PROVE  LET bs == text.blocks
               m == 1 + Owes(Front(calls))
               n == Len(bs)
               file == FileOf(working)
               b == Last(bs)
           IN  /\ Top.var \in {User(x) : x \in LoopNames} /\ Top.var \in Name
               /\ file \in Name /\ file \in Seen(bs, n) /\ working \in Name
               /\ "columns" \in Range(Top.chain) => User("output") \in Seen(bs, m)
               /\ Top.index \in {NULL, Top.var} \cup Seen(bs, m)
               /\ Top.chain[Top.at] # "columns" => b.names \subseteq {Own("i"), file, ByIndexOf}
               /\ Top.chain[Top.at] = "lines" /\ Following = "byIndex range" =>
                     ByIndexOf \in Seen(bs, n)
               /\ Top.chain[Top.at] = "columns" =>
                     /\ {Top.var, LineLength} \subseteq Seen(bs, n)
                     /\ b.names \subseteq {Own("i"), file, ByIndexOf, LineLength, Top.var}
<1>1. /\ Begun(Top, working, text.blocks, 1 + Owes(Front(calls)), Len(text.blocks))
      /\ text.blocks[Len(text.blocks)] = Last(text.blocks) /\ Top \in Frame
  BY LoopIs
<1>2. working \in Name
  BY MentionedOK DEF Iterating
<1>3. FileOf(working) \in Name
  BY <1>2, NamesOK
<1>4. Top.var \in Name
  BY <1>1 DEF Frame
<1> QED BY <1>1, <1>2, <1>3, <1>4 DEF Begun, Following

\* Kinds of the names that a loop declares.
LEMMA LoopKinds ==
    ASSUME NEW var \in {User(x) : x \in LoopNames}, NEW file, file = FileOf(working)
    PROVE  LET own == {Own("i"), ByIndexOf, LineLength, Own("_line_line"), Remaining, Separator,
                       Own("_columns_len_implementation")}
           IN  /\ Newline \notin own \cup {file, var, Column(var)}
               /\ Number \notin own \cup {file, var, Column(var)}
               /\ LineLength \notin {Own("i"), file, ByIndexOf}
               /\ var \notin {Own("i"), file, ByIndexOf, LineLength}
               /\ Column(var) \notin own \cup {file, var}
<1> DEFINE own == {Own("i"), ByIndexOf, LineLength, Own("_line_line"), Remaining, Separator,
                   Own("_columns_len_implementation")}
<1>1. PICK x \in LoopNames : var = User(x)
  OBVIOUS
<1>2. Newline \notin own /\ Number \notin own /\ LineLength \notin {Own("i"), ByIndexOf}
  BY KindsOfNames DEF Newline, Number, ByIndexOf, LineLength, Remaining, Separator
<1>3. \A y : /\ User(x) # Own(y) /\ file # Own(y) /\ Column(var) # Own(y)
             /\ file # User(x) /\ Column(var) # User(x) /\ file # Column(var)
  BY KindsOfNames
<1> QED BY <1>1, <1>2, <1>3 DEF Newline, Number, ByIndexOf, LineLength, Remaining, Separator

\* The line, and the variable that reads it, are declared.
LEMMA LinesDone ==
    ASSUME Inv, Scoped, Iterating, Top.at > 0, limits = {}, Top.chain[Top.at] = "lines",
           NEW t, NEW c, Sound(t, Front(text.blocks), c),
           c.names = Last(text.blocks).names \cup {LineLength, Top.var},
           c.if = Last(text.blocks).if
    PROVE  LET m == 1 + Owes(Front(calls))
           IN  /\ Over(t, text, m)
               /\ FrameOK(StepFrame(Top, 0), working, t.blocks, m, m + (Top.braces + 0))
<1> DEFINE bs == text.blocks
           vs == t.blocks
           B == Front(bs)
           b == Last(bs)
           m == 1 + Owes(Front(calls))
           n == Len(bs)
           file == FileOf(working)
           g == StepFrame(Top, 0)
<1>1. /\ Len(B) + 1 = n /\ m \in Nat /\ 1 <= m /\ n \in Nat /\ m < n /\ n = m + Top.braces
      /\ Top \in Frame /\ Ordered(Top.chain) /\ Top.at \in Nat /\ Top.at <= Len(Top.chain)
      /\ Top.fun = "calls" /\ Top.braces \in Nat
  BY LoopIs
<1>2. /\ Top.var \in {User(x) : x \in LoopNames} /\ file \in Seen(bs, n)
      /\ "columns" \in Range(Top.chain) => User("output") \in Seen(bs, m)
      /\ Top.index \in {NULL, Top.var} \cup Seen(bs, m)
      /\ b.names \subseteq {Own("i"), file, ByIndexOf}
  BY BegunIs
<1>3. c \in Block /\ vs = Append(B, c) /\ B \in Seq(Block) /\ Clean(t)
  BY SoundClean DEF Sound
<1>4. b.names \subseteq c.names /\ c.if = b.if
  OBVIOUS
<1>5. LineLength \in c.names /\ Top.var \in c.names /\ c.names = b.names \cup {LineLength, Top.var}
  OBVIOUS
<1>6. /\ Newline \notin {Own("i"), file, ByIndexOf, LineLength, Top.var}
      /\ Number \notin {LineLength, Top.var}
  BY <1>2, LoopKinds
<1>7. /\ g \in Frame /\ g.fun = "calls" /\ g.chain = Top.chain /\ g.at = Top.at - 1
      /\ g.var = Top.var /\ g.index = Top.index
  BY <1>1, StepFrameIs
<1> HIDE DEF bs, vs, B, b, file, g
<1>8. Newline \notin c.names
  BY <1>2, <1>5, <1>6
<1>9. Above(vs, B, c) /\ Len(vs) = n /\ vs[n] = c
  <2>1. Above(Append(B, c), B, c) /\ Len(Append(B, c)) = Len(B) + 1
    BY <1>3, <1>8, AboveFirst
  <2>2. Above(vs, B, c) /\ Len(vs) = n
    BY <1>1, <1>3, <2>1
  <2>3. vs[Len(B) + 1] = c
    BY <2>2 DEF Above
  <2> QED BY <1>1, <2>2, <2>3
<1>10. Over(t, text, m) /\ Seen(bs, n) \subseteq Seen(vs, n) /\ Seen(bs, m) \subseteq Seen(vs, m)
  <2>1. /\ Over(t, text, m)
        /\ Seen(bs, n) \subseteq Seen(vs, Len(vs))
        /\ Seen(bs, m) \subseteq Seen(vs, m)
    BY <1>3, <1>4, <1>9, InnerOver DEF bs, vs, B, b
  <2> QED BY <1>9, <2>1
<1> HIDE DEF m, n
<1>11. {Top.var, LineLength, file} \subseteq Seen(vs, n)
  <2>1. n \in 1 .. n
    BY <1>1
  <2>2. {Top.var, LineLength} \subseteq Seen(vs, n)
    BY <1>5, <1>6, <1>9, <2>1 DEF Seen
  <2> QED BY <1>2, <1>10, <2>2
<1>12. Top.at = 1 \/ (Top.at = 2 /\ Top.chain[1] = "columns")
  BY <1>1, OrderedAt
<1>13. FrameOK(g, working, vs, m, n)
  <2>1. CASE Top.at = 1
    <3>1. g.at = 0
      BY <1>7, <2>1
    <3> QED BY <1>1, <1>7, <1>11, <3>1 DEF FrameOK, file
  <2>2. CASE Top.at = 2 /\ Top.chain[1] = "columns"
    <3>1. g.at = 1 /\ g.chain[g.at] = "columns"
      BY <1>7, <2>2
    <3>2. User("output") \in Seen(bs, m)
      <4>1. "columns" \in Range(Top.chain)
        <5>1. Top.chain[1] = "columns" /\ 1 \in Nat /\ 1 > 0 /\ 1 <= Len(Top.chain)
          BY <1>1, <2>2
        <5> QED BY <1>1, <5>1, OrderedAt
      <4> QED BY <1>2, <4>1
    <3>3. vs[n].names \subseteq {Own("i"), file, ByIndexOf, LineLength, Top.var}
      BY <1>2, <1>5, <1>9
    <3>4. Begun(g, working, vs, m, n)
      BY <1>1, <1>2, <1>7, <1>10, <1>11, <3>1, <3>2, <3>3 DEF Begun, file
    <3> QED BY <1>7, <3>1, <3>4 DEF FrameOK
  <2> QED BY <1>12, <2>1, <2>2
<1>14. m + (Top.braces + 0) = n
  BY <1>1
<1> QED BY <1>10, <1>13, <1>14 DEF m, vs, g

LEMMA CallLinesScoped ==
    ASSUME Inv, Scoped, CallLines PROVE Scoped'
<1> DEFINE l1 == text ++ Var(LineLength)
           line == Allocated(l1, Top.var)
           index == IF Following = "byIndex" THEN IndexNames ELSE {}
           names == {FileOf(working), Top.var} \cup index
           read == line ++ Use(names)
           r1 == read ++ Check({LineLength})
           r2 == read ++ Check({LineLength, ByIndexOf})
           f == Filtered(line)
           m == 1 + Owes(Front(calls))
           Fine(t) == /\ Over(t, text, m)
                      /\ FrameOK(StepFrame(Top, 0), working, t.blocks, m, m + (Top.braces + 0))
<1>1. /\ Iterating /\ Top.at > 0 /\ Top.chain[Top.at] = "lines"
      /\ \/ Step(r1, 0)
         \/ Following = "byIndex range" /\ Step(r2, 0)
         \/ Following = "filter" /\ Step(f, 2)
         \/ Step(line, 0)
  BY DEF CallLines, ByIndexOf
<1>2. ASSUME limits = {}
      PROVE  /\ Fine(r1) /\ Fine(line) /\ Following # "filter"
             /\ Following = "byIndex range" => Fine(r2)
  <2> DEFINE bs == text.blocks
             n == Len(bs)
             B == Front(bs)
             b == Last(bs)
             file == FileOf(working)
             c == With(b, {LineLength})
             d == With(c, {Top.var})
             read1 == Readable(B, b)
             read2 == Readable(B, c)
             read3 == Readable(B, d)
  <2>1. /\ Sound(text, B, b) /\ b \in Block
        /\ Seen(bs, n) \subseteq read1 /\ Seen(bs, m) \subseteq Seen(bs, n)
        /\ Top \in Frame /\ Ordered(Top.chain) /\ Top.at \in Nat /\ Top.at <= Len(Top.chain)
    BY <1>1, <1>2, LoopIs
  <2>2. /\ Top.var \in {User(x) : x \in LoopNames} /\ Top.var \in Name
        /\ file \in Name /\ file \in Seen(bs, n)
        /\ Top.index \in {NULL, Top.var} \cup Seen(bs, m) /\ b.names \subseteq {Own("i"), file, ByIndexOf}
        /\ Following = "byIndex range" => ByIndexOf \in Seen(bs, n)
    <3>1. Top.chain[Top.at] # "columns"
      BY <1>1
    <3> QED BY <1>1, <1>2, <3>1, BegunIs
  <2>3. /\ LineLength \notin {Own("i"), file, ByIndexOf}
        /\ Top.var \notin {Own("i"), file, ByIndexOf, LineLength}
    BY <2>2, LoopKinds
  <2>4. Following # "filter"
    <3>1. Following \in ByIndexes \cup {"none"}
      BY <1>1, <2>1, OrderedAt DEF Following
    <3> QED BY <3>1 DEF ByIndexes
  <2>5. LineLength \in Name /\ ByIndexOf \in Name
    BY OwnOK DEF ByIndexOf, LineLength
  <2>6. /\ {LineLength} \in SUBSET Name /\ {Top.var} \in SUBSET Name
        /\ {LineLength, ByIndexOf} \in SUBSET Name
    BY <2>2, <2>5
  <2>7. index \subseteq {Top.var} \cup Seen(bs, n) /\ index \in SUBSET Name
    <3>1. IndexNames \subseteq {Top.var} \cup Seen(bs, n)
      BY <2>1, <2>2 DEF IndexNames
    <3>2. Top.index \in Name
      BY <2>1 DEF Frame
    <3>3. IndexNames \in SUBSET Name
      BY <3>2 DEF IndexNames
    <3> QED BY <3>1, <3>3
  <2> HIDE DEF index, B, b, file
  <2>8. c \in Block /\ c.names = b.names \cup {LineLength} /\ c.if = b.if
    BY <2>1, <2>6, WithIs
  <2>9. Sound(l1, B, c)
    <3>1. LineLength \notin b.names
      BY <2>2, <2>3
    <3> QED BY <2>1, <2>5, <3>1, VarSound
  <2>10. read1 \cup {LineLength} \subseteq read2
    BY <2>1, <2>6, ReadableWith
  <2> HIDE DEF l1, c
  <2>11. d \in Block /\ d.names = c.names \cup {Top.var} /\ d.if = c.if
    BY <2>6, <2>8, WithIs
  <2>12. Sound(line, B, d)
    <3>1. Top.var \notin c.names
      BY <2>2, <2>3, <2>8
    <3> QED BY <2>2, <2>9, <3>1, AllocatedSound
  <2>13. read2 \cup {Top.var} \subseteq read3
    BY <2>6, <2>8, ReadableWith
  <2> HIDE DEF line, d, read1, read2
  <2>14. /\ d.names = b.names \cup {LineLength, Top.var} /\ d.if = b.if
         /\ Seen(bs, n) \cup {LineLength, Top.var} \subseteq read3
    BY <2>1, <2>8, <2>10, <2>11, <2>13
  <2>15. Sound(read, B, d)
    <3>1. names \subseteq read3 /\ names \in SUBSET Name
      BY <2>2, <2>7, <2>14 DEF file
    <3> HIDE DEF names
    <3> QED BY <2>12, <3>1, UseSound DEF read3
  <2> HIDE DEF read, names
  <2>16. Sound(r1, B, d)
    <3>1. {LineLength} \subseteq read3
      BY <2>14
    <3> QED BY <2>6, <2>15, <3>1, UseSound DEF read3
  <2>17. Following = "byIndex range" => Sound(r2, B, d)
    <3> SUFFICES ASSUME Following = "byIndex range" PROVE Sound(r2, B, d)
      OBVIOUS
    <3>1. {LineLength, ByIndexOf} \subseteq read3
      BY <2>2, <2>14
    <3> QED BY <2>6, <2>15, <3>1, UseSound DEF read3
  <2> HIDE DEF r1, r2, m
  <2>18. \A t : Sound(t, B, d) => Fine(t)
    <3> TAKE t
    <3> HAVE Sound(t, B, d)
    <3>1. /\ Sound(t, Front(text.blocks), d)
          /\ d.names = Last(text.blocks).names \cup {LineLength, Top.var}
          /\ d.if = Last(text.blocks).if
      BY <2>14 DEF B, b
    <3> QED BY <1>1, <1>2, <3>1, LinesDone DEF m
  <2> HIDE DEF Fine
  <2> QED BY <2>4, <2>12, <2>16, <2>17, <2>18
<1> HIDE DEF r1, r2, line, f
<1>3. \A t : Step(t, 0) /\ (limits = {} => Fine(t)) => Scoped'
  <2> TAKE t
  <2> HAVE Step(t, 0) /\ (limits = {} => Fine(t))
  <2>1. 0 \in Nat
    OBVIOUS
  <2> QED BY <1>1, <2>1, StepScoped
<1>4. Step(f, 2) /\ limits # {} => Scoped'
  <2> SUFFICES ASSUME Step(f, 2), limits # {} PROVE Scoped'
    OBVIOUS
  <2>1. limits' = limits
    BY DEF Step
  <2> QED BY <2>1 DEF Scoped
<1> HIDE DEF Fine
<1> QED BY <1>1, <1>2, <1>3, <1>4

LEMMA CallFilterScoped ==
    ASSUME Inv, Scoped, CallFilter PROVE Scoped'
<1>1. /\ Iterating /\ Top.at > 0 /\ Top.chain[Top.at] = "filter"
      /\ limits' = limits
  BY DEF CallFilter, Step
<1>2. limits # {}
  <2> SUFFICES ASSUME limits = {} PROVE FALSE
    OBVIOUS
  <2>1. Ordered(Top.chain) /\ Top.at \in Nat /\ Top.at <= Len(Top.chain)
    BY <1>1, LoopIs
  <2>2. Top.chain[Top.at] \in ByIndexes \cup {"lines", "columns"}
    BY <1>1, <2>1, OrderedAt
  <2> QED BY <1>1, <2>2 DEF ByIndexes
<1> QED BY <1>1, <1>2 DEF Scoped

LEMMA CallFailsScoped ==
    ASSUME Inv, Scoped, CallFails PROVE Scoped'
<1>1. /\ Iterating /\ Top.at > 0
      /\ Top.chain[Top.at] \notin ByIndexes \cup {"lines", "filter", "columns"}
      /\ limits' = limits
  BY DEF CallFails
<1>2. limits # {}
  <2> SUFFICES ASSUME limits = {} PROVE FALSE
    OBVIOUS
  <2>1. Ordered(Top.chain) /\ Top.at \in Nat /\ Top.at <= Len(Top.chain)
    BY <1>1, LoopIs
  <2>2. Top.chain[Top.at] \in ByIndexes \cup {"lines", "columns"}
    BY <1>1, <2>1, OrderedAt
  <2> QED BY <1>1, <2>2
<1> QED BY <1>1, <1>2 DEF Scoped

LEMMA CallByIndexScoped ==
    ASSUME Inv, Scoped, CallByIndex PROVE Scoped'
<1> DEFINE t1 == text ++ While({})
           t2 == t1 ++ Var(ByIndexOf)
           m == 1 + Owes(Front(calls))
           ranged == Top.chain[Top.at] = "byIndex range"
           Fine(t, k) ==
               /\ Over(t, text, m)
               /\ FrameOK(StepFrame(Top, k), working, t.blocks, m, m + (Top.braces + k))
<1>1. /\ Iterating /\ Top.at > 0 /\ Top.chain[Top.at] \in ByIndexes
      /\ \/ ~ranged /\ Step(text, 0)
         \/ Step(t2, 1)
  BY DEF CallByIndex, ByIndexes, ByIndexOf
<1> HIDE DEF ranged
<1>2. ASSUME limits = {}
      PROVE  Fine(t2, 1) /\ (~ranged => Fine(text, 0))
  <2> DEFINE bs == text.blocks
             n == Len(bs)
             B == Front(bs)
             b == Last(bs)
             A == Append(B, b)
             x == Fresh(FALSE)
             c == With(x, {ByIndexOf})
             file == FileOf(working)
  <2>0. /\ Clean(text) /\ Tidy(text) /\ Sound(text, B, b) /\ b \in Block /\ B \in Seq(Block)
        /\ bs = A /\ Len(B) + 1 = n
    BY <1>1, <1>2, LoopIs DEF Sound
  <2> DEFINE braces == Top.braces
             at == Top.at
             chain == Top.chain
  <2>1. /\ m \in Nat /\ 1 <= m /\ n \in Nat /\ m < n /\ n = m + braces /\ braces \in Nat
        /\ at \in Nat
    BY <1>1, <1>2, LoopIs
  <2>1a. /\ Top \in Frame /\ Ordered(Top.chain) /\ Top.at <= Len(Top.chain)
         /\ Top.fun = "calls"
    BY <1>1, <1>2, LoopIs
  <2>2. /\ Top.var \in {User(y) : y \in LoopNames} /\ file \in Seen(bs, n)
        /\ "columns" \in Range(Top.chain) => User("output") \in Seen(bs, m)
        /\ Top.index \in {NULL, Top.var} \cup Seen(bs, m)
        /\ b.names \subseteq {Own("i"), file, ByIndexOf}
    <3>1. Top.chain[Top.at] # "columns"
      BY <1>1 DEF ByIndexes
    <3> QED BY <1>1, <1>2, <3>1, BegunIs
  <2>3. Newline \notin {Own("i"), file, ByIndexOf} /\ Number # ByIndexOf
    BY <2>2, LoopKinds DEF file
  <2>4. Top.at > 1 /\ Top.chain[Top.at - 1] = "lines" /\ "lines" # "columns"
    <3>1. Top.at > 1 /\ Top.chain[Top.at - 1] = "lines"
      BY <1>1, <2>1, <2>1a, OrderedAt
    <3> QED BY <3>1
  <2>5. ByIndexOf \in Name /\ {ByIndexOf} \in SUBSET Name /\ {} \in SUBSET Name
    BY OwnOK DEF ByIndexOf
  <2> HIDE DEF braces, at, chain, B, b, file, m, A, bs, n, x, c, t1, t2, Fine
  <2>6. \A k \in Nat : LET g == StepFrame(Top, k)
                       IN  /\ g.fun = "calls" /\ g.at = Top.at - 1 /\ g.at > 0
                           /\ g.chain = Top.chain /\ g.var = Top.var /\ g.index = Top.index
    <3> TAKE k \in Nat
    <3> QED BY <1>1, <2>1, <2>1a, <2>4, StepFrameIs DEF at
  \* What the next call, lines, depends on.
  <2>7. \A k \in Nat : \A vs :
           LET p == m + (braces + k)
           IN  /\ m < p /\ Seen(bs, n) \subseteq Seen(vs, p) /\ Seen(bs, m) \subseteq Seen(vs, m)
               /\ vs[p].names \subseteq {Own("i"), file, ByIndexOf}
               /\ ranged => ByIndexOf \in Seen(vs, p)
               => FrameOK(StepFrame(Top, k), working, vs, m, p)
    <3> TAKE k \in Nat
    <3> TAKE vs
    <3> DEFINE p == m + (braces + k)
               g == StepFrame(Top, k)
    <3> SUFFICES ASSUME m < p, Seen(bs, n) \subseteq Seen(vs, p), Seen(bs, m) \subseteq Seen(vs, m),
                        vs[p].names \subseteq {Own("i"), file, ByIndexOf},
                        ranged => ByIndexOf \in Seen(vs, p)
                 PROVE  FrameOK(g, working, vs, m, p)
      OBVIOUS
    <3>1. /\ g.fun = "calls" /\ g.at = Top.at - 1 /\ g.at > 0
          /\ g.chain = Top.chain /\ g.var = Top.var /\ g.index = Top.index
      BY <2>6
    <3> HIDE DEF g, p
    <3>2. g.at + 1 = Top.at /\ g.chain[g.at] = "lines" /\ g.chain[g.at + 1] = Top.chain[Top.at]
      <4>1. g.at + 1 = at
        BY <2>1, <3>1 DEF at
      <4> QED BY <2>4, <3>1, <4>1 DEF at
    <3>3. /\ g.var \in {User(y) : y \in LoopNames} /\ FileOf(working) \in Seen(vs, p)
          /\ "columns" \in Range(g.chain) => User("output") \in Seen(vs, m)
          /\ g.index \in {NULL, g.var} \cup Seen(vs, m)
          /\ vs[p].names \subseteq {Own("i"), FileOf(working), ByIndexOf}
      BY <2>2, <3>1 DEF file
    <3>4. g.chain[g.at] # "columns"
      BY <2>4, <3>2
    <3> DEFINE next == IF g.at < Len(g.chain) THEN g.chain[g.at + 1] ELSE "none"
    <3>5. next = "byIndex range" => ByIndexOf \in Seen(vs, p)
      <4>1. g.at < Len(g.chain)
        BY <2>1, <2>1a, <3>1, <3>2 DEF at
      <4>2. next = Top.chain[Top.at]
        BY <3>2, <4>1
      <4> HIDE DEF next
      <4>3. next = "byIndex range" => ranged
        BY <4>2 DEF ranged
      <4> QED BY <4>3
    <3>6. Begun(g, working, vs, m, p)
      BY <3>3, <3>4, <3>5 DEF Begun
    <3> QED BY <3>1, <3>6 DEF FrameOK
  <2>8. ~ranged => Fine(text, 0)
    <3> SUFFICES ASSUME ~ranged PROVE Fine(text, 0)
      OBVIOUS
    <3>1. Over(text, text, m)
      <4>1. m <= n
        BY <2>1
      <4> QED BY <2>0, <2>1, <4>1, OverSame DEF n, bs
    <3>2. m + (braces + 0) = n
      BY <2>1
    <3>3. bs[n].names \subseteq {Own("i"), file, ByIndexOf}
      <4>1. bs[n] = b
        BY <1>1, <1>2, LoopIs DEF b, bs, n
      <4> QED BY <2>2, <4>1
    <3>4. FrameOK(StepFrame(Top, 0), working, bs, m, n)
      <4>1. 0 \in Nat
        OBVIOUS
      <4> HIDE DEF bs, n
      <4> QED BY <2>1, <2>7, <3>2, <3>3, <4>1, <1>1
    <3> QED BY <3>1, <3>2, <3>4 DEF Fine, bs, braces
  <2>9. x \in Block /\ x.names = {}
    BY FreshIs DEF x
  <2>10. Sound(t1, A, x)
    <3>1. {} \subseteq Readable(B, b)
      OBVIOUS
    <3> QED BY <2>0, <2>5, <3>1, OpenSound DEF t1, A, x
  <2>11. c \in Block /\ c.names = {ByIndexOf}
    <3>1. c \in Block /\ c.names = x.names \cup {ByIndexOf}
      BY <2>5, <2>9, WithIs DEF c
    <3> QED BY <2>9, <3>1
  <2>12. Sound(t2, A, c)
    BY <2>5, <2>9, <2>10, VarSound DEF c, t2
  <2> DEFINE vs == t2.blocks
             k == Len(vs)
  <2>13. Clean(t2) /\ vs = Append(A, c)
    BY <2>12, SoundClean DEF Sound
  <2> HIDE DEF vs
  <2>14. Above(vs, B, b) /\ k = n + 1 /\ vs[k] = c
    <3>1. Newline \notin b.names /\ Newline \notin c.names
      BY <2>2, <2>3, <2>11
    <3>2. Above(A, B, b) /\ Len(A) = Len(B) + 1
      BY <2>0, <3>1, AboveFirst DEF A
    <3>3. Above(Append(A, c), B, b) /\ Len(Append(A, c)) = Len(A) + 1
          /\ Append(A, c)[Len(A) + 1] = c
      BY <2>0, <2>11, <3>1, <3>2, AboveMore
    <3> QED BY <2>0, <2>13, <3>2, <3>3
  <2>15. /\ Over(t2, text, m) /\ Seen(bs, n) \subseteq Seen(vs, k)
         /\ Seen(bs, m) \subseteq Seen(vs, m)
    <3>1. /\ Above(t2.blocks, Front(text.blocks), b)
          /\ Last(text.blocks).names \subseteq b.names /\ b.if = Last(text.blocks).if
      BY <2>14 DEF vs, B, b, bs
    <3> QED BY <1>1, <1>2, <2>0, <2>13, <3>1, InnerOver DEF vs, m, bs, n, k
  <2>16. k = m + (braces + 1) /\ m < k /\ k \in Nat /\ k \in 1 .. k
    BY <2>1, <2>14
  <2> HIDE DEF k
  <2>17. ByIndexOf \in Seen(vs, k)
    BY <2>3, <2>11, <2>14, <2>16 DEF Seen
  <2>18. vs[k].names \subseteq {Own("i"), file, ByIndexOf}
    BY <2>11, <2>14
  <2>19. FrameOK(StepFrame(Top, 1), working, vs, m, k)
    <3>1. 1 \in Nat
      OBVIOUS
    <3> QED BY <2>7, <2>15, <2>16, <2>17, <2>18, <3>1
  <2> QED BY <2>8, <2>15, <2>16, <2>19 DEF vs, Fine, braces
<1> HIDE DEF t2
<1>3. \A t : \A k \in Nat : Step(t, k) /\ (limits = {} => Fine(t, k)) => Scoped'
  <2> TAKE t
  <2> TAKE k \in Nat
  <2> HAVE Step(t, k) /\ (limits = {} => Fine(t, k))
  <2> QED BY <1>1, StepScoped
<1>4. 0 \in Nat /\ 1 \in Nat
  OBVIOUS
<1> HIDE DEF Fine
<1> QED BY <1>1, <1>2, <1>3, <1>4

ColumnsLength == Own("_columns_len_implementation")
ColumnsLine == Own("_line_line")

\* What every loop over columns prints last.
ColumnsText(t, file, column) ==
    Allocated(t ++ Var(ColumnsLength), column)
       ++ While({Remaining}) ++ Var(Separator)
       ++ Use({Remaining, file, column}) ++ If({column, ColumnsLength})

\* It prints u over the blocks C, of which d is then the last.
Columned(u, C, c, column, d) ==
    /\ d.names = c.names \cup {ColumnsLength, column} /\ d.if = c.if
    /\ Newline \notin d.names
    /\ Clean(u)
    /\ Visible(C) \cup {column, Separator} \subseteq Visible(u.blocks)
    /\ Append(C, d) \in Seq(Block)
    /\ \A A \in Seq(Block) : \A a : Above(Append(C, d), A, a) => Above(u.blocks, A, a)
    /\ Len(u.blocks) = Len(C) + 3 /\ Len(C) \in Nat

LEMMA ColumnsSound ==
    ASSUME NEW t, NEW C, NEW c, Sound(t, C, c), NEW file \in Name, NEW column \in Name,
           {file, Remaining} \subseteq Readable(C, c), file # Number, column # Number,
           {ColumnsLength, column} \cap c.names = {}, column # ColumnsLength,
           Newline \notin c.names, Newline # column
    PROVE  \E d \in Block : Columned(ColumnsText(t, file, column), C, c, column, d)
<1> DEFINE c1 == t ++ Var(ColumnsLength)
           c2 == Allocated(c1, column)
           c3 == c2 ++ While({Remaining})
           c4 == c3 ++ Var(Separator)
           c5 == c4 ++ Use({Remaining, file, column})
           u == c5 ++ If({column, ColumnsLength})
           b1 == With(c, {ColumnsLength})
           d == With(b1, {column})
           f == Fresh(FALSE)
           e == With(f, {Separator})
           x == Fresh(TRUE)
           D == Append(C, d)
           E == Append(D, e)
           X == Append(E, x)
           r0 == Readable(C, c)
           r1 == Readable(C, b1)
           r2 == Readable(C, d)
           r3 == Readable(D, f)
           r4 == Readable(D, e)
<1>1. C \in Seq(Block) /\ c \in Block
  BY DEF Sound
<1>2. /\ ColumnsLength \in Name /\ Remaining \in Name /\ Separator \in Name
      /\ {ColumnsLength} \in SUBSET Name /\ {column} \in SUBSET Name
      /\ {Separator} \in SUBSET Name /\ {Remaining} \in SUBSET Name
      /\ {Remaining, file, column} \in SUBSET Name /\ {column, ColumnsLength} \in SUBSET Name
  BY OwnOK DEF ColumnsLength, Remaining, Separator
<1>3. /\ Number # ColumnsLength /\ Number # Remaining /\ Number # Separator
      /\ Newline # ColumnsLength /\ Newline # Separator
  BY KindsOfNames DEF Number, Newline, ColumnsLength, Remaining, Separator
<1>4. {file, Remaining} \subseteq r0
  OBVIOUS
<1>5. b1 \in Block /\ b1.names = c.names \cup {ColumnsLength} /\ b1.if = c.if
  BY <1>1, <1>2, WithIs
<1>6. r0 \cup {ColumnsLength} \subseteq r1
  BY <1>1, <1>2, ReadableWith
<1>7. Sound(c1, C, b1)
  BY <1>2, VarSound
<1> HIDE DEF b1, c1
<1>8. d \in Block /\ d.names = b1.names \cup {column} /\ d.if = b1.if
  BY <1>2, <1>5, WithIs
<1>9. r1 \cup {column} \subseteq r2
  BY <1>2, <1>5, ReadableWith
<1>10. Sound(c2, C, d)
  <2>1. column \notin b1.names
    BY <1>5
  <2> QED BY <1>7, <2>1, AllocatedSound
<1> HIDE DEF d, c2
<1>11. D \in Seq(Block) /\ Len(D) = Len(C) + 1
  BY <1>1, <1>8, AppendProperties
<1>12. r2 \ {Number} \subseteq r3
  BY <1>1, <1>8, ReadableFresh
<1>13. f \in Block /\ f.names = {} /\ x \in Block /\ x.names = {}
  BY FreshIs
<1> HIDE DEF r0, r1, r2, r3
<1>14. Sound(c3, D, f)
  <2>1. {Remaining} \subseteq Readable(C, d)
    BY <1>4, <1>6, <1>9 DEF r2
  <2> QED BY <1>2, <1>10, <2>1, OpenSound
<1>15. Visible(D) = Visible(C) \cup d.names
  BY <1>1, <1>8, VisibleAppend
<1> HIDE DEF f, c3, D, x
<1>16. e \in Block /\ e.names = {Separator}
  <2>1. e \in Block /\ e.names = f.names \cup {Separator}
    BY <1>2, <1>13, WithIs
  <2> HIDE DEF e
  <2> QED BY <1>13, <2>1
<1>17. r3 \cup {Separator} \subseteq r4
  BY <1>2, <1>13, ReadableWith DEF r3
<1>18. Sound(c4, D, e)
  <2>1. Separator \notin f.names
    BY <1>13
  <2> QED BY <1>2, <1>14, <2>1, VarSound
<1>19. Visible(E) = Visible(D) \cup e.names /\ E \in Seq(Block) /\ Len(E) = Len(D) + 1
  BY <1>11, <1>16, VisibleAppend, AppendProperties
<1> HIDE DEF e, c4
<1>20. {Remaining, file, column, ColumnsLength} \subseteq r4
  BY <1>3, <1>4, <1>6, <1>9, <1>12, <1>17
<1> HIDE DEF r4
<1>21. Sound(c5, D, e)
  <2>1. {Remaining, file, column} \subseteq Readable(D, e)
    BY <1>20 DEF r4
  <2> QED BY <1>2, <1>18, <2>1, UseSound
<1> HIDE DEF c5
<1>22. Sound(u, E, x)
  <2>1. {column, ColumnsLength} \subseteq Readable(D, e)
    BY <1>20 DEF r4
  <2> QED BY <1>2, <1>21, <2>1, OpenSound DEF x
<1>23. /\ Visible(X) = Visible(E) \cup x.names /\ Len(X) = Len(E) + 1
  <2> HIDE DEF E
  <2> QED BY <1>13, <1>19, VisibleAppend, AppendProperties
<1>24. ColumnsText(t, file, column) = u
  BY DEF ColumnsText, u, c5, c4, c3, c2, c1
<1> HIDE DEF u
<1>25. Clean(u) /\ u.blocks = X
  BY <1>22, SoundClean DEF Sound
<1>26. ASSUME NEW A \in Seq(Block), NEW a, Above(D, A, a) PROVE Above(X, A, a)
  <2>1. Newline \notin e.names /\ Newline \notin x.names
    BY <1>3, <1>13, <1>16
  <2>2. Above(E, A, a)
    BY <1>16, <1>26, <2>1, AboveMore
  <2> HIDE DEF E
  <2> QED BY <1>13, <2>1, <2>2, AboveMore
<1>27. Len(X) = Len(C) + 3 /\ Len(C) \in Nat
  <2>1. Len(C) \in Nat
    BY <1>1, LenProperties
  <2> HIDE DEF E, X
  <2> QED BY <1>11, <1>19, <1>23, <2>1
<1>28. /\ d \in Block /\ d.names = c.names \cup {ColumnsLength, column} /\ d.if = c.if
       /\ Newline \notin d.names
       /\ Append(C, d) \in Seq(Block)
  <2>1. Append(C, d) \in Seq(Block)
    BY <1>11 DEF D
  <2> QED BY <1>3, <1>5, <1>8, <2>1
<1>29. /\ Visible(C) \cup {column, Separator} \subseteq Visible(X)
       /\ c.names \subseteq Visible(X)
  <2> HIDE DEF E, X
  <2> QED BY <1>15, <1>16, <1>19, <1>23, <1>28
<1> HIDE DEF E, X
<1>30. \A A \in Seq(Block) : \A a : Above(Append(C, d), A, a) => Above(u.blocks, A, a)
  BY <1>25, <1>26 DEF D
<1>31. Columned(u, C, c, column, d)
  BY <1>25, <1>27, <1>28, <1>29, <1>30 DEF Columned
<1> QED BY <1>24, <1>28, <1>31

LEMMA ColumnsFrameFields ==
    ASSUME NEW f \in Frame, NEW var \in Name, NEW braces \in Nat
    PROVE  ColumnsFrame(f, var, braces).var = var
BY DEF ColumnsFrame, Frame

\* The lines of the columns, before what every loop prints.
LinesFlat(t, var) == t ++ Use({var}) ++ Var(Remaining)
LinesNested(t, file) ==
    Allocated(t ++ Use({LineLength}), ColumnsLine)
       ++ While({LineLength}) ++ Use({file, ColumnsLine})
       ++ Check({LineLength, ColumnsLine}) ++ Var(Remaining)

\* They leave the block b, the last one over B, to c over C, which the loop
\* over the columns adds names to.
Lined(t, B, b, C, c, file, column, more) ==
    /\ Sound(t, C, c) /\ {file, Remaining} \subseteq Readable(C, c)
    /\ {ColumnsLength, column} \cap c.names = {} /\ Newline \notin c.names
    /\ Len(C) = Len(B) + more
    /\ \A d \in Block :
          /\ d.names = c.names \cup {ColumnsLength, column} /\ d.if = c.if
          /\ Newline \notin d.names
          => \E x \in Block : /\ b.names \subseteq x.names /\ x.if = b.if
                              /\ Above(Append(C, d), B, x)

LEMMA LinesFlatSound ==
    ASSUME NEW t, NEW B, NEW b, Sound(t, B, b), NEW var \in Name, var \in Readable(B, b),
           NEW file \in Readable(B, b), Remaining \notin b.names, NEW column,
           {ColumnsLength, column} \cap (b.names \cup {Remaining}) = {},
           Newline \notin b.names \cup {Remaining}
    PROVE  \E C \in Seq(Block), c \in Block :
              Lined(LinesFlat(t, var), B, b, C, c, file, column, 0)
<1> DEFINE u == t ++ Use({var})
           c == With(b, {Remaining})
<1>1. Remaining \in Name /\ {Remaining} \in SUBSET Name /\ {var} \in SUBSET Name
  BY OwnOK DEF Remaining
<1>2. b \in Block /\ B \in Seq(Block) /\ Len(B) = Len(B) + 0
  <2>1. b \in Block /\ B \in Seq(Block)
    BY DEF Sound
  <2>2. Len(B) \in Nat
    BY <2>1, LenProperties
  <2> QED BY <2>1, <2>2
<1>3. Sound(u, B, b)
  <2>1. {var} \subseteq Readable(B, b)
    OBVIOUS
  <2> QED BY <1>1, <2>1, UseSound
<1> HIDE DEF u
<1>4. Sound(u ++ Var(Remaining), B, c)
  BY <1>1, <1>3, VarSound
<1>5. c \in Block /\ c.names = b.names \cup {Remaining} /\ c.if = b.if
  BY <1>1, <1>2, WithIs
<1>6. Readable(B, b) \cup {Remaining} \subseteq Readable(B, c)
  BY <1>1, <1>2, ReadableWith
<1> HIDE DEF c
<1>7. Sound(LinesFlat(t, var), B, c) /\ {file, Remaining} \subseteq Readable(B, c)
  BY <1>4, <1>6 DEF LinesFlat, u
<1>8. {ColumnsLength, column} \cap c.names = {} /\ Newline \notin c.names
  BY <1>5
<1>9. ASSUME NEW d \in Block, d.names = c.names \cup {ColumnsLength, column}, d.if = c.if,
             Newline \notin d.names
      PROVE  \E x \in Block : /\ b.names \subseteq x.names /\ x.if = b.if
                              /\ Above(Append(B, d), B, x)
  <2>1. Above(Append(B, d), B, d)
    BY <1>2, <1>9, AboveFirst
  <2> QED BY <1>5, <1>9, <2>1
<1>10. Lined(LinesFlat(t, var), B, b, B, c, file, column, 0)
  BY <1>2, <1>7, <1>8, <1>9 DEF Lined
<1> QED BY <1>2, <1>5, <1>10

LEMMA LinesNestedSound ==
    ASSUME NEW t, NEW B, NEW b, Sound(t, B, b), NEW file \in Name, file # Number,
           {file, LineLength} \subseteq Readable(B, b), ColumnsLine \notin b.names, NEW column,
           {ColumnsLength, column} \cap {Remaining} = {}, Newline # Remaining,
           Newline \notin b.names \cup {ColumnsLine}
    PROVE  \E C \in Seq(Block), c \in Block :
              Lined(LinesNested(t, file), B, b, C, c, file, column, 1)
<1> DEFINE n1 == t ++ Use({LineLength})
           n2 == Allocated(n1, ColumnsLine)
           n3 == n2 ++ While({LineLength})
           n4 == n3 ++ Use({file, ColumnsLine})
           n5 == n4 ++ Check({LineLength, ColumnsLine})
           n6 == n5 ++ Var(Remaining)
           a == With(b, {ColumnsLine})
           A == Append(B, a)
           f == Fresh(FALSE)
           c == With(f, {Remaining})
           r0 == Readable(B, b)
           r1 == Readable(B, a)
           r2 == Readable(A, f)
           r3 == Readable(A, c)
<1>1. b \in Block /\ B \in Seq(Block)
  BY DEF Sound
<1>2. /\ LineLength \in Name /\ ColumnsLine \in Name /\ Remaining \in Name
      /\ {LineLength} \in SUBSET Name /\ {ColumnsLine} \in SUBSET Name
      /\ {Remaining} \in SUBSET Name /\ {file, ColumnsLine} \in SUBSET Name
      /\ {LineLength, ColumnsLine} \in SUBSET Name
  BY OwnOK DEF LineLength, ColumnsLine, Remaining
<1>3. Number # LineLength /\ Number # ColumnsLine
  BY KindsOfNames DEF Number, ColumnsLine
<1>4. Sound(n1, B, b)
  <2>1. {LineLength} \subseteq Readable(B, b)
    OBVIOUS
  <2> QED BY <1>2, <2>1, UseSound
<1> HIDE DEF n1
<1>5. Sound(n2, B, a)
  BY <1>2, <1>4, AllocatedSound
<1>6. a \in Block /\ a.names = b.names \cup {ColumnsLine} /\ a.if = b.if
  BY <1>1, <1>2, WithIs
<1>7. {file, LineLength, ColumnsLine} \subseteq r1
  <2>1. r0 \cup {ColumnsLine} \subseteq r1
    BY <1>1, <1>2, ReadableWith
  <2>2. {file, LineLength} \subseteq r0
    OBVIOUS
  <2> HIDE DEF r0, r1
  <2> QED BY <2>1, <2>2
<1> HIDE DEF n2, a
<1>8. Sound(n3, A, f)
  <2>1. {LineLength} \subseteq r1
    BY <1>7
  <2> QED BY <1>2, <1>5, <2>1, OpenSound
<1>9. {file, LineLength, ColumnsLine} \subseteq r2
  <2>1. r1 \ {Number} \subseteq r2
    BY <1>1, <1>6, ReadableFresh
  <2> HIDE DEF r1, r2
  <2> QED BY <1>3, <1>7, <2>1
<1>10. f \in Block /\ f.names = {}
  BY FreshIs
<1> HIDE DEF n3, A, f
<1>11. Sound(n4, A, f)
  <2>1. {file, ColumnsLine} \subseteq r2
    BY <1>9
  <2> QED BY <1>2, <1>8, <2>1, UseSound
<1> HIDE DEF n4
<1>12. Sound(n5, A, f)
  <2>1. {LineLength, ColumnsLine} \subseteq r2
    BY <1>9
  <2> QED BY <1>2, <1>11, <2>1, UseSound
<1> HIDE DEF n5
<1>13. Sound(n6, A, c)
  <2>1. Remaining \notin f.names
    BY <1>10
  <2> QED BY <1>2, <1>12, <2>1, VarSound
<1>14. c \in Block /\ c.names = {Remaining}
  <2>1. c \in Block /\ c.names = f.names \cup {Remaining}
    BY <1>2, <1>10, WithIs
  <2> HIDE DEF c
  <2> QED BY <1>10, <2>1
<1>15. {file, Remaining} \subseteq r3
  <2>1. r2 \cup {Remaining} \subseteq r3
    BY <1>2, <1>10, ReadableWith
  <2> HIDE DEF r2, r3
  <2> QED BY <1>9, <2>1
<1>16. LinesNested(t, file) = n6
  BY DEF LinesNested, n6, n5, n4, n3, n2, n1
<1> HIDE DEF n6, c
<1>17. A \in Seq(Block) /\ Len(A) = Len(B) + 1
  BY <1>1, <1>6, AppendProperties DEF A
<1>18. Above(A, B, a)
  <2>1. Newline \notin a.names
    BY <1>6
  <2> QED BY <1>1, <1>6, <2>1, AboveFirst DEF A
<1>19. ASSUME NEW d \in Block, d.names = c.names \cup {ColumnsLength, column}, d.if = c.if,
              Newline \notin d.names
       PROVE  \E x \in Block : /\ b.names \subseteq x.names /\ x.if = b.if
                               /\ Above(Append(A, d), B, x)
  <2>1. Above(Append(A, d), B, a)
    BY <1>1, <1>18, <1>19, AboveMore
  <2> QED BY <1>6, <2>1
<1>20. Sound(LinesNested(t, file), A, c) /\ {file, Remaining} \subseteq Readable(A, c)
  BY <1>13, <1>15, <1>16 DEF r3
<1>21. {ColumnsLength, column} \cap c.names = {} /\ Newline \notin c.names
  BY <1>14
<1>22. Lined(LinesNested(t, file), B, b, A, c, file, column, 1)
  BY <1>17, <1>19, <1>20, <1>21 DEF Lined
<1> QED BY <1>14, <1>17, <1>22

LEMMA ColumnsKinds ==
    ASSUME NEW var \in {User(x) : x \in LoopNames}, NEW file, file = FileOf(working)
    PROVE  LET before == {Own("i"), file, ByIndexOf, LineLength, var}
               column == Column(var)
           IN  /\ Remaining \notin before /\ ColumnsLine \notin before
               /\ {ColumnsLength, column} \cap (before \cup {Remaining}) = {}
               /\ column # ColumnsLength /\ column # Number /\ column # Newline
               /\ file # Number /\ Newline \notin before \cup {Remaining, ColumnsLine}
<1>1. PICK x \in LoopNames : var = User(x)
  OBVIOUS
<1>2. /\ \A y : User(x) # Own(y) /\ file # Own(y) /\ Column(var) # Own(y)
      /\ file # Column(var) /\ Column(var) # User(x)
  BY KindsOfNames
<1>3. \A y, z : y # z => Own(y) # Own(z)
  BY KindsOfNames
<1>4. /\ Remaining \notin {Own("i"), ByIndexOf, LineLength}
      /\ ColumnsLine \notin {Own("i"), ByIndexOf, LineLength}
      /\ ColumnsLength \notin {Own("i"), ByIndexOf, LineLength, Remaining}
      /\ Newline \notin {Own("i"), ByIndexOf, LineLength, Remaining, ColumnsLine}
  BY <1>3 DEF Remaining, ColumnsLine, ColumnsLength, ByIndexOf, LineLength, Newline
<1>5. /\ Column(var) \notin {Own("i"), ByIndexOf, LineLength, Remaining}
      /\ Column(var) # ColumnsLength /\ Column(var) # Number /\ Column(var) # Newline
      /\ file # Number /\ file # Remaining /\ file # ColumnsLine /\ file # ColumnsLength
      /\ file # Newline
      /\ User(x) # Remaining /\ User(x) # ColumnsLine /\ User(x) # ColumnsLength
      /\ User(x) # Newline
  BY <1>2 DEF Remaining, ColumnsLine, ColumnsLength, ByIndexOf, LineLength, Newline, Number
<1> HIDE DEF Remaining, ColumnsLine, ColumnsLength, ByIndexOf, LineLength, Newline, Number
<1> QED BY <1>1, <1>2, <1>4, <1>5

\* The text of the columns over the lines, whichever these are.
LEMMA ColumnsDone ==
    ASSUME Inv, Scoped, Iterating, Top.at > 0, limits = {}, Top.chain[Top.at] = "columns",
           NEW indexed \in BOOLEAN
    PROVE  LET file == FileOf(working)
               lines == IF indexed THEN LinesFlat(text, Top.var) ELSE LinesNested(text, file)
               t == ColumnsText(lines, file, Column(Top.var))
               braces == IF indexed THEN 2 ELSE 3
               m == 1 + Owes(Front(calls))
           IN  /\ Over(t, text, m)
               /\ FrameOK(ColumnsFrame(Top, Column(Top.var), braces), working, t.blocks, m,
                          m + (Top.braces + braces))
<1> DEFINE bs == text.blocks
           n == Len(bs)
           m == 1 + Owes(Front(calls))
           B == Front(bs)
           b == Last(bs)
           file == FileOf(working)
           column == Column(Top.var)
           before == {Own("i"), file, ByIndexOf, LineLength, Top.var}
           lines == IF indexed THEN LinesFlat(text, Top.var) ELSE LinesNested(text, file)
           t == ColumnsText(lines, file, column)
           braces == IF indexed THEN 2 ELSE 3
           g == ColumnsFrame(Top, column, braces)
           vs == t.blocks
           owed == Top.braces
           k == Len(vs)
<1>1. /\ Sound(text, B, b) /\ b \in Block /\ Len(B) + 1 = n /\ B \in Seq(Block)
      /\ Seen(bs, n) \subseteq Readable(B, b)
  BY LoopIs DEF Sound
<1>2. /\ m \in Nat /\ 1 <= m /\ n \in Nat /\ m < n /\ n = m + owed /\ owed \in Nat
  BY LoopIs
<1>3. /\ Top \in Frame /\ Ordered(Top.chain) /\ Top.at \in Nat /\ Top.at <= Len(Top.chain)
      /\ Top.fun = "calls" /\ Seen(bs, m) \subseteq Seen(bs, n)
  BY LoopIs
<1>4. Top.at = 1 /\ "columns" \in Range(Top.chain)
  BY <1>3, OrderedAt
<1>5. /\ Top.var \in {User(x) : x \in LoopNames} /\ Top.var \in Name /\ file \in Name
      /\ {Top.var, LineLength, file} \subseteq Seen(bs, n) /\ b.names \subseteq before
      /\ User("output") \in Seen(bs, m)
  BY <1>4, BegunIs
<1>6. column \in Name
  BY <1>5, NamesOK
<1>7. /\ Remaining \notin before /\ ColumnsLine \notin before
      /\ {ColumnsLength, column} \cap (before \cup {Remaining}) = {}
      /\ column # ColumnsLength /\ column # Number /\ column # Newline
      /\ file # Number /\ Newline \notin before \cup {Remaining, ColumnsLine}
  BY <1>5, ColumnsKinds
<1>8. braces \in Nat
  OBVIOUS
<1>9. /\ g \in Frame /\ g.fun = "columns" /\ g.var = column /\ g.at = Top.at
  <2> HIDE DEF braces, column
  <2> QED BY <1>3, <1>6, <1>8, ColumnsFrameIs, ColumnsFrameFields
<1> HIDE DEF g, m, B, b, file, column, before, bs, n, owed
<1>10. {Top.var, LineLength, file} \subseteq Readable(B, b)
  BY <1>1, <1>5
<1>11. \E C \in Seq(Block), c \in Block :
          Lined(lines, B, b, C, c, file, column, braces - 2)
  <2>1. CASE indexed
    <3>1. Remaining \notin b.names
      BY <1>5, <1>7
    <3>2. Top.var \in Readable(B, b) /\ file \in Readable(B, b)
      BY <1>10
    <3>3. /\ {ColumnsLength, column} \cap (b.names \cup {Remaining}) = {}
          /\ Newline \notin b.names \cup {Remaining}
      BY <1>5, <1>7
    <3>4. \E C \in Seq(Block), c \in Block :
             Lined(LinesFlat(text, Top.var), B, b, C, c, file, column, 0)
      BY <1>1, <1>5, <3>1, <3>2, <3>3, LinesFlatSound
    <3>5. lines = LinesFlat(text, Top.var) /\ braces - 2 = 0
      BY <2>1
    <3> HIDE DEF lines, braces
    <3> QED BY <3>4, <3>5
  <2>2. CASE ~indexed
    <3>1. ColumnsLine \notin b.names /\ Newline \notin b.names \cup {ColumnsLine}
      BY <1>5, <1>7
    <3>2. {file, LineLength} \subseteq Readable(B, b)
      BY <1>10
    <3>3. {ColumnsLength, column} \cap {Remaining} = {} /\ Newline # Remaining /\ file # Number
      BY <1>7
    <3>4. \E C \in Seq(Block), c \in Block :
             Lined(LinesNested(text, file), B, b, C, c, file, column, 1)
      BY <1>1, <1>5, <3>1, <3>2, <3>3, LinesNestedSound
    <3>5. lines = LinesNested(text, file) /\ braces - 2 = 1
      BY <2>2
    <3> HIDE DEF lines, braces
    <3> QED BY <3>4, <3>5
  <2> QED BY <2>1, <2>2
<1>12. PICK C \in Seq(Block), c \in Block :
          Lined(lines, B, b, C, c, file, column, braces - 2)
  BY <1>11
<1> HIDE DEF lines, t, vs
<1>13. PICK d \in Block : Columned(t, C, c, column, d)
  <2>1. {file, Remaining} \subseteq Readable(C, c) /\ Sound(lines, C, c)
    BY <1>12 DEF Lined
  <2>2. {ColumnsLength, column} \cap c.names = {} /\ Newline \notin c.names
    BY <1>12 DEF Lined
  <2>3. file # Number /\ column # Number /\ column # ColumnsLength /\ Newline # column
    BY <1>7
  <2> QED BY <1>5, <1>6, <2>1, <2>2, <2>3, ColumnsSound DEF t
<1>14. PICK x \in Block : /\ b.names \subseteq x.names /\ x.if = b.if
                          /\ Above(Append(C, d), B, x)
  <2>1. /\ d.names = c.names \cup {ColumnsLength, column} /\ d.if = c.if
        /\ Newline \notin d.names
    BY <1>13 DEF Columned
  <2> QED BY <1>12, <2>1 DEF Lined
<1>15. /\ Clean(t) /\ {column, Separator} \subseteq Visible(vs)
       /\ \A A \in Seq(Block) : \A y : Above(Append(C, d), A, y) => Above(vs, A, y)
       /\ Len(vs) = Len(C) + 3 /\ Len(C) = Len(B) + (braces - 2)
  BY <1>12, <1>13 DEF Columned, Lined, vs
<1>16. Above(vs, B, x)
  BY <1>1, <1>14, <1>15
<1>17. k = m + (owed + braces)
  <2>1. k = Len(C) + 3 /\ Len(C) = Len(B) + (braces - 2) /\ Len(B) \in Nat
    BY <1>1, <1>15, LenProperties
  <2> HIDE DEF k, braces
  <2> QED BY <1>1, <1>2, <1>8, <2>1
<1>18. /\ Over(t, text, m) /\ Seen(bs, n) \subseteq Seen(vs, k)
  <2>1. /\ Above(t.blocks, Front(text.blocks), x)
        /\ Last(text.blocks).names \subseteq x.names /\ x.if = Last(text.blocks).if
    BY <1>14, <1>16 DEF vs, B, b, bs
  <2> QED BY <1>15, <2>1, InnerOver DEF k, vs, m, bs, n
<1>19. {column, Separator} \subseteq Seen(vs, k)
  <2>1. Seen(vs, k) = Visible(vs) \ {Number}
    BY <1>15, SeenAll DEF vs, k
  <2>2. Number # Separator
    BY KindsOfNames
  <2> QED BY <1>7, <1>15, <2>1, <2>2
<1>20. {column, LineLength, file, Separator, User("output")} \subseteq Seen(vs, k)
  BY <1>3, <1>5, <1>18, <1>19
<1> HIDE DEF k
<1>21. FrameOK(g, working, vs, m, k)
  BY <1>4, <1>9, <1>20 DEF FrameOK, file
<1> HIDE DEF braces
<1> QED BY <1>17, <1>18, <1>21 DEF t, vs, g, m, owed, lines, file, column, braces

LEMMA CallColumnsScoped ==
    ASSUME Inv, Scoped, CallColumns PROVE Scoped'
<1> DEFINE indexed == \E k \in Top.at .. Len(Top.chain) : Top.chain[k] \in ByIndexes
           file == FileOf(working)
           column == Column(Top.var)
           lines == IF indexed THEN LinesFlat(text, Top.var) ELSE LinesNested(text, file)
           t == ColumnsText(lines, file, column)
           braces == IF indexed THEN 2 ELSE 3
           g == ColumnsFrame(Top, column, braces)
           m == 1 + Owes(Front(calls))
<1>1. /\ Iterating /\ Top.at > 0 /\ phase = "body" /\ Top.fun = "calls"
      /\ Top.chain[Top.at] = "columns" /\ limits' = limits
  BY DEF CallColumns, Iterating, Step
<1>2. \/ Following # "lines"
      \/ /\ text' = t /\ calls' = SetTop(g) \o <<Call("expression")>>
         /\ UNCHANGED <<params, types, phase, limits>>
  BY DEF CallColumns, LinesFlat, LinesNested, ColumnsText, ColumnsFrame, ColumnsLine, ColumnsLength
<1>3. CASE limits # {}
  BY <1>1, <1>3 DEF Scoped
<1>4. CASE limits = {}
  <2>1. Following = "lines"
    <3>1. /\ Ordered(Top.chain) /\ Top.at \in Nat /\ Top.at <= Len(Top.chain)
      BY <1>1, <1>4, LoopIs
    <3>2. Top.at = 1 /\ Top.at < Len(Top.chain) /\ Top.chain[2] = "lines"
      BY <1>1, <3>1, OrderedAt
    <3> QED BY <3>2 DEF Following
  <2>2. Top \in Frame /\ column \in Name
    <3>1. Top \in Frame /\ Top.var \in Name
      BY <1>1, <1>4, LoopIs, BegunIs
    <3> QED BY <3>1, NamesOK
  <2>3. braces \in Nat /\ indexed \in BOOLEAN
    OBVIOUS
  <2> HIDE DEF indexed
  <2>4. Over(t, text, m) /\ FrameOK(g, working, t.blocks, m, m + (Top.braces + braces))
    BY <1>1, <1>4, <2>3, ColumnsDone
  <2> HIDE DEF t, braces, column
  <2>5. g \in Frame /\ g.fun = "columns" /\ g.braces = Top.braces + braces
    BY <2>2, <2>3, ColumnsFrameIs
  <2> HIDE DEF g
  <2>6. Parked(g) /\ g.fun # "list" /\ Top.fun # "list"
    BY <1>1, <2>5 DEF Parked
  <2>7. limits = {} =>
          LET k == 1 + Owes(Front(calls))
          IN  Over(t, text, k) /\ FrameOK(g, working, t.blocks, k, k + g.braces)
    BY <2>4, <2>5 DEF m
  <2>8. /\ text' = t /\ calls' = SetTop(g) \o <<Call("expression")>>
        /\ UNCHANGED <<params, types, phase, limits>>
    BY <1>2, <2>1
  <2> QED BY <1>1, <2>5, <2>6, <2>7, <2>8, TopScoped
<1> QED BY <1>3, <1>4

LEMMA ContinuationScoped ==
    ASSUME Inv, Scoped, Continuation PROVE Scoped'
BY EndOfListScoped, CallLinesScoped, CallFilterScoped, CallByIndexScoped, CallFailsScoped,
   CallColumnsScoped, EndColumnsScoped, LoopActionScoped, EndLoopScoped, EndThenScoped,
   EndElseScoped DEF Continuation

---------------------------------------------------------------------------
(* Before and after the walk. *)

\* The first brace, and the last one.
LEMMA StartSound ==
    ASSUME NEW t \in Text, t.errors = {}, t.blocks = << >>
    PROVE  Sound(t ++ While({}), << >>, Fresh(FALSE))
<1> DEFINE token == Token("open", {})
           x == Fresh(FALSE)
           e == << >>
<1>1. token \in Tokens /\ token.do = "open" /\ token.names = {}
  BY DEF Token, Tokens, TokenKinds
<1>2. x \in Block /\ x.freed = {}
  BY FreshIs
<1>3. e \in Seq(Block) /\ DOMAIN e = {} /\ Len(e) = 0
  <2>1. e \in Seq(Block) /\ Len(e) = 0
    BY EmptySeq
  <2>2. DOMAIN e = 1 .. 0
    BY <2>1, LenProperties
  <2> QED BY <2>1, <2>2
<1>4. Printed(e, token) = Append(e, x)
  <2>1. Printed(e, token) = Opened(e, FALSE)
    <3> HIDE DEF e
    <3> QED BY <1>3, OthersAre
  <2> QED BY <2>1 DEF Opened, Fresh
<1> HIDE DEF token, x, e
<1>5. Wrong(t, token) = {}
  BY <1>1 DEF Wrong, When
<1>6. t.blocks = e
  BY DEF e
<1>7. t ++ token \in Text /\ (t ++ token).blocks = Append(e, x) /\ (t ++ token).errors = {}
  BY <1>1, <1>4, <1>5, <1>6, TextOK, TextIs
<1>8. Sound(t ++ token, e, x)
  BY <1>2, <1>3, <1>7 DEF Sound
<1> QED BY <1>8 DEF e, x, token, While

LEMMA LastEnd ==
    ASSUME NEW t \in Text, t.errors = {}, Len(t.blocks) = 1
    PROVE  t ++ End \in Text /\ (t ++ End).blocks = << >> /\ (t ++ End).errors = {}
<1> DEFINE u == t.blocks
<1>1. u \in Seq(Block)
  BY DEF Text
<1> HIDE DEF u
<1>2. u # << >>
  BY <1>1, EmptySeq DEF u
<1>3. Front(u) = << >>
  <2>1. Front(u) \in Seq(Block) /\ Len(Front(u)) = Len(u) - 1
    BY <1>1, <1>2, FrontOf
  <2> DEFINE v == Front(u)
  <2>2. v \in Seq(Block) /\ Len(v) = 0
    <3>1. Len(u) = 1
      BY DEF u
    <3> QED BY <2>1, <3>1
  <2> HIDE DEF v
  <2>3. v = << >>
    BY <2>2, EmptySeq
  <2> QED BY <2>3 DEF v
<1>4. Len(t.blocks) # 0 /\ Front(t.blocks) = << >> /\ Len(t.blocks) > 0
  BY <1>3 DEF u
<1>5. End \in Tokens /\ End.do = "end" /\ End.names = {}
  BY TokensOK DEF End, Token
<1>6. Wrong(t, End) = {}
  BY <1>4, <1>5 DEF Wrong, When
<1>7. Printed(t.blocks, End) = << >>
  BY <1>4, <1>5 DEF Printed
<1> QED BY <1>5, <1>6, <1>7, TextOK, TextIs

LEMMA OpenOutputScoped ==
    ASSUME Inv, Scoped, open_output_file PROVE Scoped'
<1> SUFFICES ASSUME limits' = {} PROVE Scoped'
  BY DEF Scoped
<1>1. /\ phase = "open" /\ UNCHANGED <<text, calls, params, types, limits>>
      /\ phase' \in {"args", "generated"}
  BY DEF open_output_file, Return, KeepWalk
<1>2. text.errors = {} /\ text.blocks = << >> /\ DOMAIN types = {}
  BY <1>1 DEF Scoped
<1> QED BY <1>1, <1>2 DEF Scoped

LEMMA ReturnScoped ==
    ASSUME Inv, Scoped, NEW names \in {{}} \cup {{name} : name \in Declared}, generate_return(names)
    PROVE  Scoped'
<1> DEFINE u == text ++ Use(names)
           t == u ++ End
           b == Last(text.blocks)
           B == Front(text.blocks)
<1> SUFFICES ASSUME limits' = {} PROVE Scoped'
  BY DEF Scoped
<1>1. /\ phase = "return" /\ text' = t /\ phase' = "main"
      /\ UNCHANGED <<calls, params, types, limits>>
  BY DEF generate_return, KeepWalk
<1>2. /\ Clean(text) /\ text.blocks[1].names \cap UserIds = {User(x) : x \in Known}
      /\ Len(text.blocks) = 1 /\ Len(params) <= 1
  BY <1>1 DEF Scoped
<1>3. DOMAIN types \subseteq Identifiers
  BY DEF Inv, TypeOK
<1>4. names \subseteq Declared /\ Declared \subseteq UserIds /\ Declared \subseteq Name
  BY <1>3, NamesOK DEF Declared, UserIds
<1>5. Sound(text, B, b)
  BY <1>2, CleanSound
<1>6. text.blocks[1] = b
  <2>1. Len(text.blocks) = Len(B) + 1 /\ Len(B) \in Nat /\ text.blocks[Len(B) + 1] = b
    BY <1>5, SoundIs
  <2> QED BY <1>2, <2>1
<1>7. names \subseteq Readable(B, b)
  <2>1. Declared \subseteq b.names
    BY <1>2, <1>4, <1>6 DEF Declared, Known
  <2>2. Number \notin UserIds
    BY KindsOfNames DEF UserIds, Number
  <2> QED BY <1>4, <2>1, <2>2 DEF Readable
<1> HIDE DEF b, B
<1>8. Sound(u, B, b)
  BY <1>4, <1>5, <1>7, UseSound
<1> HIDE DEF u
<1>9. u \in Text /\ u.errors = {} /\ Len(u.blocks) = 1
  <2>1. Len(u.blocks) = Len(B) + 1 /\ Len(text.blocks) = Len(B) + 1
    BY <1>5, <1>8, SoundIs
  <2> QED BY <1>2, <1>8, <2>1 DEF Sound
<1>10. t.blocks = << >> /\ t.errors = {}
  BY <1>9, LastEnd
<1> HIDE DEF t
<1> QED BY <1>1, <1>2, <1>10 DEF Scoped

LEMMA MainScoped ==
    ASSUME Inv, Scoped, main PROVE Scoped'
<1>1. /\ phase = "generated" /\ phase' = "exit" /\ UNCHANGED <<text, limits>>
  BY DEF main
<1> QED BY <1>1 DEF Scoped

\* The header of the function declares at most one parameter.
LEMMA HeaderSound ==
    ASSUME NEW t, Sound(t, << >>, Fresh(FALSE)),
           NEW args \in Seq(Identifiers), Len(args) <= 1
    PROVE  \E c \in Block :
              /\ Sound(PrintEach(t, [i \in DOMAIN args |-> Var(User(args[i]))]), << >>, c)
              /\ c.names = {User(x) : x \in Range(args)}
<1> DEFINE n == Len(args)
           tokens == [i \in DOMAIN args |-> Var(User(args[i]))]
           f == Fresh(FALSE)
<1>1. n \in Nat /\ DOMAIN args = 1 .. n /\ n <= 1
  BY LenProperties
<1>2. \A i \in 1 .. n : args[i] \in Identifiers /\ User(args[i]) \in Name
  <2>1. \A i \in 1 .. n : args[i] \in Identifiers
    BY <1>1, ElementOfSeq
  <2> QED BY <2>1, NamesOK
<1>3. \A i \in 1 .. n : tokens[i] \in Tokens
  <2>1. \A name \in Name : Var(name) \in Tokens
    BY TokensOK DEF Var
  <2> QED BY <1>1, <1>2, <2>1
<1>4. DOMAIN tokens = 1 .. n
  BY <1>1
<1>5. \A i \in 1 .. n : tokens[i] = Var(User(args[i]))
  BY <1>1
<1>6. Len(tokens) = n
  <2>1. tokens = [i \in 1 .. n |-> tokens[i]]
    BY <1>1
  <2> HIDE DEF tokens, n
  <2>2. tokens \in [1 .. n -> Tokens]
    BY <1>3, <2>1
  <2>3. tokens \in Seq(Tokens)
    BY <1>1, <2>2, IsASeq
  <2> QED BY <1>1, <1>4, <2>3, LenProperties
<1>7. t \in Text
  BY DEF Sound
<1> HIDE DEF tokens, n
<1>8. PICK g \in [0 .. n -> Text] :
         /\ g[0] = t /\ PrintEach(t, tokens) = g[n]
         /\ \A k \in 1 .. n : g[k] = g[k - 1] ++ tokens[k]
  BY <1>1, <1>3, <1>6, <1>7, PrintEachIs
<1>9. f \in Block /\ f.names = {} /\ Sound(t, << >>, f)
  BY FreshIs
<1> HIDE DEF f
<1>10. CASE n = 0
  <2>1. Range(args) = {}
    BY <1>1, <1>10 DEF Range
  <2>2. Sound(PrintEach(t, tokens), << >>, f)
    BY <1>8, <1>9, <1>10
  <2> QED BY <1>9, <2>1, <2>2 DEF tokens
<1>11. CASE n = 1
  <2> DEFINE name == User(args[1])
             c == With(f, {name})
             e == << >>
  <2>1. 1 \in 1 .. n /\ name \in Name /\ {name} \in SUBSET Name
    BY <1>2, <1>11
  <2>2. PrintEach(t, tokens) = t ++ Var(name)
    <3>1. g[1] = g[1 - 1] ++ tokens[1]
      BY <1>8, <2>1
    <3>2. 1 - 1 = 0
      OBVIOUS
    <3> QED BY <1>5, <1>8, <1>11, <2>1, <3>1, <3>2
  <2>3. {User(x) : x \in Range(args)} = {name}
    <3>1. Range(args) = {args[1]}
      <4>1. DOMAIN args = {1}
        BY <1>1, <1>11
      <4> QED BY <4>1 DEF Range
    <3> QED BY <3>1
  <2>4. Sound(t, e, f)
    BY <1>9
  <2> HIDE DEF name, e
  <2>5. c \in Block /\ c.names = {name}
    <3>1. c \in Block /\ c.names = f.names \cup {name}
      BY <1>9, <2>1, WithIs
    <3> HIDE DEF c
    <3> QED BY <1>9, <3>1
  <2>6. Sound(t ++ Var(name), e, c)
    BY <1>9, <2>1, <2>4, VarSound
  <2> HIDE DEF c
  <2> QED BY <2>2, <2>3, <2>5, <2>6 DEF tokens, e
<1>12. n = 0 \/ n = 1
  BY <1>1
<1> QED BY <1>10, <1>11, <1>12

LEMMA ArgsScoped ==
    ASSUME Inv, Scoped, NEW args \in Args, generate_args(args) PROVE Scoped'
<1> SUFFICES ASSUME limits' = {} PROVE Scoped'
  BY DEF Scoped
<1>1. phase = "args" /\ params' = args /\ types' = types
  BY DEF generate_args, KeepWalk
<1>2. CASE "constant" \in Range(args)
  <2>1. phase' = "generated" /\ UNCHANGED <<text, limits>>
    BY <1>2 DEF generate_args, Return
  <2> QED BY <1>1, <2>1 DEF Scoped
<1>3. CASE "constant" \notin Range(args)
  <2> DEFINE u == text ++ While({})
             t == PrintEach(u, [i \in DOMAIN args |-> Var(User(args[i]))])
             e == Call("list")
             s == << >>
             asked == When(Len(args) > 1, "parameters")
  <2>1. /\ text' = t /\ calls' = <<e>> /\ phase' = "body"
        /\ limits' = limits \cup asked
    BY <1>3 DEF generate_args
  <2>2. limits = {} /\ ~(Len(args) > 1)
    <3>1. limits = {} /\ asked = {}
      BY <2>1
    <3> QED BY <3>1 DEF When
  <2>3. args \in Seq(Identifiers) /\ Len(args) \in Nat
    <3>1. Inv'
      BY ArgsOK
    <3>2. args \in Seq(Identifiers)
      BY <1>1, <2>1, <3>1 DEF Inv
    <3> QED BY <3>2, LenProperties
  <2>4. Len(args) <= 1
    BY <2>2, <2>3
  <2>5. text \in Text /\ text.errors = {} /\ text.blocks = << >> /\ DOMAIN types = {}
    BY <1>1, <2>2 DEF Scoped, Inv, TypeOK
  <2>6. Sound(u, << >>, Fresh(FALSE))
    BY <2>5, StartSound
  <2> HIDE DEF u
  <2>7. PICK c \in Block : Sound(t, s, c) /\ c.names = {User(x) : x \in Range(args)}
    BY <2>3, <2>4, <2>6, HeaderSound
  <2> HIDE DEF t, asked
  <2> DEFINE bs == t.blocks
  <2>8. s \in Seq(Frame) /\ s \in Seq(Block) /\ Len(s) = 0
    BY EmptySeq
  <2> HIDE DEF s
  <2>9. /\ Clean(t) /\ Len(bs) = 1 /\ DOMAIN bs = 1 .. 1 /\ bs[1] = c
    <3>1. Len(bs) = Len(s) + 1 /\ DOMAIN bs = 1 .. Len(s) + 1 /\ bs[Len(s) + 1] = c
      BY <2>7, SoundIs
    <3> QED BY <2>7, <2>8, <3>1, SoundClean
  <2>10. Newline \notin c.names
    BY <2>7, KindsOfNames DEF Newline
  <2>11. Tidy(t)
    <3>1. \A j \in DOMAIN t.blocks : j = 1
      BY <2>9
    <3>2. \A j \in DOMAIN t.blocks : Newline \notin t.blocks[j].names
      BY <2>9, <2>10, <3>1
    <3> QED BY <3>2 DEF Tidy
  <2>12. Known' = Range(args) /\ Range(args) \subseteq Identifiers
    <3>1. DOMAIN args = 1 .. Len(args) /\ \A i \in 1 .. Len(args) : args[i] \in Identifiers
      BY <2>3, LenProperties, ElementOfSeq
    <3>2. Range(args) \subseteq Identifiers
      BY <3>1 DEF Range
    <3>3. (DOMAIN types)' = {}
      BY <1>1, <2>5
    <3> QED BY <1>1, <3>2, <3>3 DEF Known, Range
  <2>13. bs[1].names \cap UserIds = {User(x) : x \in Known'}
    BY <2>7, <2>9, <2>12 DEF UserIds
  <2>14. Frames(<<e>>, bs)
    <3>1. e \in Frame /\ e.fun = "list" /\ e.braces = 0 /\ e.working = NULL /\ e.frees = << >>
      <4>1. e \in Frame /\ e.fun = "list" /\ e.braces = 0
        BY CallIs DEF Functions
      <4> QED BY <4>1 DEF Call
    <3>2. Range(e.frees) = {}
      <4>1. DOMAIN e.frees = 1 .. 0
        BY <2>8, <3>1, LenProperties DEF s
      <4> QED BY <4>1 DEF Range
    <3> HIDE DEF e
    <3>3. <<e>> = Append(s, e)
      BY <3>1 DEF s
    <3>4. Owes(s) = 0
      <4>1. Owes(<< >>) = 0
        BY <2>8, OwedFinite
      <4> QED BY <4>1 DEF s
    <3>5. Settled(s, bs)
      <4>1. \A i \in 1 .. Len(s) : FALSE
        BY <2>8
      <4> QED BY <4>1 DEF Settled
    <3>6. Kept(bs, bs, 1 + Owes(s))
      BY <2>9, <3>4 DEF Kept
    <3>7. FrameOK(e, Working(Append(s, e)), bs, 1 + Owes(s), 1 + Owes(s) + e.braces)
      <4>1. ({e.working} \ {NULL}) \cup Range(e.frees) = {}
        BY <3>1, <3>2
      <4> QED BY <3>1, <4>1 DEF FrameOK
    <3> QED BY <2>8, <3>1, <3>3, <3>5, <3>6, <3>7, FramesPush
  <2> HIDE DEF e
  <2>15. Clean(text)' /\ Tidy(text)' /\ Frames(calls, text.blocks)'
    BY <2>1, <2>9, <2>11, <2>14 DEF Clean, Tidy
  <2>16. (text.blocks[1].names \cap UserIds = {User(x) : x \in Known})'
    BY <2>1, <2>13
  <2>17. text'.errors = {} /\ Len(params') <= 1
    BY <1>1, <2>1, <2>4, <2>9 DEF Clean
  <2> QED BY <2>1, <2>15, <2>16, <2>17 DEF Scoped
<1> QED BY <1>2, <1>3

\* The C main frees the objects of the arguments, and ends.
LEMMA FreedMain ==
    ASSUME NEW t, NEW c, Sound(t, << >>, c),
           NEW names \in SUBSET Name, names \subseteq Readable(<< >>, c)
    PROVE  LET u == t ++ Use(names) ++ Free(names) ++ End
           IN  u.blocks = << >> /\ u.errors = {}
<1> DEFINE e == << >>
           v == t ++ Use(names)
           w == v ++ Free(names)
<1>1. Sound(v, e, c)
  BY UseSound
<1>2. names \subseteq Readable(e, c) /\ Len(e) = 0
  BY EmptySeq
<1> HIDE DEF v, e
<1>3. w \in Text /\ w.errors = {} /\ Len(w.blocks) = Len(e) + 1
  <2>1. names \subseteq Readable(e, c) /\ names \in SUBSET Name
    BY <1>2
  <2> QED BY <1>1, <2>1, FreeSound
<1>4. Len(w.blocks) = 1
  BY <1>2, <1>3
<1> HIDE DEF w
<1>5. (w ++ End).blocks = << >> /\ (w ++ End).errors = {}
  BY <1>3, <1>4, LastEnd
<1> QED BY <1>5 DEF w, v

LEMMA CMainScoped ==
    ASSUME Inv, Scoped, generate_c_main PROVE Scoped'
<1> DEFINE n == Len(params)
           start == text ++ While({})
           After(t, k) == Allocated(t, User(params[k])) ++ Use({User(params[k])})
           Is(f, m) == f = [k \in 0 .. m |-> IF k = 0 THEN start ELSE After(f[k - 1], k)]
           declared == CHOOSE f : Is(f, n)
           names == {User(p) : p \in Range(params)}
           argument == IF n > 1 THEN {Own("the arguments")} ELSE names
           u == declared[n]
           t == u ++ Use(argument) ++ Free(names) ++ End
           f0 == Fresh(FALSE)
           e == << >>
<1> SUFFICES ASSUME limits' = {} PROVE Scoped'
  BY DEF Scoped
<1>1. /\ phase = "main" /\ text' = t /\ phase' = "generated" /\ UNCHANGED limits
  BY DEF generate_c_main, Return, KeepWalk
<1>2. text \in Text /\ text.errors = {} /\ text.blocks = << >> /\ n <= 1
      /\ params \in Seq(Identifiers)
  BY <1>1 DEF Scoped, Inv, TypeOK
<1>3. /\ n \in Nat /\ DOMAIN params = 1 .. n
      /\ \A k \in 1 .. n : User(params[k]) \in Name /\ params[k] \in Identifiers
  <2>1. \A k \in 1 .. Len(params) : params[k] \in Identifiers
    BY <1>2, ElementOfSeq
  <2> QED BY <1>2, <2>1, LenProperties, NamesOK
<1>4. argument = names /\ names \in SUBSET Name
  <2>1. ~(n > 1)
    BY <1>2, <1>3
  <2>2. names \in SUBSET Name
    BY <1>3 DEF Range
  <2> HIDE DEF names, n
  <2> QED BY <2>1, <2>2
<1>5. Sound(start, e, f0) /\ f0 \in Block /\ f0.names = {}
  BY <1>2, StartSound, FreshIs
<1> HIDE DEF start, After, e, f0
<1>6. \E g : Is(g, n)
  <2>1. CASE n = 0
    <3>1. Is([k \in 0 .. n |-> start], n)
      BY <2>1
    <3> QED BY <3>1
  <2>2. CASE n = 1
    <3> DEFINE g == [k \in 0 .. n |-> IF k = 0 THEN start ELSE After(start, 1)]
    <3>1. \A k \in 0 .. n : g[k] = IF k = 0 THEN start ELSE After(g[k - 1], k)
      <4>1. g[0] = start /\ g[1] = After(start, 1)
        BY <2>2
      <4>2. \A k \in 0 .. n : k = 0 \/ (k = 1 /\ k - 1 = 0)
        BY <2>2
      <4> HIDE DEF g, n
      <4> QED BY <4>1, <4>2
    <3>2. g = [k \in 0 .. n |-> g[k]]
      OBVIOUS
    <3> HIDE DEF g
    <3>3. [k \in 0 .. n |-> g[k]]
             = [k \in 0 .. n |-> IF k = 0 THEN start ELSE After(g[k - 1], k)]
      BY <3>1
    <3>4. Is(g, n)
      BY <3>2, <3>3
    <3> QED BY <3>4
  <2>3. n = 0 \/ n = 1
    BY <1>2, <1>3
  <2> QED BY <2>1, <2>2, <2>3
<1>7. Is(declared, n)
  BY <1>6
<1> HIDE DEF declared
<1>8. \A k \in 0 .. n : declared[k] = IF k = 0 THEN start ELSE After(declared[k - 1], k)
  BY <1>7
<1>9. \E c \in Block : Sound(u, e, c) /\ c.names = names
  <2>1. CASE n = 0
    <3>1. names = {}
      BY <1>3, <2>1 DEF Range
    <3>2. u = start
      <4>1. 0 \in 0 .. n
        BY <2>1
      <4> QED BY <1>8, <2>1, <4>1
    <3> HIDE DEF u, names
    <3> QED BY <1>5, <3>1, <3>2
  <2>2. CASE n = 1
    <3> DEFINE name == User(params[1])
               c == With(f0, {name})
               a == Allocated(start, name)
    <3>1. u = After(start, 1)
      <4>1. 0 \in 0 .. n /\ 1 \in 0 .. n /\ 1 - 1 = 0 /\ 1 # 0
        BY <2>2
      <4>2. declared[0] = start
        BY <1>8, <4>1
      <4>3. declared[1] = After(declared[1 - 1], 1)
        BY <1>8, <4>1
      <4> QED BY <2>2, <4>1, <4>2, <4>3
    <3>2. names = {name} /\ name \in Name /\ {name} \in SUBSET Name
      <4>1. Range(params) = {params[1]} /\ 1 \in 1 .. n
        <5>1. DOMAIN params = {1} /\ 1 \in 1 .. n
          BY <1>3, <2>2
        <5> QED BY <5>1 DEF Range
      <4> QED BY <1>3, <4>1
    <3>3. u = a ++ Use({name})
      BY <3>1 DEF After
    <3> HIDE DEF name, u, names
    <3>4. c \in Block /\ c.names = {name}
      <4>1. c \in Block /\ c.names = f0.names \cup {name}
        BY <1>5, <3>2, WithIs
      <4> HIDE DEF c
      <4> QED BY <1>5, <4>1
    <3>5. Sound(a, e, c)
      BY <1>5, <3>2, AllocatedSound
    <3>6. {name} \subseteq Readable(e, c)
      BY <1>5, <3>2, ReadableWith
    <3> HIDE DEF a, c
    <3>7. Sound(u, e, c)
      BY <3>2, <3>3, <3>5, <3>6, UseSound
    <3> QED BY <3>2, <3>4, <3>7
  <2>3. n = 0 \/ n = 1
    BY <1>2, <1>3
  <2> QED BY <2>1, <2>2, <2>3
<1>10. PICK c \in Block : Sound(u, e, c) /\ c.names = names
  BY <1>9
<1>11. names \subseteq Readable(e, c)
  <2>1. Number \notin names
    BY KindsOfNames DEF Number
  <2> HIDE DEF names
  <2> QED BY <1>10, <2>1 DEF Readable
<1> HIDE DEF u, names, argument
<1>12. t.blocks = << >> /\ t.errors = {}
  <2> DEFINE v == u ++ Use(names) ++ Free(names) ++ End
  <2>1. t = v
    BY <1>4
  <2>2. v.blocks = << >> /\ v.errors = {}
    BY <1>4, <1>10, <1>11, FreedMain DEF e
  <2> HIDE DEF t, v
  <2> QED BY <2>1, <2>2
<1> HIDE DEF t
<1> QED BY <1>1, <1>12 DEF Scoped

LEMMA InitScoped == Init => Scoped
<1> SUFFICES ASSUME Init PROVE Scoped
  OBVIOUS
<1>1. DOMAIN types = {} /\ phase = "open" /\ text.errors = {} /\ text.blocks = << >>
  BY DEF Init
<1> QED BY <1>1 DEF Scoped

LEMMA NextScoped == Inv /\ Scoped /\ [Next]_vars => Scoped'
<1> SUFFICES ASSUME Inv, Scoped, [Next]_vars PROVE Scoped'
  OBVIOUS
<1>1. CASE open_output_file
  BY <1>1, OpenOutputScoped
<1>2. CASE \E args \in Args : generate_args(args)
  BY <1>2, ArgsScoped
<1>3. CASE Expression
  BY <1>3, ExpressionScoped
<1>4. CASE Continuation
  BY <1>4, ContinuationScoped
<1>5. CASE \E names \in {{}} \cup {{name} : name \in Declared} : generate_return(names)
  BY <1>5, ReturnScoped
<1>6. CASE generate_c_main
  BY <1>6, CMainScoped
<1>7. CASE main
  BY <1>7, MainScoped
<1>8. CASE UNCHANGED vars
  <2>1. UNCHANGED <<text, calls, params, types, phase, limits>>
    BY <1>8 DEF vars
  <2>2. (Frames(calls, text.blocks) <=> Frames(calls, text.blocks)')
        /\ (Clean(text) <=> Clean(text)') /\ (Tidy(text) <=> Tidy(text)') /\ Known' = Known
    BY <2>1 DEF Frames, Settled, Clean, Tidy, Known
  <2> QED BY <2>1, <2>2 DEF Scoped
<1> QED BY <1>1, <1>2, <1>3, <1>4, <1>5, <1>6, <1>7, <1>8 DEF Next

LEMMA ScopedInvariant == Spec => [](Inv /\ Scoped)
<1>1. Init => Inv /\ Scoped
  BY InitInv, InitScoped
<1>2. Inv /\ Scoped /\ [Next]_vars => (Inv /\ Scoped)'
  BY NextInv, NextScoped
<1> QED BY <1>1, <1>2, PTL DEF Spec

\* A program the generator accepts and that stays within its limits compiles:
\* however its lists, loops and conditionals nest, gcc finds every brace
\* closed, every name declared once and in scope where it is used, every else
\* after an if, and no object is used after it is freed.
THEOREM ProgramCompiles == Spec => []SupportedProgramCompiles
<1>1. Inv /\ Scoped => SupportedProgramCompiles
  BY DEF Scoped, SupportedProgramCompiles, Compiles
<1> QED BY <1>1, ScopedInvariant, PTL

=============================================================================
