-------------------------- MODULE Tokenizer_proofs --------------------------
(***************************************************************************)
(* Proofs about the tokenizer, for every set of texts of any length and    *)
(* every reference location: where tokens say they are, and what becomes   *)
(* of the characters of the text.  Between two tokens none is lost, and a  *)
(* string ends at the first place that closes it.                          *)
(***************************************************************************)
EXTENDS Tokenizer, SequenceTheorems, FiniteSetTheorems, TLAPS

(***************************************************************************)
(* The inductive invariant.  The line and the column of a position of a    *)
(* text are stated of the text and the position alone.                     *)
(***************************************************************************)
Lines(s, p) == RefLine + Cardinality({j \in 1..p : s[j] = Newline})

ColumnIs(s, p, c) ==
    \/ (\A j \in 1..p : s[j] # Newline) /\ c = RefColumn + p
    \/ \E j \in 1..p : /\ s[j] = Newline /\ c = 1 + p - j
                       /\ \A k \in j+1..p : s[k] # Newline

Located(s, p, l, c) == l = Lines(s, p) /\ ColumnIs(s, p, c)

\* What LocationsAreTrue says of one token.
TrueToken(s, t) ==
    t.type # "Eos" =>
        /\ t.start >= RefStart /\ t.end <= RefStart + Len(s)
        /\ SubSeq(s, t.start - RefStart + 1, t.end - RefStart) = Source(t)
        /\ Located(s, t.start - RefStart, t.line, t.column)

\* The modes in which the noted start is the start of the token.
Gathering == {"comment", "def_name", "memo_name", "module", "string",
              "triple", "word", "zone", "dot"}
From == token_start_pos - RefStart

\* The scanner knows where it is, but for the column of the newline that it
\* backed up over at the end of a comment.
ScannerIsLocated ==
    \/ Located(text, pos, line, column)
    \/ mode = "start" /\ At(pos, Newline) /\ line = Lines(text, pos)

\* token_string is the text from the noted start to the scanner.
StringIsGathered ==
    IF mode \in Gathering
      THEN /\ token_start_pos >= RefStart /\ From <= pos
           /\ Located(text, From, token_line, token_column)
           /\ token_string = SubSeq(text, From + 1, pos)
           /\ mode = "dot" => At(From, ".")
      ELSE token_string = <<>>

TokensAreTrue == \A i \in 1..Len(tokens) : TrueToken(text, tokens[i])

TokenizerInv == ScannerIsLocated /\ StringIsGathered /\ TokensAreTrue

-----------------------------------------------------------------------------
(***************************************************************************)
(* Types.                                                                  *)
(***************************************************************************)
TokenRecord == [type : TokenType, string : Seq(Char), start : Nat,
                end : Nat, line : Nat, column : Nat]

\* The types of everything but the token that is returned.
ScannerTypes ==
    /\ text \in Texts /\ streaming \in BOOLEAN
    /\ pos \in 0..Len(text) /\ line \in Nat /\ column \in Nat
    /\ delim \in Quote
    /\ token_start_pos \in Nat /\ token_line \in Nat /\ token_column \in Nat
OutputTypes ==
    /\ mode \in {"start", "comment", "start_def", "start_memo", "def_name",
                 "memo_name", "module", "string", "triple", "word", "zone",
                 "dot", "done"}
    /\ token_string \in Seq(Char)
    /\ tokens \in Seq(TokenRecord)
    /\ res \in {"ok", "InvalidWordName", "UnterminatedString"}

\* The characters of a text.
LEMMA TextFacts ==
    ASSUME TypeOK
    PROVE  /\ text \in Seq(Char) /\ Len(text) \in Nat /\ pos \in Nat
           /\ \A i \in 1..Len(text) : text[i] \in Char
           /\ More => Next1 \in Char /\ pos + 1 \in 1..Len(text)
           /\ \A c : At(pos + 1, c) => pos + 2 \in 1..Len(text)
           /\ \A c : At(pos + 2, c) => pos + 3 \in 1..Len(text)
<1>1. text \in Seq(Char)
  BY TextsAssumption DEF TypeOK
<1>2. Len(text) \in Nat /\ pos \in 0..Len(text) /\ \A i \in 1..Len(text) : text[i] \in Char
  BY <1>1 DEF TypeOK
<1>3. More => Next1 \in Char /\ pos + 1 \in 1..Len(text)
  BY <1>2 DEF More, Next1
<1> QED
  BY <1>1, <1>2, <1>3 DEF At

\* A step of the scanner inside the text.
LEMMA AdvanceTypes ==
    ASSUME TypeOK, UNCHANGED input, NEW n \in 1..3, pos + n <= Len(text), Advance(n)
    PROVE  pos' \in 0..Len(text') /\ line' \in Nat /\ column' \in Nat
BY TextFacts DEF TypeOK, Advance, input

\* A returned token is a token.
LEMMA ReturnTypes ==
    ASSUME TypeOK, NEW type \in TokenType, NEW string \in Seq(Char), NEW s \in Seq(Char),
           token_start_pos' \in Nat, token_line' \in Nat, token_column' \in Nat,
           Returns(type, string, s)
    PROVE  OutputTypes'
<1>1. Token(type, string, s) \in TokenRecord
  BY DEF Token, TokenRecord
<1>2. tokens \in Seq(TokenRecord)
  BY DEF TypeOK, TokenRecord
<1>3. tokens' \in Seq(TokenRecord)
  BY <1>1, <1>2 DEF Returns
<1> QED
  BY <1>3 DEF Returns, OutputTypes, TypeOK, Clear

\* A step that goes on with the token.
LEMMA GotoTypes ==
    ASSUME TypeOK, NEW m, Goto(m), token_string' \in Seq(Char),
           m \in {"start", "comment", "start_def", "start_memo", "def_name",
                  "memo_name", "module", "string", "triple", "word", "zone", "dot"}
    PROVE  OutputTypes'
BY DEF TypeOK, Goto, OutputTypes, TokenRecord

\* A step that ends in an error.
LEMMA FailTypes ==
    ASSUME TypeOK, NEW e \in {"InvalidWordName", "UnterminatedString"}, Fails(e)
    PROVE  OutputTypes'
BY DEF TypeOK, Fails, Clear, OutputTypes, TokenRecord

\* Every kind of step keeps the types.
LEMMA GatherTypes ==
    ASSUME TypeOK, UNCHANGED input, More, NEW m, Gather(m),
           m \in {"comment", "def_name", "memo_name", "module", "string",
                  "triple", "word", "zone", "dot"}
    PROVE  TypeOK'
<1>1. /\ Next1 \in Char /\ token_string \in Seq(Char) /\ pos + 1 <= Len(text)
      /\ Advance(1) /\ Push(Next1) /\ Goto(m) /\ UNCHANGED <<noted, delim>>
  BY TextFacts DEF Gather, TypeOK
<1>2. token_string' \in Seq(Char)
  BY <1>1 DEF Push
<1>3. OutputTypes'
  BY <1>1, <1>2, GotoTypes
<1>4. pos' \in 0..Len(text') /\ line' \in Nat /\ column' \in Nat
  BY <1>1, AdvanceTypes
<1> QED
  BY <1>1, <1>3, <1>4 DEF TypeOK, OutputTypes, TokenRecord, input, noted

\* A returned token leaves the rest as it was.
LEMMA EmitTypes ==
    ASSUME TypeOK, UNCHANGED input, NEW type \in TokenType, Emit(type),
           pos' \in 0..Len(text'), line' \in Nat, column' \in Nat, UNCHANGED delim
    PROVE  TypeOK'
<1>1. OutputTypes'
  BY ReturnTypes DEF Emit, TypeOK, noted
<1> QED
  BY <1>1 DEF TypeOK, OutputTypes, TokenRecord, Emit, noted, input

\* A token that ends before the next character, with it, or with the text.
LEMMA EndTypes ==
    ASSUME TypeOK, UNCHANGED input, NEW type \in TokenType,
           \/ EndBefore(type)
           \/ EndOfText(type)
           \/ More /\ EndWith(1, type)
    PROVE  TypeOK'
<1>1. CASE EndBefore(type) \/ EndOfText(type)
  <2> QED  BY <1>1, EmitTypes DEF EndBefore, EndOfText, Stay, TypeOK, input
<1>2. CASE More /\ EndWith(1, type)
  <2>1. pos' \in 0..Len(text') /\ line' \in Nat /\ column' \in Nat
    BY <1>2, TextFacts, AdvanceTypes DEF EndWith
  <2> QED  BY <1>2, <2>1, EmitTypes DEF EndWith
<1> QED
  BY <1>1, <1>2

\* An error keeps the types of the scanner.
LEMMA FailsTypes ==
    ASSUME TypeOK, UNCHANGED input, UNCHANGED delim,
           NEW e \in {"InvalidWordName", "UnterminatedString"}, Fails(e),
           pos' \in 0..Len(text'), line' \in Nat, column' \in Nat
    PROVE  TypeOK'
<1>1. OutputTypes'
  BY FailTypes
<1> QED
  BY <1>1 DEF TypeOK, OutputTypes, TokenRecord, Fails, noted, input

\* Where a token starts is counted from the text's own start.
LEMMA StartIsNat ==
    ASSUME NEW p \in Nat
    PROVE  p + RefStart \in Nat
BY RefAssumption

\* A step that only goes on.
LEMMA MoveTypes ==
    ASSUME TypeOK, UNCHANGED input, UNCHANGED token_string, delim' \in Quote,
           NEW m, Goto(m), pos' \in 0..Len(text'), line' \in Nat, column' \in Nat,
           m \in {"start", "comment", "start_def", "start_memo", "def_name",
                  "memo_name", "module", "string", "triple", "word", "zone", "dot"},
           NoteHere \/ NoteThere \/ UNCHANGED noted
    PROVE  TypeOK'
<1>1. OutputTypes'
  BY GotoTypes DEF TypeOK
<1>2. token_start_pos' \in Nat /\ token_line' \in Nat /\ token_column' \in Nat
  <2>1. CASE NoteHere
    <3>1. /\ token_start_pos' = pos + RefStart
          /\ token_line' = line /\ token_column' = column
      BY <2>1 DEF NoteHere
    <3>2. pos \in Nat /\ line \in Nat /\ column \in Nat
      BY TextFacts DEF TypeOK
    <3>3. pos + RefStart \in Nat
      BY <3>2, StartIsNat
    <3> QED
      BY <3>1, <3>2, <3>3, Zenon
  <2>2. CASE NoteThere
    <3>1. /\ token_start_pos' = pos' + RefStart
          /\ token_line' = line' /\ token_column' = column'
      BY <2>2 DEF NoteThere
    <3>2. pos' \in Nat
      <4>1. text' = text /\ pos' \in 0..Len(text')
        BY DEF input
      <4>2. Len(text) \in Nat
        BY TextFacts
      <4> QED
        BY <4>1, <4>2
    <3>3. pos' + RefStart \in Nat
      BY <3>2, StartIsNat
    <3> QED
      BY <3>1, <3>3, Zenon
  <2>3. CASE UNCHANGED noted
    <3>1. /\ token_start_pos' = token_start_pos
          /\ token_line' = token_line /\ token_column' = token_column
      BY <2>3 DEF noted
    <3> QED
      BY <3>1 DEF TypeOK
  <2> QED
    BY <2>1, <2>2, <2>3
<1> QED
  BY <1>1, <1>2 DEF TypeOK, OutputTypes, TokenRecord, input

\* transition_from_start keeps the types.
LEMMA StartTypes ==
    ASSUME TypeOK, UNCHANGED input, Start
    PROVE  TypeOK'
<1> USE DEF Advance
<1>1. CASE ReturnEos
  BY <1>1, EmitTypes DEF ReturnEos, Stay, TypeOK, input, TokenType
<1> SUFFICES ASSUME More, ~ReturnEos
             PROVE  TypeOK'
  BY <1>1 DEF Start
<1> DEFINE Place == pos' \in 0..Len(text') /\ line' \in Nat /\ column' \in Nat
<1>a. Next1 \in Char /\ pos + 1 <= Len(text)
  BY TextFacts
<1>b. Advance(1) \/ Stay => Place
  BY <1>a, AdvanceTypes DEF Stay, TypeOK, input
<1>2. CASE SkipBlank
  BY <1>2, <1>b, MoveTypes DEF SkipBlank, TypeOK
<1>3. CASE OpenComment
  BY <1>3, <1>b, MoveTypes DEF OpenComment, Open, TypeOK
<1>4. CASE OpenModule
  BY <1>4, <1>b, MoveTypes DEF OpenModule, Open, TypeOK
<1>5. CASE OpenDefinition
  BY <1>5, <1>b, MoveTypes DEF OpenDefinition, TypeOK
<1>6. CASE OpenMemo
  <2>1. pos + 2 <= Len(text)
    BY <1>6, TextFacts DEF OpenMemo
  <2>2. Place
    BY <1>6, <2>1, AdvanceTypes DEF OpenMemo
  <2> QED
    BY <1>6, <2>2, MoveTypes DEF OpenMemo, TypeOK
<1>7. CASE OpenString
  <2>1. CASE IsTripleQuote(pos, Next1)
    <3>1. pos + 3 <= Len(text)
      BY <2>1, TextFacts DEF IsTripleQuote
    <3>2. Place
      BY <1>7, <2>1, <3>1, AdvanceTypes DEF OpenString, Open
    <3> QED
      BY <1>7, <2>1, <3>2, MoveTypes DEF OpenString, Open
  <2>2. CASE ~IsTripleQuote(pos, Next1)
    BY <1>7, <2>2, <1>b, MoveTypes DEF OpenString, Open
  <2> QED
    BY <2>1, <2>2
<1>8. CASE Single
  <2>1. SingleToken[Next1] \in TokenType
    BY <1>8 DEF Single, SingleToken, TokenType, Bracket
  <2>2. token_start_pos' \in Nat /\ token_line' \in Nat /\ token_column' \in Nat
    BY <1>8, RefAssumption, TextFacts DEF Single, NoteHere, TypeOK
  <2>3. <<Next1>> \in Seq(Char)
    BY <1>a
  <2>4. OutputTypes'
    BY <1>8, <2>1, <2>2, <2>3, ReturnTypes DEF Single
  <2> QED
    BY <1>8, <1>b, <2>2, <2>4 DEF Single, TypeOK, OutputTypes, TokenRecord, input
<1>9. CASE OpenWord
  <2> DEFINE m == IF Next1 = "." THEN "dot" ELSE "word"
  <2>1. Goto(m) /\ m \in {"dot", "word"}
    BY <1>9 DEF OpenWord
  <2> HIDE DEF m
  <2> QED
    BY <1>9, <2>1, <1>b, MoveTypes DEF OpenWord, TypeOK
<1> QED
  BY <1>2, <1>3, <1>4, <1>5, <1>6, <1>7, <1>8, <1>9 DEF Start

\* The transitions of a definition name keep the types.
LEMMA NameTypes ==
    ASSUME TypeOK, UNCHANGED input, BeforeName \/ Name
    PROVE  TypeOK'
<1> DEFINE Place == pos' \in 0..Len(text') /\ line' \in Nat /\ column' \in Nat
<1>1. (More /\ Advance(1)) \/ Stay => Place
  BY TextFacts, AdvanceTypes DEF Stay, TypeOK, input
<1>2. CASE BeforeName
  <2>1. CASE /\ More /\ Next1 \in Blank /\ Advance(1) /\ Goto(mode)
            /\ UNCHANGED <<noted, token_string>>
    BY <1>1, <1>2, <2>1, MoveTypes DEF BeforeName, TypeOK
  <2>2. CASE Place /\ Fails("InvalidWordName")
    BY <1>2, <2>2, FailsTypes DEF BeforeName
  <2>3. CASE Stay /\ NoteHere /\ UNCHANGED token_string
             /\ Goto(IF mode = "start_def" THEN "def_name" ELSE "memo_name")
    <3> DEFINE m == IF mode = "start_def" THEN "def_name" ELSE "memo_name"
    <3>1. Goto(m) /\ m \in {"def_name", "memo_name"}
      BY <2>3
    <3> HIDE DEF m
    <3> QED
      BY <1>1, <1>2, <2>3, <3>1, MoveTypes DEF BeforeName, TypeOK
  <2> QED
    BY <1>1, <1>2, <2>1, <2>2, <2>3 DEF BeforeName
<1>3. CASE Name
  <2> DEFINE type == IF mode = "def_name" THEN "StartDef" ELSE "StartMemo"
  <2>1. type \in TokenType
    BY DEF TokenType
  <2>2. \/ More /\ EndWith(1, type)
        \/ More /\ Advance(1) /\ Fails("InvalidWordName") /\ UNCHANGED delim
        \/ More /\ Gather(mode) /\ mode \in {"def_name", "memo_name"}
        \/ EndOfText(type)
    BY <1>3 DEF Name
  <2> HIDE DEF type
  <2>3. CASE More /\ Gather(mode) /\ mode \in {"def_name", "memo_name"}
    BY <2>3, GatherTypes
  <2> QED
    BY <1>1, <2>1, <2>2, <2>3, EndTypes, FailsTypes
<1> QED
  BY <1>2, <1>3

\* The transitions of the strings keep the types.
LEMMA StringTypes ==
    ASSUME TypeOK, UNCHANGED input, String \/ TripleString
    PROVE  TypeOK'
<1>1. CASE Unterminated
  <2>1. "String" \in TokenType /\ pos' \in 0..Len(text') /\ line' \in Nat /\ column' \in Nat
        /\ UNCHANGED delim
    BY <1>1 DEF TokenType, Unterminated, Stay, TypeOK, input
  <2> QED
    BY <1>1, <2>1, EmitTypes, FailsTypes DEF Unterminated
<1>2. CASE More /\ EndWith(1, "String")
  BY <1>2, EndTypes DEF TokenType
<1>3. CASE More /\ Closes /\ EndWith(3, "String")
  <2>1. pos + 3 <= Len(text)
    BY <1>3, TextFacts DEF Closes, IsTripleQuote
  <2>2. pos' \in 0..Len(text') /\ line' \in Nat /\ column' \in Nat
    BY <1>3, <2>1, AdvanceTypes DEF EndWith
  <2> QED
    BY <1>3, <2>2, EmitTypes DEF EndWith, TokenType
<1>4. CASE More /\ (Gather("string") \/ Gather("triple"))
  BY <1>4, GatherTypes
<1> QED
  BY <1>1, <1>2, <1>3, <1>4 DEF String, TripleString

\* The transitions of words and module names keep the types.
LEMMA WordTypes ==
    ASSUME TypeOK, UNCHANGED input, Word \/ Zone \/ Module
    PROVE  TypeOK'
<1>1. CASE Word
  BY <1>1, EndTypes, GatherTypes DEF Word, TokenType
<1>2. CASE Zone
  <2> DEFINE m == IF Next1 = "]" THEN "word" ELSE "zone"
  <2>1. (More /\ Gather(m)) \/ EndOfText("Word")
    BY <1>2 DEF Zone
  <2>2. m \in {"word", "zone"}
    OBVIOUS
  <2> HIDE DEF m
  <2> QED
    BY <2>1, <2>2, EndTypes, GatherTypes DEF TokenType
<1>3. CASE Module
  BY <1>3, EndTypes, GatherTypes DEF Module, TokenType
<1> QED
  BY <1>1, <1>2, <1>3

\* The transition of a comment keeps the types.
LEMMA CommentTypes ==
    ASSUME TypeOK, UNCHANGED input, Comment
    PROVE  TypeOK'
<1>1. CASE More /\ EndComment
  <2>1. Append(token_string, Next1) \in Seq(Char) /\ "Comment" \in TokenType
    BY <1>1, TextFacts DEF TypeOK, TokenType
  <2>2. OutputTypes'
    BY <1>1, <2>1, ReturnTypes DEF EndComment, TypeOK, noted
  <2> QED
    BY <1>1, <2>2 DEF EndComment, TypeOK, OutputTypes, TokenRecord, noted, input
<1>2. CASE ~EndComment
  BY <1>2, EndTypes, GatherTypes DEF Comment, TokenType
<1> QED
  BY <1>1, <1>2, EndTypes, GatherTypes DEF Comment, TokenType

\* The transition of a dot symbol keeps the types.
LEMMA DotTypes ==
    ASSUME TypeOK, UNCHANGED input, DotSymbol
    PROVE  TypeOK'
<1>1. CASE ((More /\ Advance(1)) \/ Stay) /\ EmitDot
  <2>1. pos' \in 0..Len(text') /\ line' \in Nat /\ column' \in Nat
    BY <1>1, TextFacts, AdvanceTypes DEF Stay, TypeOK, input
  <2>2. /\ token_string \in Seq(Char) /\ "Word" \in TokenType /\ "DotSymbol" \in TokenType
        /\ Len(token_string) >= 2 => Tail(token_string) \in Seq(Char)
    BY DEF TypeOK, TokenType
  <2>3. OutputTypes'
    <3>1. CASE Len(token_string) < 2
      BY <1>1, <2>2, <3>1, ReturnTypes DEF EmitDot, noted, TypeOK
    <3>2. CASE ~(Len(token_string) < 2)
      <4>1. Returns("DotSymbol", Tail(token_string), token_string)
        BY <1>1, <3>2 DEF EmitDot
      <4>2. Tail(token_string) \in Seq(Char)
        BY <2>2, <3>2
      <4> QED
        BY <1>1, <2>2, <4>1, <4>2, ReturnTypes DEF EmitDot, noted, TypeOK
    <3> QED
      BY <3>1, <3>2
  <2> QED
    BY <1>1, <2>1, <2>3 DEF EmitDot, TypeOK, OutputTypes, TokenRecord, noted, input
<1>2. CASE More /\ Gather("dot")
  BY <1>2, GatherTypes
<1> QED
  BY <1>1, <1>2 DEF DotSymbol

\* Every variable keeps its type, and the scanner stays inside the text.
THEOREM TokenizerTypes == Spec => []TypeOK
<1>1. Init => TypeOK
  <2> SUFFICES ASSUME Init PROVE TypeOK
    OBVIOUS
  <2>1. text \in Seq(Char) /\ Len(text) \in Nat
    BY TextsAssumption DEF Init
  <2> QED
    BY <2>1, RefAssumption DEF Init, TypeOK, Quote
<1>2. TypeOK /\ [Next]_vars => TypeOK'
  <2> SUFFICES ASSUME TypeOK, [Next]_vars PROVE TypeOK'
    OBVIOUS
  <2>1. CASE Next
    BY <2>1, StartTypes, CommentTypes, NameTypes, StringTypes, WordTypes, DotTypes
       DEF Next, Scan
  <2>2. CASE UNCHANGED vars
    BY <2>2 DEF vars, input, noted, TypeOK
  <2> QED
    BY <2>1, <2>2
<1> QED
  BY <1>1, <1>2, PTL DEF Spec

-----------------------------------------------------------------------------
(***************************************************************************)
(* Lines and columns.                                                      *)
(***************************************************************************)
\* One position further, a newline begins a line and counts.
LEMMA LinesStep ==
    ASSUME NEW s, NEW p \in Nat
    PROVE  /\ Lines(s, p) \in Nat
           /\ Lines(s, p + 1) = Lines(s, p) + (IF s[p + 1] = Newline THEN 1 ELSE 0)
<1> DEFINE Newlines(q) == {j \in 1..q : s[j] = Newline}
<1>1. \A q \in Nat : IsFiniteSet(Newlines(q)) /\ Cardinality(Newlines(q)) \in Nat
  <2> TAKE q \in Nat
  <2>1. IsFiniteSet(1..q)
    BY FS_Interval
  <2>2. Newlines(q) \subseteq 1..q
    OBVIOUS
  <2> QED
    BY <2>1, <2>2, FS_Subset, FS_CardinalityType
<1>2. CASE s[p + 1] = Newline
  <2>1. Newlines(p + 1) = Newlines(p) \cup {p + 1} /\ p + 1 \notin Newlines(p)
    BY <1>2
  <2>2. Cardinality(Newlines(p + 1)) = Cardinality(Newlines(p)) + 1
    BY <1>1, <2>1, FS_AddElement
  <2> QED
    BY <1>1, <1>2, <2>2, RefAssumption DEF Lines
<1>3. CASE s[p + 1] # Newline
  <2>1. Newlines(p + 1) = Newlines(p)
    BY <1>3
  <2> QED
    BY <1>1, <1>3, <2>1, RefAssumption DEF Lines
<1> QED
  BY <1>2, <1>3

\* One position further, the column starts at one behind a newline and counts
\* on behind any other character.
LEMMA ColumnStep ==
    ASSUME NEW s, NEW p \in Nat, NEW c \in Nat
    PROVE  /\ s[p + 1] = Newline => ColumnIs(s, p + 1, 1)
           /\ s[p + 1] # Newline /\ ColumnIs(s, p, c) => ColumnIs(s, p + 1, c + 1)
<1>1. ASSUME s[p + 1] = Newline PROVE ColumnIs(s, p + 1, 1)
  <2>1. \A k \in p + 1 + 1..p + 1 : s[k] # Newline
    OBVIOUS
  <2>2. p + 1 \in 1..p + 1 /\ 1 = 1 + (p + 1) - (p + 1)
    OBVIOUS
  <2> QED
    BY <1>1, <2>1, <2>2 DEF ColumnIs
<1>2. ASSUME s[p + 1] # Newline, ColumnIs(s, p, c) PROVE ColumnIs(s, p + 1, c + 1)
  <2>1. CASE (\A j \in 1..p : s[j] # Newline) /\ c = RefColumn + p
    BY <1>2, <2>1, RefAssumption DEF ColumnIs
  <2>2. CASE \E j \in 1..p : /\ s[j] = Newline /\ c = 1 + p - j
                             /\ \A k \in j+1..p : s[k] # Newline
    <3>1. PICK j \in 1..p : /\ s[j] = Newline /\ c = 1 + p - j
                            /\ \A k \in j+1..p : s[k] # Newline
      BY <2>2
    <3>2. j \in 1..p + 1 /\ c + 1 = 1 + (p + 1) - j
      BY <3>1
    <3>3. \A k \in j+1..p + 1 : s[k] # Newline
      BY <1>2, <3>1
    <3> QED
      BY <3>1, <3>2, <3>3 DEF ColumnIs
  <2> QED
    BY <1>2, <2>1, <2>2 DEF ColumnIs
<1> QED
  BY <1>1, <1>2

\* The reference location is the location of the first character.
LEMMA FirstPlace ==
    ASSUME NEW s
    PROVE  Located(s, 0, RefLine, RefColumn)
<1>1. {j \in 1..0 : s[j] = Newline} = {}
  OBVIOUS
<1> QED
  BY <1>1, RefAssumption, FS_EmptySet DEF Located, Lines, ColumnIs

\* The scanner is wrong about its place on the newline behind a comment only.
LEMMA PlaceIsKnown ==
    ASSUME TypeOK, ScannerIsLocated,
           mode # "start" \/ Exhausted \/ (More /\ Next1 # Newline)
    PROVE  Located(text, pos, line, column)
BY TextFacts DEF ScannerIsLocated, At, Exhausted, More, Next1

\* One character read, the scanner knows its place again.
LEMMA AdvanceKeepsPlace ==
    ASSUME TypeOK, UNCHANGED input, ScannerIsLocated, More, Advance(1)
    PROVE  Located(text', pos', line', column')
<1>1. /\ pos \in Nat /\ line \in Nat /\ column \in Nat /\ text' = text
      /\ pos' = pos + 1 /\ line = Lines(text, pos)
  BY TextFacts DEF TypeOK, input, Advance, ScannerIsLocated, Located
<1>2. CASE text[pos + 1] = Newline
  BY <1>1, <1>2, LinesStep, ColumnStep DEF Advance, Next1, Located
<1>3. CASE text[pos + 1] # Newline
  <2>1. ColumnIs(text, pos, column)
    BY <1>3, PlaceIsKnown DEF Next1, Located
  <2> QED
    BY <1>1, <1>3, <2>1, LinesStep, ColumnStep DEF Advance, Next1, Located
<1> QED
  BY <1>2, <1>3

\* Over the marks that open or close a token, none of them a newline.
LEMMA AdvanceOverMarks ==
    ASSUME TypeOK, UNCHANGED input, Located(text, pos, line, column),
           NEW n \in 2..3, Advance(n), \A k \in 1..n : text[pos + k] # Newline
    PROVE  Located(text', pos', line', column')
<1>1. pos \in Nat /\ line \in Nat /\ column \in Nat /\ text' = text
  BY TextFacts DEF TypeOK, input
<1>2. pos' = pos + n /\ line' = line /\ column' = column + n
  BY DEF Advance
<1>3. Located(text, pos + 1, line, column + 1)
  BY <1>1, LinesStep, ColumnStep DEF Located
<1>4. Located(text, pos + 2, line, column + 2)
  <2>1. text[(pos + 1) + 1] # Newline /\ (pos + 1) + 1 = pos + 2 /\ (column + 1) + 1 = column + 2
    BY <1>1
  <2> QED
    BY <1>1, <1>3, <2>1, LinesStep, ColumnStep DEF Located
<1>5. n = 3 => Located(text, pos + 3, line, column + 3)
  <2>1. ASSUME n = 3
        PROVE  /\ text[(pos + 2) + 1] # Newline
               /\ (pos + 2) + 1 = pos + 3 /\ (column + 2) + 1 = column + 3
    BY <1>1, <2>1
  <2> QED
    BY <1>1, <1>4, <2>1, LinesStep, ColumnStep DEF Located
<1> QED
  BY <1>1, <1>2, <1>4, <1>5

-----------------------------------------------------------------------------
(***************************************************************************)
(* What each kind of step does to the invariant.                           *)
(***************************************************************************)
\* The text of a token that is being gathered.
LEMMA GatheredFacts ==
    ASSUME TypeOK, StringIsGathered, mode \in Gathering
    PROVE  /\ token_start_pos = From + RefStart /\ From \in 0..pos
           /\ Len(token_string) = pos - From
           /\ token_string = SubSeq(text, From + 1, pos)
           /\ Located(text, From, token_line, token_column)
<1>1. /\ token_start_pos \in Nat /\ RefStart \in Nat /\ token_start_pos >= RefStart
      /\ From <= pos /\ token_string = SubSeq(text, From + 1, pos)
      /\ Located(text, From, token_line, token_column)
  BY RefAssumption DEF TypeOK, StringIsGathered
<1>2. From \in 0..pos /\ token_start_pos = From + RefStart
  BY <1>1, TextFacts DEF From
<1>3. \A i \in From + 1..pos : text[i] \in Char
  BY <1>2, TextFacts DEF TypeOK
<1>4. Len(SubSeq(text, From + 1, pos)) = pos - From
  BY <1>2, <1>3, TextFacts, SubSeqProperties
<1> QED
  BY <1>1, <1>2, <1>4

\* A character becomes part of the token.
LEMMA GatherKeepsInv ==
    ASSUME TypeOK, UNCHANGED input, TokenizerInv, More, mode \in Gathering,
           NEW m \in Gathering, Gather(m), m = "dot" => mode = "dot"
    PROVE  TokenizerInv'
<1>1. /\ text' = text /\ pos' = pos + 1 /\ From' = From /\ noted' = noted
      /\ token_string' = Append(token_string, text[pos + 1])
      /\ mode' = m /\ tokens' = tokens
  BY DEF Gather, Advance, Push, Goto, Next1, input, noted, From
<1>2. ScannerIsLocated'
  BY AdvanceKeepsPlace DEF TokenizerInv, Gather, ScannerIsLocated
<1>3. /\ From \in 0..pos /\ token_string = SubSeq(text, From + 1, pos)
      /\ Located(text, From, token_line, token_column)
  BY GatheredFacts DEF TokenizerInv
<1>4. token_string' = SubSeq(text, From + 1, pos + 1)
  <2>1. /\ text \in Seq(Char) /\ From + 1 \in 1..Len(text) /\ pos + 1 \in From + 1..Len(text)
        /\ (pos + 1) - 1 = pos
    BY <1>3, TextFacts
  <2>2. SubSeq(text, From + 1, pos + 1) = SubSeq(text, From + 1, pos) \o <<text[pos + 1]>>
    BY <2>1, SubSeqRecursiveSecond
  <2>3. token_string \in Seq(Char) /\ text[pos + 1] \in Char
    BY TextFacts DEF TypeOK, Next1
  <2> QED
    BY <1>1, <1>3, <2>2, <2>3, AppendIsConcat
<1>5. StringIsGathered'
  <2>1. token_start_pos' >= RefStart /\ From' <= pos'
    BY <1>1, <1>3, TextFacts DEF TokenizerInv, StringIsGathered, noted
  <2>2. m = "dot" => At(From, ".")'
    BY <1>1 DEF TokenizerInv, StringIsGathered, At
  <2>3. Located(text', From', token_line', token_column')
    BY <1>1, <1>3 DEF noted
  <2>4. token_string' = SubSeq(text', From' + 1, pos')
    BY <1>1, <1>4
  <2> QED
    BY <1>1, <2>1, <2>2, <2>3, <2>4 DEF StringIsGathered
<1>6. TokensAreTrue'
  BY <1>1 DEF TokenizerInv, TokensAreTrue
<1> QED
  BY <1>2, <1>5, <1>6 DEF TokenizerInv

\* A token begins where the scanner is behind the step.
LEMMA OpenKeepsInv ==
    ASSUME TypeOK, TypeOK', UNCHANGED input, TokenizerInv, mode \notin Gathering,
           UNCHANGED token_string, NEW m \in Gathering, Goto(m), NoteThere,
           Located(text', pos', line', column'), m = "dot" => At(pos, ".")'
    PROVE  TokenizerInv'
<1>1. /\ text' = text /\ token_start_pos' = pos' + RefStart /\ token_line' = line'
      /\ token_column' = column' /\ token_string' = <<>> /\ mode' = m /\ tokens' = tokens
  BY DEF NoteThere, Goto, TokenizerInv, StringIsGathered, input
<1>2. pos' \in Nat /\ RefStart \in Nat /\ pos' + RefStart = token_start_pos'
  BY <1>1, TextsAssumption, RefAssumption DEF TypeOK
<1>3. /\ From' = pos' /\ token_start_pos' >= RefStart
      /\ From' \in Nat /\ From' <= pos' /\ pos' < From' + 1
  BY <1>2 DEF From
<1>4. SubSeq(text', From' + 1, pos') = <<>>
  <2>1. From' + 1 \in Int /\ pos' \in Int
    BY <1>2, <1>3
  <2> QED
    BY <1>3, <2>1, SubSeqEmpty
<1>5. m = "dot" => At(From, ".")'
  BY <1>3 DEF At
<1>6. StringIsGathered'
  <2>1. /\ mode' \in Gathering /\ token_start_pos' >= RefStart /\ From' <= pos'
        /\ token_string' = SubSeq(text', From' + 1, pos')
    BY <1>1, <1>2, <1>3, <1>4
  <2>2. Located(text', From', token_line', token_column')
    BY <1>1, <1>3
  <2>3. mode' = "dot" => At(From, ".")'
    BY <1>1, <1>5
  <2> QED
    BY <2>1, <2>2, <2>3 DEF StringIsGathered
<1>7. TokensAreTrue'
  BY <1>1 DEF TokenizerInv, TokensAreTrue
<1> QED
  BY <1>6, <1>7 DEF TokenizerInv, ScannerIsLocated

\* A step between tokens.
LEMMA MoveKeepsInv ==
    ASSUME UNCHANGED input, TokenizerInv, mode \notin Gathering, mode' \notin Gathering,
           token_string' = <<>>, UNCHANGED tokens, Located(text', pos', line', column')
    PROVE  TokenizerInv'
<1>1. TokensAreTrue'
  BY DEF TokenizerInv, TokensAreTrue, input
<1> QED
  BY <1>1 DEF TokenizerInv, ScannerIsLocated, StringIsGathered

\* An error ends the text where the scanner is.
LEMMA FailKeepsInv ==
    ASSUME UNCHANGED input, TokenizerInv, NEW e, Fails(e), Located(text', pos', line', column')
    PROVE  TokenizerInv'
<1>1. TokensAreTrue'
  BY DEF TokenizerInv, TokensAreTrue, input, Fails
<1> QED
  BY <1>1 DEF TokenizerInv, ScannerIsLocated, StringIsGathered, Fails, Clear, Gathering

\* A true token is returned.
LEMMA ReturnKeepsInv ==
    ASSUME TypeOK, UNCHANGED input, TokenizerInv, ScannerIsLocated',
           NEW type, NEW string, NEW s, Returns(type, string, s),
           TrueToken(text, Token(type, string, s))
    PROVE  TokenizerInv'
<1> DEFINE t == Token(type, string, s)
<1>1. tokens' = Append(tokens, t) /\ tokens \in Seq(TokenRecord) /\ text' = text
  BY DEF Returns, TypeOK, TokenRecord, input
<1> HIDE DEF t
<1>2. \A i \in 1..Len(tokens') : tokens'[i] = t \/ (i \in 1..Len(tokens) /\ tokens'[i] = tokens[i])
  BY <1>1
<1>3. TrueToken(text, t)
  BY DEF t
<1>4. TokensAreTrue'
  BY <1>1, <1>2, <1>3 DEF TokenizerInv, TokensAreTrue
<1>5. StringIsGathered'
  BY DEF Returns, Clear, StringIsGathered, Gathering
<1> QED
  BY <1>4, <1>5 DEF TokenizerInv

\* The gathered characters are returned.
LEMMA EmitKeepsInv ==
    ASSUME TypeOK, UNCHANGED input, TokenizerInv, mode \in Gathering, UNCHANGED noted,
           ScannerIsLocated', NEW type \in TokenType \ {"Eos"}, NEW string,
           Returns(type, string, token_string),
           IF type = "DotSymbol" THEN <<".">> \o string = token_string
                                 ELSE string = token_string
    PROVE  TokenizerInv'
<1> DEFINE t == Token(type, string, token_string)
<1>1. /\ token_start_pos = From + RefStart /\ From \in 0..pos /\ RefStart \in Nat
      /\ Len(token_string) = pos - From /\ pos \in 0..Len(text) /\ Len(text) \in Nat
      /\ token_string = SubSeq(text, From + 1, pos)
      /\ Located(text, From, token_line, token_column)
  BY GatheredFacts, TextFacts, RefAssumption DEF TokenizerInv, TypeOK
<1>2. /\ t.type = type /\ t.string = string /\ t.start = token_start_pos
      /\ t.end = token_start_pos + Len(token_string)
      /\ t.line = token_line /\ t.column = token_column
  BY DEF Token, noted
<1> HIDE DEF t
<1>3. Source(t) = token_string
  BY <1>2 DEF Source
<1>4. t.start - RefStart = From /\ t.end - RefStart = pos
  BY <1>1, <1>2
<1>5. t.start >= RefStart /\ t.end <= RefStart + Len(text)
  BY <1>1, <1>2
<1>6. TrueToken(text, t)
  BY <1>1, <1>2, <1>3, <1>4, <1>5 DEF TrueToken
<1> QED
  BY <1>6, ReturnKeepsInv DEF t

-----------------------------------------------------------------------------
(***************************************************************************)
(* Every step keeps the invariant.                                         *)
(***************************************************************************)
\* Between tokens: blanks, marks that open a token, tokens of one character.
LEMMA StartKeepsInv ==
    ASSUME TypeOK, TypeOK', UNCHANGED input, TokenizerInv, Start
    PROVE  TokenizerInv'
<1>1. /\ mode = "start" /\ mode \notin Gathering /\ token_string = <<>> /\ text' = text
      /\ ScannerIsLocated /\ pos \in Nat
  BY TextFacts DEF Start, Gathering, TokenizerInv, StringIsGathered, input
<1>2. CASE ReturnEos
  <2>1. Located(text', pos', line', column')
    BY <1>1, <1>2, PlaceIsKnown DEF ReturnEos, Stay
  <2>2. TrueToken(text, Token("Eos", token_string, token_string))
    BY DEF TrueToken, Token
  <2> QED
    BY <1>2, <2>1, <2>2, ReturnKeepsInv DEF ReturnEos, Emit, ScannerIsLocated
<1> SUFFICES ASSUME More, ~ReturnEos
             PROVE  TokenizerInv'
  BY <1>2 DEF Start
<1>3. Advance(1) => Located(text', pos', line', column')
  BY <1>1, AdvanceKeepsPlace
<1>4. Next1 # Newline => Located(text, pos, line, column)
  BY <1>1, PlaceIsKnown
<1>5. CASE SkipBlank
  BY <1>1, <1>3, <1>5, MoveKeepsInv DEF SkipBlank, Goto, Gathering
<1>6. CASE OpenComment
  BY <1>1, <1>3, <1>6, OpenKeepsInv DEF OpenComment, Open, Gathering
<1>7. CASE OpenModule
  BY <1>1, <1>3, <1>7, OpenKeepsInv DEF OpenModule, Open, Gathering
<1>8. CASE OpenDefinition
  BY <1>1, <1>3, <1>8, MoveKeepsInv DEF OpenDefinition, Goto, Gathering
<1>9. CASE OpenMemo
  <2>1. text[pos + 1] = "@" /\ text[pos + 2] = ":" /\ Next1 # Newline
    <3>1. text[pos + 1] = "@" /\ text[(pos + 1) + 1] = ":" /\ (pos + 1) + 1 = pos + 2
      BY <1>1, <1>9 DEF OpenMemo, At, Next1
    <3> QED
      BY <3>1 DEF Next1, Newline
  <2>2. \A k \in 1..2 : text[pos + k] # Newline
    BY <2>1 DEF Newline
  <2>3. Located(text', pos', line', column')
    BY <1>4, <1>9, <2>1, <2>2, AdvanceOverMarks DEF OpenMemo
  <2> QED
    BY <1>1, <1>9, <2>3, MoveKeepsInv DEF OpenMemo, Goto, Gathering
<1>10. CASE OpenString
  <2>1. CASE IsTripleQuote(pos, Next1)
    <3>1. Next1 \in Quote /\ Next1 # Newline
      BY <1>10 DEF OpenString, Quote, Newline
    <3>2. text[pos + 1] = Next1 /\ text[pos + 2] = Next1 /\ text[pos + 3] = Next1
      <4>1. text[(pos + 1) + 1] = Next1 /\ text[(pos + 2) + 1] = Next1
        BY <2>1 DEF IsTripleQuote, At
      <4> QED
        BY <1>1, <4>1 DEF Next1
    <3>3. \A k \in 1..3 : text[pos + k] # Newline
      BY <3>1, <3>2
    <3>4. Open(3, "triple") /\ Located(text', pos', line', column')
      BY <1>4, <1>10, <2>1, <3>1, <3>3, AdvanceOverMarks DEF OpenString, Open
    <3> QED
      BY <1>1, <3>4, OpenKeepsInv DEF Open, Gathering
  <2>2. CASE ~IsTripleQuote(pos, Next1)
    BY <1>1, <1>3, <1>10, <2>2, OpenKeepsInv DEF OpenString, Open, Gathering
  <2> QED
    BY <2>1, <2>2
<1>11. CASE Single
  <2> DEFINE t == Token(SingleToken[Next1], <<Next1>>, <<Next1>>)
  <2>1. Next1 \in {";", "[", "]", "}"} /\ Next1 # Newline
    BY <1>11 DEF Single, SingleToken, Bracket, Newline
  <2>2. /\ t.type = SingleToken[Next1] /\ t.string = <<Next1>> /\ t.line = line
        /\ t.start = pos + RefStart /\ t.end = pos + RefStart + 1 /\ t.column = column
    BY <1>11 DEF Single, NoteHere, Token
  <2>3. t.type # "DotSymbol"
    BY <2>1, <2>2 DEF SingleToken, Bracket
  <2> HIDE DEF t
  <2>4. /\ t.start - RefStart = pos /\ t.end - RefStart = pos + 1
        /\ t.start >= RefStart /\ t.end <= RefStart + Len(text)
    BY <1>1, <2>2, RefAssumption, TextFacts
  <2>5. SubSeq(text, pos + 1, pos + 1) = <<Next1>>
    <3>1. /\ text \in Seq(Char) /\ pos + 1 \in 1..Len(text) /\ pos + 1 \in pos + 1..Len(text)
          /\ pos + 1 + 1 \in Int /\ pos + 1 < pos + 1 + 1 /\ pos + 1 \in Int
      BY <1>1, TextFacts
    <3>2. SubSeq(text, pos + 1 + 1, pos + 1) = <<>>
      BY <3>1, SubSeqEmpty
    <3>3. SubSeq(text, pos + 1, pos + 1) = <<text[pos + 1]>> \o <<>>
      BY <3>1, <3>2, SubSeqRecursiveFirst
    <3>4. <<text[pos + 1]>> \in Seq(Char)
      BY TextFacts DEF Next1
    <3> QED
      BY <3>3, <3>4, ConcatEmptySeq DEF Next1
  <2>6. TrueToken(text, t)
    BY <1>4, <2>1, <2>2, <2>3, <2>4, <2>5 DEF TrueToken, Source
  <2> QED
    BY <1>3, <1>11, <2>6, ReturnKeepsInv DEF Single, ScannerIsLocated, t
<1>12. CASE OpenWord
  <2> DEFINE m == IF Next1 = "." THEN "dot" ELSE "word"
  <2>1. Goto(m) /\ m \in Gathering /\ Stay /\ NoteThere /\ UNCHANGED token_string
    BY <1>12 DEF OpenWord, Gathering, NoteHere, NoteThere, Stay
  <2>2. m = "dot" => At(pos, ".")'
    BY <1>1, <2>1 DEF At, Stay, More, Next1
  <2>3. Located(text', pos', line', column')
    BY <1>1, <1>4, <1>12, <2>1 DEF OpenWord, StartsWord, Blank, Stay
  <2> HIDE DEF m
  <2> QED
    BY <1>1, <2>1, <2>2, <2>3, OpenKeepsInv
<1> QED
  BY <1>5, <1>6, <1>7, <1>8, <1>9, <1>10, <1>11, <1>12 DEF Start

\* A token that ends before the next character, with it, or with the text.
LEMMA EndKeepsInv ==
    ASSUME TypeOK, UNCHANGED input, TokenizerInv, mode \in Gathering,
           NEW type \in TokenType \ {"Eos", "DotSymbol"},
           \/ EndBefore(type)
           \/ EndOfText(type)
           \/ More /\ EndWith(1, type)
    PROVE  TokenizerInv'
<1>1. Emit(type) /\ mode # "start" /\ text' = text
  BY DEF EndBefore, EndOfText, EndWith, Gathering, input
<1>2. Located(text', pos', line', column')
  <2>1. CASE Stay
    BY <1>1, <2>1, PlaceIsKnown DEF Stay, TokenizerInv
  <2>2. CASE More /\ Advance(1)
    BY <2>2, AdvanceKeepsPlace DEF TokenizerInv
  <2> QED
    BY <2>1, <2>2 DEF EndBefore, EndOfText, EndWith
<1> QED
  BY <1>1, <1>2, EmitKeepsInv DEF Emit, ScannerIsLocated

\* A comment, with the newline that ends it and is read again.
LEMMA CommentKeepsInv ==
    ASSUME TypeOK, UNCHANGED input, TokenizerInv, Comment
    PROVE  TokenizerInv'
<1>1. mode \in Gathering /\ mode = "comment"
  BY DEF Comment, Gathering
<1>2. CASE More /\ EndComment
  <2> DEFINE s == Append(token_string, Next1)
  <2> DEFINE t == Token("Comment", s, s)
  <2>1. /\ From \in 0..pos /\ token_string = SubSeq(text, From + 1, pos)
        /\ Located(text, From, token_line, token_column) /\ RefStart \in Nat
        /\ token_start_pos = From + RefStart /\ Len(token_string) = pos - From
    BY <1>1, GatheredFacts, RefAssumption DEF TokenizerInv
  <2>2. /\ token_string \in Seq(Char) /\ Next1 \in Char /\ text \in Seq(Char)
        /\ pos \in Nat /\ Len(text) \in Nat /\ pos + 1 <= Len(text)
    BY <1>2, TextFacts DEF TypeOK
  <2>3. s = SubSeq(text, From + 1, pos + 1)
    <3>1. /\ text \in Seq(Char) /\ From + 1 \in 1..Len(text) /\ pos + 1 \in From + 1..Len(text)
          /\ (pos + 1) - 1 = pos
      BY <2>1, <2>2
    <3>2. SubSeq(text, From + 1, pos + 1) = SubSeq(text, From + 1, pos) \o <<text[pos + 1]>>
      BY <3>1, SubSeqRecursiveSecond
    <3> QED
      BY <2>1, <2>2, <3>2, AppendIsConcat DEF Next1
  <2>4. Len(s) = pos + 1 - From
    BY <2>1, <2>2, AppendProperties, TextFacts
  <2>5. /\ t.type = "Comment" /\ t.string = s /\ t.start = token_start_pos
        /\ t.end = token_start_pos + Len(s) /\ t.line = token_line /\ t.column = token_column
    BY <1>2 DEF Token, EndComment, noted
  <2> HIDE DEF t, s
  <2>6. /\ t.start - RefStart = From /\ t.end - RefStart = pos + 1
        /\ t.start >= RefStart /\ t.end <= RefStart + Len(text)
    BY <1>2, <2>1, <2>4, <2>5, TextFacts
  <2>7. TrueToken(text, t)
    BY <2>1, <2>3, <2>5, <2>6 DEF TrueToken, Source
  <2>8. ScannerIsLocated'
    <3>1. line = Lines(text, pos) /\ text' = text
      BY DEF TokenizerInv, ScannerIsLocated, Located, input
    <3>2. mode' = "start" /\ pos' = pos /\ line' = line
      BY <1>2 DEF EndComment, Returns
    <3>3. At(pos, Newline)'
      BY <1>2, <3>1, <3>2 DEF EndComment, More, Next1, At
    <3> QED
      BY <3>1, <3>2, <3>3 DEF ScannerIsLocated
  <2> QED
    BY <1>2, <2>7, <2>8, ReturnKeepsInv DEF EndComment, s, t
<1>3. CASE More /\ Gather("comment")
  BY <1>1, <1>3, GatherKeepsInv
<1>4. CASE EndOfText("Comment")
  BY <1>1, <1>4, EndKeepsInv DEF TokenType
<1> QED
  BY <1>2, <1>3, <1>4 DEF Comment

\* The name of a definition, and the blanks before it.
LEMMA NameKeepsInv ==
    ASSUME TypeOK, TypeOK', UNCHANGED input, TokenizerInv, BeforeName \/ Name
    PROVE  TokenizerInv'
<1> DEFINE Place == Located(text', pos', line', column')
<1>1. (More /\ Advance(1)) \/ Stay => Place
  <2>1. mode # "start" /\ text' = text
    BY DEF BeforeName, Name, input
  <2> QED
    BY <2>1, AdvanceKeepsPlace, PlaceIsKnown DEF TokenizerInv, Stay
<1>2. CASE BeforeName
  <2>1. mode \in {"start_def", "start_memo"} /\ mode \notin Gathering /\ token_string = <<>>
    BY <1>2 DEF BeforeName, Gathering, TokenizerInv, StringIsGathered
  <2>2. CASE /\ More /\ Next1 \in Blank /\ Advance(1) /\ Goto(mode)
            /\ UNCHANGED <<noted, token_string>>
    BY <1>1, <2>1, <2>2, MoveKeepsInv DEF Goto
  <2>3. CASE Place /\ Fails("InvalidWordName")
    BY <2>3, FailKeepsInv
  <2>4. CASE Stay /\ NoteHere /\ UNCHANGED token_string
             /\ Goto(IF mode = "start_def" THEN "def_name" ELSE "memo_name")
    <3> DEFINE m == IF mode = "start_def" THEN "def_name" ELSE "memo_name"
    <3>1. Goto(m) /\ m \in Gathering /\ m # "dot" /\ NoteThere
      BY <2>4 DEF Gathering, NoteHere, NoteThere, Stay
    <3> HIDE DEF m
    <3> QED
      BY <1>1, <2>1, <2>4, <3>1, OpenKeepsInv
  <2> QED
    BY <1>1, <1>2, <2>2, <2>3, <2>4 DEF BeforeName
<1>3. CASE Name
  <2> DEFINE type == IF mode = "def_name" THEN "StartDef" ELSE "StartMemo"
  <2>1. type \in TokenType \ {"Eos", "DotSymbol"} /\ mode \in Gathering /\ mode # "dot"
    BY <1>3 DEF TokenType, Name, Gathering
  <2>2. \/ More /\ EndWith(1, type)
        \/ More /\ Advance(1) /\ Fails("InvalidWordName")
        \/ More /\ Gather(mode)
        \/ EndOfText(type)
    BY <1>3 DEF Name
  <2> HIDE DEF type
  <2>3. CASE More /\ Gather(mode)
    BY <2>1, <2>3, GatherKeepsInv
  <2> QED
    BY <1>1, <2>1, <2>2, <2>3, EndKeepsInv, FailKeepsInv
<1> QED
  BY <1>2, <1>3

\* A string with either kind of delimiter.
LEMMA StringKeepsInv ==
    ASSUME TypeOK, UNCHANGED input, TokenizerInv, String \/ TripleString
    PROVE  TokenizerInv'
<1>1. mode \in Gathering /\ mode # "start" /\ mode # "dot" /\ text' = text /\ "String" \in TokenType
  BY DEF String, TripleString, Gathering, input, TokenType
<1>2. Located(text, pos, line, column)
  BY <1>1, PlaceIsKnown DEF TokenizerInv
<1>3. CASE Unterminated
  <2>1. Located(text', pos', line', column')
    BY <1>1, <1>2, <1>3 DEF Unterminated, Stay
  <2>2. CASE Emit("String")
    BY <1>1, <2>1, <2>2, EmitKeepsInv DEF Emit, ScannerIsLocated
  <2>3. CASE Fails("UnterminatedString")
    BY <2>1, <2>3, FailKeepsInv
  <2> QED
    BY <1>3, <2>2, <2>3 DEF Unterminated
<1>4. CASE More /\ EndWith(1, "String")
  BY <1>1, <1>4, EndKeepsInv
<1>5. CASE More /\ Closes /\ EndWith(3, "String")
  <2>1. text[pos + 1] = delim /\ text[(pos + 1) + 1] = delim /\ text[(pos + 2) + 1] = delim
    BY <1>5 DEF Closes, IsTripleQuote, At, Next1
  <2>2. delim # Newline /\ pos \in Nat
    BY TextFacts DEF TypeOK, Quote, Newline
  <2>3. \A k \in 1..3 : text[pos + k] # Newline
    BY <2>1, <2>2
  <2>4. Located(text', pos', line', column')
    BY <1>2, <1>5, <2>3, AdvanceOverMarks DEF EndWith
  <2> QED
    BY <1>1, <1>5, <2>4, EmitKeepsInv DEF EndWith, Emit, ScannerIsLocated
<1>6. CASE More /\ (Gather("string") \/ Gather("triple"))
  BY <1>1, <1>6, GatherKeepsInv DEF Gathering
<1> QED
  BY <1>3, <1>4, <1>5, <1>6 DEF String, TripleString

\* Words, their time zones, and module names.
LEMMA WordKeepsInv ==
    ASSUME TypeOK, UNCHANGED input, TokenizerInv, Word \/ Zone \/ Module
    PROVE  TokenizerInv'
<1>1. mode \in Gathering
  BY DEF Word, Zone, Module, Gathering
<1>2. \/ More /\ (\/ Gather("word") \/ Gather("zone") \/ Gather("module"))
      \/ \E type \in {"Word", "StartModule"} :
            EndBefore(type) \/ EndOfText(type) \/ (More /\ EndWith(1, type))
  BY DEF Word, Zone, Module
<1>3. CASE More /\ (\/ Gather("word") \/ Gather("zone") \/ Gather("module"))
  BY <1>1, <1>3, GatherKeepsInv DEF Gathering
<1>4. ASSUME NEW type \in {"Word", "StartModule"},
             EndBefore(type) \/ EndOfText(type) \/ (More /\ EndWith(1, type))
      PROVE  TokenizerInv'
  BY <1>1, <1>4, EndKeepsInv DEF TokenType
<1> QED
  BY <1>2, <1>3, <1>4

\* A dot symbol: the dot is in the location and not in the string.
LEMMA DotKeepsInv ==
    ASSUME TypeOK, UNCHANGED input, TokenizerInv, DotSymbol
    PROVE  TokenizerInv'
<1>1. mode \in Gathering /\ mode = "dot" /\ text' = text
  BY DEF DotSymbol, Gathering, input
<1>2. CASE More /\ Gather("dot")
  BY <1>1, <1>2, GatherKeepsInv
<1>3. CASE ((More /\ Advance(1)) \/ Stay) /\ EmitDot
  <2>1. Located(text', pos', line', column')
    BY <1>1, <1>3, AdvanceKeepsPlace, PlaceIsKnown DEF TokenizerInv, Stay
  <2>2. "Word" \in TokenType /\ "DotSymbol" \in TokenType /\ token_string \in Seq(Char)
    BY DEF TokenType, TypeOK
  <2>3. CASE Len(token_string) < 2
    BY <1>1, <1>3, <2>1, <2>2, <2>3, EmitKeepsInv DEF EmitDot, ScannerIsLocated
  <2>4. CASE ~(Len(token_string) < 2)
    <3>1. /\ text \in Seq(Char) /\ From + 1 \in 1..Len(text) /\ pos \in From + 1..Len(text)
          /\ token_string = SubSeq(text, From + 1, pos)
      BY <1>1, <2>4, GatheredFacts, TextFacts DEF TokenizerInv, TypeOK
    <3>2. text[From + 1] = "."
      BY <1>1 DEF TokenizerInv, StringIsGathered, At
    <3>3. token_string = <<".">> \o Tail(token_string)
      BY <3>1, <3>2, SubSeqRecursiveFirst, HeadTailOfSubSeq
    <3> QED
      BY <1>1, <1>3, <2>1, <2>2, <2>4, <3>3, EmitKeepsInv DEF EmitDot, ScannerIsLocated
  <2> QED
    BY <2>3, <2>4
<1> QED
  BY <1>2, <1>3 DEF DotSymbol

\* The inductive invariant holds: the scanner knows its place, the gathered
\* characters stand in the text, and so do the tokens.
THEOREM TokenizerInvariance == Spec => []TokenizerInv
<1>1. Init => TokenizerInv
  <2> SUFFICES ASSUME Init PROVE TokenizerInv
    OBVIOUS
  <2>1. ScannerIsLocated
    BY FirstPlace DEF Init, ScannerIsLocated
  <2>2. StringIsGathered
    BY DEF Init, StringIsGathered, Gathering
  <2>3. TokensAreTrue
    BY DEF Init, TokensAreTrue
  <2> QED
    BY <2>1, <2>2, <2>3 DEF TokenizerInv
<1>2. TypeOK /\ TypeOK' /\ TokenizerInv /\ [Next]_vars => TokenizerInv'
  <2> SUFFICES ASSUME TypeOK, TypeOK', TokenizerInv, [Next]_vars PROVE TokenizerInv'
    OBVIOUS
  <2>1. CASE Next
    BY <2>1, StartKeepsInv, CommentKeepsInv, NameKeepsInv, StringKeepsInv,
       WordKeepsInv, DotKeepsInv DEF Next, Scan
  <2>2. CASE UNCHANGED vars
    BY <2>2 DEF vars, input, noted, TokenizerInv, ScannerIsLocated, At,
       StringIsGathered, From, TokensAreTrue
  <2> QED
    BY <2>1, <2>2
<1> QED
  BY <1>1, <1>2, TokenizerTypes, PTL DEF Spec

\* Every location the tokenizer gives is true, whatever the text: the token
\* stands there, and its line and column are those of its first character.
THEOREM TokenLocations == Spec => []LocationsAreTrue
<1>1. TokenizerInv => LocationsAreTrue
  BY DEF TokenizerInv, TokensAreTrue, TrueToken, Located, Lines, ColumnIs,
     LocationsAreTrue, LocationsHoldTheText, LinesAgree, LineAt, IsColumnAt, Read
<1> QED
  BY <1>1, TokenizerInvariance, PTL

(***************************************************************************)
(* What becomes of the text: the inductive invariant, beside TokenizerInv. *)
(***************************************************************************)
\* c stands behind position i of s; three times.
Stands(s, i, c) == i < Len(s) /\ s[i + 1] = c
Thrice(s, i, c) == Stands(s, i, c) /\ Stands(s, i + 1, c) /\ Stands(s, i + 2, c)

\* A string that begins behind position b was opened by three quotes; position
\* j closes a string; no position before e does.
IsTriple(s, b) == b > 2 /\ Thrice(s, b - 3, s[b])
Shuts(s, b, j) ==
    IF IsTriple(s, b) THEN Thrice(s, j, s[b]) /\ ~Stands(s, j + 3, s[b])
                      ELSE Stands(s, j, s[b])
Unshut(s, b, e) == \A j \in b..e-1 : ~Shuts(s, b, j)

\* What StringsEndAtTheirDelimiter says of one token.
ClosedString(s, streams, t) ==
    t.type = "String" =>
        /\ s[t.start - RefStart] \in Quote
        /\ Unshut(s, t.start - RefStart, t.end - RefStart)
        /\ \/ Shuts(s, t.start - RefStart, t.end - RefStart)
           \/ streams /\ t.end - RefStart = Len(s)

\* Where a token may begin, two equal quotes that were just read are not
\* followed by a third: it would have been read with them.
NoQuoteIsLeft ==
    mode = "start" /\ pos >= 2 /\ text[pos] \in Quote /\ text[pos - 1] = text[pos] =>
        ~Stands(text, pos, text[pos])

\* A string that is being gathered is open: nothing has closed it, and what
\* opened it is its mode.
StringIsOpen ==
    mode \in {"string", "triple"} =>
        /\ From >= 1 /\ text[From] = delim
        /\ mode = "triple" <=> IsTriple(text, From)
        /\ Unshut(text, From, pos)
        /\ mode = "string" => ~(Stands(text, From, delim) /\ Stands(text, From + 1, delim))

StringsAreClosed == \A i \in 1..Len(tokens) : ClosedString(text, streaming, tokens[i])

StringInv == NoQuoteIsLeft /\ StringIsOpen /\ StringsAreClosed

-----------------------------------------------------------------------------
(***************************************************************************)
(* What each kind of step does to the invariant of the strings.            *)
(***************************************************************************)
\* No quote stands on both sides of the scanner.
Quiet == text[pos] \in Quote => \A c \in Quote : ~Stands(text, pos, c)

\* Behind a character that is no quote, and before one, the scanner is quiet.
LEMMA QuietPlace ==
    ASSUME TypeOK, UNCHANGED input,
           \/ More /\ Next1 \notin Quote /\ (Advance(1) \/ pos' = pos)
           \/ Exhausted /\ pos' = pos
    PROVE  Quiet'
<1>1. text' = text /\ pos \in Nat /\ Len(text) \in Nat
  BY TextFacts DEF input
<1>2. CASE More /\ Next1 \notin Quote /\ Advance(1)
  <2>1. text[pos'] \notin Quote
    BY <1>2 DEF Advance, Next1
  <2> QED
    BY <1>1, <2>1 DEF Quiet
<1>3. CASE More /\ Next1 \notin Quote /\ pos' = pos
  BY <1>1, <1>3 DEF Quiet, Stands, Next1
<1>4. CASE Exhausted /\ pos' = pos
  BY <1>1, <1>4 DEF Quiet, Stands, Exhausted
<1> QED
  BY <1>2, <1>3, <1>4

\* A step that returns nothing, and neither opens a string nor goes on with one.
LEMMA OtherKeepsStrings ==
    ASSUME UNCHANGED input, StringInv, UNCHANGED tokens,
           mode' \notin {"string", "triple"}, mode' = "start" => Quiet'
    PROVE  StringInv'
<1>1. NoQuoteIsLeft'
  BY DEF NoQuoteIsLeft, Quiet
<1>2. StringIsOpen'
  BY DEF StringIsOpen
<1>3. StringsAreClosed'
  BY DEF StringInv, StringsAreClosed, input
<1> QED
  BY <1>1, <1>2, <1>3 DEF StringInv

\* A returned token: a closed string, or another one.
LEMMA ReturnKeepsStrings ==
    ASSUME TypeOK, UNCHANGED input, StringInv, NoQuoteIsLeft',
           NEW type, NEW string, NEW s, Returns(type, string, s),
           ClosedString(text, streaming, Token(type, string, s))
    PROVE  StringInv'
<1> DEFINE t == Token(type, string, s)
<1>1. /\ tokens' = Append(tokens, t) /\ tokens \in Seq(TokenRecord)
      /\ text' = text /\ streaming' = streaming
  BY DEF Returns, TypeOK, TokenRecord, input
<1>2. mode' \notin {"string", "triple"}
  BY DEF Returns
<1>3. ClosedString(text, streaming, t)
  OBVIOUS
<1> HIDE DEF t
<1>4. \A i \in 1..Len(tokens') : tokens'[i] = t \/ (i \in 1..Len(tokens) /\ tokens'[i] = tokens[i])
  BY <1>1
<1>5. StringsAreClosed'
  BY <1>1, <1>3, <1>4 DEF StringInv, StringsAreClosed
<1> QED
  BY <1>2, <1>5 DEF StringInv, StringIsOpen

\* Every token but a string.
LEMMA TokenKeepsStrings ==
    ASSUME TypeOK, UNCHANGED input, StringInv, mode' = "start" => Quiet',
           NEW type, type # "String", NEW string, NEW s, Returns(type, string, s)
    PROVE  StringInv'
<1>1. NoQuoteIsLeft'
  BY DEF NoQuoteIsLeft, Quiet
<1>2. ClosedString(text, streaming, Token(type, string, s))
  BY DEF ClosedString, Token
<1> QED
  BY <1>1, <1>2, ReturnKeepsStrings

\* Between tokens.
LEMMA StartKeepsStrings ==
    ASSUME TypeOK, UNCHANGED input, StringInv, Start
    PROVE  StringInv'
<1>1. CASE ReturnEos
  BY <1>1, TokenKeepsStrings DEF ReturnEos, Emit, Returns
<1> SUFFICES ASSUME More, ~ReturnEos
             PROVE  StringInv'
  BY <1>1 DEF Start
<1>2. CASE SkipBlank
  <2>1. Next1 \notin Quote
    BY <1>2 DEF SkipBlank, Blank, Quote, Newline
  <2>2. Quiet'
    BY <1>2, <2>1, QuietPlace DEF SkipBlank
  <2> QED
    BY <1>2, <2>2, OtherKeepsStrings DEF SkipBlank, Goto
<1>3. CASE OpenComment \/ OpenModule \/ OpenDefinition \/ OpenMemo
  BY <1>3, OtherKeepsStrings DEF OpenComment, OpenModule, OpenDefinition, OpenMemo, Open, Goto
<1>4. CASE OpenString
  <2> DEFINE c == Next1
  <2>1. /\ text' = text /\ streaming' = streaming /\ tokens' = tokens /\ delim' = c
        /\ pos \in Nat /\ Len(text) \in Nat /\ RefStart \in Nat /\ c \in Quote
        /\ mode = "start" /\ pos < Len(text) /\ text[pos + 1] = c
    BY <1>4, TextFacts, RefAssumption DEF OpenString, Open, Goto, input, Start, More, Next1
  <2>2. IsTripleQuote(pos, c) <=> Stands(text, pos + 1, c) /\ Stands(text, pos + 2, c)
    BY <2>1 DEF IsTripleQuote, At, Stands
  <2>3. StringsAreClosed' /\ mode' # "start"
    BY <1>4, <2>1 DEF StringInv, StringsAreClosed, OpenString, Open, Goto
  <2>4. CASE IsTripleQuote(pos, c)
    <3>1. pos' = pos + 3 /\ mode' = "triple" /\ From' = pos + 3
      BY <1>4, <2>1, <2>4 DEF OpenString, Open, Advance, Goto, NoteThere, From
    <3>2. text[pos + 3] = c /\ IsTriple(text, pos + 3)
      <4>1. Stands(text, pos, c) /\ Stands(text, pos + 1, c) /\ Stands(text, pos + 2, c)
        BY <2>1, <2>2, <2>4 DEF Stands
      <4>2. text[pos + 3] = c /\ (pos + 3) - 3 = pos /\ pos + 3 > 2
        BY <2>1, <4>1 DEF Stands
      <4> QED
        BY <4>1, <4>2 DEF IsTriple, Thrice
    <3>3. Unshut(text, pos + 3, pos + 3)
      BY <2>1 DEF Unshut
    <3> QED
      BY <2>1, <2>3, <3>1, <3>2, <3>3 DEF StringInv, NoQuoteIsLeft, StringIsOpen
  <2>5. CASE ~IsTripleQuote(pos, c)
    <3>1. pos' = pos + 1 /\ mode' = "string" /\ From' = pos + 1
      BY <1>4, <2>1, <2>5 DEF OpenString, Open, Advance, Goto, NoteThere, From
    <3>2. ~(Stands(text, pos + 1, c) /\ Stands(text, (pos + 1) + 1, c))
      BY <2>1, <2>2, <2>5
    <3>3. ~IsTriple(text, pos + 1)
      <4> SUFFICES ASSUME pos + 1 > 2, Thrice(text, (pos + 1) - 3, c)
                   PROVE  FALSE
        BY <2>1 DEF IsTriple
      <4>1. text[pos] = c /\ text[pos - 1] = c /\ pos >= 2
        BY <2>1 DEF Thrice, Stands
      <4>2. Stands(text, pos, text[pos])
        BY <2>1, <4>1 DEF Stands
      <4> QED
        BY <2>1, <4>1, <4>2 DEF StringInv, NoQuoteIsLeft
    <3>4. Unshut(text, pos + 1, pos + 1)
      BY <2>1 DEF Unshut
    <3> QED
      BY <2>1, <2>3, <3>1, <3>2, <3>3, <3>4 DEF StringInv, NoQuoteIsLeft, StringIsOpen
  <2> QED
    BY <2>4, <2>5
<1>5. CASE Single
  <2>1. Next1 \notin Quote /\ SingleToken[Next1] # "String"
    BY <1>5 DEF Single, SingleToken, Bracket, Quote
  <2>2. Quiet'
    BY <1>5, <2>1, QuietPlace DEF Single
  <2> QED
    BY <1>5, <2>1, <2>2, TokenKeepsStrings DEF Single
<1>6. CASE OpenWord
  BY <1>6, OtherKeepsStrings DEF OpenWord, Goto
<1> QED
  BY <1>2, <1>3, <1>4, <1>5, <1>6 DEF Start

\* A string with either kind of delimiter.
LEMMA StringKeepsStrings ==
    ASSUME TypeOK, UNCHANGED input, TokenizerInv, StringInv, String \/ TripleString
    PROVE  StringInv'
<1>1. /\ mode \in {"string", "triple"} /\ mode \in Gathering
      /\ text' = text /\ streaming' = streaming
  BY DEF String, TripleString, Gathering, input
<1>2. /\ From \in 0..pos /\ From >= 1 /\ token_start_pos = From + RefStart /\ RefStart \in Nat
      /\ Len(token_string) = pos - From /\ pos \in 0..Len(text) /\ Len(text) \in Nat
  BY <1>1, GatheredFacts, TextFacts, RefAssumption DEF TokenizerInv, TypeOK, StringInv, StringIsOpen
<1>3. /\ text[From] = delim /\ delim \in Quote /\ (mode = "triple" <=> IsTriple(text, From))
      /\ Unshut(text, From, pos)
      /\ mode = "string" => ~(Stands(text, From, delim) /\ Stands(text, From + 1, delim))
  BY <1>1 DEF StringInv, StringIsOpen, TypeOK
<1>4. mode = "triple" /\ More => (Closes <=> Shuts(text, From, pos))
  BY <1>1, <1>2, <1>3 DEF Closes, Shuts, Thrice, Stands, IsTripleQuote, At, More, Next1
<1>5. mode = "string" /\ More => (Next1 = delim <=> Shuts(text, From, pos))
  BY <1>1, <1>2, <1>3 DEF Shuts, Stands, More, Next1
<1>6. CASE More /\ Gather(mode) /\ ~Shuts(text, From, pos)
  <2>1. /\ pos' = pos + 1 /\ From' = From /\ mode' = mode /\ tokens' = tokens /\ delim' = delim
    BY <1>6 DEF Gather, Advance, Push, Goto, noted, From
  <2>2. Unshut(text, From, pos + 1)
    <3>1. \A j \in From..(pos + 1) - 1 : j = pos \/ j \in From..pos - 1
      BY <1>2
    <3> QED
      BY <1>3, <1>6, <3>1 DEF Unshut
  <2>3. NoQuoteIsLeft' /\ StringsAreClosed'
    BY <1>1, <2>1 DEF StringInv, StringsAreClosed, NoQuoteIsLeft
  <2>4. StringIsOpen'
    BY <1>1, <1>2, <1>3, <2>1, <2>2 DEF StringIsOpen
  <2> QED
    BY <2>3, <2>4 DEF StringInv
<1>7. CASE Fails("UnterminatedString")
  BY <1>7, OtherKeepsStrings DEF Fails
<1>8. CASE /\ Emit("String") /\ NoQuoteIsLeft'
           /\ Shuts(text, From, pos) \/ (streaming /\ pos = Len(text))
  <2> DEFINE t == Token("String", token_string, token_string)
  <2>1. /\ t.type = "String" /\ t.start = token_start_pos
        /\ t.end = token_start_pos + Len(token_string)
    BY <1>8 DEF Emit, Token, noted
  <2>2. t.start - RefStart = From /\ t.end - RefStart = pos
    BY <1>2, <2>1
  <2> HIDE DEF t
  <2>3. ClosedString(text, streaming, t)
    BY <1>3, <1>8, <2>2 DEF ClosedString
  <2>4. ClosedString(text, streaming, Token("String", token_string, token_string))
    BY <2>3 DEF t
  <2> QED
    BY <1>8, <2>4, ReturnKeepsStrings DEF Emit
<1>9. CASE Unterminated
  <2>1. pos' = pos /\ pos = Len(text)
    BY <1>9 DEF Unterminated, Stay, Exhausted
  <2>2. NoQuoteIsLeft'
    BY <1>1, <1>2, <2>1 DEF NoQuoteIsLeft, Stands
  <2> QED
    BY <1>7, <1>8, <1>9, <2>1, <2>2 DEF Unterminated
<1>10. CASE mode = "string" /\ More /\ Next1 = delim /\ EndWith(1, "String")
  <2>1. pos' = pos + 1 /\ Emit("String") /\ Stands(text, pos, delim) /\ text[pos + 1] = delim
    BY <1>2, <1>10 DEF EndWith, Advance, Stands, More, Next1
  <2>2. NoQuoteIsLeft'
    <3> SUFFICES ASSUME pos + 1 >= 2, text[(pos + 1) - 1] = delim, Stands(text, pos + 1, delim)
                 PROVE  FALSE
      BY <1>1, <2>1 DEF NoQuoteIsLeft
    <3>1. CASE pos = From
      BY <1>3, <1>10, <2>1, <3>1
    <3>2. CASE pos # From
      <4>1. pos - 1 \in From..pos - 1 /\ (pos - 1) + 1 = pos /\ pos - 1 < Len(text)
        BY <1>2, <3>2
      <4>2. text[pos] = delim
        BY <1>2
      <4>3. Shuts(text, From, pos - 1)
        BY <1>3, <1>10, <4>1, <4>2 DEF Shuts, Stands
      <4> QED
        BY <1>3, <4>1, <4>3 DEF Unshut
    <3> QED
      BY <3>1, <3>2
  <2> QED
    BY <1>5, <1>8, <1>10, <2>1, <2>2
<1>11. CASE mode = "triple" /\ More /\ Closes /\ EndWith(3, "String")
  <2>1. pos' = pos + 3 /\ Emit("String") /\ ~Stands(text, pos + 3, delim) /\ text[pos + 3] = delim
    <3>1. text[(pos + 2) + 1] = delim /\ (pos + 2) + 1 = pos + 3
      BY <1>2, <1>11 DEF Closes, IsTripleQuote, At
    <3> QED
      BY <1>11, <3>1 DEF EndWith, Advance, Closes, At, Stands
  <2>2. NoQuoteIsLeft'
    BY <1>1, <2>1 DEF NoQuoteIsLeft
  <2> QED
    BY <1>4, <1>8, <1>11, <2>1, <2>2
<1> QED
  BY <1>4, <1>5, <1>6, <1>9, <1>10, <1>11 DEF String, TripleString

\* What is neither between tokens nor in a string.
LEMMA WordKeepsStrings ==
    ASSUME TypeOK, UNCHANGED input, StringInv,
           Comment \/ BeforeName \/ Name \/ Module \/ Word \/ Zone \/ DotSymbol
    PROVE  StringInv'
<1>1. ASSUME NEW m, Gather(m), m \notin {"string", "triple", "start"}
      PROVE  StringInv'
  BY <1>1, OtherKeepsStrings DEF Gather, Goto
<1>2. ASSUME NEW type, type # "String", NEW string, NEW s, Returns(type, string, s),
             \/ More /\ Next1 \notin Quote /\ (Advance(1) \/ pos' = pos)
             \/ Exhausted /\ pos' = pos
      PROVE  StringInv'
  <2>1. Quiet'
    BY <1>2, QuietPlace
  <2> QED
    BY <1>2, <2>1, TokenKeepsStrings
<1>3. ASSUME NEW type, type # "String",
             \/ More /\ Next1 \in Blank \cup WordEnd /\ (EndWith(1, type) \/ EndBefore(type))
             \/ EndOfText(type)
      PROVE  StringInv'
  <2>1. \/ More /\ Next1 \notin Quote /\ (Advance(1) \/ pos' = pos)
        \/ Exhausted /\ pos' = pos
    BY <1>3 DEF EndWith, EndBefore, EndOfText, Stay, Blank, Newline, WordEnd, Bracket, Quote
  <2>2. Returns(type, token_string, token_string)
    BY <1>3 DEF EndWith, EndBefore, EndOfText, Emit
  <2> QED
    BY <1>2, <1>3, <2>1, <2>2
<1>4. ASSUME NEW e, Fails(e) PROVE StringInv'
  BY <1>4, OtherKeepsStrings DEF Fails
<1>5. CASE Comment
  <2>1. CASE More /\ EndComment
    <3>1. Next1 \notin Quote /\ pos' = pos
      BY <2>1 DEF EndComment, Newline, Quote
    <3> QED
      BY <1>2, <2>1, <3>1 DEF EndComment
  <2> QED
    BY <1>1, <1>3, <1>5, <2>1 DEF Comment
<1>6. CASE BeforeName
  BY <1>4, <1>6, OtherKeepsStrings DEF BeforeName, Goto
<1>7. CASE Name
  BY <1>1, <1>3, <1>4, <1>7 DEF Name
<1>8. CASE Module \/ Word \/ Zone
  <2>1. "}" \in Blank \cup WordEnd
    BY DEF WordEnd, Bracket
  <2> QED
    BY <1>1, <1>3, <1>8, <2>1 DEF Module, Word, Zone
<1>9. CASE DotSymbol
  <2>1. CASE More /\ Gather("dot")
    BY <1>1, <2>1
  <2>2. CASE /\ EmitDot
             /\ \/ More /\ Next1 \in Blank \cup WordEnd /\ (Advance(1) \/ Stay)
                \/ Exhausted /\ Stay
    <3>1. \/ More /\ Next1 \notin Quote /\ (Advance(1) \/ pos' = pos)
          \/ Exhausted /\ pos' = pos
      BY <2>2 DEF Stay, Blank, Newline, WordEnd, Bracket, Quote
    <3> QED
      BY <1>2, <2>2, <3>1 DEF EmitDot
  <2> QED
    BY <1>9, <2>1, <2>2 DEF DotSymbol
<1> QED
  BY <1>5, <1>6, <1>7, <1>8, <1>9

\* What the invariant says of a token is what the property says of it.
LEMMA ClosedStringsEnd ==
    ASSUME TypeOK, TokensAreTrue, StringsAreClosed
    PROVE  StringsEndAtTheirDelimiter
<1> SUFFICES ASSUME NEW i \in Read, tokens[i].type = "String"
             PROVE  LET s     == tokens[i].start - RefStart
                        e     == tokens[i].end - RefStart
                        c     == text[s]
                        Three(j) == \A k \in 0..2 : At(j + k, c)
                        n     == IF s > 2 /\ Three(s - 3) THEN 3 ELSE 1
                        ClosesAt(j) == IF n = 1 THEN At(j, c) ELSE Three(j) /\ ~At(j + 3, c)
                    IN  /\ c \in Quote
                        /\ \A j \in s..e-1 : ~ClosesAt(j)
                        /\ ClosesAt(e) \/ (streaming /\ e = Len(text))
  BY DEF StringsEndAtTheirDelimiter
<1> DEFINE s == tokens[i].start - RefStart
           e == tokens[i].end - RefStart
           c == text[s]
           Three(j) == \A k \in 0..2 : At(j + k, c)
           n == IF s > 2 /\ Three(s - 3) THEN 3 ELSE 1
           ClosesAt(j) == IF n = 1 THEN At(j, c) ELSE Three(j) /\ ~At(j + 3, c)
<1>1. s \in Int /\ e \in Int /\ i \in 1..Len(tokens)
  <2>1. tokens \in Seq(TokenRecord) /\ i \in 1..Len(tokens)
    BY DEF TypeOK, TokenRecord, Read
  <2>2. tokens[i] \in TokenRecord
    BY <2>1
  <2>3. tokens[i].start \in Nat /\ tokens[i].end \in Nat
    BY <2>2 DEF TokenRecord
  <2> QED
    BY <2>1, <2>3, RefAssumption
<1>2. c \in Quote /\ Unshut(text, s, e) /\ (Shuts(text, s, e) \/ (streaming /\ e = Len(text)))
  BY <1>1 DEF StringsAreClosed, ClosedString
<1>3. \A j \in Int : Three(j) <=> Thrice(text, j, c)
  <2> TAKE j \in Int
  <2>1. j + 0 = j /\ 0..2 = {0, 1, 2}
    OBVIOUS
  <2> QED
    BY <2>1 DEF Thrice, Stands, At
<1>4. n = 3 <=> IsTriple(text, s)
  BY <1>1, <1>3 DEF IsTriple
<1>5. \A j \in Int : ClosesAt(j) <=> Shuts(text, s, j)
  BY <1>3, <1>4 DEF Shuts, Stands, At
<1>6. \A j \in s..e-1 : ~ClosesAt(j)
  <2>1. \A j \in s..e-1 : j \in Int
    BY <1>1
  <2> QED
    BY <1>2, <1>5, <2>1 DEF Unshut
<1>7. ClosesAt(e) \/ (streaming /\ e = Len(text))
  BY <1>1, <1>2, <1>5
<1> QED
  BY <1>2, <1>6, <1>7

\* A string ends at the first place that closes it, whatever the text: one
\* quote like the one that opened it, or the last three of the first run of
\* three or more; and no quote that belongs to one string opens another.
THEOREM StringsEnd == Spec => []StringsEndAtTheirDelimiter
<1>1. Init => StringInv
  BY DEF Init, StringInv, NoQuoteIsLeft, StringIsOpen, StringsAreClosed
<1>2. TypeOK /\ TokenizerInv /\ StringInv /\ [Next]_vars => StringInv'
  <2> SUFFICES ASSUME TypeOK, TokenizerInv, StringInv, [Next]_vars PROVE StringInv'
    OBVIOUS
  <2>1. CASE Next
    BY <2>1, StartKeepsStrings, StringKeepsStrings, WordKeepsStrings DEF Next, Scan
  <2>2. CASE UNCHANGED vars
    BY <2>2 DEF vars, input, noted, StringInv, NoQuoteIsLeft, StringIsOpen, From, StringsAreClosed
  <2> QED
    BY <2>1, <2>2
<1>3. TypeOK /\ TokenizerInv /\ StringInv => StringsEndAtTheirDelimiter
  BY ClosedStringsEnd DEF TokenizerInv, StringInv
<1> QED
  BY <1>1, <1>2, <1>3, TokenizerTypes, TokenizerInvariance, PTL DEF Spec

-----------------------------------------------------------------------------
(***************************************************************************)
(* Nothing is lost: the inductive invariant.                               *)
(***************************************************************************)
\* The token that is being gathered, and where the last one ended.
TypeOf(m) ==
    CASE m = "comment" -> "Comment" [] m = "module" -> "StartModule"
      [] m \in {"start_def", "def_name"} -> "StartDef"
      [] m \in {"start_memo", "memo_name"} -> "StartMemo"
      [] m \in {"string", "triple"} -> "String"
      [] OTHER -> "Word"
LastEnd == IF tokens = <<>> THEN 0 ELSE tokens[Len(tokens)].end - RefStart

\* The newline that ended a comment is in its text and is read again.
OnNewline ==
    /\ mode = "start" /\ Stands(text, pos, Newline) /\ LastEnd = pos + 1
    /\ Closing(Len(tokens)) = {<<>>}

\* From the last token to the token that is being gathered, or to the scanner,
\* nothing is lost.
NothingIsLeft ==
    CASE mode = "start" ->
            OnNewline \/ Between(text, LastEnd, pos, Closing(Len(tokens)), {<<>>})
      [] mode \in {"start_def", "start_memo"} ->
            Between(text, LastEnd, pos, Closing(Len(tokens)), Fences(TypeOf(mode)))
      [] mode \in Gathering ->
            Between(text, LastEnd, From, Closing(Len(tokens)), Fences(TypeOf(mode)))
      [] OTHER -> TRUE

TextInv == NothingIsLeft /\ NothingIsLost

-----------------------------------------------------------------------------
(***************************************************************************)
(* Stretches of the text.                                                  *)
(***************************************************************************)
\* Marks are sequences of characters.
LEMMA MarksAreSequences ==
    /\ \A type : \A o \in Fences(type) : Len(o) \in Nat
    /\ \A i : \A c \in Closing(i) : Len(c) \in Nat
    /\ Len(<<>>) = 0
<1>1. /\ Len(<<>>) = 0 /\ Len(<<"#">>) = 1 /\ Len(<<"{">>) = 1 /\ Len(<<":">>) = 1
      /\ Len(<<"@", ":">>) = 2
      /\ \A c : Len(<<c>>) = 1 /\ Len(<<c, c, c>>) = 3
  OBVIOUS
<1>2. ASSUME NEW type, NEW o \in Fences(type)
      PROVE  Len(o) \in Nat
  <2>1. \/ o = <<>> \/ o = <<"#">> \/ o = <<"{">> \/ o = <<":">> \/ o = <<"@", ":">>
        \/ \E c \in Quote : o = <<c>> \/ o = <<c, c, c>>
    <3>1. CASE type = "String"
      BY <1>2, <3>1 DEF Fences
    <3>2. CASE type # "String"
      <4>1. Fences(type) \in {{<<"#">>}, {<<"{">>}, {<<":">>}, {<<"@", ":">>}, {<<>>}}
        BY <3>2 DEF Fences
      <4> QED
        BY <1>2, <4>1
    <3> QED
      BY <3>1, <3>2
  <2>2. CASE \E c \in Quote : o = <<c>> \/ o = <<c, c, c>>
    <3>1. PICK c \in Quote : o = <<c>> \/ o = <<c, c, c>>
      BY <2>2
    <3>2. CASE o = <<c>>
      BY <3>2
    <3>3. CASE o = <<c, c, c>>
      BY <3>3
    <3> QED
      BY <3>1, <3>2, <3>3
  <2>3. CASE o = <<>> \/ o = <<"#">> \/ o = <<"{">> \/ o = <<":">> \/ o = <<"@", ":">>
    <3>1. /\ Len(<<>>) \in Nat /\ Len(<<"#">>) \in Nat /\ Len(<<"{">>) \in Nat
          /\ Len(<<":">>) \in Nat /\ Len(<<"@", ":">>) \in Nat
      BY <1>1
    <3> QED
      BY <2>3, <3>1, Zenon
  <2> QED
    BY <2>1, <2>2, <2>3
<1>3. \A i : \A c \in Closing(i) : Len(c) \in Nat
  BY <1>1, <1>2 DEF Closing
<1> QED
  BY <1>1, <1>2, <1>3

\* A stretch grows over a blank.
LEMMA BlankFollows ==
    ASSUME NEW s, NEW f \in Int, NEW p \in Nat, NEW C, NEW O,
           \A c \in C : Len(c) \in Nat, \A o \in O : Len(o) \in Nat,
           Between(s, f, p, C, O), s[p + 1] \in Blank
    PROVE  Between(s, f, p + 1, C, O)
<1>1. PICK c \in C, o \in O : \E a \in f + Len(c)..p - Len(o) :
          /\ Spells(s, f, c) /\ OnlyBlanks(s, f + Len(c), a)
          /\ Spells(s, a, o) /\ OnlyBlanks(s, a + Len(o), p)
  BY DEF Between
<1>2. PICK a \in f + Len(c)..p - Len(o) :
          /\ Spells(s, f, c) /\ OnlyBlanks(s, f + Len(c), a)
          /\ Spells(s, a, o) /\ OnlyBlanks(s, a + Len(o), p)
  BY <1>1
<1>3. Len(c) \in Nat /\ Len(o) \in Nat
  OBVIOUS
<1>4. a \in f + Len(c)..(p + 1) - Len(o)
  BY <1>3
<1>5. OnlyBlanks(s, a + Len(o), p + 1)
  BY <1>2, <1>3 DEF OnlyBlanks
<1> QED
  BY <1>2, <1>4, <1>5 DEF Between

\* Marks open a token behind a stretch that has none.
LEMMA MarksFollow ==
    ASSUME NEW s, NEW f \in Int, NEW p \in Nat, NEW C, NEW O,
           \A c \in C : Len(c) \in Nat, NEW o \in O, Len(o) \in Nat,
           Between(s, f, p, C, {<<>>}), Spells(s, p, o)
    PROVE  Between(s, f, p + Len(o), C, O)
<1>1. PICK c \in C : \E a \in f + Len(c)..p - Len(<<>>) :
          /\ Spells(s, f, c) /\ OnlyBlanks(s, f + Len(c), a)
          /\ OnlyBlanks(s, a + Len(<<>>), p)
  BY DEF Between
<1>2. PICK a \in f + Len(c)..p - Len(<<>>) :
          /\ Spells(s, f, c) /\ OnlyBlanks(s, f + Len(c), a)
          /\ OnlyBlanks(s, a + Len(<<>>), p)
  BY <1>1
<1>3. Len(c) \in Nat /\ Len(<<>>) = 0
  BY MarksAreSequences
<1>4. /\ a \in Int /\ f + Len(c) <= a /\ a <= p /\ a + Len(<<>>) = a
      /\ p \in f + Len(c)..(p + Len(o)) - Len(o)
  BY <1>3
<1>5. OnlyBlanks(s, f + Len(c), p)
  <2>1. OnlyBlanks(s, f + Len(c), a) /\ OnlyBlanks(s, a, p)
    BY <1>2, <1>4
  <2> QED
    BY <1>3, <1>4, <2>1 DEF OnlyBlanks
<1>6. OnlyBlanks(s, p + Len(o), p + Len(o))
  BY DEF OnlyBlanks
<1> QED
  BY <1>2, <1>4, <1>5, <1>6 DEF Between

\* A stretch begins with the marks that close a token and blanks behind them.
LEMMA StretchBegins ==
    ASSUME NEW s, Len(s) \in Nat, NEW f \in Int, NEW p \in 0..Len(s), NEW C, NEW c \in C,
           Len(c) \in Nat, Spells(s, f, c), f + Len(c) <= p, OnlyBlanks(s, f + Len(c), p)
    PROVE  Between(s, f, p, C, {<<>>})
<1>1. Len(<<>>) = 0
  BY MarksAreSequences
<1>2. p \in f + Len(c)..p - Len(<<>>)
  BY <1>1
<1>3. Spells(s, p, <<>>) /\ OnlyBlanks(s, p + Len(<<>>), p)
  BY <1>1 DEF Spells, OnlyBlanks
<1> QED
  BY <1>2, <1>3 DEF Between

\* A mark of one character.
LEMMA OneMark ==
    ASSUME NEW s, NEW p \in Nat, Len(s) \in Nat, p < Len(s)
    PROVE  Len(<<s[p + 1]>>) = 1 /\ Spells(s, p, <<s[p + 1]>>)
BY DEF Spells

-----------------------------------------------------------------------------
(***************************************************************************)
(* What each kind of step does to the invariant of the text.               *)
(***************************************************************************)
\* The end of the last token is a position.
LEMMA LastEndIsPlace ==
    ASSUME TypeOK
    PROVE  LastEnd \in Int
<1>1. tokens \in Seq(TokenRecord)
  BY DEF TypeOK, TokenRecord
<1>2. CASE tokens # <<>>
  <2>1. Len(tokens) \in 1..Len(tokens)
    BY <1>1, <1>2
  <2>2. tokens[Len(tokens)] \in TokenRecord
    BY <1>1, <2>1
  <2>3. tokens[Len(tokens)].end \in Nat
    BY <2>2 DEF TokenRecord
  <2> QED
    BY <1>2, <2>3, RefAssumption DEF LastEnd
<1> QED
  BY <1>2 DEF LastEnd

\* The tokens that are there stay as they are.
LEMMA SameTokens ==
    ASSUME UNCHANGED input, UNCHANGED tokens, NothingIsLost
    PROVE  /\ NothingIsLost' /\ LastEnd' = LastEnd
           /\ Closing(Len(tokens))' = Closing(Len(tokens))
<1>1. text' = text /\ tokens' = tokens
  BY DEF input
<1>2. \A i : Closing(i)' = Closing(i)
  BY <1>1 DEF Closing
<1>3. NothingIsLost'
  BY <1>1, <1>2 DEF NothingIsLost
<1>4. Closing(Len(tokens))' = Closing(Len(tokens))
  BY <1>1 DEF Closing
<1> QED
  BY <1>1, <1>3, <1>4 DEF LastEnd

\* A step that returns nothing: what is left is what must be looked at.
LEMMA GoesOnWithText ==
    ASSUME UNCHANGED input, UNCHANGED tokens, TextInv, NothingIsLeft'
    PROVE  TextInv'
BY SameTokens DEF TextInv

\* A character becomes part of the token.
LEMMA GatherKeepsText ==
    ASSUME UNCHANGED input, TextInv, mode \in Gathering, NEW m \in Gathering,
           Gather(m), TypeOf(m) = TypeOf(mode)
    PROVE  TextInv'
<1>1. /\ text' = text /\ tokens' = tokens /\ mode' = m /\ From' = From
  BY DEF Gather, Push, Goto, input, noted, From
<1>2. LastEnd' = LastEnd /\ Closing(Len(tokens))' = Closing(Len(tokens))
  BY <1>1, SameTokens DEF TextInv
<1>3. Between(text, LastEnd, From, Closing(Len(tokens)), Fences(TypeOf(mode)))
  BY DEF TextInv, NothingIsLeft, Gathering
<1>4. NothingIsLeft'
  <2>1. Between(text, LastEnd, From, Closing(Len(tokens)), Fences(TypeOf(mode)))'
    BY <1>1, <1>2, <1>3
  <2> QED
    BY <1>1, <2>1 DEF NothingIsLeft, Gathering
<1> QED
  BY <1>1, <1>4, GoesOnWithText

\* An error.
LEMMA FailKeepsText ==
    ASSUME UNCHANGED input, TextInv, NEW e, Fails(e)
    PROVE  TextInv'
<1>1. NothingIsLeft'
  BY DEF Fails, NothingIsLeft, Gathering
<1> QED
  BY <1>1, GoesOnWithText DEF Fails

\* A token is returned: the stretch before it is kept, and the next one begins
\* with the marks that close it.
LEMMA ReturnKeepsText ==
    ASSUME TypeOK, TypeOK', UNCHANGED input, TextInv,
           NEW type, NEW string, NEW s, Returns(type, string, s), Len(s) \in Nat,
           Between(text, LastEnd, IF type = "Eos" THEN Len(text) ELSE token_start_pos' - RefStart,
                   Closing(Len(tokens)), Fences(type)),
           NEW e \in Int, e = token_start_pos' + Len(s) - RefStart,
           NEW C, C = IF type = "String" /\ e < Len(text) THEN Fences("String") ELSE {<<>>},
           \/ type = "Eos"
           \/ Between(text, e, pos', C, {<<>>})
           \/ e = pos' + 1 /\ Stands(text, pos', Newline) /\ C = {<<>>}
    PROVE  TextInv'
<1> DEFINE t == Token(type, string, s)
<1> DEFINE n == Len(tokens)
<1>1. /\ tokens' = Append(tokens, t) /\ tokens \in Seq(TokenRecord) /\ text' = text
      /\ tokens' \in Seq(TokenRecord) /\ mode' = (IF type = "Eos" THEN "done" ELSE "start")
  BY DEF Returns, TypeOK, TokenRecord, input
<1>2. /\ t.type = type /\ t.start = token_start_pos' /\ t.end = token_start_pos' + Len(s)
      /\ token_start_pos' \in Nat /\ RefStart \in Nat /\ Len(text) \in Nat
  BY RefAssumption, TextFacts DEF Token, TypeOK
<1> HIDE DEF t
<1>3. /\ n \in Nat /\ Len(tokens') = n + 1 /\ tokens'[n + 1] = t /\ tokens' # <<>>
      /\ \A i \in 1..n : tokens'[i] = tokens[i]
  BY <1>1
<1>4. \A i \in 0..n : Closing(i)' = Closing(i)
  <2> TAKE i \in 0..n
  <2>1. CASE i = 0
    BY <2>1 DEF Closing
  <2>2. CASE i # 0
    <3>1. i \in 1..n /\ tokens'[i] = tokens[i]
      BY <1>3, <2>2
    <3> QED
      BY <1>1, <3>1 DEF Closing
  <2> QED
    BY <2>1, <2>2
<1>5. LastEnd' = e
  BY <1>2, <1>3 DEF LastEnd
<1>6. Closing(Len(tokens))' = C
  <2>1. t.end < RefStart + Len(text) <=> e < Len(text)
    BY <1>2
  <2>2. Len(tokens') > 0 /\ tokens'[Len(tokens')] = t
    BY <1>3
  <2> QED
    BY <1>1, <1>2, <2>1, <2>2 DEF Closing
<1>7. NothingIsLost'
  <2> SUFFICES ASSUME NEW i \in 1..Len(tokens')
               PROVE  Between(text,
                        IF i = 1 THEN 0 ELSE tokens'[i-1].end - RefStart,
                        IF tokens'[i].type = "Eos" THEN Len(text)
                                                   ELSE tokens'[i].start - RefStart,
                        Closing(i-1)', Fences(tokens'[i].type))
    BY <1>1 DEF NothingIsLost
  <2>1. CASE i \in 1..n
    <3>1. i - 1 \in 0..n /\ tokens'[i] = tokens[i] /\ (i # 1 => tokens'[i-1] = tokens[i-1])
      BY <1>3, <2>1
    <3>2. Closing(i-1)' = Closing(i-1)
      BY <1>4, <3>1
    <3> QED
      BY <2>1, <3>1, <3>2 DEF TextInv, NothingIsLost
  <2>2. CASE i = n + 1
    <3>1. i - 1 = n /\ n \in 0..n /\ tokens'[i] = t /\ (i # 1 => tokens'[i-1] = tokens[n])
      BY <1>3, <2>2
    <3>2. Closing(i-1)' = Closing(n)
      BY <1>4, <3>1
    <3>3. LastEnd = IF i = 1 THEN 0 ELSE tokens'[i-1].end - RefStart
      <4>1. CASE n = 0
        BY <1>1, <2>2, <4>1 DEF LastEnd
      <4>2. CASE n # 0
        <5>1. tokens # <<>> /\ i # 1
          BY <1>1, <2>2, <4>2
        <5> QED
          BY <3>1, <5>1 DEF LastEnd
      <4> QED
        BY <4>1, <4>2
    <3> QED
      BY <1>2, <3>1, <3>2, <3>3
  <2> QED
    BY <1>3, <2>1, <2>2
<1>8. NothingIsLeft'
  <2>1. CASE type = "Eos"
    BY <1>1, <2>1 DEF NothingIsLeft, Gathering
  <2>2. CASE type # "Eos"
    <3>1. mode' = "start"
      BY <1>1, <2>2
    <3>2. Between(text, LastEnd, pos, Closing(Len(tokens)), {<<>>})' \/ OnNewline'
      BY <1>1, <1>5, <1>6, <2>2, <3>1 DEF OnNewline
    <3> QED
      BY <3>1, <3>2 DEF NothingIsLeft, Gathering
  <2> QED
    BY <2>1, <2>2
<1> QED
  BY <1>7, <1>8 DEF TextInv

\* A token that was gathered is returned where the scanner stands, or with the
\* blank behind it; a string with the marks that close it.
LEMMA EmitKeepsText ==
    ASSUME TypeOK, TypeOK', UNCHANGED input, TokenizerInv, TextInv, mode \in Gathering,
           UNCHANGED noted, NEW type, type # "Eos", NEW string,
           Returns(type, string, token_string), Fences(type) = Fences(TypeOf(mode)),
           NEW c, Len(c) \in Nat, Spells(text, pos, c),
           c \in IF type = "String" /\ pos < Len(text) THEN Fences("String") ELSE {<<>>},
           \/ pos' = pos + Len(c)
           \/ pos' = pos + Len(c) + 1 /\ text[pos + Len(c) + 1] \in Blank
    PROVE  TextInv'
<1> DEFINE C == IF type = "String" /\ pos < Len(text) THEN Fences("String") ELSE {<<>>}
<1>1. /\ token_start_pos' - RefStart = From /\ Len(token_string) = pos - From
      /\ From \in 0..pos /\ pos \in Nat /\ Len(text) \in Nat
      /\ pos = token_start_pos' + Len(token_string) - RefStart /\ Len(token_string) \in Nat
  BY GatheredFacts, RefAssumption, TextFacts DEF TokenizerInv, TypeOK, noted, From
<1>2. Between(text, LastEnd, From, Closing(Len(tokens)), Fences(type))
  BY DEF TextInv, NothingIsLeft, Gathering
<1>3. pos' \in 0..Len(text)
  BY DEF TypeOK, input
<1>4. pos + Len(c) <= pos' /\ OnlyBlanks(text, pos + Len(c), pos')
  BY <1>1 DEF OnlyBlanks
<1>5. c \in C
  OBVIOUS
<1> HIDE DEF C
<1>6. Between(text, pos, pos', C, {<<>>})
  BY <1>1, <1>3, <1>4, <1>5, StretchBegins
<1>7. C = IF type = "String" /\ pos < Len(text) THEN Fences("String") ELSE {<<>>}
  BY DEF C
<1> QED
  BY <1>1, <1>2, <1>6, <1>7, ReturnKeepsText

\* Where the scanner may open a token, only the marks that close the last one
\* and blanks lie behind it.
LEMMA StretchIsOpen ==
    ASSUME TypeOK, TextInv, mode = "start", Exhausted \/ (More /\ Next1 # Newline)
    PROVE  Between(text, LastEnd, pos, Closing(Len(tokens)), {<<>>})
<1>1. ~OnNewline
  BY TextFacts DEF OnNewline, Stands, Exhausted, Next1
<1> QED
  BY <1>1 DEF TextInv, NothingIsLeft, Gathering

\* The marks of a token, or of a name that is looked for, are read.
LEMMA OpenKeepsText ==
    ASSUME TypeOK, UNCHANGED input, TextInv, mode = "start", More, Next1 # Newline,
           UNCHANGED tokens, mode' \in Gathering \cup {"start_def", "start_memo"},
           NEW o \in Fences(TypeOf(mode')), Spells(text, pos, o), pos' = pos + Len(o),
           mode' \in Gathering => From' = pos'
    PROVE  TextInv'
<1>1. /\ Len(o) \in Nat /\ \A c \in Closing(Len(tokens)) : Len(c) \in Nat
      /\ pos \in Nat /\ LastEnd \in Int /\ text' = text
  BY MarksAreSequences, LastEndIsPlace, TextFacts DEF input
<1>2. Between(text, LastEnd, pos, Closing(Len(tokens)), {<<>>})
  BY StretchIsOpen
<1>3. Between(text, LastEnd, pos + Len(o), Closing(Len(tokens)), Fences(TypeOf(mode')))
  BY <1>1, <1>2, MarksFollow
<1>4. LastEnd' = LastEnd /\ Closing(Len(tokens))' = Closing(Len(tokens))
  BY SameTokens DEF TextInv
<1>5. Fences(TypeOf(mode))' = Fences(TypeOf(mode'))
  BY DEF Fences, TypeOf
<1>6. NothingIsLeft'
  <2>1. CASE mode' \in Gathering
    <3>1. Between(text, LastEnd, From, Closing(Len(tokens)), Fences(TypeOf(mode)))'
      BY <1>1, <1>3, <1>4, <1>5, <2>1
    <3> QED
      BY <2>1, <3>1 DEF NothingIsLeft, Gathering
  <2>2. CASE mode' \in {"start_def", "start_memo"}
    <3>1. Between(text, LastEnd, pos, Closing(Len(tokens)), Fences(TypeOf(mode)))'
      BY <1>1, <1>3, <1>4, <1>5
    <3> QED
      BY <2>2, <3>1 DEF NothingIsLeft, Gathering
  <2> QED
    BY <2>1, <2>2
<1> QED
  BY <1>6, GoesOnWithText

\* Between tokens: blanks, marks that open a token, tokens of one character.
LEMMA StartKeepsText ==
    ASSUME TypeOK, TypeOK', UNCHANGED input, TextInv, token_string = <<>>, Start
    PROVE  TextInv'
<1>1. /\ mode = "start" /\ text' = text /\ pos \in Nat /\ Len(text) \in Nat /\ RefStart \in Nat
      /\ LastEnd \in Int /\ Len(<<>>) = 0
      /\ \A c \in Closing(Len(tokens)) : Len(c) \in Nat /\ \A o \in {<<>>} : Len(o) \in Nat
  BY TextFacts, RefAssumption, LastEndIsPlace, MarksAreSequences DEF Start, input
<1>2. CASE ReturnEos
  <2> DEFINE e == token_start_pos' + Len(token_string) - RefStart
  <2>1. /\ Returns("Eos", token_string, token_string) /\ Exhausted /\ pos = Len(text)
        /\ token_start_pos' \in Nat /\ Len(token_string) = 0
    BY <1>1, <1>2 DEF ReturnEos, Emit, Exhausted, TypeOK
  <2>2. Fences("Eos") = {<<>>}
    BY DEF Fences
  <2>3. Between(text, LastEnd, Len(text), Closing(Len(tokens)), Fences("Eos"))
    BY <1>1, <2>1, <2>2, StretchIsOpen
  <2>4. e \in Int
    BY <1>1, <2>1
  <2> HIDE DEF e
  <2>5. e = token_start_pos' + Len(token_string) - RefStart
    BY DEF e
  <2>6. Len(token_string) \in Nat
    BY <2>1
  <2>7. {<<>>} = IF "Eos" = "String" /\ e < Len(text) THEN Fences("String") ELSE {<<>>}
    OBVIOUS
  <2> QED
    BY <2>1, <2>3, <2>4, <2>5, <2>6, <2>7, ReturnKeepsText
<1> SUFFICES ASSUME More, ~ReturnEos
             PROVE  TextInv'
  BY <1>2 DEF Start
<1>3. pos < Len(text) /\ Next1 = text[pos + 1]
  BY DEF More, Next1
<1>4. Spells(text, pos, <<>>) /\ Spells(text, pos, <<Next1>>) /\ Len(<<Next1>>) = 1
  BY <1>1, <1>3, OneMark DEF Spells
<1>5. Next1 \in Quote \cup {"#", "{", ":", "@"} => Next1 # Newline
  BY DEF Quote, Newline
<1>6. CASE SkipBlank
  <2>1. /\ pos' = pos + 1 /\ mode' = "start" /\ tokens' = tokens /\ text[pos + 1] \in Blank
    BY <1>3, <1>6 DEF SkipBlank, Advance, Goto
  <2>2. Between(text, LastEnd, pos + 1, Closing(Len(tokens)), {<<>>})
    <3>1. CASE OnNewline
      <4>1. /\ LastEnd = pos + 1 /\ <<>> \in Closing(Len(tokens))
            /\ pos + 1 \in Int /\ pos + 1 \in 0..Len(text) /\ pos + 1 + Len(<<>>) <= pos + 1
        BY <1>1, <1>3, <3>1 DEF OnNewline
      <4>2. Spells(text, pos + 1, <<>>) /\ OnlyBlanks(text, pos + 1 + Len(<<>>), pos + 1)
        BY <1>1, <1>3 DEF Spells, OnlyBlanks
      <4> QED
        BY <1>1, <4>1, <4>2, StretchBegins
    <3>2. CASE Between(text, LastEnd, pos, Closing(Len(tokens)), {<<>>})
      BY <1>1, <2>1, <3>2, BlankFollows
    <3> QED
      BY <1>1, <3>1, <3>2 DEF TextInv, NothingIsLeft, Gathering
  <2>3. LastEnd' = LastEnd /\ Closing(Len(tokens))' = Closing(Len(tokens))
    BY <2>1, SameTokens DEF TextInv
  <2>4. Between(text, LastEnd, pos, Closing(Len(tokens)), {<<>>})'
    BY <1>1, <2>1, <2>2, <2>3
  <2>5. NothingIsLeft'
    BY <2>1, <2>4 DEF NothingIsLeft, Gathering
  <2> QED
    BY <2>1, <2>5, GoesOnWithText
<1>7. ASSUME NEW m \in Gathering, NEW o \in Fences(TypeOf(m)), NEW n, n = Len(o),
             Open(n, m), Spells(text, pos, o), Next1 # Newline
      PROVE  TextInv'
  <2>1. /\ mode' = m /\ tokens' = tokens /\ pos' = pos + Len(o)
        /\ token_start_pos' = pos' + RefStart
    BY <1>7 DEF Open, Goto, Advance, NoteThere
  <2>2. From' = pos'
    <3>1. pos' \in Nat /\ RefStart' = RefStart
      BY TextsAssumption DEF TypeOK
    <3> QED
      BY <1>1, <2>1, <3>1 DEF From
  <2>3. TypeOf(m) = TypeOf(mode')
    BY <2>1
  <2> QED
    BY <1>1, <1>7, <2>1, <2>2, <2>3, OpenKeepsText
<1>8. CASE OpenComment
  <2>1. "comment" \in Gathering /\ <<"#">> \in Fences(TypeOf("comment"))
    BY DEF Gathering, Fences, TypeOf
  <2> QED
    BY <1>4, <1>5, <1>7, <1>8, <2>1 DEF OpenComment
<1>9. CASE OpenModule
  <2>1. "module" \in Gathering /\ <<"{">> \in Fences(TypeOf("module"))
    BY DEF Gathering, Fences, TypeOf
  <2> QED
    BY <1>4, <1>5, <1>7, <1>9, <2>1 DEF OpenModule
<1>10. CASE OpenString
  <2>1. "String" = TypeOf("string") /\ "String" = TypeOf("triple")
    BY DEF TypeOf
  <2>2. /\ "string" \in Gathering /\ <<Next1>> \in Fences(TypeOf("string"))
        /\ "triple" \in Gathering /\ <<Next1, Next1, Next1>> \in Fences(TypeOf("triple"))
    BY <1>10, <2>1 DEF OpenString, Gathering, Fences
  <2>3. CASE ~IsTripleQuote(pos, Next1)
    BY <1>4, <1>5, <1>7, <1>10, <2>2, <2>3 DEF OpenString
  <2>4. CASE IsTripleQuote(pos, Next1)
    <3>1. /\ pos + 3 <= Len(text) /\ text[pos + 2] = Next1 /\ text[pos + 3] = Next1
      <4>1. text[(pos + 1) + 1] = Next1 /\ text[(pos + 2) + 1] = Next1 /\ pos + 2 < Len(text)
        BY <2>4 DEF IsTripleQuote, At
      <4> QED
        BY <1>1, <4>1
    <3> DEFINE o == <<Next1, Next1, Next1>>
    <3>2. Len(o) = 3 /\ o[1] = Next1 /\ o[2] = Next1 /\ o[3] = Next1
      OBVIOUS
    <3>3. o \in Fences(TypeOf("triple"))
      BY <2>2
    <3> HIDE DEF o
    <3>4. Spells(text, pos, o)
      <4>1. \A k \in 1..3 : k = 1 \/ k = 2 \/ k = 3
        OBVIOUS
      <4> QED
        BY <1>1, <1>3, <3>1, <3>2, <4>1 DEF Spells
    <3>5. Open(3, "triple") /\ Next1 # Newline
      BY <1>5, <1>10, <2>4 DEF OpenString
    <3> QED
      BY <1>7, <2>2, <3>2, <3>3, <3>4, <3>5
  <2> QED
    BY <2>3, <2>4
<1>11. CASE OpenDefinition
  <2>1. /\ mode' = "start_def" /\ tokens' = tokens /\ pos' = pos + Len(<<Next1>>) /\ Next1 = ":"
    BY <1>4, <1>11 DEF OpenDefinition, Goto, Advance
  <2>2. <<Next1>> \in Fences(TypeOf(mode')) /\ mode' \notin Gathering
    BY <2>1 DEF Gathering, Fences, TypeOf
  <2> QED
    BY <1>1, <1>4, <1>5, <2>1, <2>2, OpenKeepsText
<1>12. CASE OpenMemo
  <2> DEFINE o == <<"@", ":">>
  <2>1. Len(o) = 2 /\ o[1] = "@" /\ o[2] = ":"
    OBVIOUS
  <2>2. /\ mode' = "start_memo" /\ tokens' = tokens /\ pos' = pos + Len(o) /\ Next1 = "@"
        /\ text[(pos + 1) + 1] = ":" /\ pos + 1 < Len(text)
    BY <1>12, <2>1 DEF OpenMemo, Goto, Advance, At
  <2>3. o \in Fences(TypeOf(mode')) /\ mode' \notin Gathering
    BY <2>2 DEF Gathering, Fences, TypeOf
  <2> HIDE DEF o
  <2>4. Spells(text, pos, o)
    <3>1. \A k \in 1..2 : k = 1 \/ k = 2
      OBVIOUS
    <3>2. text[pos + 2] = ":" /\ pos + 2 <= Len(text)
      BY <1>1, <2>2
    <3> QED
      BY <1>1, <1>3, <2>1, <2>2, <3>1, <3>2 DEF Spells
  <2> QED
    BY <1>1, <1>5, <2>2, <2>3, <2>4, OpenKeepsText
<1>13. CASE OpenWord
  <2>1. /\ mode' \in {"dot", "word"} /\ tokens' = tokens /\ pos' = pos + Len(<<>>)
        /\ token_start_pos' = pos' + RefStart /\ Next1 # Newline
    <3>1. /\ mode' \in {"dot", "word"} /\ tokens' = tokens /\ pos' = pos /\ Next1 # Newline
          /\ token_start_pos' = pos + RefStart
      BY <1>13 DEF OpenWord, Goto, Stay, NoteHere, StartsWord, Blank
    <3> QED
      BY <1>1, <3>1
  <2>2. <<>> \in Fences(TypeOf(mode')) /\ mode' \in Gathering
    BY <2>1 DEF Gathering, Fences, TypeOf
  <2>3. From' = pos'
    <3>1. pos' \in Nat /\ RefStart' = RefStart
      BY TextsAssumption DEF TypeOK
    <3> QED
      BY <1>1, <2>1, <3>1 DEF From
  <2> QED
    BY <1>1, <1>4, <2>1, <2>2, <2>3, OpenKeepsText
<1>14. CASE Single
  <2> DEFINE e == pos + 1
  <2>1. Next1 \in {";", "[", "]", "}"} /\ Next1 # Newline
    BY <1>14 DEF Single, SingleToken, Bracket, Newline
  <2>2. SingleToken[Next1] \in {"EndDef", "StartArray", "EndArray", "EndModule"}
    BY <2>1 DEF SingleToken, Bracket
  <2>3. Fences(SingleToken[Next1]) = {<<>>}
    BY <2>2 DEF Fences
  <2>4. /\ token_start_pos' = pos + RefStart /\ pos' = e
        /\ Returns(SingleToken[Next1], <<Next1>>, <<Next1>>)
    BY <1>14 DEF Single, NoteHere, Advance
  <2>5. /\ token_start_pos' - RefStart = pos /\ e = token_start_pos' + Len(<<Next1>>) - RefStart
        /\ e \in Int /\ e \in 0..Len(text) /\ e + Len(<<>>) <= e
    <3>1. e \in Int /\ e \in 0..Len(text) /\ e + Len(<<>>) <= e
      BY <1>1, <1>3
    <3>2. /\ token_start_pos' - RefStart = pos
          /\ e = token_start_pos' + 1 - RefStart
      BY <1>1, <2>4
    <3> QED
      BY <1>4, <3>1, <3>2
  <2>6. Between(text, LastEnd, pos, Closing(Len(tokens)), {<<>>})
    BY <1>1, <2>1, StretchIsOpen
  <2>7. Spells(text, e, <<>>) /\ OnlyBlanks(text, e + Len(<<>>), e)
    BY <1>1, <1>3 DEF Spells, OnlyBlanks
  <2> HIDE DEF e
  <2>8. Between(text, e, e, {<<>>}, {<<>>})
    BY <1>1, <2>5, <2>7, StretchBegins
  <2>9. {<<>>} = IF SingleToken[Next1] = "String" /\ e < Len(text) THEN Fences("String") ELSE {<<>>}
    BY <2>2
  <2>10. Len(<<Next1>>) \in Nat /\ SingleToken[Next1] # "Eos"
    BY <1>4, <2>2
  <2> QED
    BY <2>3, <2>4, <2>5, <2>6, <2>8, <2>9, <2>10, ReturnKeepsText
<1> QED
  BY <1>6, <1>8, <1>9, <1>10, <1>11, <1>12, <1>13, <1>14 DEF Start

\* A token without closing marks ends before the next character, with a blank,
\* or with the text.
LEMMA EndKeepsText ==
    ASSUME TypeOK, TypeOK', UNCHANGED input, TokenizerInv, TextInv, mode \in Gathering,
           UNCHANGED noted, NEW type, type \notin {"Eos", "String"}, NEW string,
           Returns(type, string, token_string), Fences(type) = Fences(TypeOf(mode)),
           pos' = pos \/ (More /\ Next1 \in Blank /\ pos' = pos + 1)
    PROVE  TextInv'
<1>1. Len(<<>>) = 0 /\ pos \in 0..Len(text) /\ Len(text) \in Nat
  BY TextFacts DEF TypeOK
<1>2. Spells(text, pos, <<>>) /\ Len(<<>>) \in Nat
  BY <1>1 DEF Spells
<1>3. \/ pos' = pos + Len(<<>>)
      \/ pos' = pos + Len(<<>>) + 1 /\ text[pos + Len(<<>>) + 1] \in Blank
  BY <1>1 DEF Next1
<1>4. <<>> \in IF type = "String" /\ pos < Len(text) THEN Fences("String") ELSE {<<>>}
  OBVIOUS
<1> QED
  BY <1>2, <1>3, <1>4, EmitKeepsText

\* A comment: the newline that ends it is in its text and is read again.
LEMMA CommentKeepsText ==
    ASSUME TypeOK, TypeOK', UNCHANGED input, TokenizerInv, TextInv, Comment
    PROVE  TextInv'
<1>1. /\ mode = "comment" /\ mode \in Gathering /\ TypeOf(mode) = "Comment"
      /\ TypeOf("comment") = "Comment"
  BY DEF Comment, Gathering, TypeOf
<1>2. CASE More /\ EndComment
  <2> DEFINE s == Append(token_string, Next1)
  <2> DEFINE e == pos + 1
  <2>1. /\ token_start_pos' - RefStart = From /\ From \in 0..pos /\ pos \in Nat
        /\ Len(token_string) = pos - From /\ token_start_pos' = From + RefStart
        /\ RefStart \in Nat /\ token_string \in Seq(Char)
    BY <1>1, <1>2, GatheredFacts, RefAssumption, TextFacts
       DEF TokenizerInv, TypeOK, noted, From, EndComment
  <2>2. Len(s) = (pos - From) + 1
    BY <2>1
  <2>3. Returns("Comment", s, s) /\ pos' = pos /\ Next1 = Newline
    BY <1>2 DEF EndComment
  <2>4. Between(text, LastEnd, From, Closing(Len(tokens)), Fences("Comment"))
    BY <1>1 DEF TextInv, NothingIsLeft, Gathering
  <2> HIDE DEF s
  <2>5. /\ Len(s) \in Nat /\ e \in Int /\ e = token_start_pos' + Len(s) - RefStart
        /\ e = pos' + 1
    BY <2>1, <2>2, <2>3
  <2>6. Stands(text, pos', Newline)
    BY <1>2, <2>3 DEF Stands, More, Next1
  <2> HIDE DEF e
  <2>7. {<<>>} = IF "Comment" = "String" /\ e < Len(text) THEN Fences("String") ELSE {<<>>}
    OBVIOUS
  <2>8. Between(text, LastEnd,
                IF "Comment" = "Eos" THEN Len(text) ELSE token_start_pos' - RefStart,
                Closing(Len(tokens)), Fences("Comment"))
    BY <2>1, <2>4
  <2> QED
    BY <2>3, <2>5, <2>6, <2>7, <2>8, ReturnKeepsText
<1>3. CASE More /\ Gather("comment")
  BY <1>1, <1>3, GatherKeepsText
<1>4. CASE EndOfText("Comment")
  BY <1>1, <1>4, EndKeepsText DEF EndOfText, EndBefore, Stay, Emit
<1> QED
  BY <1>2, <1>3, <1>4 DEF Comment

\* The name of a definition, and the blanks before it.
LEMMA NameKeepsText ==
    ASSUME TypeOK, TypeOK', UNCHANGED input, TokenizerInv, TextInv, BeforeName \/ Name
    PROVE  TextInv'
<1>1. CASE BeforeName
  <2>1. /\ mode \in {"start_def", "start_memo"} /\ text' = text
        /\ Between(text, LastEnd, pos, Closing(Len(tokens)), Fences(TypeOf(mode)))
        /\ pos \in Nat /\ LastEnd \in Int
        /\ \A c \in Closing(Len(tokens)) : Len(c) \in Nat
        /\ \A o \in Fences(TypeOf(mode)) : Len(o) \in Nat
    BY <1>1, TextFacts, LastEndIsPlace, MarksAreSequences
       DEF BeforeName, TextInv, NothingIsLeft, Gathering, input
  <2>2. UNCHANGED tokens => /\ LastEnd' = LastEnd
                            /\ Closing(Len(tokens))' = Closing(Len(tokens))
    BY SameTokens DEF TextInv
  <2>3. CASE More /\ Next1 \in Blank /\ Advance(1) /\ Goto(mode)
    <3>1. mode' = mode /\ tokens' = tokens /\ pos' = pos + 1 /\ text[pos + 1] \in Blank
      BY <2>3 DEF Goto, Advance, Next1
    <3>2. Between(text, LastEnd, pos + 1, Closing(Len(tokens)), Fences(TypeOf(mode)))
      BY <2>1, <3>1, BlankFollows
    <3>3. Between(text, LastEnd, pos, Closing(Len(tokens)), Fences(TypeOf(mode)))'
      BY <2>1, <2>2, <3>1, <3>2
    <3>4. NothingIsLeft'
      BY <2>1, <3>1, <3>3 DEF NothingIsLeft, Gathering
    <3> QED
      BY <3>1, <3>4, GoesOnWithText
  <2>4. CASE Stay /\ NoteHere /\ Goto(IF mode = "start_def" THEN "def_name" ELSE "memo_name")
    <3>1. /\ mode' \in {"def_name", "memo_name"} /\ tokens' = tokens
          /\ mode' = (IF mode = "start_def" THEN "def_name" ELSE "memo_name")
          /\ token_start_pos' = pos + RefStart
      BY <2>4 DEF Goto, NoteHere
    <3>2. TypeOf(mode') = TypeOf(mode)
      BY <2>1, <3>1 DEF TypeOf
    <3>3. From' = pos
      BY <2>1, <3>1, RefAssumption DEF From
    <3>4. Between(text, LastEnd, From, Closing(Len(tokens)), Fences(TypeOf(mode)))'
      BY <2>1, <2>2, <3>1, <3>2, <3>3
    <3>5. NothingIsLeft'
      BY <3>1, <3>4 DEF NothingIsLeft, Gathering
    <3> QED
      BY <3>1, <3>5, GoesOnWithText
  <2> QED
    BY <1>1, <2>3, <2>4, FailKeepsText DEF BeforeName
<1>2. CASE Name
  <2> DEFINE type == IF mode = "def_name" THEN "StartDef" ELSE "StartMemo"
  <2>1. /\ mode \in Gathering /\ type = TypeOf(mode) /\ type \notin {"Eos", "String"}
    BY <1>2 DEF Name, Gathering, TypeOf
  <2>2. \/ More /\ Next1 \in Blank /\ EndWith(1, type)
        \/ Fails("InvalidWordName")
        \/ Gather(mode)
        \/ EndOfText(type)
    BY <1>2 DEF Name
  <2> HIDE DEF type
  <2>3. CASE More /\ Next1 \in Blank /\ EndWith(1, type)
    BY <2>1, <2>3, EndKeepsText DEF EndWith, Advance, Emit
  <2>4. CASE EndOfText(type)
    BY <2>1, <2>4, EndKeepsText DEF EndOfText, EndBefore, Stay, Emit
  <2> QED
    BY <2>1, <2>2, <2>3, <2>4, FailKeepsText, GatherKeepsText
<1> QED
  BY <1>1, <1>2

\* A string with either kind of delimiter.
LEMMA StringKeepsText ==
    ASSUME TypeOK, TypeOK', UNCHANGED input, TokenizerInv, TextInv, String \/ TripleString
    PROVE  TextInv'
<1>1. /\ mode \in {"string", "triple"} /\ mode \in Gathering /\ TypeOf(mode) = "String"
      /\ delim \in Quote /\ pos \in 0..Len(text) /\ Len(text) \in Nat
      /\ TypeOf("string") = "String" /\ TypeOf("triple") = "String"
  BY TextFacts DEF String, TripleString, Gathering, TypeOf, TypeOK
<1>2. Fences("String") = {<<c>> : c \in Quote} \cup {<<c, c, c>> : c \in Quote}
  BY DEF Fences
<1>3. CASE Unterminated
  <2>1. /\ pos' = pos /\ pos = Len(text) /\ Len(<<>>) = 0
        /\ Emit("String") \/ Fails("UnterminatedString")
    BY <1>3 DEF Unterminated, Stay, Exhausted
  <2>2. CASE Emit("String")
    <3>1. Spells(text, pos, <<>>) /\ Len(<<>>) \in Nat /\ pos' = pos + Len(<<>>)
      BY <1>1, <2>1 DEF Spells
    <3>2. <<>> \in IF "String" = "String" /\ pos < Len(text) THEN Fences("String") ELSE {<<>>}
      BY <1>1, <2>1
    <3>3. Fences("String") = Fences(TypeOf(mode))
      BY <1>1
    <3> QED
      BY <1>1, <2>2, <3>1, <3>2, <3>3, EmitKeepsText DEF Emit
  <2> QED
    BY <2>1, <2>2, FailKeepsText
<1>4. CASE More /\ Next1 = delim /\ EndWith(1, "String")
  <2> DEFINE c == <<Next1>>
  <2>1. pos < Len(text) /\ Emit("String") /\ pos' = pos + 1
    BY <1>4 DEF More, EndWith, Advance
  <2>2. c \in Fences("String")
    BY <1>1, <1>2, <1>4
  <2>3. Len(c) = 1 /\ Spells(text, pos, c)
    BY <1>1, <2>1, OneMark DEF Next1
  <2> HIDE DEF c
  <2>4. c \in IF "String" = "String" /\ pos < Len(text) THEN Fences("String") ELSE {<<>>}
    BY <2>1, <2>2
  <2>5. Len(c) \in Nat /\ pos' = pos + Len(c) /\ Fences("String") = Fences(TypeOf(mode))
    BY <1>1, <2>1, <2>3
  <2> QED
    BY <1>1, <2>1, <2>3, <2>4, <2>5, EmitKeepsText DEF Emit
<1>5. CASE More /\ Closes /\ EndWith(3, "String")
  <2> DEFINE c == <<delim, delim, delim>>
  <2>1. pos < Len(text) /\ Emit("String") /\ pos' = pos + 3
    BY <1>5 DEF More, EndWith, Advance
  <2>2. c \in Fences("String")
    BY <1>1, <1>2
  <2>3. Len(c) = 3 /\ c[1] = delim /\ c[2] = delim /\ c[3] = delim
    OBVIOUS
  <2> HIDE DEF c
  <2>4. Spells(text, pos, c)
    <3>1. text[pos + 1] = delim /\ text[pos + 2] = delim /\ text[pos + 3] = delim /\ pos + 3 <= Len(text)
      <4>1. /\ text[pos + 1] = delim /\ text[(pos + 1) + 1] = delim
            /\ text[(pos + 2) + 1] = delim /\ pos + 2 < Len(text)
        BY <1>5 DEF Closes, IsTripleQuote, At, Next1
      <4> QED
        BY <1>1, <4>1
    <3>2. \A k \in 1..3 : k = 1 \/ k = 2 \/ k = 3
      OBVIOUS
    <3> QED
      BY <1>1, <2>3, <3>1, <3>2 DEF Spells
  <2>5. c \in IF "String" = "String" /\ pos < Len(text) THEN Fences("String") ELSE {<<>>}
    BY <2>1, <2>2
  <2>6. Len(c) \in Nat /\ pos' = pos + Len(c) /\ Fences("String") = Fences(TypeOf(mode))
    BY <1>1, <2>1, <2>3
  <2> QED
    BY <1>1, <2>1, <2>4, <2>5, <2>6, EmitKeepsText DEF Emit
<1>6. CASE Gather(mode)
  BY <1>1, <1>6, GatherKeepsText
<1> QED
  BY <1>3, <1>4, <1>5, <1>6 DEF String, TripleString

\* Words, their time zones, dot symbols, and module names.
LEMMA WordKeepsText ==
    ASSUME TypeOK, TypeOK', UNCHANGED input, TokenizerInv, TextInv,
           Word \/ Zone \/ DotSymbol \/ Module
    PROVE  TextInv'
<1>1. /\ mode \in Gathering /\ mode \in {"word", "zone", "dot", "module"}
      /\ mode \in {"word", "zone", "dot"} => TypeOf(mode) = "Word"
      /\ mode = "module" => TypeOf(mode) = "StartModule"
      /\ TypeOf("word") = "Word" /\ TypeOf("zone") = "Word" /\ TypeOf("dot") = "Word"
      /\ TypeOf("module") = "StartModule"
  BY DEF Word, Zone, DotSymbol, Module, Gathering, TypeOf
<1>2. ASSUME NEW m \in {"word", "zone", "dot", "module"}, Gather(m), TypeOf(m) = TypeOf(mode)
      PROVE  TextInv'
  <2>1. m \in Gathering
    BY DEF Gathering
  <2> QED
    BY <1>1, <1>2, <2>1, GatherKeepsText
<1>3. ASSUME NEW type, type \notin {"Eos", "String"}, type = TypeOf(mode),
             \/ EndBefore(type)
             \/ EndOfText(type)
             \/ More /\ Next1 \in Blank /\ EndWith(1, type)
      PROVE  TextInv'
  BY <1>1, <1>3, EndKeepsText DEF EndBefore, EndOfText, EndWith, Stay, Advance, Emit
<1>4. CASE Word
  <2>1. mode = "word"
    BY <1>4 DEF Word
  <2> QED
    BY <1>1, <1>2, <1>3, <1>4, <2>1 DEF Word
<1>5. CASE Zone
  <2>1. mode = "zone" /\ (Gather("word") \/ Gather("zone") \/ EndOfText("Word"))
    BY <1>5 DEF Zone
  <2> QED
    BY <1>1, <1>2, <1>3, <2>1
<1>6. CASE Module
  <2>1. mode = "module"
    BY <1>6 DEF Module
  <2> QED
    BY <1>1, <1>2, <1>3, <1>6, <2>1 DEF Module
<1>7. CASE DotSymbol
  <2>1. mode = "dot" /\ Fences("DotSymbol") = {<<>>} /\ Fences("Word") = {<<>>}
    BY <1>7 DEF DotSymbol, Fences
  <2>2. CASE Gather("dot")
    BY <1>1, <1>2, <2>1, <2>2
  <2>3. CASE /\ EmitDot
             /\ pos' = pos \/ (More /\ Next1 \in Blank /\ pos' = pos + 1)
    BY <1>1, <2>1, <2>3, EndKeepsText DEF EmitDot
  <2> QED
    BY <1>7, <2>2, <2>3 DEF DotSymbol, Advance, Stay
<1> QED
  BY <1>4, <1>5, <1>6, <1>7

\* Whatever the text, the tokens follow each other in it, and between two of
\* them stand only blanks and the marks that close the one and open the other.
THEOREM NothingLost == Spec => []NothingIsLost
<1>1. Init => TextInv
  <2> SUFFICES ASSUME Init PROVE TextInv
    OBVIOUS
  <2>1. /\ tokens = <<>> /\ Len(<<>>) = 0 /\ LastEnd = 0 /\ pos = 0 /\ mode = "start"
        /\ text \in Seq(Char)
    BY TextsAssumption DEF Init, LastEnd
  <2>2. Closing(Len(tokens)) = {<<>>}
    BY <2>1 DEF Closing
  <2>3. Len(text) \in Nat /\ 0 \in 0..Len(text) /\ 0 + Len(<<>>) <= 0 /\ Len(<<>>) \in Nat
    BY <2>1
  <2>4. Spells(text, 0, <<>>) /\ OnlyBlanks(text, 0 + Len(<<>>), 0)
    BY <2>1, <2>3 DEF Spells, OnlyBlanks
  <2>5. Between(text, 0, 0, {<<>>}, {<<>>})
    BY <2>3, <2>4, StretchBegins
  <2>6. NothingIsLeft
    BY <2>1, <2>2, <2>5 DEF NothingIsLeft, Gathering
  <2>7. NothingIsLost
    BY <2>1 DEF NothingIsLost
  <2> QED
    BY <2>6, <2>7 DEF TextInv
<1>2. TypeOK /\ TypeOK' /\ TokenizerInv /\ TextInv /\ [Next]_vars => TextInv'
  <2> SUFFICES ASSUME TypeOK, TypeOK', TokenizerInv, TextInv, [Next]_vars PROVE TextInv'
    OBVIOUS
  <2>1. CASE Next
    <3>1. Start => token_string = <<>>
      BY DEF Start, TokenizerInv, StringIsGathered, Gathering
    <3> QED
      BY <2>1, <3>1, StartKeepsText, CommentKeepsText, NameKeepsText, StringKeepsText,
         WordKeepsText DEF Next, Scan
  <2>2. CASE UNCHANGED vars
    <3>1. UNCHANGED input /\ tokens' = tokens /\ mode' = mode /\ pos' = pos /\ From' = From
          /\ text' = text
      BY <2>2 DEF vars, input, noted, From
    <3>2. LastEnd' = LastEnd /\ Closing(Len(tokens))' = Closing(Len(tokens))
      BY <3>1, SameTokens DEF TextInv
    <3>3. NothingIsLeft'
      BY <3>1, <3>2 DEF TextInv, NothingIsLeft, OnNewline, TypeOf, Fences, Gathering
    <3> QED
      BY <3>1, <3>3, GoesOnWithText
  <2> QED
    BY <2>1, <2>2
<1>3. TextInv => NothingIsLost
  BY DEF TextInv
<1> QED
  BY <1>1, <1>2, <1>3, TokenizerTypes, TokenizerInvariance, PTL DEF Spec

=============================================================================
