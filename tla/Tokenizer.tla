------------------------------ MODULE Tokenizer ------------------------------
(***************************************************************************)
(* The Forthic tokenizer: next_token called until it returns Eos or an     *)
(* error, one step per character that is read.                             *)
(*                                                                         *)
(* text is the input after unescape_string.  Characters are kept as their  *)
(* classes: " " is every blank but the newline, "q" and "p" are two of the *)
(* quote characters, "a" is any character without a meaning of its own.    *)
(***************************************************************************)
EXTENDS Naturals, Sequences, FiniteSets

CONSTANTS
    Texts,       \* the inputs
    RefLine,     \* the reference location the tokenizer is created with
    RefColumn,
    RefStart

Newline == "n"
Blank   == {" ", Newline}
Quote   == {"q", "p"}
Bracket == {";", "[", "]", "{", "}"}
Char    == Blank \cup Quote \cup Bracket \cup {"#", ":", "@", ".", "T", "a"}

ASSUME TextsAssumption == Texts \subseteq Seq(Char)
ASSUME RefAssumption   == RefLine \in Nat /\ RefColumn \in Nat /\ RefStart \in Nat

\* Tokens of one character; what ends a word; what a definition name may not hold.
SingleToken == [c \in Bracket \ {"{"} |->
    CASE c = ";" -> "EndDef" [] c = "[" -> "StartArray"
      [] c = "]" -> "EndArray" [] OTHER -> "EndModule"]
WordEnd     == Bracket \cup {"#"}
NotInNames  == Bracket \cup Quote

TokenType == {"String", "Comment", "StartArray", "EndArray", "StartModule",
              "EndModule", "StartDef", "EndDef", "StartMemo", "Word",
              "DotSymbol", "Eos"}

VARIABLES
    text, streaming,
    pos, line, column,                         \* where the scanner is
    mode,                                      \* the transition_ function it is in
    delim,                                     \* the quote that opened a string
    token_start_pos, token_line, token_column, \* what note_start_token kept
    token_string,
    tokens,                                    \* what next_token has returned
    res                                        \* "ok" or the error it returned

input == <<text, streaming>>
noted == <<token_start_pos, token_line, token_column>>
vars  == <<input, pos, line, column, mode, delim, noted, token_string, tokens, res>>

Init ==
    /\ text \in Texts /\ streaming \in BOOLEAN
    /\ pos = 0 /\ line = RefLine /\ column = RefColumn
    /\ mode = "start" /\ delim = "q"
    /\ token_start_pos = 0 /\ token_line = 0 /\ token_column = 0
    /\ token_string = <<>> /\ tokens = <<>> /\ res = "ok"

-----------------------------------------------------------------------------
More      == pos < Len(text)
Exhausted == pos = Len(text)
Next1     == text[pos + 1]

At(i, c) == i < Len(text) /\ text[i + 1] = c

\* Bug: the second quote is not looked at.
IsDoubleQuote(i, c) == c \in Quote /\ At(i + 1, c)

IsTripleQuote(i, c) == c \in Quote /\ At(i + 1, c) /\ At(i + 2, c)

\* advance_position(n) for n > 0: only a step over one character meets a newline.
Advance(n) ==
    /\ pos' = pos + n
    /\ IF n = 1 /\ Next1 = Newline
         THEN line' = line + 1 /\ column' = 1
         ELSE line' = line /\ column' = column + n

\* advance_position(1) and then (-1), over a character that is not a newline.
Stay == UNCHANGED <<pos, line, column>>

\* Bug: the start is noted at the opening quote, not behind it.
NoteAtOpening ==
    /\ token_start_pos' = pos + RefStart
    /\ token_line' = line /\ token_column' = column

\* note_start_token where the scanner stands before, and after, the step.
NoteHere ==
    /\ token_start_pos' = pos + RefStart
    /\ token_line' = line /\ token_column' = column
NoteThere ==
    /\ token_start_pos' = pos' + RefStart
    /\ token_line' = line' /\ token_column' = column'

Goto(m)  == mode' = m /\ UNCHANGED <<tokens, res>>
Clear    == token_string' = <<>>
Push(c)  == token_string' = Append(token_string, c)

\* Token::new(type, string, get_token_location()) with token_string = s; the
\* next call of next_token starts by clearing token_string.
Token(type, string, s) ==
    [type |-> type, string |-> string, start |-> token_start_pos',
     end |-> token_start_pos' + Len(s), line |-> token_line', column |-> token_column']

Returns(type, string, s) ==
    /\ tokens' = Append(tokens, Token(type, string, s))
    /\ mode' = (IF type = "Eos" THEN "done" ELSE "start")
    /\ Clear /\ UNCHANGED res

Emit(type) == UNCHANGED noted /\ Returns(type, token_string, token_string)

Fails(e) == mode' = "done" /\ res' = e /\ Clear /\ UNCHANGED <<tokens, noted>>

-----------------------------------------------------------------------------
(***************************************************************************)
(* transition_from_start: one disjunct per branch.                         *)
(***************************************************************************)
\* Bug: a blank is looked at again and again.
SkipNothing ==
    /\ Next1 \in Blank
    /\ Stay /\ NoteHere /\ Goto("start") /\ UNCHANGED <<delim, token_string>>

SkipBlank ==
    /\ Next1 \in Blank
    /\ Advance(1) /\ NoteHere /\ Goto("start") /\ UNCHANGED <<delim, token_string>>

\* The transitions that step over the opening characters and note the start
\* of the token behind them; : and @: note it again at the name.
Open(n, m) == Advance(n) /\ NoteThere /\ Goto(m) /\ UNCHANGED token_string

OpenComment    == Next1 = "#" /\ Open(1, "comment") /\ UNCHANGED delim
OpenModule     == Next1 = "{" /\ Open(1, "module") /\ UNCHANGED delim
OpenDefinition ==
    /\ Next1 = ":"
    /\ Advance(1) /\ NoteHere /\ Goto("start_def") /\ UNCHANGED <<delim, token_string>>
OpenMemo ==
    /\ Next1 = "@" /\ At(pos + 1, ":")
    /\ Advance(2) /\ NoteHere /\ Goto("start_memo") /\ UNCHANGED <<delim, token_string>>
OpenString ==
    /\ Next1 \in Quote /\ delim' = Next1
    /\ IF IsTripleQuote(pos, Next1) THEN Open(3, "triple") ELSE Open(1, "string")

Single ==
    /\ Next1 \in DOMAIN SingleToken
    /\ Advance(1) /\ NoteHere
    /\ Returns(SingleToken[Next1], <<Next1>>, <<Next1>>) /\ UNCHANGED delim

\* Words and dot symbols: back up to their first character.
StartsWord(c) == c \notin Blank \cup Quote \cup Bracket \cup {"#", ":"}
OpenWord ==
    /\ StartsWord(Next1) /\ ~(Next1 = "@" /\ At(pos + 1, ":"))
    /\ Stay /\ NoteHere /\ Goto(IF Next1 = "." THEN "dot" ELSE "word")
    /\ UNCHANGED <<delim, token_string>>

\* The end of the text: an Eos token at the last noted start.
ReturnEos == Exhausted /\ Stay /\ Emit("Eos") /\ UNCHANGED delim

Start ==
    /\ mode = "start"
    /\ \/ /\ More
          /\ \/ SkipBlank \/ OpenComment \/ OpenModule \/ OpenDefinition
             \/ OpenMemo \/ OpenString \/ Single \/ OpenWord
       \/ ReturnEos

-----------------------------------------------------------------------------
\* A character that becomes part of the token.
Gather(m) == Advance(1) /\ Push(Next1) /\ Goto(m) /\ UNCHANGED <<noted, delim>>

\* The token ends: before the next character, with it, or with the text.
EndBefore(type) == Stay /\ Emit(type) /\ UNCHANGED delim
EndWith(n, type) == Advance(n) /\ Emit(type) /\ UNCHANGED delim
EndOfText(type) == Exhausted /\ EndBefore(type)

\* The newline that ends a comment is part of its text, and is read again:
\* backing up over it leaves the column at 1.
EndComment ==
    /\ Next1 = Newline
    /\ pos' = pos /\ line' = line /\ column' = 1
    /\ UNCHANGED <<noted, delim>>
    /\ Returns("Comment", Append(token_string, Next1), Append(token_string, Next1))

Comment ==
    /\ mode = "comment"
    /\ \/ More /\ Next1 # Newline /\ Gather("comment")
       \/ More /\ EndComment
       \/ EndOfText("Comment")

\* transition_from_start_definition and _start_memo: blanks, then a name.
BeforeName ==
    /\ mode \in {"start_def", "start_memo"}
    /\ UNCHANGED delim
    /\ \/ /\ More /\ Next1 \in Blank
          /\ Advance(1) /\ Goto(mode) /\ UNCHANGED <<noted, token_string>>
       \/ /\ More /\ Next1 \in Quote
          /\ Advance(1) /\ Fails("InvalidWordName")
       \/ /\ More /\ Next1 \notin Blank \cup Quote
          /\ Stay /\ NoteHere /\ UNCHANGED token_string
          /\ Goto(IF mode = "start_def" THEN "def_name" ELSE "memo_name")
       \/ Exhausted /\ Stay /\ Fails("InvalidWordName")

\* gather_definition_name and the token its callers make of the name.
Name ==
    /\ mode \in {"def_name", "memo_name"}
    /\ LET type == IF mode = "def_name" THEN "StartDef" ELSE "StartMemo" IN
       \/ More /\ Next1 \in Blank /\ EndWith(1, type)
       \/ /\ More /\ Next1 \in NotInNames
          /\ Advance(1) /\ Fails("InvalidWordName") /\ UNCHANGED delim
       \/ More /\ Next1 \notin Blank \cup NotInNames /\ Gather(mode)
       \/ EndOfText(type)

Module ==
    /\ mode = "module"
    /\ \/ More /\ Next1 \in Blank /\ EndWith(1, "StartModule")
       \/ More /\ Next1 = "}" /\ EndBefore("StartModule")
       \/ More /\ Next1 \notin Blank \cup {"}"} /\ Gather("module")
       \/ EndOfText("StartModule")

\* A string that the text does not close: only a streaming tokenizer takes it.
Unterminated ==
    /\ Exhausted /\ Stay /\ UNCHANGED delim
    /\ IF streaming THEN Emit("String") ELSE Fails("UnterminatedString")

String ==
    /\ mode = "string"
    /\ \/ More /\ Next1 = delim /\ EndWith(1, "String")
       \/ More /\ Next1 # delim /\ Gather("string")
       \/ Unterminated

\* Bug: the first three quotes close the string.
ClosesAtOnce == IsTripleQuote(pos, delim) /\ Next1 = delim

\* Three quotes close the string, unless a fourth follows: then the first of
\* them is content (greedy mode).
Closes == IsTripleQuote(pos, delim) /\ Next1 = delim /\ ~At(pos + 3, delim)

TripleString ==
    /\ mode = "triple"
    /\ \/ More /\ Closes /\ EndWith(3, "String")
       \/ More /\ ~Closes /\ Gather("triple")
       \/ Unterminated

\* A [ in a word that has a T opens the zone of a datetime, which may hold
\* anything up to its ].
HasT == \E i \in 1..Len(token_string) : token_string[i] = "T"

\* Bug: the bracket that ends a word is read with it.
WordWithBracket ==
    /\ mode = "word"
    /\ \/ More /\ Next1 \in Blank \cup WordEnd /\ EndWith(1, "Word")
       \/ More /\ Next1 \notin Blank \cup WordEnd /\ Gather("word")
       \/ EndOfText("Word")

Word ==
    /\ mode = "word"
    /\ \/ More /\ Next1 \in Blank /\ EndWith(1, "Word")
       \/ More /\ Next1 = "[" /\ HasT /\ Gather("zone")
       \/ More /\ Next1 \in WordEnd /\ ~(Next1 = "[" /\ HasT) /\ EndBefore("Word")
       \/ More /\ Next1 \notin Blank \cup WordEnd /\ Gather("word")
       \/ EndOfText("Word")

Zone ==
    /\ mode = "zone"
    /\ \/ More /\ Gather(IF Next1 = "]" THEN "word" ELSE "zone")
       \/ EndOfText("Word")

\* The dot is in token_string, and so in the location, and not in the string
\* of the token; a dot alone is a word.
EmitDot ==
    /\ UNCHANGED <<noted, delim>>
    /\ IF Len(token_string) < 2
         THEN Returns("Word", token_string, token_string)
         ELSE Returns("DotSymbol", Tail(token_string), token_string)

DotSymbol ==
    /\ mode = "dot"
    /\ \/ More /\ Next1 \in Blank /\ Advance(1) /\ EmitDot
       \/ More /\ Next1 \in WordEnd /\ Stay /\ EmitDot
       \/ More /\ Next1 \notin Blank \cup WordEnd /\ Gather("dot")
       \/ Exhausted /\ Stay /\ EmitDot

-----------------------------------------------------------------------------
Scan ==
    \/ Start \/ Comment \/ BeforeName \/ Name \/ Module
    \/ String \/ TripleString \/ Word \/ Zone \/ DotSymbol

Next == Scan /\ UNCHANGED input

Spec     == Init /\ [][Next]_vars
FairSpec == Spec /\ WF_vars(Next)

-----------------------------------------------------------------------------
\* Every variable keeps its type, and the scanner stays inside the text.
TypeOK ==
    /\ text \in Texts /\ streaming \in BOOLEAN
    /\ pos \in 0..Len(text) /\ line \in Nat /\ column \in Nat
    /\ mode \in {"start", "comment", "start_def", "start_memo", "def_name",
                 "memo_name", "module", "string", "triple", "word", "zone",
                 "dot", "done"}
    /\ delim \in Quote
    /\ token_start_pos \in Nat /\ token_line \in Nat /\ token_column \in Nat
    /\ token_string \in Seq(Char)
    /\ tokens \in Seq([type : TokenType, string : Seq(Char), start : Nat,
                       end : Nat, line : Nat, column : Nat])
    /\ res \in {"ok", "InvalidWordName", "UnterminatedString"}

Read == {i \in 1..Len(tokens) : tokens[i].type # "Eos"}

\* The text of a token as it stands in the input.
Source(t) == IF t.type = "DotSymbol" THEN <<".">> \o t.string ELSE t.string

\* The location of a token names exactly the characters it was made of,
\* through every back-up, dropped dot and multi-character delimiter.
LocationsHoldTheText ==
    \A i \in Read :
        /\ tokens[i].start >= RefStart /\ tokens[i].end <= RefStart + Len(text)
        /\ SubSeq(text, tokens[i].start - RefStart + 1, tokens[i].end - RefStart)
             = Source(tokens[i])

\* The line and the column of position p, computed from the text alone.
LineAt(p) == RefLine + Cardinality({j \in 1..p : text[j] = Newline})

IsColumnAt(p, c) ==
    \/ (\A j \in 1..p : text[j] # Newline) /\ c = RefColumn + p
    \/ \E j \in 1..p : /\ text[j] = Newline /\ c = 1 + p - j
                       /\ \A k \in j+1..p : text[k] # Newline

\* The line and column of a token are those of its first character, although
\* they are counted forwards and backwards with the scanner and the column is
\* wrong while it stands on the newline behind a comment.
LinesAgree ==
    \A i \in Read : LET p == tokens[i].start - RefStart IN
        tokens[i].line = LineAt(p) /\ IsColumnAt(p, tokens[i].column)

\* Every location the tokenizer gives is true, however the scanner got there.
LocationsAreTrue == LocationsHoldTheText /\ LinesAgree

\* What opens and closes a token, and is not part of it.
Fences(type) ==
    CASE type = "String"   -> {<<c>> : c \in Quote} \cup {<<c, c, c>> : c \in Quote}
      [] type = "Comment"     -> {<<"#">>}
      [] type = "StartModule" -> {<<"{">>}
      [] type = "StartDef"    -> {<<":">>}
      [] type = "StartMemo"   -> {<<"@", ":">>}
      [] OTHER                -> {<<>>}

\* A string that the text does not close has no closing marks.
Closing(i) ==
    IF i > 0 /\ tokens[i].type = "String" /\ tokens[i].end < RefStart + Len(text)
      THEN Fences("String") ELSE {<<>>}

\* The text s spells m behind position p; only blanks stand between p and q.
Spells(s, p, m)     == p + Len(m) <= Len(s) /\ \A k \in 1..Len(m) : s[p + k] = m[k]
OnlyBlanks(s, p, q) == \A k \in p+1..q : s[k] \in Blank

\* From one position to the other: marks that close, blanks, marks that open,
\* and the blanks that a name may have behind its mark.
Between(s, from, upto, closing, opening) ==
    \E c \in closing, o \in opening :
        \E a \in from + Len(c)..upto - Len(o) :
            /\ Spells(s, from, c) /\ OnlyBlanks(s, from + Len(c), a)
            /\ Spells(s, a, o)    /\ OnlyBlanks(s, a + Len(o), upto)

\* The tokens follow each other in the text, and between two of them there is
\* nothing but blanks and the marks that close the one and open the other: no
\* character is lost, and none is read into two tokens.
NothingIsLost ==
    \A i \in 1..Len(tokens) :
        Between(text,
                IF i = 1 THEN 0 ELSE tokens[i-1].end - RefStart,
                IF tokens[i].type = "Eos" THEN Len(text) ELSE tokens[i].start - RefStart,
                Closing(i-1), Fences(tokens[i].type))

\* A string ends at the first place that closes it: one quote like the one
\* that opened it, or the last three of the first run of three or more.
StringsEndAtTheirDelimiter ==
    \A i \in Read : tokens[i].type = "String" =>
        LET s     == tokens[i].start - RefStart
            e     == tokens[i].end - RefStart
            c     == text[s]
            Three(j) == \A k \in 0..2 : At(j + k, c)
            n     == IF s > 2 /\ Three(s - 3) THEN 3 ELSE 1
            ClosesAt(j) == IF n = 1 THEN At(j, c) ELSE Three(j) /\ ~At(j + 3, c)
        IN  /\ c \in Quote
            /\ \A j \in s..e-1 : ~ClosesAt(j)
            /\ ClosesAt(e) \/ (streaming /\ e = Len(text))

\* Every text is read to its end or to its first error: each transition moves
\* on, whatever is left unterminated.
TextIsRead == <>(mode = "done")
=============================================================================
