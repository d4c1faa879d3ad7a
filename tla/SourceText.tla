----------------------------- MODULE SourceText ------------------------------
(***************************************************************************)
(* The text of a program as the page handles it: the CodeMirror editor     *)
(* (ide/input.ts over ide/codemirror_adapter.ts), the colours it gives the *)
(* text (ide/mmixal_language.ts), and the colours that a page without an   *)
(* editor would give it (ide/syntax_highlighter.ts).                       *)
(*                                                                         *)
(* A text is a sequence of lexemes.  A lexeme stands for the characters    *)
(* that no definition tells apart: "opcode" for ADDU, "digit" for 2, and   *)
(* "name" for letters that are neither an opcode nor a directive, alone or *)
(* next to others.  Hexadecimal constants are not distinguished.           *)
(***************************************************************************)
EXTENDS Naturals, Sequences, FiniteSets, SequencesExt

CONSTANTS
  Initial,     \* the texts the server may deliver
  Typed,       \* the lexemes a user types
  MaxLexemes   \* bound: the length of a text

Letters == {"opcode", "directive", "name"}
WordChars == Letters \cup {"digit"}
Lexeme == WordChars \cup {"space", "quote", "percent", "sign", "newline"}

ASSUME TextAssumption ==
  /\ MaxLexemes \in Nat
  /\ Typed \subseteq Lexeme
  /\ Initial \subseteq Seq(Lexeme)

\* opcodes.ts.  The enumerations are sets of words: 2ADDU is an opcode as ADDU is.
OpCode == {<<"opcode">>, <<"digit", "opcode">>}
AssemblerDirective == {<<"directive">>}

VARIABLES
  doc,       \* the document of CodeMirror
  unlocked,  \* the document is editable
  form       \* the value of the textarea, which the form submits

vars == <<doc, unlocked, form>>

-----------------------------------------------------------------------------
(* Texts and lines.                                                        *)

Drop(text, n) == SubSeq(text, n + 1, Len(text))
Take(text, n) == SubSeq(text, 1, n)

\* How many of the first lexemes of a line are in S, one after the other.
Run(line, S) == Cardinality({n \in 1..Len(line) : \A i \in 1..n : line[i] \in S})

\* The first place, if any, where a text has a lexeme of S, or else one past its end.
First(text, S) == Run(text, Lexeme \ S) + 1

\* source.split("\n").
Breaks(text) == {i \in 1..Len(text) : text[i] = "newline"}
NumLines(text) == Cardinality(Breaks(text)) + 1

Lines(text) ==
  LET before[n \in 1..NumLines(text)] ==
        IF n = 1 THEN 0
        ELSE before[n - 1] + First(Drop(text, before[n - 1]), {"newline"})
      Rest(n) == Drop(text, before[n])
  IN [n \in 1..NumLines(text) |-> Take(Rest(n), First(Rest(n), {"newline"}) - 1)]

\* One token of the editor, or one span of the highlighter.
Piece(text, class) == [text |-> text, class |-> class]

-----------------------------------------------------------------------------
(***************************************************************************)
(* highlight(source): a line at a time.                                    *)
(***************************************************************************)

OddQuotes(line) == Cardinality({i \in 1..Len(line) : line[i] = "quote"}) % 2 = 1

\* A mutation of CommentStart: a percent sign in a string counts.
FirstPercent(line) == First(line, {"percent"})

\* findCommentStart(line), one past the end for -1.
CommentStart(line) ==
  LET found == {i \in 1..Len(line) : line[i] = "percent" /\ ~OddQuotes(Take(line, i - 1))}
  IN IF found = {} THEN Len(line) + 1 ELSE CHOOSE i \in found : \A j \in found : i <= j

OpCodeClass(word) ==
  CASE word \in OpCode -> "hl-opcode"
    [] word \in AssemblerDirective -> "hl-directive"
    [] OTHER -> "hl-expr"

\* MMIXMatch: a label, blank space, a word and the remainder.
NonSpace == Lexeme \ {"space"}
Label(code) == Take(code, Run(code, NonSpace))
BlankSpace(code) == LET rest == Drop(code, Len(Label(code))) IN Take(rest, Run(rest, {"space"}))
AfterBlank(code) == Drop(code, Len(Label(code)) + Len(BlankSpace(code)))
Operation(code) == Take(AfterBlank(code), Run(AfterBlank(code), NonSpace))
Remainder(code) == Drop(AfterBlank(code), Len(Operation(code)))

\* An empty group is left out.
Span(text, class) == IF text = <<>> THEN <<>> ELSE <<Piece(text, class)>>

\* A mutation of HighlightCode: the remainder is only kept behind an operation
\* that is known.
CodeWithoutRemainder(code) ==
  IF BlankSpace(code) = <<>>
  THEN Span(code, "hl-expr")
  ELSE Span(Label(code), "hl-label") \o Span(BlankSpace(code), "none")
         \o Span(Operation(code), OpCodeClass(Operation(code)))
         \o Span(IF Operation(code) \in OpCode THEN Remainder(code) ELSE <<>>, "hl-expr")

HighlightCode(code) ==
  IF BlankSpace(code) = <<>>
  THEN Span(code, "hl-expr")
  ELSE Span(Label(code), "hl-label") \o Span(BlankSpace(code), "none")
         \o Span(Operation(code), OpCodeClass(Operation(code)))
         \o Span(Remainder(code), "hl-expr")

HighlightLine(line) ==
  LET start == CommentStart(line)
  IN HighlightCode(Take(line, start - 1)) \o Span(Drop(line, start - 1), "hl-comment")

Highlight(text) == [n \in 1..NumLines(text) |-> HighlightLine(Lines(text)[n])]

-----------------------------------------------------------------------------
(***************************************************************************)
(* mmixal: the tokens of a line, and whether it ends inside a string.      *)
(* CodeMirror, which is external, hands the state from line to line.       *)
(***************************************************************************)

\* A mutation of WordClass: the directives are not looked up.
WordClassOfOpCodes(word) == IF word \in OpCode THEN "hl-opcode" ELSE "hl-label"

\* mmixalHighlightStyle, applied to what token() returns for a word.
WordClass(word) ==
  CASE word \in OpCode -> "hl-opcode"
    [] word \in AssemblerDirective -> "hl-directive"
    [] OTHER -> "hl-label"

\* Where the string that a quote opens is closed, behind the quote.
ToQuote(rest) == First(Drop(rest, 1), {"quote"})

\* A mutation of Closed: a closing quote at the end of the line is overlooked.
ClosedBeforeEnd(rest) == ToQuote(rest) < Len(rest) - 1

Closed(rest) == ToQuote(rest) < Len(rest)

\* token(stream, state), on what is left of a line: the length of the token, its
\* class, and the next state.
Token(rest, inString) ==
  LET Result(n, class, next) == [len |-> n, class |-> class, inString |-> next]
  IN CASE rest[1] = "space" -> Result(Run(rest, {"space"}), "none", inString)
       [] inString /\ rest[1] \notin {"space", "quote"} ->
            Result(First(rest, {"quote"}) - 1, "hl-expr", TRUE)
       [] inString /\ rest[1] = "quote" -> Result(1, "hl-expr", FALSE)
       [] ~inString /\ rest[1] = "percent" -> Result(Len(rest), "hl-comment", FALSE)
       [] ~inString /\ rest[1] = "quote" ->
            Result(IF Closed(rest) THEN ToQuote(rest) + 1 ELSE Len(rest), "hl-expr", ~Closed(rest))
       [] ~inString /\ rest[1] \in Letters ->
            LET n == Run(rest, WordChars) IN Result(n, WordClass(Take(rest, n)), FALSE)
       [] ~inString /\ rest[1] = "digit" -> Result(Run(rest, {"digit"}), "hl-expr", FALSE)
       [] ~inString /\ rest[1] = "sign" -> Result(1, "none", FALSE)

\* The tokens of a line that begins in the given state, and the state it ends in.
Tokens(line, inString) ==
  LET Rest(n) == Drop(line, Len(line) - n)
      scan[n \in 0..Len(line)] ==
        [s \in BOOLEAN |->
           IF n = 0 THEN [pieces |-> <<>>, inString |-> s]
           ELSE LET t == Token(Rest(n), s)
                    after == scan[n - t.len][t.inString]
                IN [pieces |-> <<Piece(Take(Rest(n), t.len), t.class)>> \o after.pieces,
                    inString |-> after.inString]]
  IN scan[Len(line)][inString]

Tokenized(text) ==
  LET line[n \in 1..NumLines(text)] ==
        Tokens(Lines(text)[n], IF n = 1 THEN FALSE ELSE line[n - 1].inString)
  IN [n \in 1..NumLines(text) |-> line[n]]

-----------------------------------------------------------------------------
(***************************************************************************)
(* The editor.                                                             *)
(***************************************************************************)

\* The text that replaces what lies between two places of a text.
Changed(text, from, to, insert) == Take(text, from) \o insert \o Drop(text, to)

\* connect(): the document is what the server has put into the textarea.
Init ==
  /\ form \in Initial
  /\ doc = form
  /\ unlocked = FALSE

Unlock ==
  /\ unlocked' = TRUE
  /\ UNCHANGED <<doc, form>>

\* The update listener: the textarea follows the document.
HookUpListener == form' = doc'

\* The user changes the document of an editor that is not locked.
Change(from, to, insert) ==
  /\ unlocked
  /\ from < to \/ insert # <<>>
  /\ doc' = Changed(doc, from, to, insert)
  /\ HookUpListener
  /\ UNCHANGED unlocked

Room == Len(doc) < MaxLexemes

Next ==
  \/ Unlock
  \/ \E to \in 0..Len(doc) : \E from \in 0..to :
       \/ Change(from, to, <<>>)
       \/ \E l \in Typed : Room /\ Change(from, to, <<l>>)

Spec == Init /\ [][Next]_vars

-----------------------------------------------------------------------------
(***************************************************************************)
(* Properties.                                                             *)
(***************************************************************************)

\* Every variable holds a value of its type.
TextTypeOK ==
  /\ doc \in Seq(Lexeme)
  /\ unlocked \in BOOLEAN
  /\ form \in Seq(Lexeme)

Texts(pieces) == FlattenSeq([i \in DOMAIN pieces |-> pieces[i].text])

\* Neither colouring loses, adds or moves a character of the text.
ColouringKeepsTheText ==
  LET lines == Lines(form)
      spans == Highlight(form)
      tokens == Tokenized(form)
  IN \A n \in DOMAIN lines :
       Texts(spans[n]) = lines[n] /\ Texts(tokens[n].pieces) = lines[n]

\* Every line in front of line n has its strings closed.
ClosedBefore(lines, n) ==
  \A m \in 1..n - 1 : ~OddQuotes(Take(lines[m], CommentStart(lines[m]) - 1))

Commented(pieces) ==
  FlattenSeq([i \in DOMAIN pieces |->
                IF pieces[i].class = "hl-comment" THEN pieces[i].text ELSE <<>>])

\* The editor and the page without an editor show the same comments, as long as
\* no string has been left open.
CommentsAgree ==
  LET lines == Lines(form)
      spans == Highlight(form)
      tokens == Tokenized(form)
  IN \A n \in DOMAIN lines :
       ClosedBefore(lines, n) => Commented(spans[n]) = Commented(tokens[n].pieces)

\* An operation behind the margin, or behind a label, is an opcode, or a directive,
\* to both colourings.  (2ADDU, a digit and letters, is an opcode only to the
\* highlighter, and a label with a quote is one only to the highlighter.)
OperationsAgree ==
  LET lines == Lines(form)
      spans == Highlight(form)
      tokens == Tokenized(form)
      Simple(p, n) == /\ p.class \in {"hl-opcode", "hl-directive"}
                      /\ Len(p.text) = 1
                      /\ "quote" \notin ToSet(Label(lines[n]))
  IN \A n \in DOMAIN lines :
       ClosedBefore(lines, n) =>
         \A i \in DOMAIN spans[n] :
           Simple(spans[n][i], n) => Contains(tokens[n].pieces, spans[n][i])

\* A change of the document recolours no line but those it changes, as long as the
\* strings of the lines in front are closed before and after it.
ClosedLinesStandAlone ==
  [][ LET lines == Lines(form)
          next == Lines(form')
          tokens == Tokenized(form)
          nextTokens == Tokenized(form')
      IN \A n \in DOMAIN lines \cap DOMAIN next :
           next[n] = lines[n] /\ ClosedBefore(lines, n) /\ ClosedBefore(next, n)
             => nextTokens[n] = tokens[n] ]_form
=============================================================================
