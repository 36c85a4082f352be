---------------------------- MODULE TemplateLexer ----------------------------
(* The lexer of the template engine (yagtemplate/parse/lex.go).  A source  *)
(* is a sequence of characters, where a delimiter, a comment mark and a    *)
(* word count as one character.  One action is one call of nextItem that   *)
(* emits an item, or one comment that is passed over.                      *)
EXTENDS Naturals, Sequences, FiniteSets

CONSTANTS
  Names                \* the words that are not keywords

VARIABLES
  input,               \* the source
  pos,                 \* the next character
  start,               \* where the current item starts
  line,                \* 1 + the newlines seen
  parenDepth,          \* nesting of ( ) in the action
  insideAction,        \* between delimiters
  items                \* every item handed to the parser

lexer == <<input, pos, start, line, parenDepth, insideAction, items>>

Keywords == {"block", "break", "catch", "continue", "define", "else", "end", "if",
             "nil", "range", "return", "template", "try", "while", "with"}
Bools  == {"true", "false"}
Digits == {"0", "1", "2", "3"}
Spaces == {" ", "nl"}
Quotes == {"\"", "'"}

ASSUME NamesAssumption ==
  /\ Names \subseteq STRING
  /\ Names \cap (Keywords \cup Bools \cup Digits \cup Spaces \cup Quotes \cup {"eof"}) = {}

LeftDelim  == "{{"
RightDelim == "}}"

AlphaNumeric == Names \cup Keywords \cup Bools \cup Digits

\* Printable characters that mean nothing by themselves.
OtherPrintable == {",", "!", "\\", "*/", "/*", LeftDelim, RightDelim}

-----------------------------------------------------------------------------
At(p) == IF p <= Len(input) THEN input[p] ELSE "eof"

\* The first position from p on, and no further than the end, where the test holds.
FirstIn(p, S) ==
  LET found == {q \in p .. Len(input) : input[q] \in S}
  IN  IF found = {} THEN Len(input) + 1 ELSE CHOOSE q \in found : \A o \in found : q <= o

FirstNotIn(p, S) ==
  LET found == {q \in p .. Len(input) : input[q] \notin S}
  IN  IF found = {} THEN Len(input) + 1 ELSE CHOOSE q \in found : \A o \in found : q <= o

Newlines(from, to) == Cardinality({p \in from .. to - 1 : At(p) = "nl"})

HasLeftTrimMarker(p)  == At(p) = "-" /\ At(p + 1) \in Spaces
HasRightTrimMarker(p) == At(p) \in Spaces /\ At(p + 1) = "-"

\* Where the text from `from` to `to` ends without the spaces at its end.
TrimmedEnd(from, to) ==
  LET kept == {p \in from .. to - 1 : input[p] \notin Spaces}
  IN  IF kept = {} THEN from ELSE 1 + CHOOSE p \in kept : \A o \in kept : o <= p

\* After the right delimiter at p, if there is one: past it, its marker and
\* the spaces the marker trims; 0 if there is none.
AfterRightDelim(p) ==
  CASE At(p) = RightDelim -> p + 1
    [] HasRightTrimMarker(p) /\ At(p + 2) = RightDelim -> FirstNotIn(p + 3, Spaces)
    [] OTHER -> 0

AtRightDelim(p) == AfterRightDelim(p) # 0

AtTerminator(p) == At(p) \in Spaces \cup {"eof", ".", ",", "|", ":", ")", "(", RightDelim}

-----------------------------------------------------------------------------
Item(typ, from, to, ln) ==
  [typ |-> typ, val |-> SubSeq(input, from, to - 1), from |-> from, to |-> to, line |-> ln]

Ended == items # <<>> /\ items[Len(items)].typ \in {"EOF", "error"}

\* An item from start to `to`, scanned rune by rune.
EmitTo(typ, to) ==
  LET ln == line + Newlines(pos, to)
  IN  /\ items' = Append(items, Item(typ, start, to, ln))
      /\ pos' = to /\ start' = to /\ line' = ln

\* errorf: the item that ends the scan.
LexError ==
  /\ items' = Append(items, Item("error", start, start, line))
  /\ UNCHANGED <<input, pos, start, line, parenDepth, insideAction>>

\* A plausible slip: what is before any left delimiter is trimmed.
LexTextTrimming ==
  /\ ~Ended /\ ~insideAction /\ At(pos) # LeftDelim
  /\ LET x    == FirstIn(pos, {LeftDelim})
         stop == TrimmedEnd(start, x)
     IN  IF x > Len(input)
         THEN /\ items' = Append(items, Item(IF x > start THEN "text" ELSE "EOF", start, x, line))
              /\ pos' = x /\ start' = x
              /\ UNCHANGED line
         ELSE /\ items' = IF stop > start
                          THEN Append(items, Item("text", start, stop, line + Newlines(start, stop)))
                          ELSE items
              /\ pos' = x /\ start' = x
              /\ line' = line + Newlines(start, x)
  /\ UNCHANGED <<input, parenDepth, insideAction>>

\* lexText: up to the next left delimiter, without the spaces its marker trims.
LexText ==
  /\ ~Ended /\ ~insideAction /\ At(pos) # LeftDelim
  /\ LET x    == FirstIn(pos, {LeftDelim})
         stop == IF HasLeftTrimMarker(x + 1) THEN TrimmedEnd(start, x) ELSE x
     IN  IF x > Len(input)
         THEN /\ items' = Append(items, Item(IF x > start THEN "text" ELSE "EOF", start, x, line))
              /\ pos' = x /\ start' = x
              /\ UNCHANGED line
         ELSE /\ items' = IF stop > start
                          THEN Append(items, Item("text", start, stop, line + Newlines(start, stop)))
                          ELSE items
              /\ pos' = x /\ start' = x
              /\ line' = line + Newlines(start, x)
  /\ UNCHANGED <<input, parenDepth, insideAction>>

\* Past the left delimiter at pos and its marker.
AfterLeftDelim == IF HasLeftTrimMarker(pos + 1) THEN pos + 3 ELSE pos + 1

\* lexLeftDelim, where no comment follows.
LexLeftDelim ==
  /\ ~Ended /\ ~insideAction /\ At(pos) = LeftDelim /\ At(AfterLeftDelim) # "/*"
  /\ items' = Append(items, Item(LeftDelim, pos, pos + 1, line))
  /\ pos' = AfterLeftDelim /\ start' = AfterLeftDelim
  /\ line' = line + Newlines(pos, AfterLeftDelim)
  /\ parenDepth' = 0 /\ insideAction' = TRUE
  /\ UNCHANGED input

\* lexComment: the comment has to end right before the right delimiter.
LexComment ==
  /\ ~Ended /\ ~insideAction /\ At(pos) = LeftDelim /\ At(AfterLeftDelim) = "/*"
  /\ LET close == FirstIn(AfterLeftDelim + 1, {"*/"})
         after == AfterRightDelim(close + 1)
     IN  IF close > Len(input) \/ after = 0
         THEN LexError
         ELSE /\ pos' = after /\ start' = after
              /\ line' = line + Newlines(pos, after)
              /\ UNCHANGED <<input, parenDepth, insideAction, items>>

\* A plausible slip: the newlines that a marker trims are not counted.
LexRightDelimUncounted ==
  /\ ~Ended /\ insideAction /\ AtRightDelim(pos)
  /\ IF parenDepth # 0
     THEN LexError
     ELSE LET delim == FirstIn(pos, {RightDelim})
          IN  /\ items' = Append(items, Item(RightDelim, delim, delim + 1, line))
              /\ pos' = AfterRightDelim(pos) /\ start' = AfterRightDelim(pos)
              /\ insideAction' = FALSE
              /\ UNCHANGED <<input, parenDepth, line>>

\* lexRightDelim, or the complaint about an open parenthesis.
LexRightDelim ==
  /\ ~Ended /\ insideAction /\ AtRightDelim(pos)
  /\ IF parenDepth # 0
     THEN LexError
     ELSE LET delim == FirstIn(pos, {RightDelim})
          IN  /\ items' = Append(items, Item(RightDelim, delim, delim + 1, line + Newlines(pos, delim)))
              /\ pos' = AfterRightDelim(pos) /\ start' = AfterRightDelim(pos)
              /\ line' = line + Newlines(pos, AfterRightDelim(pos))
              /\ insideAction' = FALSE
              /\ UNCHANGED <<input, parenDepth>>

-----------------------------------------------------------------------------
\* The rest is inside an action and not at a right delimiter.
Inside(chars) == ~Ended /\ insideAction /\ ~AtRightDelim(pos) /\ At(pos) \in chars

Scanned(typ, to) == EmitTo(typ, to) /\ UNCHANGED <<input, parenDepth, insideAction>>

LexSpace == Inside(Spaces) /\ Scanned(" ", FirstNotIn(pos, Spaces))

\* = , := and | , a printable character, and what no action can hold.
LexSymbol ==
  \/ Inside({"=", "|"} \cup OtherPrintable) /\ Scanned(At(pos), pos + 1)
  \/ /\ Inside({":"})
     /\ IF At(pos + 1) = "=" THEN Scanned(":=", pos + 2) ELSE LexError
  \/ Inside({"eof", "unprintable"}) /\ LexError

LexParen ==
  \/ /\ Inside({"("}) /\ EmitTo("(", pos + 1)
     /\ parenDepth' = parenDepth + 1 /\ UNCHANGED <<input, insideAction>>
  \/ /\ Inside({")"})
     /\ IF parenDepth = 0
        THEN LexError
        ELSE /\ EmitTo(")", pos + 1)
             /\ parenDepth' = parenDepth - 1 /\ UNCHANGED <<input, insideAction>>

\* lexIdentifier: a keyword, a Boolean or a name; only a terminator may follow.
LexIdentifier ==
  /\ Inside(AlphaNumeric \ Digits)
  /\ LET end  == FirstNotIn(pos, AlphaNumeric)
         word == IF end = pos + 1 THEN At(pos) ELSE "word"
     IN  IF ~AtTerminator(end)
         THEN LexError
         ELSE Scanned(CASE word \in Keywords -> word
                        [] word \in Bools -> "bool"
                        [] OTHER -> "identifier", end)

\* lexField, lexVariable: a mark and a name, or the mark by itself.
LexFieldOrVariable ==
  /\ Inside({"$", "."})
  /\ At(pos) = "." => At(pos + 1) \notin Digits
  /\ LET end == IF AtTerminator(pos + 1) THEN pos + 1 ELSE FirstNotIn(pos + 1, AlphaNumeric)
     IN  IF ~AtTerminator(end)
         THEN LexError
         ELSE Scanned(CASE At(pos) = "$" -> "variable"
                        [] end = pos + 1 -> "."
                        [] OTHER -> "field", end)

\* lexNumber, for decimal numbers: a sign, digits, a point and digits.
LexNumber ==
  /\ Inside(Digits \cup {"+", "-", "."})
  /\ At(pos) = "." => At(pos + 1) \in Digits
  /\ LET signed == IF At(pos) \in {"+", "-"} THEN pos + 1 ELSE pos
         whole  == FirstNotIn(signed, Digits)
         end    == IF At(whole) = "." THEN FirstNotIn(whole + 1, Digits) ELSE whole
     IN  IF At(end) \in AlphaNumeric \cup {"+", "-"} THEN LexError ELSE Scanned("number", end)

\* Up to the same mark on this line, unless a backslash is before it.
LexQuoted(mark, typ) ==
  /\ Inside({mark})
  /\ LET escaped[p \in pos .. Len(input)] ==
           p > pos + 1 /\ At(p - 1) = "\\" /\ ~escaped[p - 1]
         ends == {p \in pos + 1 .. Len(input) :
                    At(p) = "nl" \/ (At(p) = mark /\ ~escaped[p])}
         end == CHOOSE p \in ends : \A o \in ends : p <= o
     IN  IF ends = {} \/ At(end) = "nl" THEN LexError ELSE Scanned(typ, end + 1)

LexQuote == LexQuoted("\"", "string")
LexChar  == LexQuoted("'", "char")

LexRawQuote ==
  /\ Inside({"backquote"})
  /\ LET end == FirstIn(pos + 1, {"backquote"})
     IN  IF end > Len(input) THEN LexError ELSE Scanned("string", end + 1)

NextItem ==
  \/ LexText \/ LexLeftDelim \/ LexComment \/ LexRightDelim
  \/ LexSpace \/ LexSymbol \/ LexParen \/ LexIdentifier
  \/ LexFieldOrVariable \/ LexNumber \/ LexQuote \/ LexChar \/ LexRawQuote

StartLexing(source) ==
  /\ input = source
  /\ pos = 1 /\ start = 1 /\ line = 1 /\ parenDepth = 0 /\ insideAction = FALSE
  /\ items = <<>>

-----------------------------------------------------------------------------
LexerSpec == (\E source \in Seq(STRING \ {"eof"}) : StartLexing(source)) /\ [][NextItem]_lexer

-----------------------------------------------------------------------------
\* A comment from l to r: its marks right inside the delimiters, or inside a
\* trim marker, and its end the first there is.
Comment(l, r) ==
  /\ At(l) = LeftDelim /\ At(r) = RightDelim
  /\ \E o \in {l + 1, l + 3}, c \in {r - 1, r - 3} :
       /\ o < c /\ At(o) = "/*" /\ At(c) = "*/" /\ \A q \in o + 1 .. c - 1 : At(q) # "*/"
       /\ o = l + 3 => HasLeftTrimMarker(l + 1)
       /\ c = r - 3 => HasRightTrimMarker(c + 1)

\* What a left delimiter at l and a right delimiter at r + 2 trim, and their markers.
AllSpaces(from, to) == \A q \in from .. to : At(q) \in Spaces
TrimsLeft(l, p)  == At(l) = LeftDelim /\ HasLeftTrimMarker(l + 1) /\ (p \in l + 1 .. l + 2 \/ (p < l /\ AllSpaces(p, l - 1)))
TrimsRight(r, p) == HasRightTrimMarker(r) /\ At(r + 2) = RightDelim /\ (p \in r .. r + 1 \/ (p > r + 2 /\ AllSpaces(r + 3, p)))

\* What the lexer may drop of the source between two items.
MayGo(p, from, to) ==
  \/ \E l \in from .. p, r \in p .. to - 1 : Comment(l, r)
  \/ \E d \in 1 .. Len(input) : TrimsLeft(d, p) \/ TrimsRight(d, p)

\* Between two items go only comments, trim markers and the spaces these trim:
\* no text is lost, and no space without a marker.
DropsOnlyMarked ==
  \A i \in 1 .. Len(items) :
    LET from == IF i = 1 THEN 1 ELSE items[i - 1].to
    IN  \A p \in from .. items[i].from - 1 : MayGo(p, from, items[i].from)

\* The lexer has counted every newline it has passed, and an item has the line
\* the lexer is on at its end.  That is the line it starts on if no newline is
\* in it; for a text, spaces or a raw string with newlines it is a later one,
\* though the comment at lex.go:19 says "at the start of this item".  For the
\* text after the last action and the end, the code counts no newlines.
LinesAreRight ==
  /\ ~Ended /\ (items = <<>> \/ items[Len(items)].typ # "text" \/ pos <= Len(input)) =>
       line = 1 + Newlines(1, pos)
  /\ \A i \in 1 .. Len(items) :
       items[i].typ \notin {"EOF", "error"} /\ ~(items[i].typ = "text" /\ items[i].to > Len(input)) =>
         items[i].line = 1 + Newlines(1, items[i].to)

\* What the parser gets is the source: nothing lost but what is marked for it,
\* and each item with the line at its end (lex.go lexText, lexRightDelim).
ItemsAreFaithful == DropsOnlyMarked /\ LinesAreRight
=============================================================================
