-------------------------- MODULE MCTemplateEngine ---------------------------
(* The instance of TemplateEngine that TLC checks: every sequence of at    *)
(* most MaxParts actions after a declaration, whole structures in and next *)
(* to each other, and every short sequence of characters at the places     *)
(* where they mean something.                                              *)
EXTENDS TemplateEngine

CONSTANTS MaxParts, MaxChars

Part(inside) == <<"{{">> \o inside \o <<"}}">>
Str(name) == <<"\"", name, "\"">>

\* What opens, parts and closes a list, so that every way to nest them occurs.
Openers ==
  {Part(<<"if", " ", "$", "x", ":", "=", ".", "x">>),
   Part(<<"with", " ", "$">>),
   Part(<<"range", " ", "$", "x", ":", "=", "2">>),
   Part(<<"range", " ", "$", ",", "$", " ", "=", " ", "$", ".", "x">>),
   Part(<<"while", " ", "lt", " ", "dbCount", " ", "1">>),
   Part(<<"while", " ", "lt", " ", "$", "x", " ", "1">>),
   Part(<<"try">>)}

Closers == {Part(<<"else">>), Part(<<"else", " ", "if", " ", "true">>), Part(<<"catch">>), Part(<<"end">>),
            Part(<<"else">>) \o Part(<<"break">>) \o Part(<<"end">>)}

Simple ==
  {Part(<<"$", "x", ":", "=", "1">>), Part(<<"$", "x", " ", "=", " ", "2">>), Part(<<"$", "x">>),
   Part(<<"break">>), Part(<<"continue">>), Part(<<"return", " ", "$", "x">>),
   Part(<<"len", " ", "(", "len", " ", ".", ")">>), Part(<<"(", "dbCount", ")">>)}

\* Whole structures, to stand in those.
Larger ==
  {Part(<<"define", " ">> \o Str("x")) \o Part(<<"return", " ", "$", ".", "x">>) \o Part(<<"end">>),
   Part(<<"block", " ">> \o Str("y") \o <<" ", "3">>) \o <<"x">> \o Part(<<"end">>),
   Part(<<"template", " ">> \o Str("x") \o <<" ", "(", "$", "x", ":", "=", ".", ")">>),
   Part(<<"execTemplate", " ">> \o Str("x") \o <<" ", ".", "|", "index", " ", "1">>),
   Part(<<"define", " ">> \o Str("x")) \o Part(<<"$", "x", ":", "=", "dbCount">>) \o Part(<<"end">>),
   Part(<<"range", " ", "2">>) \o Part(<<"if", " ", "execTemplate", " ">> \o Str("x")) \o Part(<<"end">>) \o Part(<<"end">>),
   Part(<<"try">>) \o Part(<<"$", "x", " ", "=", " ", "index", " ", "nil">>) \o Part(<<"catch">>) \o Part(<<".">>) \o Part(<<"end">>),
   Part(<<"joinStr", " ">> \o Str("x") \o <<" ">> \o Str("y") \o <<" ", "backquote", "y", "backquote", " ", "1", ".", "2">>),
   Part(<<"range", " ", "$", "y", ",", "$", "x", ":", "=", ".">>) \o Part(<<"$", "y">>) \o Part(<<"end">>),
   <<"{{", "-", " ", "/*", "*/", " ", "-", "}}", "nl">>,
   <<"nl", " ", "{{", "-", " ", ".", "x", " ", "-", "}}", "nl">>}

RECURSIVE Texts(_, _)
Texts(n, parts) == IF n = 0 THEN {<<>>} ELSE Texts(n - 1, parts) \cup {s \o p : s \in Texts(n - 1, parts), p \in parts}

\* What is minified: pieces that print or do not, with whitespace around each,
\* in each other and after a header or a template that may print, call or send.
Nl == <<"nl">>
Call(name) == Part(<<"template", " ">> \o Str(name))
Piece ==
  {<<"x">>, Part(<<".", "x">>), Part(<<"deleteResponse">>), Part(<<"$", "x", " ", "=", "nil", ".", "x">>),
   Part(<<"$", "x", ".", "Del", " ">> \o Str("x")), Call("x"), Call("main"), Part(<<"return">>)}
Wrapped(inside) ==
  {Part(<<"if", " ", ".", "x">>) \o inside \o Part(<<"else">>) \o Nl \o Part(<<"end">>),
   Part(<<"range", " ", "2">>) \o inside \o Part(<<"end">>),
   Part(<<"try">>) \o inside \o Part(<<"len">>) \o Part(<<"catch">>) \o inside \o Part(<<"end">>)}
WrappedPieces == UNION {Wrapped(Nl \o p \o Nl) : p \in Piece}
Defined(list) == Part(<<"define", " ">> \o Str("x")) \o list \o Part(<<"end">>)
Lead ==
  {<<"x">>, Defined(Nl), Defined(<<"nl", "x", "nl">>), Defined(Nl \o Call("main") \o Nl),
   Defined(Part(<<"if", " ", "sendTemplateDM", " ">> \o Str("x")) \o Nl \o Part(<<"end">>)),
   <<"{{", "-", " ", "/*", "*/", "}}">>, Part(<<"$", "x", ":", "=", "sdict">>)}

MinifierSources ==
  {l \o Nl \o p \o Nl \o q \o Nl : l \in Lead, p \in Piece \cup WrappedPieces, q \in Piece \cup Wrapped(<<"x">>)}

Chars == {"x", "if", "true", "1", " ", "nl", "$", ".", "=", ":", "|", "(", ")", "-", "!", "\"", "\\", "'",
          "backquote", "/*", "*/", "{{", "}}", "unprintable"}

MCSources ==
  MinifierSources \cup
  {before \o l \o after : before \in {<<>>} \cup Openers \cup Simple \cup Larger, l \in Larger,
                         after \in {<<>>} \cup Closers \cup Simple \cup Larger} \cup
  {Part(<<"$", "x", ":", "=", "1">>) \o s : s \in Texts(MaxParts, Openers \cup Closers \cup Simple)} \cup
  {pre \o s : pre \in {<<>>, <<"{{">>, <<"nl", "{{", "-", "nl", "$">>}, s \in Texts(MaxChars, {<<c>> : c \in Chars})}

\* All words but x and y are longer than a letter.
MCWide == (AlphaNumeric \ (Digits \cup {"x", "y"})) \cup {LeftDelim, RightDelim, "/*", "*/"}

MCShortNames == <<"y", "x", "len", "lt", "index">>

MCFresh == <<"n1", "n2", "n3", "n4", "n5", "n6", "n7", "n8", "n9">>
=============================================================================
