---------------------------- MODULE TriggerMatch ----------------------------
(* Triggers and the messages that match them (runtime/trigger.go), and how  *)
(* a message is cut into arguments and put together from them               *)
(* (funcs/args.go).                                                         *)
(*                                                                          *)
(* A text is a sequence of characters, each named by a string: a letter, or *)
(* one of those below.  A regular expression is reduced to the literal it   *)
(* looks for.                                                               *)
EXTENDS Naturals, Sequences, SequencesExt, FiniteSetsExt

Space     == "space"
Quote     == "quote"
Tick      == "tick"
Backslash == "backslash"
Mention   == "mention"      \* the bot's mention, a word of its own
Unset     == "unset"

ArgContainers == {Quote, Tick}

-----------------------------------------------------------------------------
(* Arguments.                                                               *)

\* One argument, and the mark it was quoted with.
RawArg(str, container) == [str |-> str, container |-> container]

SplitStart == [args |-> <<>>, buf |-> <<>>, escape |-> FALSE, container |-> Unset]

\* One character of the message.
SplitChar(s, c) ==
  LET kept(text) == [s EXCEPT !.buf = @ \o text, !.escape = FALSE]
      cut        == [s EXCEPT !.args = Append(@, RawArg(s.buf, s.container)), !.buf = <<>>, !.escape = FALSE]
  IN  CASE c = Backslash -> IF s.escape THEN kept(<<Backslash>>) ELSE [s EXCEPT !.escape = TRUE]
        [] c = Space /\ s.buf = <<>> -> kept(<<>>)
        [] c = Space /\ s.buf # <<>> ->
             IF s.container = Unset /\ ~s.escape THEN cut ELSE kept(<<Space>>)
        [] c \in ArgContainers /\ c = s.container ->
             IF s.escape THEN kept(<<c>>) ELSE [cut EXCEPT !.container = Unset]
        [] c \in ArgContainers /\ s.container = Unset /\ s.buf = <<>> ->
             IF s.escape THEN kept(<<c>>) ELSE [s EXCEPT !.container = c]
        [] OTHER -> kept((IF s.escape THEN <<Backslash>> ELSE <<>>) \o <<c>>)

\* SplitArgs: what is left in the buffer, an unfinished quote with its mark, is
\* the last argument.
SplitArgs(msg) ==
  LET end == FoldLeft(SplitChar, SplitStart, msg)
      left == (IF end.container = Unset THEN <<>> ELSE <<end.container>>) \o end.buf
  IN  IF end.buf = <<>> THEN end.args ELSE Append(end.args, RawArg(left, Unset))

\* What a template gets of them.
Strs(rawArgs) == [i \in DOMAIN rawArgs |-> rawArgs[i].str]

\* A plausible slip: an argument is quoted for the spaces and quotes in it only.
QuotedSpacesOnly(arg) ==
  IF arg # <<>> /\ Range(arg) \cap {Space, Quote} = {} THEN arg
  ELSE <<Quote>> \o
       FlattenSeq([i \in DOMAIN arg |->
                     IF arg[i] \in {Backslash, Quote} THEN <<Backslash, arg[i]>> ELSE <<arg[i]>>])
       \o <<Quote>>

\* An argument as JoinArgs writes it.
Quoted(arg) ==
  IF arg # <<>> /\ Range(arg) \cap {Space, Backslash, Quote, Tick} = {} THEN arg
  ELSE <<Quote>> \o
       FlattenSeq([i \in DOMAIN arg |->
                     IF arg[i] \in {Backslash, Quote} THEN <<Backslash, arg[i]>> ELSE <<arg[i]>>])
       \o <<Quote>>

\* JoinArgs
JoinArgs(args) ==
  FlattenSeq([i \in DOMAIN args |-> (IF i = 1 THEN <<>> ELSE <<Space>>) \o Quoted(args[i])])

-----------------------------------------------------------------------------
(* The kinds of trigger.                                                    *)
MessageTriggers == {"Command", "Starts with", "Contains", "Regex", "Exact match"}
IntervalTriggers == {"Hourly interval", "Minute interval"}

MessageTriggered(t)   == t.type \in MessageTriggers
Scheduled(t)          == t.type \in IntervalTriggers \cup {"Crontab"}
RoleTriggered(t)      == t.type = "Role Change"
ComponentTriggered(t) == t.type = "Message Component"
ModalTriggered(t)     == t.type = "Modal Submission"
SlashTriggered(t)     == t.type = "Slash Command"
ContextMenus          == {"User Context Menu", "Message Context Menu"}
IsContextMenu(t)      == t.type \in ContextMenus

\* disallowedExecCCType: the triggers whose commands execCC does not run.
DisallowedExecCCType(t) == Scheduled(t) \/ RoleTriggered(t)

-----------------------------------------------------------------------------
(* Matching.                                                                *)

\* Case folding, of the one capital there is.
Folded(c) == IF c = "A" THEN "a" ELSE c

Like(caseSensitive, a, b) ==
  IF caseSensitive THEN a = b
  ELSE Len(a) = Len(b) /\ \A i \in DOMAIN a : Folded(a[i]) = Folded(b[i])

NoMatch == [match |-> FALSE, cmd |-> <<>>, stripped |-> <<>>, args |-> <<>>]

\* matchRegexSplitArgs: the message up to and including the match is the
\* command, after it come the arguments.
MatchSplitArgs(msg, to) ==
  [match |-> TRUE, cmd |-> SubSeq(msg, 1, to), stripped |-> SubSeq(msg, to + 1, Len(msg)),
   args |-> Strs(SplitArgs(SubSeq(msg, to + 1, Len(msg))))]

\* The text found first in the message, beginning after one of the places.
FoundAt(t, msg, text, places) ==
  LET here == {i \in places : i + Len(text) <= Len(msg) /\
                              Like(t.caseSensitive, SubSeq(msg, i + 1, i + Len(text)), text)}
  IN  IF here = {} THEN NoMatch ELSE MatchSplitArgs(msg, Min(here) + Len(text))

\* A command is the prefix or the bot's mention, then the trigger, and the end
\* of the message or a space.
FoundCommand(prefix, t, msg) ==
  LET heads == {prefix, <<Mention>>, <<Mention, Space>>}
      found == {m \in {FoundAt(t, msg, h \o t.text, {0}) : h \in heads} : m.match /\ m.stripped = <<>>}
               \cup {m \in {FoundAt(t, msg, h \o t.text \o <<Space>>, {0}) : h \in heads} : m.match}
  IN  IF found = {} THEN NoMatch ELSE CHOOSE m \in found : TRUE

\* CheckMatch
CheckMatch(prefix, t, msg) ==
  CASE t.type = "Command"             -> FoundCommand(prefix, t, msg)
    [] t.type = "Starts with"         -> FoundAt(t, msg, t.text, {0})
    [] t.type \in {"Contains", "Regex"} -> FoundAt(t, msg, t.text, 0 .. Len(msg))
    [] t.type = "Exact match"         -> IF Len(msg) = Len(t.text) THEN FoundAt(t, msg, t.text, {0})
                                         ELSE NoMatch
    [] OTHER -> NoMatch

\* CheckMatchComponent
CheckMatchComponent(t, id) ==
  IF ComponentTriggered(t) THEN FoundAt(t, id, t.text, 0 .. Len(id)) ELSE NoMatch

\* CheckMatchModal
CheckMatchModal(t, id) ==
  IF ModalTriggered(t) THEN FoundAt(t, id, t.text, 0 .. Len(id)) ELSE NoMatch

\* TriggerMessage: the message that runs the command with the arguments.
TriggerMessage(prefix, t, args) ==
  (IF t.type = "Command" THEN prefix ELSE <<>>) \o t.text \o
  (IF args = <<>> THEN <<>> ELSE <<Space>> \o JoinArgs(args))
=============================================================================
