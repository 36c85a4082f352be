------------------------------ MODULE ArgParser ------------------------------
(* carg and parseArgs: the arguments after a trigger, by their types        *)
(* (funcs/args.go, yagstd/parseduration.go, the lookups of                  *)
(* runtime/engine.go and roles.go).                                         *)
(*                                                                          *)
(* A value is [kind, v].  A definition is [type, min, max].  What a test    *)
(* declares of the server is a record [members, channels, threads, roles],  *)
(* roles in their order, each [id, name].  What an error says is left out.  *)
EXTENDS Submission

CONSTANTS
  MaxInt,           \* the largest whole number; the smallest is -MaxInt - 1
  Units             \* how long a second, minute, hour, day, week, month and year are

NoValue(why)     == [error |-> why, kind |-> "none", v |-> 0]
Value(kind, v)   == [error |-> "", kind |-> kind, v |-> v]
NotGiven      == NoValue("")

-----------------------------------------------------------------------------
(* Numbers and durations.                                                   *)
Digits  == <<"1", "2", "3", "4", "5", "6", "7", "8", "9">>
Digit   == Range(Digits) \cup {"0"}
DigitOf(c) == IF c = "0" THEN 0 ELSE CHOOSE n \in DOMAIN Digits : Digits[n] = c

\* The number digits make, as far as a number may go.
NumberOf(digits) ==
  FoldLeft(LAMBDA n, c : IF n > MaxInt THEN n ELSE 10 * n + DigitOf(c), 0, digits)

Unsigned(text) == IF text # <<>> /\ Head(text) \in {"-", "+"} THEN Tail(text) ELSE text
IsNumeral(digits) == digits # <<>> /\ Range(digits) \subseteq Digit
AsInt(n) == IF n \in (-MaxInt - 1) .. MaxInt THEN Value("int", n) ELSE NoValue("not a number")

\* ParseInt
ParseInt(text) ==
  IF IsNumeral(Unsigned(text)) THEN AsInt(NumberOf(Unsigned(text)) * (IF Head(text) = "-" THEN -1 ELSE 1))
  ELSE NoValue("not a number")

\* A number as it is written, without the zeros before it.
NumberText(text) ==
  LET digits == SelectSeq(text, LAMBDA c : c \in Digit)
      from   == SelectInSeq(digits, LAMBDA c : c # "0")
  IN  IF from = 0 THEN <<"0">>
      ELSE (IF Head(text) = "-" THEN <<"-">> ELSE <<>>) \o SubSeq(digits, from, Len(digits))

\* ParseFloat, of whole numbers and of what is not a number.
NaN == <<"n", "a", "n">>
ParseFloat(text) == IF text = NaN THEN Value("nan", 0) ELSE ParseInt(text)

\* A duration is as wide as a number; what is beyond comes back at the other end.
Wrapped(n) == ((n + MaxInt + 1) % (2 * (MaxInt + 1))) - (MaxInt + 1)

\* A plausible slip: months are minutes.
UnitMinuteFirst(modifier) ==
  LET at(i) == IF i <= Len(modifier) THEN modifier[i] ELSE "none"
  IN  CASE at(1) \in {"none", "m"} -> "m"
        [] at(1) \in {"s", "h", "d", "w", "y"} -> at(1)
        [] OTHER -> "unknown"

\* The unit a modifier begins like; a bare number is minutes.
UnitOf(modifier) ==
  LET at(i) == IF i <= Len(modifier) THEN modifier[i] ELSE "none"
  IN  CASE at(1) = "m" /\ at(2) = "o" -> "mo"
        [] at(1) = "none" \/ (at(1) = "m" /\ at(2) # "o") -> "m"
        [] at(1) \in {"s", "h", "d", "w", "y"} -> at(1)
        [] OTHER -> "unknown"

Lasts(n, unit) ==
  IF n.error = "" /\ unit # "unknown" THEN Value("duration", Wrapped(n.v * Units[unit])) ELSE NoValue("not a duration")

\* parseDurationComponent
ParseDurationComponent(num, modifier) == Lasts(ParseInt(num), UnitOf(modifier))

\* A component is read when the next one begins, and at the end if it has a number.
After(s, d) ==
  [num |-> <<>>, modifier |-> <<>>, dur |-> Wrapped(s.dur + d.v), ok |-> s.ok /\ d.error = ""]
Component(s, num) == After(s, ParseDurationComponent(num, s.modifier))

DurationChar(s, c) ==
  CASE c = Space -> s
    [] c \in Digit /\ s.modifier = <<>> -> [s EXCEPT !.num = Append(@, c)]
    [] c \in Digit /\ s.modifier # <<>> -> [Component(s, IF s.num = <<>> THEN <<"1">> ELSE s.num) EXCEPT !.num = <<c>>]
    [] OTHER -> [s EXCEPT !.modifier = Append(@, c)]

LastRead(s)    == IF s.num = <<>> THEN s ELSE Component(s, s.num)
Duration(s) == IF s.ok THEN Value("duration", s.dur) ELSE NoValue("not a duration")

\* ParseDuration: a modifier without a number at the end counts for nothing.
ParseDuration(text) ==
  Duration(LastRead(FoldLeft(DurationChar, [num |-> <<>>, modifier |-> <<>>, dur |-> 0, ok |-> TRUE], text)))

-----------------------------------------------------------------------------
(* Lookups.  Where a test declares none of something, any of it is there.   *)

\* isMember
IsMember(server, id) == id = server.user \/ server.members = {} \/ id \in server.members

\* userArg gives 0 back as it is; getMember.
UserArg(server, id) ==
  CASE id = 0 -> Value("int", 0)
    [] id # 0 /\ IsMember(server, id) -> Value("user", id)
    [] OTHER -> NoValue("no user")
GetMember(server, id) == IF id # 0 /\ IsMember(server, id) THEN Value("member", id) ELSE NoValue("no member")

\* getChannel finds no thread.
GetChannel(server, id) ==
  LET declared == server.channels \cup server.threads # {}
  IN  IF id # 0 /\ id \notin server.threads /\ (declared => id \in server.channels) THEN Value("channel", id)
      ELSE NoValue("no channel")

\* roleArg: the first role with the ID or with the name; @everyone, which is the server,
\* is the only one where none is declared.
RoleArg(server, id, name) ==
  LET roles == IF server.roles = <<>> THEN <<[id |-> server.id, name |-> <<"everyone">>]>> ELSE server.roles
      at    == SelectInSeq(roles, LAMBDA r : r.id = id \/ r.name = name)
  IN  CASE at # 0 -> Value("role", roles[at].id)
        [] at = 0 /\ server.roles = <<>> /\ id # 0 -> Value("role", id)
        [] OTHER -> NoValue("no role")

-----------------------------------------------------------------------------
(* Arguments.                                                               *)
ArgTypes == {"int", "duration", "float", "string", "user", "userid", "channel", "member", "role"}

\* Carg: the bounds are for what has an order.
Carg(type, opts) ==
  LET bounded == type \in {"int", "duration", "float"} /\ Len(opts) >= 2
  IN  [type |-> IF type \in ArgTypes THEN type ELSE "unknown",
       min |-> IF bounded THEN opts[1] ELSE 0, max |-> IF bounded THEN opts[2] ELSE 0]

\* A text after a mark of two or more characters, without its last one, which nobody
\* looks at; all of another text.
Inside(mark, text) ==
  IF IsPrefix(mark, text) /\ Len(text) > 3 THEN SubSeq(text, Len(mark) + 1, Len(text) - 1) ELSE text

WithoutMark(text, c) == IF text # <<>> /\ Head(text) = c THEN Tail(text) ELSE text

UserMark == <<"<", "@">>
ParseUserID(text) ==
  IF Inside(UserMark, text) = text THEN ParseInt(text) ELSE ParseInt(WithoutMark(Inside(UserMark, text), "!"))

RoleWithID(server, id, number) == RoleArg(server, id, NumberText(number))

\* A plausible slip: a role is found by an ID that is written as such only.
ParseRoleButMentions(server, text) ==
  IF ParseInt(text).error = "" THEN RoleWithID(server, ParseInt(text).v, text) ELSE RoleArg(server, 0, text)

\* extractRoleID, and the lookup; a mention that has no number ends the process.
RoleMark == <<"<", "@", "&">>
ParseRole(server, text) ==
  CASE ParseInt(Inside(RoleMark, text)).error = "" ->
         RoleWithID(server, ParseInt(Inside(RoleMark, text)).v, Inside(RoleMark, text))
    [] ParseInt(Inside(RoleMark, text)).error # "" ->
         IF Inside(RoleMark, text) = text THEN RoleArg(server, 0, text) ELSE NoValue("crash")

\* A bound of 0 is none where it is one of a duration, two of them are where it is another.
Within(def, value) ==
  CASE value.kind \in {"nan", "none"} -> TRUE
    [] value.kind = "duration" -> /\ def.min # 0 => value.v >= def.min
                                  /\ def.max # 0 => value.v <= def.max
    [] OTHER -> def.min # 0 \/ def.max # 0 => value.v \in def.min .. def.max

Bounded(def, value) == IF Within(def, value) THEN value ELSE NoValue("out of range")

LookedUp(server, type, id) ==
  CASE id.error # "" \/ type = "userid" -> id
    [] id.error = "" /\ type = "user"    -> UserArg(server, id.v)
    [] id.error = "" /\ type = "member"  -> GetMember(server, id.v)
    [] id.error = "" /\ type = "channel" -> GetChannel(server, id.v)

\* parseArg
ParseArg(server, def, part) ==
  CASE def.type = "int"      -> Bounded(def, ParseInt(part))
    [] def.type = "float"    -> Bounded(def, ParseFloat(part))
    [] def.type = "duration" -> Bounded(def, ParseDuration(part))
    [] def.type = "string"   -> Value("string", part)
    [] def.type \in {"userid", "user", "member"} -> LookedUp(server, def.type, ParseUserID(part))
    [] def.type = "channel"  -> LookedUp(server, "channel", ParseInt(Inside(<<"<", "#">>, part)))
    [] def.type = "role"     -> ParseRole(server, part)
    [] OTHER                 -> NoValue("unknown type")

\* A plausible slip: the last definition takes one argument.
PartAlone(split, i, last) == split[i].str

\* What a definition gets: an argument, or the last one the rest as it was quoted.
Part(split, i, last) ==
  LET rest == SubSeq(split, i, Len(split))
      mark(arg) == IF arg.container = Unset THEN <<>> ELSE <<arg.container>>
      again == [j \in DOMAIN rest |-> (IF j = 1 THEN <<>> ELSE <<Space>>) \o mark(rest[j]) \o rest[j].str \o mark(rest[j])]
  IN  IF last /\ Len(rest) > 1 THEN FlattenSeq(again) ELSE split[i].str

\* The values up to the first that is missing or wrong.
Parsed(values, wrong) ==
  IF wrong = 0 THEN [error |-> "", values |-> values]
  ELSE [error |-> values[wrong].error, values |-> [i \in DOMAIN values |-> IF i < wrong THEN values[i] ELSE NotGiven]]

FirstWrong(values) == SelectInSeq(values, LAMBDA v : v.error # "")
Checked(values) == Parsed(values, FirstWrong(values))

ParseSplit(server, split, required, defs) ==
  Checked([i \in DOMAIN defs |->
             CASE i <= Len(split) -> ParseArg(server, defs[i], Part(split, i, i = Len(defs)))
               [] i > Len(split) /\ i <= required -> NoValue("not enough")
               [] OTHER -> NotGiven])

\* ParseArgs
ParseArgs(server, stripped, required, defs) == ParseSplit(server, SplitArgs(stripped), required, defs)

\* Engine.parseArgs: only a message has arguments.
EngineParseArgs(server, ctx, required, defs) ==
  IF ctx.triggered THEN ParseArgs(server, ctx.stripped, required, defs) ELSE [error |-> "", values |-> <<>>]

\* Get, from 0, and IsSet
Get(parsed, index) == IF index + 1 \in DOMAIN parsed.values THEN parsed.values[index + 1] ELSE NotGiven
IsSet(parsed, index) == Get(parsed, index).kind # "none"
=============================================================================
