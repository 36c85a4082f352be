---------------------------- MODULE TemplateExec -----------------------------
(* How the template engine runs the trees of the parser                    *)
(* (yagtemplate/exec.go), with some functions of every template            *)
(* (funcs.go, yagstd/containers.go).  A run is a record that each operator *)
(* takes on; panics and the signals of break, continue and return are its  *)
(* field "signal", and nothing goes on in a run that has one.              *)
EXTENDS TemplateParser, Integers, FiniteSets, SequencesExt

CONSTANTS
  MaxOps,              \* operations before the limit is told (1,000,000)
  HardStop,            \* how often that many before the run is stopped (10)
  MaxDepth,            \* templates in templates (100,000)
  MaxString            \* the longest string (1,000,000)

ASSUME ExecAssumption ==
  /\ MaxOps \in Nat \ {0} /\ HardStop \in Nat \ {0}
  /\ MaxDepth \in Nat /\ MaxString \in Nat \ {0}

-----------------------------------------------------------------------------
\* Values.  An invalid value is what a missing key and a function without a
\* result give; Missing is no value at all.
Num(n)    == [kind |-> "int", int |-> n]
Text(s)   == [kind |-> "string", chars |-> s]
Bool(b)   == [kind |-> "bool", is |-> b]
List(seq) == [kind |-> "list", of |-> seq]
Dict(f)   == [kind |-> "dict", entries |-> f]
StringDict == [kind |-> "sdict"]   \* one without entries
Invalid   == [kind |-> "invalid"]
Missing   == [kind |-> "missing"]
AnError   == [kind |-> "error"]

\* idealConstant: an int, or a float when there is a point in it.  A character
\* is an int, the same for all.
Constant(text) ==
  LET digits == SelectSeq(text, LAMBDA c : c \in {"0", "1", "2", "3"})
      digit  == [c \in {"0", "1", "2", "3"} |-> CHOOSE n \in 0 .. 3 : <<"0", "1", "2", "3">>[n + 1] = c]
      n      == FoldLeft(LAMBDA acc, c : 10 * acc + digit[c], 0, digits)
  IN  IF text[1] = "'" THEN Num(97)
      ELSE IF Contains(text, ".") THEN [kind |-> "float", float |-> text, zero |-> n = 0]
      ELSE Num(IF text[1] = "-" THEN -n ELSE n)

IsTrue(val) ==
  CASE val.kind = "invalid" -> FALSE
    [] val.kind = "int" -> val.int # 0
    [] val.kind = "float" -> ~val.zero
    [] val.kind = "bool" -> val.is
    [] val.kind = "string" -> val.chars # <<>>
    [] val.kind = "list" -> val.of # <<>>
    [] val.kind = "dict" -> DOMAIN val.entries # {}
    [] val.kind = "sdict" -> FALSE
    [] OTHER -> TRUE

TooLong(val) == val.kind = "string" /\ Len(val.chars) > MaxString

-----------------------------------------------------------------------------
\* A run: the state of the walk, what it has printed, the last value, the
\* value returned, the calls of the database, and what inTry told the context
\* at the last call.
Run(templates, dot) ==
  [templates |-> templates, vars |-> <<[name |-> "$", val |-> dot]>>, depth |-> 0, try |-> 0,
   ops |-> 0, told |-> 0, dbCalls |-> 0, inTry |-> FALSE,
   out |-> <<>>, val |-> Invalid, ret |-> Invalid, signal |-> "none"]

Signals == {"none", "break", "continue", "return", "failed", "thrown", "crashed"}

Going(s) == s.signal = "none"
Failed(s) == IF Going(s) THEN [s EXCEPT !.signal = "failed"] ELSE s
With(s, val) == [s EXCEPT !.val = val]
PoppedTo(s, mark) == [s EXCEPT !.vars = SubSeq(@, 1, mark)]

\* incrOPs: past the limit the run goes on, once told, up to the hard stop.
Spend(s, n) ==
  LET ops == s.ops + n
  IN  CASE ~Going(s) -> s
        [] Going(s) /\ ops <= MaxOps -> [s EXCEPT !.ops = ops]
        [] Going(s) /\ ops > MaxOps /\ ops <= HardStop * MaxOps -> [s EXCEPT !.ops = ops, !.told = 1]
        [] OTHER -> Failed([s EXCEPT !.ops = ops])

\* varValue, setVar: the last variable of this name.
LastVar(s, name) == SelectLastInSeq(s.vars, LAMBDA v : v.name = name)

VarValue(s, name) ==
  IF LastVar(s, name) = 0 THEN Failed(s) ELSE With(s, s.vars[LastVar(s, name)].val)

\* A plausible slip: the first variable of this name is set.
SetFirstVar(s, name) ==
  LET first == SelectInSeq(s.vars, LAMBDA v : v.name = name)
  IN  IF first = 0 THEN Failed(s) ELSE [s EXCEPT !.vars[first].val = s.val]

SetVar(s, name) ==
  IF LastVar(s, name) = 0 THEN Failed(s)
  ELSE [s EXCEPT !.vars[LastVar(s, name)].val = s.val]

\* setTopVar: the n-th variable from the top, whatever its name.
SetTopVar(s, n, val) ==
  CASE ~Going(s) -> s
    [] Going(s) /\ n <= Len(s.vars) -> [s EXCEPT !.vars[Len(s.vars) - n + 1].val = val]
    [] OTHER -> [s EXCEPT !.signal = "crashed"]

-----------------------------------------------------------------------------
\* The functions that ask the database, of which the model has one; it counts nothing.
DatabaseFunctions == {"dbCount"}

\* The functions of the model: how many arguments come first, how many may follow.
Fixed(f) ==
  CASE f \in {"lt", "le", "gt", "ge"} -> 2
    [] f \in {"sdict", "deleteResponse", "sendTemplateDM"} \cup DatabaseFunctions -> 0
    [] OTHER -> 1
Variadic == {"and", "or", "eq", "ne", "index", "joinStr", "execTemplate", "sdict", "deleteResponse", "sendTemplateDM"} \cup DatabaseFunctions
ParamType(f, i) == IF f \in {"joinStr", "execTemplate", "Del"} /\ i = 1 THEN "string" ELSE "any"

\* The methods of an sdict the model has, which do nothing to an empty one.
Methods == {"Del"}

Ok(val) == [val |-> val, err |-> "none"]
Err(err) == [val |-> Invalid, err |-> err]

Comparable == {"int", "float", "bool", "string"}

\* eq: some of the others equals the first; a kind that differs is an error.
Equal(args) ==
  LET stop == {i \in 2 .. Len(args) : args[i].kind # args[1].kind \/ args[i] = args[1]}
      first == CHOOSE i \in stop : \A j \in stop : i <= j
  IN  CASE args[1].kind \notin Comparable \/ Len(args) = 1 -> Err("error")
        [] args[1].kind \in Comparable /\ Len(args) > 1 /\ stop = {} -> Ok(Bool(FALSE))
        [] OTHER -> IF args[first].kind = args[1].kind THEN Ok(Bool(TRUE)) ELSE Err("error")

\* lt, over integers.
Less(args) ==
  IF args[1].kind # "int" \/ args[2].kind # "int" THEN Err("error")
  ELSE Ok(Bool(args[1].int < args[2].int))

Negated(result) == IF result.err = "none" THEN Ok(Bool(~result.val.is)) ELSE result

\* le: less, or equal.
LessOrEqual(args) ==
  IF Less(args).err = "none" /\ Less(args).val.is THEN Less(args)
  ELSE IF Less(args).err # "none" THEN Less(args) ELSE Equal(args)

\* and, or: the first argument that decides, else the last.
FirstThat(args, truth) ==
  LET at == SelectInSeq(args, LAMBDA a : IsTrue(a) = truth)
  IN  Ok(args[IF at = 0 THEN Len(args) ELSE at])

Length(val) ==
  CASE val.kind = "string" -> Ok(Num(Len(val.chars)))
    [] val.kind = "list" -> Ok(Num(Len(val.of)))
    [] val.kind = "dict" -> Ok(Num(Cardinality(DOMAIN val.entries)))
    [] val.kind = "sdict" -> Ok(Num(0))
    [] OTHER -> Err("error")

\* index, of a list by positions from 0.
Index(args) ==
  FoldLeft(LAMBDA item, i :
             CASE item.err # "none" -> item
               [] item.err = "none" /\ item.val.kind = "list" /\ i.kind = "int" ->
                    IF i.int \in 0 .. Len(item.val.of) - 1 THEN Ok(item.val.of[i.int + 1]) ELSE Err("error")
               [] OTHER -> Err("error"),
           IF args[1] = Invalid THEN Err("error") ELSE Ok(args[1]), Tail(args))

\* joinStr: the strings after the first; what is too long is an error.
JoinStr(args) ==
  LET pieces == [i \in 1 .. Len(args) - 1 |-> IF args[i + 1].kind = "string" THEN args[i + 1].chars ELSE <<"?">>]
      joined == FoldLeft(LAMBDA acc, piece : IF acc = <<>> THEN piece ELSE acc \o args[1].chars \o piece, <<>>, pieces)
  IN  IF Len(joined) > MaxString THEN Err("error") ELSE Ok(Text(joined))

\* sdict: an empty one, or the one it is given.  No template of the model
\* gives it keys and values, or another dict.
StringKeyDictionary(args) ==
  CASE args = <<>> -> Ok(StringDict)
    [] Len(args) = 1 /\ args[1].kind = "sdict" -> Ok(args[1])
    [] OTHER -> Err("error")

Apply(f, args) ==
  CASE f = "and" -> FirstThat(args, FALSE)
    [] f = "or" -> FirstThat(args, TRUE)
    [] f = "not" -> Ok(Bool(~IsTrue(args[1])))
    [] f = "eq" -> Equal(args)
    [] f = "ne" -> Negated(Equal(args))
    [] f = "lt" -> Less(args)
    [] f = "le" -> LessOrEqual(args)
    [] f = "gt" -> Negated(LessOrEqual(args))
    [] f = "ge" -> Negated(Less(args))
    [] f = "len" -> Length(args[1])
    [] f = "index" -> Index(args)
    [] f = "joinStr" -> JoinStr(args)
    [] f = "sdict" -> StringKeyDictionary(args)
    [] f \in DatabaseFunctions -> Ok(Num(0))
    [] f \in {"deleteResponse", "sendTemplateDM"} \cup Methods -> Ok(Text(<<>>))

-----------------------------------------------------------------------------
RECURSIVE EvalPipeline(_, _, _), EvalCommand(_, _, _, _), EvalArgs(_, _, _, _, _),
          EvalFields(_, _, _, _, _), EvalCall(_, _, _, _, _), Walk(_, _, _), WalkList(_, _, _),
          Iterate(_, _, _, _), WalkWhile(_, _, _, _)

\* validateType
Validate(s, type) ==
  IF Going(s) /\ type = "string" /\ s.val.kind # "string" THEN Failed(s) ELSE s

\* evalField: an entry of a dict, and nothing else of the model's values; a
\* method without the arguments it needs is an error.
EvalField(s, name) ==
  CASE ~Going(s) \/ s.val = Invalid -> s
    [] Going(s) /\ s.val.kind = "dict" ->
         With(s, IF name \in DOMAIN s.val.entries THEN s.val.entries[name] ELSE Invalid)
    [] Going(s) /\ s.val.kind = "sdict" /\ name \notin Methods -> With(s, Invalid)
    [] OTHER -> Failed(s)

\* evalFieldChain: the last field gets the arguments, if it is a method.
EvalFields(s, dot, fields, args, final) ==
  LET last == FoldLeft(EvalField, s, Front(fields))
      hasArgs == args # <<>> \/ final # Missing
  IN  CASE Going(last) /\ last.val.kind = "sdict" /\ Last(fields) \in Methods ->
             EvalCall(last, dot, Last(fields), args, final)
        [] Going(last) /\ hasArgs /\ last.val.kind \in {"dict", "sdict"} -> Failed(last)
        [] OTHER -> EvalField(last, Last(fields))

Literal(node) ==
  CASE node.kind = "bool" -> Bool(node.name = "true")
    [] node.kind = "string" -> Text(node.name)
    [] node.kind = "number" -> Constant(node.name)
    [] OTHER -> Invalid

\* evalArg
EvalArg(s, dot, type, node) ==
  CASE node.kind = "." -> Validate(With(s, dot), type)
    [] node.kind \in {"bool", "string", "number", "nil"} -> Validate(With(s, Literal(node)), type)
    [] OTHER -> Validate(EvalCommand(s, dot, <<node>>, Missing), type)

\* evalCommand: what the first word is decides; only a function has arguments.
EvalCommand(s, dot, args, final) ==
  LET first == args[1]
      hasArgs == Len(args) > 1 \/ final # Missing
      base == VarValue(s, first.name)
  IN  CASE ~Going(s) -> s
        [] Going(s) /\ first.kind = "function" -> EvalCall(s, dot, first.name, Tail(args), final)
        [] Going(s) /\ first.kind = "field" -> EvalFields(With(s, dot), dot, first.fields, Tail(args), final)
        [] Going(s) /\ first.kind = "chain" -> EvalFields(EvalArg(s, dot, "any", first.node), dot, first.fields, Tail(args), final)
        [] Going(s) /\ first.kind = "variable" ->
             CASE ~Going(base) -> base
               [] Going(base) /\ first.fields # <<>> -> EvalFields(base, dot, first.fields, Tail(args), final)
               [] OTHER -> IF hasArgs THEN Failed(base) ELSE base
        [] Going(s) /\ first.kind = "pipe" -> IF hasArgs THEN Failed(s) ELSE EvalPipeline(s, dot, first.pipe)
        [] Going(s) /\ first.kind = "." -> IF hasArgs THEN Failed(s) ELSE With(s, dot)
        [] OTHER -> IF hasArgs \/ first.kind = "nil" THEN Failed(s) ELSE With(s, Literal(first))

\* The arguments in order, each in the run the one before it left behind.
EvalArgs(s, dot, f, args, vals) ==
  LET one == EvalArg(s, dot, ParamType(f, Len(vals) + 1), Head(args))
  IN  IF ~Going(s) \/ args = <<>> THEN [s |-> s, vals |-> vals]
      ELSE EvalArgs(one, dot, f, Tail(args), Append(vals, one.val))

\* callExecTemplate, walkTemplate: a template with variables of its own.
InTemplate(s, name, dot) ==
  LET same  == {i \in DOMAIN s.templates : s.templates[i].name = name}
      inner == WalkList([s EXCEPT !.vars = <<[name |-> "$", val |-> dot]>>, !.depth = @ + 1],
                        dot, s.templates[CHOOSE i \in same : TRUE].list)
  IN  IF ~Going(s) \/ same = {} \/ s.depth = MaxDepth THEN Failed(s)
      ELSE [inner EXCEPT !.vars = s.vars, !.depth = s.depth, !.try = s.try,
                         !.val = IF inner.signal = "return" THEN inner.ret ELSE Invalid,
                         !.ret = s.ret,
                         !.signal = IF @ \in {"failed", "thrown", "crashed"} THEN @ ELSE "none"]

\* evalCall.  An error is caught by a try, if there is one and it may.
EvalCall(s, dot, f, args, final) ==
  LET given  == Len(args) + IF final = Missing THEN 0 ELSE 1
      wrong  == IF f \in Variadic THEN given < Fixed(f) ELSE given # Fixed(f)
      before == EvalArgs(Spend(s, 10), dot, f, args, <<>>)
      all    == IF final = Missing THEN before
                ELSE [s |-> Validate(With(before.s, final), ParamType(f, given)), vals |-> Append(before.vals, final)]
      asked  == IF f \in DatabaseFunctions THEN 1 ELSE 0
      called == [all.s EXCEPT !.inTry = all.s.try > 0, !.dbCalls = @ + asked]
      result == Apply(f, all.vals)
      known  == Spend(all.s, 100)
  IN  CASE wrong -> Failed(Spend(s, 10))
        [] ~wrong /\ ~Going(all.s) -> all.s
        [] ~wrong /\ Going(all.s) /\ f = "execTemplate" ->
             IF Len(all.vals) > 2 THEN Failed(known)
             ELSE InTemplate(known, all.vals[1].chars, IF Len(all.vals) = 2 THEN all.vals[2] ELSE Invalid)
        [] OTHER ->
             CASE result.err = "none" -> IF TooLong(result.val) THEN Failed(called) ELSE With(called, result.val)
               [] result.err = "error" /\ called.try > 0 -> [called EXCEPT !.signal = "thrown"]
               [] OTHER -> Failed(called)

\* evalPipeline: each command gets the value of the one before it; then the
\* variables are declared or assigned.
EvalPipeline(s, dot, pipe) ==
  LET command(at, cmd) ==
        LET r == EvalCommand(at.s, dot, cmd, at.final)
        IN  [s |-> IF TooLong(r.val) THEN Failed(r) ELSE r, final |-> r.val]
      end == FoldLeft(command, [s |-> s, final |-> Missing], pipe.cmds).s
      declare(at, name) ==
        CASE ~Going(at) -> at
          [] Going(at) /\ pipe.assign -> SetVar(at, name)
          [] OTHER -> [at EXCEPT !.vars = Append(@, [name |-> name, val |-> end.val])]
  IN  IF pipe.cmds = <<>> THEN With(s, Invalid) ELSE FoldLeft(declare, end, pipe.decl)

-----------------------------------------------------------------------------
\* walkIfOrWith
WalkIfOrWith(s, dot, node) ==
  LET cond == EvalPipeline(s, dot, node.pipe)
      walked == CASE ~Going(cond) -> cond
                  [] Going(cond) /\ IsTrue(cond.val) ->
                       WalkList(cond, IF node.kind = "with" THEN cond.val ELSE dot, node.list)
                  [] OTHER -> IF node.elseList = NoList THEN cond ELSE WalkList(cond, dot, node.elseList)
  IN  PoppedTo(walked, Len(s.vars))

\* walkTry.  What its lists declare stays: the code pops to where it is.
WalkTry(s, dot, node) ==
  LET walked == WalkList([s EXCEPT !.try = @ + 1], dot, node.list)
      back   == [walked EXCEPT !.try = s.try]
  IN  IF walked.signal = "thrown"
      THEN WalkList([back EXCEPT !.signal = "none"], AnError, node.catchList)
      ELSE back

\* The end of a loop: a break ends with it, a continue has ended an iteration.
AfterLoop(s) == IF s.signal = "break" THEN [s EXCEPT !.signal = "none"] ELSE s
Continued(s) == IF s.signal = "continue" THEN [s EXCEPT !.signal = "none"] ELSE s

\* walkRange's iterations: each sets the top variables, and pops its own.
Iterate(s, node, elems, i) ==
  LET elem == elems[i].val
      names == Len(node.pipe.decl)
      set1 == IF names > 0 THEN SetTopVar(Spend(s, 1), 1, elem) ELSE Spend(s, 1)
      set2 == IF names > 1 THEN SetTopVar(set1, 2, elems[i].key) ELSE set1
      walked == PoppedTo(WalkList(set2, elem, node.list), Len(s.vars))
  IN  CASE ~Going(s) \/ i > Len(elems) -> s
        [] Going(s) /\ i <= Len(elems) /\ TooLong(elem) -> Failed(s)
        [] OTHER -> Iterate(Continued(walked), node, elems, i + 1)

WalkRange(s, dot, node) ==
  LET over == EvalPipeline(Spend(s, 1), dot, node.pipe)
      elems == CASE over.val.kind = "list" -> [i \in DOMAIN over.val.of |-> [key |-> Num(i - 1), val |-> over.val.of[i]]]
                 [] over.val.kind = "int" -> [i \in 1 .. over.val.int |-> [key |-> Num(i - 1), val |-> Num(i - 1)]]
                 [] over.val.kind = "dict" ->
                      SetToSeq({[key |-> Text(<<k>>), val |-> over.val.entries[k]] : k \in DOMAIN over.val.entries})
                 [] OTHER -> <<>>
      cannot == over.val.kind \notin {"list", "int", "dict", "invalid"} \/ (over.val.kind = "int" /\ over.val.int < 0)
      walked == CASE ~Going(over) -> over
                  [] Going(over) /\ cannot -> Failed(over)
                  [] Going(over) /\ ~cannot /\ elems # <<>> -> AfterLoop(Iterate(over, node, elems, 1))
                  [] OTHER -> IF node.elseList = NoList THEN over ELSE WalkList(over, dot, node.elseList)
  IN  PoppedTo(walked, Len(s.vars))

\* walkWhile, from its i-th iteration on.
WalkWhile(s, dot, node, i) ==
  LET cond == EvalPipeline(Spend(s, 5), dot, node.pipe)
      walked == PoppedTo(WalkList(cond, dot, node.list), Len(s.vars))
  IN  CASE ~Going(s) -> s
        [] Going(s) /\ ~Going(cond) -> cond
        [] Going(s) /\ Going(cond) /\ ~IsTrue(cond.val) ->
             IF i = 0 /\ node.elseList # NoList THEN WalkList(cond, dot, node.elseList) ELSE cond
        [] OTHER -> IF Going(Continued(walked)) THEN WalkWhile(Continued(walked), dot, node, i + 1)
                    ELSE AfterLoop(walked)

\* walkTemplate: the pipeline is evaluated here, and its variables stay.
WalkTemplate(s, dot, node) ==
  LET spent == Spend(s, 100)
      at == EvalPipeline(spent, dot, node.pipe)
      defined == \E i \in DOMAIN s.templates : s.templates[i].name = node.name
  IN  IF ~Going(spent) \/ ~defined \/ s.depth = MaxDepth THEN Failed(spent)
      ELSE IF Going(at) THEN InTemplate(at, node.name, at.val) ELSE at

Printed(s, what) == IF Going(s) THEN [s EXCEPT !.out = Append(@, what)] ELSE s

Walk(s, dot, node) ==
  LET value == EvalPipeline(s, dot, node.pipe)
  IN  CASE node.kind = "text" -> Printed(s, Text(node.text))
        [] node.kind = "action" ->
             IF node.pipe.decl = <<>> THEN Printed(value, value.val) ELSE value
        [] node.kind \in {"if", "with"} -> WalkIfOrWith(s, dot, node)
        [] node.kind = "range" -> WalkRange(s, dot, node)
        [] node.kind = "while" -> PoppedTo(WalkWhile(Spend(s, 1), dot, node, 0), Len(s.vars))
        [] node.kind = "try" -> WalkTry(s, dot, node)
        [] node.kind = "template" -> WalkTemplate(s, dot, node)
        [] node.kind \in {"break", "continue"} -> [s EXCEPT !.signal = node.kind]
        [] node.kind = "return" ->
             IF Going(value) THEN [value EXCEPT !.ret = value.val, !.signal = "return"] ELSE value

WalkList(s, dot, list) ==
  FoldLeft(LAMBDA at, node : IF Going(at) THEN Walk(at, dot, node) ELSE at, s, list)

\* execute: the run of the main template.
Execute(templates, dot) ==
  LET main == CHOOSE i \in DOMAIN templates : templates[i].name = Main
  IN  [WalkList(Run(templates, dot), dot, templates[main].list) EXCEPT !.inTry = FALSE]
=============================================================================
