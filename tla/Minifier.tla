------------------------------ MODULE Minifier -------------------------------
(* yagmin, which makes a command short enough for a free server            *)
(* (cmd/yagmin/minify.go, whitespace.go): it drops the comments, gives     *)
(* every variable a short name, drops the whitespace that cannot be seen   *)
(* in the response, which is trimmed, and prints the trees again.  The     *)
(* templates are those of the parser, the result is the items of its text. *)
EXTENDS TemplateExec

CONSTANT ShortNames    \* the names variables get, in the order they are handed out

\* What an operator makes of each member of a sequence, one after the other.
Each(seq, Of(_)) == FoldLeft(LAMBDA all, one : all \o Of(one), <<>>, seq)

HasPipe(node) == "pipe" \in DOMAIN node

\* The fields that hold a list, and the lists of a node in their order.
ListFields == <<"list", "elseList", "catchList">>
HasList(node, field) == field \in DOMAIN node /\ node[field] # NoList
InListFields(field) == SelectInSeq(ListFields, LAMBDA f : f = field)
FieldsOf(node) == SelectSeq(ListFields, LAMBDA field : HasList(node, field))
Lists(node) == {node[field] : field \in Range(FieldsOf(node))}

RECURSIVE NodesOf(_), PipesOf(_), ArgPipes(_), PipeVars(_), ArgVars(_)

\* eachNode, walkNodes: every node under a list, every pipeline under one, and
\* every use of a variable, in the order they are written in.
NodesOf(list) ==
  Each(list, LAMBDA node : <<node>> \o Each(FieldsOf(node), LAMBDA field : NodesOf(node[field])))

ArgPipes(arg) ==
  CASE arg.kind = "pipe" -> PipesOf(arg.pipe)
    [] arg.kind = "chain" -> ArgPipes(arg.node)
    [] OTHER -> <<>>
PipesOf(pipe) == <<pipe>> \o Each(pipe.cmds, LAMBDA cmd : Each(cmd, ArgPipes))

ArgVars(arg) ==
  CASE arg.kind = "variable" -> <<arg.name>>
    [] arg.kind = "pipe" -> PipeVars(arg.pipe)
    [] arg.kind = "chain" -> ArgVars(arg.node)
    [] OTHER -> <<>>
PipeVars(pipe) == pipe.decl \o Each(pipe.cmds, LAMBDA cmd : Each(cmd, ArgVars))

PipesIn(list) == Each(NodesOf(list), LAMBDA node : IF HasPipe(node) THEN PipesOf(node.pipe) ELSE <<>>)
CommandsIn(list) == Each(PipesIn(list), LAMBDA pipe : pipe.cmds)
VarsIn(list) == Each(NodesOf(list), LAMBDA node : IF HasPipe(node) THEN PipeVars(node.pipe) ELSE <<>>)

\* commandTrees: the command's own tree first.
MainFirst(templates) == SortSeq(templates, LAMBDA a, b : a.name = Main /\ b.name # Main)

-----------------------------------------------------------------------------
(* The renamer: one map for the whole file, over names and not variables.  *)

\* newRenamer: the most used name first, then the one that appears first.
NamesByUse(trees) ==
  LET vars     == SelectSeq(Each(trees, LAMBDA tree : VarsIn(tree.list)), LAMBDA v : v # "$")
      uses(v)  == Cardinality({i \in DOMAIN vars : vars[i] = v})
      first(v) == SelectInSeq(vars, LAMBDA w : w = v)
  IN  SetToSortSeq(Range(vars), LAMBDA v, w : uses(v) > uses(w) \/ (uses(v) = uses(w) /\ first(v) < first(w)))

Short(v, names) == IF v = "$" THEN v ELSE ShortNames[SelectInSeq(names, LAMBDA w : w = v)]

RECURSIVE ShortArg(_, _), ShortPipe(_, _), ShortList(_, _)

ShortArg(arg, names) ==
  CASE arg.kind = "variable" -> [arg EXCEPT !.name = Short(@, names)]
    [] arg.kind = "pipe" -> [arg EXCEPT !.pipe = ShortPipe(@, names)]
    [] arg.kind = "chain" -> [arg EXCEPT !.node = ShortArg(@, names)]
    [] OTHER -> arg

ShortPipe(pipe, names) ==
  [decl |-> [i \in DOMAIN pipe.decl |-> Short(pipe.decl[i], names)],
   assign |-> pipe.assign,
   cmds |-> [i \in DOMAIN pipe.cmds |-> [j \in DOMAIN pipe.cmds[i] |-> ShortArg(pipe.cmds[i][j], names)]]]

\* apply
ShortList(list, names) ==
  [i \in DOMAIN list |->
     [field \in DOMAIN list[i] |->
        CASE field = "pipe" -> ShortPipe(list[i].pipe, names)
          [] field \in {"list", "elseList", "catchList"} ->
               IF list[i][field] = NoList THEN NoList ELSE ShortList(list[i][field], names)
          [] OTHER -> list[i][field]]]

-----------------------------------------------------------------------------
(* What can be printed where (whitespace.go).                              *)
SilentFunctions == {"deleteResponse"}
SilentMethods   == {"Set", "Del"}
Constructors    == {"dict", "sdict", "cslice"}
NestedSenders   == [sendTemplate |-> 3, sendTemplateDM |-> 2]

\* The name of a template that is not written as a string.
AnyTemplate == <<"*">>
NamedAt(cmd, n) == IF Len(cmd) >= n /\ cmd[n].kind = "string" THEN cmd[n].name ELSE AnyTemplate
Calls(cmd, functions) == cmd[1].kind = "function" /\ cmd[1].name \in functions

NamesWhere(cmds, functions, n(_)) ==
  Range(Each(cmds, LAMBDA cmd : IF Calls(cmd, functions) THEN <<NamedAt(cmd, n(cmd))>> ELSE <<>>))

\* execTemplateCallee
ExecutedIn(cmds) == NamesWhere(cmds, {"execTemplate"}, LAMBDA cmd : 2)

\* nestedSenderCallee
SentIn(list) == NamesWhere(CommandsIn(list), DOMAIN NestedSenders, LAMBDA cmd : NestedSenders[cmd[1].name])

\* The templates a tree runs on the same output.
CalledIn(list) ==
  ExecutedIn(CommandsIn(list)) \cup
  Range(Each(NodesOf(list), LAMBDA node : IF node.kind = "template" THEN <<node.name>> ELSE <<>>))

\* isConstructorPipe: the last command's function, through parentheses.
RECURSIVE IsConstructor(_)
IsConstructor(pipe) ==
  /\ pipe.cmds # <<>>
  /\ LET last == Last(pipe.cmds)
     IN  \/ Calls(last, Constructors)
         \/ last[1].kind = "pipe" /\ Len(last) = 1 /\ IsConstructor(last[1].pipe)

\* containerVariables: every binding of the name, in the whole file, is a
\* constructor's; what a range binds never is, and the dot never.
Bindings(trees) ==
  Each(trees, LAMBDA tree :
    Each(NodesOf(tree.list), LAMBDA node :
           IF node.kind = "range" THEN <<[decl |-> node.pipe.decl, constructs |-> FALSE]>> ELSE <<>>) \o
    Each(PipesIn(tree.list), LAMBDA pipe : <<[decl |-> pipe.decl, constructs |-> IsConstructor(pipe)]>>))

IsContainer(trees, v) ==
  LET own == SelectSeq(Bindings(trees), LAMBDA binding : Contains(binding.decl, v))
  IN  v # "$" /\ own # <<>> /\ \A i \in DOMAIN own : own[i].constructs

\* silentPipe: what is printed is "".
Silent(trees, pipe) ==
  /\ Len(pipe.cmds) = 1
  /\ LET head == pipe.cmds[1][1]
     IN  \/ head.kind = "function" /\ head.name \in SilentFunctions
         \/ /\ head.kind = "variable" /\ Len(head.fields) = 1
            /\ head.fields[1] \in SilentMethods /\ IsContainer(trees, head.name)

\* A node that prints by itself.
PrintsItself(trees, node) ==
  \/ node.kind = "text" /\ ~BlankText(node)
  \/ node.kind = "action" /\ node.pipe.decl = <<>> /\ ~Silent(trees, node.pipe)

Defines(trees) == {trees[i].name : i \in DOMAIN trees} \ {Main}

\* calleePrints: a call by a name that is none of the defines may run any tree.
CalleePrints(trees, prints, name) ==
  IF name \in Defines(trees) THEN name \in prints ELSE prints # {}

\* analyzeWhitespace: the trees that may print, by themselves or by a call.
PrintingTrees(trees) ==
  LET prints(tree) == SelectSeq(NodesOf(tree.list), LAMBDA node : PrintsItself(trees, node)) # <<>>
      own    == {trees[i].name : i \in {j \in DOMAIN trees : prints(trees[j])}}
      called == [i \in DOMAIN trees |-> CalledIn(trees[i].list)]
      withCallers(printing) == printing \cup
        {trees[i].name : i \in {j \in DOMAIN trees : \E name \in called[j] : CalleePrints(trees, printing, name)}}
  IN  FoldLeft(LAMBDA printing, tree : withCallers(printing), own, trees)

Everywhere(trees, In(_)) == UNION {In(trees[i].list) : i \in DOMAIN trees}

\* pipePrints
PipePrints(trees, prints, pipe) ==
  \E name \in ExecutedIn(Each(PipesOf(pipe), LAMBDA inner : inner.cmds)) :
    CalleePrints(trees, prints, name)

\* What a node prints where it stands, before its lists.
Prints(trees, prints, node) ==
  \/ PrintsItself(trees, node)
  \/ HasPipe(node) /\ PipePrints(trees, prints, node.pipe)
  \/ node.kind = "template" /\ CalleePrints(trees, prints, node.name)

\* linearizer: what may print and what is blank, in the order of the text, at
\* its place in the tree, and the outermost loop around it.
RECURSIVE EventsIn(_, _, _, _, _)
EventsIn(trees, prints, list, place, loop) ==
  Each([i \in DOMAIN list |-> i], LAMBDA i :
    LET node   == list[i]
        here   == Append(place, i)
        around == IF loop = <<>> /\ node.kind \in Loops THEN here ELSE loop
        own    == [place |-> here, blank |-> BlankText(node), loop |-> around]
    IN  (IF BlankText(node) \/ Prints(trees, prints, node) THEN <<own>> ELSE <<>>) \o
        Each(FieldsOf(node), LAMBDA field :
               EventsIn(trees, prints, node[field], here \o <<InListFields(field)>>, around)))

\* A plausible slip: a loop is taken to run once.
DroppableOnce(events) ==
  LET printers(S) == {i \in S : ~events[i].blank}
      seen(i) == printers(1 .. i) # {} /\ printers(i .. Len(events)) # {}
  IN  {events[i].place : i \in {j \in DOMAIN events : events[j].blank /\ ~seen(j)}}

\* dropFromMain: the blanks with nothing printed before them or nothing after,
\* where a loop, run again, is both before and after what is in it.
Droppable(events) ==
  LET printers(S) == {i \in S : ~events[i].blank}
      extent(i) == IF events[i].loop = <<>> THEN {i}
                   ELSE {j \in DOMAIN events : events[j].loop = events[i].loop}
      before(i) == {j \in DOMAIN events : \A k \in extent(i) : j < k}
      after(i)  == {j \in DOMAIN events : \A k \in extent(i) : j > k}
      unseen(i) == printers(extent(i)) = {} /\ (printers(before(i)) = {} \/ printers(after(i)) = {})
  IN  {events[i].place : i \in {j \in DOMAIN events : events[j].blank /\ unseen(j)}}

\* A list without the blanks at the given places.
RECURSIVE Without(_, _, _)
Without(list, dropped, place) ==
  LET inner(i) == [field \in DOMAIN list[i] |->
                     IF field \in Range(FieldsOf(list[i]))
                     THEN Without(list[i][field], dropped, place \o <<i, InListFields(field)>>)
                     ELSE list[i][field]]
  IN  Each([i \in DOMAIN list |-> i], LAMBDA i :
             IF BlankText(list[i]) /\ Append(place, i) \in dropped THEN <<>> ELSE <<inner(i)>>)

\* The whitespace of the main tree can be seen as that of a define can, where a
\* call may run it; and what a message of its own may hold is kept.
MainMayBeCalled(trees) == ~(Everywhere(trees, CalledIn) \subseteq Defines(trees))
MainMayBeSent(trees)   == ~(Everywhere(trees, SentIn) \subseteq Defines(trees))
DefinesMayBeSent(trees) == Everywhere(trees, SentIn) # {}

\* dropWhitespace
WithoutWhitespace(trees) ==
  LET prints == PrintingTrees(trees)
      nothingPrints == prints = {} /\ ~DefinesMayBeSent(trees)
      events(list) == EventsIn(trees, prints, list, <<>>, <<>>)
      unseen(list) == Without(list, Droppable(events(list)), <<>>)
      unblanked(list) == Without(list, {event.place : event \in {e \in Range(events(list)) : e.blank}}, <<>>)
      without(tree) ==
        CASE tree.name = Main /\ MainMayBeSent(trees) -> tree.list
          [] tree.name = Main /\ ~MainMayBeSent(trees) /\ ~MainMayBeCalled(trees) -> unseen(tree.list)
          [] OTHER -> IF nothingPrints THEN unblanked(tree.list) ELSE tree.list
  IN  [i \in DOMAIN trees |-> [trees[i] EXCEPT !.list = without(trees[i])]]

-----------------------------------------------------------------------------
(* The trees printed again, as the items the lexer makes of them.          *)
RECURSIVE PrintedPipe(_), PrintedArg(_), PrintedList(_)

\* printArg: a pipeline with fields gets two pairs of parentheses.
PrintedArg(arg) ==
  CASE arg.kind = "pipe" -> Sign("(") \o PrintedPipe(arg.pipe) \o Sign(")")
    [] arg.kind = "chain" ->
         (IF arg.node.kind = "pipe" THEN Sign("(") \o PrintedArg(arg.node) \o Sign(")") ELSE PrintedArg(arg.node)) \o
         WrittenFields(arg.fields)
    [] OTHER -> WrittenArg(arg)

PrintedCommand(cmd) == Joined([i \in DOMAIN cmd |-> PrintedArg(cmd[i])], Blank)

\* printPipe: unlike PipeNode.String, it keeps an assignment.
PrintedPipe(pipe) ==
  (IF pipe.decl = <<>> THEN <<>>
   ELSE Joined([i \in DOMAIN pipe.decl |-> WrittenVariable(pipe.decl[i])], Sign(",") \o Blank) \o
        Blank \o Sign(IF pipe.assign THEN "=" ELSE ":=") \o Blank) \o
  Joined([i \in DOMAIN pipe.cmds |-> PrintedCommand(pipe.cmds[i])], Blank \o Sign("|") \o Blank)

AfterBlank(pipe) == IF pipe = NoPipe THEN <<>> ELSE Blank \o PrintedPipe(pipe)
Quoted(name) == Word("string", <<"\"">> \o name \o <<"\"">>)
End == InDelims(Sign("end"))

\* printBranch
PrintedBranch(node) ==
  InDelims(Sign(node.kind) \o Blank \o PrintedPipe(node.pipe)) \o PrintedList(node.list) \o
  (IF node.elseList = NoList THEN <<>> ELSE InDelims(Sign("else")) \o PrintedList(node.elseList)) \o End

PrintedNode(node) ==
  CASE node.kind = "action" -> InDelims(PrintedPipe(node.pipe))
    [] node.kind \in {"if", "with", "range", "while"} -> PrintedBranch(node)
    [] node.kind = "try" -> InDelims(Sign("try")) \o PrintedList(node.list) \o
                            InDelims(Sign("catch")) \o PrintedList(node.catchList) \o End
    [] node.kind = "return" -> InDelims(Sign("return") \o AfterBlank(node.pipe))
    [] node.kind = "template" -> InDelims(Sign("template") \o Blank \o Quoted(node.name) \o AfterBlank(node.pipe))
    [] OTHER -> WrittenNode(node)

\* printNodes
PrintedList(list) == Each(list, PrintedNode)

PrintedTree(tree) ==
  IF tree.name = Main THEN PrintedList(tree.list)
  ELSE InDelims(Sign("define") \o Blank \o Quoted(tree.name)) \o PrintedList(tree.list) \o End

\* headerBlock: the comment a source starts with, by the spaces before it that
\* no marker trims and by whether a marker trims what follows it.
NoHeader == [found |-> FALSE, lead |-> <<>>, trims |-> FALSE]
Header(source) ==
  LET past(p, S) == CHOOSE q \in p .. Len(source) + 1 :
                      (q > Len(source) \/ source[q] \notin S) /\ \A o \in p .. q - 1 : source[o] \in S
      is(p, c) == p \in DOMAIN source /\ source[p] = c
      blank  == {" ", "nl"}
      open   == past(1, blank)
      marked == is(open + 1, "-")
      body   == past(IF marked THEN open + 2 ELSE open + 1, blank)
      ends(p) == LET close == past(p + 1, blank)
                 IN  is(p, "*/") /\ (is(close, "}}") \/ (is(close, "-") /\ is(close + 1, "}}")))
      last   == {p \in body + 1 .. Len(source) : ends(p)}
  IN  IF ~is(open, "{{") \/ ~is(body, "/*") \/ last = {} THEN NoHeader
      ELSE [found |-> TRUE, lead |-> IF marked THEN <<>> ELSE SubSeq(source, 1, open - 1),
            trims |-> is(past((CHOOSE p \in last : \A q \in last : p <= q) + 1, blank), "-")]

TextItem(chars) == IF chars = <<>> THEN <<>> ELSE Word("text", chars)

\* Texts that follow each other read as one.
Merged(items) ==
  FoldLeft(LAMBDA all, item :
             IF all # <<>> /\ item.typ = "text" /\ Last(all).typ = "text"
             THEN Front(all) \o TextItem(Last(all).val \o item.val) ELSE Append(all, item), <<>>, items)

\* The header, a newline, and the rest, which starts with a text or does not.
Headed(header, items) ==
  LET rest == Merged(TextItem(<<"nl">>) \o items)
      kept == {i \in DOMAIN rest[1].val : rest[1].val[i] \notin {" ", "nl"}}
      trimmed == IF kept = {} THEN <<>> ELSE SubSeq(rest[1].val, CHOOSE i \in kept : \A j \in kept : i <= j, Len(rest[1].val))
  IN  CASE ~header.found -> Merged(items)
        [] header.found /\ header.trims -> TextItem(header.lead) \o TextItem(trimmed) \o Tail(rest)
        [] OTHER -> TextItem(header.lead) \o rest

\* minify
Minify(templates, header) ==
  LET trees == MainFirst(templates)
      names == NamesByUse(trees)
      short == WithoutWhitespace([i \in DOMAIN trees |-> [trees[i] EXCEPT !.list = ShortList(@, names)]])
  IN  Headed(header, Each(Tail(short), PrintedTree) \o PrintedTree(short[1])) \o Sign("EOF")
=============================================================================
