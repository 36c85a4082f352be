--------------------------- MODULE TemplateParser ----------------------------
(* The parser of the template engine (yagtemplate/parse/parse.go), over    *)
(* the items the lexer emits, and the way a tree is written out again      *)
(* (node.go).  Peeking and backing up are an index that stays or goes back.*)
EXTENDS Naturals, SequencesExt

CONSTANTS
  Functions,           \* the names the templates may call
  MaxStackDepth,       \* nesting of parenthesized pipelines
  Wide                 \* the characters of a source that stand for several: words, delimiters

ASSUME MaxStackDepthAssumption == MaxStackDepth \in Nat

\* The parser: its items and the next of them, the variables in scope, the
\* loops it is in, the templates defined so far, and whether it has given up.
Parser(items) ==
  [items |-> items, next |-> 1, vars |-> <<"$">>, loopDepth |-> 0,
   stackDepth |-> 0, defined |-> <<>>, bad |-> FALSE]

Bad(t) == [t EXCEPT !.bad = TRUE]

Peek(t) == t.items[t.next]
Advance(t) == [t EXCEPT !.next = t.next + 1]

\* peekNonSpace and nextNonSpace: the parser at the next item that is no space.
SkipSpace(t) == IF Peek(t).typ = " " THEN Advance(t) ELSE t
TypeAhead(t) == Peek(SkipSpace(t)).typ
PastNext(t) == Advance(SkipSpace(t))

\* expect: the next item that is no space has this type, or the parser gives up.
Expect(t, typ) == IF TypeAhead(t) = typ THEN PastNext(t) ELSE Bad(t)

Result(t, tree) == [t |-> t, tree |-> tree]
Nothing == [kind |-> "nothing"]

NameOf(item) == IF Len(item.val) = 1 THEN item.val[1] ELSE item.val[2]

\* The value of a string: what is between its marks, escapes as they are written.
Unquoted(item) == SubSeq(item.val, 2, Len(item.val) - 1)

\* What strconv takes after a backslash, but for \U and letters as digits.
Digit == {"0", "1", "2", "3"}
Escapes(mark) ==
  {<<c>> : c \in {"a", "b", "f", "n", "r", "t", "v", "\\", mark}} \cup
  {<<first, c, d>> : first \in Digit \cup {"x"}, c, d \in Digit} \cup
  {<<"u", a, b, c, d>> : a, b, c, d \in Digit}

\* strconv.Unquote: a raw string is one, of others each backslash begins an escape.
IsString(item) ==
  LET chars == Unquoted(item)
      opens[i \in DOMAIN chars] == chars[i] = "\\" /\ (i = 1 \/ ~opens[i - 1])
  IN  item.val[1] = "backquote" \/
      \A i \in DOMAIN chars : opens[i] => \E e \in Escapes("\"") : IsPrefix(e, SubSeq(chars, i + 1, Len(chars)))

\* newNumber: a number has a digit, a character constant is one character or escape.
IsNumber(item) ==
  LET chars == Unquoted(item)
  IN  CASE item.typ = "number" -> Range(item.val) \cap Digit # {}
        [] item.typ = "char" -> \/ Len(chars) = 1 /\ chars[1] \notin Wide \cup {"\\"}
                                \/ chars # <<>> /\ chars[1] = "\\" /\ Tail(chars) \in Escapes("'")

InScope(t, name) == \E i \in DOMAIN t.vars : t.vars[i] = name

-----------------------------------------------------------------------------
(* The nodes of a tree (node.go).                                          *)
IdentifierNode(name) == [kind |-> "function", name |-> name]
VariableNode(name)   == [kind |-> "variable", name |-> name, fields |-> <<>>]
FieldNode(name)      == [kind |-> "field", fields |-> <<name>>]
ChainNode(node, fields) == [kind |-> "chain", node |-> node, fields |-> fields]
DotNode          == [kind |-> ".", name |-> "."]
NilNode          == [kind |-> "nil", name |-> "nil"]
BoolNode(name)   == [kind |-> "bool", name |-> name]
NumberNode(text) == [kind |-> "number", name |-> text]
StringNode(text) == [kind |-> "string", name |-> text]

\* A pipeline: what it declares, or else assigns, and its commands.
PipeNode(decl, assign, cmds) == [decl |-> decl, assign |-> assign, cmds |-> cmds]
NoPipe == PipeNode(<<>>, FALSE, <<>>)
Parenthesized(pipe) == [kind |-> "pipe", pipe |-> pipe]

TextNode(text)   == [kind |-> "text", text |-> text]
ActionNode(pipe) == [kind |-> "action", pipe |-> pipe]
ReturnNode(pipe) == [kind |-> "return", pipe |-> pipe]
TemplateNode(name, pipe) == [kind |-> "template", name |-> name, pipe |-> pipe]
BreakNode    == [kind |-> "break"]
ContinueNode == [kind |-> "continue"]

NoList == <<[kind |-> "no list"]>>
\* if, with, range and while, before their else is read; try.
BranchNode(kind, pipe, list) == [kind |-> kind, pipe |-> pipe, list |-> list, elseList |-> NoList]
TryNode(list, catchList) == [kind |-> "try", list |-> list, catchList |-> catchList]

\* What closes a list of items, and is in no tree.
EndNode   == [kind |-> "end"]
ElseNode  == [kind |-> "else"]
CatchNode == [kind |-> "catch"]
ClosingNodes == {EndNode, ElseNode, CatchNode}

-----------------------------------------------------------------------------
RECURSIVE Pipeline(_, _), Command(_, _), Declarations(_, _, _), Commands(_, _)

\* term: a literal, a function, a variable that is in scope, a field, or a
\* pipeline in parentheses; Nothing when the next item starts no term.
Term(t) ==
  LET at == SkipSpace(t)
      item == Peek(at)
      past == Advance(at)
  IN  CASE item.typ = "error" -> Result(Bad(t), Nothing)
        [] item.typ = "identifier" ->
             Result(IF NameOf(item) \in Functions THEN past ELSE Bad(t), IdentifierNode(NameOf(item)))
        [] item.typ = "." -> Result(past, DotNode)
        [] item.typ = "nil" -> Result(past, NilNode)
        [] item.typ = "bool" -> Result(past, BoolNode(NameOf(item)))
        [] item.typ = "string" -> Result(IF IsString(item) THEN past ELSE Bad(t), StringNode(Unquoted(item)))
        [] item.typ \in {"number", "char"} ->
             Result(IF IsNumber(item) THEN past ELSE Bad(t), NumberNode(item.val))
        [] item.typ = "variable" ->
             Result(IF InScope(t, NameOf(item)) THEN past ELSE Bad(t), VariableNode(NameOf(item)))
        [] item.typ = "field" -> Result(past, FieldNode(NameOf(item)))
        [] item.typ = "(" /\ t.stackDepth >= MaxStackDepth -> Result(Bad(t), Nothing)
        [] item.typ = "(" /\ t.stackDepth < MaxStackDepth ->
             LET inner == Pipeline([past EXCEPT !.stackDepth = @ + 1], "parenthesized pipeline")
             IN  IF inner.t.bad \/ Peek(inner.t).typ # ")"
                 THEN Result(Bad(t), Nothing)
                 ELSE Result([Advance(inner.t) EXCEPT !.stackDepth = t.stackDepth], Parenthesized(inner.tree))
        [] OTHER -> Result(at, Nothing)

FieldsFrom(t) ==
  LET after == CHOOSE n \in t.next .. Len(t.items) :
                 t.items[n].typ # "field" /\ \A m \in t.next .. n - 1 : t.items[m].typ = "field"
  IN  [i \in 1 .. after - t.next |-> NameOf(t.items[t.next + i - 1])]

\* operand: a term and the fields after it.  Fields of a field or a variable
\* join it, a literal can have none.
Operand(t) ==
  LET term == Term(t)
      fields == FieldsFrom(term.t)
      past == [term.t EXCEPT !.next = @ + Len(fields)]
  IN  CASE term.t.bad \/ term.tree = Nothing \/ fields = <<>> -> term
        [] term.tree.kind \in {"field", "variable"} ->
             Result(past, [term.tree EXCEPT !.fields = @ \o fields])
        [] term.tree.kind \in {"bool", "string", "number", "nil", "."} -> Result(Bad(t), Nothing)
        [] OTHER -> Result(past, ChainNode(term.tree, fields))

\* command: operands between spaces, up to a pipe, which it takes, or to the
\* end of the pipeline, which it leaves.
Command(t, args) ==
  LET operand == Operand(SkipSpace(t))
      all == IF operand.tree = Nothing THEN args ELSE Append(args, operand.tree)
      typ == Peek(operand.t).typ
  IN  CASE operand.t.bad -> Result(operand.t, all)
        [] ~operand.t.bad /\ typ = " " -> Command(Advance(operand.t), all)
        [] ~operand.t.bad /\ typ \in {"}}", ")", "|"} ->
             Result(IF all = <<>> THEN Bad(t)
                    ELSE IF typ = "|" THEN Advance(operand.t) ELSE operand.t, all)
        [] OTHER -> Result(Bad(t), all)

\* The declarations or assignments at the head of a pipeline: a variable is
\* in scope from here on, also one that is only assigned to.
Declarations(t, context, decl) ==
  LET at == SkipSpace(t)
      past == PastNext(Advance(at))
      more == [past EXCEPT !.vars = Append(@, NameOf(Peek(at)))]
      names == Append(decl, NameOf(Peek(at)))
      mark == TypeAhead(Advance(at))
  IN  CASE Peek(at).typ # "variable" \/ mark \notin {"=", ":=", ","} ->
             [t |-> at, decl |-> decl, declares |-> FALSE]
        [] Peek(at).typ = "variable" /\ mark \in {"=", ":="} ->
             [t |-> more, decl |-> names, declares |-> mark = ":="]
        [] OTHER ->
             IF context = "range" /\ Len(names) < 2 /\ TypeAhead(more) \in {"variable", "}}", ")"}
             THEN Declarations(more, context, names)
             ELSE [t |-> Bad(t), decl |-> decl, declares |-> FALSE]

Literals == {"bool", ".", "nil", "number", "string"}

\* checkPipeline: there is a command, and only the first may be a literal.
PipelineIsGood(cmds) ==
  /\ cmds # <<>>
  /\ \A i \in 2 .. Len(cmds) : cmds[i][1].kind \notin Literals

Commands(t, cmds) ==
  LET at == SkipSpace(t)
      typ == Peek(at).typ
  IN  CASE t.bad -> Result(t, cmds)
        [] ~t.bad /\ typ \in {"}}", ")"} ->
             Result(IF ~PipelineIsGood(cmds) THEN Bad(t)
                    ELSE IF typ = "}}" THEN Advance(at) ELSE at, cmds)
        [] ~t.bad /\ typ \in {"bool", "char", ".", "field", "identifier", "number", "nil",
                              "string", "variable", "("} ->
             LET command == Command(at, <<>>)
             IN  Commands(command.t, Append(cmds, command.tree))
        [] OTHER -> Result(Bad(t), cmds)

Pipeline(t, context) ==
  LET head == Declarations(t, context, <<>>)
      body == Commands(head.t, <<>>)
  IN  Result(body.t, PipeNode(head.decl, ~head.declares, body.tree))

-----------------------------------------------------------------------------
RECURSIVE ItemList(_, _), ElseList(_, _, _, _), Action(_)

PopVars(t, to) == [t EXCEPT !.vars = SubSeq(@, 1, Len(to.vars))]

\* endControl, elseControl and catchControl: what closes a list of items.
\* The `if` of an else-if stays to be read.
Closer(t, typ) ==
  IF typ = "else" /\ TypeAhead(t) = "if"
  THEN Result(SkipSpace(t), ElseNode)
  ELSE Result(Expect(t, "}}"), CHOOSE node \in ClosingNodes : node.kind = typ)

IsCloser(tree) == tree \in ClosingNodes

TextOrAction(t) ==
  CASE TypeAhead(t) = "text" -> Result(PastNext(t), TextNode(Peek(SkipSpace(t)).val))
    [] TypeAhead(t) = "{{" -> Action(PastNext(t))
    [] OTHER -> Result(Bad(t), Nothing)

\* itemList: the nodes up to an end, an else or a catch, which comes with them.
ItemList(t, nodes) ==
  LET one == TextOrAction(t)
  IN  CASE TypeAhead(t) = "EOF" -> [t |-> Bad(t), list |-> nodes, closer |-> "EOF"]
        [] TypeAhead(t) # "EOF" /\ one.t.bad -> [t |-> one.t, list |-> nodes, closer |-> "EOF"]
        [] TypeAhead(t) # "EOF" /\ ~one.t.bad /\ IsCloser(one.tree) ->
             [t |-> one.t, list |-> nodes, closer |-> one.tree.kind]
        [] OTHER -> ItemList(one.t, Append(nodes, one.tree))

\* The part of a control structure from its else on.  An else-if is an else
\* that holds one if, and the end of the inner one ends both.
ElseList(t, allowElseIf, node, body) ==
  LET inner == Action(t)
      list  == ItemList(t, <<>>)
  IN  CASE body.t.bad -> Result(body.t, node)
        [] ~body.t.bad /\ body.closer = "end" -> Result(t, node)
        [] ~body.t.bad /\ body.closer = "else" /\ allowElseIf /\ Peek(t).typ = "if" ->
             Result(inner.t, [node EXCEPT !.elseList = <<inner.tree>>])
        [] ~body.t.bad /\ body.closer = "else" /\ ~(allowElseIf /\ Peek(t).typ = "if") ->
             Result(IF list.closer = "end" THEN list.t ELSE Bad(t), [node EXCEPT !.elseList = list.list])
        [] OTHER -> Result(Bad(t), node)

Loops == {"range", "while"}

\* A plausible slip: the else of a loop counts as inside the loop.
ControlElseInLoop(t, kind) ==
  LET pipe == Pipeline(t, kind)
      more == IF kind \in Loops THEN 1 ELSE 0
      body == ItemList([pipe.t EXCEPT !.loopDepth = @ + more], <<>>)
      node == BranchNode(kind, pipe.tree, body.list)
      all  == ElseList(body.t, kind \notin Loops, node, body)
  IN  IF pipe.t.bad THEN Result(pipe.t, Nothing)
      ELSE Result([PopVars(all.t, t) EXCEPT !.loopDepth = t.loopDepth], all.tree)

\* parseControl: if, with, range and while.  What their pipeline and their
\* lists declare ends with them; the else of a loop is outside the loop.
Control(t, kind) ==
  LET pipe == Pipeline(t, kind)
      more == IF kind \in Loops THEN 1 ELSE 0
      body == ItemList([pipe.t EXCEPT !.loopDepth = @ + more], <<>>)
      node == BranchNode(kind, pipe.tree, body.list)
      all  == ElseList([body.t EXCEPT !.loopDepth = t.loopDepth], kind \notin Loops, node, body)
  IN  IF pipe.t.bad THEN Result(pipe.t, Nothing) ELSE Result(PopVars(all.t, t), all.tree)

Try(t) ==
  LET open == Expect(t, "}}")
      list == ItemList(open, <<>>)
      catch == ItemList(list.t, <<>>)
  IN  IF open.bad \/ list.t.bad \/ list.closer # "catch" \/ catch.t.bad \/ catch.closer # "end"
      THEN Result(Bad(t), Nothing)
      ELSE Result(PopVars(catch.t, t), TryNode(list.list, catch.list))

\* return, and template: the pipeline is optional.
OptionalPipeline(t, context) ==
  IF TypeAhead(t) = "}}" THEN Result(PastNext(t), NoPipe) ELSE Pipeline(t, context)

BlankText(node) == node.kind = "text" /\ \A i \in DOMAIN node.text : node.text[i] \in {" ", "nl"}
IsEmptyList(list) == \A i \in DOMAIN list : BlankText(list[i])

IsDefined(t, name) == \E i \in DOMAIN t.defined : t.defined[i].name = name

\* add: a template without content gives way, two with content clash.
Add(t, name, list) ==
  LET same == {i \in DOMAIN t.defined : t.defined[i].name = name}
  IN  CASE same = {} -> [t EXCEPT !.defined = Append(@, [name |-> name, list |-> list])]
        [] same # {} /\ \A i \in same : IsEmptyList(t.defined[i].list) ->
             [t EXCEPT !.defined = [i \in DOMAIN @ |-> IF i \in same THEN [name |-> name, list |-> list] ELSE @[i]]]
        [] OTHER -> IF IsEmptyList(list) THEN t ELSE Bad(t)

\* The body of a define or a block: a tree of its own, with no variables and
\* no loops, which shares the items and the defined templates.
Definition(t, name) ==
  LET body == ItemList([t EXCEPT !.vars = <<"$">>, !.loopDepth = 0, !.stackDepth = 0], <<>>)
      own  == [body.t EXCEPT !.vars = t.vars, !.loopDepth = t.loopDepth, !.stackDepth = t.stackDepth]
  IN  IF body.t.bad \/ body.closer # "end" THEN Bad(t) ELSE Add(own, name, body.list)

\* break and continue: only in a loop.
Leave(t, kind) == Result(IF t.loopDepth = 0 THEN Bad(t) ELSE Expect(t, "}}"), IF kind = "break" THEN BreakNode ELSE ContinueNode)

\* The name of a template, which has to be a string.
NextName(t) == Unquoted(Peek(SkipSpace(t)))
NamesOne(t) == TypeAhead(t) = "string" /\ IsString(Peek(SkipSpace(t)))

TemplateCall(t) ==
  LET pipe == OptionalPipeline(PastNext(t), "template clause")
  IN  IF ~NamesOne(t) THEN Result(Bad(t), Nothing)
      ELSE Result(pipe.t, TemplateNode(NextName(t), pipe.tree))

\* A block: a definition, and a call of it with the pipeline.
Block(t) ==
  LET pipe == Pipeline(PastNext(t), "block clause")
  IN  IF ~NamesOne(t) \/ pipe.t.bad THEN Result(Bad(t), Nothing)
      ELSE Result(Definition(pipe.t, NextName(t)), TemplateNode(NextName(t), pipe.tree))

\* action: one action, with everything up to its end if it opens a list.
Action(t) ==
  LET at   == SkipSpace(t)
      typ  == Peek(at).typ
      past == Advance(at)
      back == OptionalPipeline(past, "return clause")
      whole == Pipeline(at, "command")
  IN  CASE typ \in {"break", "continue"} -> Leave(past, typ)
        [] typ \in {"end", "else", "catch"} -> Closer(past, typ)
        [] typ \in {"if", "with", "range", "while"} -> Control(past, typ)
        [] typ = "try" -> Try(past)
        [] typ = "return" -> Result(back.t, ReturnNode(back.tree))
        [] typ = "template" -> TemplateCall(past)
        [] typ = "block" -> Block(past)
        [] OTHER -> Result(whole.t, ActionNode(whole.tree))

RECURSIVE ParseFrom(_, _)

\* {{define "name"}}, which only stands at the top level.
Define(t) ==
  LET past  == PastNext(PastNext(t))
      named == PastNext(past)
      open  == Expect(named, "}}")
  IN  IF ~NamesOne(past) \/ open.bad THEN Bad(t)
      ELSE Definition(open, NextName(past))

\* parse: the top level, to the end of the items.
ParseFrom(t, nodes) ==
  LET one == TextOrAction(t)
  IN  CASE t.bad -> Result(t, nodes)
        [] ~t.bad /\ TypeAhead(t) = "EOF" -> Result(t, nodes)
        [] ~t.bad /\ TypeAhead(t) = "{{" /\ TypeAhead(PastNext(t)) = "define" -> ParseFrom(Define(t), nodes)
        [] ~t.bad /\ TypeAhead(t) # "EOF" /\ ~(TypeAhead(t) = "{{" /\ TypeAhead(PastNext(t)) = "define") ->
             IF one.t.bad \/ IsCloser(one.tree) THEN Result(Bad(t), nodes)
             ELSE ParseFrom(one.t, Append(nodes, one.tree))

Main == <<"main">>

\* Parse: the templates a source defines, its own as Main; NoTemplates if it is refused.
NoTemplates == <<>>
Parse(items) ==
  LET all == ParseFrom(Parser(items), <<>>)
      own == Add(all.t, Main, all.tree)
  IN  IF all.t.bad \/ own.bad THEN NoTemplates ELSE own.defined

-----------------------------------------------------------------------------
\* How a tree is written out (the String methods of node.go), as the items
\* the lexer would make of it.
Sign(typ) == <<[typ |-> typ, val |-> <<>>]>>
Word(typ, val) == <<[typ |-> typ, val |-> val]>>
Blank == Sign(" ")

RECURSIVE WrittenPipe(_), WrittenList(_)

\* Concatenation, with something between each two.
RECURSIVE Joined(_, _)
Joined(parts, between) ==
  IF Len(parts) <= 1 THEN IF parts = <<>> THEN <<>> ELSE parts[1]
  ELSE parts[1] \o between \o Joined(Tail(parts), between)

WrittenFields(fields) == Joined([i \in DOMAIN fields |-> Word("field", <<".", fields[i]>>)], <<>>)

WrittenVariable(name) == Word("variable", IF name = "$" THEN <<"$">> ELSE <<"$", name>>)

RECURSIVE WrittenArg(_)

\* A plausible slip: the parentheses around a pipeline are left out.
WrittenArgBare(node) ==
  CASE node.kind = "pipe" -> WrittenPipe(node.pipe)
    [] node.kind = "variable" -> WrittenVariable(node.name) \o WrittenFields(node.fields)
    [] node.kind = "field" -> WrittenFields(node.fields)
    [] node.kind = "function" -> Word("identifier", <<node.name>>)
    [] OTHER -> Sign(node.kind)

WrittenArg(node) ==
  CASE node.kind = "variable" -> WrittenVariable(node.name) \o WrittenFields(node.fields)
    [] node.kind = "field" -> WrittenFields(node.fields)
    [] node.kind = "chain" -> WrittenArg(node.node) \o WrittenFields(node.fields)
    [] node.kind = "pipe" -> Sign("(") \o WrittenPipe(node.pipe) \o Sign(")")
    [] node.kind = "function" -> Word("identifier", <<node.name>>)
    [] node.kind = "bool" -> Word("bool", <<node.name>>)
    [] node.kind = "string" -> Word("string", <<"\"">> \o node.name \o <<"\"">>)
    [] node.kind = "number" -> Word(IF node.name[1] = "'" THEN "char" ELSE "number", node.name)
    [] OTHER -> Sign(node.kind)

\* PipeNode.String: an assignment is written as a declaration.
WrittenPipe(pipe) ==
  (IF pipe.decl = <<>> THEN <<>>
   ELSE Joined([i \in DOMAIN pipe.decl |-> WrittenVariable(pipe.decl[i])], Sign(",") \o Blank) \o
        Blank \o Sign(":=") \o Blank) \o
  Joined([i \in DOMAIN pipe.cmds |->
           Joined([j \in DOMAIN pipe.cmds[i] |-> WrittenArg(pipe.cmds[i][j])], Blank)],
         Blank \o Sign("|") \o Blank)

InDelims(middle) == Sign("{{") \o middle \o Sign("}}")
AfterWord(typ, pipe) == Sign(typ) \o IF pipe = NoPipe THEN <<>> ELSE Blank \o WrittenPipe(pipe)

WrittenNode(node) ==
  CASE node.kind = "text" -> Word("text", node.text)
    [] node.kind = "action" -> InDelims(WrittenPipe(node.pipe))
    [] node.kind \in {"if", "with", "range", "while"} ->
         InDelims(AfterWord(node.kind, node.pipe)) \o WrittenList(node.list) \o
         (IF node.elseList = NoList THEN <<>> ELSE InDelims(Sign("else")) \o WrittenList(node.elseList)) \o
         InDelims(Sign("end"))
    [] node.kind = "try" ->
         InDelims(Sign("try")) \o WrittenList(node.list) \o InDelims(Sign("catch")) \o
         WrittenList(node.catchList) \o InDelims(Sign("end"))
    [] node.kind = "return" -> InDelims(AfterWord("return", node.pipe))
    [] node.kind = "template" ->
         InDelims(Sign("template") \o Blank \o Word("string", <<"\"">> \o node.name \o <<"\"">>) \o
                  IF node.pipe = NoPipe THEN <<>> ELSE Blank \o WrittenPipe(node.pipe))
    [] OTHER -> InDelims(Sign(node.kind))

WrittenList(list) == Joined([i \in DOMAIN list |-> WrittenNode(list[i])], <<>>)
=============================================================================
