--------------------------- MODULE TemplateEngine ----------------------------
(* A template from its source to its output: the lexer reads it item by    *)
(* item, then it is parsed and run (yagtemplate/template.go, Parse and     *)
(* Execute, as runtime/engine.go calls them).                              *)
EXTENDS TemplateLexer, Minifier, LoopCheck

CONSTANTS
  ParseItems(_),       \* the parser, from items to templates
  RunTemplates(_, _),  \* the run of templates with a dot
  OwnNames(_),         \* the templates with a name of its own for every declaration
  Minified(_, _),      \* the items of the minified templates, after a header
  Sources,             \* the templates that are read
  Fresh                \* names that no source has, in an order

VARIABLE result        \* the templates of the source and its run; None before

None == [templates |-> NoTemplates, run |-> Run(NoTemplates, Invalid)]

vars == <<lexer, result>>

Dot == Dict([field \in {"x"} |-> Num(2)])

Init == (\E source \in Sources : StartLexing(source)) /\ result = None

Lex == NextItem /\ UNCHANGED result

\* Parse, and Execute if the source is a template.
ParseAndExecute ==
  /\ Ended /\ result = None
  /\ LET templates == ParseItems(items)
     IN  result' = [templates |-> templates,
                    run |-> IF templates = NoTemplates THEN Failed(None.run) ELSE RunTemplates(templates, Dot)]
  /\ UNCHANGED lexer

Next == Lex \/ ParseAndExecute

Spec == Init /\ [][Next]_vars

-----------------------------------------------------------------------------
Accepted == result.templates # NoTemplates

PipeDeclares(pipe) == SelectSeq(PipesOf(pipe), LAMBDA p : p.decl # <<>> /\ ~p.assign) # <<>>
PipeAssigns(pipe)  == SelectSeq(PipesOf(pipe), LAMBDA p : p.decl # <<>> /\ p.assign) # <<>>

RECURSIVE ListDeclares(_), LeaksFromTry(_)

\* A declaration that stands in the list itself.
ListDeclares(list) ==
  \E i \in DOMAIN list :
    \/ list[i].kind \in {"action", "return", "template"} /\ PipeDeclares(list[i].pipe)
    \/ list[i].kind = "try" /\ \E l \in Lists(list[i]) : ListDeclares(l)

LeaksFromTry(list) ==
  \E i \in DOMAIN list :
    \/ list[i].kind = "try" /\ \E l \in Lists(list[i]) : ListDeclares(l)
    \/ \E l \in Lists(list[i]) : LeaksFromTry(l)

\* Something in the list, at any depth, for which a test holds.
AnyNode(list, P(_)) == SelectSeq(NodesOf(list), P) # <<>>
AssignsInRange(list) == AnyNode(list, LAMBDA node : node.kind = "range" /\ PipeAssigns(node.pipe))
AnyAssigns(list)     == AnyNode(list, LAMBDA node : HasPipe(node) /\ PipeAssigns(node.pipe))

InAll(P(_)) == \E i \in DOMAIN result.templates : P(result.templates[i].list)

-----------------------------------------------------------------------------
(* The same templates with a name of its own for every declaration, by the *)
(* blocks they are written in.  A scope is a sequence of [old, new] names, *)
(* n the fresh names used.                                                 *)
RECURSIVE RenamedPipe(_, _), RenamedArg(_, _), RenamedList(_, _)

At0(scope, n) == [tree |-> <<>>, scope |-> scope, n |-> n]
Of(r, tree) == [r EXCEPT !.tree = tree]

NewName(scope, name) ==
  LET at == SelectLastInSeq(scope, LAMBDA v : v.old = name)
  IN  IF at = 0 THEN name ELSE scope[at].new

ArgOfPipe(node, pipe) == Of(pipe, [node EXCEPT !.pipe = pipe.tree])
ArgOfChain(node, inner) == Of(inner, [node EXCEPT !.node = inner.tree])

RenamedArg(node, r) ==
  CASE node.kind = "variable" -> Of(r, [node EXCEPT !.name = NewName(r.scope, @)])
    [] node.kind = "pipe" -> ArgOfPipe(node, RenamedPipe(node.pipe, r))
    [] node.kind = "chain" -> ArgOfChain(node, RenamedArg(node.node, r))
    [] OTHER -> Of(r, node)

\* A sequence, each member in the scope the one before it leaves.
Added(r, one) == Of(one, Append(r.tree, one.tree))

RenamedCmd(cmd, r) == FoldLeft(LAMBDA acc, arg : Added(acc, RenamedArg(arg, acc)), Of(r, <<>>), cmd)

Declared(pipe, r) ==
  LET new == [i \in DOMAIN pipe.decl |->
                IF pipe.assign THEN NewName(r.scope, pipe.decl[i]) ELSE Fresh[r.n + i]]
      own == IF pipe.assign THEN <<>> ELSE [i \in DOMAIN pipe.decl |-> [old |-> pipe.decl[i], new |-> new[i]]]
  IN  [tree |-> [decl |-> new, assign |-> pipe.assign, cmds |-> r.tree],
       scope |-> r.scope \o own, n |-> r.n + Len(own)]

RenamedPipe(pipe, r) ==
  Declared(pipe, FoldLeft(LAMBDA acc, cmd : Added(acc, RenamedCmd(cmd, acc)), Of(r, <<>>), pipe.cmds))

\* A block: what its pipeline declares is seen in its lists, what these
\* declare only in themselves, and nothing after it.
Elsewhere(r, before) == [r EXCEPT !.scope = before.scope]

BlockEnd(node, r, list, elseList) ==
  Elsewhere(Of(elseList, [node EXCEPT !.list = list.tree, !.elseList = elseList.tree]), r)
BlockElse(node, r, pipe, list) ==
  BlockEnd([node EXCEPT !.pipe = pipe.tree], r, list,
           IF node.elseList = NoList THEN Of(list, NoList) ELSE RenamedList(node.elseList, Elsewhere(list, pipe)))
BlockList(node, r, pipe) == BlockElse(node, r, pipe, RenamedList(node.list, pipe))

CatchEnd(node, list, catch) == Of(catch, [node EXCEPT !.list = list.tree, !.catchList = catch.tree])
TryList(node, r, list) == CatchEnd(node, list, RenamedList(node.catchList, Elsewhere(list, r)))

RenamedNode(node, r) ==
  CASE node.kind \in {"if", "with", "range", "while"} -> BlockList(node, r, RenamedPipe(node.pipe, r))
    [] node.kind = "try" -> Elsewhere(TryList(node, r, RenamedList(node.list, r)), r)
    [] node.kind \in {"action", "return", "template"} -> ArgOfPipe(node, RenamedPipe(node.pipe, r))
    [] OTHER -> Of(r, node)

RenamedList(list, r) ==
  FoldLeft(LAMBDA acc, node : Added(acc, RenamedNode(node, acc)), Of(r, <<>>), list)

Renamed(templates) ==
  [i \in DOMAIN templates |-> [templates[i] EXCEPT !.list = RenamedList(@, At0(<<>>, 0)).tree]]

-----------------------------------------------------------------------------
\* A variable is the one its block declares: giving every declaration a name
\* of its own changes nothing a run does (exec.go push, pop, setVar and
\* varValue).  Only a declaration directly in a try or a catch outlives its
\* block, for the code pops nothing there (exec.go:379).
NamesDoNotMatter ==
  Accepted /\ ~InAll(LeaksFromTry) =>
    LET other == RunTemplates(OwnNames(result.templates), Dot)
    IN  /\ other.out = result.run.out /\ other.signal = result.run.signal
        /\ other.ops = result.run.ops /\ other.ret = result.run.ret

\* A run ends with its last node, a return or an error: no break or continue
\* gets out of its loop, no caught error out of its try, and it is told of
\* the limit once, when it passes it, and stopped at the hard stop.  It
\* crashes only when a range sets variables it has not declared.
EndsCleanly ==
  Accepted =>
    /\ result.run.signal \in {"none", "return", "failed", "crashed"}
    /\ result.run.signal = "crashed" => InAll(AssignsInRange)
    /\ result.run.told = (IF result.run.ops > MaxOps THEN 1 ELSE 0)
    /\ result.run.ops > HardStop * MaxOps => result.run.signal = "failed"
    /\ result.run.try = 0 /\ result.run.depth = 0

\* The calls of the database that stand in a template and in the templates it
\* calls, as far as they nest: what a run without loops makes at most.
RECURSIVE CallsWritten(_, _, _)
CallsWritten(templates, name, depth) ==
  LET ListOf(n) == Each(SelectSeq(templates, LAMBDA t : t.name = n), LAMBDA t : t.list)
      calls == CallsIn(ListOf(name), FALSE)
  IN  FoldLeft(LAMBDA sum, c : sum + CASE c.calls = "database" -> 1
                                       [] c.calls = "template" /\ depth > 0 -> CallsWritten(templates, c.name, depth - 1)
                                       [] OTHER -> 0, 0, calls)

\* A template without a finding asks the database no more often than the calls
\* in it are written, each loop it has and however long they run: the check
\* before the run (loopcheck.go) misses no call in a loop, in the condition of
\* a while, in parentheses or in a template called there.
LoopCallsAreFound ==
  Accepted /\ FindLoopDBCalls(result.templates) = <<>> =>
    result.run.dbCalls <= CallsWritten(result.templates, Main, MaxDepth)

\* What is written out reads as the same template, unless something is
\* assigned: that is written as a declaration (node.go PipeNode.String).
ReadsWhatItWrites ==
  Accepted /\ ~InAll(AnyAssigns) =>
    \A i \in DOMAIN result.templates :
      ParseItems(WrittenList(result.templates[i].list) \o Sign("EOF")) =
        <<[name |-> Main, list |-> result.templates[i].list]>>

\* What is seen of an output: its characters and other values, without the
\* spaces at both ends (strings.TrimSpace of the response).
Seen(out) ==
  LET marks == Each(out, LAMBDA val :
                 IF val.kind = "string" THEN [i \in DOMAIN val.chars |-> [char |-> val.chars[i]]] ELSE <<val>>)
      solid == {i \in DOMAIN marks : "char" \in DOMAIN marks[i] => marks[i].char \notin Spaces}
      first == CHOOSE i \in solid : \A j \in solid : i <= j
      last  == CHOOSE i \in solid : \A j \in solid : i >= j
  IN  [all |-> marks, trimmed |-> IF solid = {} THEN <<>> ELSE SubSeq(marks, first, last)]

\* The templates, with one of them in the place of the command's own.
As(templates, name) ==
  LET at == CHOOSE i \in DOMAIN templates : templates[i].name = name
  IN  [i \in DOMAIN templates |-> IF templates[i].name = Main THEN [templates[at] EXCEPT !.name = Main] ELSE templates[i]]

\* The newline after a header is seen where the main template runs again, or
\* is sent, as minify.go does not expect.
HeaderIsSeen ==
  /\ Header(input).found /\ ~Header(input).trims
  /\ MainMayBeCalled(result.templates) \/ MainMayBeSent(result.templates)

\* yagmin's promise (minify.go, whitespace.go): the minified command is read
\* and runs as the command does, to the same response but for the spaces at
\* its ends, which are trimmed; what it sends as a message of its own, by
\* sendTemplate, is the same to the character.
MinifiedRunsAlike ==
  Accepted =>
    LET mini == ParseItems(Minified(result.templates, Header(input)))
        run  == RunTemplates(mini, Dot)
        sent == Everywhere(result.templates, SentIn)
        alone(templates, name) == Seen(RunTemplates(As(templates, name), Dot).out).all
    IN  /\ mini # NoTemplates
        /\ run.signal = result.run.signal /\ run.ops = result.run.ops /\ run.ret = result.run.ret
        /\ run.dbCalls = result.run.dbCalls
        /\ ~HeaderIsSeen =>
             /\ Seen(run.out).trimmed = Seen(result.run.out).trimmed
             /\ \A i \in DOMAIN result.templates :
                  LET name == result.templates[i].name
                  IN  name \in sent \/ AnyTemplate \in sent => alone(mini, name) = alone(result.templates, name)
=============================================================================
