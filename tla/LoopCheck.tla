------------------------------ MODULE LoopCheck ------------------------------
(* The check for calls of the database in loops, before a template is run  *)
(* (runtime/loopcheck.go): each iteration is a call against the limit.     *)
EXTENDS TemplateExec

\* A call: of the database or of a template that is named by a string, and
\* whether it stands in a loop.
DatabaseCall(name, inLoop) == [calls |-> "database", name |-> name, inLoop |-> inLoop]
TemplateCalled(name, inLoop) == [calls |-> "template", name |-> name, inLoop |-> inLoop]

IsDBFunc(name) == name \in DatabaseFunctions

RECURSIVE CallsOfPipe(_, _), CallsOfArg(_, _), CallsOf(_, _)

\* A function is called wherever its name stands.
CallsOfArg(node, inLoop) ==
  CASE node.kind = "function" /\ IsDBFunc(node.name) -> <<DatabaseCall(node.name, inLoop)>>
    [] node.kind = "pipe" -> CallsOfPipe(node.pipe, inLoop)
    [] node.kind = "chain" -> CallsOfArg(node.node, inLoop)
    [] OTHER -> <<>>

CallsOfCommand(cmd, inLoop) ==
  (IF cmd[1].kind = "function" /\ cmd[1].name = "execTemplate" /\ Len(cmd) > 1 /\ cmd[2].kind = "string"
   THEN <<TemplateCalled(cmd[2].name, inLoop)>> ELSE <<>>) \o
  FlattenSeq([i \in DOMAIN cmd |-> CallsOfArg(cmd[i], inLoop)])

CallsOfPipe(pipe, inLoop) == FlattenSeq([i \in DOMAIN pipe.cmds |-> CallsOfCommand(pipe.cmds[i], inLoop)])

CallsIn(list, inLoop) == FlattenSeq([i \in DOMAIN list |-> CallsOf(list[i], inLoop)])
ElseCalls(node, inLoop) == IF node.elseList = NoList THEN <<>> ELSE CallsIn(node.elseList, inLoop)

\* A plausible slip: the condition of a while runs once, like what a range is over.
CallsOfConditionOnce(node, inLoop) ==
  CASE node.kind \in {"action", "return"} -> CallsOfPipe(node.pipe, inLoop)
    [] node.kind \in {"if", "with"} ->
         CallsOfPipe(node.pipe, inLoop) \o CallsIn(node.list, inLoop) \o ElseCalls(node, inLoop)
    [] node.kind \in Loops ->
         CallsOfPipe(node.pipe, inLoop) \o CallsIn(node.list, TRUE) \o ElseCalls(node, inLoop)
    [] node.kind = "try" -> CallsIn(node.list, inLoop) \o CallsIn(node.catchList, inLoop)
    [] node.kind = "template" -> CallsOfPipe(node.pipe, inLoop) \o <<TemplateCalled(node.name, inLoop)>>
    [] OTHER -> <<>>

\* walk: the condition of a while is evaluated again in every iteration, what
\* a range is over only once, and an else once.
CallsOf(node, inLoop) ==
  CASE node.kind \in {"action", "return"} -> CallsOfPipe(node.pipe, inLoop)
    [] node.kind \in {"if", "with"} ->
         CallsOfPipe(node.pipe, inLoop) \o CallsIn(node.list, inLoop) \o ElseCalls(node, inLoop)
    [] node.kind = "range" ->
         CallsOfPipe(node.pipe, inLoop) \o CallsIn(node.list, TRUE) \o ElseCalls(node, inLoop)
    [] node.kind = "while" ->
         CallsOfPipe(node.pipe, TRUE) \o CallsIn(node.list, TRUE) \o ElseCalls(node, inLoop)
    [] node.kind = "try" -> CallsIn(node.list, inLoop) \o CallsIn(node.catchList, inLoop)
    [] node.kind = "template" -> CallsOfPipe(node.pipe, inLoop) \o <<TemplateCalled(node.name, inLoop)>>
    [] OTHER -> <<>>

-----------------------------------------------------------------------------
NoFunction == "none"

RECURSIVE DBFuncIn(_, _, _)

\* dbFuncIn: the first function of the database in a template or in one it
\* calls, each looked at once.
DBFuncIn(templates, name, seen) ==
  LET here  == SelectSeq(templates, LAMBDA t : t.name = name)
      calls == CallsIn(here[1].list, TRUE)
      own   == SelectSeq(calls, LAMBDA c : c.calls = "database")
      called(acc, c) ==
        IF acc.func # NoFunction \/ c.calls = "database" THEN acc ELSE DBFuncIn(templates, c.name, acc.seen)
  IN  CASE here = <<>> \/ name \in seen -> [func |-> NoFunction, seen |-> seen]
        [] here # <<>> /\ name \notin seen /\ own # <<>> -> [func |-> own[1].name, seen |-> seen \cup {name}]
        [] OTHER -> FoldLeft(called, [func |-> NoFunction, seen |-> seen \cup {name}], calls)

\* findLoopDBCalls: the calls in loops that ask the database, or call a
\* template that does, with the function.
FindLoopDBCalls(templates) ==
  LET asks(c) == IF c.calls = "database" THEN c.name ELSE DBFuncIn(templates, c.name, {}).func
      found(list) == SelectSeq(CallsIn(list, FALSE), LAMBDA c : c.inLoop /\ asks(c) # NoFunction)
  IN  FlattenSeq([i \in DOMAIN templates |-> found(templates[i].list)])
=============================================================================
