--------------------------- MODULE MCEmulatedRun ---------------------------
(* The instance of EmulatedRun that TLC checks: programs of three calls,    *)
(* of which the first sets the scene: another command, a thread, a response *)
(* to be deleted, a scheduled run, or nothing (a function without a limit). *)
EXTENDS EmulatedRun

\* One of most things, so that a second or a third call is over the limit.
MCLimits == [k \in Counters |->
  [normal |-> 1, premium |-> IF k \in {"db_interactions", "db_multiple", "runcc", "sort"} THEN 2 ELSE 1]]

AnyCall ==
  {[fn |-> "sendMessage", ch |-> ch, body |-> "short"] : ch \in {"own", "muted", "unknown"}} \cup
  {[fn |-> "sendMessage", ch |-> "own", body |-> b] : b \in {"large", "badComponents"}} \cup
  {[fn |-> "sendDM", body |-> b] : b \in {"short", "large"}} \cup
  {[fn |-> "editMessage", ch |-> "own", msg |-> m, body |-> "short"] : m \in {"sent", "trigger"}} \cup
  {[fn |-> "editMessage", ch |-> "unknown", msg |-> "sent", body |-> "short"],
   [fn |-> "deleteMessage", ch |-> "own", msg |-> "sent"], [fn |-> "deleteTrigger"],
   [fn |-> "deleteResponse", when |-> "now"], [fn |-> "deleteResponse", when |-> "later"]} \cup
  {[fn |-> "takeRole", user |-> "user", role |-> "held", delayed |-> FALSE]} \cup
  {[fn |-> "takeRole", user |-> "stranger", role |-> "held", delayed |-> d] : d \in BOOLEAN} \cup
  {[fn |-> "addRole", user |-> "user", role |-> r, delayed |-> FALSE] : r \in {"free", "unknown"}} \cup
  {[fn |-> "setRoles", user |-> "user"]} \cup
  {[fn |-> "targetHasRole", user |-> "stranger", role |-> "held"]} \cup
  {[fn |-> f] : f \in {"dbSet", "dbCount", "sort"}} \cup
  {[fn |-> "exec", answer |-> a] : a \in {"declared", "error", "undeclared"}} \cup
  {[fn |-> "sleep", seconds |-> n] : n \in {0, 1}} \cup
  {[fn |-> "addReactions", emoji |-> e] : e \in {"text", "notText"}} \cup
  {[fn |-> "addResponseReactions"]} \cup
  {[fn |-> f, ch |-> "own", msg |-> m, emoji |-> "text"] :
     f \in {"addMessageReactions", "deleteMessageReaction"}, m \in {"sent", "trigger"}} \cup
  {[fn |-> "deleteAllMessageReactions", ch |-> "own", msg |-> "sent", emoji |-> "text"]} \cup
  {[fn |-> "addMessageReactions", ch |-> "unknown", msg |-> "sent", emoji |-> "text"]} \cup
  {[fn |-> "pinMessage", ch |-> ch, msg |-> m] : ch \in {"own", "full"}, m \in {"sent", "trigger"}} \cup
  {[fn |-> "unpinMessage", ch |-> "thread", msg |-> "starter"]} \cup
  {[fn |-> "createForumPost", ch |-> "forum", body |-> "short", name |-> n, options |-> "good"] : n \in {"good", "bad"}} \cup
  {[fn |-> "createForumPost", ch |-> "forum", body |-> "large", name |-> "good", options |-> "good"],
   [fn |-> "createForumPost", ch |-> "forum", body |-> "short", name |-> "good", options |-> "bad"]} \cup
  {[fn |-> "createThread", ch |-> "own", msg |-> m, name |-> "good", options |-> "good"] : m \in {"no", "sent"}} \cup
  {[fn |-> "execCC", cc |-> cc, ch |-> "own", delayed |-> d, data |-> "small", long |-> FALSE] :
     cc \in {"mapped", "unmapped"}, d \in {FALSE}} \cup
  {[fn |-> "execCC", cc |-> cc, ch |-> "own", delayed |-> TRUE, data |-> "small", long |-> FALSE] : cc \in {"mapped", "missing"}} \cup
  {[fn |-> "execCC", cc |-> "mapped", ch |-> "full", delayed |-> FALSE, data |-> "small", long |-> TRUE],
   [fn |-> "execCC", cc |-> "mapped", ch |-> "own", delayed |-> TRUE, data |-> "large", long |-> FALSE]} \cup
  {[fn |-> "scheduleUniqueCC", cc |-> "mapped", ch |-> "own", delayed |-> TRUE, data |-> "large", key |-> k] : k \in {"k1", "k2"}} \cup
  {[fn |-> "cancelScheduledUniqueCC", cc |-> "mapped", key |-> "k1"]}

First == {c \in AnyCall :
  \/ c.fn = "execCC" /\ c.cc = "mapped" /\ ~c.delayed /\ ~c.long
  \/ c.fn = "createForumPost" /\ c.body = "short" /\ c.name = "good" /\ c.options = "good"
  \/ c.fn = "deleteResponse" /\ c.when = "now"
  \/ c.fn = "scheduleUniqueCC" /\ c.key = "k1"}

MCCalls == <<First \cup {[fn |-> "len"]}, AnyCall, AnyCall>>
=============================================================================
