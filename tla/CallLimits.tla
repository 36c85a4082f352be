------------------------------ MODULE CallLimits ------------------------------
(* How many calls of each kind one run of a custom command may make: the   *)
(* counters of limits.go, which counters a function increments, in which   *)
(* order, and which functions say nothing when they are over.              *)
EXTENDS Naturals, FiniteSetsExt

\* Limits[k] is a counter's limit, without and with premium.
CONSTANTS Limits

Counters == {"db_interactions", "db_multiple", "api_call", "runcc", "cancelcc", "send_dm", "sort", "ticket",
             "create_thread", "message_pins", "exec_child", "exec", "add_reaction_trigger",
             "add_reaction_message", "del_reaction_message", "add_reaction_response"}

ASSUME LimitsAssumption == Limits \in [Counters -> [normal : Nat, premium : Nat]]

LimitOf(k, premium) == IF premium THEN Limits[k].premium ELSE Limits[k].normal

\* Functions past the limit that do nothing and say nothing.
Silent == {"sendMessage", "sendDM", "giveRole", "takeRole", "hasRole", "mentionRole"}

\* The counters a call increments, in YAGPDB's order.
LimitsOf(fn) ==
  CASE fn \in {"dbGet", "dbSet", "dbDel", "dbIncr"} -> <<"db_interactions">>
    [] fn \in {"dbGetPattern", "dbCount", "dbTopEntries", "dbRank", "dbDelMultiple"} ->
         <<"db_interactions", "db_multiple">>
    [] fn \in {"execCC", "scheduleUniqueCC"} -> <<"runcc">>
    [] fn = "cancelScheduledUniqueCC" -> <<"cancelcc">>
    [] fn = "exec" -> <<"exec">>
    [] fn = "sendTemplate" -> <<"exec_child">>
    [] fn = "sort" -> <<"sort">>
    [] fn = "createTicket" -> <<"ticket">>
    [] fn \in {"createForumPost", "createThread"} -> <<"create_thread">>
    [] fn \in {"pinMessage", "unpinMessage"} -> <<"message_pins">>
    [] fn = "sendDM" -> <<"send_dm", "api_call">>
    [] fn \in {"sendMessage", "giveRole", "takeRole", "hasRole", "mentionRole", "editMessage", "getMessage",
               "getMember", "getChannel", "getRole", "addRole", "removeRole", "targetHasRole", "userArg",
               "setRoles"} -> <<"api_call">>
    [] fn = "addReactions" -> <<"add_reaction_trigger">>
    [] fn = "addResponseReactions" -> <<"add_reaction_response">>
    [] fn = "addMessageReactions" -> <<"add_reaction_message">>
    [] fn = "deleteMessageReaction" -> <<"del_reaction_message">>
    [] fn = "deleteAllMessageReactions" -> <<"api_call">>
    [] OTHER -> <<>>

\* A plausible slip: one counter per call.
CountFirst(count, ks, premium) ==
  LET over == ks # <<>> /\ count[ks[1]] + 1 > LimitOf(ks[1], premium)
  IN [count |-> [k \in Counters |-> IF ks # <<>> /\ k = ks[1] THEN count[k] + 1 ELSE count[k]], over |-> over]

\* The first counter found over its limit stops the counting, itself counted.
CountCalls(count, ks, premium) ==
  LET over == {i \in DOMAIN ks : count[ks[i]] + 1 > LimitOf(ks[i], premium)}
      counted == {ks[i] : i \in {j \in DOMAIN ks : \A o \in over : j <= o}}
  IN [count |-> [k \in Counters |-> IF k \in counted THEN count[k] + 1 ELSE count[k]], over |-> over # {}]
=============================================================================
