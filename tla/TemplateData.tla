---------------------------- MODULE TemplateData ----------------------------
(* The data a template sees of its run (runtime/context.go), and of a run   *)
(* that execCC starts from it (runtime/engine.go).                          *)
(*                                                                          *)
(* Data is a function from the keys there are.  A message is [of, id], "of" *)
(* whose it is; blank messages and the test's own have no ID here.          *)
EXTENDS Submission

MessageOf(of, id) == [of |-> of, id |-> id]
BlankMessage(by) == MessageOf(by, 0)

\* The keys that are always there, and tell of the server, the channel and the test.
Always == {"Guild", "Server", "server", "ServerPrefix", "Channel", "channel", "ChannelOrThreadParent", "BotUser",
           "Permissions", "IsPremium", "DiscordEpoch", "UnixEpoch", "TimeHour", "TimeMinute", "TimeSecond", "nil"}
MemberKeys == {"User", "user", "Member"}

Key(name, value)      == name :> value
Keys(names, value)    == [k \in names |-> value]
When(condition, data) == IF condition THEN data ELSE <<>>

-----------------------------------------------------------------------------
(* Messages.  A child has the message its caller passed on.                 *)
IsChild(ctx)  == ctx.depth > 0
Slashed(ctx)  == ctx.interaction = "slash" /\ ~ctx.delayed /\ ~IsChild(ctx)
Menu(ctx)     == ctx.interaction \in {"user_menu", "message_menu"} /\ ~IsChild(ctx)
Clicked(ctx)  == ctx.interaction = "component" /\ ~IsChild(ctx)
Submitted(ctx) == ctx.interaction = "modal" /\ ~IsChild(ctx)

\* componentMessage, slashMessage, modalMessage
ComponentMessage(ctx) == MessageOf("user", ctx.message)
SlashMessage(ctx)     == BlankMessage("user")
ModalMessage(ctx)     == MessageOf("user", ctx.message)

\* A plausible slip: a child of a context menu entry gets the bot's blank message.
TriggerMsgButMenus(ctx) ==
  CASE IsChild(ctx)                -> ctx.inherited
    [] ctx.reaction # ""           -> MessageOf("reactor", 1)
    [] Clicked(ctx)                -> ComponentMessage(ctx)
    [] Slashed(ctx) \/ ctx.delayed -> SlashMessage(ctx)
    [] Submitted(ctx)              -> ModalMessage(ctx)
    [] Menu(ctx) \/ ctx.noMessage  -> BlankMessage("bot")
    [] OTHER                       -> MessageOf("user", 2)

\* triggerMsg
TriggerMsg(ctx) ==
  CASE IsChild(ctx)                -> ctx.inherited
    [] ctx.reaction # ""           -> MessageOf("reactor", 1)
    [] Clicked(ctx)                -> ComponentMessage(ctx)
    [] Slashed(ctx) \/ ctx.delayed -> SlashMessage(ctx)
    [] Submitted(ctx)              -> ModalMessage(ctx)
    [] Menu(ctx) /\ ctx.message # 0 -> MessageOf("author", ctx.message)
    [] ctx.noMessage               -> BlankMessage("bot")
    [] OTHER                       -> MessageOf("user", 2)

-----------------------------------------------------------------------------
(* What the handlers set.                                                   *)

\* A match's keys: the command, what it took of the custom ID and what is left.
MatchKeys(ctx) ==
  Key("CustomID", ctx.customID) @@ Key("Cmd", ctx.cmd) @@ Key("CmdArgs", ctx.cmdArgs)
  @@ Keys({"StrippedID", "StrippedMsg"}, ctx.stripped)

\* ComponentTrigger.setData, menuTypeName
ComponentData(ctx) ==
  MatchKeys(ctx) @@ Key("InteractionData", "component") @@ Key("Message", ComponentMessage(ctx))
  @@ (IF ctx.kind = "button" THEN Key("IsButton", TRUE)
      ELSE Key("IsMenu", TRUE) @@ Key("MenuType", ctx.kind) @@ Key("Values", ctx.chosen))

\* ModalTrigger.setData
ModalKeys(ctx) ==
  MatchKeys(ctx) @@ Key("InteractionData", "modal") @@ Key("Message", ModalMessage(ctx)) @@ Key("IsModal", TRUE)
  @@ Key("Values", ctx.values) @@ Key("ModalValues", ctx.modalValues)

\* SlashTrigger.setData: the arguments are the values of the options.
SlashData(ctx) ==
  LET values == [i \in DOMAIN ctx.options |-> ctx.options[i][2]]
  IN  Key("InteractionData", "command") @@ Key("IsSlashCommand", TRUE) @@ Key("Message", SlashMessage(ctx))
      @@ Keys({"CommandName", "Cmd"}, ctx.cmd) @@ Key("SubCommand", ctx.subcommand) @@ Key("Options", ctx.options)
      @@ Key("Args", <<ctx.cmd>> \o values) @@ Key("CmdArgs", values)

\* ContextMenuTrigger.setData
MenuData(ctx) ==
  Key("InteractionData", "command") @@ Key("IsContextMenuCommand", TRUE) @@ Key("CommandType", ctx.interaction)
  @@ Keys({"CommandName", "Cmd"}, ctx.cmd) @@ Key("Author", "user")
  @@ When(ctx.target # 0, Key("TargetUser", ctx.target) @@ Key("TargetMember", ctx.targetMember))
  @@ When(ctx.message # 0, Key("Message", MessageOf("author", ctx.message)))

\* SetTriggerMessage's
ArgumentKeys(ctx) ==
  Key("Args", ctx.args) @@ Key("CmdArgs", ctx.cmdArgs) @@ Key("StrippedMsg", ctx.stripped) @@ Key("Cmd", ctx.cmd)

\* Every child, and no other run, has ExecData when it is nil.
ExecKeys(ctx) ==
  When(IsChild(ctx) \/ ctx.execData # "", Key("ExecData", ctx.execData))
  @@ When(IsChild(ctx), Key("StackDepth", ctx.depth))

\* What a run has before its handler's keys.
BaseMessage(ctx) ==
  CASE IsChild(ctx) -> Key("Message", ctx.inherited)
    [] ~IsChild(ctx) /\ ctx.noMessage -> <<>>
    [] OTHER -> Key("Message", MessageOf("user", 2))

\* BuildTemplateData: what comes later in the code stands first.
BuildTemplateData(ctx) ==
  LET reacted == MessageOf("author", 1)
      top     == ~IsChild(ctx)
  IN  When(ctx.triggered, ArgumentKeys(ctx))
      @@ When(Submitted(ctx), ModalKeys(ctx))
      @@ When(Menu(ctx), MenuData(ctx))
      @@ When(Slashed(ctx), SlashData(ctx))
      @@ When(Clicked(ctx), ComponentData(ctx))
      @@ When(ctx.delayed /\ top, Key("Message", SlashMessage(ctx)))
      @@ When(ctx.interaction # "", Key("Interaction", IF ctx.delayed /\ top THEN "inner" ELSE "whole"))
      @@ When(ctx.reaction # "" /\ top,
              Key("Reaction", ctx.reaction) @@ Key("ReactionAdded", TRUE) @@ Keys({"ReactionMessage", "Message"}, reacted))
      @@ When(~ctx.noMember, Keys(MemberKeys, "user"))
      @@ BaseMessage(ctx) @@ ExecKeys(ctx) @@ Keys(Always, TRUE)

-----------------------------------------------------------------------------
\* execCC: the child's context.  The interaction is the caller's, what its handler set
\* is not, nor are the arguments.
ChildContext(ctx, data) ==
  [NoContext EXCEPT !.content = ctx.content, !.execData = data, !.interaction = ctx.interaction,
     !.respondedTo = ctx.respondedTo, !.deferred = ctx.deferred, !.noMember = ctx.noMember,
     !.depth = ctx.depth + 1, !.inherited = TriggerMsg(ctx)]
=============================================================================
