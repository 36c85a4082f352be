------------------------------ MODULE TestCase ------------------------------
(* A test as a file gives it: loading, defaults, validation, and the        *)
(* context it describes (loader/testcase.go, loader/runner.go).             *)
(*                                                                          *)
(* The parts of a context that no rule looks at are fields by name: a test  *)
(* or its suite's defaults gives a field or does not, and the run has the   *)
(* test's, the default or the standard value of it.  What triggers the run, *)
(* the messages there are and the run's channel are kept as they are.       *)
EXTENDS Submission

CONSTANTS
  Bot,                  \* the bot's user
  MaxFields             \* the most fields of a modal (5)

\* The fields of a context (ContextDef and the definitions in it).
UserFields  == {"user.id", "user.username", "user.discriminator", "user.roles"}
GuildFields == {"guild.id", "guild.name", "guild.icon", "guild.roles", "guild.channels", "guild.owner_id",
                "guild.prefix", "guild.bot_mention_everyone"}
ContextFields ==
  {"channel.id", "channel.name", "premium", "clock", "seed", "messages", "members", "member_roles",
   "member_nicks", "member_joined_ago", "exec_responses", "exec_errors", "pins_full"}
  \cup UserFields \cup GuildFields

\* The fields of context.channel beside its ID and its name: the loader takes them, and
\* only an entry of guild.channels gives the run's channel any of them.
ChannelFields == {"channel.type", "channel.parent_id", "channel.position", "channel.topic", "channel.nsfw",
                  "channel.available_tags", "channel.bot_cannot_send", "channel.permission_overwrites"}
AllFields == ContextFields \cup ChannelFields

-----------------------------------------------------------------------------
(* Interactions.                                                            *)

\* onlyFields: those a type takes.
FieldsOf(type) ==
  CASE type = "component"    -> {"custom_id", "message_id", "values", "component"}
    [] type = "slash"        -> {"subcommand", "options"}
    [] type = "user_menu"    -> {"target"}
    [] type = "message_menu" -> {"message_id"}
    [] type = "modal"        -> {"custom_id", "message_id", "fields", "form"}
    [] OTHER                 -> {}

GivenFields(i) ==
  {f \in {"custom_id", "values", "subcommand", "options", "fields"} : i[f] # <<>>}
  \cup {f \in {"message_id", "target"} : i[f] # 0} \cup {f \in {"component", "form"} : i[f] # ""}

OnlyFields(i, allowed) == GivenFields(i) \subseteq allowed

MenuKinds == {"string_menu", "user_menu", "role_menu", "mentionable_menu", "channel_menu"}

\* The fields of a modal have custom IDs, each its own.
ValidFields(fields) ==
  LET id(i) == WithTemplatePrefix(fields[i].customID)
  IN  /\ Len(fields) \in 1 .. MaxFields
      /\ \A i, j \in DOMAIN fields : id(i) # <<TemplatePrefix>> /\ (id(i) = id(j) => i = j)

\* InteractionDef.validate
ValidInteraction(i) ==
  /\ i.responded_to => i.delayed
  /\ IF i.delayed THEN i.type = "slash" /\ OnlyFields(i, {})
     ELSE /\ OnlyFields(i, FieldsOf(i.type))
          /\ CASE i.type = "component"    -> /\ i.component \in MenuKinds \cup {"", "button"}
                                             /\ i.custom_id # <<>> /\ i.message_id # 0
                                             /\ i.component \in MenuKinds \/ i.values = <<>>
               [] i.type = "slash"        -> TRUE
               [] i.type = "user_menu"    -> i.target # 0
               [] i.type = "message_menu" -> i.message_id # 0
               [] i.type = "modal"        -> /\ i.custom_id # <<>> /\ ValidFields(i.fields)
                                             /\ i.form \in {"", "action_row", "label"}
               [] OTHER -> FALSE

NoInteraction == [type |-> "", custom_id |-> <<>>, message_id |-> 0, values |-> <<>>, component |-> "",
                  subcommand |-> <<>>, options |-> <<>>, target |-> 0, fields |-> <<>>, form |-> "",
                  delayed |-> FALSE, responded_to |-> FALSE]

-----------------------------------------------------------------------------
(* Loading.                                                                 *)

\* A plausible slip: a reaction beside the interaction is let through.
ValidateContextButReaction(c) ==
  c.interaction # NoInteraction =>
    /\ c.interaction.delayed => c.exec_data # ""
    /\ c.args = <<>> /\ c.message_content = <<>>
    /\ c.exec_data = "" \/ c.interaction.delayed
    /\ ValidInteraction(c.interaction)

\* validateContext: an interaction comes alone, but for the data of a delayed one.
ValidateContext(c) ==
  c.interaction # NoInteraction =>
    /\ c.interaction.delayed => c.exec_data # ""
    /\ c.args = <<>> /\ c.message_content = <<>> /\ c.reaction = ""
    /\ c.exec_data = "" \/ c.interaction.delayed
    /\ ValidInteraction(c.interaction)

\* validateNoTrigger
ValidateNoTrigger(test) ==
  test.expected.no_trigger =>
    /\ test.expected = [test.expected EXCEPT !.output = "", !.error = "", !.warning = ""]
    /\ test.assertions = {} /\ ~test.snapshot
    /\ test.context.exec_data = "" /\ test.context.reaction = ""

\* validateDeclared, after mergeDefaults in a suite.
ValidateDeclared(test) ==
  /\ Range(test.commandStatus) \subseteq {"missing", "disabled", "group_disabled"}
  /\ test.context.execErrors \cap test.context.execResponses = {}

\* mergeDefaults: which fields a test takes from its suite's defaults.
MergedFields ==
  UserFields \cup GuildFields \cup
  {"channel.id", "channel.name", "premium", "clock", "seed", "messages", "members", "member_roles",
   "member_nicks", "member_joined_ago", "exec_responses", "exec_errors", "pins_full"}

MergeDefaults(test, defaults) ==
  [f \in AllFields |->
     CASE f \in test.context.fields -> "test"
       [] f \notin test.context.fields /\ f \in defaults.fields /\ f \in MergedFields -> "default"
       [] OTHER -> "standard"]

\* A test of a suite, with the defaults merged; "user" is the bot or another.
Merged(test, suite) ==
  [test EXCEPT !.context = [@ EXCEPT
     !.from = MergeDefaults(test, suite.defaults),
     !.user = IF @ # 0 THEN @ ELSE suite.defaults.user,
     !.execErrors = IF "exec_errors" \in test.context.fields THEN @ ELSE suite.defaults.execErrors,
     !.execResponses = IF "exec_responses" \in test.context.fields THEN @ ELSE suite.defaults.execResponses],
   !.commandStatus = test.commandStatus @@ suite.commandStatus]

\* LoadTestSuite refuses the file for one test of it.
LoadTestSuite(suite) ==
  LET tests == [i \in DOMAIN suite.tests |-> Merged(suite.tests[i], suite)]
      valid(test) == /\ test.context.user # Bot
                     /\ ValidateDeclared(test) /\ ValidateContext(test.context) /\ ValidateNoTrigger(test)
  IN  [ok |-> suite.defaults.triggers = {} /\ \A i \in DOMAIN tests : valid(tests[i]), tests |-> tests]

\* LoadTestCase: a file that holds one test, and no suite.
LoadTestCase(suite) ==
  LET test == Merged(suite.tests[1], suite)
  IN  [ok |-> ValidateDeclared(test) /\ ValidateContext(test.context) /\ ValidateNoTrigger(test),
       tests |-> <<test>>]

\* LoadTestFile
LoadTestFile(file) == IF file.suite THEN LoadTestSuite(file) ELSE LoadTestCase(file)

-----------------------------------------------------------------------------
(* The context of a run.                                                    *)

\* newContext reads every field but those of context.channel that only the channels of
\* guild.channels have an effect of: the loader takes them and the run does without them.
ReadFields == ContextFields

NewContext(test) ==
  LET c == test.context
  IN  [from     |-> [f \in AllFields |->
                       IF f \in ReadFields THEN c.from[f] ELSE "standard"],
       world    |-> [channel |-> c.channel, messages |-> c.messages],
       ctx      |-> [NoContext EXCEPT !.execData = c.exec_data, !.reaction = c.reaction]]

\* The interaction as the runtime takes it, by the trigger it needs.
SetInteraction(ctx, world, t, h, i) ==
  LET mode == ReadDeferMode(h)
      kind == IF i.component = "" THEN "button" ELSE i.component
  IN  CASE i.type = "component" -> SetInteractionComponent(ctx, world, t,
             [customID |-> i.custom_id, message |-> i.message_id, kind |-> kind, values |-> i.values], mode)
        [] i.type = "slash" ->
             IF SlashTriggered(t) /\ ReadSlashCommand(h).ok
             THEN SetInteractionSlash(ctx, t, ReadSlashCommand(h),
                                      [subcommand |-> i.subcommand, options |-> i.options], mode)
             ELSE Refused
        [] i.type = "user_menu" /\ t.type = "User Context Menu" ->
             SetInteractionContextMenu(ctx, world, t, [user |-> i.target, message |-> 0], mode)
        [] i.type = "message_menu" /\ t.type = "Message Context Menu" ->
             SetInteractionContextMenu(ctx, world, t, [user |-> 0, message |-> i.message_id], mode)
        [] i.type = "modal" -> SetInteractionModal(ctx, world, t,
             [customID |-> i.custom_id, fields |-> i.fields, message |-> i.message_id, form |-> i.form], mode)
        [] OTHER -> Refused

\* A template without a header is a command named after its file.
TriggerOf(h) == IF HasTrigger(h) THEN ReadTrigger(h)
                ELSE [type |-> "Command", text |-> h.file, caseSensitive |-> FALSE]

\* The message of a message trigger: the one given, or the trigger and the arguments.
FromMessage(ctx, t, c) ==
  CASE c.message_content # <<>> /\ c.args # <<>>    -> Refused
    [] c.message_content = <<>> /\ t.type = "Regex" -> Refused
    [] OTHER -> SetTriggerMessage(ctx, t, IF c.message_content = <<>> THEN TriggerMessage(Prefix, t, c.args)
                                          ELSE c.message_content)

\* setTriggerMessage
SetTrigger(test, h) ==
  LET c     == test.context
      new   == NewContext(test)
      t     == TriggerOf(h)
      saying == c.args # <<>> \/ c.message_content # <<>>
      ctx   == [new.ctx EXCEPT !.content = c.message_content]
  IN  CASE c.exec_data # "" \/ c.reaction # "" ->
             IF c.args # <<>> THEN Refused
             ELSE Run(IF c.interaction.delayed THEN SetInteractionDelayed(ctx, c.interaction.responded_to) ELSE ctx)
        [] c.exec_data = "" /\ c.reaction = "" /\ c.interaction # NoInteraction ->
             SetInteraction(new.ctx, new.world, t, h, c.interaction)
        [] OTHER ->
             CASE ComponentTriggered(t) \/ ModalTriggered(t) \/ SlashTriggered(t) \/ IsContextMenu(t) -> Refused
               [] MessageTriggered(t) -> FromMessage(new.ctx, t, c)
               [] OTHER -> IF saying THEN Refused
                           ELSE Run([new.ctx EXCEPT !.noMessage = Scheduled(t), !.noMember = Scheduled(t)])
=============================================================================
