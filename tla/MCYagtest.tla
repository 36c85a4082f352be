----------------------------- MODULE MCYagtest -----------------------------
(* Instance of TestSession: drafts, one test each, run once and unedited;   *)
(* and suites of up to two tests in two files, run twice and edited once, or    *)
(* watched and edited twice.  Beside them, commands that show messages.     *)
EXTENDS TestSession, MCShownMessages

CONSTANTS F1, F2, F3

\* F1 and F3 are f.yaml and f.yml.
MCFile == {F1, F2, F3}
MCSnapshotPath == [f \in MCFile |-> IF f = F3 THEN F1 ELSE f]
MCPrefix == <<"p">>
Channel == 1

Header == [type |-> "Command", text |-> <<"a">>, caseSensitive |-> "", showErrors |-> "", redirect |-> "",
           defer |-> "", interval |-> 0, group |-> FALSE, description |-> "", subs |-> <<>>, options |-> <<>>,
           file |-> <<"f">>]
Of(type) == [Header EXCEPT !.type = type, !.description = IF type = "Slash Command" THEN "good" ELSE ""]
Slash(rows) == [Of("Slash Command") EXCEPT !.options = rows]

NoFields == [fields |-> {}, user |-> 0, triggers |-> {}, execErrors |-> {}, execResponses |-> {}]
Context == [args |-> <<>>, message_content |-> <<>>, exec_data |-> "", reaction |-> "", interaction |-> NoInteraction,
            fields |-> {}, from |-> [f \in {} |-> ""], user |-> 0, channel |-> Channel,
            messages |-> {<<7, Channel>>, <<8, 2>>}, execErrors |-> {}, execResponses |-> {}]
NothingExpected == [no_trigger |-> FALSE, output |-> "", error |-> "", warning |-> ""]
Test == [file |-> F1, name |-> "n1", context |-> Context, setup |-> "", expected |-> NothingExpected,
         assertions |-> {}, snapshot |-> FALSE, commandStatus |-> <<>>]
Suite(tests) == [suite |-> TRUE, defaults |-> NoFields, commandStatus |-> <<>>, tests |-> tests]

-----------------------------------------------------------------------------
(* Drafts.                                                                  *)
Does == [NothingMade EXCEPT !.output = "o"]

Flags(update, prune, ci, stop) == [update |-> update, prune |-> prune, ci |-> ci, stop |-> stop]
Command(kind, config, paths) == [kind |-> kind, config |-> config, paths |-> paths]

\* The output of a run tells its data.
ForData(does) == [d \in {"", "d", "e"} |-> IF d = "e" THEN [does EXCEPT !.output = "e"] ELSE does]

Draft(header, suite) ==
  [files |-> [f \in File |-> IF f = F1 THEN suite ELSE NoSuite],
   template |-> [header |-> header, does |-> ForData(Does)],
   snaps |-> [p \in SnapshotFiles |-> NoneSaved],
   may |-> {Command("shell", Flags(FALSE, FALSE, FALSE, FALSE), <<<<F1>>>>)},
   most |-> [commands |-> 1, edits |-> 0, interrupts |-> 0]]

Says(header, context, no) ==
  Draft(header, Suite(<<[Test EXCEPT !.context = context, !.expected.no_trigger = no]>>))

Args == {<<>>, <<"b">>, <<"b", Space>>, <<Quote>>, <<Backslash>>, <<Tick, "b">>, <<"b", Backslash, Space>>,
         <<Backslash, Quote>>}
ArgDrafts == {Says(Of(t), [Context EXCEPT !.args = <<a, b>>], no) : t \in MessageTriggers, a, b \in Args, no \in BOOLEAN}
TypedArgs ==
  {<<"0">>, <<"2">>, <<"5">>, <<"-", "2">>, <<"1", "2">>, NaN, <<"9", "9", "9", "9">>,
   <<"<", "@", "5", ">">>, <<"<", "@", "!", "5", ">">>, <<"<", "@", "6", ">">>, <<"<", "@", "x", ">">>, <<"<", "@", "5", "x">>,
   <<"<", "#", "1", ">">>, <<"<", "#", "3", ">">>, <<"3">>, <<"r">>, <<"<", "@", "&", "3", ">">>, <<"<", "@", "&", ">">>,
   <<"2", "h", "1", "m">>, <<"1", "m", "o", "2", "s">>, <<"9", "y">>, <<"h">>, <<"2", "x">>}
TypedDrafts ==
  {Says(Header, [Context EXCEPT !.args = <<a>>], FALSE) : a \in TypedArgs}
  \cup {Says(Header, [Context EXCEPT !.args = <<a, b, <<"c">>>>], FALSE) : a, b \in Args}
MCServers == {[id |-> 1, user |-> 5, members |-> m, channels |-> {1, 2}, threads |-> {3}, roles |-> r] :
              m \in {{}, {5, 2}}, r \in {<<>>, <<[id |-> 2, name |-> <<"r">>], [id |-> 3, name |-> <<"5">>]>>}}
MCUnits == [s |-> 1, m |-> 3, h |-> 5, d |-> 11, w |-> 23, mo |-> 47, y |-> 400]
MCBounds == {<<>>, <<1, 4>>}
MCDurations == LET one == [n : {1, 2, 9}, unit : DOMAIN MCUnits] IN {<<p>> : p \in one} \cup {<<p, q>> : p, q \in one}
ContentDrafts ==
  {Says(Of(t), [Context EXCEPT !.message_content = m, !.args = a], no) :
   t \in MessageTriggers, m \in {<<"p", "a">>, <<"b", "A">>}, a \in {<<>>, <<<<"b">>>>}, no \in BOOLEAN}

Interactions ==
  {[NoInteraction EXCEPT !.type = "component", !.custom_id = <<"a", Space, "b">>, !.message_id = m, !.values = v,
                         !.component = k] : m \in {0, 7, 8}, v \in {<<>>, <<"v">>}, k \in {"", "button", "user_menu"}}
  \cup {[NoInteraction EXCEPT !.type = "slash", !.options = o, !.subcommand = s] :
        s \in {<<>>, <<"a">>},
        o \in {<<>>, <<[name |-> <<"A">>, value |-> [kind |-> "int", v |-> 3]]>>,
               <<[name |-> <<"a">>, value |-> [kind |-> "int", v |-> 9]]>>}}
  \cup {[NoInteraction EXCEPT !.type = "user_menu", !.target = 5], [NoInteraction EXCEPT !.type = "user_menu"],
        [NoInteraction EXCEPT !.type = "message_menu", !.message_id = 7, !.values = <<"v">>],
        [NoInteraction EXCEPT !.type = "message_menu", !.message_id = 7]}
  \cup {[NoInteraction EXCEPT !.type = "modal", !.custom_id = <<"a">>, !.message_id = m, !.form = "label",
           !.fields = f] : m \in {0, 7}, f \in {<<>>, <<[customID |-> <<"c">>, value |-> "v"]>>,
           <<[customID |-> <<"c">>, value |-> "v"], [customID |-> <<TemplatePrefix, "c">>, value |-> "w"]>>}}
  \cup {[NoInteraction EXCEPT !.type = "slash", !.delayed = d, !.responded_to = r] : d, r \in BOOLEAN}

Row(type) == [sub |-> <<>>, name |-> <<"a">>, type |-> type, required |-> FALSE, description |-> "good"]
InteractionHeaders ==
  {Of(t) : t \in {"Message Component", "Modal Submission", "Command", "Minute interval", "Role Change"} \cup ContextMenus}
  \cup {Slash(<<Row(t)>>) : t \in {"role", "number", "string"}}
  \cup {[Of("Slash Command") EXCEPT !.defer = "Ephemeral Message Response",
           !.subs = <<[sub |-> <<>>, name |-> <<"a">>, type |-> "", required |-> FALSE, description |-> "good"]>>]}
InteractionDrafts ==
  {Says(h, [Context EXCEPT !.interaction = i, !.exec_data = d, !.reaction = r], no) :
   h \in InteractionHeaders, i \in Interactions \cup {NoInteraction}, d \in {"", "d"}, r \in {"", "r"}, no \in BOOLEAN}

ExecDrafts ==
  {Draft(Header, [Suite(<<[Test EXCEPT !.context.fields = {"exec_responses"}, !.context.execResponses = {"ban"}]>>)
                  EXCEPT !.defaults.fields = {"exec_errors"}, !.defaults.execErrors = {e}]) : e \in {"ban", "kick"}}
FieldDrafts ==
  ExecDrafts \cup {Draft(Header, [Suite(<<[Test EXCEPT !.context.fields = t]>>) EXCEPT !.defaults.fields = d]) :
   t \in {{}, ContextFields} \cup {{f} : f \in ContextFields \cup ChannelFields}, d \in {{}, ContextFields, ChannelFields}}

Rows == {[r EXCEPT !.sub = s, !.required = q] : r \in {Row("string"), Row("string_menu")}, s \in {<<>>, <<"a">>},
         q \in BOOLEAN}
Named(rows) == [i \in DOMAIN rows |-> [rows[i] EXCEPT !.name = IF i = 1 THEN <<"a">> ELSE <<"b">>]]
HeaderDrafts ==
  {Draft([Slash(Named(rows)) EXCEPT !.group = TRUE, !.subs = s], Suite(<<Test>>)) :
   rows \in {<<x, y>> : x, y \in Rows} \cup {<<x>> : x \in Rows}, s \in {<<>>, <<Row("")>>}}
  \cup {Draft([Of(t) EXCEPT !.interval = n, !.group = TRUE], Suite(<<Test>>)) : t \in IntervalTriggers, n \in 0 .. 8}

-----------------------------------------------------------------------------
(* Suites.                                                                  *)
Effect(what) == [what |-> what, channel |-> Channel, delay |-> 0]
MakesA == [Does EXCEPT
  !.sent = <<Effect("hi")>>, !.edited = <<Effect("hi")>>, !.scheduled = <<Effect("cc")>>,
  !.deletions = <<Effect("trigger")>>, !.execs = <<Effect("ping")>>, !.reactions = <<Effect("add")>>,
  !.pins = <<Effect("pin")>>, !.responses = <<Effect("message")>>, !.roles = <<Effect("give")>>, !.db = {Effect("key")}]
Fails  == [MakesA EXCEPT !.error = "boom", !.failedChildren = {"child"}]
MCTemplates == {[header |-> Header, does |-> ForData(MakesA)], [header |-> Header, does |-> ForData(Fails)]}

Child == [Test EXCEPT !.context.exec_data = "d"]
Saved(name)  == [Child EXCEPT !.name = name, !.snapshot = TRUE]
Check(what, nth) == <<[what |-> what, channel |-> 0, delay |-> 0, nth |-> nth, absent |-> FALSE]>>
Unsaved == [Child EXCEPT !.assertions =
  {[of |-> of, checks |-> Check("", 1)] : of \in {"edited", "scheduled", "deletions", "execs", "reactions", "pins",
                                                   "responses", "roles", "db"}}
  \cup {[of |-> "sent", checks |-> Check("hi", 0)], [of |-> "pings", checks |-> <<>>]}]
Wrong == [Child EXCEPT !.name = "n2", !.assertions = {[of |-> "sent", checks |-> Check("hi", 2)],
                                                      [of |-> "noRoles", checks |-> <<>>]}]
Failing == [Unsaved EXCEPT !.expected.error = "boom", !.snapshot = TRUE]
MCWrites == {Suite(<<Saved("n1"), Saved("n2")>>), Suite(<<Saved("n2"), Unsaved>>), Suite(<<Wrong>>), Suite(<<Failing>>),
             Suite(<<Saved("n1"), [Saved("n1") EXCEPT !.context.exec_data = "e"]>>)}

Everywhere == <<<<F1, F2>>>>
EachFile   == <<<<F1>>, <<F2>>>>
Alike      == <<<<F1, F3>>>>
Plain    == Flags(FALSE, FALSE, FALSE, FALSE)
Updating == Flags(TRUE, FALSE, FALSE, TRUE)
InCI     == Flags(FALSE, FALSE, TRUE, FALSE)

Tested(one, t) ==
  [files |-> [f \in File |-> CASE f = F1 -> one [] f = F2 -> Suite(<<Saved("n2")>>) [] f = F3 -> NoSuite],
   template |-> t,
   snaps |-> [p \in SnapshotFiles |-> IF p = F1 THEN {[name |-> "n3", saved |-> TakeSnapshot(Does)]} ELSE NoneSaved],
   may |-> {Command("shell", c, p) : c \in {Updating, InCI}, p \in {Everywhere, EachFile}}
           \cup {Command("shell", c, Everywhere) : c \in {Plain, Flags(FALSE, TRUE, TRUE, TRUE)}},
   most |-> [commands |-> 2, edits |-> 1, interrupts |-> 0]]
Watched(one, t) ==
  [Tested(one, t) EXCEPT !.may = {Command("watch", Plain, Everywhere), Command("watch", Updating, EachFile)},
                         !.most = [commands |-> 1, edits |-> 2, interrupts |-> 0]]
SharedProjects ==
  {[Tested(Suite(<<Saved("n1"), Saved("n2")>>), t) EXCEPT
      !.files[F3] = s, !.most.edits = 0, !.most.commands = 3,
      !.may = {Command("shell", c, Alike) : c \in {Updating, InCI, Flags(FALSE, TRUE, FALSE, FALSE)}}] :
   t \in MCTemplates, s \in {Suite(<<Saved("n2")>>), Suite(<<[Saved("n1") EXCEPT !.context.exec_data = "e"]>>)}}
InterruptedProjects ==
  {[Tested(Suite(<<Saved("n1"), Saved("n2")>>), t) EXCEPT !.most = [commands |-> 3, edits |-> 0, interrupts |-> 1]]
   : t \in MCTemplates}
SessionProjects == InterruptedProjects \cup SharedProjects \cup {Tested(one, t) : one \in MCWrites, t \in MCTemplates}
WatchProjects ==
  LET both(t) == Watched(Suite(<<Saved("n1"), Saved("n2")>>), t)
  IN  {both(t) : t \in MCTemplates} \cup {[both(t) EXCEPT !.files[F2] = NoSuite] : t \in MCTemplates}

-----------------------------------------------------------------------------
(* A run is either of the sessions or of the messages; the other one rests. *)
Quiet == [files |-> [f \in File |-> NoSuite], template |-> [header |-> Header, does |-> ForData(Does)],
          snaps |-> [p \in SnapshotFiles |-> NoneSaved], may |-> {},
          most |-> [commands |-> 0, edits |-> 0, interrupts |-> 0]]

AllProjects ==
  InteractionDrafts \cup (HeaderDrafts \cup (ArgDrafts \cup (TypedDrafts \cup (ContentDrafts \cup (FieldDrafts \cup
  (SessionProjects \cup (WatchProjects \cup {Quiet})))))))
MCProjects == AllProjects

MCInit == /\ Init
          /\ IF may # {} THEN /\ command = [kind |-> 1, strict |-> FALSE, mayMention |-> FALSE]
                              /\ made = <<>> /\ shown = <<>> /\ modals = <<>> /\ mentioned = {}
                              /\ called = Len(AllShownCalls[1])
             ELSE ShownInit

\* F3 is never edited.
MCNext == \/ Next /\ files'[F3] = files[F3] /\ UNCHANGED shownVars
          \/ ShownNext /\ UNCHANGED vars

MCSpec == MCInit /\ [][MCNext]_<<vars, shownVars>> /\ WF_vars(Watch)

=============================================================================
