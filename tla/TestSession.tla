---------------------------- MODULE TestSession ----------------------------
(* yagtest test and yagtest watch over a project of test files and their    *)
(* snapshots, while the files are edited (cmd/yagtest/main.go, watch.go,    *)
(* loader/testcase.go, loader/snapshot.go).                                 *)
(*                                                                          *)
(* A project is a function from files to suites and the template its tests  *)
(* run.  Sessions come one at a time and may be interrupted; editing goes   *)
(* on beside them.  The number of an edit is the modification time it       *)
(* leaves.  A path on the command line is the list of its test files: those *)
(* under a directory, in order, or the one file it is.  The commands an     *)
(* author of a project may give are [kind, config, paths], config the flags *)
(* [update, prune, ci, stop]; "most" bounds how many commands, edits and    *)
(* interrupts there are.                                                    *)
EXTENDS TestRunner, ArgParser, TemplateData

CONSTANTS
  File,             \* the test files
  SnapshotPath,     \* the snapshot file of each: foo.yaml and foo.yml share one
  Projects,         \* what there may be at first: [files, template, snaps, unreadable, may, most]
  Writes,           \* the suites an edit may leave in a file
  Templates,        \* the templates an edit may leave
  Servers,          \* the servers, and
  Bounds,           \* the bounds, that a test's arguments are parsed with
  Durations         \* durations as they are written: lists of [n, unit]

VARIABLES
  files,            \* the files: [at, suite], NoSuite where there is none
  template,         \* the template: [at, header, does], does by the data of a run
  snaps,            \* the snapshots in each snapshot file
  unreadable,       \* the snapshot files that were cut off so that they are no YAML
  may,              \* the commands that may be given
  left,             \* how many commands, edits and interrupts there may still be
  now,              \* the number of the last edit
  session,          \* the session that runs
  watch,            \* the watcher's last scan, and what its last rerun read
  blessed           \* the edit and paths of every -update-snapshots session that was green

vars == <<files, template, snaps, unreadable, may, left, now, session, watch, blessed>>

NoSuite == [suite |-> FALSE, commandStatus |-> <<>>, tests |-> <<>>,
            defaults |-> [fields |-> {}, user |-> 0, triggers |-> {}, execErrors |-> {}, execResponses |-> {}]]

SnapshotFiles == {SnapshotPath[f] : f \in File}

\* What a file holds: a suite of any number of tests, or one test.
IsSuite(s) ==
  /\ IsList(s.tests) /\ (s.suite \/ Len(s.tests) = 1)
  /\ \A t \in Range(s.tests) : {"file", "name", "context", "setup", "expected", "assertions", "snapshot"} \subseteq DOMAIN t

\* A file of snapshots is a map from names, and a path names test files.
ASSUME ProjectsAssumption ==
  /\ "template" \notin File
  /\ \A s \in Writes : IsSuite(s)
  /\ \A p \in Projects :
       /\ \A f \in File : p.files[f] = NoSuite \/ IsSuite(p.files[f])
       /\ p.snaps \in [SnapshotFiles -> {p.snaps[q] : q \in SnapshotFiles}]
       /\ \A q \in SnapshotFiles : \A s, z \in p.snaps[q] : s.name = z.name => s = z
       /\ \A c \in p.may : /\ IsList(c.paths)
                           /\ \A path \in Range(c.paths) : IsList(path) /\ Range(path) \subseteq File

Idle == [kind |-> "none", config |-> [update |-> FALSE, prune |-> FALSE, ci |-> FALSE, stop |-> FALSE],
         paths |-> <<>>, todo |-> <<>>, phase |-> "path", listed |-> <<>>, unread |-> <<>>, tests |-> <<>>,
         done |-> 0, bad |-> FALSE, code |-> 0, ran |-> {}, read |-> {}, began |-> 0]

Begin(c) ==
  [Idle EXCEPT !.kind = c.kind, !.config = c.config, !.paths = c.paths, !.todo = c.paths, !.began = now]

Init ==
  /\ \E p \in Projects :
       /\ files = [f \in File |-> [at |-> 0, suite |-> p.files[f]]]
       /\ template = [at |-> 0, header |-> p.template.header, does |-> p.template.does]
       /\ snaps = p.snaps
       /\ unreadable = {}
       /\ may = p.may
       /\ left = p.most
  /\ now = 0
  /\ session = Idle
  /\ watch = [last |-> {}, shown |-> {}]
  /\ blessed = {}

-----------------------------------------------------------------------------
(* Editing.                                                                 *)

Edited == /\ left.edits > 0
          /\ left' = [left EXCEPT !.edits = @ - 1]
          /\ now' = now + 1
          /\ UNCHANGED <<snaps, unreadable, may, session, watch, blessed>>

EditFile(f) ==
  /\ \E s \in Writes \cup {NoSuite} : s # files[f].suite /\ files' = [files EXCEPT ![f] = [at |-> now + 1, suite |-> s]]
  /\ Edited /\ UNCHANGED template

EditTemplate ==
  /\ \E t \in Templates : template' = [at |-> now + 1, header |-> t.header, does |-> t.does]
  /\ Edited /\ UNCHANGED files

-----------------------------------------------------------------------------
(* A session goes through its paths: load, run, report.                     *)

\* scanMtimes
ScanMtimes == {<<f, files[f].at>> : f \in {g \in File : files[g].suite # NoSuite}} \cup {<<"template", template.at>>}

\* changedFile: is there a file that was added, removed or modified?
ChangedFile(before, after) == before # after

Given(kind) ==
  /\ session.kind = "none" /\ left.commands > 0
  /\ \E c \in may : c.kind = kind /\ session' = Begin(c)
  /\ left' = [left EXCEPT !.commands = @ - 1]

\* testCommand
StartTest == Given("shell") /\ UNCHANGED <<files, template, snaps, unreadable, may, now, watch, blessed>>

\* watchCommand: the first scan comes before the first run.
StartWatch ==
  /\ Given("watch")
  /\ watch' = [last |-> ScanMtimes, shown |-> {}]
  /\ UNCHANGED <<files, template, snaps, unreadable, may, now, blessed>>

Working(phase) == session.kind # "none" /\ session.phase = phase

\* runPaths: the next path.  os.Stat or filepath.Walk lists the files that are there.
TakePath ==
  /\ Working("path") /\ session.todo # <<>>
  /\ LET p     == Head(session.todo)
         there == {f \in Range(p) : files[f].suite # NoSuite}
     IN  session' = [session EXCEPT !.phase = "load", !.todo = Tail(@), !.listed = [f \in there |-> files[f].at],
                                    !.unread = p, !.read = @ \cup {<<f, files[f].at>> : f \in Range(p) \ there},
                                    !.tests = <<>>, !.done = 0, !.bad = FALSE]
  /\ UNCHANGED <<files, template, snaps, unreadable, may, left, now, watch, blessed>>

\* A path is done; -stop-on-fail leaves the paths after a failing one.
PathDone(s, code) ==
  [s EXCEPT !.phase = "path", !.code = IF code = 0 THEN @ ELSE code,
            !.todo = IF code # 0 /\ s.config.stop THEN <<>> ELSE @]

\* LoadTestsFromDir, or LoadTestFile of the one file: a listed file is read; one that
\* is gone by now fails the path, like one that does not load.
LoadFile ==
  /\ Working("load") /\ session.unread # <<>>
  /\ LET f        == Head(session.unread)
         isListed == f \in DOMAIN session.listed
         gone     == files[f].suite = NoSuite
         loaded   == LoadTestFile(files[f].suite)
         tests    == [i \in DOMAIN loaded.tests |-> [loaded.tests[i] EXCEPT !.file = f]]
         passed   == [session EXCEPT !.unread = Tail(@)]
         readAt(at) == [passed EXCEPT !.read = @ \cup {<<f, at>>}]
     IN  session' = CASE ~isListed -> passed
                      [] isListed /\ gone -> PathDone(readAt(session.listed[f]), 1)
                      [] isListed /\ ~gone /\ ~loaded.ok -> PathDone(readAt(files[f].at), 1)
                      [] OTHER -> [readAt(files[f].at) EXCEPT !.tests = @ \o tests]
  /\ UNCHANGED <<files, template, snaps, unreadable, may, left, now, watch, blessed>>

\* All is loaded; a path without tests fails.
BeginTests ==
  /\ Working("load") /\ session.unread = <<>>
  /\ session' = IF session.tests = <<>> THEN PathDone(session, 1) ELSE [session EXCEPT !.phase = "run"]
  /\ UNCHANGED <<files, template, snaps, unreadable, may, left, now, watch, blessed>>

MoreToRun == session.done < Len(session.tests) /\ ~(session.config.stop /\ session.bad)

\* What is known after a test.
AfterTest(s, t, r) ==
  [s EXCEPT !.done = @ + 1, !.bad = @ \/ ~r.passed, !.read = @ \cup {<<"template", template.at>>},
            !.ran = @ \cup {[test |-> t, began |-> r.began, made |-> r.made, seen |-> r.seen]}]

\* What the next test does, with the template and the snapshots as they are now.
RunOf(t) ==
  RunTest(session.config, DuplicateNames(session.tests), SnapshotPath[t.file] \notin unreadable,
          snaps[SnapshotPath[t.file]], t, template)

\* RunTests: the next test.
RunNext ==
  /\ Working("run") /\ MoreToRun
  /\ \E t \in {session.tests[session.done + 1]} : \E r \in {RunOf(t)} :
       /\ snaps' = [snaps EXCEPT ![SnapshotPath[t.file]] = r.snaps]
       /\ session' = AfterTest(session, t, r)
  /\ UNCHANGED <<files, template, unreadable, may, left, now, watch, blessed>>

\* The files the path's tests came from.
TestFiles == {t.file : t \in Range(session.tests)}

\* forStaleSnapshots: what no snapshot test of f has; an unreadable file is passed over.
StaleOf(f) == Stale(session.tests, f, snaps[SnapshotPath[f]])

\* PruneSnapshots, once it has been through some of the test files.
PrunedOf(done) ==
  [p \in SnapshotFiles |-> {s \in snaps[p] : \A f \in done : SnapshotPath[f] = p => s \notin StaleOf(f)}]

\* StaleSnapshots
StaleSnapshots == \E f \in TestFiles : StaleOf(f) # {}

\* The error of either: a snapshot file could not be read.
CannotRead == \E f \in TestFiles : SnapshotPath[f] \in unreadable

\* A plausible slip: rewriting the snapshots keeps those of tests that are gone.
PrunesOnlyWhenAsked(config) == config.prune

Prunes(config) == config.update \/ config.prune

\* runTests, after the last test: prune, or tell what is stale, and the exit code.
Report ==
  /\ Working("run") /\ ~MoreToRun
  /\ LET prunes == Prunes(session.config)
         failed == \/ session.bad
                   \/ CannotRead /\ (prunes \/ session.config.ci)
                   \/ ~prunes /\ session.config.ci /\ StaleSnapshots
     IN  /\ snaps' = IF prunes THEN PrunedOf(TestFiles) ELSE snaps
         /\ session' = PathDone(session, IF failed THEN 1 ELSE 0)
  /\ UNCHANGED <<files, template, unreadable, may, left, now, watch, blessed>>

Finished == Working("path") /\ session.todo = <<>>

\* The process of yagtest test exits.
Exit ==
  /\ Finished /\ session.kind = "shell"
  /\ session' = Idle
  /\ blessed' = IF session.config.update /\ session.code = 0 /\ session.began = now
                THEN blessed \cup {[at |-> now, paths |-> session.paths]} ELSE blessed
  /\ UNCHANGED <<files, template, snaps, unreadable, may, left, now, watch>>

\* A plausible slip: the files are scanned again once the rerun is over.
ShowRunAndScan ==
  /\ Finished /\ session.kind = "watch"
  /\ session' = [session EXCEPT !.phase = "watching", !.tests = <<>>, !.ran = {}, !.read = {}]
  /\ watch' = [last |-> ScanMtimes, shown |-> session.read]
  /\ UNCHANGED <<files, template, snaps, unreadable, may, left, now, blessed>>

\* rerun is over; the watcher sleeps.
ShowRun ==
  /\ Finished /\ session.kind = "watch"
  /\ session' = [session EXCEPT !.phase = "watching", !.tests = <<>>, !.ran = {}, !.read = {}]
  /\ watch' = [watch EXCEPT !.shown = session.read]
  /\ UNCHANGED <<files, template, snaps, unreadable, may, left, now, blessed>>

\* The watcher wakes up and finds a change.
Wake ==
  /\ Working("watching") /\ ChangedFile(watch.last, ScanMtimes)
  /\ watch' = [watch EXCEPT !.last = ScanMtimes]
  /\ session' = Begin(session)
  /\ UNCHANGED <<files, template, snaps, unreadable, may, left, now, blessed>>

\* What os.WriteFile leaves of the entries of a snapshot file if it is killed between
\* emptying the file and the end of writing it: no YAML, or some whole entries and, it
\* may be, the first fields of one more.
WriteCut(before, p, entries) ==
  \/ unreadable' = unreadable \cup {p} /\ snaps' = [before EXCEPT ![p] = NoneSaved]
  \/ /\ \E whole \in SUBSET entries :
          \/ snaps' = [before EXCEPT ![p] = whole]
          \/ \E s \in entries \ whole, cut \in CutShort :
               snaps' = [before EXCEPT ![p] = whole \cup {[name |-> s.name, saved |-> FirstFields(s.saved, cut)]}]
     /\ UNCHANGED unreadable

\* The next test's snapshot is being written.
CutOffInATest ==
  /\ Working("run") /\ MoreToRun
  /\ \E t \in {session.tests[session.done + 1]} : \E r \in {RunOf(t)} :
       r.wrote /\ WriteCut(snaps, SnapshotPath[t.file], r.snaps)

\* Some snapshot files have been pruned, and one is being written.
CutOffInAPrune ==
  /\ Working("run") /\ ~MoreToRun /\ Prunes(session.config)
  /\ \E done \in SUBSET TestFiles :
       \/ snaps' = PrunedOf(done) /\ UNCHANGED unreadable
       \/ \E f \in TestFiles \ done, p \in SnapshotFiles :
            /\ p = SnapshotPath[f] /\ StaleOf(f) \cap PrunedOf(done)[p] # {}
            /\ WriteCut(PrunedOf(done), p, PrunedOf(done \cup {f})[p])

\* Ctrl+C, at any point: between two steps, or while snapshots are written.
Interrupt ==
  /\ session.kind # "none" /\ left.interrupts > 0
  /\ session' = Idle
  /\ left' = [left EXCEPT !.interrupts = @ - 1]
  /\ \/ UNCHANGED <<snaps, unreadable, blessed>>
     \/ (CutOffInATest \/ CutOffInAPrune) /\ blessed' = {}
  /\ UNCHANGED <<files, template, may, now, watch>>

Step == TakePath \/ LoadFile \/ BeginTests \/ RunNext \/ Report \/ Exit \/ ShowRun \/ Wake

Next ==
  \/ \E f \in File : EditFile(f)
  \/ EditTemplate \/ StartTest \/ StartWatch \/ Interrupt
  \/ Step

\* The watcher's process goes on as long as it runs.
Watch == session.kind = "watch" /\ Step

Fairness == WF_vars(Watch)

Spec == Init /\ [][Next]_vars /\ Fairness

-----------------------------------------------------------------------------
(* Properties.                                                              *)

\* What an interaction says and what its template reads of it.
InteractionArrives(i, data, seen) ==
  /\ i.custom_id # <<>> => data["CustomID"] = WithoutPrefix(i.custom_id)
  /\ i.message_id # 0 => data["Message"].id = i.message_id
  /\ i.values # <<>> => data["Values"] = i.values
  /\ i.component \notin {"", "button"} => data["MenuType"] = i.component
  /\ i.subcommand # <<>> => Lowered(data["SubCommand"]) = Lowered(i.subcommand)
  /\ \A n \in DOMAIN i.options : \E m \in DOMAIN data["Options"] :
       /\ Lowered(data["Options"][m][1]) = Lowered(i.options[n].name)
       /\ data["Options"][m][2].v = i.options[n].value.v
  /\ i.target # 0 => data["TargetUser"] = i.target
  /\ \A n \in DOMAIN i.fields : data["Values"][n] = i.fields[n].value
  /\ i.form # "" => seen.form = i.form
  /\ i.delayed => seen.delayed /\ (seen.respondedTo <=> i.responded_to)

\* A child reads the message its caller does, or a blank one, as does a child of it; and
\* nothing of what started the caller but the interaction.
ChildrenReadTheMessage(data, seen) ==
  \E child \in {ChildContext(seen, "d")} : \E below \in {BuildTemplateData(child)} :
      /\ "Message" \in DOMAIN data =>
           IF seen.reaction = "" THEN below["Message"] = data["Message"] ELSE below["Message"].id = data["Message"].id
      /\ "Message" \notin DOMAIN data => below["Message"] = BlankMessage("bot")
      /\ BuildTemplateData(ChildContext(child, ""))["Message"] = below["Message"]
      /\ DOMAIN below \cap {"Args", "CmdArgs", "Cmd", "StrippedMsg", "CustomID", "Reaction", "Values"} = {}
      /\ "Interaction" \in DOMAIN below <=> "Interaction" \in DOMAIN data

\* parseArgs with text definitions gives the arguments back; the last one takes the rest,
\* which is cut into the same arguments again unless they hold quotes or backslashes.
TextsParse(args, seen) ==
  \A server \in {CHOOSE s \in Servers : TRUE}, n \in 1 .. 3, required \in 0 .. 3 :
    \E parsed \in {EngineParseArgs(server, seen, required, [i \in 1 .. n |-> Carg("string", <<>>)])} :
    LET given  == Min({n, Len(args)})
        simple == \A i \in n .. Len(args) : Range(args[i]) \cap {Backslash, Quote, Tick} = {}
    IN  required <= n =>
        /\ parsed.error = "" <=> Len(args) >= required
        /\ \A i \in 1 .. given : i < n \/ Len(args) = n => Get(parsed, i - 1).v = args[i]
        /\ \A i \in given + 1 .. n : ~IsSet(parsed, i - 1)
        /\ Len(args) > n /\ simple => Strs(SplitArgs(Get(parsed, n - 1).v)) = SubSeq(args, n, Len(args))

\* How a whole number below 10, and an ID by its type, may be written.
WrittenID(type, id) ==
  LET number == <<Digits[id]>>
  IN  {number} \cup
      CASE type \in {"user", "userid", "member"} -> {<<"<", "@">> \o number \o <<">">>, <<"<", "@", "!">> \o number \o <<">">>}
        [] type = "channel" -> {<<"<", "#">> \o number \o <<">">>}
        [] type = "role"    -> {<<"<", "@", "&">> \o number \o <<">">>}

WrittenDuration(d) ==
  FlattenSeq([i \in DOMAIN d |-> <<Digits[d[i].n]>> \o (IF d[i].unit = "mo" THEN <<"m", "o">> ELSE <<d[i].unit>>)])

\* The IDs of a type that a server has; any where it declares none.
Has(server, type, id) ==
  CASE type = "userid" -> TRUE
    [] type \in {"user", "member"} -> server.members = {} \/ id \in server.members \cup {server.user}
    [] type = "channel" -> server.channels = {} \/ id \in server.channels
    [] type = "role" -> server.roles = <<>> \/ \E r \in Range(server.roles) : r.id = id

\* Is there a role with a name that is written like an ID?  It may come first.
NamedSo(server, type, text) == type = "role" /\ \E r \in Range(server.roles) : r.name = text

\* parseArgs with one definition: however an ID is written it is read if the server has
\* it, and what is read the server has (but 0, which userArg gives back).
IDsParse(arg, seen) ==
  \A server \in Servers, type \in {"user", "userid", "member", "channel", "role"} :
    \E parsed \in {EngineParseArgs(server, seen, 1, <<Carg(type, <<>>)>>)} :
      /\ \A id \in DOMAIN Digits : arg \in WrittenID(type, id) =>
           CASE NamedSo(server, type, arg) -> parsed.error = ""
             [] ~NamedSo(server, type, arg) /\ Has(server, type, id) -> parsed.error = "" /\ parsed.values[1].v = id
             [] OTHER -> parsed.error # ""
      /\ parsed.error = "" => parsed.values[1].v = 0 \/ Has(server, type, parsed.values[1].v)

\* A number is within its bounds (but NaN), and a duration is the sum of its components,
\* as far as a number may go.
NumbersParse(arg, seen) ==
  \A server \in {CHOOSE s \in Servers : TRUE}, type \in {"int", "float", "duration"}, bounds \in Bounds :
    \E parsed \in {EngineParseArgs(server, seen, 1, <<Carg(type, bounds)>>)} :
      /\ parsed.error = "" /\ bounds # <<>> /\ parsed.values[1].kind # "nan" =>
           parsed.values[1].v \in bounds[1] .. bounds[2]
      /\ type = "duration" /\ bounds = <<>> => \A d \in Durations : arg = WrittenDuration(d) =>
           parsed.values[1] = Value("duration", Wrapped(FoldLeft(LAMBDA sum, p : sum + p.n * Units[p.unit], 0, d)))

\* Everything a test says of its run reaches the data its template reads, or the test is
\* refused: the arguments, whatever is in them (but for an argument that begins with a
\* space), as .CmdArgs and as parseArgs parses them, the message, the data, the reaction,
\* the interaction, and each field of the context, its own or its suite's default (but for
\* ChannelFields, which newContext drops: runner.go:230-231); and a command run by execCC
\* reads its caller's message.  validateContext, mergeDefaults, newContext,
\* setTriggerMessage, JoinArgs, parseArgs and BuildTemplateData each drop something if they
\* slip, and the test goes on to pass about another run than it describes.
SaysAllOfIt ==
  \A r \in session.ran : r.began =>
    LET c     == r.test.context
        suite == files[r.test.file].suite
        plain == \A i \in DOMAIN c.args : c.args[i] = <<>> \/ Head(c.args[i]) # Space
        given == c.fields \ ChannelFields
    IN  \E data \in {BuildTemplateData(r.seen)} :
        /\ c.args # <<>> /\ plain => /\ data["CmdArgs"] = c.args
                                     /\ TextsParse(c.args, r.seen)
                                     /\ Len(c.args) = 1 => IDsParse(c.args[1], r.seen) /\ NumbersParse(c.args[1], r.seen)
        /\ c.message_content # <<>> => r.seen.content = c.message_content
        /\ c.exec_data # "" => data["ExecData"] = c.exec_data
        /\ c.reaction # "" => data["Reaction"] = c.reaction /\ data["Message"] = data["ReactionMessage"]
        /\ InteractionArrives(c.interaction, data, r.seen)
        /\ ChildrenReadTheMessage(data, r.seen)
        /\ \A f \in given : NewContext(r.test).from[f] = "test"
        /\ now = 0 => \A f \in suite.defaults.fields \ (given \cup ChannelFields) :
                        NewContext(r.test).from[f] = "default"

\* A template with a deployable header that yagtest accepts is shown by the control panel
\* with the same options, in the same order, and the same interval: what is run here is
\* what is deployed (ValidateHeader, validateDeployableSlashDef).
HeadersReadBack ==
  LET h == template.header
  IN  Working("run") /\ session.done = 0 /\ ValidateHeader(h) /\ h.group => ReadsBack(h)

\* No file is given in two paths.
OnePathEach(paths) ==
  \A i, j \in DOMAIN paths : i # j => Range(paths[i]) \cap Range(paths[j]) = {}

\* The files of paths, and: each of them has a snapshot file of its own.
GivenFiles(paths) == UNION {Range(paths[i]) : i \in DOMAIN paths}
OwnSnapshots(fs) == \A f, g \in fs : SnapshotPath[f] = SnapshotPath[g] => f = g

\* A session that exits with 0 has run every test of its paths, each as it should have:
\* refused or not triggered only when that is what the test says, every assertion holds of
\* what the run made, and what its snapshot file holds under its name is what that run
\* made (but a session that rewrites snapshots may be given a file twice, and an edit come
\* between, or two files that share a snapshot file); in CI, and when it prunes files with
\* snapshot files of their own, nothing else is in there.
GreenMeansChecked ==
  Finished /\ session.kind = "shell" /\ session.code = 0 =>
    /\ \A r \in session.ran :
         LET e == r.test.expected
         IN  IF e.no_trigger THEN ~r.began
             ELSE /\ r.began /\ r.made.error = e.error /\ e.output \in {"", r.made.output}
                  /\ e.warning = "" \/ e.warning \in r.made.warnings \cup r.made.failedChildren
                  /\ r.made.failedChildren \subseteq {e.warning}
                  /\ \A a \in r.test.assertions : AssertionPasses(r.made, a)
                  /\ r.test.snapshot /\ (Prunes(session.config) => /\ OnePathEach(session.paths)
                                                                  /\ OwnSnapshots(GivenFiles(session.paths))) =>
                       \A s \in snaps[SnapshotPath[r.test.file]] :
                         s.name = r.test.name => s.saved = TakeSnapshot(r.made)
    /\ (IF Prunes(session.config) THEN OwnSnapshots(GivenFiles(session.paths)) ELSE session.config.ci) =>
         \A r \in session.ran : \A s \in snaps[SnapshotPath[r.test.file]] :
           \E q \in session.ran : q.test.file = r.test.file /\ q.test.snapshot /\ q.test.name = s.name

\* After a green run with -update-snapshots the snapshots are what CI wants of the same
\* paths, as long as nothing is edited, no write of a snapshot file is cut off, and no two
\* files that are given share a snapshot file: README.md and the message of a mismatch
\* tell the author to do just that.
UpdatedIsGreen ==
  /\ Finished /\ session.kind = "shell" /\ session.config.ci /\ session.began = now
  /\ [at |-> now, paths |-> session.paths] \in blessed
  /\ OwnSnapshots(UNION {GivenFiles(c.paths) : c \in may})
  => session.code = 0

\* What the last rerun has read is what there is, but for a file that came after the scan
\* and was gone before the next one: the watcher never learns of it.
ShowsWhatIsThere ==
  /\ session.phase = "watching"
  /\ \A r \in watch.shown :
       IF r[1] = "template" THEN r[2] = template.at
       ELSE r[2] = files[r[1]].at \/ (files[r[1]].suite = NoSuite /\ \A m \in watch.last : m[1] # r[1])

\* A watcher that sleeps and finds nothing changed since its scan has shown what there is.
SleepsOnWhatIsThere ==
  session.phase = "watching" /\ ~ChangedFile(watch.last, ScanMtimes) => ShowsWhatIsThere

\* The watcher ends up with a rerun of the files as they are, however the edits fall into
\* its scans and reruns (watchCommand: the scan that starts a rerun is the one compared
\* with next).
WatchCatchesUp == <>[](session.kind = "watch" => ShowsWhatIsThere)
=============================================================================
