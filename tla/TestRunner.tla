----------------------------- MODULE TestRunner -----------------------------
(* One test run and checked (loader/runner.go), and its snapshot compared,  *)
(* written or found stale (loader/snapshot.go).                             *)
(*                                                                          *)
(* What a template makes of the data of its run is a record of lists, one   *)
(* for each kind of effect; an effect is [what, channel, delay].  An        *)
(* assertion [of, checks] is about the list "of"; a check is [what,         *)
(* channel, delay, nth, absent], "" and 0 matching anything.                *)
EXTENDS TestCase

CONSTANT AnyDelay       \* the delay of a deletion check that has none

-----------------------------------------------------------------------------
(* Checks.  Each operator is what one check function lets pass.             *)

Matches(check, effect) ==
  check.what \in {"", effect.what} /\ check.channel \in {0, effect.channel}

\* A list is checked one by one and has to be complete.
Exactly(effects, checks, Known(_), Fits(_, _)) ==
  /\ \A i \in DOMAIN checks : Known(checks[i])
  /\ Len(effects) = Len(checks)
  /\ \A i \in DOMAIN checks : Fits(checks[i], effects[i])

Anything(check) == TRUE

\* checkMessages: each check looks at the nth message in its channel; the empty
\* list says there is none.
MessagesPass(messages, checks) ==
  IF checks = <<>> THEN messages = <<>>
  ELSE \A i \in DOMAIN checks :
         LET inIt(m) == checks[i].channel \in {0, m.channel}
             there == SelectSeq(messages, inIt)
             nth   == IF checks[i].nth = 0 THEN 1 ELSE checks[i].nth
         IN  nth <= Len(there) /\ Matches(checks[i], there[nth])

\* checkScheduledRuns
ScheduledRunsPass(runs, checks) ==
  LET fits(check, run) == Matches(check, run) /\ check.delay \in {0, run.delay}
  IN  Exactly(runs, checks, Anything, fits)

\* checkDeletions
DeletionsPass(deletions, checks) ==
  LET known(check) == check.what \in {"", "trigger", "message", "response"}
      fits(check, d) == Matches(check, d) /\ check.delay \in {AnyDelay, d.delay}
  IN  Exactly(deletions, checks, known, fits)

\* checkExecs
ExecsPass(execs, checks) == Exactly(execs, checks, Anything, Matches)

\* checkReactions
ReactionsPass(changes, checks) ==
  LET known(check) == check.what \in {"", "add", "remove", "remove_emoji", "remove_all"}
  IN  Exactly(changes, checks, known, Matches)

\* checkPins
PinsPass(pins, checks) ==
  LET known(check) == check.what \in {"", "pin", "unpin"} IN Exactly(pins, checks, known, Matches)

\* checkInteractionResponses
ResponsesPass(responses, checks) ==
  LET known(check) == check.what \in {"", "message", "followup", "deferred_edit", "update", "modal"}
  IN  Exactly(responses, checks, known, Matches)

\* checkRoleChanges: each is among the changes.
RoleChangesPass(changes, checks) ==
  \A i \in DOMAIN checks : \E j \in DOMAIN changes :
    Matches(checks[i], changes[j]) /\ checks[i].delay \in {0, changes[j].delay}

\* checkDatabase
DatabasePasses(db, checks) ==
  \A i \in DOMAIN checks : checks[i].absent <=> \A e \in db : ~Matches(checks[i], e)

\* checkPings: exactly those.
PingsPass(pings, checks) == pings = Range(checks)

AssertionPasses(made, a) ==
  CASE a.of \in {"sent", "edited"} -> MessagesPass(made[a.of], a.checks)
    [] a.of = "scheduled" -> ScheduledRunsPass(made.scheduled, a.checks)
    [] a.of = "deletions" -> DeletionsPass(made.deletions, a.checks)
    [] a.of = "execs"     -> ExecsPass(made.execs, a.checks)
    [] a.of = "reactions" -> ReactionsPass(made.reactions, a.checks)
    [] a.of = "pins"      -> PinsPass(made.pins, a.checks)
    [] a.of = "responses" -> ResponsesPass(made.responses, a.checks)
    [] a.of = "roles"     -> RoleChangesPass(made.roles, a.checks)
    [] a.of = "noRoles"   -> made.roles = <<>>
    [] a.of = "db"        -> DatabasePasses(made.db, a.checks)
    [] a.of = "pings"     -> PingsPass(made.pings, a.checks)

\* checkOutput
OutputPasses(output, expected) == expected.output \in {"", output}

\* A command run by this one that failed is a failure, unless it is expected.
ChildrenPass(made, expected) == made.failedChildren \subseteq {expected.warning}
WarningsPass(made, expected) == expected.warning \in {""} \cup made.warnings \cup made.failedChildren

\* A plausible slip: a run that fails as expected is not looked at further.
FailuresUnlessExpected(test, made) ==
  IF test.expected.error # "" /\ made.error = test.expected.error THEN {}
  ELSE {a.of : a \in {b \in test.assertions : ~AssertionPasses(made, b)}}
       \cup (IF test.expected.error \in {"", made.error} THEN {} ELSE {"error"})

\* What is wrong with a run that got this far: an error that was expected does
\* not keep the rest from being checked.
Failures(test, made) ==
  {a.of : a \in {b \in test.assertions : ~AssertionPasses(made, b)}}
  \cup (IF test.expected.error \in {"", made.error} THEN {} ELSE {"error"})
  \cup (IF OutputPasses(made.output, test.expected) THEN {} ELSE {"output"})
  \cup (IF WarningsPass(made, test.expected) /\ ChildrenPass(made, test.expected) THEN {} ELSE {"warning"})

-----------------------------------------------------------------------------
(* Snapshots: a file of them is a set of [name, saved], and is readable or  *)
(* has been cut short so that it is not.                                    *)

NoneSaved == {}

NothingMade ==
  [error |-> "", output |-> "", sent |-> <<>>, edited |-> <<>>, scheduled |-> <<>>, deletions |-> <<>>,
   execs |-> <<>>, reactions |-> <<>>, pins |-> <<>>, responses |-> <<>>, roles |-> <<>>, db |-> {},
   pings |-> {}, warnings |-> {}, failedChildren |-> {}]

\* What is left of a snapshot that was cut off after its first fields: none, the output,
\* the output and the messages, ...
SnapshotFields == <<"output", "sent", "edited", "roles", "deletions", "reactions", "pins", "execs", "responses", "db">>
CutShort == 0 .. Len(SnapshotFields) - 1
FirstFields(saved, n) ==
  [f \in DOMAIN saved |-> IF f \in {SnapshotFields[i] : i \in 1 .. n} THEN saved[f] ELSE NothingMade[f]]


\* takeSnapshot leaves the error and the scheduled runs out.
TakeSnapshot(made) ==
  [made EXCEPT !.error = "", !.scheduled = <<>>, !.pings = {}, !.warnings = {}, !.failedChildren = {}]

WriteSnapshot(snaps, name, made) ==
  {s \in snaps : s.name # name} \cup {[name |-> name, saved |-> made]}

\* A plausible slip: names used twice are not noticed.
NoDuplicates(tests) == {}

\* findDuplicateNames: tests of one file with one name.
DuplicateNames(tests) ==
  {t \in Range(tests) : Cardinality({i \in DOMAIN tests : tests[i].file = t.file /\ tests[i].name = t.name}) > 1}

\* checkSnapshot: does it pass, was the file written, and what is saved after it.
CheckSnapshot(config, duplicates, readable, snaps, test, made) ==
  LET saved == {s \in snaps : s.name = test.name}
      got   == TakeSnapshot(made)
      looks == test \notin duplicates /\ readable
      leave(passes) == [passes |-> passes, wrote |-> FALSE, snaps |-> snaps]
  IN  CASE ~looks -> leave(FALSE)
        [] looks /\ saved = {} /\ config.ci /\ ~config.update -> leave(FALSE)
        [] looks /\ ((saved = {} /\ ~config.ci) \/ config.update) ->
             [passes |-> TRUE, wrote |-> TRUE, snaps |-> WriteSnapshot(snaps, test.name, got)]
        [] OTHER -> leave([name |-> test.name, saved |-> got] \in saved)

\* forStaleSnapshots: the snapshots no test of the file makes.
Stale(tests, file, snaps) ==
  {s \in snaps : ~\E t \in Range(tests) : t.file = file /\ t.snapshot /\ t.name = s.name}

-----------------------------------------------------------------------------
(* A test.                                                                  *)

\* A test that ended without a run, and one that ran.
Ended(error, snaps) ==
  [passed |-> error = "", began |-> FALSE, made |-> NothingMade, seen |-> NoContext, wrote |-> FALSE, snaps |-> snaps]
Ran(passed, made, seen, wrote, snaps) ==
  [passed |-> passed, began |-> TRUE, made |-> made, seen |-> seen, wrote |-> wrote, snaps |-> snaps]

\* RunTest, once the trigger has been looked at.
RunTriggered(config, duplicates, readable, snaps, test, made, trigger) ==
  LET refused(error) == ~(test.expected.no_trigger /\ error = "mismatch")
      checked(snapshot) == Ran(Failures(test, made) = {} /\ snapshot.passes, made, trigger.ctx,
                               snapshot.wrote, snapshot.snaps)
  IN  CASE trigger.error # "" -> Ended(IF refused(trigger.error) THEN trigger.error ELSE "", snaps)
        [] trigger.error = "" /\ test.expected.no_trigger -> Ended("triggered", snaps)
        [] trigger.error = "" /\ ~test.expected.no_trigger ->
             IF test.expected.error = "" /\ made.error # "" THEN Ran(FALSE, made, trigger.ctx, FALSE, snaps)
             ELSE checked(IF test.snapshot THEN CheckSnapshot(config, duplicates, readable, snaps, test, made)
                          ELSE [passes |-> TRUE, wrote |-> FALSE, snaps |-> snaps])

\* RunTest
RunTest(config, duplicates, readable, snaps, test, template) ==
  IF test.setup = "fails" \/ ~ValidateHeader(template.header) THEN Ended("refused", snaps)
  ELSE RunTriggered(config, duplicates, readable, snaps, test, template.does[test.context.exec_data],
                    SetTrigger(test, template.header))
=============================================================================
