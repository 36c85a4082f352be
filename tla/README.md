# Verification of the YAGPDB custom commands and their tools

TLA+ models of this repository, the TLC configurations that check them on small instances, and proofs that
TLAPS checks for every value of the constants.

- [The system](#the-system): its parts, their state, how they interact, what makes each of them correct
- [The modules](#the-modules) and how they correspond to the code
- [The runs](#the-runs): what is checked, with which bounds
- [Fairness](#fairness)
- [The proofs](#the-proofs)
- [What the models found](#what-the-models-found)
- [What is not modelled](#what-is-not-modelled)
- [The plan](#the-plan)

Every definition that stands for code names its lines in `PROJECT.json` ("map"). `PROJECT.json` also lists the
components, the runs, a mutation of the model for every property that the property must catch, the hazards of the
code with their lines, and the theorems.

To repeat a check: `tlc -workers 2 -config StaffRoster.cfg MCStaffRoster`, and `tlapm StaffRosterProofs.tla`.

## The system

The repository holds a Discord server's custom commands for the bot YAGPDB, and the tools to test and deploy them.
A custom command is a Go template. The bot runs it when its trigger fires: a message, a slash command, a click on a
component, a submitted form, a schedule. A run starts with nothing but its trigger. What lasts between runs is in the
bot's database (rows named by a user ID and a key, each a number, a string or a whole dict), in Discord (messages,
roles, members), and in the buttons and forms that carry an ID. Runs of one server overlap, a run may end anywhere (a call that
fails, a limit, a restart), and the database has no transactions: a command that changes one key of a dict reads the
row, changes its copy and writes the row back.

| Part | Code | State | Operations | What is hard | Correct when |
|---|---|---|---|---|---|
| Staff roster | `commands/members/hiatus_slash`, `unhiatus_slash`, `staff_roles`, `staff_roles_pick`; the Staff role by `plumbing/setup_slash`, `bootstrap` | row `Staff` (Roles, Hiatus), row `Roles`, the roles members wear | go on hiatus, come back, replace the list, repoint the Staff role | stale rows, one role call at a time, stops half way | no role given up is lost, none is given that was not given up |
| /edit | `commands/edit/*` | the rows of entries and rules, open forms, delete confirms, row `Edit Pending` | open a form, save it, ask to delete, press Delete or Cancel | clicks hours later, on entries that changed, on confirms that were replaced | Delete removes what its message shows, once; nothing is overwritten unseen |
| Inactivity | `commands/members/inactivity`, `inactivity_prune_pick` | members, roles Active and Inactive, public panels, row `Inactivity Prune` | announce, set the date, review and kick | two moderators on one panel, members who come and go | a kick finds its member inactive after the press, and is announced once |
| Bump timer | `commands/bump/*` | key `Last Bump` of row `Global` | check, reset, remind | writers of one row | a bump that counts is 2 hours after the last one |
| Channel activity | `commands/channels/channel_tracker`, `channel_activity`, `channel_activity_pager` | one row per channel and one list message | track, list, clean up, page | paging while rows change | the list shows every channel once |
| /db | `commands/db/*` | any row | dump, set, add, remove, delete | read-modify-write of another command's row | only the named key changes |
| Rules panel | `commands/rules/*` | row `Rules`, the posted panel | page, show a rule | pages of a dict that has shrunk | a click shows a rule there is |
| Prompts | `commands/general/prompt*` | a forum post or thread | post, tag, ping | several calls, some of which fail | no half-made post is left |
| Config sync | `commands/plumbing/config_sync` | row `Commands` | merge IDs hourly | writers of one row | only managed keys change |
| Other commands | cipher, color, gematria, hebrew, knowledge, directory, embed_exec, ... | none between runs | convert, show, dispatch | | a pure function of the trigger |
| Emulator: interactions | `tools/emulator/internal/runtime/{interactions,modals,slash,engine}.go` | responded and deferred flags, counters, the record of responses | sendResponse, updateMessage, sendModal, execCC, end of run | nested runs that share an interaction | Discord is given only what it takes; a warning exactly when nothing is shown |
| Emulator: database | `tools/emulator/internal/{state/db,funcs/database}.go` | rows, value_nums, the next ID, the clock | get, set, set with expiry, incr, del, top and bottom entries, rank, count, delMultiple | expiry, NaN, ties, expired rows that are still stored | it is a store in which an expired entry holds nothing, and of which only a text can come back |
| Emulator: runs | `runtime/{engine,limits,roles,schedule,forum,reactions,pins}.go` | a stack of contexts with counters, effects and known messages; the shared count of messages, threads and scheduled runs | each function of a template, execCC children, {{try}} | loud and silent limits, with -strict and without; what children share | a lenient run says where it differs from YAGPDB; a strict one keeps its limits |
| Emulator: messages | `runtime/{components,modals,mentions}.go`, `types/components.go` | values a template makes and sends, edits or reads back | cbutton, cmenu, cmodal, complexMessage, send, edit | IDs set in place in values used again; rows that overflow; who is pinged | what is shown can be used, and pings whom it may |
| Emulator: what starts a run | `runtime/{trigger,slash,context}.go`, `funcs/args.go` | none | read a header, match, cut arguments, parse them, build the data | quoting; one kind of trigger over another | everything said reaches the template |
| Template engine | `yagtemplate/*`, `runtime/loopcheck.go` | the lexer's position, the stack of variables, the operations counted | lex, parse, write out, execute, check for calls in loops | scopes, control flow out of blocks, hard stop | a run means what its text says, and ends |
| yagmin | `cmd/yagmin/{minify,whitespace}.go` | none | text to text | which whitespace is output | the minified command does what the command does |
| yagtest | `cmd/yagtest/*`, `loader/*` | test files, templates, snapshot files, the last scan | test, watch, update and prune snapshots | editing beside a session; checks skipped on a way out | green means checked; the watcher catches up |
| Deployment | `deploy/deploy.js` | the control panel's commands, `deploy/panel.json` | run, create, with dry runs | every request may fail, answers get lost, people edit meanwhile | reports are true, dry runs only read, runs converge |
| Linter, scripts | `tools/linter`, `scripts/*` | none | text to text | | the output means what the input means |

Interactions. `/staff` and `inactivity` start other commands with `execCC`. `/setup`, `bootstrap`, `config_sync` and
`/db` write the rows the others read. Forms, confirms and panels are answered by `edit_modal`, `edit_confirm`,
`inactivity_prune_pick` and the pagers, which know only what the custom ID and the message carry. The emulator runs
the same templates against a mock of the bot; `deploy.js` takes them to the real one.

## The modules

| Module | Models | Proofs |
|---|---|---|
| `StaffRoster` | the Staff row and every command that writes it, beside members' roles | `StaffRosterProofs` |
| `EditFlow` | /edit with its forms, confirms and the record `Edit Pending` | `EditFlowProofs` |
| `PrunePanel` | the prune panel and the kicks from it | `PrunePanelProofs` |
| `Deployment` | `run` and `create` of deploy.js against the panel | `DeploymentProofs` |
| `InteractionProtocol`, `Interaction` | what Discord takes; the emulator's runs that implement it | `EngineProofs`, its first half |
| `ValueNums`, `ExpiringStore`, `MockDB` | numbers with NaN; what a command may rely on; the emulator's database that implements it | `MockDBProofs` |
| `CallLimits`, `EmulatedRun` | the counters of a run; one program run with -strict and without | `EmulatedRunProofs`, its second half for the two runs side by side |
| `Mentions`, `MessageBuilder`, `ShownMessages` | who is pinged; messages and modals as templates build them; a command that sends, edits and catches | `YagtestProofs`, its last part |
| `TemplateLexer`, `TemplateParser`, `TemplateExec` | the template engine: characters to items, items to trees, trees to a run | `EngineProofs`, its second half |
| `LoopCheck`, `Minifier`, `TemplateEngine` | the check for database calls in loops; yagmin; both beside a template from source to output | |
| `TriggerMatch`, `SlashHeader`, `Submission`, `ArgParser`, `TemplateData` | what starts a run: matching and cutting, headers, interactions, typed arguments, the data a template reads | |
| `TestCase`, `TestRunner`, `TestSession` | yagtest: loading a test, running and checking it, whole sessions and the watcher beside an author | `YagtestProofs` |

The `MC...` modules hold the values TLC needs for the constants. Definitions marked "A plausible slip" are mutations:
no action uses them, and `PROJECT.json` says which property must fail when one replaces the definition it is a slip of.
History variables are marked as such in each module; no action reads them. `TypeOK` of the modules with proofs is
proved (`TypeCorrect`) instead of being an invariant of a run.

**StaffRoster.** `staff` is the row `Staff`, `staffRole` the key Staff of `Roles`, `worn` the members' roles. `run[r]` holds
a run's local variables: the row as it read it, the roles it works on and those still to do. A run is a start (all its reads up to
the first call or write), one step per role call, and one step per write, which puts the whole row back as it was
read but for its own change. `bootstrap` writes two of the nine rows in two steps. `Overlap` says which runs the bot
lets overlap: none, different commands, all. `MayCrash` lets a run end between any two steps. `Embeds` stands for IDs whose digits
contain another's, because `staff_roles` searches its text for a role ID as a substring. Members gain and lose
roles and roles are deleted at any time.

**EditFlow.** `store[s]` is a row: names to a text, or to a `Group` (a list or dict), or no dict at all. `forms` and `confirms` are
what is open on Discord; a confirm's button carries a user and a stamp, and what its message showed. `pending[u]` is the record
`Edit Pending`, the only place that says what is deleted. `Titled` is the capitalisation the code does on names it does not find.
A confirm's press reads the record, reads the section, writes the section, deletes the record, each a step. `/db` writes a
key or drops a section as an atomic outside step. Lengths, prefilled texts, and refusals, which only answer, are left out.
Forms that are stale overwrite newer texts: the code answers with what was there, and `LosesNothingUnseen` is about just that.

**PrunePanel.** `panel[p]` is what a public message shows: the picker, a confirm of a member, or the verdict that nobody
is to be kicked. `run[r]` carries the panel's member as the click brought it. A press looks up the member and the role Active, then
the role Inactive, answers (which restores the picker), kicks, and tells. Members leave, come back and
change roles between any two steps; who was kicked may come back as well and be kicked again (`Returning`, `MaxKicks`). `seen[r]` records what has been so at some time since the press.

**Interaction** implements **InteractionProtocol**. `Interactions` are the interactions the emulator sets up: clicks, slash and menu
commands, forms, and delayed runs that were answered before. A run that calls `execCC` waits for the child, which has its
own count and record and shares the interaction; this is the emulator's order (YAGPDB runs the child in a goroutine:
`engine.go:1093-1098` documents the difference). Calls are refused for what they send by choice. `Phase` maps the flags to what Discord has: open,
deferred, answered. A call beyond the limit of API calls does nothing and is no step.

**MockDB** implements **ExpiringStore**. An entry is an ID, its raw value, its value_num and its last second. A raw number is only a mark,
since reading it gives value_num; a text, or any value that is no number, is read as it is (`View`), and its value_num is what `ToFloat64` makes of it. Every exported operation takes
the lock and is one step. Reads are operators in two layers, as in the code: the store's (`GetPattern`, `TopEntries`, `Rank`, `Count`) and over them
the template's functions (`DbTopEntries`, `DbRank`, ...), which set limits and refuse queries; `QueriesAgree` relates the latter. In `ExpiringStore` an
entry holds nothing once its second has passed; in `MockDB` it stays stored with its ID until it is written or deleted, and each operation has to pass it over.
One does not: `dbIncr` of an expired text counts from nothing, but clears the expiry and leaves the raw value, so that the text is read again. `ExpiringStore`
says exactly that with `kept` (finding 20).
`ValueNums` adds NaN, which compares with nothing, to the numbers, as the code's comparison has to order it.

**Deployment.** A command in the panel is its name, its code, its structure (what the header manages), `other` (what it does
not) and whether it is enabled. A session is one `run` or `create`, one item after the other, one request per step. Each request may fail; one
without an answer may have been carried out, and a page may come that is not the form. A list page
that fails counts as one without commands, so `create` may know only some of the names in use. The tab may be closed, which
loses the report. `ByHand` is somebody who works in the panel meanwhile, `Record` the operator who commits the IDs.
Pages, labels and headers are reduced to what comes out of them (`Refused` are the commands whose header is bad or names a type the panel lacks).

**EmulatedRun** runs one program twice, `runs[TRUE]` with -strict and `runs[FALSE]` without. A run is a stack of contexts: the
fields of `ExecutionContext` that calls read or write, a child's pushed by `ExecCC` and joined to its caller's by `Join`. `Calls[n]` are
the functions, with their arguments, that can come n-th. `WithLimits` is the wrapper every function is called through: count, refuse,
carry out, and turn an error into a warning, an error or nothing by -strict and `inTry`. `CallLimits` holds the table of the counters.
As long as both runs stand at the same call they take it together (`followed`); where one has ended or is in its `{{catch}}`, each may be followed on.
Channels, messages and threads are one of a kind (muted, full, forum, sent, trigger, starter); sizes are small numbers.

**ShownMessages.** A command makes values (`made`: components, messages, modals) and shows messages (`shown`) and a modal, one call per
step; a call that fails is caught and the command goes on. Values are kept by where they are made, since the code changes
components in place: the same button sent twice, or read back with getMessage, is the same value. `MessageBuilder` is
complexMessage key after key, the distribution into rows and the numbering of custom IDs, and modals with their builder; `Mentions` is who a sent message pings.

**TemplateEngine.** `NextItem` is one call of the lexer's: it has its position, line and parentheses as state, and an item has the line the lexer is on when it is made, which is the one at its end. `Parse` and `Execute` are recursive operators
over the whole list of items and the trees, one step of the specification, since nothing runs beside them. A value is a number, a
decimal, a string (of characters), a Boolean, a list, a dict or nil; a dozen functions stand for the kinds there are (compare, index,
construct, print, call a template, send, ask the database). `Renamed`, `Minify` and `FindLoopDBCalls` transform or read
the same trees, and their properties compare a second run with the first.

**TestSession.** `files`, `template` and `snaps` are on disk; an author edits files and template at any time, each edit with its own
modification time. `SnapshotPath` gives the snapshot file of a test file, which several may share. A session takes its paths one by one: it lists
what is there, loads and validates the files (`TestCase`; one that has gone since the listing fails the path), runs test after test
(`TestRunner`), prunes file by file, reports, exits. It may be interrupted between two steps or while it writes a snapshot file (`WriteCut`): the file is then
no YAML (`unreadable`), or holds some of its entries, the last perhaps without its last fields. A snapshot is what `takeSnapshot` keeps of a run: not its error, its scheduled runs, warnings or pings. The watcher scans, compares, and reruns. A test's run goes from its
trigger (`TestCase!SetTrigger`, `TriggerMatch`, `Submission`) to the data of the template (`TemplateData`) and the parsing of its
arguments (`ArgParser`, for every list of argument types over the bounds given); what the template then does is a function
of its data (`does`). Texts are short sequences of the characters that quoting, mentions, numbers and durations treat differently;
a regular expression is a literal.

## The runs

| Run | Instance | Checks |
|---|---|---|
| `staff_roster_serial` | 2 members, 2 roles, one run at a time, stopping anywhere | `RolesAccounted`: a role taken by /hiatus is in its member's record or in the hands of a run that will write it there, unless a /hiatus stopped before its write; `RecordsOwnRoles`, `RestoresOnlyGivenUp`; `RestoresOnlyStaffRoles` |
| `edit_flow_serial` | 1 user, 2 sections, a name in two capitalisations, 1 text, a clock of 2 seconds with a lifetime of 2 | `GroupsStay`, `DeletesOnce`, `LosesNothingUnseen` |
| `edit_flow_overlap` | 2 rules, 2 runs that overlap and stop, no forms | `DeletesWhatItShowed` |
| `prune_panel` | 2 members, 1 panel, 2 runs, one member may come back after a kick and be kicked again | `KickIsRechecked`; `TellsWhatHappened`: each kick is told once; `EveryKickIsTold` (liveness): also if the member is back, or kicked again, by then |
| `deployment` | 2 commands, one of which the tool refuses, 2 IDs, 1 failure, 1 change by hand | `ReportsAreTrue`, `KeepsTheRest`, `LeftoversAreReported`; `NoDuplicatesYet`: before the first failure no path has two commands; `DeploysInTheEnd` (liveness) |
| `interaction_runs` | nesting of 2 (the code's), 5 answers, 2 counted responses | `OneResponse`, `WarnsWhenNothingIsShown`, `RecordInOrder`, and the refinement `GivesWhatDiscordTakes` |
| `mock_db` | 3 entries of 2 users and 2 keys, the number 1 and a text that reads as NaN, ttls 0 and 1, 3 IDs, 3 seconds, lists of 2 | `QueriesAgree`, and the refinement `IsExpiringStore` |
| `emulated_run` | programs of 3 calls out of 58, the first of which sets the scene; limits of 1, of 2 with premium; one {{try}}, children 2 deep | `WarnsWhereItDiffers`, `WithinLimits`, `MessagesNumbered`, `OneUniqueRun`, `CatchesAlike` |
| `template_engine` | every sequence of 3 actions and of 2 characters, pairs of larger pieces, pieces to minify under each lead; stack of 2, 120 operations, hard stop at twice that | `ItemsAreFaithful`, `ReadsWhatItWrites`, `NamesDoNotMatter`, `EndsCleanly`, `LoopCallsAreFound`, `MinifiedRunsAlike` |
| `yagtest` | thousands of drafts of one test, run once; suites of up to 2 tests in 2 files, run twice with any flags while edited once, or watched while edited twice; 3 sessions over the same, 1 of them interrupted, and 3 over 2 files that share a snapshot file; commands of up to 4 calls that show messages | `SaysAllOfIt`, `HeadersReadBack`, `GreenMeansChecked`, `UpdatedIsGreen`, `ShownCanBeUsed`, `PingsOnlyTheAllowed`, `WatchCatchesUp` (liveness) |

Two more runs expect a violation, `staff_roster_lost_record` and `deployment_duplicate`; see [what the models found](#what-the-models-found).
The comment above each property says what it means and which code it is about. `ShownMessages` shares the run of `TestSession`, as
another kind of initial state: the two have no step in common and leave each other's variables alone.

Why the bounds are enough. The hazards are about two runs and one row (two members to tell records apart, two roles
for "one done, one to do"), a confirm and the one that replaces it, an entry and its expiry, two presses of
one panel, one lost answer, the call after a limit, a rerun and an edit beside it. Each run's bound lets these happen, and for each property a mutation shows it (the property fails under the same configuration).
A third run, role, confirm or failure repeats what two do; where it does not go without saying the theorem covers it.
`RecordsOwnRoles` and `RestoresOnlyGivenUp` are proved for any overlap and any number of runs; the run checks them one at a time. The
constraint `OneForgotten` keeps crashes of /hiatus to one member's.
`MaxAmount` 2 stands for the code's 100: lists shorter, as long and longer than a page all occur with three entries. `MaxId` of the deployment is also the panel's
limit on commands. `MaxAnswers` and `MaxCounted` cut runs that repeat a call for ever; a second refused call is the last that
differs. `MaxNow` cuts the clock. `MaxForms` is 0 in `edit_flow_overlap`, where saves cannot change what a confirm deletes but through
rows that `/db` writes there as well. In `emulated_run` one of each thing is allowed, so that the second or third call is over
the limit, and a first call can leave the message, thread, post, scheduled run or child that the others need. In
`template_engine`, control flow has three places (a block's opening, its else and its end, with something inside), so three actions meet in every
order; what takes more, like a loop in a called template, is among the larger pieces. `MaxInt` 2047 of `yagtest` is the width at which numbers and durations wrap,
with units of time that keep the order and the non-divisibility of the real ones. Two rows of two stand for five rows of five.
Its third file, which shares the first one's snapshot file, is never edited, and a session is interrupted where nothing is edited: edits beside it are the other projects'.
Deadlock is checked but for `interaction_runs`, `emulated_run`, `template_engine` and `yagtest`, whose programs and sessions end.
Symmetry is over members, roles and users, and is used in no liveness run.

## Fairness

Three specifications state fairness.

- `PrunePanel!FairSpec`: a run that has started takes its next step. The bot executes a template to its end; a
  crash would leave a kick untold, and nothing is stored to recover it from.
- `Deployment!FairSpec`: a session goes on (the loop of `run` has no exit but its end), and the operator runs
  `run` again and again, whenever that keeps being possible (strong fairness, since a session under way blocks it from time to time). Failures and changes by hand are bounded, so in the end a run is undisturbed.
- `MCYagtest!MCSpec`: the watcher's process takes its next step, be it the next scan or the next step of a rerun. `watchCommand`
  is a loop of a sleep, a scan and a rerun that ends; an interrupt (Ctrl+C) ends the watcher, and the property is for watchers that are not interrupted. Edits are bounded.

## The proofs

All theorems are of the form `Spec => []Inv`, `Spec => [][A]_vars` or `Spec => Abstract!Spec`, for any sets and bounds that the
modules' assumptions allow. Each rests on `TypeCorrect`, type correctness of its module.

| Theorem | States | Argument |
|---|---|---|
| `StaffRosterProofs!RecordsStayOwn`, `RestoredWasGivenUp` | `RecordsOwnRoles`, `RestoresOnlyGivenUp`, for any overlap and crashes | `OwnInv`: also the rows in the hands of runs hold only own roles, and a run's roles are its member's (`HandsOwnRoles`); what a run writes back is such a row with its own member's key replaced |
| `StaffRosterProofs!NothingLost`, `RestoredWasStaffRole` | `RolesAccounted`, `RestoresOnlyStaffRoles` with one run at a time, crashes included | `SerialInv`: the copy in a run is the stored row (`NoneStale`), and a /hiatus holds every role it has taken (`HandsAccounted`) |
| `EditFlowProofs!ButtonsDeleteWhatTheyShow` | `DeletesWhatItShowed` for any overlap and crashes, if no two confirms are opened in a second | `ConfirmInv`: a record with a confirm's stamp names what that confirm showed, in the database and in runs |
| `EditFlowProofs!NothingLostUnseen`, `GroupsNeverOverwritten` | `LosesNothingUnseen`, `GroupsStay`, one run at a time | `AloneInv`: a run's copy of a row is the row |
| `EditFlowProofs!ConfirmsDeleteOnce` | `DeletesOnce`, one run at a time, no crash | `OnceInv`: a confirm that deleted has lost its record, or its run is about to delete it |
| `EngineProofs!RespondsOnce`, `WarnsExactly` | `OneResponse`, `WarnsWhenNothingIsShown` | `OneInv`, `ShownInv`: the flags say what the answers hold |
| `EngineProofs!RecordKeepsOrder` | `RecordInOrder`, for any depth of execCC | with `EndedAreEmpty`: runs that have ended have no record. Then what a run adds comes last in the concatenation, and a child's record joins its caller's without moving anything |
| `EngineProofs!ImplementsDiscord` | `GivesWhatDiscordTakes` | `OpenInv`; each call maps to a response, a filling, a follow-up or a stutter |
| `MockDBProofs!IdsStayUnique`, `ListsAreOrdered` | no two entries have one ID (`IdsUnique`); the order of lists is strict and total (`OrderIsTotal`), which `QueriesAgree` rests on | stored IDs are below the next one; value first, then ID, NaN last |
| `MockDBProofs!FunctionsAgree` | `QueriesAgree` for any users, keys, numbers and limits, and for however many entries | `FewAreStored`: at every time finitely many are stored; a finite set under a strict total order has exactly one element in each place from 1 to its size, so ranks, pages and counts are of one enumeration |
| `MockDBProofs!ActsAsExpiringStore` | `IsExpiringStore`, for any texts and numbers | each write and each second maps to its abstract step: an expired row is mapped to nothing but `kept`, which is the raw value of what is stored |
| `PrunePanelProofs!KickIsOfThisPress` | `KickIsRechecked` for any overlap | `Found`: what a run's stage presupposes it has seen |
| `PrunePanelProofs!EveryKickIsToldOnce` | `TellsWhatHappened` for any overlap and number of runs | `Books`: a member's kicks are those told of and one for each run that has kicked and is still to tell, which are finitely many |
| `DeploymentProofs!DryRunsOnlyRead` | `DryRunsWriteNothing`: a dry run changes nothing in the panel | `DryInv`: a dry run never reaches a stage from which a post is made |
| `DeploymentProofs!LeftoversAreTold` | `LeftoversAreReported` | `MadeInv`: `run` makes no command, and `create` none for an item it has not come to and only the session's own for the item it is at |
| `DeploymentProofs!ReportsSpeakTrue`, `TheRestIsKept` | `ReportsAreTrue`, `KeepsTheRest`, for any failures, lost answers and changes by hand | `WriteInv`: a path's ID is its own and no other's (`OwnInv`), what `run` has still to post, and the form in its hands, are as it found them or were changed by hand (`ToWriteInv`), `create` leaves alone what it finds (`LeftAloneInv`) |
| `DeploymentProofs!NoneTwiceYet` | `NoDuplicatesYet` | `NamesInv`: before the first failure a command has the name it was made for, but for the one being named, and `create` knows every name in use |
| `EmulatedRunProofs!NeverOverTheLimits` | `WithinLimits`, for every program, {{try}} and children included | `RunsInv` (`Good` of each run): of nothing that is limited has a context done more than it has counted (`Within`), and what is on record belongs to a context that started (`Owned`), so that a new child has done nothing. A call that is counted makes room for one (`Room`), and every function of the program does one limited thing at most |
| `EmulatedRunProofs!NumberedInOrder` | `MessagesNumbered` | `Numbered` in `RunsInv`: a message's number is its place among those on record; a child's record joins its caller's as a concatenation of neighbours |
| `EmulatedRunProofs!OneUnderAKey` | `OneUniqueRun` | `OneEach` in `RunsInv`; what `slices.DeleteFunc` leaves is a part of the list, in order (`DeletedIsLess`) |
| `EmulatedRunProofs!WarnsOfDifferences` | `WarnsWhereItDiffers`, for every program and any limits | `PairInv`: the two runs are the same in all but notes and are followed together, or the lenient one has noted a limit, in some context of its stack. For each function and each way a call ends, `Tells`: two runs that are the same stay so, or the lenient one notes it; and a note goes up when its context joins its caller's. Output beyond `MaxOutput` counts as noted, since the lenient run goes on to print and says so only when it ends (`CheckOutput`) |
| `EmulatedRunProofs!CatchIsCaught` | `CatchesAlike` (an action property) | the second half of `Tells`: where the runs part inside a {{try}}, the strict one stays in it or ends, so a strict run that is caught was not parted from |
| `EngineProofs!NothingIsLost` | `ItemsAreFaithful`, for sources of any length and any characters | `LexInv`: `start` is `pos`; whatever the lexer has passed since its last item may go (`Pending`), and `line` is 1 and the newlines up to `pos` unless the scan has ended or is at the text after the last action. An item closes the gap that was pending, a comment or a text of trimmed spaces widens it |
| `EngineProofs!ScanMovesOn` | every step of the lexer moves `pos` on or ends the scan (an action property) | from `LexInv`: each state function scans one character at least |
| `YagtestProofs!GreenHasChecked` | `GreenMeansChecked`, for any projects, edits, flags and interrupts; where snapshots are rewritten, for files given once that share no snapshot file | `GreenInv`: as long as the session is green, each result is as its test says (`RanAsSaid`), every test done has one (`DoneRan`), the snapshot under a result's name is what was made (`SavedInv`), and in CI, or after pruning files with snapshot files of their own (`Cleaned`), a file whose tests are done holds no other name (`CleanInv`). A session's tests are of the files it was given (`GivenInv`), so that another's snapshots are not touched on the way. `SavedInv` survives the next path because, with no file in two paths, what is still to be read has none of the files with results (`Apart`) |
| `YagtestProofs!UpdateThenGreen` | `UpdatedIsGreen`, for any projects and any sessions in between, interrupted ones included, unless an interrupt cuts a write off or two given files share a snapshot file (`OwnFiles`) | `UpdInv`: with no edit since, the paths of a green update are settled (`PathSettled`: the files load, every test passes and finds its snapshot, and none is stale; `UpdatedInv` says so of the paths done by a session that updates); no step of a later session unsettles a path (`BlessedInv`), and one over settled paths has no failure to report (`StaysGreen`), the tests it has read being those of a path as it is (`ReadingInv`) |
| `YagtestProofs!WatcherSleepsWell` | a watcher that sleeps and finds nothing changed since its scan has shown what there is: the safety half of `WatchCatchesUp` | `WatchInv`: what a rerun has read of a file is what the file is, if the scan before it saw the file as it is (`ReadSince`), since no edit has the modification time of an earlier one; a file that was listed and is gone counts as read as it was listed |
| `YagtestProofs!PingsWhomItMay` | `PingsOnlyTheAllowed`, for any calls, roles and limits | `PingInv`: every message shown was permitted when it was sent, and stays so, since whom a response may ping only grows. `complexMessage` is a recursive function over its keys (`KeysAdded`): after n of them, without an error, the allowed mentions are those of the last `allowed_mentions` among them (`LetBy`); no other key touches them (`AddKeyIs`) |

Nearly none of these properties is inductive by itself: a run's local copy, or the stage it is at, has to be known to agree with the stored state,
which is what the strengthenings say (`KickIsRechecked` needs what was seen, `WithinLimits` needs the counters, `WarnsWhereItDiffers` needs what is to be noted of runs that are not over).
TLC agrees with each theorem's property on the instances above.

Lists and counts. `FlattenSeq` of the community modules is a recursive function, as is `DeleteFunc`. What they return for a list of any length is an
induction, and the library's induction theorems take an operator, which the provers cannot instantiate. The proofs state the claim as a
set of indices instead and use that a non-empty set of numbers has a least element (`Least`, `UpTo`, from the library's `WFMin`): `FlattenIs` and the lemmas on
`Positions`, `Sent` and `IsLeftOf` rest on it, as does what `FirstIn` and the other scans of the lexer find. Cardinalities come from `FiniteSetTheorems`.

What the proofs assume of the constants is the modules' assumptions, which say no more than that bounds are numbers, markers are no values, the sizes the
code compares are in the order they have there (`MaxResponse <= MaxOutput <= LenientOutput`), a file holds tests, a snapshot file is a map from names and a path
names files (`ProjectsAssumption`), and a call is given a message of one of the kinds there are (`CallsAssumption`). The limits themselves, the programs, the depth of
children and the number of members, runs, entries and commands are arbitrary.

Model-checked only:

- the three liveness properties, and everything about fairness, which is out of the prover's reach;
- the template engine beyond its lexer, and yagmin: the parser, the interpreter and the transformations of trees are recursive operators, and what they
  compute is an induction over trees. The second half of `EngineProofs` is therefore about `LexerSpec`, the lexer by itself; a step of `TemplateEngine` is one of its steps or leaves its variables alone;
- `SaysAllOfIt`, `HeadersReadBack` and `ShownCanBeUsed`: they relate what a parser or builder makes of a text or a message to that text, character by character
  and row by row, through folds and selections (whose library definitions, `SelectSeq` among them, are recursive). The proofs about sessions take what a test's run makes
  (`RunTest`, `LoadTestFile`) as given functions of the test and the template, and the proof about pings takes rows and custom IDs as given;
- that the mutations listed in `PROJECT.json` break what they should.

## What the models found

Two are runs that TLC finds violated; `PROJECT.json` quotes the line that promises otherwise.

1. `staff_roster_lost_record`: `staff_roles` overlapping `/hiatus` erases the record the latter wrote.
2. `deployment_duplicate`: after one failure (a list page that came as an error page, or a lost second post, which
   gives the command its name) a repeated `create` makes a command the panel already has.

The others have no run of their own. They are why a constant, a history variable or an exception in a property is there, and appear
when it is set otherwise or removed.

Commands and deployment:

3. `/setup` and `bootstrap` may repoint the Staff role and leave it out of `Staff.Roles`, so that /hiatus does not take it.
4. With `Overlap = "commands"`, `/unhiatus` gives back a role that `staff_roles` removed from the list while it ran: `RestoresOnlyStaffRoles` is a serial property.
5. With `Embeds <- PastedTogether`, two IDs pasted together hide from `staff_roles` that the Staff role is missing.
6. With `OneConfirmPerSecond = FALSE`, of two confirms opened in one second the first deletes what the second shows: `DeletesWhatItShowed` assumes `TRUE`.
7. A change by hand between `run`'s read of a form and its post is undone: `KeepsTheRest` says nothing of commands changed by hand during the session (`byHand`).

Template engine and yagmin:

8. A range that assigns to variables it does not declare overwrites those at the top of the stack (`exec.go:86`), or crashes the engine
   if there are none: `{{range $,$ = ...}}`. `EndsCleanly` allows the crash there only.
9. A variable declared directly in a try or a catch outlives it in a run (`exec.go:364-379`), though the parser ends its scope: `NamesDoNotMatter` leaves these out.
10. `PipeNode.String` writes an assignment as a declaration (`node.go:168`): `ReadsWhatItWrites` leaves these out.
11. yagmin writes a newline after a header that does not trim (`minify.go:72`), which is seen if the main template is called or sent: `HeaderIsSeen`.
12. The check for database calls in loops sees no `execTemplate` with a computed name, and no `sendTemplate`.
13. The newlines of the text after the last action are not counted (`lex.go:296-299`), so that item and the end have an earlier line: `LinesAreRight` leaves them out.
    Any other item has the line at its end, where the comment at `lex.go:19` says "at the start of this item": a text, spaces or a raw string that spans lines has a
    later one. `LinesAreRight` says what the code does.

yagtest and the emulator:

14. `SplitArgs(JoinArgs(args))` does not give back an argument that begins with a space, which the comment at `funcs/args.go:436` promises: `SaysAllOfIt` leaves these out.
15. `parseArgs` takes `<@5x>` for user 5, and stops on `<@&>` with a panic; durations like `h` are 0 without an error, and large ones wrap.
16. A snapshot leaves out a run's error, its scheduled runs, warnings and pings (`snapshot.go:20-33`): a run that differs only in these matches it. And a session
   killed within `os.WriteFile` (`snapshot.go:210`) leaves a snapshot file that is cut off, perhaps unreadable, so that CI is red after a green update: `UpdatedIsGreen` leaves that out.
17. A file that is made after the watcher's scan, read by its rerun, and removed before the next scan is never rerun: the watcher
    shows results of a file that is gone (`watch.go:44-62`). `ShowsWhatIsThere` leaves this out, and TLC finds the behavior if it does not.
18. A session that rewrites snapshots and is given one file in two paths, with an edit in between, overwrites or prunes what its first run of the file
    compared or wrote, and is green: `GreenMeansChecked` speaks of snapshots if no file is given twice (`OnePathEach`) and none shares a snapshot file with
    another (`OwnSnapshots`, see 21), or none is rewritten.
19. A flat list of components loses the unfinished last row when there are more than 25; of an author's own rows the sixth and later, the sixth
    component and later, and what follows a menu in its row are dropped without an error; a button without an ID keeps the number its
    first message gave it, which may be another's in a later message, and is then refused as a duplicate.
    `ShownCanBeUsed` asks that nothing is lost of lists that fit and of rows that can be as they are (`CanBe`).
20. `dbIncr` of an expired text or dict clears its expiry and keeps its raw value (`db.go:175-216`), so `dbGet` gives the expired value again, for good: an entry
    that "disappears" (`docs/COOKBOOK.md:39`) is back. `ExpiringStore` allows this one trace, and TLC finds it if it does not.
21. `SnapshotPath` drops the extension (`snapshot.go:83-86`), so `foo.yaml` and `foo.yml` share a snapshot file: each prunes the snapshots the other still uses,
    in a green update too, though `PruneSnapshots` is to remove those "whose test no longer exists" (`snapshot.go:366-367`), and of two with one name the last is kept.
    `GreenMeansChecked` (of sessions that rewrite snapshots) and `UpdatedIsGreen` leave files out that share one; TLC finds both violated if they do not.
22. Of `context.channel` a run has the ID and the name (`runner.go:230-231`). Its type, parent, position, topic, nsfw, tags, `bot_cannot_send` and permission
    overwrites are loaded and dropped, unless `guild.channels` declares the channel, though `ChannelDef` says that `bot_cannot_send` "makes a send to this channel fail"
    (`testcase.go:451`). `SaysAllOfIt` leaves these fields (`ChannelFields`) out; TLC finds the loss if it does not.

## What is not modelled

- Wording, embeds, colours, avatars, dates, and lengths that only lead to a refusal.
- The limits on calls are modelled for the emulator's runs, not inside the roster: past them role calls do nothing while the
  record says they did, and `bootstrap` makes more database calls than a free server has.
- Roles above the bot's own, permission bits and channel overwrites; the bot's own rate limits; other bots.
- Clicks on a panel by people without the Staff role: refused before anything changes.
- In `EditFlow`, `/db`'s own steps; in `StaffRoster`, `/db` on the Staff row.
- Children beside their caller: YAGPDB runs an execCC child in a goroutine, the emulator inline (`engine.go:1093-1098` says so); the models follow the emulator.
- Of the template engine: methods and fields of Go values, complex numbers, escaping, templates read from files. Values are of six kinds, functions a dozen.
- Of yagtest: the subcommands that run or validate one template, YAML, the wording of failures, the hints (`hints.go`, `ccerrors.go`) that only explain an error.
- Of yagmin: the batch, check and prove modes, which read and write files.
- Tables and pure functions: `yagstd` (some 15,000 lines, nearly all of them lists of nouns, verbs and adjectives) and `confusables`
  (5,000 lines of character tables) hold no state and decide nothing; so do the text tools among the commands, the linter and the scripts.

The map covers 30 % of the lines of the implementation. The tables of words and characters alone are 43 % of these lines; of the rest more than half is covered.

## The plan

Written so far, in the order of what a failure costs a server: the roster, /edit, interactions, the database, pruning,
deployment; then the tools that let one test and deploy these: the emulator's runs and messages, the template engine with yagmin, yagtest. Left:

1. Proofs: `ShownCanBeUsed`, with rows and custom IDs written as recursive functions in the place of folds, as `KeysAdded` is.
2. `SharedRows`: the rows several commands write whole (`Global`, `Commands`, `Inactivity Prune`) with `/db`'s steps, bump, config sync and the prune date as writers.
3. `ChannelActivity`: tracker, two-page read, cleanup and pager over a list that changes.
4. `PromptPost` and `RulesPager`: several calls with a cleanup; page arithmetic against a reference.
5. yagmin's batch and check modes over a directory that changes; permission bits; concurrent children.
