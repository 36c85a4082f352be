----------------------------- MODULE Deployment -----------------------------
(***************************************************************************)
(* Deploying the commands to a server's control panel: run and create of   *)
(* deploy/deploy.js, pasted into a tab of the panel, against the panel's   *)
(* own edit forms.                                                         *)
(*                                                                         *)
(* run brings the commands of the manifest to the code and the structure   *)
(* the repository has; create makes new commands, disabled.  Each request  *)
(* may fail, and one whose answer is lost may have been carried out.  In   *)
(* between, somebody may work in the panel by hand, and the tab may be     *)
(* closed.  A command's code is the repository's ("new") or not, and so is *)
(* its structure; the fields no header manages are one field, other.       *)
(***************************************************************************)
EXTENDS Naturals

CONSTANTS
  Paths,        \* the commands of the repository, which are named by path
  NoPath, NoId,
  Refused,      \* those with a bad header, or a type or group the panel lacks
  MaxId,        \* bound: the command ids of the panel, which refuses more
  MaxFailures,  \* bound: requests that fail
  MaxEdits      \* bound: changes by hand while a session is under way

ASSUME NoPathAssumption == NoPath \notin Paths
ASSUME RefusedAssumption == Refused \subseteq Paths
ASSUME BoundsAssumption ==
  MaxId \in Nat /\ MaxFailures \in Nat /\ MaxEdits \in Nat /\ NoId \notin Nat

Ids == 1 .. MaxId

VARIABLES
  panel,      \* panel[i]: the command with id i, as the panel has it
  nextId,     \* the id of the next new command
  recorded,   \* deploy/panel.json: the id of each path
  session,    \* the run or create under way
  report,     \* what it returns, or the last one returned, per path
  failures, edits,
  (* history, read by no action *)
  before,     \* the panel as the session found it
  byHand,     \* the commands changed by hand since then
  purpose     \* purpose[i]: the path the command i was made for

limits  == <<failures, edits>>
history == <<before, byHand, purpose>>
vars == <<panel, nextId, recorded, session, report, failures, edits,
          before, byHand, purpose>>

-----------------------------------------------------------------------------
Absent  == [name |-> NoPath, code |-> "none"]
Command == [name : Paths \cup {NoPath},
            code : {"placeholder", "old", "new", "several"},
            structure : {"old", "new"}, other : {"a", "b"}, enabled : BOOLEAN]

Wishes == {"enable", "disable", "leave"}
AsWished(wish, c) == wish # "leave" => (c.enabled <=> wish = "enable")

Deployed(p, c) == c # Absent /\ c.name = p /\ c.code = "new" /\ c.structure = "new"

(* A plausible slip: the fields no header manages come out empty.          *)
AppliedToNew(p, wish, form) ==
  [name |-> p, code |-> "new", structure |-> "new", other |-> "a",
   enabled |-> IF wish = "leave" THEN form.enabled ELSE wish = "enable"]

(* applyStructure on a form as it was read, and the new code.              *)
Applied(p, wish, form) ==
  [form EXCEPT !.name = p, !.code = "new", !.structure = "new",
               !.enabled = IF wish = "leave" THEN @ ELSE wish = "enable"]

(* What a result says.  "posted" is every failure that the post, or what   *)
(* came after it, ended in; "may exist" is the same of create.             *)
Written    == {"updated", "posted"}
NotWritten == {"options", "missing", "skipped-multi", "same", "would-update", "refused"}
NotCreated == {"no", "exists", "would-create"}
Reports ==
  [status : Written \cup NotWritten \cup NotCreated
              \cup {"none", "created-disabled", "may exist", "created but"},
   id : Ids \cup {NoId}]
Says(status)     == [status |-> status, id |-> NoId]
SaysOf(status, i) == [status |-> status, id |-> i]

Stages == {"next", "decide", "post", "read back", "new", "page", "disable", "verify"}
NoSession == [kind |-> "none"]
Sessions ==
  [kind : {"run", "create"}, dry : BOOLEAN, wish : [Paths -> Wishes],
   existing : SUBSET Paths,        \* the names create found on the list pages
   todo : SUBSET Paths, item : Paths \cup {NoPath}, id : Ids \cup {NoId},
   form : Command \cup {Absent},   \* the item's form as it was read
   stage : Stages]

TypeOK ==
  /\ panel \in [Ids -> Command \cup {Absent}]
  /\ nextId \in 1 .. MaxId + 1
  /\ recorded \in [Paths -> Ids \cup {NoId}]
  /\ session \in Sessions \cup {NoSession}
  /\ session # NoSession =>
       /\ session.kind = "run" => \A p \in session.todo : recorded[p] # NoId
       /\ session.stage # "next" => session.item \in Paths
       /\ session.stage \notin {"next", "new"} => session.id \in Ids
       /\ session.stage \in {"decide", "post", "disable"} => session.form \in Command
  /\ report \in [Paths -> Reports]
  /\ failures \in 0 .. MaxFailures /\ edits \in 0 .. MaxEdits
  /\ before \in [Ids -> Command \cup {Absent}]
  /\ byHand \in SUBSET Ids
  /\ purpose \in [Ids -> Paths \cup {NoPath}]

(* A server some of whose commands are deployed already, one id each.      *)
Init ==
  /\ \E installed \in SUBSET Paths, number \in [Paths -> Ids],
        first \in 1 .. MaxId + 1,
        code \in {"old", "new", "several"}, structure \in {"old", "new"} :
       /\ \A p, q \in installed : number[p] = number[q] => p = q
       /\ \A p \in installed : number[p] < first
       /\ \A p \in Paths \ installed : number[p] = 1
       /\ panel = [i \in Ids |->
            IF \E p \in installed : number[p] = i
            THEN [name |-> CHOOSE p \in installed : number[p] = i,
                  code |-> code, structure |-> structure,
                  other |-> "b", enabled |-> TRUE]
            ELSE Absent]
       /\ recorded = [p \in Paths |-> IF p \in installed THEN number[p] ELSE NoId]
       /\ purpose = [i \in Ids |->
            IF \E p \in installed : number[p] = i
            THEN CHOOSE p \in installed : number[p] = i ELSE NoPath]
       /\ nextId = first
  /\ session = NoSession
  /\ report = [p \in Paths |-> Says("none")]
  /\ failures = 0 /\ edits = 0
  /\ before = panel
  /\ byHand = {}

-----------------------------------------------------------------------------
(* Both report an item and go on with the next one.                        *)
Finish(r) ==
  /\ report' = [report EXCEPT ![session.item] = r]
  /\ session' = [session EXCEPT !.stage = "next", !.item = NoPath]

At(kind, stage) == session # NoSession /\ session.kind = kind /\ session.stage = stage

GoOn(stage) ==
  session' = [session EXCEPT !.stage = stage] /\ UNCHANGED report

Fails == failures < MaxFailures /\ failures' = failures + 1 /\ UNCHANGED edits

Begin(kind, dry, wish, existing, todo) ==
  /\ session = NoSession
  /\ session' = [kind |-> kind, dry |-> dry, wish |-> wish, existing |-> existing,
                 todo |-> todo, item |-> NoPath, id |-> NoId, form |-> Absent,
                 stage |-> "next"]
  /\ report' = [p \in Paths |-> Says("none")]
  /\ before' = panel /\ byHand' = {}
  /\ UNCHANGED <<panel, nextId, recorded, purpose>>

NextItem(p) ==
  /\ session # NoSession /\ session.stage = "next"
  /\ p \in session.todo
  /\ UNCHANGED <<panel, nextId, recorded, history>>

Return ==
  /\ session # NoSession /\ session.stage = "next" /\ session.todo = {}
  /\ session' = NoSession
  /\ UNCHANGED <<panel, nextId, recorded, report, limits, history>>

CloseTab ==
  /\ session # NoSession
  /\ Fails
  /\ session' = NoSession
  /\ report' = [p \in Paths |-> Says("none")]
  /\ UNCHANGED <<panel, nextId, recorded, history>>

-----------------------------------------------------------------------------
(* run(manifest, {dryRun, enable, disable}), the manifest being the paths  *)
(* that have an id.  checkOptions: "Refuse before anything is fetched, so  *)
(* a typo can't half-apply."                                               *)
Manifest == {p \in Paths : recorded[p] # NoId}
BadOptions(enable, disable) ==
  (enable \cap disable) \cup ((enable \cup disable) \ Manifest)

WishOf(enable, disable) ==
  [p \in Paths |-> IF p \in enable THEN "enable"
                   ELSE IF p \in disable THEN "disable" ELSE "leave"]

RefuseRun(enable, disable) ==
  /\ session = NoSession
  /\ BadOptions(enable, disable) # {}
  /\ report' = [p \in Paths |-> IF p \in BadOptions(enable, disable)
                                THEN Says("options") ELSE Says("none")]
  /\ before' = panel /\ byHand' = {}
  /\ UNCHANGED <<panel, nextId, recorded, session, limits, purpose>>

BeginRun(dry, enable, disable) ==
  /\ BadOptions(enable, disable) = {}
  /\ Begin("run", dry, WishOf(enable, disable), {}, Manifest)
  /\ UNCHANGED limits

(* The edit page of an item of run, or an error, which nothing follows: a  *)
(* page that is not the form counts as a command that is missing.          *)
Fetch(p) ==
  /\ NextItem(p) /\ session.kind = "run"
  /\ LET i == recorded[p]
         taken == [session EXCEPT !.todo = @ \ {p}]
     IN  IF panel[i] = Absent \/ panel[i].code = "several"
         THEN /\ session' = taken
              /\ report' = [report EXCEPT ![p] =
                   Says(IF panel[i] = Absent THEN "missing" ELSE "skipped-multi")]
         ELSE /\ session' = [taken EXCEPT !.item = p, !.id = i,
                               !.form = panel[i], !.stage = "decide"]
              /\ UNCHANGED report
  /\ UNCHANGED limits

FetchFails(p) ==
  /\ NextItem(p) /\ session.kind = "run"
  /\ Fails
  /\ session' = [session EXCEPT !.todo = @ \ {p}]
  /\ \E st \in {"refused", "missing"} : report' = [report EXCEPT ![p] = Says(st)]

(* A plausible slip: only the code is compared.                            *)
DiffersInCode(p, wish, form) == form.code # "new"

(* The committed code, fetched before deciding also in a dry run, and      *)
(* decide; a failed or different fetch, a bad header, a type or group the  *)
(* panel lacks: nothing is posted.                                         *)
Differs(p, wish, form) == ~Deployed(p, form) \/ ~AsWished(wish, form)

Decide ==
  LET p == session.item
      differs == Differs(p, session.wish[p], session.form)
  IN  /\ At("run", "decide")
      /\ \/ p \in Refused /\ Finish(Says("refused"))
         \/ p \notin Refused /\ ~differs /\ Finish(Says("same"))
         \/ p \notin Refused /\ differs /\ session.dry /\ Finish(Says("would-update"))
         \/ p \notin Refused /\ differs /\ ~session.dry /\ GoOn("post")
      /\ UNCHANGED <<panel, nextId, recorded, limits, history>>

DecideFails ==
  /\ At("run", "decide")
  /\ Fails
  /\ Finish(Says("refused"))
  /\ UNCHANGED <<panel, nextId, recorded, history>>

(* The form as it was read goes back to the panel, changed.  The panel may *)
(* reject it, the answer of a command that is gone looks the same.         *)
Save(i, c) == panel' = IF panel[i] = Absent THEN panel ELSE [panel EXCEPT ![i] = c]

Post ==
  LET p == session.item
  IN  /\ At("run", "post")
      /\ \/ /\ Save(session.id, Applied(p, session.wish[p], session.form))
            /\ UNCHANGED limits
         \/ panel' = panel /\ Fails
      /\ GoOn("read back")
      /\ UNCHANGED <<nextId, recorded, history>>

(* No answer to the post, whether it was carried out or not.               *)
PostUnanswered ==
  LET p == session.item
  IN  /\ At("run", "post")
      /\ Fails
      /\ \/ panel' = panel
         \/ Save(session.id, Applied(p, session.wish[p], session.form))
      /\ Finish(Says("posted"))
      /\ UNCHANGED <<nextId, recorded, history>>

(* A plausible slip: a page that shows no error means success.             *)
ReadBackTrusting ==
  /\ At("run", "read back")
  /\ Finish(Says("updated"))
  /\ UNCHANGED <<panel, nextId, recorded, limits, history>>

(* classifyReadBack: "Success is decided ONLY by what the read-back        *)
(* shows", which is that the command is deployed and enabled as asked.     *)
ReadBack ==
  LET p    == session.item
      live == panel[session.id]
      ok   == Deployed(p, live) /\ AsWished(session.wish[p], live)
  IN  /\ At("run", "read back")
      /\ Finish(Says(IF ok THEN "updated" ELSE "posted"))
      /\ UNCHANGED <<panel, nextId, recorded, limits, history>>

ReadBackFails ==
  /\ At("run", "read back")
  /\ Fails
  /\ Finish(Says("posted"))
  /\ UNCHANGED <<panel, nextId, recorded, history>>

-----------------------------------------------------------------------------
(* create(guild, items, {dryRun}), which first reads the names of the       *)
(* commands there are off the list pages, one for each group.  A page that *)
(* comes as something else is one without names.                           *)
InUse == {p \in Paths : \E i \in Ids : panel[i].name = p}
BeginCreate(dry, items) ==
  \E existing \in SUBSET InUse :
    /\ Begin("create", dry, [p \in Paths |-> "leave"], existing, items)
    /\ IF existing = InUse THEN UNCHANGED limits ELSE Fails

(* The first of these pages is an error, or has no form for a new command. *)
CreateCannotBegin(items) ==
  /\ session = NoSession
  /\ Fails
  /\ \E st \in {"no", "none"} :
       report' = [p \in Paths |-> Says(IF p \in items THEN st ELSE "none")]
  /\ before' = panel /\ byHand' = {}
  /\ UNCHANGED <<panel, nextId, recorded, session, purpose>>

(* The guards of an item: the list page's groups, the names it shows.      *)
CreateItem(p) ==
  /\ NextItem(p) /\ session.kind = "create"
  /\ LET left(st) == /\ report' = [report EXCEPT ![p] = Says(st)]
                     /\ session' = [session EXCEPT !.todo = @ \ {p}]
         exists == p \in session.existing
     IN  \/ p \in Refused /\ left("no")
         \/ p \notin Refused /\ exists /\ left("exists")
         \/ p \notin Refused /\ ~exists /\ session.dry /\ left("would-create")
         \/ /\ p \notin Refused /\ ~exists /\ ~session.dry
            /\ session' = [session EXCEPT !.todo = @ \ {p}, !.item = p, !.stage = "new"]
            /\ UNCHANGED report
  /\ UNCHANGED limits

(* The first post: the panel makes a command, enabled and without a name.  *)
NewCommand == [name |-> NoPath, code |-> "placeholder", structure |-> "old",
               other |-> "a", enabled |-> TRUE]
Made ==
  /\ nextId <= MaxId
  /\ panel' = [panel EXCEPT ![nextId] = NewCommand]
  /\ nextId' = nextId + 1
  /\ purpose' = [purpose EXCEPT ![nextId] = session.item]
NotMade == UNCHANGED <<panel, nextId, purpose>>

New ==
  /\ At("create", "new")
  /\ Made
  /\ session' = [session EXCEPT !.id = nextId, !.stage = "page",
                                !.existing = @ \cup {session.item}]
  /\ UNCHANGED <<recorded, report, limits, before, byHand>>

(* An answer without an id, or none: "a command MAY have been created".    *)
NewRejected ==
  /\ At("create", "new")
  /\ nextId > MaxId
  /\ Finish(Says("may exist"))
  /\ UNCHANGED <<panel, nextId, recorded, limits, history>>

NewUnanswered ==
  /\ At("create", "new")
  /\ Fails
  /\ Made \/ NotMade
  /\ Finish(Says("may exist"))
  /\ UNCHANGED <<recorded, before, byHand>>

CreatedBut == Finish(SaysOf("created but", session.id))

(* Its edit form, missing when the command is gone.                        *)
Page ==
  /\ At("create", "page")
  /\ IF panel[session.id] = Absent THEN CreatedBut
     ELSE /\ session' = [session EXCEPT !.form = panel[session.id], !.stage = "disable"]
          /\ UNCHANGED report
  /\ UNCHANGED <<panel, nextId, recorded, limits, history>>

(* A plausible slip: the form goes back with the name it had.              *)
DisabledOnly(form) == [form EXCEPT !.enabled = FALSE]

(* The second post: disabled, and with its name.                           *)
Named(form) == [form EXCEPT !.name = session.item, !.enabled = FALSE]

Disable ==
  /\ At("create", "disable")
  /\ \/ Save(session.id, Named(session.form)) /\ UNCHANGED limits
     \/ panel' = panel /\ Fails
  /\ GoOn("verify")
  /\ UNCHANGED <<nextId, recorded, history>>

DisableUnanswered ==
  /\ At("create", "disable")
  /\ Fails
  /\ panel' = panel \/ Save(session.id, Named(session.form))
  /\ CreatedBut
  /\ UNCHANGED <<nextId, recorded, history>>

(* A plausible slip: the answer to the second post is taken for granted.   *)
VerifyNothing ==
  /\ At("create", "verify")
  /\ Finish(SaysOf("created-disabled", session.id))
  /\ UNCHANGED <<panel, nextId, recorded, limits, history>>

Verify ==
  LET live == panel[session.id]
  IN  /\ At("create", "verify")
      /\ IF live # Absent /\ ~live.enabled
         THEN Finish(SaysOf("created-disabled", session.id)) ELSE CreatedBut
      /\ UNCHANGED <<panel, nextId, recorded, limits, history>>

(* An error in the fetch of the form, before or after the second post.     *)
CreateFails ==
  /\ At("create", "page") \/ At("create", "verify")
  /\ Fails
  /\ CreatedBut
  /\ UNCHANGED <<panel, nextId, recorded, history>>

-----------------------------------------------------------------------------
(* The operator commits the ids that create returned.                      *)
Record(p) ==
  /\ session = NoSession
  /\ report[p].id # NoId
  /\ recorded' = [recorded EXCEPT ![p] = report[p].id]
  /\ UNCHANGED <<panel, nextId, session, report, limits, history>>

(* Somebody changes a command in the panel, or deletes it.                 *)
ByHand(i) ==
  /\ edits < MaxEdits /\ edits' = edits + 1
  /\ panel[i] # Absent
  /\ \E c \in { Absent,
                [panel[i] EXCEPT !.enabled = ~@],
                [panel[i] EXCEPT !.other = IF @ = "a" THEN "b" ELSE "a"] } :
       panel' = [panel EXCEPT ![i] = c]
  /\ byHand' = byHand \cup {i}
  /\ UNCHANGED <<nextId, recorded, session, report, failures, before, purpose>>

RunStep ==
  \/ \E p \in Paths : Fetch(p) \/ FetchFails(p)
  \/ Decide \/ DecideFails
  \/ Post \/ PostUnanswered
  \/ ReadBack \/ ReadBackFails
CreateStep ==
  \/ \E p \in Paths : CreateItem(p)
  \/ New \/ NewRejected \/ NewUnanswered
  \/ Page \/ Disable \/ DisableUnanswered
  \/ Verify \/ CreateFails
SessionStep == RunStep \/ CreateStep \/ Return

Operator ==
  \/ \E items \in SUBSET Paths :
       \/ CreateCannotBegin(items)
       \/ \E dry \in BOOLEAN : BeginCreate(dry, items)
  \/ \E enable, disable \in SUBSET Paths :
       \/ RefuseRun(enable, disable)
       \/ \E dry \in BOOLEAN : BeginRun(dry, enable, disable)
  \/ \E p \in Paths : Record(p)

Next == SessionStep \/ CloseTab \/ Operator \/ \E i \in Ids : ByHand(i)

Spec == Init /\ [][Next]_vars

(* A session goes on once it is begun, and the operator runs run again and *)
(* again, for as long as its report names failures.                        *)
FairSpec ==
  /\ Spec
  /\ WF_vars(SessionStep)
  /\ SF_vars(BeginRun(FALSE, {}, {}))

-----------------------------------------------------------------------------
(* What a report says of a command nobody changed by hand meanwhile is so: *)
(* one that is the same or updated is deployed, and one that was refused,  *)
(* missing, skipped or only rehearsed is as the session found it.          *)
ReportsAreTrue ==
  \A p \in Paths :
    recorded[p] # NoId /\ recorded[p] \notin byHand =>
      LET i == recorded[p]
      IN  /\ report[p].status \in {"same", "updated"} => Deployed(p, panel[i])
          /\ report[p].status \in NotWritten => panel[i] = before[i]

(* A dry run, of run or of create, changes nothing in the panel.           *)
DryRunsWriteNothing ==
  session # NoSession /\ session.dry => \A i \in Ids \ byHand : panel[i] = before[i]

(* The fields no header manages stay as they are, and so does is_enabled   *)
(* of a command that no run was asked to enable or disable.                *)
KeepsTheRest ==
  \A i \in Ids \ byHand :
    before[i] # Absent =>
      /\ panel[i] # Absent /\ panel[i].other = before[i].other
      /\ panel[i].enabled # before[i].enabled =>
           \E p \in Paths : recorded[p] = i /\ (session # NoSession => session.wish[p] # "leave")

(* "every failure after the command may exist says so": a command create   *)
(* has made and not disabled is one that its report speaks of.             *)
LeftoversAreReported ==
  \A p \in Paths, i \in Ids \ byHand :
    before[i] = Absent /\ purpose[i] = p /\ panel[i] # Absent /\ panel[i].enabled =>
      \/ report[p].status \in {"may exist", "created but"}
      \/ report[p].status = "none" /\ (session = NoSession \/ session.item = p)

(* The strengthenings the proofs need.  A dry run never comes to a post;   *)
(* run makes no command, and create none for an item it has not come to,   *)
(* and one for the item it is at.                                          *)
DryInv ==
  session # NoSession /\ session.dry =>
    /\ session.stage \in {"next", "decide"}
    /\ \A i \in Ids \ byHand : panel[i] = before[i]

MadeFor(p) == {i \in Ids : before[i] = Absent /\ panel[i] # Absent /\ purpose[i] = p}
MadeInv ==
  session # NoSession =>
    /\ session.kind = "run" => \A i \in Ids : before[i] = Absent => panel[i] = Absent
    /\ session.kind = "create" =>
         /\ session.stage = "next" => session.item = NoPath
         /\ session.item \notin session.todo
         /\ \A p \in session.todo : report[p].status = "none" /\ MadeFor(p) = {}
         /\ session.stage # "next" =>
              /\ report[session.item].status = "none"
              /\ MadeFor(session.item) \subseteq
                   IF session.stage = "new" THEN {} ELSE {session.id}

(* An id that is not given yet is nobody's, and one that is was given for  *)
(* the path that has it on record, in a report or in the session.          *)
OwnInv ==
  /\ \A i \in Ids : i >= nextId =>
       panel[i] = Absent /\ before[i] = Absent /\ purpose[i] = NoPath
  /\ \A p \in Paths :
       /\ recorded[p] # NoId => purpose[recorded[p]] = p
       /\ report[p].id # NoId => purpose[report[p].id] = p
                                  /\ report[p].status \in {"created-disabled", "created but"}
  /\ session # NoSession /\ session.kind = "create" /\ session.stage \notin {"next", "new"} =>
       purpose[session.id] = session.item /\ before[session.id] = Absent

(* A run has not written the commands it has not come to, and the form it  *)
(* is to post is the one it found, or was changed by hand.                 *)
ToWriteInv ==
  session # NoSession /\ session.kind = "run" =>
    /\ \A p \in Paths : report[p].id = NoId
    /\ \A p \in session.todo :
         /\ report[p].status = "none"
         /\ recorded[p] \in byHand \/ panel[recorded[p]] = before[recorded[p]]
    /\ session.stage # "next" =>
         session.item \notin session.todo /\ session.id = recorded[session.item]
           /\ report[session.item].status = "none"
    /\ session.stage \in {"decide", "post"} =>
         \/ session.id \in byHand
         \/ session.form = before[session.id] /\ panel[session.id] = before[session.id]

(* Create leaves the commands alone that it finds, until its ids are       *)
(* recorded too, and says nothing of them that a run would.                *)
LeftAloneInv ==
  /\ session # NoSession /\ session.kind = "create" =>
       \A p \in Paths : report[p].status \notin {"same", "updated"} \cup NotWritten
  /\ \/ session # NoSession /\ session.kind = "create"
     \/ \E p \in Paths : report[p].id # NoId
     => \A i \in Ids \ byHand : before[i] # Absent => panel[i] = before[i]

(* While no request has failed, a command has the name it was made for     *)
(* but for the one create is about to name, and create knows every name.   *)
Unnamed(i) ==
  /\ session # NoSession /\ session.kind = "create"
  /\ session.stage \in {"page", "disable"} /\ session.id = i
NamesInv ==
  failures = 0 =>
    /\ \A i \in Ids : panel[i] # Absent /\ purpose[i] # NoPath /\ ~Unnamed(i) =>
         panel[i].name = purpose[i]
    /\ session # NoSession /\ session.kind = "create" =>
         /\ InUse \subseteq session.existing
         /\ session.stage = "new" => session.item \notin session.existing
         /\ session.stage \notin {"next", "new"} => session.item \in session.existing

(* "a repeated create can't make a duplicate", as the comment of the list  *)
(* pages has it; and so it is while no request has failed.                 *)
NoDuplicates ==
  \A i, j \in Ids :
    panel[i] # Absent /\ panel[j] # Absent /\ purpose[i] = purpose[j]
      /\ purpose[i] # NoPath => i = j
NoDuplicatesYet == failures = 0 => NoDuplicates

(* Run again after failures, closed tabs and changes by hand, run brings   *)
(* every command that has an id, one response and a good header to the     *)
(* repository's code and structure.                                        *)
DeploysInTheEnd ==
  <>[](\A p \in Manifest \ Refused :
         LET live == panel[recorded[p]]
         IN  live # Absent /\ live.code # "several" => Deployed(p, live))
=============================================================================
