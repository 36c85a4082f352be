----------------------------- MODULE EmulatedRun -----------------------------
(* What the emulator does with the calls of a template's functions: the    *)
(* run of a custom command with its execCC children, once with -strict, as *)
(* YAGPDB would run it, and once without, going on past what YAGPDB would  *)
(* stop or skip.  Both run the same program: a behaviour is the sequence   *)
(* of calls the program makes, taken by both runs as long as they stand at *)
(* the same place; where one stops, or goes to its {{catch}}, and the      *)
(* other does not, either one is followed on.                              *)
(*                                                                         *)
(* A run is a stack of contexts, the top-level one at the bottom, and what *)
(* they share: the count of sent messages, the threads of the server and   *)
(* the scheduled runs.  Everything else is a context's own; what a child   *)
(* did joins its caller's record when it ends.                             *)
EXTENDS CallLimits, Sequences, SequencesExt, FiniteSets

CONSTANTS
  Calls,          \* bound: Calls[n] is the set of calls that can be a program's nth, its children's
                  \* included; a call is a record whose fn names the function
  Channels,       \* the server's channels; a channel a call names may also be "own", "thread" or none of these
  ForumChannels,  \* those a post can be made in
  Muted,          \* those the bot may not send to
  PinsFull,       \* those whose list of pins is full
  Roles,          \* the server's roles
  Held,           \* those the member who runs the command has
  Stranger,       \* a user who is not in the server
  MaxTries,       \* bound: {{try}} blocks of one program
  MaxDepth,       \* execCC children below one another
  MaxSleep,       \* seconds a run may sleep
  MaxResponse,    \* size of a message
  MaxOutput,      \* size of the output YAGPDB's writer takes
  LenientOutput   \* and of what the emulator takes without -strict

ASSUME EmulatedRunAssumption ==
  /\ ForumChannels \subseteq Channels /\ Muted \subseteq Channels /\ PinsFull \subseteq Channels
  /\ Held \subseteq Roles
  /\ Len(Calls) \in Nat /\ MaxTries \in Nat /\ MaxDepth \in Nat
  /\ {MaxResponse, MaxOutput, LenientOutput} \subseteq Nat
  /\ MaxResponse <= MaxOutput /\ MaxOutput <= LenientOutput

MaxCalls == Len(Calls)

VARIABLES
  premium,   \* whether the server has premium
  trigger,   \* whether a message started the run, rather than an interval (no message, no member)
  runs,      \* the two runs, by strict
  followed,  \* those that stand at the program's next call
  calls,     \* how many calls the program has made
  tries      \* how many {{try}} blocks it has entered

vars == <<premium, trigger, runs, followed, calls, tries>>

-----------------------------------------------------------------------------
(* Contexts and what they record. *)

Context(id, channel, known, posts, slept, cannotSend) ==
  [id |-> id, channel |-> channel, count |-> [k \in Counters |-> 0], setFor |-> {}, inTry |-> FALSE,
   known |-> known, created |-> 0, posts |-> posts, output |-> 0, deletes |-> "no", reactions |-> 0,
   slept |-> slept, cannotSend |-> cannotSend, effects |-> <<>>, warned |-> {}]

Top(r) == Last(r.stack)
WithTop(r, c) == [r EXCEPT !.stack[Len(r.stack)] = c]

Warn(r, kind) == WithTop(r, [Top(r) EXCEPT !.warned = @ \cup {kind}])

\* Something the run did: of what kind, in which channel or with which role, and
\* with which message or thread.
Record(r, of, in, id) ==
  WithTop(r, [Top(r) EXCEPT !.effects = Append(@, [by |-> Top(r).id, of |-> of, in |-> in, id |-> id])])

\* Every message sent takes the next number; one to a channel can be fetched later.
RecordSentMessage(r, of, in) ==
  LET n == r.sent + 1
      numbered == [Record(r, of, in, n) EXCEPT !.sent = n]
  IN IF in = "dm" THEN numbered
     ELSE WithTop(numbered, [Top(numbered) EXCEPT !.known = @ \cup {[id |-> n, in |-> in]}])

\* Each context numbers the threads it makes from the first number on.
RegisterThread(r, parent) ==
  LET n == Top(r).created + 1
      made == WithTop(r, [Top(r) EXCEPT !.created = n])
  IN [Record(made, "thread", parent, n) EXCEPT !.threads = @ \cup {n}]

\* A deletion after a delay and the reactions, once a response is sent.
RecordResponseSent(r, of) ==
  LET c == Top(r)
      deleted == IF c.deletes = "no" THEN r ELSE Record(r, "delete", c.channel, of)
  IN WithTop(deleted, [Top(deleted) EXCEPT !.effects = @ \o
       [i \in 1 .. c.reactions |-> [by |-> c.id, of |-> "responseReaction", in |-> c.channel, id |-> of]]])

-----------------------------------------------------------------------------
(* What a call names. *)

\* A thread is named by its number, the latest of those registered.
ChannelArg(r, ch) ==
  CASE ch = "own" -> Top(r).channel
    [] ch = "thread" -> IF r.threads = {} THEN "none" ELSE "thread"
    [] OTHER -> IF ch \in Channels THEN ch ELSE "none"

\* The messages of a channel a context knows: those sent, but not by other contexts meanwhile.
SentIn(r, ch) == {m.id : m \in {k \in Top(r).known : k.in = ch}}
KnownSent(r, ch) == SentIn(r, ch) # {}

\* The run's own message: a stand-in that is nowhere, for a run that has none.
TriggerExists(ch) == trigger /\ ch = "here"
MessageExists(r, ch, msg) == (msg = "sent" /\ KnownSent(r, ch)) \/ (msg = "trigger" /\ TriggerExists(ch))
MessageId(r, ch, msg) == IF msg = "sent" THEN Max(SentIn(r, ch)) ELSE 0

IsForumStarter(r, ch, msg) == ch = "thread" /\ msg = "starter" /\ Max(r.threads) \in Top(r).posts

-----------------------------------------------------------------------------
(* What a call does where it is carried out: its kind and the run after it. *)
(*   ok        done                                                         *)
(*   error     the function returns an error                                *)
(*   refused   Discord refuses: an error, or a warning and nothing done     *)
(*   rejected  the message is too large: an error, or sent with a warning   *)
(*   dropped   the same where YAGPDB ignores the error                      *)
(*   noted     nothing done, with a warning of another kind                 *)

Ok(r) == [kind |-> "ok", run |-> r]
Error(r) == [kind |-> "error", run |-> r]
Refused(r) == [kind |-> "refused", run |-> r]
Noted(r, kind) == [kind |-> "noted", run |-> Warn(r, kind)]

\* The checks of a message before it is sent: whether it is too large for Discord,
\* and whether its components are refused.
Checked(r, body, done) ==
  CASE body = "large" -> [kind |-> "rejected", run |-> done]
    [] body = "badComponents" -> Refused(r)
    [] OTHER -> Ok(done)

Send(r, c) ==
  LET ch == ChannelArg(r, c.ch)
  IN CASE ch = "none" -> Ok(r)
       [] ch \in Top(r).cannotSend -> Refused(r)
       [] OTHER -> Checked(r, c.body, RecordSentMessage(r, "send", ch))

SendDM(r, c) ==
  IF ~trigger THEN Noted(r, "response")
  ELSE IF c.body = "large" THEN [kind |-> "dropped", run |-> RecordSentMessage(r, "dm", "dm")]
  ELSE Ok(RecordSentMessage(r, "dm", "dm"))

EditMessage(r, c) ==
  LET ch == ChannelArg(r, c.ch)
  IN IF ch = "none" THEN Error(r)
     ELSE IF c.msg = "sent" /\ KnownSent(r, ch)
     THEN Checked(r, c.body, Record(r, "edit", ch, MessageId(r, ch, c.msg)))
     ELSE Refused(r)  \* unknown, or another's

\* Whether the message to delete exists does not matter.
DeleteMessage(r, c) ==
  LET ch == ChannelArg(r, c.ch)
  IN IF ch = "none" THEN Ok(r)
     ELSE Ok(Record(r, "delete", ch, IF MessageExists(r, ch, c.msg) THEN MessageId(r, ch, c.msg) ELSE 0))

DeleteTrigger(r, c) == IF trigger THEN Ok(Record(r, "delete", "here", 0)) ELSE Ok(r)

DeleteResponse(r, c) == Ok(WithTop(r, [Top(r) EXCEPT !.deletes = c.when]))

HasRole(user, role) == user # Stranger /\ role \in Held

\* giveRole and takeRole do nothing for what they do not find; a delay skips the check.
ChangeRole(r, c) ==
  LET given == c.fn \in {"giveRole", "addRole"}
      due == c.user # Stranger /\ HasRole(c.user, c.role) # given
  IN IF c.role \notin Roles THEN (IF c.fn \in {"giveRole", "takeRole"} THEN Ok(r) ELSE Error(r))
     ELSE IF c.delayed \/ due THEN Ok(Record(r, c.fn, c.role, 0)) ELSE Ok(r)

TargetHasRole(r, c) == IF c.user = Stranger \/ c.role \notin Roles THEN Error(r) ELSE Ok(r)

Exec(r, c) == IF c.answer = "badArgument" THEN Error(r)
              ELSE LET done == Record(r, "exec", Top(r).channel, 0)
                   IN CASE c.answer = "declared" -> Ok(done)
                        [] c.answer = "error" -> Error(done)
                        [] OTHER -> Noted(done, "exec")

Sleep(r, c) ==
  IF Top(r).slept + c.seconds > MaxSleep \/ c.seconds < 1 THEN Error(r)
  ELSE Ok(WithTop(r, [Top(r) EXCEPT !.slept = @ + c.seconds]))

React(r, c, of) ==
  LET ch == ChannelArg(r, c.ch)
  IN IF c.emoji = "notText" \/ ~MessageExists(r, ch, c.msg) THEN Refused(r)
     ELSE Ok(Record(r, of, ch, MessageId(r, ch, c.msg)))

\* addReactions: the run's message, or its stand-in.
AddReactions(r, c) ==
  IF c.emoji = "notText" \/ ~trigger THEN Refused(r) ELSE Ok(Record(r, "reaction", "here", 0))
AddResponseReactions(r, c) == Ok(WithTop(r, [Top(r) EXCEPT !.reactions = @ + 1]))
DeleteAllMessageReactions(r, c) ==
  LET ch == ChannelArg(r, c.ch)
  IN IF MessageExists(r, ch, c.msg) THEN Ok(Record(r, "allReactions", ch, MessageId(r, ch, c.msg)))
     ELSE Noted(r, "message")

Pin(r, c) ==
  LET ch == ChannelArg(r, c.ch)
  IN IF ch = "none" THEN Error(r)
     ELSE IF \/ ~MessageExists(r, ch, c.msg) /\ ~IsForumStarter(r, ch, c.msg)
             \/ ch \in PinsFull /\ c.fn = "pinMessage"
     THEN Refused(r)
     ELSE Ok(Record(r, "pin", ch, MessageId(r, ch, c.msg)))

\* processThreadArgs: a key it does not know, or a value of the wrong type or range.
BadThreadArgs(c) == c.options = "bad"

CreateForumPost(r, c) ==
  LET ch == ChannelArg(r, c.ch)
      made == RegisterThread(r, ch)
      posted == WithTop(made, [Top(made) EXCEPT !.posts = @ \cup {Top(made).created}])
  IN IF c.body # "none" /\ ch = "none" THEN Ok(r)
     ELSE IF c.body = "none" \/ ch \notin ForumChannels \/ BadThreadArgs(c) THEN Error(r)  \* a thread, or of another type
     ELSE IF c.name = "bad" \/ ch \in Top(r).cannotSend THEN Refused(r)
     ELSE Checked(r, c.body, RecordSentMessage(posted, "firstMessage", "thread"))

CreateThread(r, c) ==
  LET ch == ChannelArg(r, c.ch)
  IN IF ch = "none" THEN Ok(r)
     ELSE IF ch = "thread" \/ BadThreadArgs(c) THEN Error(r)
     ELSE IF (c.msg # "no" /\ ~MessageExists(r, ch, c.msg)) \/ c.name = "bad" THEN Refused(r)
     ELSE Ok(RegisterThread(r, ch))

-----------------------------------------------------------------------------
(* Scheduled runs: shared by the contexts of a run, in the order made. *)

\* slices.DeleteFunc: the others of a list, in their order.
DeleteFunc(q, gone) ==
  LET kept[i \in 0 .. Len(q)] ==
        IF i = 0 THEN <<>> ELSE IF q[i] \in gone THEN kept[i - 1] ELSE Append(kept[i - 1], q[i])
  IN kept[Len(q)]

\* A plausible slip: a child's runs are its own.
CancelOwnOnly(r, cc, key) ==
  [r EXCEPT !.scheduled = DeleteFunc(@, {s \in Range(@) : s.cc = cc /\ s.key = key /\ s.by = Top(r).id})]

CancelScheduled(r, cc, key) ==
  [r EXCEPT !.scheduled = DeleteFunc(@, {s \in Range(@) : s.cc = cc /\ s.key = key})]

\* key is "none" for execCC, whose data may be too large.
Schedule(r, c, key) ==
  IF key = "none" /\ c.data = "large" THEN Error(r)
  ELSE LET replaced == IF key = "none" THEN r ELSE CancelScheduled(r, c.cc, key)
       IN Ok([replaced EXCEPT !.scheduled =
                Append(@, [cc |-> c.cc, key |-> key, in |-> ChannelArg(r, c.ch), by |-> Top(r).id])])

\* The lookup fails for a command declared missing or disabled, or of a type that cannot be called.
FindsCC(cc) == cc # "missing"

ScheduleUniqueCC(r, c) ==
  IF ~FindsCC(c.cc) \/ ChannelArg(r, c.ch) = "none" THEN Error(r)
  ELSE IF ~c.delayed THEN Ok(r) ELSE Schedule(r, c, c.key)

\* A child starts with its own counters and a copy of what its caller knows.
Child(r, ch) ==
  LET caller == Top(r)
  IN [r EXCEPT !.started = @ + 1,
               !.stack = Append(@, Context(r.started + 1, ch, caller.known, caller.posts, 0, {}))]

ExecCC(r, c) ==
  LET ch == ChannelArg(r, c.ch)
  IN IF ~FindsCC(c.cc) \/ ch = "none" THEN Error(r)
     ELSE IF c.delayed THEN Schedule(r, c, "none")
     ELSE IF Len(r.stack) > MaxDepth \/ c.cc = "badHeader" THEN Error(r)
     ELSE IF c.cc = "unmapped" THEN Noted(r, "execcc")
     ELSE [kind |-> "child", run |-> Child(r, ch)]

-----------------------------------------------------------------------------
(* The end of a context's run. *)

\* A plausible slip: the child's notes are lost; its record comes first.
JoinWithoutNotes(r, failed) ==
  LET child == Top(r)
      caller == r.stack[Len(r.stack) - 1]
      joined == [caller EXCEPT !.effects = @ \o child.effects, !.posts = IF @ = {} THEN @ ELSE child.posts,
                               !.warned = @ \cup (IF failed THEN {"execcc"} ELSE {})]
  IN [r EXCEPT !.stack = Append(SubSeq(@, 1, Len(@) - 2), joined)]

ChildEffectsFirst(r, failed) ==
  LET child == Top(r)
      caller == r.stack[Len(r.stack) - 1]
      joined == [caller EXCEPT !.effects = child.effects \o @, !.posts = IF @ = {} THEN @ ELSE child.posts,
                               !.warned = @ \cup child.warned \cup (IF failed THEN {"execcc"} ELSE {})]
  IN [r EXCEPT !.stack = Append(SubSeq(@, 1, Len(@) - 2), joined)]

\* What a child did and what was noted of it become its caller's.  The posts are one
\* map of both if the caller had any before.
Join(r, failed) ==
  LET child == Top(r)
      caller == r.stack[Len(r.stack) - 1]
      joined == [caller EXCEPT !.effects = @ \o child.effects,
                               !.posts = IF @ = {} THEN @ ELSE child.posts,
                               !.warned = @ \cup child.warned \cup (IF failed THEN {"execcc"} ELSE {})]
  IN [r EXCEPT !.stack = Append(SubSeq(@, 1, Len(@) - 2), joined)]

\* The output as it is sent: too long a one is replaced by a notice with -strict.
Response(r, strict) ==
  LET n == Top(r).output
  IN IF n <= MaxResponse THEN [run |-> r, size |-> n]
     ELSE IF strict THEN [run |-> r, size |-> 1]
     ELSE [run |-> Warn(r, "limit"), size |-> n]

\* The output over YAGPDB's cap is noted; a response that is deleted at once is not sent.
CheckOutput(r, strict, failed) ==
  LET noted == IF ~strict /\ Top(r).output > MaxOutput THEN Warn(r, "limit") ELSE r
  IN IF Top(r).deletes # "now" \/ failed THEN Response(noted, strict)
     ELSE [run |-> IF Top(r).output > 0 THEN Warn(noted, "response") ELSE noted, size |-> 0]

\* With show_errors on, the error and the output are posted, if Discord takes them.
ShowError(r, strict, size) ==
  IF size + 1 <= MaxResponse THEN RecordSentMessage(r, "error", Top(r).channel)
  ELSE IF strict THEN Warn(r, "limit")
  ELSE RecordSentMessage(Warn(r, "limit"), "error", Top(r).channel)

\* The end of a run: its response or its error, and for a child the return to its caller.
Finish(r, strict, failed, show) ==
  LET out == CheckOutput(r, strict, failed)
      now == Top(r).deletes = "now"
      responds == out.size > 0 /\ ~(failed /\ show) /\ ~now
      child == Len(r.stack) > 1
      sent == IF child THEN RecordSentMessage(out.run, "response", Top(r).channel) ELSE out.run
      shown == IF failed /\ show THEN ShowError(out.run, strict, out.size)
               ELSE IF responds THEN RecordResponseSent(sent, IF child THEN sent.sent ELSE 0)
               ELSE out.run
  IN IF child THEN Join(shown, failed) ELSE [shown EXCEPT !.status = IF failed THEN "failed" ELSE "done"]

\* A source over the limit is refused with -strict, before anything runs.
Begin(r, strict, long, show) ==
  IF ~long THEN r ELSE IF strict THEN Finish(r, strict, TRUE, show) ELSE Warn(r, "limit")

-----------------------------------------------------------------------------
(* Calls under the limits. *)

\* A function's error goes to the {{catch}}, or ends the run.
Throw(r, strict, show) ==
  IF Top(r).inTry THEN WithTop(r, [Top(r) EXCEPT !.inTry = FALSE]) ELSE Finish(r, strict, TRUE, show)

\* A plausible slip: the catch does not get it.
ReturnsErrorStrictOnly(r, strict) == strict

\* With -strict, and inside {{try}}, a function returns YAGPDB's error.
ReturnsError(r, strict) == strict \/ Top(r).inTry

Body(r, c) ==
  CASE c.fn = "sendMessage" -> Send(r, c)
    [] c.fn = "sendDM" -> SendDM(r, c)
    [] c.fn = "editMessage" -> EditMessage(r, c)
    [] c.fn = "deleteMessage" -> DeleteMessage(r, c)
    [] c.fn = "deleteTrigger" -> DeleteTrigger(r, c)
    [] c.fn = "deleteResponse" -> DeleteResponse(r, c)
    [] c.fn \in {"giveRole", "takeRole", "addRole", "removeRole"} -> ChangeRole(r, c)
    [] c.fn = "targetHasRole" -> TargetHasRole(r, c)
    [] c.fn = "exec" -> Exec(r, c)
    [] c.fn = "sleep" -> Sleep(r, c)
    [] c.fn = "addReactions" -> AddReactions(r, c)
    [] c.fn = "addResponseReactions" -> AddResponseReactions(r, c)
    [] c.fn = "addMessageReactions" -> React(r, c, "reaction")
    [] c.fn = "deleteMessageReaction" -> React(r, c, "unreaction")
    [] c.fn = "deleteAllMessageReactions" -> DeleteAllMessageReactions(r, c)
    [] c.fn \in {"pinMessage", "unpinMessage"} -> Pin(r, c)
    [] c.fn = "createForumPost" -> CreateForumPost(r, c)
    [] c.fn = "createThread" -> CreateThread(r, c)
    [] c.fn = "scheduleUniqueCC" -> ScheduleUniqueCC(r, c)
    [] c.fn = "cancelScheduledUniqueCC" -> Ok(CancelScheduled(r, c.cc, c.key))
    [] c.fn = "execCC" -> ExecCC(r, c)
    [] OTHER -> Ok(r)

\* A call carried out: what its kind means in this mode.
CarryOut(r, strict, c, show) ==
  LET o == Body(r, c)
      warned == Warn(r, "limit")
  IN CASE o.kind \in {"ok", "noted"} -> o.run
       [] o.kind = "error" -> Throw(o.run, strict, show)
       [] o.kind = "refused" -> IF ReturnsError(r, strict) THEN Throw(warned, strict, show) ELSE warned
       [] o.kind = "rejected" -> IF ReturnsError(r, strict) THEN Throw(warned, strict, show) ELSE Warn(o.run, "limit")
       [] o.kind = "dropped" -> IF strict THEN warned ELSE Warn(o.run, "limit")
       [] o.kind = "child" -> Begin(o.run, strict, c.long, show)

\* Reactions on a channel that is not there are not counted.
Uncounted(r, c) ==
  /\ c.fn \in {"addMessageReactions", "deleteMessageReaction", "deleteAllMessageReactions"}
  /\ ChannelArg(r, c.ch) = "none"

\* The counting of a call: setRoles has one counter per user besides.
Counted(r, c) ==
  LET n == CountCalls(Top(r).count, LimitsOf(c.fn), premium)
      over == n.over \/ (c.fn = "setRoles" /\ c.user \in Top(r).setFor)
  IN [run |-> WithTop(r, [Top(r) EXCEPT !.count = n.count,
                                       !.setFor = IF c.fn = "setRoles" /\ ~n.over THEN @ \cup {c.user} ELSE @]),
      over |-> over]

WithLimits(r, strict, c, show) ==
  LET n == Counted(r, c)
      warned == Warn(n.run, "limit")
  IN IF Uncounted(r, c) THEN r
     ELSE IF ~n.over THEN CarryOut(n.run, strict, c, show)
     ELSE IF c.fn \in Silent THEN (IF strict THEN warned ELSE CarryOut(warned, strict, c, show))
     ELSE IF ReturnsError(r, strict) THEN Throw(warned, strict, show)
     ELSE CarryOut(warned, strict, c, show)

\* The writers: YAGPDB's takes MaxOutput, the emulator's LenientOutput; {{catch}} does not
\* see their error.
Printed(r, strict, size, show) ==
  LET cap == IF strict THEN MaxOutput ELSE LenientOutput
      n == Top(r).output + size
      written == WithTop(r, [Top(r) EXCEPT !.output = IF n > cap THEN cap ELSE n])
  IN IF n > cap THEN Finish(written, strict, TRUE, show) ELSE written

\* Past YAGPDB's operations the run goes on without -strict, up to ten times as many.
RanLong(r, strict, far, show) ==
  IF strict THEN Finish(r, strict, TRUE, show)
  ELSE IF far THEN Finish(Warn(r, "limit"), strict, TRUE, show) ELSE Warn(r, "limit")

-----------------------------------------------------------------------------
(* Both runs of one program. *)

Position(r) == <<r.status, Len(r.stack), Top(r).inTry>>

\* The runs after a step, and which of them stand at the program's next one.
Advance(next) ==
  LET live == {s \in followed : next[s].status = "running"}
  IN /\ runs' = next
     /\ IF live = BOOLEAN /\ Position(next[TRUE]) # Position(next[FALSE])
        THEN followed' \in {{TRUE}, {FALSE}} ELSE followed' = live
     /\ UNCHANGED <<premium, trigger>>

NewRun == [stack |-> <<Context(1, "here", {}, {}, 0, Muted)>>, status |-> "running", sent |-> 0, threads |-> {},
           scheduled |-> <<>>, started |-> 1]

Init ==
  /\ premium \in BOOLEAN /\ trigger \in BOOLEAN
  /\ \E long, show \in BOOLEAN : runs = [strict \in BOOLEAN |-> Begin(NewRun, strict, long, show)]
  /\ followed = {s \in BOOLEAN : runs[s].status = "running"}
  /\ calls = 0 /\ tries = 0

\* The program calls one of these functions.  show is the show_errors setting of the
\* command that ends, if one does.
Call(fns) ==
  /\ calls < MaxCalls /\ followed # {}
  /\ \E c \in Calls[calls + 1], show \in BOOLEAN :
       /\ c.fn \in fns
       /\ Advance([s \in BOOLEAN |-> IF s \in followed THEN WithLimits(runs[s], s, c, show) ELSE runs[s]])
  /\ calls' = calls + 1 /\ UNCHANGED tries

Message == Call({"sendMessage", "sendDM", "editMessage", "deleteMessage", "deleteTrigger", "deleteResponse"})
RoleCall == Call({"giveRole", "takeRole", "addRole", "removeRole", "targetHasRole", "setRoles", "hasRole",
                  "mentionRole"})
Reaction == Call({"addReactions", "addResponseReactions", "addMessageReactions", "deleteMessageReaction",
                  "deleteAllMessageReactions"})
PinCall == Call({"pinMessage", "unpinMessage"})
Thread == Call({"createForumPost", "createThread"})
RunCC == Call({"execCC", "scheduleUniqueCC", "cancelScheduledUniqueCC"})
Other == Call({"dbSet", "dbCount", "exec", "sendTemplate", "sort", "createTicket", "getRole", "sleep", "len"})

PrintText ==
  /\ calls < MaxCalls /\ followed # {}
  /\ \E size \in 1 .. MaxOutput + 1, show \in BOOLEAN :
       Advance([s \in BOOLEAN |-> IF s \in followed THEN Printed(runs[s], s, size, show) ELSE runs[s]])
  /\ calls' = calls + 1 /\ UNCHANGED tries

RunsLong ==
  /\ calls < MaxCalls /\ followed # {}
  /\ \E far, show \in BOOLEAN :
       Advance([s \in BOOLEAN |-> IF s \in followed THEN RanLong(runs[s], s, far, show) ELSE runs[s]])
  /\ calls' = calls + 1 /\ UNCHANGED tries

\* {{try}} and the end of its list; after a {{catch}} the run is outside already.
SetTry(in) ==
  Advance([s \in BOOLEAN |-> IF s \in followed THEN WithTop(runs[s], [Top(runs[s]) EXCEPT !.inTry = in]) ELSE runs[s]])

EnterTry ==
  /\ followed # {} /\ tries < MaxTries /\ \A s \in followed : ~Top(runs[s]).inTry
  /\ SetTry(TRUE) /\ tries' = tries + 1 /\ UNCHANGED calls

LeaveTry ==
  /\ followed # {} /\ \A s \in followed : Top(runs[s]).inTry
  /\ SetTry(FALSE) /\ UNCHANGED <<calls, tries>>

End ==
  /\ followed # {} /\ \A s \in followed : ~Top(runs[s]).inTry
  /\ Advance([s \in BOOLEAN |-> IF s \in followed THEN Finish(runs[s], s, FALSE, FALSE) ELSE runs[s]])
  /\ UNCHANGED <<calls, tries>>

Next == Message \/ RoleCall \/ Reaction \/ PinCall \/ Thread \/ RunCC \/ Other \/ PrintText \/ RunsLong
        \/ EnterTry \/ LeaveTry \/ End

Spec == Init /\ [][Next]_vars

-----------------------------------------------------------------------------
(* Properties. *)

TypeOK ==
  /\ followed \subseteq BOOLEAN /\ calls \in 0 .. MaxCalls /\ tries \in 0 .. MaxTries
  /\ \A s \in BOOLEAN :
       /\ runs[s].status \in {"running", "done", "failed"}
       /\ Len(runs[s].stack) \in 1 .. MaxDepth + 1
       /\ \A i \in DOMAIN runs[s].stack : runs[s].stack[i].count \in [Counters -> 0 .. MaxCalls]

Strict == runs[TRUE]
Lenient == runs[FALSE]

\* What the two runs have in common when neither has anything to note: all but the notes.
Unnoted(r) == [r EXCEPT !.stack = [i \in DOMAIN r.stack |-> [r.stack[i] EXCEPT !.warned = {}]]]
Alike == Unnoted(Strict) = Unnoted(Lenient)

\* A run that goes on where YAGPDB would have stopped or skipped a call says so: when it is
\* over and differs from the strict run in anything it did, sent, scheduled or printed, its
\* report has a limit among its notes, whichever child of it was the one to go on.
WarnsWhereItDiffers ==
  Lenient.status # "running" => Alike \/ "limit" \in Top(Lenient).warned

\* A {{catch}} that YAGPDB runs makes a program go another way, so the emulator runs it in
\* both modes: of two runs alike so far, the lenient one catches what the strict one does,
\* as long as their command goes on.  (The converse does not hold: past the limit YAGPDB
\* skips sendMessage in silence, where the lenient one's may be refused and caught.)
CatchesAlike ==
  [][LET n == Len(Strict.stack)
     IN (/\ followed = BOOLEAN /\ Alike /\ Top(Strict).inTry
         /\ Strict'.status = "running" /\ Len(Strict'.stack) >= n /\ ~Strict'.stack[n].inTry)
        => ~Lenient'.stack[n].inTry]_vars

\* What is on record of a run and of its children that have ended.
Recorded(r) == FlattenSeq([i \in DOMAIN r.stack |-> r.stack[i].effects])
DidIn(r, id, kinds) == Cardinality({i \in DOMAIN Recorded(r) : Recorded(r)[i].by = id /\ Recorded(r)[i].of \in kinds})

\* With -strict no run, and no child of one, does more of anything than YAGPDB lets one
\* run do: a call over a limit that is silent is skipped, any other fails, and what a
\* call counts is counted whichever way it ends.
WithinLimits ==
  \A id \in 1 .. Strict.started :
    /\ DidIn(Strict, id, {"send", "dm", "edit", "giveRole", "takeRole", "addRole", "removeRole"})
         <= LimitOf("api_call", premium)
    /\ DidIn(Strict, id, {"dm"}) <= LimitOf("send_dm", premium)
    /\ DidIn(Strict, id, {"thread"}) <= LimitOf("create_thread", premium)
    /\ DidIn(Strict, id, {"pin"}) <= LimitOf("message_pins", premium)
    /\ DidIn(Strict, id, {"exec"}) <= LimitOf("exec", premium)
    /\ DidIn(Strict, id, {"unreaction"}) <= LimitOf("del_reaction_message", premium)
    /\ Cardinality({i \in DOMAIN Strict.scheduled : Strict.scheduled[i].by = id}) <= LimitOf("runcc", premium)

\* Every message of a run and its children has a number of its own, in the order sent, and
\* is on record when the run is over: none is lost where a child joins its caller.
MessagesNumbered ==
  \A s \in BOOLEAN :
    LET sent == {i \in DOMAIN Recorded(runs[s]) :
                   Recorded(runs[s])[i].of \in {"send", "dm", "firstMessage", "response", "error"}}
    IN /\ Cardinality(sent) = runs[s].sent
       /\ \A i \in sent : Recorded(runs[s])[i].id = Cardinality({j \in sent : j <= i})

\* Of the runs scheduled under a key for a command there is one, the last, whether a run or
\* a child of it scheduled them.
OneUniqueRun ==
  \A s \in BOOLEAN : \A i, j \in DOMAIN runs[s].scheduled :
    LET a == runs[s].scheduled[i]
        b == runs[s].scheduled[j]
    IN a.key # "none" /\ a.key = b.key /\ a.cc = b.cc => i = j

=============================================================================
