---------------------------- MODULE Interaction -----------------------------
(***************************************************************************)
(* An interaction (a click, a slash command, a context menu entry, a form) *)
(* and the custom command runs that answer it in the emulator:             *)
(*   internal/runtime/interactions.go, modals.go, slash.go and the runs of *)
(*   engine.go (Execute, execCC).                                          *)
(*                                                                         *)
(* execCC runs the child inline, inside its caller's run: of the runs of   *)
(* an interaction, one per level, the deepest goes on.  RespondedTo and    *)
(* Deferred are the interaction's, the count of responses is the run's.    *)
(* An answer is its kind.  A call is refused for what it sends (empty, too *)
(* long, no modal) by choice; its run goes on ({{try}}) or ends.  A call   *)
(* over the limit of API calls does nothing, and so is no step.            *)
(***************************************************************************)
EXTENDS Naturals, SequencesExt

CONSTANTS
  MaxExecCCDepth,  \* how deep execCC nests
  MaxAnswers,      \* bounds: the answers, and the responses a run counts
  MaxCounted

ASSUME BoundsAssumption ==
  MaxExecCCDepth \in Nat /\ MaxAnswers \in Nat /\ MaxCounted \in Nat \ {0}

VARIABLES
  interaction,  \* what it is; changes no more
  respondedTo, deferred,
  level,        \* the runs that have not ended: ExecCCDepth of the last, plus one
  counted,      \* counted[l]: the responses the run at level l has counted
  record,       \* record[l]: its InteractionResponses
  warned,       \* what the end warns of: "none", "unanswered", "unfilled"
  (* history, read by no action *)
  answers       \* the answers in the order they were given

flags == <<respondedTo, deferred>>
vars  == <<interaction, respondedTo, deferred, level, counted, record, warned, answers>>

-----------------------------------------------------------------------------
DeferModes == {"none", "message", "ephemeral", "update"}
Responses  == {"message", "update", "modal"}
Kinds      == Responses \cup {"deferred_edit", "followup"}
Levels     == 1 .. MaxExecCCDepth + 1

(* message: it has a message to update.  acked: respondedTo as the run     *)
(* finds it.                                                               *)
Interactions ==
  [type : {"component", "command", "modal"}, mode : DeferModes,
   message : BOOLEAN, acked : BOOLEAN]

Started(type, mode, message) ==
  [type |-> type, mode |-> mode, message |-> message, acked |-> mode # "none"]

Clicked     == {Started("component", mode, TRUE) : mode \in DeferModes}
Slash       == {Started("command", mode, FALSE) : mode \in DeferModes \ {"update"}}
ContextMenu == {Started("command", mode, FALSE) : mode \in DeferModes \ {"update"}}
Submitted   == {Started("modal", mode, message) : mode \in DeferModes, message \in BOOLEAN}
Delayed     == {[Started("command", "none", FALSE) EXCEPT !.acked = acked] : acked \in BOOLEAN}

TypeOK ==
  /\ interaction \in Interactions
  /\ respondedTo \in BOOLEAN
  /\ deferred \in BOOLEAN
  /\ level \in Levels \cup {0}
  /\ counted \in [Levels -> Nat]
  /\ record \in [Levels -> Seq(Kinds)]
  /\ warned \in {"none", "unanswered", "unfilled"}
  /\ answers \in Seq(Kinds)

Init ==
  /\ interaction \in Clicked \cup Slash \cup ContextMenu \cup Submitted \cup Delayed
  /\ respondedTo = interaction.acked
  /\ deferred = (interaction.mode # "none")
  /\ level = 1
  /\ counted = [l \in Levels |-> 0]
  /\ record = [l \in Levels |-> <<>>]
  /\ warned = "none"
  /\ answers = <<>>

-----------------------------------------------------------------------------
Running == level # 0 /\ Len(answers) < MaxAnswers

(* A deferred update without a message never reached Discord; YAGPDB takes *)
(* the interaction for deferred all the same.                              *)
DeferralFailed == deferred /\ interaction.mode = "update" /\ ~interaction.message

(* countInteractionResponse: the second call in a run is refused, whatever *)
(* came of the first.                                                      *)
Spent == counted[level] > 0
CountResponse ==
  /\ Running
  /\ counted[level] < MaxCounted
  /\ counted' = [counted EXCEPT ![level] = @ + 1]

Answer(k) ==
  /\ answers' = Append(answers, k)
  /\ record' = [record EXCEPT ![level] = Append(@, k)]

Respond(k) == Answer(k) /\ respondedTo' = TRUE
Refused    == UNCHANGED <<respondedTo, answers, record>>

(* tokenArg: a response while the interaction has none, then followups.    *)
TakesResponse == ~respondedTo

(* sendResponse: a response counts before anything of it is checked.       *)
SendResponse(refused) ==
  /\ \/ /\ TakesResponse
        /\ CountResponse
        /\ IF Spent \/ refused THEN Refused ELSE Respond("message")
     \/ /\ ~TakesResponse
        /\ Running
        /\ ~DeferralFailed /\ ~refused
        /\ Answer("followup")
        /\ UNCHANGED <<respondedTo, counted>>
  /\ UNCHANGED <<interaction, deferred, level, warned>>

(* A plausible slip: the interaction's state is left to the counter.       *)
UpdateMessageCountedOnly(refused) ==
  /\ CountResponse
  /\ IF Spent \/ ~interaction.message \/ refused THEN Refused ELSE Respond("update")
  /\ UNCHANGED <<interaction, deferred, level, warned>>

(* updateMessage: always a response; Discord refuses it when there was     *)
(* one, and when there is no message to update.                            *)
UpdateMessage(refused) ==
  /\ CountResponse
  /\ IF Spent \/ respondedTo \/ ~interaction.message \/ refused
     THEN Refused
     ELSE Respond("update")
  /\ UNCHANGED <<interaction, deferred, level, warned>>

(* sendModal: a response too, refused to the submission of a modal.        *)
SendModal(refused) ==
  /\ CountResponse
  /\ IF Spent \/ refused \/ respondedTo \/ interaction.type = "modal"
     THEN Refused
     ELSE Respond("modal")
  /\ UNCHANGED <<interaction, deferred, level, warned>>

(* A plausible slip: the interaction is copied for the child, as it came.  *)
ExecCCCopying ==
  /\ Running
  /\ level <= MaxExecCCDepth
  /\ level' = level + 1
  /\ respondedTo' = interaction.acked
  /\ counted' = [counted EXCEPT ![level + 1] = 0]
  /\ record' = [record EXCEPT ![level + 1] = <<>>]
  /\ UNCHANGED <<interaction, deferred, warned, answers>>

(* execCC: a child with a count of its own and the same interaction.       *)
ExecCC ==
  /\ Running
  /\ level <= MaxExecCCDepth
  /\ level' = level + 1
  /\ counted' = [counted EXCEPT ![level + 1] = 0]
  /\ record' = [record EXCEPT ![level + 1] = <<>>]
  /\ UNCHANGED <<interaction, flags, warned, answers>>

(* respondWithOutput: what a run's output becomes.                         *)
Output ==
  IF ~respondedTo THEN <<"message">>
  ELSE IF DeferralFailed THEN <<>>
  ELSE IF deferred THEN <<"deferred_edit">>
  ELSE <<"followup">>

(* A plausible slip: every deferral is one to be filled.                   *)
WarningAnyMode(responded, stillDeferred) ==
  IF ~responded THEN "unanswered" ELSE IF stillDeferred THEN "unfilled" ELSE "none"

(* warnUnanswered: a deferred update shows the message as it was.          *)
Warning(responded, stillDeferred) ==
  IF ~responded THEN "unanswered"
  ELSE IF stillDeferred /\ interaction.mode # "update" THEN "unfilled"
  ELSE "none"

(* A plausible slip: a child's answers go before its caller's.             *)
JoinedChildFirst(given) ==
  IF level = 1
  THEN [record EXCEPT ![1] = given]
  ELSE [record EXCEPT ![level] = <<>>, ![level - 1] = given \o @]

(* When a child has ended, its caller has its answers on record too.       *)
Joined(given) ==
  IF level = 1
  THEN [record EXCEPT ![1] = given]
  ELSE [record EXCEPT ![level] = <<>>, ![level - 1] = @ \o given]

(* A run ends, with output to send or without (none printed, or dropped by *)
(* deleteResponse or show_errors); the interaction's own run warns.        *)
End(printed) ==
  LET out == IF printed THEN Output ELSE <<>>
  IN  /\ level # 0
      /\ printed => Running
      /\ answers' = answers \o out
      /\ respondedTo' = (respondedTo \/ printed)
      /\ deferred' = (deferred /\ (printed => DeferralFailed))
      /\ level' = level - 1
      /\ record' = Joined(record[level] \o out)
      /\ warned' = IF level = 1 THEN Warning(respondedTo', deferred') ELSE warned
      /\ UNCHANGED <<interaction, counted>>

Next ==
  \/ \E refused \in BOOLEAN :
        SendResponse(refused) \/ UpdateMessage(refused) \/ SendModal(refused)
  \/ ExecCC
  \/ \E printed \in BOOLEAN : End(printed)

Spec == Init /\ [][Next]_vars

-----------------------------------------------------------------------------
(* What Discord has of the interaction.                                    *)
Phase ==
  IF ~respondedTo \/ DeferralFailed THEN "open"
  ELSE IF deferred THEN "deferred"
  ELSE "answered"

Discord == INSTANCE InteractionProtocol WITH phase <- Phase

(* However the runs nest, fail and repeat their calls, Discord is given    *)
(* only what it takes: one response, one filling of a deferral, followups  *)
(* to an interaction it has acknowledged.                                  *)
GivesWhatDiscordTakes == Discord!Spec

(* An interaction has one response, and none after a deferral or when it   *)
(* had its response before this run: "an interaction takes one response;   *)
(* the rest are followups".                                                *)
OneResponse ==
  \A i \in DOMAIN answers : answers[i] \in Responses => i = 1 /\ ~interaction.acked

(* The end warns exactly when the member is left without an answer: with   *)
(* "The application did not respond", or a "thinking..." that only an      *)
(* output fills, no followup.                                              *)
Shown ==
  \/ \E i \in DOMAIN answers : answers[i] \in Responses \cup {"deferred_edit"}
  \/ interaction.mode = "update"
  \/ interaction.acked /\ interaction.mode = "none"

WarnsWhenNothingIsShown == level = 0 => (warned = "none" <=> Shown)

(* No answer is lost on the way up, or out of order: the records of the    *)
(* runs, the caller's before the child's, are the answers as they were     *)
(* given, so in the end the interaction's own run has them all.            *)
RecordInOrder == FlattenSeq(record) = answers
=============================================================================
