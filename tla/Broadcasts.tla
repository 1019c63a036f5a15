---- MODULE Broadcasts ----
(***************************************************************************)
(* One broadcast delivered through scheduled_jobs: the Send request        *)
(* (app/api/v1/broadcasts/[broadcastId]/send/route.ts), the RPC that       *)
(* enqueues a row per recipient (00037), and the work of a row             *)
(* (lib/jobs/legacy-work.ts), which sends through the Gateway, settles the *)
(* recipient, counts it and completes the broadcast when it was the last.  *)
(*                                                                         *)
(* The rows and the runs that drain them are those of LegacyQueue.  Each   *)
(* call of the database or of the Gateway is a step; runs overlap, die     *)
(* between any two steps, and may not learn the result of a call.          *)
(***************************************************************************)
EXTENDS LegacyQueue

CONSTANTS
  Sends,      \* requests to send the broadcast
  Contacts    \* the contacts of its segment

ASSUME BroadcastAssumption ==
  Jobs = Sends \X Contacts /\ IsFiniteSet(Sends) /\ IsFiniteSet(Contacts)

VARIABLES
  bstatus,        \* broadcasts.status
  sent, failed,   \* its counters
  rstatus,        \* broadcast_recipients.status; the row of a recipient is its job
  send,           \* how far a request got
  ops,            \* the Gateway's operation under the recipient's idempotency key
  step,           \* the next call of a run's work
  answer,         \* the status of the operation as the run learned it
  \* history
  uncounted,      \* recipients settled by a run that could not count them
  interrupted     \* a run stopped, or lost a result, on its way from settling to completing

broadcast == <<bstatus, sent, failed>>
work      == <<step, answer>>
bhistory  == <<uncounted, interrupted>>
vars == <<queueVars, broadcast, rstatus, send, ops, work, bhistory>>

OpStates   == {"none", "pending", "succeeded", "failed"}
Unfinished == {"pending", "sending"}
WorkSteps    == {"load", "promote", "call", "sending", "park", "raise", "settle", "done"}
\* Steps that failJobAndSettle takes too.
ClosingSteps == {"count", "check", "close"}

Init ==
  /\ QueueInit
  /\ bstatus = "draft" /\ sent = 0 /\ failed = 0
  /\ rstatus = [j \in Jobs |-> "absent"]
  /\ send    = [s \in Sends |-> "idle"]
  /\ ops     = [j \in Jobs |-> "none"]
  /\ step    = [r \in Runs |-> "none"]
  /\ answer  = [r \in Runs |-> "none"]
  /\ uncounted = {} /\ interrupted = FALSE

TypeOK ==
  /\ QueueTypeOK
  /\ bstatus \in {"draft", "scheduled", "sending", "completed"}
  /\ sent \in 0..Cardinality(Jobs) /\ failed \in 0..Cardinality(Jobs)
  /\ rstatus \in [Jobs -> {"absent", "sent", "failed"} \cup Unfinished]
  /\ send \in [Sends -> {"idle", "checked", "inserted", "done"}]
  /\ ops \in [Jobs -> OpStates]
  /\ answer \in [Runs -> OpStates]
  /\ uncounted \subseteq Jobs /\ interrupted \in BOOLEAN
  /\ \A r \in Runs :
       CASE pc[r] = "work"   -> step[r] \in WorkSteps \cup ClosingSteps
         [] pc[r] = "settle" -> step[r] \in {"fail"} \cup ClosingSteps
         [] OTHER            -> step[r] = "none"

----
(* The Send request. *)

\* A draft may be sent, and a scheduled broadcast sent again.
CheckSend(s) ==
  /\ send[s] = "idle"
  /\ send' = [send EXCEPT ![s] = IF bstatus \in {"draft", "scheduled"} THEN "checked" ELSE "done"]
  /\ UNCHANGED <<queueVars, broadcast, rstatus, ops, work, bhistory>>

\* A recipient per contact of the segment, in batches; one that fails ends the request.
InsertRecipients(s) ==
  /\ send[s] = "checked"
  /\ \E C \in SUBSET Contacts :
       /\ rstatus' = [j \in Jobs |-> IF j \in {s} \X C THEN "pending" ELSE rstatus[j]]
       /\ send' \in {[send EXCEPT ![s] = "done"]}
                      \cup (IF C = {} THEN {} ELSE {[send EXCEPT ![s] = "inserted"]})
  /\ UNCHANGED <<queueVars, broadcast, ops, work, bhistory>>

\* schedule_broadcast_delivery: rows for all pending recipients that have none.
ScheduleDelivery(s) ==
  /\ send[s] = "inserted"
  /\ send' = [send EXCEPT ![s] = "done"]
  /\ \/ /\ bstatus \in {"draft", "scheduled"}
        /\ \E now \in BOOLEAN :
             /\ Enqueue({j \in Jobs : rstatus[j] = "pending" /\ status[j] = "absent"}, now)
             /\ bstatus' = IF now THEN "sending" ELSE "scheduled"
     \/ UNCHANGED <<queueVars, bstatus>>
  /\ UNCHANGED <<sent, failed, rstatus, ops, work, bhistory>>

----
(* The work of a row: processBroadcast. *)

At(r, s) == pc[r] = "work" /\ step[r] = s

Goto(r, s) == step' = [step EXCEPT ![r] = s]

\* The run's step when it goes from row to row, or starts to settle a failure.
Follow(r) ==
  /\ step'   = [step EXCEPT ![r] = IF pc'[r] = "settle" THEN "fail" ELSE "none"]
  /\ answer' = [answer EXCEPT ![r] = "none"]

\* A recipient that is settled needs no more work.
Load(r) ==
  /\ At(r, "load")
  /\ \/ Goto(r, IF rstatus[cur[r]] \in Unfinished THEN "promote" ELSE "done")
     \/ Goto(r, "raise")
  /\ UNCHANGED <<queueVars, broadcast, rstatus, send, ops, answer, bhistory>>

\* The first row of a scheduled broadcast starts it.
Promote(r) ==
  /\ At(r, "promote")
  /\ bstatus' \in {bstatus} \cup (IF bstatus = "scheduled" THEN {"sending"} ELSE {})
  /\ Goto(r, "call")
  /\ UNCHANGED <<queueVars, sent, failed, rstatus, send, ops, answer, bhistory>>

\* Reply under the recipient's key, or ask for the operation.  The call may fail
\* before the Gateway gets it or after; a retryable failure parks the row.
Call(r) ==
  /\ At(r, "call")
  /\ LET j == cur[r] IN
       /\ ops' \in {ops} \cup (IF ops[j] = "none"
                                THEN {[ops EXCEPT ![j] = o] : o \in OpStates} ELSE {})
       /\ \/ /\ ops'[j] # "none"
             /\ answer' = [answer EXCEPT ![r] = ops'[j]]
             /\ Goto(r, IF ops'[j] = "pending" THEN "sending" ELSE "settle")
          \/ UNCHANGED answer /\ (Goto(r, "park") \/ Goto(r, "raise"))
  /\ UNCHANGED <<queueVars, broadcast, rstatus, send, bhistory>>

\* Mutant: the filter on the recipient's status is missing.
AsSending_always(j) == [rstatus EXCEPT ![j] = "sending"]

\* Only a recipient that is not settled is marked.
AsSending(j) ==
  IF rstatus[j] \in Unfinished THEN [rstatus EXCEPT ![j] = "sending"] ELSE rstatus

\* The operation is on its way.
MarkSending(r) ==
  /\ At(r, "sending")
  /\ \/ /\ rstatus' = AsSending(cur[r])
        /\ Goto(r, "park") \/ Goto(r, "raise")
     \/ UNCHANGED rstatus /\ Goto(r, "raise")
  /\ UNCHANGED <<queueVars, broadcast, send, ops, answer, bhistory>>

\* Only a recipient that is not settled yet is settled, and only then is it counted.
SettleRow(j, result) == rstatus' = [rstatus EXCEPT ![j] = result]

\* Mutant: the count does not depend on a row having been settled.
AfterSettling_always(j) == "count"

AfterSettling(j) == IF rstatus[j] \in Unfinished THEN "count" ELSE "check"

SettleRecipient(r) ==
  /\ At(r, "settle")
  /\ LET j == cur[r]
         matched == rstatus[j] \in Unfinished
         result == IF answer[r] = "succeeded" THEN "sent" ELSE "failed" IN
       \/ /\ IF matched THEN SettleRow(j, result) ELSE UNCHANGED rstatus
          /\ Goto(r, AfterSettling(j))
          /\ UNCHANGED bhistory
       \/ UNCHANGED <<rstatus, bhistory>> /\ Goto(r, "raise")
       \/ /\ matched /\ SettleRow(j, result) /\ Goto(r, "raise")
          /\ uncounted' = uncounted \cup {j} /\ interrupted' = TRUE
  /\ UNCHANGED <<queueVars, broadcast, send, ops, answer>>

----
(* The tail that processBroadcast and settleBroadcastRecipientAsFailed share. *)

Closing(r, s) == pc[r] \in {"work", "settle"} /\ step[r] = s

\* Work goes on to complete its row, a settled failure to the next row.
End(r) ==
  IF pc[r] = "work" THEN Goto(r, "done") /\ UNCHANGED <<queueVars, answer>>
                    ELSE Settled(r) /\ Follow(r)

\* increment_broadcast_sent, increment_broadcast_failed.
Count(r) ==
  /\ Closing(r, "count")
  /\ \/ /\ IF answer[r] = "succeeded" THEN sent' = sent + 1 /\ UNCHANGED failed
                                      ELSE failed' = failed + 1 /\ UNCHANGED sent
        /\ UNCHANGED uncounted
     \/ UNCHANGED <<sent, failed>> /\ uncounted' = uncounted \cup {cur[r]}
  /\ Goto(r, "check")
  /\ UNCHANGED <<queueVars, bstatus, rstatus, send, ops, answer, interrupted>>

NoneLeft == \A j \in Jobs : rstatus[j] \notin Unfinished

\* settleBroadcastIfDone counts who is left ...
Check(r) ==
  /\ Closing(r, "check")
  /\ \/ /\ NoneLeft /\ Goto(r, "close")
        /\ UNCHANGED <<queueVars, answer, bhistory>>
     \/ ~NoneLeft /\ End(r) /\ UNCHANGED bhistory
     \/ End(r) /\ interrupted' = TRUE /\ UNCHANGED uncounted
  /\ UNCHANGED <<broadcast, rstatus, send, ops>>

\* Mutant: the update expects a broadcast that is still scheduled.
Completed_scheduled == IF bstatus = "scheduled" THEN "completed" ELSE bstatus

\* Only a broadcast that is being sent.
Completed == IF bstatus = "sending" THEN "completed" ELSE bstatus

\* ... and completes the broadcast.
Close(r) ==
  /\ Closing(r, "close")
  /\ \/ /\ bstatus' = Completed
        /\ UNCHANGED bhistory
     \/ UNCHANGED <<bstatus, uncounted>> /\ interrupted' = TRUE
  /\ End(r)
  /\ UNCHANGED <<sent, failed, rstatus, send, ops>>

\* settleBroadcastRecipientAsFailed: a failed row does not leave its recipient open.
FailRecipient(r) ==
  /\ pc[r] = "settle" /\ step[r] = "fail"
  /\ LET j == cur[r]
         matched == rstatus[j] \in Unfinished IN
       \/ /\ IF matched THEN SettleRow(j, "failed") ELSE UNCHANGED rstatus
          /\ Goto(r, AfterSettling(j))
          /\ UNCHANGED <<queueVars, answer, bhistory>>
       \/ /\ UNCHANGED <<rstatus, uncounted>>
          /\ interrupted' = TRUE /\ End(r)
       \/ /\ matched /\ SettleRow(j, "failed")
          /\ uncounted' = uncounted \cup {j}
          /\ interrupted' = TRUE /\ End(r)
  /\ UNCHANGED <<broadcast, send, ops>>

----
(* Rows and runs. *)

WorkLeaves == <<broadcast, rstatus, send, ops, bhistory>>

Time(j) == (BecomesDue(j) \/ ClaimAges(j) \/ UnstampedClaim(j)) /\ UNCHANGED <<WorkLeaves, work>>

FetchRows(r) == Fetch(r) /\ UNCHANGED <<WorkLeaves, work>>

PassRow(r, j) == (Stamp(r, j) \/ PassOver(r, j)) /\ UNCHANGED <<WorkLeaves, work>>

ClaimRow(r, j) == Claim(r, j) /\ Goto(r, "load") /\ UNCHANGED <<WorkLeaves, answer>>

ExhaustRow(r, j) == Exhaust(r, j) /\ Follow(r) /\ UNCHANGED WorkLeaves

EndWork(r) ==
  /\ \/ At(r, "done") /\ Complete(r)
     \/ At(r, "park") /\ Park(r)
     \/ At(r, "raise") /\ Retry(r)
     \/ At(r, "raise") /\ Exhausted(snapshot[r][cur[r]].attempts + 1) /\ GiveUp(r)
  /\ Follow(r)
  /\ UNCHANGED WorkLeaves

Die(r) ==
  /\ Crash(r)
  /\ Follow(r)
  /\ uncounted' = uncounted \cup (IF step[r] = "count" THEN {cur[r]} ELSE {})
  /\ interrupted' = (interrupted \/ step[r] \in {"fail"} \cup ClosingSteps)
  /\ UNCHANGED <<broadcast, rstatus, send, ops>>

\* The Gateway finishes an operation.
OpEnds(j) ==
  /\ ops[j] = "pending"
  /\ \E o \in {"succeeded", "failed"} : ops' = [ops EXCEPT ![j] = o]
  /\ UNCHANGED <<queueVars, broadcast, rstatus, send, work, bhistory>>

WorkStep(r) ==
  \/ Load(r) \/ Promote(r) \/ Call(r) \/ MarkSending(r) \/ SettleRecipient(r)
  \/ Count(r) \/ Check(r) \/ Close(r) \/ FailRecipient(r) \/ EndWork(r)

Next ==
  \/ \E s \in Sends : CheckSend(s) \/ InsertRecipients(s) \/ ScheduleDelivery(s)
  \/ \E j \in Jobs : Time(j) \/ OpEnds(j)
  \/ \E r \in Runs : FetchRows(r) \/ WorkStep(r) \/ Die(r)
  \/ \E r \in Runs, j \in Jobs : PassRow(r, j) \/ ClaimRow(r, j) \/ ExhaustRow(r, j)

Spec == Init /\ [][Next]_vars

\* The cron job keeps starting runs and each goes from call to call until it dies.
\* Not every run dies before it claims, not every call of the Gateway goes without an
\* answer, and not every write that fails an exhausted row is lost.
Fairness ==
  /\ \A r \in Runs : WF_vars(FetchRows(r)) /\ WF_vars(WorkStep(r))
                     /\ WF_vars(\E j \in Jobs : PassRow(r, j))
  /\ \A r \in Runs : SF_vars(Call(r) /\ answer'[r] # "none")
  /\ \A j \in Jobs :
       /\ SF_vars(\E r \in Runs : ClaimRow(r, j))
       /\ SF_vars(\E r \in Runs : Stamp(r, j) /\ PassRow(r, j) /\ claimedAt'[j] = "fresh")
       /\ SF_vars(\E r \in Runs : ExhaustRow(r, j) /\ status'[j] = "failed")
       /\ WF_vars(BecomesDue(j) /\ Time(j)) /\ WF_vars(ClaimAges(j) /\ Time(j))
       /\ WF_vars(OpEnds(j))

FairSpec == Spec /\ Fairness

----
(* Properties. *)

SettledAs(result) == {j \in Jobs : rstatus[j] = result}

\* The counters of a broadcast are those of its recipients, but for the recipients
\* a run has settled and not counted yet, or could not count: runs that race for
\* one recipient, or retry it, count it once.
CountersExact ==
  LET inHand == {cur[r] : r \in {x \in Runs : step[x] = "count"}}
      counted(result) == SettledAs(result) \ (inHand \cup uncounted) IN
    sent = Cardinality(counted("sent")) /\ failed = Cardinality(counted("failed"))

\* No second request to send the broadcast was made.
SentOnce == \A s, t \in Sends : send[s] # "idle" /\ send[t] # "idle" => s = t

\* A completed broadcast has no recipient that is still to be sent or on its way,
\* however the runs that settle the last of them overlap, die or come late.  (A
\* second request may add recipients to a broadcast that has completed meanwhile.)
CompletedMeansSettled == SentOnce /\ bstatus = "completed" => NoneLeft

\* Every row ends, completed or failed: runs that die or hang use up its attempts,
\* and the reclaim that finds them used up fails it.
RowsEnd == \A j \in Jobs : status[j] = "pending" ~> status[j] \in {"completed", "failed"}

\* A broadcast that is being sent completes, unless a run dies or loses a result
\* between settling a recipient and completing the broadcast, or outlives its claim.
BroadcastCompletes ==
  bstatus = "sending" ~> bstatus = "completed" \/ interrupted \/ \E j \in Jobs : aged[j]

\* "Marks the broadcast completed once no recipient is left unfinished."
\* (lib/jobs/legacy-work.ts:380): at least when all of them were sent.
CompletesOnceSent ==
  bstatus = "sending" /\ (\A j \in Jobs : rstatus[j] \in {"absent", "sent"})
    ~> bstatus = "completed"
====
