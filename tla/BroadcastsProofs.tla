---- MODULE BroadcastsProofs ----
(***************************************************************************)
(* The runs of Broadcasts are runs of LegacyQueue, a broadcast that        *)
(* completed has no unfinished recipient, and its counters are those of    *)
(* its recipients, for every set of requests, contacts and runs.           *)
(***************************************************************************)
EXTENDS Broadcasts, LegacyQueueProofs, FiniteSetTheorems

----
(* Broadcasts implements LegacyQueue. *)

\* What a run does with a row is one of the ways LegacyQueue lets work end, or
\* leaves the rows alone.
LEMMA QueueStep == [Next]_vars => [QueueNext]_queueVars
<1> SUFFICES ASSUME [Next]_vars PROVE [QueueNext]_queueVars
  OBVIOUS
<1>1. CASE UNCHANGED vars
  BY <1>1 DEF vars
<1>2. ASSUME NEW s \in Sends, CheckSend(s) \/ InsertRecipients(s) PROVE UNCHANGED queueVars
  BY <1>2 DEF CheckSend, InsertRecipients
<1>3. ASSUME NEW s \in Sends, ScheduleDelivery(s) PROVE [QueueNext]_queueVars
  <2>1. CASE UNCHANGED queueVars
    BY <2>1
  <2>2. ASSUME NEW now \in BOOLEAN,
               Enqueue({j \in Jobs : rstatus[j] = "pending" /\ status[j] = "absent"}, now)
        PROVE  QueueNext
    BY <2>2 DEF QueueNext
  <2>3. QED
    BY <1>3, <2>1, <2>2 DEF ScheduleDelivery
<1>4. ASSUME NEW j \in Jobs, Time(j) \/ OpEnds(j) PROVE [QueueNext]_queueVars
  BY <1>4 DEF Time, OpEnds, QueueNext
<1>5. ASSUME NEW r \in Runs, FetchRows(r) \/ Die(r) PROVE QueueNext
  BY <1>5 DEF FetchRows, Die, QueueNext
<1>6. ASSUME NEW r \in Runs, WorkStep(r) PROVE [QueueNext]_queueVars
  <2>1. CASE Load(r) \/ Promote(r) \/ Call(r) \/ MarkSending(r) \/ SettleRecipient(r) \/ Count(r)
    BY <2>1 DEF Load, Promote, Call, MarkSending, SettleRecipient, Count
  <2>2. ASSUME End(r) PROVE [QueueNext]_queueVars
    BY <2>2 DEF End, QueueNext
  <2>3. CASE Check(r) \/ Close(r) \/ FailRecipient(r)
    BY <2>2, <2>3 DEF Check, Close, FailRecipient
  <2>4. CASE EndWork(r)
    BY <2>4 DEF EndWork, QueueNext
  <2>5. QED
    BY <1>6, <2>1, <2>3, <2>4 DEF WorkStep
<1>7. ASSUME NEW r \in Runs, NEW j \in Jobs, PassRow(r, j) \/ ClaimRow(r, j) \/ ExhaustRow(r, j)
      PROVE  QueueNext
  BY <1>7 DEF PassRow, ClaimRow, ExhaustRow, QueueNext
<1>8. QED
  BY <1>1, <1>2, <1>3, <1>4, <1>5, <1>6, <1>7 DEF Next

\* The delivery of a broadcast drains its rows as LegacyQueue says.
THEOREM BroadcastsDrain == Spec => QueueSpec
<1>1. Init => QueueInit
  BY DEF Init
<1>2. QED
  BY <1>1, QueueStep, PTL DEF Spec, QueueSpec

\* Overlapping runs never send to the same recipient at a time, as long as claims
\* are settled within the five minutes.
THEOREM BroadcastsExclusive == Spec => []Exclusive
  BY BroadcastsDrain, Exclusion, PTL

THEOREM BroadcastRowsTyped == Spec => []QueueTypeOK
  BY BroadcastsDrain, QueueTypeCorrect, PTL

\* A recipient whose delivery failed is not tried again before its backoff is over.
THEOREM BroadcastsBackoff == Spec => BackoffRespected
  BY BroadcastsDrain, BackoffKept, PTL

----
(* A completed broadcast has no unfinished recipient. *)

WorkTyped ==
  /\ rstatus \in [Jobs -> {"absent", "sent", "failed"} \cup Unfinished]
  /\ send \in [Sends -> {"idle", "checked", "inserted", "done"}]
  /\ step \in [Runs -> WorkSteps \cup ClosingSteps \cup {"fail", "none"}]

\* A run between rows has no next call.
StepInv == \A r \in Runs : pc[r] \notin {"work", "settle"} => step[r] = "none"

\* Nothing is delivered before the request that starts the broadcast.
DraftInv ==
  bstatus = "draft" => /\ \A j \in Jobs : status[j] = "absent"
                       /\ \A r \in Runs : pc[r] = "idle"

\* The request that started it is over, and if it was the only one no recipient is added.
SendInv ==
  bstatus # "draft" => /\ \E s \in Sends : send[s] # "idle"
                       /\ SentOnce => \A s \in Sends : send[s] \in {"idle", "done"}

\* A run that is about to complete the broadcast found nobody left, and nobody is added.
LeftInv ==
  SentOnce /\ (bstatus = "completed" \/ \E r \in Runs : step[r] = "close") => NoneLeft

\* The inductive invariant, beside the types of the rows.
CompletionInv == WorkTyped /\ StepInv /\ DraftInv /\ SendInv /\ LeftInv

\* How the next call of a run changes: by a step of its work, by going to another
\* row, or when it takes one up.
StepMoves(r) ==
  \/ pc[r] \in {"work", "settle"} /\ UNCHANGED queueVars
       /\ \E s \in (WorkSteps \cup ClosingSteps) \ {"close"} : Goto(r, s)
  \/ pc[r] \in {"work", "settle"} /\ UNCHANGED queueVars /\ NoneLeft /\ Goto(r, "close")
  \/ /\ pc[r] # "idle" /\ \A x \in Runs : x # r => pc'[x] = pc[x]
     /\ step' = [step EXCEPT ![r] = IF pc'[r] = "settle" THEN "fail" ELSE "none"]
  \/ pc[r] = "loop" /\ pc' = [pc EXCEPT ![r] = "work"] /\ Goto(r, "load")

\* How recipients change under a run: each one once, when it is settled.
Recipients ==
  \/ UNCHANGED rstatus
  \/ \E j \in Jobs, result \in {"sent", "failed"} : SettleRow(j, result)
  \/ \E j \in Jobs : rstatus[j] \in Unfinished /\ rstatus' = [rstatus EXCEPT ![j] = "sending"]

LEMMA RecipientsKept ==
  ASSUME WorkTyped, Recipients
  PROVE  /\ rstatus' \in [Jobs -> {"absent", "sent", "failed"} \cup Unfinished]
         /\ NoneLeft => NoneLeft'
<1>1. rstatus' \in [Jobs -> {"absent", "sent", "failed"} \cup Unfinished]
  BY DEF WorkTyped, Recipients, SettleRow, Unfinished
<1>2. ASSUME NoneLeft PROVE NoneLeft'
  BY <1>2 DEF NoneLeft, WorkTyped, Recipients, SettleRow, Unfinished
<1>3. QED
  BY <1>1, <1>2

\* How the broadcast changes under a run.
BroadcastMoves(r) ==
  \/ bstatus' = bstatus
  \/ bstatus = "scheduled" /\ bstatus' = "sending"
  \/ step[r] = "close" /\ bstatus = "sending" /\ bstatus' = "completed"

RunMoves(r) == StepMoves(r) /\ Recipients /\ BroadcastMoves(r) /\ send' = send

LEMMA EndMoves ==
  ASSUME QueueTypeOK, NEW r \in Runs, pc[r] \in {"work", "settle"}, End(r)
  PROVE  StepMoves(r)
<1>1. CASE pc[r] = "work"
  BY <1>1 DEF End, StepMoves, WorkSteps, ClosingSteps
<1>2. CASE pc[r] = "settle"
  BY <1>2 DEF End, Settled, Advance, Follow, StepMoves, QueueTypeOK
<1>3. QED
  BY <1>1, <1>2

\* Every step of a run's work is of these kinds.
LEMMA WorkMoves ==
  ASSUME QueueTypeOK, WorkTyped, NEW r \in Runs, WorkStep(r)
  PROVE  RunMoves(r)
<1>a. pc[r] \in {"work", "settle"} => cur[r] \in Jobs
  BY CurTyped
<1>1. CASE Load(r)
  BY <1>1 DEF Load, At, RunMoves, StepMoves, Recipients, BroadcastMoves, broadcast, WorkSteps
<1>2. CASE Promote(r)
  BY <1>2 DEF Promote, At, RunMoves, StepMoves, Recipients, BroadcastMoves, WorkSteps
<1>3. CASE Call(r)
  BY <1>3 DEF Call, At, RunMoves, StepMoves, Recipients, BroadcastMoves, broadcast, WorkSteps
<1>4. CASE MarkSending(r)
  <2>1. StepMoves(r) /\ BroadcastMoves(r) /\ send' = send
    BY <1>4 DEF MarkSending, At, StepMoves, BroadcastMoves, broadcast, WorkSteps
  <2>2. Recipients
    BY <1>4, <1>a DEF MarkSending, At, AsSending, Recipients
  <2>3. QED
    BY <2>1, <2>2 DEF RunMoves
<1>5. CASE SettleRecipient(r)
  <2>1. StepMoves(r) /\ BroadcastMoves(r) /\ send' = send
    BY <1>5 DEF SettleRecipient, AfterSettling, At, StepMoves, BroadcastMoves, broadcast,
                WorkSteps, ClosingSteps
  <2>2. Recipients
    BY <1>5, <1>a DEF SettleRecipient, At, Recipients
  <2>3. QED
    BY <2>1, <2>2 DEF RunMoves
<1>6. CASE Count(r)
  BY <1>6 DEF Count, Closing, RunMoves, StepMoves, Recipients, BroadcastMoves, ClosingSteps
<1>7. CASE Check(r)
  <2>1. StepMoves(r)
    BY <1>7, EndMoves DEF Check, Closing, StepMoves
  <2>2. QED
    BY <1>7, <2>1 DEF Check, RunMoves, Recipients, BroadcastMoves, broadcast
<1>8. CASE Close(r)
  <2>1. StepMoves(r)
    BY <1>8, EndMoves DEF Close, Closing
  <2>2. QED
    BY <1>8, <2>1 DEF Close, Closing, Completed, RunMoves, Recipients, BroadcastMoves
<1>9. CASE FailRecipient(r)
  <2>1. StepMoves(r)
    <3>1. CASE End(r)
      BY <1>9, <3>1, EndMoves DEF FailRecipient
    <3>2. CASE UNCHANGED queueVars /\ Goto(r, AfterSettling(cur[r]))
      BY <1>9, <3>2 DEF FailRecipient, AfterSettling, StepMoves, ClosingSteps
    <3>3. QED
      BY <1>9, <3>1, <3>2 DEF FailRecipient
  <2>2. Recipients
    BY <1>9, <1>a DEF FailRecipient, Recipients
  <2>3. QED
    BY <1>9, <2>1, <2>2 DEF FailRecipient, RunMoves, BroadcastMoves, broadcast
<1>10. CASE EndWork(r)
  <2>1. pc[r] = "work" /\ \A x \in Runs : x # r => pc'[x] = pc[x]
    BY <1>10 DEF EndWork, At, Complete, Park, Retry, GiveUp, Advance, Start, QueueTypeOK
  <2>2. QED
    BY <1>10, <2>1
    DEF EndWork, Follow, WorkLeaves, broadcast, RunMoves, StepMoves, Recipients, BroadcastMoves
<1>11. QED
  BY <1>1, <1>2, <1>3, <1>4, <1>5, <1>6, <1>7, <1>8, <1>9, <1>10 DEF WorkStep

LEMMA RowMoves ==
  ASSUME QueueTypeOK, NEW r \in Runs,
         Die(r) \/ \E j \in Jobs : ClaimRow(r, j) \/ ExhaustRow(r, j)
  PROVE  RunMoves(r)
<1>1. CASE Die(r)
  <2>1. pc[r] # "idle" /\ \A x \in Runs : x # r => pc'[x] = pc[x]
    BY <1>1 DEF Die, Crash, QueueTypeOK
  <2>2. QED
    BY <1>1, <2>1 DEF Die, Follow, broadcast, RunMoves, StepMoves, Recipients, BroadcastMoves
<1>2. ASSUME NEW j \in Jobs, ClaimRow(r, j) PROVE RunMoves(r)
  BY <1>2 DEF ClaimRow, Claim, Claimable, AtRow, Start, WorkLeaves, broadcast, RunMoves, StepMoves,
              Recipients, BroadcastMoves
<1>3. ASSUME NEW j \in Jobs, ExhaustRow(r, j) PROVE RunMoves(r)
  <2>1. pc[r] # "idle" /\ \A x \in Runs : x # r => pc'[x] = pc[x]
    BY <1>3 DEF ExhaustRow, Exhaust, AtRow, Start, QueueTypeOK
  <2>2. QED
    BY <1>3, <2>1
    DEF ExhaustRow, Follow, WorkLeaves, broadcast, RunMoves, StepMoves, Recipients, BroadcastMoves
<1>4. QED
  BY <1>1, <1>2, <1>3

\* A run keeps the invariant.
LEMMA RunKeeps ==
  ASSUME QueueTypeOK, CompletionInv, NEW r \in Runs, RunMoves(r)
  PROVE  CompletionInv'
<1>1. WorkTyped'
  BY RecipientsKept
  DEF CompletionInv, WorkTyped, RunMoves, StepMoves, Goto, WorkSteps, ClosingSteps
<1>2. ASSUME NEW x \in Runs, pc'[x] \notin {"work", "settle"} PROVE step'[x] = "none"
  BY <1>2
  DEF CompletionInv, WorkTyped, StepInv, RunMoves, StepMoves, Goto, queueVars, QueueTypeOK
<1>3. DraftInv'
  BY DEF CompletionInv, DraftInv, RunMoves, BroadcastMoves, StepMoves
<1>4. SentOnce' = SentOnce
  BY DEF RunMoves, SentOnce
<1>5. SendInv'
  BY <1>4 DEF CompletionInv, SendInv, RunMoves, BroadcastMoves
<1>6. LeftInv'
  <2> SUFFICES ASSUME SentOnce', bstatus' = "completed" \/ \E x \in Runs : step'[x] = "close"
               PROVE  NoneLeft'
    BY DEF LeftInv
  <2>1. SentOnce
    BY <1>4
  <2>2. CASE bstatus' = "completed"
    <3>1. bstatus = "completed" \/ step[r] = "close"
      BY <2>2 DEF RunMoves, BroadcastMoves
    <3>2. NoneLeft
      BY <2>1, <3>1 DEF CompletionInv, LeftInv
    <3>3. QED
      BY <3>2, RecipientsKept DEF RunMoves, CompletionInv
  <2>3. CASE \E x \in Runs : step'[x] = "close"
    <3>1. (\E x \in Runs : step[x] = "close") \/ NoneLeft
      BY <2>3 DEF CompletionInv, WorkTyped, RunMoves, StepMoves, Goto
    <3>2. NoneLeft
      BY <2>1, <3>1 DEF CompletionInv, LeftInv
    <3>3. QED
      BY <3>2, RecipientsKept DEF RunMoves, CompletionInv
  <2>4. QED
    BY <2>2, <2>3
<1>7. QED
  BY <1>1, <1>2, <1>3, <1>5, <1>6 DEF CompletionInv, StepInv

\* So do steps of rows and of runs between rows.
LEMMA QueueKeeps ==
  ASSUME QueueTypeOK, CompletionInv, UNCHANGED <<bstatus, rstatus, send, step>>,
         \A r \in Runs : pc'[r] \in {"work", "settle"} <=> pc[r] \in {"work", "settle"},
         DraftInv'
  PROVE  CompletionInv'
<1>1. WorkTyped' /\ SentOnce' = SentOnce /\ NoneLeft' = NoneLeft
  BY DEF CompletionInv, WorkTyped, SentOnce, NoneLeft
<1>2. StepInv'
  BY DEF CompletionInv, StepInv
<1>3. SendInv' /\ LeftInv'
  BY <1>1 DEF CompletionInv, SendInv, LeftInv
<1>4. QED
  BY <1>1, <1>2, <1>3 DEF CompletionInv

LEMMA BetweenRowsKeeps ==
  ASSUME QueueTypeOK, CompletionInv,
         \/ \E r \in Runs : FetchRows(r) \/ \E j \in Jobs : PassRow(r, j)
         \/ \E j \in Jobs : Time(j) \/ OpEnds(j)
  PROVE  CompletionInv'
<1>1. ASSUME NEW r \in Runs, FetchRows(r) PROVE CompletionInv'
  <2>1. PICK S \in SUBSET {i \in Jobs : Eligible(i)} :
          pc' = [pc EXCEPT ![r] = IF S = {} THEN "idle" ELSE "loop"]
    BY <1>1 DEF FetchRows, Fetch
  <2>2. pc[r] = "idle" /\ UNCHANGED <<status, bstatus, rstatus, send, step>>
    BY <1>1 DEF FetchRows, Fetch, rows, WorkLeaves, broadcast, work
  <2>3. DraftInv'
    BY <2>1, <2>2 DEF CompletionInv, DraftInv, Eligible, QueueTypeOK
  <2>4. QED
    BY <2>1, <2>2, <2>3, QueueKeeps DEF QueueTypeOK
<1>2. ASSUME NEW r \in Runs, NEW j \in Jobs, PassRow(r, j) PROVE CompletionInv'
  <2>1. pc[r] = "loop" /\ Advance(r, j) /\ UNCHANGED <<bstatus, rstatus, send, step>>
    BY <1>2 DEF PassRow, Stamp, PassOver, Claimable, AtRow, WorkLeaves, broadcast, work
  <2>2. DraftInv'
    BY <2>1 DEF CompletionInv, DraftInv
  <2>3. QED
    BY <2>1, <2>2, QueueKeeps DEF QueueTypeOK, Advance
<1>3. ASSUME NEW j \in Jobs, Time(j) PROVE CompletionInv'
  <2>1. /\ status[j] # "absent" /\ pc' = pc
        /\ UNCHANGED <<bstatus, rstatus, send, step>>
    BY <1>3 DEF Time, BecomesDue, ClaimAges, UnstampedClaim, WorkLeaves, broadcast, work
  <2>2. DraftInv'
    BY <2>1 DEF CompletionInv, DraftInv
  <2>3. QED
    BY <2>1, <2>2, QueueKeeps
<1>4. ASSUME NEW j \in Jobs, OpEnds(j) PROVE CompletionInv'
  <2>1. UNCHANGED <<status, pc, bstatus, rstatus, send, step>>
    BY <1>4 DEF OpEnds, queueVars, rows, broadcast, work
  <2>2. DraftInv'
    BY <2>1 DEF CompletionInv, DraftInv
  <2>3. QED
    BY <2>1, <2>2, QueueKeeps
<1>5. QED
  BY <1>1, <1>2, <1>3, <1>4

\* A second request is what SentOnce rules out.
LEMMA StillOnce ==
  ASSUME WorkTyped, NEW s \in Sends,
         \A t \in Sends : t # s => send'[t] = send[t], send'[s] # "idle", SentOnce'
  PROVE  SentOnce /\ \A t \in Sends : t # s => send[t] = "idle"
  BY DEF SentOnce, WorkTyped

LEMMA CheckKeeps ==
  ASSUME CompletionInv, NEW s \in Sends, CheckSend(s)
  PROVE  CompletionInv'
<1>1. /\ send[s] = "idle" /\ send'[s] # "idle" /\ \A t \in Sends : t # s => send'[t] = send[t]
      /\ UNCHANGED <<status, pc, bstatus, rstatus, step>>
  BY DEF CompletionInv, WorkTyped, CheckSend, queueVars, rows, broadcast, work
<1>2. WorkTyped' /\ StepInv' /\ DraftInv'
  BY <1>1 DEF CompletionInv, WorkTyped, StepInv, DraftInv, CheckSend
<1>3. SentOnce' => SentOnce /\ \A t \in Sends : send[t] = "idle"
  BY <1>1, StillOnce DEF CompletionInv
<1>4. SendInv'
  BY <1>1, <1>3 DEF CompletionInv, SendInv
<1>5. LeftInv'
  BY <1>1, <1>3 DEF CompletionInv, LeftInv, NoneLeft
<1>6. QED
  BY <1>2, <1>4, <1>5 DEF CompletionInv

LEMMA InsertKeeps ==
  ASSUME CompletionInv, NEW s \in Sends, InsertRecipients(s)
  PROVE  CompletionInv'
<1>1. /\ send[s] = "checked" /\ send'[s] \in {"done", "inserted"}
      /\ \A t \in Sends : t # s => send'[t] = send[t]
      /\ UNCHANGED <<status, pc, bstatus, step>>
  BY DEF CompletionInv, WorkTyped, InsertRecipients, queueVars, rows, broadcast, work
<1>2. WorkTyped' /\ StepInv' /\ DraftInv'
  BY <1>1 DEF CompletionInv, WorkTyped, StepInv, DraftInv, InsertRecipients, Unfinished
<1>3. SentOnce' => SentOnce
  BY <1>1, StillOnce DEF CompletionInv
<1>4. SentOnce' => bstatus = "draft"
  BY <1>1, <1>3 DEF CompletionInv, SendInv
<1>5. bstatus = "draft" => \A r \in Runs : step[r] = "none"
  BY DEF CompletionInv, DraftInv, StepInv
<1>6. SendInv'
  BY <1>1, <1>4 DEF CompletionInv, SendInv
<1>7. LeftInv'
  BY <1>1, <1>4, <1>5 DEF LeftInv
<1>8. QED
  BY <1>2, <1>6, <1>7 DEF CompletionInv

LEMMA ScheduleKeeps ==
  ASSUME CompletionInv, NEW s \in Sends, ScheduleDelivery(s)
  PROVE  CompletionInv'
<1>1. /\ send'[s] = "done" /\ \A t \in Sends : t # s => send'[t] = send[t]
      /\ UNCHANGED <<pc, rstatus, step>>
      /\ bstatus' \in {"sending", "scheduled"} \/ UNCHANGED <<status, bstatus>>
  BY DEF CompletionInv, WorkTyped, ScheduleDelivery, Enqueue, queueVars, rows, work
<1>2. WorkTyped' /\ StepInv' /\ DraftInv'
  BY <1>1 DEF CompletionInv, WorkTyped, StepInv, DraftInv, ScheduleDelivery
<1>3. SentOnce' => SentOnce /\ \A t \in Sends : t # s => send[t] = "idle"
  BY <1>1, StillOnce DEF CompletionInv
<1>4. SendInv'
  BY <1>1, <1>3 DEF SendInv
<1>5. LeftInv'
  BY <1>1, <1>3 DEF CompletionInv, LeftInv, NoneLeft
<1>6. QED
  BY <1>2, <1>4, <1>5 DEF CompletionInv

\* Every step keeps the invariant.
LEMMA CompletionStep == QueueTypeOK /\ CompletionInv /\ [Next]_vars => CompletionInv'
<1> SUFFICES ASSUME QueueTypeOK, CompletionInv, [Next]_vars PROVE CompletionInv'
  OBVIOUS
<1>1. CASE UNCHANGED vars
  BY <1>1 DEF vars, queueVars, rows, broadcast, work, CompletionInv, WorkTyped, StepInv,
              DraftInv, SendInv, LeftInv, SentOnce, NoneLeft
<1>2. ASSUME NEW s \in Sends, CheckSend(s) \/ InsertRecipients(s) \/ ScheduleDelivery(s)
      PROVE  CompletionInv'
  BY <1>2, CheckKeeps, InsertKeeps, ScheduleKeeps
<1>3. ASSUME NEW r \in Runs, WorkStep(r) PROVE CompletionInv'
  BY <1>3, WorkMoves, RunKeeps DEF CompletionInv
<1>4. ASSUME NEW r \in Runs, Die(r) \/ \E j \in Jobs : ClaimRow(r, j) \/ ExhaustRow(r, j)
      PROVE  CompletionInv'
  BY <1>4, RowMoves, RunKeeps
<1>5. ASSUME \/ \E r \in Runs : FetchRows(r) \/ \E j \in Jobs : PassRow(r, j)
             \/ \E j \in Jobs : Time(j) \/ OpEnds(j)
      PROVE  CompletionInv'
  BY <1>5, BetweenRowsKeeps
<1>6. QED
  BY <1>1, <1>2, <1>3, <1>4, <1>5 DEF Next

LEMMA CompletionHolds == Spec => []CompletionInv
<1>1. Init => CompletionInv
  BY DEF Init, QueueInit, CompletionInv, WorkTyped, StepInv, DraftInv, SendInv, LeftInv, NoneLeft,
         Unfinished
<1>2. QED
  BY <1>1, CompletionStep, BroadcastRowsTyped, PTL DEF Spec

\* A completed broadcast that was requested once has no recipient to be sent or on
\* its way.
THEOREM Completion == Spec => []CompletedMeansSettled
<1>1. CompletionInv => CompletedMeansSettled
  BY DEF CompletionInv, LeftInv, CompletedMeansSettled
<1>2. QED
  BY <1>1, CompletionHolds, PTL

----
(* The counters. *)

\* Where a run is with its row.
RunTyped(r) ==
  /\ pc[r] = "work" => step[r] \in WorkSteps \cup ClosingSteps
  /\ pc[r] = "settle" => step[r] \in {"fail"} \cup ClosingSteps /\ answer[r] = "none"
  /\ pc[r] \notin {"work", "settle"} => step[r] = "none"

\* The variables beside those of the completion.
CountTyped ==
  /\ bstatus \in {"draft", "scheduled", "sending", "completed"}
  /\ ops \in [Jobs -> OpStates]
  /\ answer \in [Runs -> OpStates]
  /\ uncounted \subseteq Jobs /\ interrupted \in BOOLEAN
  /\ \A r \in Runs : RunTyped(r)

IsSettled(j) == rstatus[j] \in {"sent", "failed"}

\* What a run counts a recipient as.
Result(r) == IF answer[r] = "succeeded" THEN "sent" ELSE "failed"

\* A request finds no recipient of its own.
NotInserted ==
  \A s \in Sends, c \in Contacts : send[s] \in {"idle", "checked"} => rstatus[<<s, c>>] = "absent"

\* What a run is about to count: a recipient that it settled so, and that no other run counts.
Counting ==
  /\ \A j \in uncounted : IsSettled(j)
  /\ \A r \in Runs : step[r] = "count" => rstatus[cur[r]] = Result(r) /\ cur[r] \notin uncounted
  /\ \A r, s \in Runs : step[r] = "count" /\ step[s] = "count" /\ cur[r] = cur[s] => r = s

\* The recipients that the counters stand for.
InHand == {cur[r] : r \in {x \in Runs : step[x] = "count"}}
SentRows   == {j \in Jobs : rstatus[j] = "sent"} \ (InHand \cup uncounted)
FailedRows == {j \in Jobs : rstatus[j] = "failed"} \ (InHand \cup uncounted)

CountInv == CountTyped /\ NotInserted /\ Counting /\ CountersExact

LEMMA CountersAre ==
  /\ CountersExact <=> sent = Cardinality(SentRows) /\ failed = Cardinality(FailedRows)
  /\ CountersExact' <=> sent' = Cardinality(SentRows') /\ failed' = Cardinality(FailedRows')
BY DEF CountersExact, SettledAs, SentRows, FailedRows, InHand

\* The types that the steps below rely on.
LEMMA CountTypes ==
  ASSUME QueueTypeOK, CompletionInv
  PROVE  /\ rstatus \in [Jobs -> {"absent", "sent", "failed"} \cup Unfinished]
         /\ step \in [Runs -> WorkSteps \cup ClosingSteps \cup {"fail", "none"}]
         /\ cur \in [Runs -> Jobs \cup {NoJob}]
         /\ pc \in [Runs -> {"idle", "loop", "work", "settle"}]
         /\ \A r \in Runs : step[r] = "count" => pc[r] \in {"work", "settle"} /\ cur[r] \in Jobs
BY CurTyped DEF QueueTypeOK, CompletionInv, WorkTyped, StepInv

\* Nothing happens to a recipient that is settled, or to a run that counts.
Uncounting ==
  /\ \A j \in Jobs : IsSettled(j) \/ IsSettled(j)' => rstatus'[j] = rstatus[j]
  /\ \A r \in Runs : /\ step'[r] = "count" <=> step[r] = "count"
                     /\ step[r] = "count" => cur'[r] = cur[r] /\ answer'[r] = answer[r]
  /\ UNCHANGED <<sent, failed, uncounted>>

LEMMA UncountingKeeps ==
  ASSUME QueueTypeOK, CompletionInv, CountTyped, Counting, CountersExact, Uncounting
  PROVE  Counting' /\ CountersExact'
<1>1. InHand' = InHand
  BY DEF InHand, Uncounting
<1>2. SentRows' = SentRows /\ FailedRows' = FailedRows
  BY <1>1 DEF SentRows, FailedRows, Uncounting, IsSettled
<1>3. CountersExact'
  BY <1>2, CountersAre DEF Uncounting
<1>4. Counting'
  <2>1. \A j \in uncounted' : IsSettled(j)'
    BY DEF Counting, Uncounting, IsSettled, CountTyped
  <2>2. ASSUME NEW r \in Runs, step'[r] = "count"
        PROVE  rstatus'[cur'[r]] = Result(r)' /\ cur'[r] \notin uncounted'
    BY <2>2, CountTypes DEF Counting, Uncounting, IsSettled, Result
  <2>3. ASSUME NEW r \in Runs, NEW t \in Runs, step'[r] = "count", step'[t] = "count",
               cur'[r] = cur'[t]
        PROVE  r = t
    BY <2>3 DEF Counting, Uncounting
  <2>4. QED
    BY <2>1, <2>2, <2>3 DEF Counting
<1>5. QED
  BY <1>3, <1>4

\* A recipient is settled by run r, which goes on to count it, or cannot.
Settling(r) ==
  /\ pc[r] \in {"work", "settle"} /\ rstatus[cur[r]] \in Unfinished
  /\ step[r] # "count"
  /\ \A t \in Runs \ {r} : step'[t] = step[t] /\ cur'[t] = cur[t] /\ answer'[t] = answer[t]
  /\ UNCHANGED <<sent, failed>>
  /\ \/ /\ rstatus' = [rstatus EXCEPT ![cur[r]] = Result(r)]
        /\ step'[r] = "count" /\ cur'[r] = cur[r] /\ answer'[r] = answer[r]
        /\ UNCHANGED uncounted
     \/ /\ \E result \in {"sent", "failed"} : rstatus' = [rstatus EXCEPT ![cur[r]] = result]
        /\ step'[r] # "count"
        /\ uncounted' = uncounted \cup {cur[r]}

LEMMA SettlingKeeps ==
  ASSUME QueueTypeOK, CompletionInv, CountTyped, Counting, CountersExact, NEW r \in Runs,
         Settling(r)
  PROVE  Counting' /\ CountersExact'
<1>0. cur[r] \in Jobs /\ ~IsSettled(cur[r])
  BY CurTyped DEF Settling, IsSettled, Unfinished
<1>1. \A t \in Runs : step[t] = "count" => cur[t] # cur[r]
  BY <1>0 DEF Counting, IsSettled, Result
<1>2. (InHand \cup uncounted)' = InHand \cup uncounted \cup {cur[r]}
  BY <1>0 DEF InHand, Settling
<1>3. \A j \in Jobs \ {cur[r]} : rstatus'[j] = rstatus[j]
  BY <1>0, CountTypes DEF Settling
<1>4. SentRows' = SentRows /\ FailedRows' = FailedRows
  BY <1>0, <1>2, <1>3 DEF SentRows, FailedRows, IsSettled
<1>5. CountersExact'
  BY <1>4, CountersAre DEF Settling
<1>6. \A j \in uncounted' : IsSettled(j)'
  BY <1>0, CountTypes DEF Counting, Settling, IsSettled, Result, CountTyped
<1>7. ASSUME NEW t \in Runs, step'[t] = "count"
      PROVE  rstatus'[cur'[t]] = Result(t)' /\ cur'[t] \notin uncounted'
  <2>1. CASE t = r
    BY <1>0, <1>7, <2>1, CountTypes DEF Settling, Result, Counting
  <2>2. CASE t # r
    <3>1. step[t] = "count" /\ cur'[t] = cur[t] /\ answer'[t] = answer[t] /\ cur[t] # cur[r]
            /\ cur[t] \in Jobs
      BY <1>1, <1>7, <2>2, CountTypes DEF Settling
    <3>2. rstatus'[cur[t]] = rstatus[cur[t]]
      BY <3>1, CountTypes DEF Settling
    <3>3. QED
      BY <3>1, <3>2 DEF Settling, Result, Counting
  <2>3. QED
    BY <2>1, <2>2
<1>8. ASSUME NEW t \in Runs, NEW u \in Runs, step'[t] = "count", step'[u] = "count",
             cur'[t] = cur'[u]
      PROVE  t = u
  BY <1>1, <1>8 DEF Counting, Settling
<1>9. QED
  BY <1>5, <1>6, <1>7, <1>8 DEF Counting

\* Run r counts the recipient that it settled, or will never.
Ending(r) ==
  /\ step[r] = "count" /\ step'[r] # "count"
  /\ \A t \in Runs \ {r} : step'[t] = step[t] /\ cur'[t] = cur[t] /\ answer'[t] = answer[t]
  /\ UNCHANGED rstatus
  /\ \/ /\ uncounted' = uncounted
        /\ IF answer[r] = "succeeded" THEN sent' = sent + 1 /\ failed' = failed
                                      ELSE failed' = failed + 1 /\ sent' = sent
     \/ /\ uncounted' = uncounted \cup {cur[r]}
        /\ UNCHANGED <<sent, failed>>

LEMMA EndingKeeps ==
  ASSUME QueueTypeOK, CompletionInv, CountTyped, Counting, CountersExact, NEW r \in Runs, Ending(r)
  PROVE  Counting' /\ CountersExact'
<1>0. /\ cur[r] \in Jobs /\ rstatus[cur[r]] = Result(r) /\ cur[r] \notin uncounted
      /\ \A t \in Runs \ {r} : step[t] = "count" => cur[t] # cur[r]
  BY CountTypes DEF Ending, Counting
<1>1. InHand' = InHand \ {cur[r]} /\ cur[r] \in InHand
  BY <1>0 DEF InHand, Ending
<1>2. rstatus' = rstatus
  BY DEF Ending
<1>3. Counting'
  BY <1>0 DEF Counting, Ending, IsSettled, Result
<1>4. CASE uncounted' = uncounted \cup {cur[r]} /\ UNCHANGED <<sent, failed>>
  <2>1. SentRows' = SentRows /\ FailedRows' = FailedRows
    BY <1>1, <1>2, <1>4 DEF SentRows, FailedRows
  <2>2. QED
    BY <1>3, <1>4, <2>1, CountersAre
<1>5. CASE /\ uncounted' = uncounted
           /\ IF answer[r] = "succeeded" THEN sent' = sent + 1 /\ failed' = failed
                                         ELSE failed' = failed + 1 /\ sent' = sent
  <2>1. IsFiniteSet(SentRows) /\ IsFiniteSet(FailedRows)
    <3>1. IsFiniteSet(Jobs)
      BY BroadcastAssumption, FS_Product
    <3>2. SentRows \in SUBSET Jobs /\ FailedRows \in SUBSET Jobs
      BY DEF SentRows, FailedRows
    <3>3. QED
      BY <3>1, <3>2, FS_Subset
  <2>2. CASE answer[r] = "succeeded"
    <3>1. SentRows' = SentRows \cup {cur[r]} /\ cur[r] \notin SentRows /\ FailedRows' = FailedRows
      BY <1>0, <1>1, <1>2, <1>5, <2>2 DEF SentRows, FailedRows, Result
    <3>2. Cardinality(SentRows') = Cardinality(SentRows) + 1
      BY <2>1, <3>1, FS_AddElement
    <3>3. QED
      BY <1>3, <1>5, <2>2, <3>1, <3>2, CountersAre
  <2>3. CASE answer[r] # "succeeded"
    <3>1. FailedRows' = FailedRows \cup {cur[r]} /\ cur[r] \notin FailedRows /\ SentRows' = SentRows
      BY <1>0, <1>1, <1>2, <1>5, <2>3 DEF SentRows, FailedRows, Result
    <3>2. Cardinality(FailedRows') = Cardinality(FailedRows) + 1
      BY <2>1, <3>1, FS_AddElement
    <3>3. QED
      BY <1>3, <1>5, <2>3, <3>1, <3>2, CountersAre
  <2>4. QED
    BY <2>2, <2>3
<1>6. QED
  BY <1>4, <1>5 DEF Ending
----
(* Every step of a run counts no recipient, settles one, or counts one. *)

\* Nothing but run r goes on.
OnlyRun(r) ==
  \A t \in Runs \ {r} : /\ pc'[t] = pc[t] /\ step'[t] = step[t]
                        /\ cur'[t] = cur[t] /\ answer'[t] = answer[t]

RunCounts(r) ==
  /\ Uncounting \/ Settling(r) \/ Ending(r)
  /\ RunTyped(r)' /\ OnlyRun(r)
  /\ \A j \in Jobs : rstatus[j] = "absent" => rstatus'[j] = "absent"
  /\ bstatus' \in {"draft", "scheduled", "sending", "completed"} /\ ops' \in [Jobs -> OpStates]
  /\ answer' \in [Runs -> OpStates] /\ uncounted' \subseteq Jobs /\ interrupted' \in BOOLEAN
  /\ send' = send

\* Between settling a recipient and counting it a run does nothing else.
LEMMA SettlesNone ==
  ASSUME QueueTypeOK, CompletionInv, NEW r \in Runs, OnlyRun(r),
         step[r] # "count", step'[r] # "count", UNCHANGED <<sent, failed, uncounted>>,
         UNCHANGED rstatus \/ (pc[r] = "work" /\ rstatus' = AsSending(cur[r]))
  PROVE  Uncounting /\ \A j \in Jobs : rstatus[j] = "absent" => rstatus'[j] = "absent"
<1>1. \A j \in Jobs : rstatus'[j] = rstatus[j]
      \/ (rstatus[j] \in Unfinished /\ rstatus'[j] = "sending")
  BY CurTyped, CountTypes DEF AsSending
<1>2. QED
  BY <1>1 DEF Uncounting, OnlyRun, IsSettled, Unfinished

\* A run that goes on to the next call of its work.
LEMMA GotoTyped ==
  ASSUME QueueTypeOK, CompletionInv, CountTyped, NEW r \in Runs,
         NEW s \in WorkSteps \cup ClosingSteps,
         UNCHANGED queueVars, answer' \in [Runs -> OpStates],
         \A t \in Runs \ {r} : answer'[t] = answer[t],
         pc[r] = "work" \/ (pc[r] = "settle" /\ s \in ClosingSteps /\ answer' = answer), Goto(r, s)
  PROVE  RunTyped(r)' /\ OnlyRun(r) /\ step'[r] = s
BY CountTypes DEF CountTyped, RunTyped, OnlyRun, Goto, queueVars, rows

\* A run that goes on to another row, or gives this one up.
LEMMA FollowTyped ==
  ASSUME QueueTypeOK, CompletionInv, CountTyped, NEW r \in Runs, Follow(r),
         pc'[r] \in {"idle", "loop", "settle"},
         \A t \in Runs \ {r} : pc'[t] = pc[t] /\ cur'[t] = cur[t]
  PROVE  /\ RunTyped(r)' /\ OnlyRun(r) /\ step'[r] \notin ClosingSteps
         /\ answer' \in [Runs -> OpStates]
BY CountTypes DEF CountTyped, RunTyped, OnlyRun, Follow, OpStates, ClosingSteps

\* The end of a run's work on a row.
LEMMA EndTyped ==
  ASSUME QueueTypeOK, CompletionInv, CountTyped, NEW r \in Runs, End(r),
         pc[r] \in {"work", "settle"}
  PROVE  /\ RunTyped(r)' /\ OnlyRun(r) /\ step'[r] \notin ClosingSteps
         /\ answer' \in [Runs -> OpStates]
<1>1. CASE pc[r] = "work"
  <2>1. Goto(r, "done") /\ UNCHANGED <<queueVars, answer>>
    BY <1>1 DEF End
  <2>2. QED
    BY <1>1, <2>1, GotoTyped DEF WorkSteps, ClosingSteps, CountTyped
<1>2. CASE pc[r] = "settle"
  <2>1. Advance(r, cur[r]) /\ Follow(r)
    BY <1>2 DEF End, Settled
  <2>2. pc'[r] \in {"idle", "loop"} /\ \A t \in Runs \ {r} : pc'[t] = pc[t] /\ cur'[t] = cur[t]
    BY <2>1 DEF Advance, QueueTypeOK
  <2>3. QED
    BY <2>1, <2>2, FollowTyped
<1>3. QED
  BY <1>1, <1>2

LEMMA WorkCounts ==
  ASSUME QueueTypeOK, CompletionInv, CountTyped, NEW r \in Runs, WorkStep(r)
  PROVE  RunCounts(r)
<1>a. pc[r] \in {"work", "settle"} => cur[r] \in Jobs
  BY CurTyped
<1>b. /\ UNCHANGED bstatus => bstatus' \in {"draft", "scheduled", "sending", "completed"}
      /\ UNCHANGED ops => ops' \in [Jobs -> OpStates]
      /\ UNCHANGED answer => answer' \in [Runs -> OpStates]
      /\ UNCHANGED uncounted => uncounted' \subseteq Jobs
      /\ UNCHANGED interrupted => interrupted' \in BOOLEAN
  BY DEF CountTyped
<1>c. \A s : At(r, s) => pc[r] = "work" /\ step[r] = s
  BY DEF At
<1>1. CASE Load(r)
  <2>1. PICK s \in WorkSteps : Goto(r, s)
    BY <1>1 DEF Load, WorkSteps
  <2>2. At(r, "load") /\ UNCHANGED <<queueVars, broadcast, rstatus, send, ops, answer, bhistory>>
    BY <1>1 DEF Load
  <2>3. RunTyped(r)' /\ OnlyRun(r) /\ step'[r] = s
    BY <1>b, <1>c, <2>1, <2>2, GotoTyped
  <2>4. QED
    BY <1>b, <1>c, <2>2, <2>3, SettlesNone DEF RunCounts, broadcast, bhistory, WorkSteps
<1>2. CASE Promote(r)
  <2>1. /\ At(r, "promote") /\ Goto(r, "call")
        /\ UNCHANGED <<queueVars, sent, failed, rstatus, send, ops, answer, bhistory>>
        /\ bstatus' \in {bstatus, "sending"}
    BY <1>2 DEF Promote
  <2>2. RunTyped(r)' /\ OnlyRun(r) /\ step'[r] = "call"
    BY <1>b, <1>c, <2>1, GotoTyped DEF WorkSteps
  <2>3. QED
    BY <1>b, <1>c, <2>1, <2>2, SettlesNone DEF RunCounts, bhistory, CountTyped
<1>3. CASE Call(r)
  <2>1. PICK s \in WorkSteps : Goto(r, s)
    BY <1>3 DEF Call, WorkSteps
  <2>2. /\ At(r, "call") /\ UNCHANGED <<queueVars, broadcast, rstatus, send, bhistory>>
        /\ ops' \in [Jobs -> OpStates]
    BY <1>3 DEF Call, CountTyped
  <2>3. answer' \in [Runs -> OpStates] /\ \A t \in Runs \ {r} : answer'[t] = answer[t]
    BY <1>3, <1>a, <1>c, <2>2 DEF Call, CountTyped
  <2>4. RunTyped(r)' /\ OnlyRun(r) /\ step'[r] = s
    BY <1>c, <2>1, <2>2, <2>3, GotoTyped
  <2>5. QED
    BY <1>b, <1>c, <2>2, <2>3, <2>4, SettlesNone DEF RunCounts, broadcast, bhistory, WorkSteps
<1>4. CASE MarkSending(r)
  <2>1. PICK s \in WorkSteps : Goto(r, s)
    BY <1>4 DEF MarkSending, WorkSteps
  <2>2. /\ At(r, "sending") /\ UNCHANGED <<queueVars, broadcast, send, ops, answer, bhistory>>
        /\ UNCHANGED rstatus \/ rstatus' = AsSending(cur[r])
    BY <1>4 DEF MarkSending
  <2>3. RunTyped(r)' /\ OnlyRun(r) /\ step'[r] = s
    BY <1>b, <1>c, <2>1, <2>2, GotoTyped
  <2>4. QED
    BY <1>b, <1>c, <2>2, <2>3, SettlesNone DEF RunCounts, broadcast, bhistory, WorkSteps
<1>5. CASE SettleRecipient(r)
  <2>1. At(r, "settle") /\ UNCHANGED <<queueVars, broadcast, send, ops, answer>>
    BY <1>5 DEF SettleRecipient
  <2>2. ASSUME NEW s \in WorkSteps \cup ClosingSteps, Goto(r, s)
        PROVE  RunTyped(r)' /\ OnlyRun(r) /\ step'[r] = s
    BY <1>b, <1>c, <2>1, <2>2, GotoTyped
  <2>3. CASE rstatus[cur[r]] \in Unfinished /\ SettleRow(cur[r], Result(r)) /\ Goto(r, "count")
                /\ UNCHANGED bhistory
    <3>1. Settling(r)
      BY <1>c, <2>1, <2>2, <2>3 DEF Settling, SettleRow, OnlyRun, ClosingSteps, broadcast,
         bhistory, queueVars
    <3>2. \A j \in Jobs : rstatus[j] = "absent" => rstatus'[j] = "absent"
      BY <1>a, <1>c, <2>1, <2>3, CountTypes DEF SettleRow, Unfinished
    <3>3. QED
      BY <1>b, <2>1, <2>2, <2>3, <3>1, <3>2 DEF RunCounts, ClosingSteps, broadcast, bhistory
  <2>4. CASE UNCHANGED <<rstatus, bhistory>> /\ (Goto(r, "raise") \/ Goto(r, "check"))
    <3>1. RunTyped(r)' /\ OnlyRun(r) /\ step'[r] # "count"
      BY <2>2, <2>4 DEF WorkSteps, ClosingSteps
    <3>2. QED
      BY <1>b, <1>c, <2>1, <2>4, <3>1, SettlesNone DEF RunCounts, broadcast, bhistory
  <2>5. CASE /\ rstatus[cur[r]] \in Unfinished /\ SettleRow(cur[r], Result(r)) /\ Goto(r, "raise")
             /\ uncounted' = uncounted \cup {cur[r]} /\ interrupted' = TRUE
    <3>1. RunTyped(r)' /\ OnlyRun(r) /\ step'[r] # "count"
      BY <2>2, <2>5 DEF WorkSteps
    <3>2. \E result \in {"sent", "failed"} : rstatus' = [rstatus EXCEPT ![cur[r]] = result]
      BY <2>5 DEF SettleRow, Result
    <3>3. Settling(r)
      BY <1>c, <2>1, <2>5, <3>1, <3>2 DEF Settling, OnlyRun, broadcast
    <3>4. \A j \in Jobs : rstatus[j] = "absent" => rstatus'[j] = "absent"
      BY <1>a, <1>c, <2>1, <2>5, CountTypes DEF SettleRow, Unfinished
    <3>5. QED
      BY <1>a, <1>b, <1>c, <2>1, <2>5, <3>1, <3>3, <3>4 DEF RunCounts, broadcast, CountTyped
  <2>6. QED
    BY <1>5, <2>3, <2>4, <2>5 DEF SettleRecipient, AfterSettling, Result
<1>6. CASE Count(r)
  <2>1. /\ pc[r] \in {"work", "settle"} /\ step[r] = "count" /\ Goto(r, "check")
        /\ UNCHANGED <<queueVars, bstatus, rstatus, send, ops, answer, interrupted>>
    BY <1>6 DEF Count, Closing
  <2>2. RunTyped(r)' /\ OnlyRun(r) /\ step'[r] = "check"
    BY <1>b, <2>1, GotoTyped DEF ClosingSteps
  <2>3. Ending(r) /\ uncounted' \subseteq Jobs
    BY <1>6, <1>a, <2>1, <2>2 DEF Count, Ending, OnlyRun, CountTyped
  <2>4. QED
    BY <1>b, <2>1, <2>2, <2>3 DEF RunCounts
<1>7. CASE Check(r)
  <2>1. /\ pc[r] \in {"work", "settle"} /\ step[r] = "check"
        /\ UNCHANGED <<broadcast, rstatus, send, ops, uncounted>>
        /\ interrupted' \in {interrupted, TRUE}
    BY <1>7 DEF Check, Closing, bhistory
  <2>2. RunTyped(r)' /\ OnlyRun(r) /\ step'[r] # "count" /\ answer' \in [Runs -> OpStates]
    <3>1. CASE Goto(r, "close") /\ UNCHANGED <<queueVars, answer>>
      BY <1>b, <2>1, <3>1, GotoTyped DEF ClosingSteps
    <3>2. CASE End(r)
      BY <2>1, <3>2, EndTyped DEF ClosingSteps
    <3>3. QED
      BY <1>7, <3>1, <3>2 DEF Check
  <2>3. QED
    BY <1>b, <2>1, <2>2, SettlesNone DEF RunCounts, broadcast, CountTyped
<1>8. CASE Close(r)
  <2>1. /\ pc[r] \in {"work", "settle"} /\ step[r] = "close" /\ End(r)
        /\ UNCHANGED <<sent, failed, rstatus, send, ops, uncounted>>
        /\ interrupted' \in {interrupted, TRUE}
        /\ bstatus' \in {bstatus, "completed"}
    BY <1>8 DEF Close, Closing, Completed, bhistory
  <2>2. RunTyped(r)' /\ OnlyRun(r) /\ step'[r] # "count" /\ answer' \in [Runs -> OpStates]
    BY <2>1, EndTyped DEF ClosingSteps
  <2>3. QED
    BY <1>b, <2>1, <2>2, SettlesNone DEF RunCounts, CountTyped
<1>9. CASE FailRecipient(r)
  <2>1. pc[r] = "settle" /\ step[r] = "fail" /\ Result(r) = "failed"
          /\ UNCHANGED <<broadcast, send, ops>>
    BY <1>9 DEF FailRecipient, CountTyped, RunTyped, Result
  <2>2. CASE /\ rstatus[cur[r]] \in Unfinished /\ SettleRow(cur[r], "failed") /\ Goto(r, "count")
             /\ UNCHANGED <<queueVars, answer, bhistory>>
    <3>1. RunTyped(r)' /\ OnlyRun(r) /\ step'[r] = "count"
      BY <1>b, <2>1, <2>2, GotoTyped DEF ClosingSteps
    <3>2. Settling(r)
      BY <2>1, <2>2, <3>1 DEF Settling, SettleRow, OnlyRun, broadcast, bhistory, queueVars
    <3>3. \A j \in Jobs : rstatus[j] = "absent" => rstatus'[j] = "absent"
      BY <1>a, <2>1, <2>2, CountTypes DEF SettleRow, Unfinished
    <3>4. QED
      BY <1>b, <2>1, <2>2, <3>1, <3>2, <3>3 DEF RunCounts, broadcast, bhistory
  <2>3. CASE UNCHANGED <<queueVars, rstatus, answer, bhistory>> /\ Goto(r, "check")
    <3>1. RunTyped(r)' /\ OnlyRun(r) /\ step'[r] = "check"
      BY <1>b, <2>1, <2>3, GotoTyped DEF ClosingSteps
    <3>2. QED
      BY <1>b, <2>1, <2>3, <3>1, SettlesNone DEF RunCounts, broadcast, bhistory
  <2>4. CASE UNCHANGED <<rstatus, uncounted>> /\ interrupted' = TRUE /\ End(r)
    <3>1. RunTyped(r)' /\ OnlyRun(r) /\ step'[r] # "count" /\ answer' \in [Runs -> OpStates]
      BY <2>1, <2>4, EndTyped DEF ClosingSteps
    <3>2. QED
      BY <1>b, <2>1, <2>4, <3>1, SettlesNone DEF RunCounts, broadcast
  <2>5. CASE /\ rstatus[cur[r]] \in Unfinished /\ SettleRow(cur[r], "failed")
             /\ uncounted' = uncounted \cup {cur[r]} /\ interrupted' = TRUE /\ End(r)
    <3>1. RunTyped(r)' /\ OnlyRun(r) /\ step'[r] # "count" /\ answer' \in [Runs -> OpStates]
      BY <2>1, <2>5, EndTyped DEF ClosingSteps
    <3>2. Settling(r)
      BY <2>1, <2>5, <3>1 DEF Settling, SettleRow, OnlyRun, broadcast
    <3>3. \A j \in Jobs : rstatus[j] = "absent" => rstatus'[j] = "absent"
      BY <1>a, <2>1, <2>5, CountTypes DEF SettleRow, Unfinished
    <3>4. QED
      BY <1>a, <1>b, <2>1, <2>5, <3>1, <3>2, <3>3 DEF RunCounts, broadcast, CountTyped
  <2>6. QED
    BY <1>9, <2>2, <2>3, <2>4, <2>5 DEF FailRecipient, AfterSettling
<1>10. CASE EndWork(r)
  <2>1. /\ At(r, "done") \/ At(r, "park") \/ At(r, "raise")
        /\ Follow(r) /\ UNCHANGED <<broadcast, rstatus, send, ops, bhistory>>
    BY <1>10 DEF EndWork, WorkLeaves
  <2>2. pc'[r] \in {"idle", "loop", "settle"}
          /\ \A t \in Runs \ {r} : pc'[t] = pc[t] /\ cur'[t] = cur[t]
    BY <1>10 DEF EndWork, Complete, Park, Retry, GiveUp, Advance, Start, QueueTypeOK
  <2>3. RunTyped(r)' /\ OnlyRun(r) /\ step'[r] # "count" /\ answer' \in [Runs -> OpStates]
    BY <2>1, <2>2, FollowTyped DEF ClosingSteps
  <2>4. QED
    BY <1>b, <1>c, <2>1, <2>3, SettlesNone DEF RunCounts, broadcast, bhistory
<1>11. QED
  BY <1>1, <1>2, <1>3, <1>4, <1>5, <1>6, <1>7, <1>8, <1>9, <1>10 DEF WorkStep

LEMMA RowCounts ==
  ASSUME QueueTypeOK, CompletionInv, CountTyped, NEW r \in Runs,
         Die(r) \/ \E j \in Jobs : ClaimRow(r, j) \/ ExhaustRow(r, j)
  PROVE  RunCounts(r)
<1>1. CASE Die(r)
  <2>1. /\ Follow(r) /\ UNCHANGED <<broadcast, rstatus, send, ops>>
        /\ uncounted' = uncounted \cup (IF step[r] = "count" THEN {cur[r]} ELSE {})
        /\ interrupted' \in BOOLEAN
    BY <1>1 DEF Die, CountTyped
  <2>2. pc'[r] = "idle" /\ \A t \in Runs \ {r} : pc'[t] = pc[t] /\ cur'[t] = cur[t]
    BY <1>1 DEF Die, Crash, QueueTypeOK
  <2>3. RunTyped(r)' /\ OnlyRun(r) /\ step'[r] # "count" /\ answer' \in [Runs -> OpStates]
    BY <2>1, <2>2, FollowTyped DEF ClosingSteps
  <2>4. uncounted' \subseteq Jobs
    BY <2>1, CountTypes DEF CountTyped
  <2>5. CASE step[r] = "count"
    <3>1. Ending(r)
      BY <2>1, <2>3, <2>5 DEF Ending, OnlyRun, broadcast
    <3>2. QED
      BY <2>1, <2>3, <2>4, <3>1 DEF RunCounts, broadcast, CountTyped
  <2>6. CASE step[r] # "count"
    <3>1. UNCHANGED <<sent, failed, uncounted>>
      BY <2>1, <2>6 DEF broadcast
    <3>2. QED
      BY <2>1, <2>3, <2>4, <2>6, <3>1, SettlesNone DEF RunCounts, broadcast, CountTyped
  <2>7. QED
    BY <2>5, <2>6
<1>2. ASSUME NEW j \in Jobs, ClaimRow(r, j) PROVE RunCounts(r)
  <2>1. /\ pc[r] = "loop" /\ Goto(r, "load")
        /\ UNCHANGED <<broadcast, rstatus, send, ops, bhistory, answer>>
        /\ pc' = [pc EXCEPT ![r] = "work"] /\ cur' = [cur EXCEPT ![r] = j]
    BY <1>2 DEF ClaimRow, Claim, Claimable, AtRow, Start, WorkLeaves
  <2>2. RunTyped(r)' /\ OnlyRun(r) /\ step[r] # "count" /\ step'[r] # "count"
    BY <2>1, CountTypes DEF RunTyped, OnlyRun, Goto, WorkSteps
  <2>3. QED
    BY <2>1, <2>2, SettlesNone DEF RunCounts, broadcast, bhistory, CountTyped
<1>3. ASSUME NEW j \in Jobs, ExhaustRow(r, j) PROVE RunCounts(r)
  <2>1. /\ pc[r] = "loop" /\ Follow(r) /\ UNCHANGED <<broadcast, rstatus, send, ops, bhistory>>
        /\ pc' = [pc EXCEPT ![r] = "settle"] /\ cur' = [cur EXCEPT ![r] = j]
    BY <1>3 DEF ExhaustRow, Exhaust, AtRow, Start, WorkLeaves
  <2>2. pc'[r] = "settle" /\ \A t \in Runs \ {r} : pc'[t] = pc[t] /\ cur'[t] = cur[t]
    BY <2>1 DEF QueueTypeOK
  <2>3. RunTyped(r)' /\ OnlyRun(r) /\ step'[r] # "count" /\ answer' \in [Runs -> OpStates]
    BY <2>1, <2>2, FollowTyped DEF ClosingSteps
  <2>4. step[r] # "count"
    BY <2>1, CountTypes
  <2>5. QED
    BY <2>1, <2>3, <2>4, SettlesNone DEF RunCounts, broadcast, bhistory, CountTyped
<1>4. QED
  BY <1>1, <1>2, <1>3

\* A run keeps the invariant.
LEMMA RunKeepsCount ==
  ASSUME QueueTypeOK, CompletionInv, CountInv, NEW r \in Runs, RunCounts(r)
  PROVE  CountInv'
<1>1. CountTyped'
  BY DEF CountInv, CountTyped, RunCounts, OnlyRun, RunTyped
<1>2. NotInserted'
  BY BroadcastAssumption DEF CountInv, NotInserted, RunCounts
<1>3. Counting' /\ CountersExact'
  BY UncountingKeeps, SettlingKeeps, EndingKeeps DEF RunCounts, CountInv
<1>4. QED
  BY <1>1, <1>2, <1>3 DEF CountInv

\* So do the requests, the rows, and runs between rows.
LEMMA OthersKeepCount ==
  ASSUME QueueTypeOK, CompletionInv, CountInv,
         UNCHANGED <<sent, failed, step, answer, uncounted, interrupted>>,
         bstatus' \in {"draft", "scheduled", "sending", "completed"}, ops' \in [Jobs -> OpStates],
         \A r \in Runs : /\ pc[r] \in {"work", "settle"} => pc'[r] = pc[r] /\ cur'[r] = cur[r]
                         /\ pc'[r] \in {"work", "settle"} => pc[r] \in {"work", "settle"},
         \A j \in Jobs : IsSettled(j) \/ IsSettled(j)' => rstatus'[j] = rstatus[j],
         NotInserted'
  PROVE  CountInv'
<1>1. CountTyped'
  BY DEF CountInv, CountTyped, RunTyped
<1>2. Uncounting
  BY CountTypes DEF Uncounting
<1>3. QED
  BY <1>1, <1>2, UncountingKeeps DEF CountInv

LEMMA RequestsKeepCount ==
  ASSUME QueueTypeOK, CompletionInv, CountInv, NEW s \in Sends,
         CheckSend(s) \/ InsertRecipients(s) \/ ScheduleDelivery(s)
  PROVE  CountInv'
<1>1. send \in [Sends -> {"idle", "checked", "inserted", "done"}]
  BY DEF CompletionInv, WorkTyped
<1>2. CASE CheckSend(s)
  <2>1. UNCHANGED <<pc, cur, bstatus, sent, failed, rstatus, ops, step, answer, uncounted,
                    interrupted>>
    BY <1>2 DEF CheckSend, queueVars, broadcast, work, bhistory
  <2>2. \A t \in Sends : send'[t] \in {"idle", "checked"} => send[t] \in {"idle", "checked"}
    BY <1>1, <1>2 DEF CheckSend
  <2>3. NotInserted'
    BY <2>1, <2>2 DEF NotInserted, CountInv
  <2>4. QED
    BY <2>1, <2>3, OthersKeepCount DEF CountInv, CountTyped
<1>3. CASE InsertRecipients(s)
  <2>1. UNCHANGED <<pc, cur, bstatus, sent, failed, ops, step, answer, uncounted, interrupted>>
    BY <1>3 DEF InsertRecipients, queueVars, broadcast, work, bhistory
  <2>2. PICK C \in SUBSET Contacts :
          rstatus' = [j \in Jobs |-> IF j \in {s} \X C THEN "pending" ELSE rstatus[j]]
    BY <1>3 DEF InsertRecipients
  <2>3. send[s] = "checked"
          /\ \A t \in Sends : send'[t] \in {"idle", "checked"} => t # s /\ send[t] = send'[t]
    BY <1>1, <1>3 DEF InsertRecipients
  <2>4. \A c \in C : <<s, c>> \in Jobs /\ rstatus[<<s, c>>] = "absent"
    BY <2>3, BroadcastAssumption DEF CountInv, NotInserted
  <2>5. \A j \in Jobs : IsSettled(j) \/ IsSettled(j)' => rstatus'[j] = rstatus[j]
    BY <2>2, <2>4 DEF IsSettled
  <2>6. NotInserted'
    BY <2>2, <2>3, BroadcastAssumption DEF NotInserted, CountInv
  <2>7. QED
    BY <2>1, <2>5, <2>6, OthersKeepCount DEF CountInv, CountTyped
<1>4. CASE ScheduleDelivery(s)
  <2>1. /\ UNCHANGED <<pc, cur, sent, failed, rstatus, ops, step, answer, uncounted, interrupted>>
        /\ bstatus' \in {bstatus, "sending", "scheduled"}
    BY <1>4 DEF ScheduleDelivery, Enqueue, queueVars, work, bhistory
  <2>2. \A t \in Sends : send'[t] \in {"idle", "checked"} => send[t] \in {"idle", "checked"}
    BY <1>1, <1>4 DEF ScheduleDelivery
  <2>3. NotInserted'
    BY <2>1, <2>2 DEF NotInserted, CountInv
  <2>4. QED
    BY <2>1, <2>3, OthersKeepCount DEF CountInv, CountTyped
<1>5. QED
  BY <1>2, <1>3, <1>4

LEMMA BetweenRowsKeepCount ==
  ASSUME QueueTypeOK, CompletionInv, CountInv,
         \/ \E r \in Runs : FetchRows(r) \/ \E j \in Jobs : PassRow(r, j)
         \/ \E j \in Jobs : Time(j) \/ OpEnds(j)
  PROVE  CountInv'
<1>1. /\ UNCHANGED <<bstatus, sent, failed, rstatus, send, step, answer, uncounted, interrupted>>
      /\ ops' \in [Jobs -> OpStates]
  BY DEF FetchRows, PassRow, Time, OpEnds, WorkLeaves, work, broadcast, bhistory, CountInv,
     CountTyped, OpStates
<1>2. \A r \in Runs : /\ pc[r] \in {"work", "settle"} => pc'[r] = pc[r] /\ cur'[r] = cur[r]
                      /\ pc'[r] \in {"work", "settle"} => pc[r] \in {"work", "settle"}
  <2>1. ASSUME NEW r \in Runs, FetchRows(r)
        PROVE  pc[r] = "idle" /\ cur' = cur
                 /\ \E p \in {"idle", "loop"} : pc' = [pc EXCEPT ![r] = p]
    BY <2>1 DEF FetchRows, Fetch
  <2>2. ASSUME NEW r \in Runs, NEW j \in Jobs, PassRow(r, j)
        PROVE  /\ pc[r] = "loop" /\ cur' = [cur EXCEPT ![r] = NoJob]
               /\ \E p \in {"idle", "loop"} : pc' = [pc EXCEPT ![r] = p]
    BY <2>2 DEF PassRow, Stamp, PassOver, Claimable, AtRow, Advance
  <2>3. ASSUME NEW j \in Jobs, Time(j) \/ OpEnds(j) PROVE UNCHANGED <<pc, cur>>
    BY <2>3 DEF Time, OpEnds, BecomesDue, ClaimAges, UnstampedClaim, queueVars
  <2>4. QED
    BY <2>1, <2>2, <2>3, CountTypes
<1>3. NotInserted' /\ \A j \in Jobs : rstatus'[j] = rstatus[j]
  BY <1>1 DEF NotInserted, CountInv
<1>4. QED
  BY <1>1, <1>2, <1>3, OthersKeepCount DEF CountInv, CountTyped

\* Every step keeps the invariant.
LEMMA CountStep == QueueTypeOK /\ CompletionInv /\ CountInv /\ [Next]_vars => CountInv'
<1> SUFFICES ASSUME QueueTypeOK, CompletionInv, CountInv, [Next]_vars PROVE CountInv'
  OBVIOUS
<1>1. CASE UNCHANGED vars
  <2>1. /\ UNCHANGED <<pc, cur, bstatus, sent, failed, rstatus, send, ops, step, answer,
                       uncounted, interrupted>>
        /\ NotInserted' = NotInserted
    BY <1>1 DEF vars, queueVars, broadcast, work, bhistory, NotInserted
  <2>2. QED
    BY <2>1, OthersKeepCount DEF CountInv, CountTyped
<1>2. ASSUME NEW s \in Sends, CheckSend(s) \/ InsertRecipients(s) \/ ScheduleDelivery(s)
      PROVE  CountInv'
  BY <1>2, RequestsKeepCount
<1>3. ASSUME NEW r \in Runs, WorkStep(r) PROVE CountInv'
  BY <1>3, WorkCounts, RunKeepsCount DEF CountInv
<1>4. ASSUME NEW r \in Runs, Die(r) \/ \E j \in Jobs : ClaimRow(r, j) \/ ExhaustRow(r, j)
      PROVE  CountInv'
  BY <1>4, RowCounts, RunKeepsCount DEF CountInv
<1>5. ASSUME \/ \E r \in Runs : FetchRows(r) \/ \E j \in Jobs : PassRow(r, j)
             \/ \E j \in Jobs : Time(j) \/ OpEnds(j)
      PROVE  CountInv'
  BY <1>5, BetweenRowsKeepCount
<1>6. QED
  BY <1>1, <1>2, <1>3, <1>4, <1>5 DEF Next

LEMMA CountInitially == Init => CountInv
<1> SUFFICES ASSUME Init PROVE CountInv
  OBVIOUS
<1>1. CountTyped /\ NotInserted /\ Counting
  BY BroadcastAssumption
  DEF Init, QueueInit, CountTyped, RunTyped, NotInserted, Counting, OpStates
<1>2. SentRows = {} /\ FailedRows = {}
  BY DEF Init, SentRows, FailedRows
<1>3. Cardinality({}) = 0
  BY FS_EmptySet
<1>4. CountersExact
  BY <1>2, <1>3, CountersAre DEF Init
<1>5. QED
  BY <1>1, <1>4 DEF CountInv

LEMMA CountHolds == Spec => []CountInv
  BY CountInitially, CountStep, CompletionHolds, BroadcastRowsTyped, PTL DEF Spec

\* The counters of a broadcast are those of its recipients, but for the recipients
\* that a run has in hand or could not count, however runs race, retry and die.
THEOREM CountersCorrect == Spec => []CountersExact
<1>1. CountInv => CountersExact
  BY DEF CountInv
<1>2. QED
  BY <1>1, CountHolds, PTL

\* Each variable keeps its type; no counter exceeds the recipients.
THEOREM BroadcastsTypeCorrect == Spec => []TypeOK
<1>1. QueueTypeOK /\ CompletionInv /\ CountInv => TypeOK
  <2> SUFFICES ASSUME QueueTypeOK, CompletionInv, CountInv PROVE TypeOK
    OBVIOUS
  <2>1. sent \in 0..Cardinality(Jobs) /\ failed \in 0..Cardinality(Jobs)
    <3>1. IsFiniteSet(Jobs)
      BY BroadcastAssumption, FS_Product
    <3>2. SentRows \in SUBSET Jobs /\ FailedRows \in SUBSET Jobs
      BY DEF SentRows, FailedRows
    <3>3. /\ IsFiniteSet(SentRows) /\ Cardinality(SentRows) <= Cardinality(Jobs)
          /\ IsFiniteSet(FailedRows) /\ Cardinality(FailedRows) <= Cardinality(Jobs)
      BY <3>1, <3>2, FS_Subset
    <3>4. Cardinality(Jobs) \in Nat /\ Cardinality(SentRows) \in Nat
            /\ Cardinality(FailedRows) \in Nat
      BY <3>1, <3>3, FS_CardinalityType
    <3>5. QED
      BY <3>3, <3>4, CountersAre DEF CountInv
  <2>2. \A r \in Runs :
          CASE pc[r] = "work"   -> step[r] \in WorkSteps \cup ClosingSteps
            [] pc[r] = "settle" -> step[r] \in {"fail"} \cup ClosingSteps
            [] OTHER            -> step[r] = "none"
    BY DEF CountInv, CountTyped, RunTyped
  <2>3. QED
    BY <2>1, <2>2 DEF TypeOK, CountInv, CountTyped, CompletionInv, WorkTyped
<1>2. QED
  BY <1>1, CountHolds, CompletionHolds, BroadcastRowsTyped, PTL
====
