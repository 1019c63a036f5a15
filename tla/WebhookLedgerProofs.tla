---- MODULE WebhookLedgerProofs ----
(***************************************************************************)
(* The ledger's rows are those of the queue, and a conversation never goes *)
(* back to an older message, for any number of events, runs and contacts.  *)
(***************************************************************************)
EXTENDS WebhookLedger, LegacyQueueProofs

\* A redelivery aside, the webhook works its rows as the drain does.
LEMMA LedgerQueueStep ==
  ASSUME [LedgerNext]_ledgerVars
  PROVE  [QueueNext]_queueVars \/ \E j \in Jobs : Requeue(j)
<1>1. CASE UNCHANGED ledgerVars
  BY <1>1 DEF ledgerVars
<1>2. ASSUME NEW j \in Jobs, Deliver(j) PROVE QueueNext \/ Requeue(j)
  <2>1. {j} \in SUBSET Jobs /\ TRUE \in BOOLEAN
    OBVIOUS
  <2>2. QED
    BY <1>2, <2>1 DEF Deliver, QueueNext
<1>3. ASSUME NEW j \in Jobs, Passing(j) PROVE QueueNext
  BY <1>3 DEF Passing, QueueNext
<1>4. ASSUME NEW r \in Runs, FetchEvents(r) \/ KillRun(r) PROVE QueueNext
  BY <1>4 DEF FetchEvents, KillRun, QueueNext
<1>5. ASSUME NEW r \in Runs, EndEvent(r) \/ FailEvent(r) PROVE QueueNext
  BY <1>5 DEF EndEvent, FailEvent, QueueNext
<1>6. ASSUME NEW r \in Runs,
             \/ LookUp(r) \/ NewContact(r) \/ MapSender(r) \/ ReadConversation(r) \/ ApplyMessage(r)
             \/ CreateConversation(r) \/ Automate(r) \/ SettleLedger(r)
      PROVE  UNCHANGED queueVars
  BY <1>6 DEF LookUp, NewContact, MapSender, ReadConversation, ApplyMessage, CreateConversation,
              Automate, SettleLedger, Mine
<1>7. ASSUME NEW r \in Runs, NEW j \in Jobs, SkipEvent(r, j) \/ TakeEvent(r, j) \/ ExhaustEvent(r, j)
      PROVE  QueueNext
  BY <1>7 DEF SkipEvent, TakeEvent, ExhaustEvent, QueueNext
<1>8. QED
  BY <1>1, <1>2, <1>3, <1>4, <1>5, <1>6, <1>7 DEF LedgerNext, EventStep

\* A row that is made as new keeps the queue's types.
LEMMA RequeueTyped ==
  ASSUME QueueTypeOK, NEW j \in Jobs, Requeue(j)
  PROVE  QueueTypeOK'
BY QueueAssumption DEF QueueTypeOK, Requeue, Statuses

\* A conversation shows an event, or nothing yet.
ShownTyped == shown \in [ContactIds -> Jobs \cup {NoJob}]

\* A run at work works on a row.
LEMMA WorksOnRow ==
  ASSUME QueueTypeOK, NEW r \in Runs, pc[r] = "work"
  PROVE  cur[r] \in Jobs
BY DEF QueueTypeOK

\* Only the two calls that write a conversation change what it shows.
LEMMA ShownMoves ==
  ASSUME [LedgerNext]_ledgerVars, shown' # shown
  PROVE  \E r \in Runs : ApplyMessage(r) \/ CreateConversation(r)
BY DEF LedgerNext, ledgerVars, projection, Untouched, Deliver, Passing, FetchEvents, EventStep, LookUp,
       NewContact, MapSender, ReadConversation, Automate, SettleLedger, EndEvent, FailEvent, KillRun,
       SkipEvent, TakeEvent, ExhaustEvent

\* What a step shows is not older than what was shown.
NotBack ==
  \A c \in ContactIds : shown[c] # NoJob =>
    shown'[c] # NoJob /\ OccurredAt[shown'[c]] >= OccurredAt[shown[c]]

\* apply_social_gateway_inbound_conversation replaces a message by one that is not older, and
\* a conversation is created where there is none.
LEMMA ShownStep ==
  ASSUME QueueTypeOK, ShownTyped, [LedgerNext]_ledgerVars
  PROVE  ShownTyped' /\ NotBack
<1>0. /\ NoJob \notin Jobs
      /\ \A j \in Jobs : OccurredAt[j] \in Nat
  BY QueueAssumption, LedgerAssumption
<1>1. CASE shown' = shown
  BY <1>0, <1>1 DEF ShownTyped, NotBack
<1>2. ASSUME NEW r \in Runs, ApplyMessage(r) PROVE ShownTyped' /\ NotBack
  <2> DEFINE c == contact[r]
             new == [shown EXCEPT ![c] = IF Newer(cur[r], shown[c]) THEN cur[r] ELSE shown[c]]
  <2>1. cur[r] \in Jobs
    BY <1>2, WorksOnRow DEF ApplyMessage, Mine, Stage
  <2>2. shown' = shown \/ shown' = new
    BY <1>2 DEF ApplyMessage, Attempt
  <2>3. CASE shown' = new
    <3>1. ShownTyped'
      BY <2>1, <2>3 DEF ShownTyped
    <3>2. ASSUME NEW d \in ContactIds, shown[d] # NoJob
          PROVE  shown'[d] # NoJob /\ OccurredAt[shown'[d]] >= OccurredAt[shown[d]]
      <4>1. shown[d] \in Jobs
        BY <3>2 DEF ShownTyped
      <4>2. CASE shown'[d] = shown[d]
        BY <1>0, <4>1, <4>2
      <4>3. CASE shown'[d] = cur[r] /\ Newer(cur[r], shown[d])
        BY <1>0, <2>1, <4>1, <4>3 DEF Newer
      <4>4. QED
        BY <2>3, <4>2, <4>3 DEF ShownTyped
    <3>3. QED
      BY <3>1, <3>2 DEF NotBack
  <2>4. QED
    BY <1>1, <2>2, <2>3
<1>3. ASSUME NEW r \in Runs, CreateConversation(r) PROVE ShownTyped' /\ NotBack
  <2>1. cur[r] \in Jobs
    BY <1>3, WorksOnRow DEF CreateConversation, Mine, Stage
  <2>2. shown' = shown
        \/ (shown[contact[r]] = NoJob /\ shown' = [shown EXCEPT ![contact[r]] = cur[r]])
    BY <1>3 DEF CreateConversation, Attempt, Taken
  <2>3. CASE shown[contact[r]] = NoJob /\ shown' = [shown EXCEPT ![contact[r]] = cur[r]]
    <3>1. ShownTyped'
      BY <2>1, <2>3 DEF ShownTyped
    <3>2. \A d \in ContactIds : shown[d] # NoJob => shown'[d] = shown[d] /\ shown[d] \in Jobs
      BY <2>3 DEF ShownTyped
    <3>3. QED
      BY <1>0, <3>1, <3>2 DEF NotBack
  <2>4. QED
    BY <1>1, <2>2, <2>3
<1>4. QED
  BY <1>1, <1>2, <1>3, ShownMoves

----
(* Types: the stage of a run's work, the contacts, and what is remembered. *)

\* What a run is at: the stage of its work, or nothing outside it.
StageFits ==
  /\ stage \in [Runs -> Stages \cup {"none", "fail"}]
  /\ \A r \in Runs :
       /\ pc[r] = "work" => stage[r] \in Stages
       /\ pc[r] = "settle" => stage[r] = "fail"
       /\ pc[r] \notin {"work", "settle"} => stage[r] = "none"

\* Contacts are numbered as they are created, and only created ones are at hand.
ContactsTyped ==
  /\ contacts \in 0..MaxContacts /\ sender \in 0..contacts
  /\ contact \in [Runs -> 0..contacts]

\* What is remembered of the events.
HistoryTyped ==
  /\ ledger \in [Jobs -> {"absent", "processing", "completed", "failed"}]
  /\ started \subseteq Jobs /\ again \subseteq started
  /\ troubled \subseteq Jobs /\ adrift \subseteq Jobs /\ faults \in 0..MaxFaults

LedgerInv == QueueTypeOK /\ ShownTyped /\ StageFits /\ ContactsTyped /\ HistoryTyped

\* A call of the work leaves the run at work, at one of its stages.
LEMMA CallStage ==
  ASSUME StageFits, NEW r \in Runs,
         \/ LookUp(r) \/ NewContact(r) \/ MapSender(r) \/ ReadConversation(r) \/ ApplyMessage(r)
         \/ CreateConversation(r) \/ Automate(r) \/ SettleLedger(r)
  PROVE  /\ UNCHANGED queueVars /\ pc[r] = "work"
         /\ \E s \in Stages : stage' = [stage EXCEPT ![r] = s]
<1>1. UNCHANGED queueVars /\ pc[r] = "work"
  BY DEF LookUp, NewContact, MapSender, ReadConversation, ApplyMessage, CreateConversation,
         Automate, SettleLedger, Mine, Stage
<1>2. {"contact", "map", "read", "apply", "create", "automate", "settle", "done", "raise"} \subseteq Stages
  BY DEF Stages
<1>3. \E s \in Stages : stage' = [stage EXCEPT ![r] = s]
  BY <1>2 DEF LookUp, NewContact, MapSender, ReadConversation, ApplyMessage, CreateConversation,
         Automate, SettleLedger, ToStage, Throw, Attempt
<1>4. QED
  BY <1>1, <1>3

\* Only its own steps move a run.
LEMMA StageStep ==
  ASSUME QueueTypeOK, StageFits, [LedgerNext]_ledgerVars
  PROVE  StageFits'
<1>0. pc \in [Runs -> {"idle", "loop", "work", "settle"}]
  BY DEF QueueTypeOK
<1>1. CASE UNCHANGED ledgerVars
  BY <1>1 DEF ledgerVars, queueVars, StageFits
<1>2. ASSUME NEW j \in Jobs, Deliver(j) \/ Passing(j) PROVE StageFits'
  <2>1. UNCHANGED <<pc, stage>>
    BY <1>2 DEF Deliver, Passing, Enqueue, Requeue, BecomesDue, ClaimAges
  <2>2. QED
    BY <2>1 DEF StageFits
<1>3. ASSUME NEW r \in Runs, FetchEvents(r) PROVE StageFits'
  <2>1. stage' = stage /\ pc[r] = "idle" /\ \E p \in {"idle", "loop"} : pc' = [pc EXCEPT ![r] = p]
    BY <1>3 DEF FetchEvents, Fetch
  <2>2. QED
    BY <1>0, <2>1 DEF StageFits
<1>4. ASSUME NEW r \in Runs,
             \/ LookUp(r) \/ NewContact(r) \/ MapSender(r) \/ ReadConversation(r) \/ ApplyMessage(r)
             \/ CreateConversation(r) \/ Automate(r) \/ SettleLedger(r)
      PROVE  StageFits'
  <2>1. pc' = pc /\ pc[r] = "work" /\ \E s \in Stages : stage' = [stage EXCEPT ![r] = s]
    BY <1>4, CallStage DEF queueVars
  <2>2. QED
    BY <2>1 DEF StageFits
<1>5. ASSUME NEW r \in Runs, NextRow(r), \E p \in {"idle", "loop", "settle"} : pc' = [pc EXCEPT ![r] = p]
      PROVE  StageFits'
  BY <1>0, <1>5 DEF StageFits, NextRow
<1>6. ASSUME NEW r \in Runs, EndEvent(r) \/ FailEvent(r) \/ KillRun(r) PROVE StageFits'
  <2>1. NextRow(r) /\ \E p \in {"idle", "loop", "settle"} : pc' = [pc EXCEPT ![r] = p]
    BY <1>6 DEF EndEvent, FailEvent, KillRun, Complete, Retry, GiveUp, Settled, Crash, Advance, Start
  <2>2. QED
    BY <1>5, <2>1
<1>7. ASSUME NEW r \in Runs, NEW j \in Jobs, ExhaustEvent(r, j) PROVE StageFits'
  <2>1. NextRow(r) /\ \E p \in {"idle", "loop", "settle"} : pc' = [pc EXCEPT ![r] = p]
    BY <1>7 DEF ExhaustEvent, Exhaust, Start
  <2>2. QED
    BY <1>5, <2>1
<1>8. ASSUME NEW r \in Runs, NEW j \in Jobs, SkipEvent(r, j) PROVE StageFits'
  <2>1. stage' = stage /\ pc[r] = "loop" /\ \E p \in {"idle", "loop"} : pc' = [pc EXCEPT ![r] = p]
    BY <1>8 DEF SkipEvent, PassOver, Claimable, AtRow, Advance
  <2>2. QED
    BY <1>0, <2>1 DEF StageFits
<1>9. ASSUME NEW r \in Runs, NEW j \in Jobs, TakeEvent(r, j) PROVE StageFits'
  <2>1. stage' = [stage EXCEPT ![r] = "lookup"] /\ pc' = [pc EXCEPT ![r] = "work"]
    BY <1>9 DEF TakeEvent, Claim, Start, ToStage
  <2>2. QED
    BY <1>0, <2>1 DEF StageFits, Stages
<1>10. QED
  BY <1>1, <1>2, <1>3, <1>4, <1>6, <1>7, <1>8, <1>9 DEF LedgerNext, EventStep

\* Contacts are only added, and a run works with one that is there.
LEMMA ContactsStep ==
  ASSUME ContactsTyped, [LedgerNext]_ledgerVars
  PROVE  ContactsTyped'
<1>0. MaxContacts \in Nat
  BY LedgerAssumption
<1>1. CASE UNCHANGED <<contacts, sender, contact>>
  BY <1>1 DEF ContactsTyped
<1>2. ASSUME NEW r \in Runs, UNCHANGED <<contacts, sender>>,
             contact' = [contact EXCEPT ![r] = 0] \/ contact' = [contact EXCEPT ![r] = sender]
      PROVE  ContactsTyped'
  BY <1>0, <1>2 DEF ContactsTyped
<1>3. ASSUME NEW r \in Runs, NewContact(r) PROVE ContactsTyped'
  BY <1>0, <1>1, <1>3 DEF ContactsTyped, NewContact
<1>4. ASSUME NEW r \in Runs, MapSender(r) PROVE ContactsTyped'
  BY <1>0, <1>4 DEF ContactsTyped, MapSender
<1>5. ASSUME NEW r \in Runs, LookUp(r) PROVE ContactsTyped'
  BY <1>1, <1>2, <1>5 DEF LookUp, projection
<1>6. ASSUME NEW r \in Runs, EndEvent(r) \/ FailEvent(r) \/ KillRun(r) PROVE ContactsTyped'
  BY <1>2, <1>6 DEF EndEvent, FailEvent, KillRun, NextRow, Untouched, projection
<1>7. ASSUME NEW r \in Runs, NEW j \in Jobs, ExhaustEvent(r, j) PROVE ContactsTyped'
  BY <1>2, <1>7 DEF ExhaustEvent, NextRow, Untouched, projection
<1>8. QED
  BY <1>1, <1>3, <1>4, <1>5, <1>6, <1>7 DEF LedgerNext, EventStep, ledgerVars, projection, Untouched,
     Deliver, Passing, FetchEvents, ReadConversation, ApplyMessage, CreateConversation, Automate,
     SettleLedger, SkipEvent, TakeEvent

\* An event that is worked on is one of the events.
LEMMA HistoryStep ==
  ASSUME QueueTypeOK, HistoryTyped, [LedgerNext]_ledgerVars
  PROVE  HistoryTyped'
<1>0. MaxFaults \in Nat
  BY LedgerAssumption
<1>1. ASSUME NEW j \in Jobs, Fault(j) PROVE troubled' \subseteq Jobs /\ faults' \in 0..MaxFaults
  BY <1>0, <1>1 DEF HistoryTyped, Fault
<1>2. ASSUME NEW r \in Runs, pc[r] \in {"work", "settle"} PROVE cur[r] \in Jobs
  BY <1>2 DEF QueueTypeOK
<1>3. ASSUME NEW j \in Jobs, UNCHANGED trouble \/ (Fault(j) /\ adrift' \in {adrift, adrift \cup {j}})
      PROVE  troubled' \subseteq Jobs /\ adrift' \subseteq Jobs /\ faults' \in 0..MaxFaults
  BY <1>1, <1>3 DEF HistoryTyped, trouble
<1>4. ASSUME NEW j \in Jobs, UNCHANGED <<ledger, flowsOf>>,
             UNCHANGED trouble \/ (Fault(j) /\ adrift' \in {adrift, adrift \cup {j}})
      PROVE  HistoryTyped'
  BY <1>3, <1>4 DEF HistoryTyped, flowsOf
<1>5. CASE UNCHANGED <<ledger, flowsOf, trouble>>
  BY <1>5 DEF HistoryTyped, flowsOf, trouble
<1>6. ASSUME NEW j \in Jobs, Deliver(j) PROVE HistoryTyped'
  BY <1>0, <1>6 DEF HistoryTyped, Deliver, flowsOf
<1>7. ASSUME NEW j \in Jobs, Passing(j) PROVE HistoryTyped'
  BY <1>4, <1>7 DEF Passing, Untouched
<1>8. ASSUME NEW r \in Runs,
             \/ LookUp(r) \/ NewContact(r) \/ MapSender(r) \/ ReadConversation(r) \/ ApplyMessage(r)
             \/ CreateConversation(r)
      PROVE  HistoryTyped'
  <2>1. cur[r] \in Jobs
    BY <1>2, <1>8 DEF LookUp, NewContact, MapSender, ReadConversation, ApplyMessage, CreateConversation,
                      Mine, Stage
  <2>2. /\ UNCHANGED <<ledger, flowsOf>>
        /\ UNCHANGED trouble \/ (Fault(cur[r]) /\ UNCHANGED adrift)
    BY <1>8 DEF LookUp, NewContact, MapSender, ReadConversation, ApplyMessage, CreateConversation,
                Mine, Throw, Attempt
  <2>3. QED
    BY <1>4, <2>1, <2>2
<1>9. ASSUME NEW r \in Runs, Automate(r) PROVE HistoryTyped'
  <2>1. cur[r] \in Jobs /\ ledger' = ledger
    BY <1>2, <1>9 DEF Automate, Mine, Stage
  <2>2. UNCHANGED trouble \/ (Fault(cur[r]) /\ UNCHANGED adrift)
    BY <1>9 DEF Automate, Throw
  <2>3. started' \subseteq Jobs /\ again' \subseteq started'
    BY <1>9, <2>1 DEF Automate, HistoryTyped, flowsOf
  <2>4. QED
    BY <1>3, <2>1, <2>2, <2>3 DEF HistoryTyped
<1>10. ASSUME NEW j \in Jobs, NEW s \in {"completed", "failed"}, UNCHANGED flowsOf,
              (SettleEvent(j, s) /\ UNCHANGED trouble) \/ Forget(j)
       PROVE  HistoryTyped'
  <2>1. UNCHANGED trouble \/ (Fault(j) /\ adrift' \in {adrift, adrift \cup {j}})
    BY <1>10 DEF Forget
  <2>2. ledger' \in [Jobs -> {"absent", "processing", "completed", "failed"}]
    BY <1>10 DEF SettleEvent, Forget, HistoryTyped
  <2>3. QED
    BY <1>3, <1>10, <2>1, <2>2 DEF HistoryTyped, flowsOf
<1>11. ASSUME NEW r \in Runs, SettleLedger(r) \/ FailEvent(r) PROVE HistoryTyped'
  <2>1. cur[r] \in Jobs
    BY <1>2, <1>11 DEF SettleLedger, FailEvent, Stage, Settled
  <2>2. QED
    BY <1>10, <1>11, <2>1 DEF SettleLedger, FailEvent
<1>12. ASSUME NEW r \in Runs, EndEvent(r) PROVE HistoryTyped'
  <2>1. cur[r] \in Jobs
    BY <1>2, <1>12 DEF EndEvent, Stage
  <2>2. QED
    BY <1>4, <1>12, <2>1 DEF EndEvent, Untouched
<1>13. ASSUME NEW r \in Runs, KillRun(r) PROVE HistoryTyped'
  <2>1. cur[r] = NoJob \/ cur[r] \in Jobs
    BY DEF QueueTypeOK
  <2>2. QED
    BY <1>4, <1>5, <1>13, <2>1 DEF KillRun, Untouched
<1>14. ASSUME NEW r \in Runs, NEW j \in Jobs, SkipEvent(r, j) \/ ExhaustEvent(r, j) \/ TakeEvent(r, j)
       PROVE  HistoryTyped'
  BY <1>4, <1>14 DEF SkipEvent, ExhaustEvent, TakeEvent, Untouched
<1>15. QED
  BY <1>5, <1>6, <1>7, <1>8, <1>9, <1>11, <1>12, <1>13, <1>14
     DEF LedgerNext, EventStep, ledgerVars, FetchEvents, Untouched

\* The parts hold at first, and stay.
LEMMA LedgerInvariant == LedgerSpec => []LedgerInv
<1>1. LedgerInit => LedgerInv
  <2> SUFFICES ASSUME LedgerInit PROVE LedgerInv
    OBVIOUS
  <2>1. QueueTypeOK
    BY QueueAssumption, EmptyBatch DEF LedgerInit, QueueInit, QueueTypeOK, Statuses
  <2>2. StageFits
    BY DEF LedgerInit, QueueInit, StageFits
  <2>3. QED
    BY <2>1, <2>2, LedgerAssumption DEF LedgerInit, LedgerInv, ShownTyped, ContactsTyped, HistoryTyped
<1>2. LedgerInv /\ [LedgerNext]_ledgerVars => LedgerInv'
  BY LedgerQueueStep, RequeueTyped, TypeStep, ShownStep, StageStep, ContactsStep, HistoryStep DEF LedgerInv
<1>3. QED
  BY <1>1, <1>2, PTL DEF LedgerSpec

\* Its parts are the ledger's types.
LEMMA LedgerTypes == LedgerInv => LedgerTypeOK
<1> SUFFICES ASSUME LedgerInv PROVE LedgerTypeOK
  OBVIOUS
<1>1. \A r \in Runs :
        CASE pc[r] = "work"   -> stage[r] \in Stages
          [] pc[r] = "settle" -> stage[r] = "fail"
          [] OTHER            -> stage[r] = "none"
  BY DEF LedgerInv, StageFits
<1>2. contact \in [Runs -> 0..MaxContacts]
  BY LedgerAssumption DEF LedgerInv, ContactsTyped
<1>3. QED
  BY <1>1, <1>2 DEF LedgerInv, LedgerTypeOK, ShownTyped, ContactsTyped, HistoryTyped

\* Every event has its row, its place in the ledger and, while it is worked on, its stage.
THEOREM LedgerTypeCorrect == LedgerSpec => []LedgerTypeOK
  BY LedgerInvariant, LedgerTypes, PTL

\* The rows behind the webhook's events stay those of the drain, although a redelivery makes
\* a row as new under whoever works on it.
THEOREM LedgerRowsTyped == LedgerSpec => []QueueTypeOK
  BY LedgerInvariant, PTL DEF LedgerInv

\* apply_social_gateway_inbound_conversation compares occurred_at, so a conversation does not
\* go back to an older message, in whatever order runs work, retry and are redelivered events.
THEOREM ConversationMovesOn == LedgerSpec => NeverBackwards
<1>1. QueueTypeOK /\ ShownTyped /\ [LedgerNext]_ledgerVars => [NotBack]_ledgerVars
  BY ShownStep
<1>2. QED
  BY <1>1, LedgerInvariant, PTL DEF LedgerInv, LedgerSpec, NeverBackwards, NotBack
----
(* What "already queued" promises. *)

\* A run that is done with an event has settled the ledger, or the event is adrift.
DoneSettled ==
  \A r \in Runs : Stage(r, "done") => ledger[cur[r]] # "processing" \/ cur[r] \in adrift

QueuedInv == DoneSettled /\ QueuedMeansQueued

\* The steps by which the row of an event may leave the queue.
LEMMA RowEnds ==
  ASSUME LedgerInv, [LedgerNext]_ledgerVars, NEW j \in Jobs,
         status[j] \in {"pending", "processing"}, status'[j] \notin {"pending", "processing"}
  PROVE  \/ \E r \in Runs : EndEvent(r) /\ cur[r] = j /\ (Stage(r, "done") \/ GiveUp(r))
         \/ \E r \in Runs : ExhaustEvent(r, j)
<1>0. status \in [Jobs -> Statuses]
  BY DEF LedgerInv, QueueTypeOK
<1>1. CASE UNCHANGED status
  BY <1>1
<1>2. ASSUME NEW i \in Jobs, Deliver(i) PROVE status'[j] \in {"pending", status[j]}
  BY <1>0, <1>2 DEF Deliver, Enqueue, Requeue
<1>3. ASSUME NEW r \in Runs, EndEvent(r), status'[j] # status[j]
      PROVE  cur[r] = j /\ (Stage(r, "done") \/ GiveUp(r) \/ status'[j] = "pending")
  BY <1>0, <1>3 DEF EndEvent, Complete, Retry, GiveUp, WriteStatus
<1>4. ASSUME NEW r \in Runs, NEW i \in Jobs, SkipEvent(r, i) \/ TakeEvent(r, i)
      PROVE  status'[j] \in {"processing", status[j]}
  BY <1>0, <1>4 DEF SkipEvent, TakeEvent, PassOver, Claim, Swap
<1>5. ASSUME NEW r \in Runs, NEW i \in Jobs, ExhaustEvent(r, i), i # j
      PROVE  status'[j] = status[j]
  BY <1>0, <1>5 DEF ExhaustEvent, Exhaust, WriteStatus
<1>6. QED
  BY <1>1, <1>2, <1>3, <1>4, <1>5 DEF LedgerNext, EventStep, ledgerVars, queueVars, rows, Passing, BecomesDue,
     ClaimAges, FetchEvents, Fetch, LookUp, NewContact, MapSender, ReadConversation, ApplyMessage,
     CreateConversation, Automate, SettleLedger, Mine, FailEvent, Settled, KillRun, Crash

\* Only its own end takes a run off a row whose failure it settles.
LEMMA SettlingStays ==
  ASSUME LedgerInv, [LedgerNext]_ledgerVars, NEW r \in Runs, stage[r] = "fail"
  PROVE  (stage'[r] = "fail" /\ cur'[r] = cur[r]) \/ FailEvent(r) \/ KillRun(r)
<1>0. /\ pc[r] = "settle"
      /\ stage \in [Runs -> Stages \cup {"none", "fail"}] /\ cur \in [Runs -> Jobs \cup {NoJob}]
  BY DEF LedgerInv, StageFits, QueueTypeOK, Stages
<1>1. CASE UNCHANGED <<stage, cur>>
  BY <1>1
<1>2. ASSUME NEW t \in Runs, t # r,
             \E s : stage' = [stage EXCEPT ![t] = s],
             cur' = cur \/ \E k : cur' = [cur EXCEPT ![t] = k]
      PROVE  stage'[r] = "fail" /\ cur'[r] = cur[r]
  BY <1>0, <1>2
<1>3. ASSUME NEW t \in Runs,
             \/ LookUp(t) \/ NewContact(t) \/ MapSender(t) \/ ReadConversation(t) \/ ApplyMessage(t)
             \/ CreateConversation(t) \/ Automate(t) \/ SettleLedger(t)
      PROVE  stage'[r] = "fail" /\ cur'[r] = cur[r]
  <2>1. UNCHANGED cur /\ pc[t] = "work" /\ \E s \in Stages : stage' = [stage EXCEPT ![t] = s]
    BY <1>3, CallStage DEF LedgerInv, queueVars
  <2>2. QED
    BY <1>0, <1>2, <2>1
<1>4. ASSUME NEW t \in Runs, EndEvent(t) PROVE stage'[r] = "fail" /\ cur'[r] = cur[r]
  <2>1. t # r
    BY <1>0, <1>4 DEF EndEvent, Stage
  <2>2. QED
    BY <1>2, <1>4, <2>1 DEF EndEvent, NextRow, Complete, Retry, GiveUp, Advance, Start
<1>5. ASSUME NEW t \in Runs, t # r, FailEvent(t) \/ KillRun(t) PROVE stage'[r] = "fail" /\ cur'[r] = cur[r]
  BY <1>2, <1>5 DEF FailEvent, KillRun, NextRow, Settled, Crash, Advance
<1>6. ASSUME NEW t \in Runs, NEW j \in Jobs, SkipEvent(t, j) PROVE stage'[r] = "fail" /\ cur'[r] = cur[r]
  <2>1. t # r /\ stage' = stage /\ cur' = [cur EXCEPT ![t] = NoJob]
    BY <1>0, <1>6 DEF SkipEvent, PassOver, Claimable, AtRow, Advance
  <2>2. QED
    BY <1>0, <2>1
<1>7. ASSUME NEW t \in Runs, NEW j \in Jobs, TakeEvent(t, j) PROVE stage'[r] = "fail" /\ cur'[r] = cur[r]
  <2>1. t # r
    BY <1>0, <1>7 DEF TakeEvent, Claim, Claimable, AtRow
  <2>2. QED
    BY <1>2, <1>7, <2>1 DEF TakeEvent, Claim, Start, ToStage
<1>8. ASSUME NEW t \in Runs, NEW j \in Jobs, ExhaustEvent(t, j) PROVE stage'[r] = "fail" /\ cur'[r] = cur[r]
  <2>1. t # r
    BY <1>0, <1>8 DEF ExhaustEvent, Exhaust, AtRow
  <2>2. QED
    BY <1>2, <1>8, <2>1 DEF ExhaustEvent, Exhaust, NextRow, Start
<1>9. QED
  BY <1>1, <1>3, <1>4, <1>5, <1>6, <1>7, <1>8 DEF LedgerNext, EventStep, ledgerVars, queueVars, Deliver, Enqueue,
     Requeue, Passing, BecomesDue, ClaimAges, FetchEvents, Fetch

\* An event is adrift for good.
LEMMA AdriftStays ==
  ASSUME [LedgerNext]_ledgerVars
  PROVE  adrift \subseteq adrift' /\ troubled \subseteq troubled'
BY DEF LedgerNext, ledgerVars, EventStep, trouble, Fault, Throw, Forget, Deliver, Passing, FetchEvents, LookUp,
       NewContact, MapSender, ReadConversation, ApplyMessage, CreateConversation, Attempt, Automate,
       SettleLedger, SkipEvent, TakeEvent, ExhaustEvent, EndEvent, FailEvent, KillRun

\* Only a delivery puts an event into processing.
LEMMA OnlyDelivered ==
  ASSUME LedgerInv, [LedgerNext]_ledgerVars, NEW j \in Jobs, ledger'[j] = "processing", ledger[j] # "processing"
  PROVE  Deliver(j)
<1>0. ledger \in [Jobs -> {"absent", "processing", "completed", "failed"}]
  BY DEF LedgerInv, HistoryTyped
<1>1. CASE UNCHANGED ledger
  BY <1>1
<1>2. ASSUME NEW i \in Jobs, Deliver(i) PROVE i = j
  BY <1>0, <1>2 DEF Deliver
<1>3. ASSUME NEW r \in Runs, SettleLedger(r) \/ FailEvent(r) PROVE FALSE
  BY <1>0, <1>3 DEF SettleLedger, FailEvent, SettleEvent, Forget
<1>4. QED
  BY <1>1, <1>2, <1>3 DEF LedgerNext, ledgerVars, EventStep, Untouched, Passing, FetchEvents, LookUp,
     NewContact, MapSender, ReadConversation, ApplyMessage, CreateConversation, Automate, Mine,
     SkipEvent, TakeEvent, ExhaustEvent, EndEvent, KillRun

\* A run that is done with an event was so before, unless it has just settled the ledger.
LEMMA JustDone ==
  ASSUME LedgerInv, [LedgerNext]_ledgerVars, NEW r \in Runs, Stage(r, "done")'
  PROVE  (Stage(r, "done") /\ cur'[r] = cur[r]) \/ (SettleLedger(r) /\ cur' = cur)
<1>0. /\ stage \in [Runs -> Stages \cup {"none", "fail"}] /\ cur \in [Runs -> Jobs \cup {NoJob}]
      /\ pc \in [Runs -> {"idle", "loop", "work", "settle"}]
      /\ stage'[r] = "done"
  BY DEF LedgerInv, StageFits, QueueTypeOK, Stages, Stage
<1>1. CASE UNCHANGED <<stage, cur>>
  BY <1>0, <1>1 DEF LedgerInv, StageFits, Stage
<1>2. ASSUME NEW t \in Runs, NEW s, stage' = [stage EXCEPT ![t] = s], s # "done",
             cur' = cur \/ \E k : cur' = [cur EXCEPT ![t] = k]
      PROVE  Stage(r, "done") /\ cur'[r] = cur[r]
  BY <1>0, <1>2 DEF LedgerInv, StageFits, Stage
<1>3. ASSUME NEW t \in Runs,
             \/ LookUp(t) \/ NewContact(t) \/ MapSender(t) \/ ReadConversation(t) \/ ApplyMessage(t)
             \/ CreateConversation(t) \/ Automate(t)
      PROVE  Stage(r, "done") /\ cur'[r] = cur[r]
  <2>1. cur' = cur
    BY <1>3 DEF LookUp, NewContact, MapSender, ReadConversation, ApplyMessage, CreateConversation,
                Automate, Mine, queueVars
  <2>2. \E s : s # "done" /\ stage' = [stage EXCEPT ![t] = s]
    BY <1>3 DEF LookUp, NewContact, MapSender, ReadConversation, ApplyMessage, CreateConversation,
                Automate, ToStage, Throw, Attempt
  <2>3. QED
    BY <1>2, <2>1, <2>2
<1>4. ASSUME NEW t \in Runs, SettleLedger(t), t # r PROVE Stage(r, "done") /\ cur'[r] = cur[r]
  BY <1>0, <1>4 DEF LedgerInv, StageFits, Stage, SettleLedger, ToStage, queueVars
<1>5. ASSUME NEW t \in Runs, EndEvent(t) \/ FailEvent(t) \/ KillRun(t)
      PROVE  Stage(r, "done") /\ cur'[r] = cur[r]
  <2>1. /\ \E s \in {"fail", "none"} : stage' = [stage EXCEPT ![t] = s]
        /\ \E k : cur' = [cur EXCEPT ![t] = k]
    BY <1>5 DEF EndEvent, FailEvent, KillRun, NextRow, Complete, Retry, GiveUp, Settled, Crash, Advance, Start
  <2>2. QED
    BY <1>2, <2>1
<1>6. ASSUME NEW t \in Runs, NEW j \in Jobs, SkipEvent(t, j) PROVE Stage(r, "done") /\ cur'[r] = cur[r]
  <2>1. pc[t] = "loop" /\ stage' = stage /\ cur' = [cur EXCEPT ![t] = NoJob]
    BY <1>6 DEF SkipEvent, PassOver, Claimable, AtRow, Advance
  <2>2. stage[t] = "none"
    BY <2>1 DEF LedgerInv, StageFits
  <2>3. QED
    BY <1>0, <2>1, <2>2 DEF LedgerInv, StageFits, Stage
<1>7. ASSUME NEW t \in Runs, NEW j \in Jobs, TakeEvent(t, j) \/ ExhaustEvent(t, j)
      PROVE  Stage(r, "done") /\ cur'[r] = cur[r]
  <2>1. /\ \E s \in {"fail", "none", "lookup"} : stage' = [stage EXCEPT ![t] = s]
        /\ \E k : cur' = [cur EXCEPT ![t] = k]
    BY <1>7 DEF TakeEvent, Claim, ExhaustEvent, Exhaust, Start, ToStage, NextRow
  <2>2. QED
    BY <1>2, <2>1
<1>8. QED
  BY <1>0, <1>1, <1>3, <1>4, <1>5, <1>6, <1>7 DEF LedgerNext, EventStep, ledgerVars, queueVars, Deliver,
     Enqueue, Requeue, Passing, BecomesDue, ClaimAges, FetchEvents, Fetch, SettleLedger

\* The ledger is settled before the row is, and an event that is delivered again under a run
\* is adrift.
LEMMA DoneStep ==
  ASSUME LedgerInv, DoneSettled, [LedgerNext]_ledgerVars
  PROVE  DoneSettled'
<1> SUFFICES ASSUME NEW r \in Runs, Stage(r, "done")', ledger'[cur'[r]] = "processing"
             PROVE  cur'[r] \in adrift'
  BY DEF DoneSettled
<1> DEFINE j == cur'[r]
<1>0. ledger \in [Jobs -> {"absent", "processing", "completed", "failed"}]
  BY DEF LedgerInv, HistoryTyped
<1>1. CASE Stage(r, "done") /\ cur'[r] = cur[r]
  <2>1. j \in Jobs
    BY <1>1, WorksOnRow DEF Stage, LedgerInv
  <2>2. CASE ledger[j] = "processing"
    BY <1>1, <2>2, AdriftStays DEF DoneSettled
  <2>3. CASE Deliver(j)
    BY <1>1, <2>3 DEF Deliver
  <2>4. QED
    BY <2>1, <2>2, <2>3, OnlyDelivered
<1>2. CASE SettleLedger(r) /\ cur' = cur
  <2>1. j \in Jobs
    BY <1>2, WorksOnRow DEF SettleLedger, Stage, LedgerInv
  <2>2. QED
    BY <1>0, <1>2, <2>1 DEF SettleLedger, SettleEvent, Forget
<1>3. QED
  BY <1>1, <1>2, JustDone

\* A row leaves the queue for a run that is to settle the failure, or with the ledger settled.
LEMMA QueuedStep ==
  ASSUME LedgerInv, QueuedInv, [LedgerNext]_ledgerVars
  PROVE  QueuedInv'
<1>1. DoneSettled'
  BY DoneStep DEF QueuedInv
<1>2. SUFFICES ASSUME NEW j \in Jobs, ledger'[j] = "processing", j \notin adrift',
                      status'[j] \notin {"pending", "processing"}
               PROVE  \E r \in Runs : stage'[r] = "fail" /\ cur'[r] = j
  BY <1>1 DEF QueuedInv, QueuedMeansQueued
<1>0. /\ stage \in [Runs -> Stages \cup {"none", "fail"}] /\ cur \in [Runs -> Jobs \cup {NoJob}]
      /\ status \in [Jobs -> Statuses] /\ pc \in [Runs -> {"idle", "loop", "work", "settle"}]
      /\ ledger \in [Jobs -> {"absent", "processing", "completed", "failed"}]
  BY DEF LedgerInv, StageFits, QueueTypeOK, HistoryTyped
<1>3. ~Deliver(j)
  BY <1>0, <1>2 DEF Deliver, Enqueue, Requeue
<1>4. ledger[j] = "processing" /\ j \notin adrift
  BY <1>2, <1>3, OnlyDelivered, AdriftStays
<1>5. CASE status[j] \in {"pending", "processing"}
  <2>1. ASSUME NEW r \in Runs, EndEvent(r), cur[r] = j, Stage(r, "done") PROVE FALSE
    BY <1>4, <2>1 DEF QueuedInv, DoneSettled
  <2>2. ASSUME NEW r \in Runs, EndEvent(r), cur[r] = j, GiveUp(r)
        PROVE  stage'[r] = "fail" /\ cur'[r] = j
    BY <1>0, <2>2 DEF EndEvent, GiveUp, Start, NextRow
  <2>3. ASSUME NEW r \in Runs, ExhaustEvent(r, j) PROVE stage'[r] = "fail" /\ cur'[r] = j
    BY <1>0, <2>3 DEF ExhaustEvent, Exhaust, Start, NextRow
  <2>4. QED
    BY <1>2, <1>5, <2>1, <2>2, <2>3, RowEnds
<1>6. CASE \E r \in Runs : stage[r] = "fail" /\ cur[r] = j
  <2>1. PICK r \in Runs : stage[r] = "fail" /\ cur[r] = j
    BY <1>6
  <2>2. pc[r] = "settle"
    BY <1>0, <2>1 DEF LedgerInv, StageFits, Stages
  <2>3. ASSUME FailEvent(r) PROVE FALSE
    BY <1>0, <1>2, <1>4, <2>1, <2>3 DEF FailEvent, SettleEvent, Forget
  <2>4. ASSUME KillRun(r) PROVE FALSE
    BY <1>2, <2>1, <2>2, <2>4, QueueAssumption DEF KillRun
  <2>5. QED
    BY <2>1, <2>3, <2>4, SettlingStays
<1>7. QED
  BY <1>4, <1>5, <1>6 DEF QueuedInv, QueuedMeansQueued

\* "already queued" is never said of an event that nobody will work, unless the ledger missed
\* how its work ended: for any number of events, deliveries, runs and faults.
THEOREM QueuedIsQueued == LedgerSpec => []QueuedMeansQueued
<1>1. LedgerInit => QueuedInv
  BY DEF LedgerInit, QueueInit, QueuedInv, DoneSettled, QueuedMeansQueued, Stage
<1>2. QueuedInv => QueuedMeansQueued
  BY DEF QueuedInv
<1>3. QED
  BY <1>1, <1>2, LedgerInvariant, QueuedStep, PTL DEF LedgerSpec

----
(* A flow that is started once. *)

\* What the row of an event is like as long as nothing has gone wrong with its work.
RowCalm(j) ==
  /\ ~aged[j]
  /\ status[j] = "absent" => attempts[j] = 0
  /\ status[j] = "pending" => attempts[j] < MaxAttempts
  /\ status[j] = "processing" => claimedAt[j] = "fresh" /\ \E r \in Runs : Worker(r, j)
  /\ ledger[j] = "failed" => status[j] = "failed"

\* What a run knows of it.
RunCalm(r, j) ==
  /\ j \in DOMAIN snapshot[r] => snapshot[r][j].status = "pending"
  /\ cur[r] = j =>
       /\ status[j] = IF pc[r] = "work" THEN "processing" ELSE "failed"
       /\ ledger[j] # "failed"
  /\ Worker(r, j) => attempts[j] = snapshot[r][j].attempts + 1

Alone(j) == \A r, s \in Runs : cur[r] = j /\ cur[s] = j => r = s

\* Its flow is started by the last call of the work that can go wrong unnoticed.
StartedCalm(j) ==
  j \in started =>
    \/ status[j] = "completed"
    \/ \E r \in Runs : Worker(r, j) /\ stage[r] \in {"settle", "done"}

Calm(j) == RowCalm(j) /\ (\A r \in Runs : RunCalm(r, j)) /\ Alone(j) /\ StartedCalm(j)

CalmInv == \A j \in Jobs \ troubled : Calm(j)

\* A step leaves the row of an event alone, and what a run has to do with it.
RowKept(j) ==
  /\ status'[j] = status[j] /\ attempts'[j] = attempts[j] /\ claimedAt'[j] = claimedAt[j]
  /\ aged'[j] = aged[j] /\ ledger'[j] = ledger[j]
  /\ j \in started' => j \in started

RunKept(r, j) ==
  /\ cur'[r] = j <=> cur[r] = j
  /\ cur[r] = j => /\ pc'[r] = pc[r] /\ snapshot'[r][j] = snapshot[r][j]
                   /\ stage[r] \in {"settle", "done"} => stage'[r] \in {"settle", "done"}
  /\ j \in DOMAIN snapshot'[r] => snapshot'[r][j].status = "pending"

LEMMA KeptCalm ==
  ASSUME NEW j \in Jobs, Calm(j), RowKept(j), \A r \in Runs : RunKept(r, j)
  PROVE  Calm(j)'
<1>1. RowCalm(j)'
  BY DEF Calm, RowCalm, RowKept, RunKept, Worker
<1>2. ASSUME NEW r \in Runs PROVE RunCalm(r, j)'
  BY <1>2 DEF Calm, RunCalm, RowKept, RunKept, Worker
<1>3. Alone(j)'
  BY DEF Calm, Alone, RunKept
<1>4. StartedCalm(j)'
  BY DEF Calm, StartedCalm, RowKept, RunKept, Worker
<1>5. QED
  BY <1>1, <1>2, <1>3, <1>4 DEF Calm

\* The runs that a step does not move.
SameRun(t) == cur'[t] = cur[t] /\ pc'[t] = pc[t] /\ snapshot'[t] = snapshot[t] /\ stage'[t] = stage[t]

LEMMA SameKept ==
  ASSUME NEW j \in Jobs, Calm(j), NEW t \in Runs, SameRun(t)
  PROVE  RunKept(t, j)
BY DEF Calm, RunCalm, SameRun, RunKept

LEMMA MovedCalm ==
  ASSUME NEW j \in Jobs, Calm(j), RowKept(j), NEW r \in Runs, RunKept(r, j),
         \A t \in Runs \ {r} : SameRun(t)
  PROVE  Calm(j)'
BY SameKept, KeptCalm

\* Nobody works on the row, and its flow was not started.
Fresh(j) == (\A r \in Runs : cur[r] # j) /\ j \notin started

LEMMA FreshRow ==
  ASSUME NEW j \in Jobs, Calm(j), status[j] \in {"absent", "pending"} \/ ledger[j] = "failed"
  PROVE  Fresh(j)
<1>1. \A r \in Runs : cur[r] # j
  BY DEF Calm, RunCalm
<1>2. status[j] # "completed"
  BY DEF Calm, RowCalm
<1>3. QED
  BY <1>1, <1>2 DEF Calm, StartedCalm, Worker, Fresh

LEMMA DeliverCalm ==
  ASSUME LedgerInv, NEW j \in Jobs, Calm(j), NEW i \in Jobs, Deliver(i)
  PROVE  Calm(j)'
<1>0. /\ status \in [Jobs -> Statuses] /\ attempts \in [Jobs -> 0..MaxAttempts]
      /\ claimedAt \in [Jobs -> {"null", "fresh", "stale"}]
      /\ ledger \in [Jobs -> {"absent", "processing", "completed", "failed"}]
  BY DEF LedgerInv, QueueTypeOK, HistoryTyped
<1>1. /\ \A t \in Runs : SameRun(t) /\ RunKept(t, j)
      /\ aged' = aged /\ started' = started
  BY SameKept DEF Deliver, Enqueue, Requeue, SameRun, flowsOf
<1>2. CASE i # j
  BY <1>0, <1>1, <1>2, KeptCalm DEF RowKept, Deliver, Enqueue, Requeue
<1>3. CASE i = j
  <2>1. Fresh(j)
    BY <1>3, FreshRow DEF Deliver, Enqueue, Restarts
  <2>2. status'[j] = "pending" /\ attempts'[j] = 0 /\ ledger'[j] = "processing"
    BY <1>0, <1>3 DEF Deliver, Enqueue, Requeue, Calm, RowCalm
  <2>3. QED
    BY <1>1, <2>1, <2>2, QueueAssumption
       DEF Calm, RowCalm, RunCalm, Alone, StartedCalm, Fresh, SameRun, RunKept, Worker
<1>4. QED
  BY <1>2, <1>3

\* A claim that ages under its run is trouble; the others are nobody's.
LEMMA PassingCalm ==
  ASSUME LedgerInv, NEW j \in Jobs, Calm(j), NEW i \in Jobs, Passing(i), j \notin troubled'
  PROVE  Calm(j)'
<1>0. claimedAt \in [Jobs -> {"null", "fresh", "stale"}] /\ aged \in [Jobs -> BOOLEAN]
  BY DEF LedgerInv, QueueTypeOK
<1>1. /\ \A t \in Runs : RunKept(t, j)
      /\ UNCHANGED <<status, attempts, ledger, started>>
  BY SameKept DEF Passing, BecomesDue, ClaimAges, SameRun, flowsOf, Untouched
<1>2. CASE i = j /\ ClaimAges(i)
  <2>1. ~aged[j] /\ \E r \in Runs : Worker(r, j)
    BY <1>2 DEF ClaimAges, Calm, RowCalm
  <2>2. aged'[j] = TRUE
    BY <1>0, <1>2, <2>1 DEF ClaimAges
  <2>3. BecomesDue(i) => aged' = aged
    BY DEF BecomesDue
  <2>4. QED
    BY <1>2, <2>1, <2>2, <2>3 DEF Passing, Fault
<1>3. CASE ~(i = j /\ ClaimAges(i))
  <2>1. claimedAt'[j] = claimedAt[j] /\ aged'[j] = aged[j]
    BY <1>0, <1>3 DEF Passing, BecomesDue, ClaimAges
  <2>2. QED
    BY <1>1, <2>1, KeptCalm DEF RowKept
<1>4. QED
  BY <1>2, <1>3

\* A fetch sees the row only while it is pending.
LEMMA FetchCalm ==
  ASSUME LedgerInv, NEW j \in Jobs, Calm(j), NEW r \in Runs, FetchEvents(r)
  PROVE  Calm(j)'
<1>0. /\ snapshot \in [Runs -> Batches] /\ pc \in [Runs -> {"idle", "loop", "work", "settle"}]
      /\ NoJob \notin Jobs
  BY QueueAssumption DEF LedgerInv, QueueTypeOK
<1>1. RowKept(j) /\ \A t \in Runs \ {r} : SameRun(t)
  BY <1>0 DEF FetchEvents, Fetch, RowKept, SameRun, Untouched, flowsOf, rows
<1>2. cur[r] = NoJob /\ cur' = cur
  BY DEF FetchEvents, Fetch, LedgerInv, QueueTypeOK
<1>3. j \in DOMAIN snapshot'[r] => snapshot'[r][j].status = "pending"
  <2>1. PICK S \in SUBSET {k \in Jobs : Eligible(k)} : snapshot' = [snapshot EXCEPT ![r] = [k \in S |-> Seen(k)]]
    BY DEF FetchEvents, Fetch
  <2>2. snapshot'[r] = [k \in S |-> Seen(k)]
    BY <1>0, <2>1
  <2>3. Eligible(j) => status[j] = "pending"
    BY DEF Eligible, Calm, RowCalm
  <2>4. QED
    BY <2>1, <2>2, <2>3 DEF Seen
<1>4. RunKept(r, j)
  BY <1>0, <1>2, <1>3 DEF RunKept
<1>5. QED
  BY <1>1, <1>4, MovedCalm
\* The calls of the work before and after the flow is started.
LEMMA CallCalm ==
  ASSUME LedgerInv, NEW j \in Jobs, Calm(j), NEW r \in Runs,
         \/ LookUp(r) \/ NewContact(r) \/ MapSender(r) \/ ReadConversation(r) \/ ApplyMessage(r)
         \/ CreateConversation(r)
  PROVE  Calm(j)'
<1>1. UNCHANGED queueVars /\ UNCHANGED ledger /\ UNCHANGED flowsOf
  BY DEF LookUp, NewContact, MapSender, ReadConversation, ApplyMessage, CreateConversation, Mine
<1>2. stage[r] \notin {"settle", "done"}
  BY DEF LookUp, NewContact, MapSender, ReadConversation, ApplyMessage, CreateConversation, Mine, Stage
<1>0. pc[r] = "work" /\ \E s \in Stages : stage' = [stage EXCEPT ![r] = s]
  BY CallStage DEF LedgerInv
<1>3. \A t \in Runs \ {r} : SameRun(t)
  BY <1>0, <1>1 DEF SameRun, queueVars, LedgerInv, StageFits
<1>4. RowKept(j) /\ RunKept(r, j)
  BY <1>1, <1>2 DEF RowKept, RunKept, queueVars, rows, flowsOf, Calm, RunCalm
<1>5. QED
  BY <1>3, <1>4, MovedCalm

\* The flow of an event is started by the one run that works on it, and not twice.
LEMMA AutomateCalm ==
  ASSUME LedgerInv, NEW j \in Jobs, Calm(j), NEW r \in Runs, Automate(r), j \notin troubled'
  PROVE  Calm(j)' /\ ~(cur[r] = j /\ j \in started)
<1>0. stage \in [Runs -> Stages \cup {"none", "fail"}] /\ troubled \subseteq Jobs
  BY DEF LedgerInv, StageFits, HistoryTyped
<1>1. /\ UNCHANGED queueVars /\ UNCHANGED ledger /\ Stage(r, "automate")
      /\ \E s \in {"settle", "raise"} : stage' = [stage EXCEPT ![r] = s]
  BY DEF Automate, Mine, ToStage, Throw
<1>2. \A t \in Runs \ {r} : SameRun(t)
  BY <1>0, <1>1 DEF SameRun, queueVars
<1>3. CASE cur[r] # j
  <2>1. RowKept(j) /\ RunKept(r, j)
    BY <1>1, <1>3 DEF RowKept, RunKept, queueVars, rows, Calm, RunCalm, Automate, flowsOf
  <2>2. QED
    BY <1>2, <1>3, <2>1, MovedCalm
<1>4. CASE cur[r] = j
  <2>1. Worker(r, j) /\ status[j] = "processing" /\ stage[r] = "automate"
    BY <1>1, <1>4 DEF Stage, Worker, Calm, RunCalm
  <2>2. j \notin started
    BY <1>4, <2>1 DEF Calm, StartedCalm, Alone, Worker
  <2>3. stage' = [stage EXCEPT ![r] = "settle"]
    BY <1>4 DEF Automate, Throw, Fault, ToStage
  <2>4. RowCalm(j)' /\ (\A t \in Runs : RunCalm(t, j)') /\ Alone(j)'
    BY <1>1 DEF queueVars, rows, Calm, RowCalm, RunCalm, Alone, Worker
  <2>5. StartedCalm(j)'
    BY <1>0, <1>1, <2>1, <2>3 DEF StartedCalm, Worker, queueVars
  <2>6. QED
    BY <2>2, <2>4, <2>5 DEF Calm
<1>5. QED
  BY <1>3, <1>4

LEMMA SettleCalm ==
  ASSUME LedgerInv, NEW j \in Jobs, Calm(j), NEW r \in Runs, SettleLedger(r)
  PROVE  Calm(j)'
<1>0. /\ stage \in [Runs -> Stages \cup {"none", "fail"}]
      /\ ledger \in [Jobs -> {"absent", "processing", "completed", "failed"}]
  BY DEF LedgerInv, StageFits, HistoryTyped
<1>1. /\ UNCHANGED queueVars /\ started' = started /\ Stage(r, "settle")
      /\ stage' = [stage EXCEPT ![r] = "done"]
      /\ ledger' = ledger \/ ledger' = [ledger EXCEPT ![cur[r]] = "completed"]
  BY DEF SettleLedger, SettleEvent, Forget, ToStage, flowsOf
<1>2. ledger'[j] = ledger[j] \/ ledger'[j] = "completed"
  BY <1>0, <1>1
<1>3. \A t \in Runs : stage[t] \in {"settle", "done"} => stage'[t] \in {"settle", "done"}
  BY <1>0, <1>1
<1>4. QED
  BY <1>1, <1>2, <1>3 DEF queueVars, rows, Calm, RowCalm, RunCalm, Alone, StartedCalm, Worker

\* A run that leaves the row another run, or nobody, works on.
LEMMA LeftCalm ==
  ASSUME LedgerInv, NEW j \in Jobs, Calm(j), NEW r \in Runs, cur[r] # j, RowKept(j),
         cur' = [cur EXCEPT ![r] = NoJob],
         snapshot' = [snapshot EXCEPT ![r] = <<>>] \/ \E i : snapshot' = [snapshot EXCEPT ![r] = Remaining(r, i)],
         \E p : pc' = [pc EXCEPT ![r] = p], stage' = stage \/ \E s : stage' = [stage EXCEPT ![r] = s]
  PROVE  Calm(j)'
<1>0. /\ cur \in [Runs -> Jobs \cup {NoJob}] /\ snapshot \in [Runs -> Batches]
      /\ pc \in [Runs -> {"idle", "loop", "work", "settle"}] /\ NoJob \notin Jobs
      /\ stage \in [Runs -> Stages \cup {"none", "fail"}]
  BY QueueAssumption DEF LedgerInv, QueueTypeOK, StageFits
<1>1. \A t \in Runs \ {r} : SameRun(t)
  BY <1>0 DEF SameRun
<1>2. j \in DOMAIN snapshot'[r] => j \in DOMAIN snapshot[r] /\ snapshot'[r][j] = snapshot[r][j]
  <2>1. CASE snapshot' = [snapshot EXCEPT ![r] = <<>>]
    <3>1. snapshot'[r] = <<>>
      BY <1>0, <2>1
    <3>2. DOMAIN <<>> = {}
      OBVIOUS
    <3>3. QED
      BY <3>1, <3>2
  <2>2. ASSUME NEW i, snapshot' = [snapshot EXCEPT ![r] = Remaining(r, i)]
        PROVE  j \in DOMAIN snapshot'[r] => j \in DOMAIN snapshot[r] /\ snapshot'[r][j] = snapshot[r][j]
    <3>1. snapshot'[r] = Remaining(r, i)
      BY <1>0, <2>2
    <3>2. QED
      BY <3>1 DEF Remaining
  <2>3. QED
    BY <2>1, <2>2
<1>3. RunKept(r, j)
  BY <1>0, <1>2 DEF RunKept, Calm, RunCalm
<1>4. QED
  BY <1>1, <1>3, MovedCalm

\* A run on its way to a row that another run, or nobody, works on.
LEMMA StartedElsewhere ==
  ASSUME LedgerInv, NEW j \in Jobs, Calm(j), NEW r \in Runs, cur[r] # j, RowKept(j),
         NEW i \in Jobs, i # j, cur' = [cur EXCEPT ![r] = i], snapshot' = snapshot,
         \E p : pc' = [pc EXCEPT ![r] = p], \E s : stage' = [stage EXCEPT ![r] = s]
  PROVE  Calm(j)'
<1>0. /\ cur \in [Runs -> Jobs \cup {NoJob}] /\ snapshot \in [Runs -> Batches]
      /\ pc \in [Runs -> {"idle", "loop", "work", "settle"}]
      /\ stage \in [Runs -> Stages \cup {"none", "fail"}]
  BY DEF LedgerInv, QueueTypeOK, StageFits
<1>1. \A t \in Runs \ {r} : SameRun(t)
  BY <1>0 DEF SameRun
<1>2. RunKept(r, j)
  BY <1>0 DEF RunKept, Calm, RunCalm
<1>3. QED
  BY <1>1, <1>2, MovedCalm

\* The run that leaves the row was the only one, and leaves it completed, to be tried again
\* or failed.
LEMMA VacatedCalm ==
  ASSUME LedgerInv, NEW j \in Jobs, Calm(j), NEW r \in Runs, cur[r] = j,
         cur' = [cur EXCEPT ![r] = NoJob], snapshot' = [snapshot EXCEPT ![r] = Remaining(r, j)],
         \E p : pc' = [pc EXCEPT ![r] = p], aged' = aged,
         attempts'[j] = attempts[j], started' = started,
         \/ status'[j] = "completed" /\ ledger'[j] # "failed"
         \/ status'[j] = "pending" /\ ledger'[j] # "failed" /\ j \notin started /\ attempts[j] < MaxAttempts
         \/ status'[j] = "failed" /\ j \notin started
  PROVE  Calm(j)'
<1>0. /\ cur \in [Runs -> Jobs \cup {NoJob}] /\ snapshot \in [Runs -> Batches]
      /\ pc \in [Runs -> {"idle", "loop", "work", "settle"}] /\ NoJob \notin Jobs
      /\ attempts \in [Jobs -> 0..MaxAttempts]
  BY QueueAssumption DEF LedgerInv, QueueTypeOK
<1>1. \A t \in Runs : cur'[t] # j
  BY <1>0 DEF Calm, Alone
<1>2. \A t \in Runs : j \in DOMAIN snapshot'[t] => snapshot'[t][j].status = "pending"
  BY <1>0 DEF Remaining, Calm, RunCalm
<1>3. RowCalm(j)'
  BY DEF RowCalm, Calm
<1>4. \A t \in Runs : RunCalm(t, j)'
  BY <1>1, <1>2 DEF RunCalm, Worker
<1>5. QED
  BY <1>1, <1>3, <1>4 DEF Calm, Alone, StartedCalm
\* An event is settled by its run: completed, to be tried again, or given up.
LEMMA EndCalm ==
  ASSUME LedgerInv, NEW j \in Jobs, Calm(j), NEW r \in Runs, EndEvent(r), j \notin troubled'
  PROVE  Calm(j)'
<1>0. /\ status \in [Jobs -> Statuses] /\ attempts \in [Jobs -> 0..MaxAttempts]
      /\ claimedAt \in [Jobs -> {"null", "fresh", "stale"}] /\ aged \in [Jobs -> BOOLEAN]
      /\ cur \in [Runs -> Jobs \cup {NoJob}] /\ pc \in [Runs -> {"idle", "loop", "work", "settle"}]
      /\ stage \in [Runs -> Stages \cup {"none", "fail"}] /\ MaxAttempts \in Nat
  BY QueueAssumption DEF LedgerInv, QueueTypeOK, StageFits
<1>1. /\ pc[r] = "work" /\ stage[r] \in {"done", "raise"} /\ cur[r] \in Jobs
      /\ UNCHANGED <<ledger, started, claimedAt, aged>>
      /\ Complete(r) \/ Retry(r) \/ GiveUp(r)
      /\ \E s : stage' = [stage EXCEPT ![r] = s]
  BY WorksOnRow DEF EndEvent, Stage, Untouched, flowsOf, NextRow, Complete, Retry, GiveUp, LedgerInv
<1>2. \/ /\ snapshot' = [snapshot EXCEPT ![r] = Remaining(r, cur[r])]
         /\ cur' = [cur EXCEPT ![r] = NoJob]
         /\ \E p : pc' = [pc EXCEPT ![r] = p]
      \/ /\ GiveUp(r) /\ snapshot' = snapshot
         /\ cur' = [cur EXCEPT ![r] = cur[r]] /\ pc' = [pc EXCEPT ![r] = "settle"]
  BY <1>1 DEF Complete, Retry, GiveUp, Advance, Start
<1>3. CASE cur[r] # j
  <2>1. RowKept(j)
    BY <1>0, <1>1, <1>3 DEF RowKept, Complete, Retry, GiveUp, WriteStatus, RetryAttempts
  <2>2. QED
    BY <1>1, <1>2, <1>3, <2>1, LeftCalm, StartedElsewhere
<1>4. CASE cur[r] = j
  <2>1. /\ status[j] = "processing" /\ status'[j] # status[j] /\ ledger[j] # "failed"
        /\ attempts[j] = snapshot[r][j].attempts + 1
    BY <1>1, <1>4 DEF EndEvent, Fault, Calm, RunCalm, Worker
  <2>2. j \in started => stage[r] = "done"
    BY <1>1, <1>4, <2>1 DEF Calm, StartedCalm, Alone, Worker
  <2>3. CASE Complete(r)
    <3>1. status'[j] = "completed" /\ attempts' = attempts
      BY <1>0, <1>4, <2>1, <2>3 DEF Complete, WriteStatus
    <3>2. QED
      BY <1>1, <1>4, <2>1, <2>3, <3>1, VacatedCalm DEF Complete, Advance
  <2>4. CASE Stage(r, "raise") /\ Retry(r)
    <3>1. status'[j] = "pending" /\ attempts'[j] = attempts[j] /\ attempts[j] < MaxAttempts
      BY <1>0, <1>4, <2>1, <2>4 DEF Retry, RetryAttempts, Exhausted
    <3>2. j \notin started
      BY <2>2, <2>4 DEF Stage
    <3>3. QED
      BY <1>1, <1>4, <2>1, <2>4, <3>1, <3>2, VacatedCalm DEF Retry, Advance
  <2>5. CASE Stage(r, "raise") /\ GiveUp(r)
    <3>1. status'[j] = "failed" /\ attempts' = attempts /\ snapshot' = snapshot
      BY <1>0, <1>4, <2>1, <2>5 DEF GiveUp, WriteStatus, Start
    <3>2. j \notin started
      BY <2>2, <2>5 DEF Stage
    <3>3. cur' = cur /\ pc' = [pc EXCEPT ![r] = "settle"]
      BY <1>0, <2>5 DEF GiveUp, Start
    <3>4. RowCalm(j)'
      BY <1>1, <3>1 DEF RowCalm, Calm
    <3>5. ASSUME NEW t \in Runs PROVE RunCalm(t, j)'
      BY <1>0, <1>1, <1>4, <2>1, <3>1, <3>3 DEF RunCalm, Calm, Alone, Worker
    <3>6. Alone(j)' /\ StartedCalm(j)'
      BY <1>1, <3>2, <3>3 DEF Calm, Alone, StartedCalm
    <3>7. QED
      BY <3>4, <3>5, <3>6 DEF Calm
  <2>6. QED
    BY <2>3, <2>4, <2>5 DEF EndEvent
<1>5. QED
  BY <1>3, <1>4

\* settleFailedWork leaves the row failed.
LEMMA FailCalm ==
  ASSUME LedgerInv, NEW j \in Jobs, Calm(j), NEW r \in Runs, FailEvent(r)
  PROVE  Calm(j)'
<1>0. /\ ledger \in [Jobs -> {"absent", "processing", "completed", "failed"}]
      /\ cur \in [Runs -> Jobs \cup {NoJob}] /\ NoJob \notin Jobs
  BY QueueAssumption DEF LedgerInv, HistoryTyped, QueueTypeOK
<1>1. /\ pc[r] = "settle" /\ UNCHANGED <<status, attempts, claimedAt, aged, started>>
      /\ snapshot' = [snapshot EXCEPT ![r] = Remaining(r, cur[r])]
      /\ cur' = [cur EXCEPT ![r] = NoJob]
      /\ \E p : pc' = [pc EXCEPT ![r] = p]
      /\ \E s : stage' = [stage EXCEPT ![r] = s]
  BY DEF FailEvent, Settled, Advance, rows, flowsOf, NextRow
<1>2. CASE cur[r] # j
  <2>1. ledger'[j] = ledger[j]
    BY <1>0, <1>2 DEF FailEvent, SettleEvent, Forget
  <2>2. QED
    BY <1>1, <1>2, <2>1, LeftCalm DEF RowKept
<1>3. CASE cur[r] = j
  <2>1. status[j] = "failed"
    BY <1>1, <1>3 DEF Calm, RunCalm
  <2>2. j \notin started
    BY <1>1, <1>3, <2>1 DEF Calm, StartedCalm, Alone, Worker
  <2>3. QED
    BY <1>1, <1>3, <2>1, <2>2, VacatedCalm
<1>4. QED
  BY <1>2, <1>3

\* A run that dies on the row is trouble.
LEMMA KillCalm ==
  ASSUME LedgerInv, NEW j \in Jobs, Calm(j), NEW r \in Runs, KillRun(r), j \notin troubled'
  PROVE  Calm(j)'
<1>1. cur[r] # j
  BY QueueAssumption DEF KillRun, Fault
<1>2. RowKept(j)
  BY DEF KillRun, Crash, rows, Untouched, flowsOf, RowKept
<1>3. QED
  BY <1>1, <1>2, LeftCalm DEF KillRun, Crash, NextRow

\* A claim whose answer is lost is trouble.
LEMMA SkipCalm ==
  ASSUME LedgerInv, NEW j \in Jobs, Calm(j), NEW r \in Runs, NEW i \in Jobs, SkipEvent(r, i),
         j \notin troubled'
  PROVE  Calm(j)'
<1>0. /\ status \in [Jobs -> Statuses] /\ attempts \in [Jobs -> 0..MaxAttempts]
      /\ claimedAt \in [Jobs -> {"null", "fresh", "stale"}] /\ MaxAttempts \in Nat
      /\ cur \in [Runs -> Jobs \cup {NoJob}]
  BY QueueAssumption DEF LedgerInv, QueueTypeOK
<1>1. cur[r] # j
  BY QueueAssumption DEF SkipEvent, PassOver, Claimable, AtRow, LedgerInv, QueueTypeOK
<1>2. CASE i # j
  BY <1>0, <1>1, <1>2, LeftCalm
     DEF RowKept, SkipEvent, PassOver, Swap, Advance, Untouched, flowsOf
<1>3. CASE i = j
  <2>1. status' = status /\ attempts' = attempts
    BY <1>3 DEF SkipEvent, Fault
  <2>2. ~Swap(r, i)
    BY <1>0, <2>1 DEF Swap, Unchanged
  <2>3. QED
    BY <1>0, <1>1, <2>1, <2>2, LeftCalm
       DEF RowKept, SkipEvent, PassOver, Advance, Untouched, flowsOf
<1>4. QED
  BY <1>2, <1>3

\* A row that is claimed was pending, with nobody on it.
LEMMA TakeCalm ==
  ASSUME LedgerInv, NEW j \in Jobs, Calm(j), NEW r \in Runs, NEW i \in Jobs, TakeEvent(r, i)
  PROVE  Calm(j)'
<1>0. /\ status \in [Jobs -> Statuses] /\ attempts \in [Jobs -> 0..MaxAttempts]
      /\ claimedAt \in [Jobs -> {"null", "fresh", "stale"}]
      /\ cur \in [Runs -> Jobs \cup {NoJob}] /\ pc \in [Runs -> {"idle", "loop", "work", "settle"}]
  BY DEF LedgerInv, QueueTypeOK
<1>1. cur[r] # j
  BY QueueAssumption DEF TakeEvent, Claim, Claimable, AtRow, LedgerInv, QueueTypeOK
<1>2. /\ cur' = [cur EXCEPT ![r] = i] /\ snapshot' = snapshot /\ pc' = [pc EXCEPT ![r] = "work"]
      /\ stage' = [stage EXCEPT ![r] = "lookup"]
      /\ UNCHANGED <<ledger, started, aged>>
      /\ Swap(r, i) /\ i \in DOMAIN snapshot[r]
  BY DEF TakeEvent, Claim, Claimable, AtRow, Start, ToStage, Untouched, flowsOf
<1>3. CASE i # j
  <2>1. RowKept(j)
    BY <1>0, <1>2, <1>3 DEF Swap, RowKept
  <2>2. QED
    BY <1>1, <1>2, <1>3, <2>1, StartedElsewhere
<1>4. CASE i = j
  <2>1. status[j] = "pending"
    BY <1>2, <1>4 DEF Swap, Unchanged, Calm, RunCalm
  <2>2. Fresh(j) /\ ledger[j] # "failed" /\ ~aged[j]
    BY <2>1, FreshRow DEF Calm, RowCalm
  <2>3. /\ status'[j] = "processing" /\ claimedAt'[j] = "fresh"
        /\ attempts'[j] = snapshot[r][j].attempts + 1
    BY <1>0, <1>2, <1>4 DEF Swap
  <2>4. \A t \in Runs : cur'[t] = j <=> t = r
    BY <1>0, <1>2, <1>4, <2>2 DEF Fresh
  <2>5. Worker(r, j)'
    BY <1>0, <1>2, <1>4 DEF Worker
  <2>6. RowCalm(j)' /\ Alone(j)' /\ StartedCalm(j)'
    BY <1>2, <2>2, <2>3, <2>4, <2>5 DEF RowCalm, Alone, StartedCalm, Fresh
  <2>7. ASSUME NEW t \in Runs PROVE RunCalm(t, j)'
    BY <1>2, <2>2, <2>3, <2>4, <2>5 DEF RunCalm, Calm, Worker
  <2>8. QED
    BY <2>6, <2>7 DEF Calm
<1>5. QED
  BY <1>3, <1>4

\* A row that is out of attempts was left behind by a run that died, or its run found it
\* changed: trouble.
LEMMA ExhaustCalm ==
  ASSUME LedgerInv, NEW j \in Jobs, Calm(j), NEW r \in Runs, NEW i \in Jobs, ExhaustEvent(r, i),
         j \notin troubled'
  PROVE  Calm(j)'
<1>0. /\ status \in [Jobs -> Statuses] /\ attempts \in [Jobs -> 0..MaxAttempts] /\ MaxAttempts \in Nat
  BY QueueAssumption DEF LedgerInv, QueueTypeOK
<1>1. cur[r] # j
  BY QueueAssumption DEF ExhaustEvent, Exhaust, AtRow, LedgerInv, QueueTypeOK
<1>2. CASE i = j
  <2>1. Unchanged(r, j) /\ j \in DOMAIN snapshot[r] /\ Exhausted(snapshot[r][j].attempts)
    BY <1>2 DEF ExhaustEvent, Exhaust, AtRow, Fault
  <2>2. QED
    BY <1>0, <2>1 DEF Unchanged, Exhausted, Calm, RowCalm, RunCalm
<1>3. CASE i # j
  <2>1. RowKept(j)
    BY <1>0, <1>3 DEF ExhaustEvent, Exhaust, WriteStatus, RowKept, Untouched, flowsOf
  <2>2. QED
    BY <1>1, <1>3, <2>1, StartedElsewhere DEF ExhaustEvent, Exhaust, Start, NextRow
<1>4. QED
  BY <1>2, <1>3

\* Whatever happens, the row of an event with which nothing has gone wrong stays calm.
LEMMA CalmStep ==
  ASSUME LedgerInv, CalmInv, [LedgerNext]_ledgerVars
  PROVE  CalmInv'
<1> SUFFICES ASSUME NEW j \in Jobs, j \notin troubled' PROVE Calm(j)'
  BY DEF CalmInv
<1>0. Calm(j)
  BY AdriftStays DEF CalmInv
<1>1. CASE UNCHANGED ledgerVars
  BY <1>0, <1>1 DEF ledgerVars, queueVars, rows, flowsOf, Calm, RowCalm, RunCalm, Alone, StartedCalm, Worker
<1>2. QED
  BY <1>0, <1>1, DeliverCalm, PassingCalm, FetchCalm, CallCalm, AutomateCalm, SettleCalm, EndCalm, FailCalm,
     KillCalm, SkipCalm, TakeCalm, ExhaustCalm DEF LedgerNext, EventStep

\* Only executeFlow's call can start a flow again.
LEMMA OnceStep ==
  ASSUME LedgerInv, CalmInv, FlowStartsOnce, [LedgerNext]_ledgerVars
  PROVE  FlowStartsOnce'
<1>1. CASE UNCHANGED again
  BY <1>1 DEF FlowStartsOnce
<1>2. ASSUME NEW r \in Runs, Automate(r), again' # again PROVE FALSE
  <2>1. cur[r] \in started /\ cur[r] \notin troubled /\ cur[r] \in Jobs
    BY <1>2, WorksOnRow DEF Automate, flowsOf, Mine, Stage, LedgerInv, FlowStartsOnce
  <2>2. Calm(cur[r])
    BY <2>1 DEF CalmInv
  <2>3. pc[r] = "work" /\ stage[r] = "automate"
    BY <1>2 DEF Automate, Mine, Stage
  <2>4. QED
    BY <2>1, <2>2, <2>3 DEF Calm, RunCalm, StartedCalm, Alone, Worker
<1>3. QED
  BY <1>1, <1>2 DEF LedgerNext, EventStep, ledgerVars, flowsOf, Untouched, Deliver, Passing, FetchEvents, LookUp,
     NewContact, MapSender, ReadConversation, ApplyMessage, CreateConversation, SettleLedger,
     SkipEvent, TakeEvent, ExhaustEvent, EndEvent, FailEvent, KillRun

\* The unique event in the ledger, the swap of the drain and the settled row together start
\* the flow of an event once, unless its work threw, died, outlived its claim or lost a write.
THEOREM StartedOnce == LedgerSpec => []FlowStartsOnce
<1>1. LedgerInit => CalmInv /\ FlowStartsOnce
  <2> SUFFICES ASSUME LedgerInit PROVE CalmInv /\ FlowStartsOnce
    OBVIOUS
  <2>1. \A r \in Runs : DOMAIN snapshot[r] = {} /\ cur[r] \notin Jobs
    BY QueueAssumption DEF LedgerInit, QueueInit
  <2>2. ASSUME NEW j \in Jobs PROVE Calm(j)
    BY <2>1 DEF LedgerInit, QueueInit, Calm, RowCalm, RunCalm, Alone, StartedCalm, Worker
  <2>3. QED
    BY <2>2 DEF CalmInv, FlowStartsOnce, LedgerInit
<1>2. QED
  BY <1>1, LedgerInvariant, CalmStep, OnceStep, PTL DEF LedgerSpec

====
