---- MODULE WebhookLedger ----
(***************************************************************************)
(* Messages of one sender, delivered by the Gateway's webhook: the claim   *)
(* of an event (app/api/webhooks/social-gateway, migration 00019), which   *)
(* puts the event into a ledger and enqueues its row, and the work of the  *)
(* row (lib/social-gateway/webhook-processor.ts), which projects contact   *)
(* and conversation, starts a flow and settles the ledger.                 *)
(*                                                                         *)
(* The rows and the runs that drain them are those of LegacyQueue: a row   *)
(* stands for its event.  Each call of the database is a step; a call that *)
(* throws may have taken effect.  A conversation is the event it shows:    *)
(* last_message_at and last_message_preview are always written together.   *)
(***************************************************************************)
EXTENDS LegacyQueue

CONSTANTS
  OccurredAt,   \* occurred_at of each event
  Named,        \* the Gateway names its conversations in the envelope
  MaxContacts,  \* bound: contacts that are created
  MaxFaults     \* bound: calls that throw, writes that are lost, runs that die or come late,
                \* events that are restarted under a run

ASSUME LedgerAssumption ==
  /\ OccurredAt \in [Jobs -> Nat] /\ Named \in BOOLEAN
  /\ MaxContacts \in Nat /\ MaxFaults \in Nat

VARIABLES
  ledger,     \* webhook_events.status
  contacts,   \* contacts created so far: they are numbered
  sender,     \* contact_channels: the sender's contact, or 0
  shown,      \* the event that the conversation of a contact shows, or NoJob
  stage,      \* the next call of a run's work
  contact,    \* the contact a run works with, or 0
  \* history
  started,    \* events that started their flow
  again,      \* events that started it a second time although nothing had gone wrong
  troubled,   \* events whose work threw, died, came late or lost a write
  adrift,     \* events whose ledger row missed how their work ended, or that were restarted
              \* under a run
  faults      \* how often something has gone wrong

projection == <<contacts, sender, shown>>
flowsOf    == <<started, again>>
trouble    == <<troubled, adrift, faults>>
ledgerVars == <<queueVars, ledger, projection, stage, contact, flowsOf, trouble>>

ContactIds == 1..MaxContacts
Stages == {"lookup", "contact", "map", "read", "apply", "create", "automate", "settle", "done", "raise"}

LedgerInit ==
  /\ QueueInit
  /\ ledger = [j \in Jobs |-> "absent"]
  /\ contacts = 0 /\ sender = 0
  /\ shown   = [c \in ContactIds |-> NoJob]
  /\ stage   = [r \in Runs |-> "none"]
  /\ contact = [r \in Runs |-> 0]
  /\ started = {} /\ again = {}
  /\ troubled = {} /\ adrift = {} /\ faults = 0

LedgerTypeOK ==
  /\ QueueTypeOK
  /\ ledger \in [Jobs -> {"absent", "processing", "completed", "failed"}]
  /\ contacts \in 0..MaxContacts /\ sender \in 0..contacts
  /\ shown \in [ContactIds -> Jobs \cup {NoJob}]
  /\ contact \in [Runs -> 0..MaxContacts]
  /\ started \subseteq Jobs /\ again \subseteq started
  /\ troubled \subseteq Jobs /\ adrift \subseteq Jobs /\ faults \in 0..MaxFaults
  /\ \A r \in Runs :
       CASE pc[r] = "work"   -> stage[r] \in Stages
         [] pc[r] = "settle" -> stage[r] = "fail"
         [] OTHER            -> stage[r] = "none"

----
(* claim_social_gateway_webhook *)

\* Mutant: a delivery that comes again starts an event anew unless it is completed.
Restarts_unfinished(j) == ledger[j] \in {"failed", "processing"}

\* Completed and queued events are acknowledged and left alone.
Restarts(j) == ledger[j] = "failed"

\* The row as if it were new, whoever still works on it.
Requeue(j) ==
  /\ status'    = [status EXCEPT ![j] = "pending"]
  /\ due'       = [due EXCEPT ![j] = TRUE]
  /\ attempts'  = [attempts EXCEPT ![j] = 0]
  /\ claimedAt' = [claimedAt EXCEPT ![j] = "null"]
  /\ UNCHANGED <<snapshot, cur, pc, aged, parked>>

\* Ledger and row in one transaction; the Gateway delivers an event again and again.
Deliver(j) ==
  /\ \/ ledger[j] = "absent" /\ Enqueue({j}, TRUE)
     \/ Restarts(j) /\ Requeue(j)
  /\ ledger' = [ledger EXCEPT ![j] = "processing"]
  /\ IF \E r \in Runs : cur[r] = j
     THEN faults < MaxFaults /\ faults' = faults + 1 /\ adrift' = adrift \cup {j}
     ELSE UNCHANGED <<faults, adrift>>
  /\ UNCHANGED <<projection, stage, contact, flowsOf, troubled>>

----
(* processSocialGatewayWebhookEvent, the message part. *)

Stage(r, s) == pc[r] = "work" /\ stage[r] = s

ToStage(r, s) == stage' = [stage EXCEPT ![r] = s]

Fault(j) ==
  /\ faults < MaxFaults /\ faults' = faults + 1
  /\ troubled' = troubled \cup {j}

\* A call that throws.
Throw(r) == ToStage(r, "raise") /\ Fault(cur[r]) /\ UNCHANGED adrift

Mine(r, s) ==
  Stage(r, s) /\ UNCHANGED <<queueVars, ledger>>

\* upsertContactForSender: a read that fails looks like a sender nobody knows.
LookUp(r) ==
  /\ Mine(r, "lookup")
  /\ \/ /\ contact' = [contact EXCEPT ![r] = sender]
        /\ ToStage(r, IF sender = 0 THEN "contact" ELSE "read")
        /\ UNCHANGED trouble
     \/ /\ sender # 0 /\ ToStage(r, "contact")
        /\ Fault(cur[r]) /\ UNCHANGED <<contact, adrift>>
     \/ UNCHANGED contact /\ Throw(r)    \* the channel is inactive, or cannot be read
  /\ UNCHANGED <<projection, flowsOf>>

NewContact(r) ==
  /\ Mine(r, "contact")
  /\ \/ /\ contacts < MaxContacts
        /\ contacts' = contacts + 1
        /\ contact' = [contact EXCEPT ![r] = contacts + 1]
        /\ ToStage(r, "map") /\ UNCHANGED trouble
     \/ UNCHANGED <<contacts, contact>> /\ Throw(r)
  /\ UNCHANGED <<sender, shown, flowsOf>>

\* A sender has one row; that this one was refused, or lost, goes unnoticed.
MapSender(r) ==
  /\ Mine(r, "map")
  /\ \/ /\ sender' = IF sender = 0 THEN contact[r] ELSE sender
        /\ UNCHANGED trouble
     \/ UNCHANGED sender /\ Fault(cur[r]) /\ UNCHANGED adrift
  /\ ToStage(r, "read")
  /\ UNCHANGED <<contacts, shown, contact, flowsOf>>

ReadConversation(r) ==
  /\ Mine(r, "read")
  /\ \/ ToStage(r, IF shown[contact[r]] # NoJob THEN "apply" ELSE "create") /\ UNCHANGED trouble
     \/ Throw(r)
  /\ UNCHANGED <<projection, contact, flowsOf>>

\* Mutant: the message that is processed last is shown.
Newer_last(j, k) == TRUE

Newer(j, k) == OccurredAt[j] >= OccurredAt[k]

\* A write that takes effect or throws, or both.
Attempt(r, W) ==
  \/ W /\ ToStage(r, "automate") /\ UNCHANGED trouble
  \/ (W \/ UNCHANGED shown) /\ Throw(r)

\* apply_social_gateway_inbound_conversation
ApplyMessage(r) ==
  /\ Mine(r, "apply")
  /\ Attempt(r, shown' = [shown EXCEPT ![contact[r]] = IF Newer(cur[r], @) THEN cur[r] ELSE @])
  /\ UNCHANGED <<contacts, sender, contact, flowsOf>>

\* A contact has one conversation on the channel, a Gateway conversation one row.
Taken(c) == shown[c] # NoJob \/ (Named /\ \E d \in ContactIds : shown[d] # NoJob)

CreateConversation(r) ==
  /\ Mine(r, "create")
  /\ LET c == contact[r] IN
       IF Taken(c) THEN UNCHANGED <<shown, trouble>> /\ ToStage(r, "raise")
                   ELSE Attempt(r, shown' = [shown EXCEPT ![c] = cur[r]])
  /\ UNCHANGED <<contacts, sender, contact, flowsOf>>

\* Automation is paused, a keyword of the workspace deals with the message, no trigger
\* matches it, or executeFlow runs; a flow that ran may throw.
Automate(r) ==
  /\ Mine(r, "automate")
  /\ \/ UNCHANGED flowsOf
     \/ /\ started' = started \cup {cur[r]}
        /\ again' = again \cup ({cur[r]} \cap (started \ troubled))
  /\ \/ ToStage(r, "settle") /\ UNCHANGED trouble
     \/ Throw(r)
  /\ UNCHANGED <<projection, contact>>

\* Mutant: only an event that has failed before is settled.
SettleEvent_failed(j, result) ==
  ledger' = IF ledger[j] = "failed" THEN [ledger EXCEPT ![j] = result] ELSE ledger

\* The ledger is settled only while the event is processing.
SettleEvent(j, result) ==
  ledger' = IF ledger[j] = "processing" THEN [ledger EXCEPT ![j] = result] ELSE ledger

\* A result that is lost goes unnoticed.
Forget(j) == UNCHANGED ledger /\ Fault(j) /\ adrift' = adrift \cup {j}

SettleLedger(r) ==
  /\ Stage(r, "settle")
  /\ \/ SettleEvent(cur[r], "completed") /\ UNCHANGED trouble
     \/ Forget(cur[r])
  /\ ToStage(r, "done")
  /\ UNCHANGED <<queueVars, projection, contact, flowsOf>>

----
(* The run: how it takes a row, and how the row ends. *)

Untouched == <<ledger, projection, flowsOf>>

\* The run's stage when it goes on to another row, or to settle a failure.
NextRow(r) ==
  /\ stage' = [stage EXCEPT ![r] = IF pc'[r] = "settle" THEN "fail" ELSE "none"]
  /\ contact' = [contact EXCEPT ![r] = 0]

Passing(j) ==
  /\ \/ BecomesDue(j) /\ UNCHANGED trouble
     \/ /\ ClaimAges(j)
        /\ IF aged' = aged THEN UNCHANGED trouble ELSE Fault(j) /\ adrift' = adrift \cup {j}
  /\ UNCHANGED <<Untouched, stage, contact>>

FetchEvents(r) == Fetch(r) /\ UNCHANGED <<Untouched, stage, contact, trouble>>

\* The answer of a claim may be lost too.
SkipEvent(r, j) ==
  /\ PassOver(r, j)
  /\ IF status' = status /\ attempts' = attempts THEN UNCHANGED trouble ELSE Fault(j) /\ UNCHANGED adrift
  /\ UNCHANGED <<Untouched, stage, contact>>

TakeEvent(r, j) ==
  /\ Claim(r, j)
  /\ ToStage(r, "lookup")
  /\ UNCHANGED <<Untouched, contact, trouble>>

\* The run does not check that the row is still the one it saw.
ExhaustEvent(r, j) ==
  /\ Exhaust(r, j)
  /\ NextRow(r)
  /\ IF Unchanged(r, j) THEN UNCHANGED trouble ELSE Fault(j) /\ adrift' = adrift \cup {j}
  /\ UNCHANGED Untouched

EndEvent(r) ==
  /\ \/ Stage(r, "done") /\ Complete(r)
     \/ Stage(r, "raise") /\ Retry(r)
     \/ Stage(r, "raise") /\ Exhausted(snapshot[r][cur[r]].attempts + 1) /\ GiveUp(r)
  /\ IF status'[cur[r]] # status[cur[r]] THEN UNCHANGED trouble
                                         ELSE Fault(cur[r]) /\ UNCHANGED adrift
  /\ NextRow(r)
  /\ UNCHANGED Untouched

\* settleFailedWork: an event that failed may be delivered again.
FailEvent(r) ==
  /\ stage[r] = "fail"
  /\ LET j == cur[r] IN
       \/ SettleEvent(j, "failed") /\ UNCHANGED trouble
       \/ Forget(j)
  /\ Settled(r)
  /\ NextRow(r)
  /\ UNCHANGED <<projection, flowsOf>>

\* A run that dies between two rows has touched neither.
KillRun(r) ==
  /\ Crash(r)
  /\ NextRow(r)
  /\ IF cur[r] = NoJob THEN UNCHANGED trouble
     ELSE /\ Fault(cur[r])
          /\ adrift' = IF pc[r] = "settle" THEN adrift \cup {cur[r]} ELSE adrift
  /\ UNCHANGED Untouched

EventStep(r) ==
  \/ LookUp(r) \/ NewContact(r) \/ MapSender(r) \/ ReadConversation(r) \/ ApplyMessage(r)
  \/ CreateConversation(r) \/ Automate(r) \/ SettleLedger(r) \/ EndEvent(r) \/ FailEvent(r)

LedgerNext ==
  \/ \E j \in Jobs : Deliver(j) \/ Passing(j)
  \/ \E r \in Runs : FetchEvents(r) \/ EventStep(r) \/ KillRun(r)
  \/ \E r \in Runs, j \in Jobs : SkipEvent(r, j) \/ TakeEvent(r, j) \/ ExhaustEvent(r, j)

LedgerSpec == LedgerInit /\ [][LedgerNext]_ledgerVars

----
(* Properties. *)

\* A conversation never goes back to an older message, in whatever order the rows of its
\* messages are worked, retried and delivered again.
NeverBackwards ==
  [][\A c \in ContactIds : shown[c] # NoJob =>
       shown'[c] # NoJob /\ OccurredAt[shown'[c]] >= OccurredAt[shown[c]]]_ledgerVars

\* However often an event is delivered, its flow starts once, unless its work threw, died,
\* outlived its claim or lost a write.
FlowStartsOnce == again = {}

\* An event whose redelivery is answered "already queued" has a row that will be worked, or
\* a run that is settling it, unless the ledger missed how its work ended.
QueuedMeansQueued ==
  \A j \in Jobs : ledger[j] = "processing" /\ j \notin adrift
    => \/ status[j] \in {"pending", "processing"}
       \/ \E r \in Runs : stage[r] = "fail" /\ cur[r] = j

\* "Finds or creates the contact behind a platform sender: reuses the mapping in
\* `contact_channels`" (lib/contacts/sender.ts:8): a conversation is that of the contact
\* its sender is mapped to, once no run works on a message.  Otherwise the next message
\* finds no conversation for the sender's contact, and the Gateway's name for it taken.
ConversationIsSenders ==
  (\A r \in Runs : cur[r] = NoJob) => \A c \in ContactIds : shown[c] # NoJob => c = sender
====
