---- MODULE FlowSessions ----
(***************************************************************************)
(* A contact's runs through a flow (lib/flow-engine/engine.ts) and the     *)
(* resume_flow jobs that wake a session after a delay                      *)
(* (lib/jobs/legacy-work.ts): who carries on with a session, and what      *)
(* becomes of it when a run throws or dies.  A session is written without  *)
(* a lock or a version, by id; each call of the database is a step.        *)
(*                                                                         *)
(* A walker is a call of executeFlow for a message, or of processResumeFlow*)
(* for a job.  A job is claimed in one step (LegacyQueue has the claim     *)
(* itself).  A walker ends within STALE_INVOCATION_MS: a claim of that age *)
(* is a dead walker's, the walkers older than it have ended, and a session *)
(* that was not written for that long has no walker that wrote to it.      *)
(* Writes whose result the engine does not look at are taken to succeed,   *)
(* and so is the insert of a job.                                          *)
(***************************************************************************)
EXTENDS Integers, Sequences, FiniteSets

CONSTANTS
  Flow,         \* the n-th node on a path through the flow: the kinds it may be of
  Walkers,
  MaxTries,     \* maxAttempts of a job
  MaxSessions,  \* bound: sessions that are created
  MaxJobs,      \* bound: jobs that are enqueued
  MaxMessages,  \* bound: messages that reach executeFlow, redeliveries included
  MaxDeaths     \* bound: walkers that die

NodeKinds == {"work", "input", "delay", "takeover", "goto"}

ASSUME FlowAssumption ==
  /\ Flow \in Seq(SUBSET NodeKinds)
  /\ {MaxSessions, MaxJobs, MaxMessages, MaxDeaths} \subseteq Nat /\ MaxTries \in Nat \ {0}

VARIABLES
  sessions,     \* flow_sessions: status, current_node_id (0 is null), waiting_for_input,
                \* waiting_until, whether updated_at is within STALE_INVOCATION_MS
  resumes,      \* resume_flow jobs: status, attempts, sessionId and nodeId of the payload
  walk,         \* what each walker is doing
  messages,     \* messages so far
  deaths,       \* walkers that died so far
  elders,       \* walkers that are older than the last claim of a job
  \* history
  forsaken,     \* sessions that the code is known to leave behind
  deceived,     \* sessions of which two jobs took each other for the one that goes on
  overtaken     \* walkers that looked at a session before another job of it was settled

flowVars == <<sessions, resumes, walk, messages, deaths, elders, forsaken, deceived, overtaken>>

SessionIds == 1..MaxSessions
ResumeIds  == 1..MaxJobs
Nodes      == 0..Len(Flow)

NoSession == [status |-> "absent", node |-> 0, waiting |-> FALSE, until |-> FALSE, recent |-> FALSE]
NoResume  == [status |-> "absent", tries |-> 0, session |-> 0, node |-> 0]
NoWalk    == [at |-> "idle", job |-> 0, session |-> 0, node |-> 0, recent |-> FALSE]

Traversing == {"enter", "execute", "stamp", "complete", "missing"}
Judging    == {"count", "countExhausted", "condemned", "cancelDead"}

FlowInit ==
  /\ sessions = [s \in SessionIds |-> NoSession]
  /\ resumes = [j \in ResumeIds |-> NoResume]
  /\ walk = [w \in Walkers |-> NoWalk]
  /\ messages = 0 /\ deaths = 0 /\ elders = [j \in ResumeIds |-> {}]
  /\ forsaken = {} /\ deceived = {} /\ overtaken = {}

FlowTypeOK ==
  /\ sessions \in [SessionIds ->
       [status : {"absent", "active", "completed", "cancelled"}, node : Nodes,
        waiting : BOOLEAN, until : BOOLEAN, recent : BOOLEAN]]
  /\ resumes \in [ResumeIds ->
       [status : {"absent", "pending", "processing", "completed", "failed"},
        tries : 0..MaxTries, session : 0..MaxSessions, node : Nodes]]
  /\ walk \in [Walkers ->
       [at : {"idle", "find", "create", "load", "resume", "look", "settled", "retry", "recheck",
              "throw", "catch", "giveUp", "cancel", "lookExhausted"} \cup Traversing \cup Judging,
        job : 0..MaxJobs, session : 0..MaxSessions, node : 0..(Len(Flow) + 1), recent : BOOLEAN]]
  /\ messages \in 0..MaxMessages /\ deaths \in 0..MaxDeaths
  /\ elders \in [ResumeIds -> SUBSET Walkers]
  /\ forsaken \cup deceived \subseteq SessionIds /\ overtaken \subseteq Walkers

----
At(w, step)    == walk[w].at = step
Goto(w, step)  == walk' = [walk EXCEPT ![w].at = step]
GotoNode(w, n) == walk' = [walk EXCEPT ![w].at = IF n > Len(Flow) THEN "complete" ELSE "enter",
                                       ![w].node = n]

\* A walker is done with its session: the end, unless it still has a job to settle.
LeaveFlow(w, step) ==
  walk' = [walk EXCEPT ![w] = IF walk[w].job = 0 THEN NoWalk
                              ELSE [NoWalk EXCEPT !.at = step, !.job = walk[w].job]]

Return(w) == LeaveFlow(w, "settled")

\* Every update of the row sets updated_at.
WriteRow(s, row) == sessions' = [sessions EXCEPT ![s] = [row EXCEPT !.recent = TRUE]]

Open(j) == resumes[j].status \in {"pending", "processing"}

\* The session of the job that a walker works for, or 0.
OwnSession(w) == IF walk[w].job = 0 THEN 0 ELSE resumes[walk[w].job].session

\* A walker that carries on with a session for a message, or inside goToFlow: if it stops,
\* no job comes back to the session.
Unbacked(w) ==
  IF walk[w].at \in Traversing \cup {"throw"} /\ walk[w].session # OwnSession(w)
  THEN {walk[w].session} ELSE {}

----
(* executeFlow *)

StartMessage(w) ==
  /\ At(w, "idle") /\ messages < MaxMessages
  /\ messages' = messages + 1
  /\ Goto(w, "find")
  /\ UNCHANGED <<sessions, resumes, deaths, forsaken, overtaken, deceived>>

WaitingSessions == {s \in SessionIds : sessions[s].status = "active" /\ sessions[s].waiting}

\* .single(): several rows are as good as none, and so is a read that fails.
FindWaiting(w) ==
  /\ At(w, "find")
  /\ \/ \E s \in WaitingSessions :
          /\ WaitingSessions = {s}
          /\ walk' = [walk EXCEPT ![w].at = "load", ![w].session = s, ![w].node = sessions[s].node]
     \/ Goto(w, "create")
  /\ UNCHANGED <<sessions, resumes, messages, deaths, forsaken, overtaken, deceived>>

\* A new session, from the first node after the trigger; a flow that is not published has
\* none, and one whose trigger leads nowhere leaves it as it is.
CreateSession(w) ==
  /\ At(w, "create")
  /\ \/ \E s \in SessionIds :
          /\ sessions[s].status = "absent" /\ \A t \in SessionIds : t < s => sessions[t].status # "absent"
          /\ WriteRow(s, [NoSession EXCEPT !.status = "active"])
          /\ \/ /\ Flow # <<>>
                /\ walk' = [walk EXCEPT ![w].at = "enter", ![w].session = s, ![w].node = 1]
                /\ UNCHANGED forsaken
             \/ Return(w) /\ forsaken' = forsaken \cup {s}
     \/ Return(w) /\ UNCHANGED <<sessions, forsaken>>
  /\ UNCHANGED <<resumes, messages, deaths, overtaken, deceived>>

----
(* resumeSession *)

\* cancelUnresumableSession: whatever the session has become.
CancelUnresumable(w) ==
  /\ WriteRow(walk[w].session, [sessions[walk[w].session] EXCEPT !.status = "cancelled"])
  /\ Return(w)

\* FlowLoadError: a job is retried, inside goToFlow too; for a message, it is the drain that
\* retries the message.
LoadError(w) == LeaveFlow(w, "retry")

\* The flow is there, or it cannot be read, or it is gone.
LoadFlow(w) ==
  /\ At(w, "load")
  /\ \/ Goto(w, "resume") /\ UNCHANGED sessions
     \/ CancelUnresumable(w)
     \/ LoadError(w) /\ UNCHANGED sessions
  /\ UNCHANGED <<resumes, messages, deaths, forsaken, overtaken, deceived>>

\* The marks of waiting are cleared; on from the snapshot's node, unless it was edited away.
Resume(w) ==
  /\ At(w, "resume")
  /\ LET s == walk[w].session IN
       WriteRow(s, [sessions[s] EXCEPT !.waiting = FALSE, !.until = FALSE])
  /\ GotoNode(w, walk[w].node + 1) \/ Goto(w, "missing")
  /\ UNCHANGED <<resumes, messages, deaths, forsaken, overtaken, deceived>>

MissingNode(w) ==
  /\ At(w, "missing")
  /\ \/ CancelUnresumable(w) /\ UNCHANGED forsaken
     \/ LoadError(w) /\ UNCHANGED sessions /\ forsaken' = forsaken \cup Unbacked(w)
  /\ UNCHANGED <<resumes, messages, deaths, overtaken, deceived>>

----
(* traverseNodes, executeNode *)

\* current_node_id only: a session that another walker has parked meanwhile is still marked
\* so, at a node that its job does not name, and every job of it is taken for a stale one.
EnterNode(w) ==
  /\ At(w, "enter")
  /\ LET s == walk[w].session IN
       /\ WriteRow(s, [sessions[s] EXCEPT !.node = walk[w].node])
       /\ forsaken' = IF sessions[s].until THEN forsaken \cup {s} ELSE forsaken
  /\ Goto(w, "execute")
  /\ UNCHANGED <<resumes, messages, deaths, overtaken, deceived>>

AtNode(w, kind) == At(w, "execute") /\ kind \in Flow[walk[w].node]

\* A node that does something and goes on, or throws.
Work(w) ==
  /\ AtNode(w, "work")
  /\ GotoNode(w, walk[w].node + 1) \/ Goto(w, "throw")
  /\ UNCHANGED <<sessions, resumes, messages, deaths, forsaken, overtaken, deceived>>

\* smartDelay
WaitForInput(w) ==
  /\ AtNode(w, "input")
  /\ LET s == walk[w].session IN
       WriteRow(s, [sessions[s] EXCEPT !.waiting = TRUE, !.node = walk[w].node])
  /\ Return(w)
  /\ UNCHANGED <<resumes, messages, deaths, forsaken, overtaken, deceived>>

\* executeDelay: the job first, waiting_until after it.  A stamp that comes when the job has
\* been taken already puts a session that moves on back to the delay.
EnqueueResume(w) ==
  /\ AtNode(w, "delay")
  /\ \E j \in ResumeIds :
       /\ resumes[j].status = "absent" /\ \A i \in ResumeIds : i < j => resumes[i].status # "absent"
       /\ resumes' = [resumes EXCEPT ![j] =
            [status |-> "pending", tries |-> 0, session |-> walk[w].session, node |-> walk[w].node]]
  /\ Goto(w, "stamp")
  /\ UNCHANGED <<sessions, messages, deaths, forsaken, overtaken, deceived>>

StampWaitingUntil(w) ==
  /\ At(w, "stamp")
  /\ LET s == walk[w].session IN
       /\ WriteRow(s, [sessions[s] EXCEPT !.until = TRUE, !.node = walk[w].node])
       /\ forsaken' = IF \E j \in ResumeIds : /\ resumes[j].session = s /\ resumes[j].node = walk[w].node
                                              /\ resumes[j].status = "pending" /\ resumes[j].tries = 0
                      THEN forsaken ELSE forsaken \cup {s}
  /\ Return(w)
  /\ UNCHANGED <<resumes, messages, deaths, overtaken, deceived>>

\* executeHumanTakeover: whatever the session has become.
HumanTakeover(w) ==
  /\ AtNode(w, "takeover")
  /\ WriteRow(walk[w].session, [sessions[walk[w].session] EXCEPT !.status = "completed"])
  /\ Return(w)
  /\ UNCHANGED <<resumes, messages, deaths, forsaken, overtaken, deceived>>

\* executeGoToFlow: executeFlow again, and nobody comes back to this session.
GoToFlow(w) ==
  /\ AtNode(w, "goto")
  /\ forsaken' = forsaken \cup {walk[w].session}
  /\ walk' = [walk EXCEPT ![w].at = "find", ![w].session = 0, ![w].node = 0]
  /\ UNCHANGED <<sessions, resumes, messages, deaths, overtaken, deceived>>

\* completeSession
CompleteSession(w) ==
  /\ At(w, "complete")
  /\ LET s == walk[w].session IN
       IF sessions[s].status = "active"
       THEN WriteRow(s, [sessions[s] EXCEPT !.status = "completed"])
       ELSE UNCHANGED sessions
  /\ Return(w)
  /\ UNCHANGED <<resumes, messages, deaths, forsaken, overtaken, deceived>>

\* What a node threw ends executeFlow, and is caught by processResumeFlow.
Unwind(w) ==
  /\ At(w, "throw")
  /\ forsaken' = forsaken \cup Unbacked(w)
  /\ LeaveFlow(w, "catch")
  /\ UNCHANGED <<sessions, resumes, messages, deaths, overtaken, deceived>>

----
(* processResumeFlow *)

\* The walkers that are judging the session of a job, which have not seen that it is settled.
Judges(j) == {v \in Walkers : walk[v].at \in Judging /\ OwnSession(v) = resumes[j].session}

\* A pending job, or one whose walker died: claimed, or given up after MaxTries.
TakeJob(w, j) ==
  /\ At(w, "idle") /\ Open(j)
  /\ \A v \in Walkers : walk[v].job # j
  /\ resumes[j].status = "processing" => elders[j] = {}
  /\ LET job == resumes[j] IN
       IF job.tries < MaxTries
       THEN /\ resumes' = [resumes EXCEPT ![j].status = "processing", ![j].tries = job.tries + 1]
            /\ walk' = [walk EXCEPT ![w].at = "look", ![w].job = j]
            /\ UNCHANGED overtaken
       ELSE /\ resumes' = [resumes EXCEPT ![j].status = "failed"]
            /\ walk' = [walk EXCEPT ![w].at = "lookExhausted", ![w].job = j]
            /\ overtaken' = overtaken \cup Judges(j)
  /\ UNCHANGED <<sessions, messages, deaths, forsaken, deceived>>

\* Mutant: a session that has moved on is always taken for one that was resumed.
Parked_movedOn(row) == TRUE

Parked(row) == row.waiting \/ row.until

Look(w) ==
  /\ At(w, "look")
  /\ LET s == OwnSession(w)
         row == sessions[s]
     IN  \/ /\ row.status = "active" /\ row.node = resumes[walk[w].job].node
            /\ walk' = [walk EXCEPT ![w].at = "load", ![w].session = s, ![w].node = row.node]
         \/ /\ row.status = "active" /\ row.node # resumes[walk[w].job].node /\ ~Parked(row)
            /\ walk' = [walk EXCEPT ![w].at = "count", ![w].recent = row.recent]
         \/ /\ row.status # "active" \/ (row.node # resumes[walk[w].job].node /\ Parked(row))
            /\ Goto(w, "settled")
         \/ Goto(w, "retry")   \* the read fails
  /\ UNCHANGED <<sessions, resumes, messages, deaths, forsaken, overtaken, deceived>>

\* Mutant: only a job that is being worked on counts, not one that is still to be taken.
Covering_worked(w) ==
  {j \in ResumeIds : /\ resumes[j].status = "processing" /\ j # walk[w].job
                     /\ resumes[j].session = OwnSession(w)}

\* isSessionParkedRecoverably: the other jobs of the session that are not done.
Covering(w) == {j \in ResumeIds : /\ Open(j) /\ j # walk[w].job
                                  /\ resumes[j].session = OwnSession(w)}

\* Two jobs that each take the other for the one that goes on with the session.
TrustsInVain(w) ==
  IF Covering(w) # {} /\ \A j \in Covering(w) : \E v \in Walkers : walk[v].job = j /\ At(v, "settled")
  THEN {OwnSession(w)} ELSE {}

\* Not wasSessionWrittenRecently: whoever wrote to the session is gone.
Decidable(w) == ~walk[w].recent

Count(w) ==
  /\ At(w, "count")
  /\ \/ /\ Covering(w) # {}
        /\ Goto(w, "settled") /\ deceived' = deceived \cup TrustsInVain(w)
     \/ /\ Covering(w) = {}
        /\ Goto(w, IF Decidable(w) THEN "condemned" ELSE "recheck") /\ UNCHANGED deceived
     \/ Goto(w, "retry") /\ UNCHANGED deceived   \* the read fails
  /\ UNCHANGED <<sessions, resumes, messages, deaths, forsaken, overtaken>>

----
(* The end of a job. *)

\* A job is settled by id.
SettleJob(w, status, tries, step) ==
  /\ resumes' = [resumes EXCEPT ![walk[w].job].status = status, ![walk[w].job].tries = tries]
  /\ walk' = [walk EXCEPT ![w] = IF step = "idle" THEN NoWalk ELSE [@ EXCEPT !.at = step]]
  /\ overtaken' = (IF step = "idle" THEN overtaken \ {w} ELSE overtaken) \cup
       (IF status = "pending" THEN {} ELSE Judges(walk[w].job) \ {w})
  /\ UNCHANGED <<sessions, messages, deaths, forsaken, deceived>>

Tries(w) == resumes[walk[w].job].tries

CompleteJob(w) == At(w, "settled") /\ SettleJob(w, "completed", Tries(w), "idle")

\* A recheck is no failure, and gives the attempt back.
RecheckJob(w) == At(w, "recheck") /\ SettleJob(w, "pending", Tries(w) - 1, "idle")

RetryJob(w) ==
  /\ At(w, "retry")
  /\ IF Tries(w) < MaxTries THEN SettleJob(w, "pending", Tries(w), "idle")
                            ELSE SettleJob(w, "failed", Tries(w), "cancel")

FailJob(w) ==
  \/ At(w, "giveUp")    /\ SettleJob(w, "failed", Tries(w), "cancel")
  \/ At(w, "condemned") /\ SettleJob(w, "failed", Tries(w), "cancelDead")

\* The cancel of the catch block is by id: whatever the session has become.
CatchThrow(w) ==
  /\ At(w, "catch")
  /\ \/ /\ WriteRow(OwnSession(w), [sessions[OwnSession(w)] EXCEPT !.status = "cancelled"])
        /\ Goto(w, "retry")
     \/ Goto(w, "giveUp") /\ UNCHANGED sessions   \* SessionCancelError
  /\ UNCHANGED <<resumes, messages, deaths, forsaken, overtaken, deceived>>

\* settleFailedWork, after failJobAndSettle has failed the job; its write may fail.
Leave(w) ==
  /\ walk' = [walk EXCEPT ![w] = NoWalk]
  /\ overtaken' = overtaken \ {w}

CancelSession(w) ==
  /\ At(w, "cancel") \/ At(w, "cancelDead")
  /\ LET s == OwnSession(w) IN
       \/ /\ IF sessions[s].status = "active"
             THEN WriteRow(s, [sessions[s] EXCEPT !.status = "cancelled"]) ELSE UNCHANGED sessions
          /\ UNCHANGED forsaken
       \/ forsaken' = forsaken \cup {s} /\ UNCHANGED sessions
  /\ Leave(w)
  /\ UNCHANGED <<resumes, messages, deaths, deceived>>

\* onlyIfStuckOnDelayNode: a job whose walkers died MaxTries times.
LookExhausted(w) ==
  /\ At(w, "lookExhausted")
  /\ LET s == OwnSession(w)
         row == sessions[s]
         stuck == row.node = resumes[walk[w].job].node
     IN  \/ row.status = "active" /\ stuck /\ Goto(w, "cancel") /\ UNCHANGED <<forsaken, overtaken>>
         \/ /\ row.status = "active" /\ ~stuck /\ ~Parked(row)
            /\ walk' = [walk EXCEPT ![w].at = "countExhausted", ![w].recent = row.recent]
            /\ UNCHANGED <<forsaken, overtaken>>
         \/ /\ row.status # "active" \/ (~stuck /\ Parked(row))
            /\ Leave(w) /\ UNCHANGED forsaken
         \/ forsaken' = forsaken \cup {s} /\ Leave(w)   \* the read fails
  /\ UNCHANGED <<sessions, resumes, messages, deaths, deceived>>

CountExhausted(w) ==
  /\ At(w, "countExhausted")
  /\ \/ /\ Covering(w) # {}
        /\ deceived' = deceived \cup TrustsInVain(w) /\ Leave(w) /\ UNCHANGED forsaken
     \/ /\ Covering(w) = {} /\ Decidable(w)
        /\ Goto(w, "cancelDead") /\ UNCHANGED <<forsaken, deceived, overtaken>>
     \/ /\ Covering(w) = {} => ~Decidable(w)   \* written recently, or the read fails
        /\ forsaken' = forsaken \cup {OwnSession(w)} /\ Leave(w) /\ UNCHANGED deceived
  /\ UNCHANGED <<sessions, resumes, messages, deaths>>

----
(* Time and death. *)

\* Nothing was written for five minutes: no walker that wrote to the session, or that was
\* there before its marks of waiting were cleared, is still alive.
Ages(s) ==
  /\ sessions[s].recent
  /\ \A w \in Walkers : walk[w].session = s =>
       /\ walk[w].at \notin Traversing \cup {"throw"}
       /\ walk[w].at \in {"load", "resume"} => Parked(sessions[s])
  /\ sessions' = [sessions EXCEPT ![s].recent = FALSE]
  /\ UNCHANGED <<resumes, walk, messages, deaths, forsaken, overtaken, deceived>>

Die(w) ==
  /\ ~At(w, "idle") /\ deaths < MaxDeaths
  /\ deaths' = deaths + 1
  /\ forsaken' = forsaken \cup Unbacked(w) \cup
       (IF walk[w].at \in {"cancel", "cancelDead", "lookExhausted", "countExhausted"}
        THEN {OwnSession(w)} ELSE {})
  /\ Leave(w)
  /\ UNCHANGED <<sessions, resumes, messages, deceived>>

\* What the claims know of the walkers' age.
KeepTime ==
  elders' = [j \in ResumeIds |->
    {v \in IF resumes'[j].tries > resumes[j].tries THEN Walkers ELSE elders[j] :
       walk'[v].at # "idle" /\ walk'[v].job # j}]

FlowStep ==
  \/ \E w \in Walkers :
       \/ StartMessage(w) \/ FindWaiting(w) \/ CreateSession(w) \/ LoadFlow(w) \/ Resume(w)
       \/ MissingNode(w) \/ EnterNode(w) \/ Work(w) \/ WaitForInput(w) \/ EnqueueResume(w)
       \/ StampWaitingUntil(w) \/ HumanTakeover(w) \/ GoToFlow(w) \/ CompleteSession(w) \/ Unwind(w)
       \/ Look(w) \/ Count(w) \/ CompleteJob(w) \/ RecheckJob(w) \/ RetryJob(w) \/ FailJob(w)
       \/ CatchThrow(w) \/ CancelSession(w) \/ LookExhausted(w) \/ CountExhausted(w) \/ Die(w)
  \/ \E w \in Walkers, j \in ResumeIds : TakeJob(w, j)
  \/ \E s \in SessionIds : Ages(s)

FlowNext == FlowStep /\ KeepTime

FlowSpec == FlowInit /\ [][FlowNext]_flowVars

----
(* Properties. *)

InHand(s) == \E w \in Walkers : walk[w].session = s \/ OwnSession(w) = s

Covered(s) == sessions[s].waiting \/ (\E j \in ResumeIds : Open(j) /\ resumes[j].session = s)

\* However many walkers of its jobs throw or die, an active session waits for a message, or
\* has a job left that carries on with it or ends it, or is being walked: apart from the
\* sessions named in forsaken, none stays active for ever with nobody to come back to it.
SessionRecoverable ==
  \A s \in SessionIds \ (forsaken \cup deceived) :
    sessions[s].status = "active" => InHand(s) \/ Covered(s)

Live(s, w) ==
  \/ Parked(sessions[s])
  \/ \E v \in Walkers \ {w} : walk[v].session = s /\ ~At(v, "throw")
  \/ \E j \in ResumeIds \ {walk[w].job} :
       Open(j) /\ resumes[j].session = s /\ resumes[j].node = sessions[s].node

\* A job that finds its session moved on, and takes it for dead, never cancels a session that
\* another walker is in the middle of or that waits to be resumed: unless a job of that
\* session was settled between its two reads.
LiveNotCancelled ==
  [][\A w \in Walkers : At(w, "cancelDead") /\ walk'[w].at = "idle" /\ sessions' # sessions
       => w \in overtaken \/ ~Live(OwnSession(w), w)]_flowVars
====
