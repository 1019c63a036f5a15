---- MODULE MCServices ----
(***************************************************************************)
(* The services beside the task plane on small instances.  They share no   *)
(* state (the webhook's processor calls executeFlow, which FlowSessions    *)
(* takes up as a message), so a behaviour is one of one part: the others   *)
(* stay in their initial state.                                            *)
(***************************************************************************)
EXTENDS BrowserSessions, Artifacts, WebhookLedger, Enrollments, FlowSessions,
        Schedules, TLC

CONSTANTS Parts, j1, j2

VARIABLE part

secretVars == <<secretsVars, sessionVars>>

ServicesInit ==
  /\ part \in Parts
  /\ SessionInit /\ ArtifactsInit /\ LedgerInit /\ SequenceInit /\ FlowInit
  /\ SchedulesInit
  /\ part # "artifacts" => checksum

\* One secret is enough for the store by itself.
OneSecret == Cardinality({x \in SecretIds : sstatus'[x] # "absent"}) <= 1

\* One deletion that stops half-way is enough.
HalfOnce == Cardinality(halfDeleted') <= 1

\* A session beside another one is created inside goToFlow, by the walker of a job.
OtherInside ==
  \A w \in Walkers :
    At(w, "create") /\ sessions' # sessions /\ sessions[1].status # "absent" => walk[w].job # 0

\* A run of content.recur reads nothing of the schedule, so it loses nothing by coming after it.
RunsLast == (\E h \in Hands : hand'[h].at = "look") => schedule.status = "deleted"

ServicesNext ==
  /\ UNCHANGED part
  /\ \/ /\ part = "secrets" /\ SecretsNext /\ OneSecret
        /\ UNCHANGED <<sessionVars, artifactVars, ledgerVars, sequenceVars, flowVars, scheduleVars>>
     \/ /\ part = "sessions" /\ SessionNext
        /\ UNCHANGED <<artifactVars, ledgerVars, sequenceVars, flowVars, scheduleVars>>
     \/ /\ part = "artifacts" /\ ArtifactsNext /\ HalfOnce
        /\ UNCHANGED <<secretVars, ledgerVars, sequenceVars, flowVars, scheduleVars>>
     \/ /\ part = "ledger" /\ LedgerNext
        /\ UNCHANGED <<secretVars, artifactVars, sequenceVars, flowVars, scheduleVars>>
     \/ /\ part = "sequence" /\ SequenceNext
        /\ UNCHANGED <<secretVars, artifactVars, ledgerVars, flowVars, scheduleVars>>
     \/ /\ part = "flow" /\ FlowNext /\ OtherInside
        /\ UNCHANGED <<secretVars, artifactVars, ledgerVars, sequenceVars, scheduleVars>>
     \/ /\ part = "schedule" /\ SchedulesNext /\ RunsLast
        /\ UNCHANGED <<secretVars, artifactVars, ledgerVars, sequenceVars, flowVars>>

ServicesSpec ==
  ServicesInit /\ [][ServicesNext]_<<part, secretVars, artifactVars, ledgerVars, sequenceVars,
                                     flowVars, scheduleVars>>

\* The values of every service's variables.
ServicesTypeOK ==
  /\ SessionTypeOK /\ ArtifactsTypeOK /\ LedgerTypeOK /\ SequenceTypeOK /\ FlowTypeOK
  /\ SchedulesTypeOK

MCOccurredAt == (j1 :> 1) @@ (j2 :> 2)
MCSteps == (0 :> "message") @@ (1 :> "delay") @@ (2 :> "message")
MCTimings == {[cron |-> FALSE, every |-> 1], [cron |-> TRUE, every |-> 2]}
MCFlow  == << {"delay"}, {"input", "delay"}, {"work", "takeover", "goto"} >>

\* Requests, runs, walkers and hands are the same model values, and so are secrets and artifacts.
ServiceSymmetry == Permutations(Callers) \cup Permutations(SecretIds)
====
