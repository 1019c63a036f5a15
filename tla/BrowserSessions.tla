---- MODULE BrowserSessions ----
(***************************************************************************)
(* A browser session (lib/browser-sessions/service.ts, migration 00035)    *)
(* and the secrets that hold its signed-in state: owners import a state,   *)
(* attest and revoke the session, the worker that leases a check is given  *)
(* the state and reports what it found, a sweep expires the session.       *)
(* Owners also rotate, revoke and delete the secret of a state on the      *)
(* Secrets page, which knows nothing of sessions.                          *)
(*                                                                         *)
(* A flow reads the session once, calls the secret store step by step (the *)
(* module Secrets) and writes the session by its id: only the trigger      *)
(* stands between a flow and what happened since its read.  Statuses that  *)
(* call for a person are one, and so are healthy and degraded.             *)
(***************************************************************************)
EXTENDS Secrets

CONSTANTS NoSecret, MaxFlows   \* bound: flows that are started, requests of the page included

ASSUME SessionAssumption == NoSecret \notin SecretIds /\ MaxFlows \in Nat

VARIABLES
  session,    \* browser_sessions: status, storage_state_secret_id, permitted_use_confirmed
  flow,       \* what each caller does for the session, and the secret it read there
  flows,      \* flows started so far
  \* history
  overlapped, \* a flow that stores a state ran at the same time as another, or as one that shreds it
  missed      \* a flow ended in an error

sessionVars == <<session, flow, flows, overlapped, missed>>

NoFlow == [kind |-> "none"]
FlowKinds  == {"import", "revoke", "check", "attest", "expire"}
\* What an owner may do to a secret on the Secrets page.
PageOps   == {"rotate", "revoke", "delete"}
FlowSteps == PageOps \cup {"load", "store", "create", "update", "conclude", "resolve", "run", "report"}

SessionStatuses == {"human", "unverified", "usable", "revoked"}
Flows == [kind : FlowKinds \cup {"page"}, at : FlowSteps, secret : SecretIds \cup {NoSecret}]

SessionInit ==
  /\ SecretsInit
  /\ session = [status |-> "human", secret |-> NoSecret, attested |-> FALSE]
  /\ flow = [c \in Callers |-> NoFlow]
  /\ flows = 0
  /\ overlapped = FALSE /\ missed = FALSE

SessionTypeOK ==
  /\ SecretsTypeOK
  /\ session \in [status : SessionStatuses, secret : SecretIds \cup {NoSecret}, attested : BOOLEAN]
  /\ flow \in [Callers -> Flows \cup {NoFlow}]
  /\ flows \in 0..MaxFlows
  /\ overlapped \in BOOLEAN /\ missed \in BOOLEAN

----
(* Flows. *)

In(c, kind, at) == flow[c].kind = kind /\ flow[c].at = at

FlowTo(c, at) == flow' = [flow EXCEPT ![c].at = at]

Finished(c) == flow' = [flow EXCEPT ![c] = NoFlow]

\* Flows that put a state into the secret store, and flows that shred one.
Storing(c)   == flow[c].kind = "import" \/ In(c, "check", "store") \/ In(c, "page", "rotate")
Shredding(c) == flow[c].kind = "revoke" \/ In(c, "page", "delete")

\* c begins to store a state, or to shred one, while another such flow runs.
Overlap(c, shreds) ==
  overlapped' = (overlapped \/ \E d \in Callers \ {c} :
                                 Storing(d) \/ (~shreds /\ Shredding(d)))

StartFlow(c, kind) ==
  /\ flow[c] = NoFlow /\ Idle(c) /\ flows < MaxFlows
  /\ flow' = [flow EXCEPT ![c] = [kind |-> kind, at |-> "load", secret |-> NoSecret]]
  /\ flows' = flows + 1
  /\ UNCHANGED <<secretsVars, session, overlapped, missed>>

\* Mutant: the trigger is missing.
Guarded_none(new) == TRUE

\* browser_session_guard: a revoked session stays revoked and gets no other state.
Guarded(new) ==
  session.status = "revoked" =>
    new.status = "revoked" /\ new.secret \in {session.secret, NoSecret}

\* The session written by id: the write fails, its answer is lost, or the trigger refuses it.
WriteSession(c, new, at) ==
  \/ /\ Guarded(new)
     /\ session' = new
     /\ FlowTo(c, at) /\ UNCHANGED missed
  \/ /\ session' \in {session} \cup (IF Guarded(new) THEN {new} ELSE {})
     /\ Finished(c) /\ missed' = TRUE

\* The store's operation of c returned: ok, unavailable, or an error.
Returned(c, result) == Ended(c) /\ call[c].at = result /\ ReturnCall(c)

----
(* importStorageState *)

LoadToImport(c) ==
  /\ In(c, "import", "load")
  /\ IF session.status = "revoked"
     THEN Finished(c) /\ UNCHANGED <<call, overlapped>>
     ELSE IF session.secret = NoSecret
     THEN FlowTo(c, "create") /\ Overlap(c, FALSE) /\ UNCHANGED call
     ELSE /\ Begin(c, "rotate", "load", session.secret)
          /\ flow' = [flow EXCEPT ![c].at = "store", ![c].secret = session.secret]
          /\ Overlap(c, FALSE)
  /\ UNCHANGED <<store, kek, faulted, session, flows, missed>>

\* A secret that was revoked or deleted is replaced by a fresh one.
Rotated(c) ==
  /\ In(c, "import", "store")
  /\ \/ Returned(c, "ok") /\ FlowTo(c, "update") /\ UNCHANGED missed
     \/ Returned(c, "unavailable") /\ FlowTo(c, "create") /\ UNCHANGED missed
     \/ Returned(c, "error") /\ Finished(c) /\ missed' = TRUE
  /\ UNCHANGED <<session, flows, overlapped>>

Create(c) ==
  /\ In(c, "import", "create") /\ Idle(c)
  /\ \E x \in SecretIds :
       /\ Request(c, "create", x)
       /\ flow' = [flow EXCEPT ![c].secret = x]
  /\ UNCHANGED <<store, kek, faulted, session, flows, overlapped, missed>>

Created(c) ==
  /\ In(c, "import", "create")
  /\ \/ Returned(c, "ok") /\ FlowTo(c, "update") /\ UNCHANGED missed
     \/ Returned(c, "error") /\ Finished(c) /\ missed' = TRUE
  /\ UNCHANGED <<session, flows, overlapped>>

PointToState(c) ==
  /\ In(c, "import", "update")
  /\ WriteSession(c, [session EXCEPT !.secret = flow[c].secret, !.status = "unverified"], "conclude")
  /\ UNCHANGED <<secretsVars, flows, overlapped>>

\* Parked checks are cancelled, or a revoked session's work is; owners are told, and the
\* audit row is written.
Conclude(c) ==
  /\ flow[c] # NoFlow /\ flow[c].at = "conclude"
  /\ Finished(c)
  /\ UNCHANGED <<secretsVars, session, flows, overlapped, missed>>

----
(* revokeBrowserSession *)

BeginRevocation(c) ==
  /\ In(c, "revoke", "load")
  /\ IF session.status = "revoked"
     THEN Finished(c) /\ UNCHANGED overlapped
     ELSE /\ flow' = [flow EXCEPT ![c].at = "update", ![c].secret = session.secret]
          /\ Overlap(c, TRUE)
  /\ UNCHANGED <<secretsVars, session, flows, missed>>

MarkRevoked(c) ==
  /\ In(c, "revoke", "update")
  /\ WriteSession(c, [session EXCEPT !.status = "revoked"],
           IF flow[c].secret = NoSecret THEN "conclude" ELSE "delete")
  /\ UNCHANGED <<secretsVars, flows, overlapped>>

\* Mutant: the secret is only revoked.
ShredWith_revoke == "revoke"

\* The state is crypto-shredded.
ShredWith == "delete"

DeleteState(c) ==
  /\ In(c, "revoke", "delete")
  /\ \/ /\ Idle(c) /\ Begin(c, ShredWith, "load", flow[c].secret)
        /\ UNCHANGED <<store, kek, faulted, flow, missed>>
     \/ Returned(c, "ok") /\ FlowTo(c, "conclude") /\ UNCHANGED missed
     \/ Returned(c, "error") /\ Finished(c) /\ missed' = TRUE
     \/ Returned(c, "unavailable") /\ Finished(c) /\ missed' = TRUE
  /\ UNCHANGED <<session, flows, overlapped>>

----
(* attestSession, and the worker's side of a check. *)

LoadToAttest(c) ==
  /\ In(c, "attest", "load")
  /\ IF session.status = "revoked" THEN Finished(c) ELSE FlowTo(c, "update")
  /\ UNCHANGED <<secretsVars, session, flows, overlapped, missed>>

\* An owner confirms or withdraws the permitted use.
Attest(c) ==
  /\ In(c, "attest", "update")
  /\ \E b \in BOOLEAN : WriteSession(c, [session EXCEPT !.attested = b], "conclude")
  /\ UNCHANGED <<secretsVars, flows, overlapped>>

\* sessionForLeasedTask: the blockers, then the state is resolved.
Lease(c) ==
  /\ In(c, "check", "load")
  /\ IF session.status # "revoked" /\ session.secret # NoSecret /\ session.attested
     THEN Begin(c, "resolve", "load", session.secret) /\ FlowTo(c, "resolve")
     ELSE Finished(c) /\ UNCHANGED call
  /\ UNCHANGED <<store, kek, faulted, session, flows, overlapped, missed>>

Leased(c) ==
  /\ In(c, "check", "resolve")
  /\ \/ Returned(c, "ok") /\ FlowTo(c, "run")
     \/ (Returned(c, "unavailable") \/ Returned(c, "error")) /\ Finished(c)
  /\ UNCHANGED <<session, flows, overlapped, missed>>

\* reportSessionState reads the session again ...
Report(c) ==
  /\ In(c, "check", "run")
  /\ IF session.status = "revoked"
     THEN Finished(c)
     ELSE flow' = [flow EXCEPT ![c].at = "report", ![c].secret = session.secret]
  /\ UNCHANGED <<secretsVars, session, flows, overlapped, missed>>

\* ... and writes what the worker saw; a healthy run may bring a refreshed state.
Record(c) ==
  /\ In(c, "check", "report")
  /\ \/ /\ WriteSession(c, [session EXCEPT !.status = "usable"], "store")
        /\ IF flow'[c] # NoFlow THEN Overlap(c, FALSE) ELSE UNCHANGED overlapped
     \/ WriteSession(c, [session EXCEPT !.status = "human"], "conclude") /\ UNCHANGED overlapped
  /\ UNCHANGED <<secretsVars, flows>>

\* The refresh may fail in any way.
Refresh(c) ==
  /\ In(c, "check", "store")
  /\ \/ /\ Idle(c) /\ flow[c].secret # NoSecret
        /\ Begin(c, "rotate", "load", flow[c].secret)
        /\ UNCHANGED <<store, kek, faulted, flow>>
     \/ Idle(c) /\ Finished(c) /\ UNCHANGED secretsVars
     \/ Ended(c) /\ ReturnCall(c) /\ Finished(c)
  /\ UNCHANGED <<session, flows, overlapped, missed>>

----
(* sweepBrowserSessions *)

\* The sweep read the session before it writes; the trigger keeps a revoked one.
Expire(c) ==
  /\ In(c, "expire", "load")
  /\ \/ session.status \in {"unverified", "usable"} /\ FlowTo(c, "update")
     \/ session.status \notin {"unverified", "usable"} /\ Finished(c)
  /\ UNCHANGED <<secretsVars, session, flows, overlapped, missed>>

Expired(c) ==
  /\ In(c, "expire", "update")
  /\ WriteSession(c, [session EXCEPT !.status = "human"], "conclude")
  /\ UNCHANGED <<secretsVars, flows, overlapped>>

----
(* The Secrets page. *)

\* A request names any secret there is.
PageRequest(c) ==
  /\ flow[c] = NoFlow /\ flows < MaxFlows
  /\ \E op \in PageOps, x \in SecretIds :
       /\ Request(c, op, x)
       /\ flow' = [flow EXCEPT ![c] = [kind |-> "page", at |-> op, secret |-> x]]
       /\ IF op = "revoke" THEN UNCHANGED overlapped ELSE Overlap(c, op = "delete")
  /\ flows' = flows + 1
  /\ UNCHANGED <<store, kek, faulted, session, missed>>

\* Whatever comes out, the session is not told.
PageReturns(c) ==
  /\ flow[c].kind = "page"
  /\ Ended(c) /\ ReturnCall(c) /\ Finished(c)
  /\ UNCHANGED <<session, flows, overlapped, missed>>

----
\* A flow dies between two steps.
Drop(c) ==
  /\ flow[c] # NoFlow
  /\ Finished(c)
  /\ \/ Idle(c) /\ UNCHANGED secretsVars
     \/ Abandon(c)
     \/ ReturnCall(c)
  /\ missed' = (missed \/ flow[c].kind \in {"import", "revoke"} \/ ~Idle(c))
  /\ UNCHANGED <<session, flows, overlapped>>

SessionStep(c) ==
  \/ LoadToImport(c) \/ Rotated(c) \/ Create(c) \/ Created(c) \/ PointToState(c)
  \/ BeginRevocation(c) \/ MarkRevoked(c) \/ DeleteState(c) \/ Conclude(c)
  \/ LoadToAttest(c) \/ Attest(c) \/ Lease(c) \/ Leased(c) \/ Report(c) \/ Record(c) \/ Refresh(c)
  \/ Expire(c) \/ Expired(c) \/ PageReturns(c)
  \/ SecretStep(c) /\ UNCHANGED sessionVars

SessionNext ==
  \E c \in Callers :
    (\E kind \in FlowKinds : StartFlow(c, kind)) \/ PageRequest(c) \/ SessionStep(c) \/ Drop(c)

SessionSpec == SessionInit /\ [][SessionNext]_<<secretsVars, sessionVars>>

----
(* Properties. *)

Quiet == \A c \in Callers : flow[c] = NoFlow

Shredded(x) == \A n \in Numbers : ~versions[x][n].held

\* A session that was revoked leaves no state behind, unless a state was stored and shredded
\* at the same time, or a flow died or failed: an import that comes later is stopped by the
\* trigger, and what the session points at is deleted, not only revoked.  What it pointed at
\* before stays in one case, when the owner had revoked that secret on the Secrets page: the
\* import that came next left it for a fresh one.
RevocationShreds ==
  session.status = "revoked" /\ Quiet /\ ~overlapped /\ ~missed /\ faulted = {}
    => \A x \in SecretIds : Shredded(x) \/ (sstatus[x] = "revoked" /\ x # session.secret)

\* A revoked session stays revoked and is given no state that it did not have.
RevokedForGood ==
  [][session.status = "revoked" =>
       session'.status = "revoked" /\ session'.secret = session.secret]_sessionVars
====
