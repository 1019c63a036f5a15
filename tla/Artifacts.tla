---- MODULE Artifacts ----
(***************************************************************************)
(* Artifacts (lib/artifacts/service.ts): a row of metadata in the database *)
(* and an object in S3-compatible storage that clients write themselves,   *)
(* through a URL that lives 15 minutes.  Requests and the retention sweep  *)
(* go from call to call; any of them may die in between.                   *)
(*                                                                         *)
(* Every artifact has the same size.  An object is what was declared, or   *)
(* alike in size, type and first bytes, or other; where the store checks   *)
(* the signed checksum only the first can be written.                      *)
(***************************************************************************)
EXTENDS Integers, FiniteSets

CONSTANTS
  ArtifactIds,  \* ids of artifacts
  Requests,     \* requests in flight at once
  Quota         \* maxWorkspaceStorageBytes, in artifacts

ASSUME ArtifactAssumption == IsFiniteSet(ArtifactIds) /\ IsFiniteSet(Requests) /\ Quota \in Nat

VARIABLES
  astatus,    \* artifacts.status
  object,     \* what the store holds under the object key
  url,        \* the upload URL: not signed yet, live, or expired
  overdue,    \* retention_until has passed, or the upload is more than 24 hours old
  checksum,   \* ARTIFACT_S3_CHECKSUM: the URL signs the checksum
  req,        \* the requests, and the artifact each works on
  sweep,      \* artifacts the retention sweep scanned and has not dealt with
  \* history
  sweptAway,  \* artifacts the sweep marked as deleted
  halfDeleted \* artifacts whose deletion stopped between object and row

artifactVars == <<astatus, object, url, overdue, checksum, req, sweep, sweptAway, halfDeleted>>

Contents == {"declared", "alike", "other"}
NoRequest == [at |-> "idle"]
RequestSteps == {"insert", "sign", "head", "accept", "reject", "remove", "mark"}
RequestRows == [at : RequestSteps, artifact : ArtifactIds]

ArtifactsInit ==
  /\ astatus = [a \in ArtifactIds |-> "absent"]
  /\ object  = [a \in ArtifactIds |-> "none"]
  /\ url     = [a \in ArtifactIds |-> "none"]
  /\ overdue = [a \in ArtifactIds |-> FALSE]
  /\ checksum \in BOOLEAN
  /\ req   = [r \in Requests |-> NoRequest]
  /\ sweep = [todo |-> {}, removed |-> {}]
  /\ sweptAway = {} /\ halfDeleted = {}

ArtifactsTypeOK ==
  /\ astatus \in [ArtifactIds -> {"absent", "pending_upload", "available", "quarantined", "deleted"}]
  /\ object \in [ArtifactIds -> {"none"} \cup Contents]
  /\ url \in [ArtifactIds -> {"none", "live", "expired"}]
  /\ overdue \in [ArtifactIds -> BOOLEAN]
  /\ checksum \in BOOLEAN
  /\ req \in [Requests -> RequestRows \cup {NoRequest}]
  /\ sweep \in [todo : SUBSET ArtifactIds, removed : SUBSET ArtifactIds]
  /\ sweptAway \subseteq ArtifactIds /\ halfDeleted \subseteq ArtifactIds

Rest == <<url, overdue, checksum, sweep, sweptAway, halfDeleted>>

ReqAt(r, s) == req[r].at = s
ReqTo(r, s) == req' = [req EXCEPT ![r].at = s]
EndRequest(r) == req' = [req EXCEPT ![r] = NoRequest]

StartRequest(r, s, a) ==
  /\ req[r] = NoRequest
  /\ req' = [req EXCEPT ![r] = [at |-> s, artifact |-> a]]

----
(* createUpload *)

\* Rows that count against the quota, uploaded or not.
Usage == {a \in ArtifactIds : astatus[a] \in {"pending_upload", "available", "quarantined"}}

HasRoom(used) == used + 1 <= Quota

\* The usage is added up from a read of all rows ...
CheckQuota(r) ==
  /\ HasRoom(Cardinality(Usage))
  /\ \E a \in ArtifactIds :
       /\ astatus[a] = "absent" /\ \A q \in Requests : ~(ReqAt(q, "insert") /\ req[q].artifact = a)
       /\ StartRequest(r, "insert", a)
  /\ UNCHANGED <<astatus, object, Rest>>

\* ... and the row inserted afterwards.
InsertRow(r) ==
  /\ ReqAt(r, "insert")
  /\ astatus' = [astatus EXCEPT ![req[r].artifact] = "pending_upload"]
  /\ ReqTo(r, "sign")
  /\ UNCHANGED <<object, Rest>>

SignUpload(r) ==
  /\ ReqAt(r, "sign")
  /\ url' = [url EXCEPT ![req[r].artifact] = "live"]
  /\ EndRequest(r)
  /\ UNCHANGED <<astatus, object, overdue, checksum, sweep, sweptAway, halfDeleted>>

\* The client writes the object, as often as the URL lives.
Put(a) ==
  /\ url[a] = "live"
  /\ \E o \in (IF checksum THEN {"declared"} ELSE Contents) : object' = [object EXCEPT ![a] = o]
  /\ UNCHANGED <<astatus, req, Rest>>

----
(* completeUpload *)

LoadToComplete(r) ==
  /\ \E a \in ArtifactIds : astatus[a] = "pending_upload" /\ StartRequest(r, "head", a)
  /\ UNCHANGED <<astatus, object, Rest>>

\* Mutant: a missing object passes for an empty list of problems.
Present_any(a) == TRUE

Present(a) == object[a] # "none"

\* headObject and getRange: nothing to verify yet, or a verdict.
Verify(r) ==
  /\ ReqAt(r, "head")
  /\ LET a == req[r].artifact IN
       IF ~Present(a) THEN EndRequest(r)
       ELSE ReqTo(r, IF object[a] = "other" THEN "reject" ELSE "accept")
  /\ UNCHANGED <<astatus, object, Rest>>

\* The verdict is written only while the row still waits for its upload.
Judge(r) ==
  /\ ReqAt(r, "accept") \/ ReqAt(r, "reject")
  /\ LET a == req[r].artifact IN
       astatus' = IF astatus[a] # "pending_upload" THEN astatus
                  ELSE [astatus EXCEPT ![a] = IF ReqAt(r, "accept") THEN "available" ELSE "quarantined"]
  /\ EndRequest(r)
  /\ UNCHANGED <<object, Rest>>

----
(* deleteArtifact *)

LoadToRemove(r) ==
  /\ \E a \in ArtifactIds :
       /\ astatus[a] \notin {"absent", "deleted"}
       /\ StartRequest(r, "remove", a)
  /\ UNCHANGED <<astatus, object, Rest>>

\* The object first ...
RemoveObject(r) ==
  /\ ReqAt(r, "remove")
  /\ object' = [object EXCEPT ![req[r].artifact] = "none"]
  /\ ReqTo(r, "mark")
  /\ UNCHANGED <<astatus, Rest>>

\* ... then the row, whatever it has become.  The write may fail.
MarkDeleted(r) ==
  /\ ReqAt(r, "mark")
  /\ LET a == req[r].artifact IN
       \/ /\ astatus' = [astatus EXCEPT ![a] = "deleted"]
          /\ UNCHANGED halfDeleted
       \/ UNCHANGED astatus /\ halfDeleted' = halfDeleted \cup {a}
  /\ EndRequest(r)
  /\ UNCHANGED <<object, url, overdue, checksum, sweep, sweptAway>>

\* A request dies.
DropRequest(r) ==
  /\ req[r] # NoRequest
  /\ EndRequest(r)
  /\ halfDeleted' = halfDeleted \cup (IF ReqAt(r, "mark") THEN {req[r].artifact} ELSE {})
  /\ UNCHANGED <<astatus, object, url, overdue, checksum, sweep, sweptAway>>

----
(* sweepArtifacts *)

\* Mutant: an upload counts as abandoned as soon as it is pending.
Sweepable_young(a) ==
  astatus[a] # "absent" /\ astatus[a] # "deleted" /\ (overdue[a] \/ astatus[a] = "pending_upload")

\* Retention that is over, and uploads abandoned for a day.
Sweepable(a) == astatus[a] \notin {"absent", "deleted"} /\ overdue[a]

\* The rows to deal with are read once, up to a limit.
ScanSweep ==
  /\ sweep = [todo |-> {}, removed |-> {}]
  /\ \E S \in SUBSET {a \in ArtifactIds : Sweepable(a)} : S # {} /\ sweep' = [sweep EXCEPT !.todo = S]
  /\ UNCHANGED <<astatus, object, url, overdue, checksum, req, sweptAway, halfDeleted>>

SweepObject ==
  /\ sweep.removed = {}
  /\ \E a \in sweep.todo :
       /\ object' = [object EXCEPT ![a] = "none"]
       /\ sweep'  = [sweep EXCEPT !.removed = {a}]
  /\ UNCHANGED <<astatus, url, overdue, checksum, req, sweptAway, halfDeleted>>

\* The result of this write is not looked at.
SweepRow ==
  /\ \E a \in sweep.removed :
       /\ sweep' = [todo |-> sweep.todo \ {a}, removed |-> {}]
       /\ \/ /\ astatus'   = [astatus EXCEPT ![a] = "deleted"]
             /\ sweptAway' = sweptAway \cup {a}
             /\ UNCHANGED halfDeleted
          \/ UNCHANGED <<astatus, sweptAway>> /\ halfDeleted' = halfDeleted \cup {a}
  /\ UNCHANGED <<object, url, overdue, checksum, req>>

\* The sweep dies, or the store fails: the next one scans again.
DropSweep ==
  /\ sweep.todo # {}
  /\ sweep' = [todo |-> {}, removed |-> {}]
  /\ halfDeleted' = halfDeleted \cup sweep.removed
  /\ UNCHANGED <<astatus, object, url, overdue, checksum, req, sweptAway>>

----
(* Time: a URL lives 15 minutes, retention and abandonment are a day and more. *)

ExpireUrl(a) ==
  /\ url[a] = "live"
  /\ url' = [url EXCEPT ![a] = "expired"]
  /\ UNCHANGED <<astatus, object, overdue, checksum, req, sweep, sweptAway, halfDeleted>>

\* No request lasts that long; some artifacts are kept for ever once they are available.
ComeDue(a) ==
  /\ astatus[a] \in {"pending_upload", "available", "quarantined"} /\ ~overdue[a]
  /\ url[a] # "live" /\ \A r \in Requests : req[r] # NoRequest => req[r].artifact # a
  /\ overdue' = [overdue EXCEPT ![a] = TRUE]
  /\ UNCHANGED <<astatus, object, url, checksum, req, sweep, sweptAway, halfDeleted>>

ArtifactsNext ==
  \/ \E r \in Requests :
       \/ CheckQuota(r) \/ InsertRow(r) \/ SignUpload(r) \/ LoadToComplete(r) \/ Verify(r)
       \/ Judge(r) \/ LoadToRemove(r) \/ RemoveObject(r) \/ MarkDeleted(r) \/ DropRequest(r)
  \/ \E a \in ArtifactIds : Put(a) \/ ExpireUrl(a) \/ ComeDue(a)
  \/ ScanSweep \/ SweepObject \/ SweepRow \/ DropSweep

ArtifactsSpec == ArtifactsInit /\ [][ArtifactsNext]_artifactVars

----
(* Properties. *)

\* A deletion is between its two writes.
BeingDeleted(a) ==
  a \in sweep.removed \/ \E r \in Requests : ReqAt(r, "mark") /\ req[r].artifact = a

\* An artifact that is available has its object, however its verification, its deletion and
\* the sweep overlap, unless a deletion is under way or stopped half-way.
AvailableIsStored ==
  \A a \in ArtifactIds :
    astatus[a] = "available" => object[a] # "none" \/ BeingDeleted(a) \/ a \in halfDeleted

\* What the sweep deleted leaves no object that nothing points at: by the time it comes no
\* URL is left to write one with.
SweepLeavesNoObject == \A a \in sweptAway : object[a] = "none"
====
