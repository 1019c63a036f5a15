---- MODULE Secrets ----
(***************************************************************************)
(* The secret store (lib/secrets/store.ts, lib/secrets/rewrap.ts): a row   *)
(* of secrets points at its current row of secret_versions, and no         *)
(* operation spans both tables in one transaction.  Each call of the       *)
(* database is a step.  Callers overlap; a write may fail, or take effect  *)
(* and lose its answer; a caller may die between any two steps.            *)
(*                                                                         *)
(* Sealing is abstracted to the key encryption key that wraps a version.   *)
(* Names, bindings, expiry and the audit rows are left out; a failed audit *)
(* write makes an operation that took effect end in an error.              *)
(***************************************************************************)
EXTENDS Integers, FiniteSets

CONSTANTS
  SecretIds,    \* rows of secrets
  Callers,      \* requests and tasks that use the store
  MaxVersion    \* bound: versions of a secret

ASSUME SecretsAssumption == MaxVersion \in Nat \ {0}

VARIABLES
  sstatus,      \* secrets.status
  scurrent,     \* secrets.current_version
  versions,     \* secret_versions: what each version of a secret holds
  kek,          \* the key new versions are wrapped under
  call,         \* what each caller is doing
  \* history
  faulted       \* secrets a caller died on, or had a write fail or lose its answer

store       == <<sstatus, scurrent, versions>>
secretsVars == <<store, kek, call, faulted>>

Keys    == {"old", "new"}
NoRow   == [held |-> FALSE]
Rows    == [held : {TRUE}, key : Keys, revoked : BOOLEAN]
Numbers == 1..MaxVersion

Operations == {"create", "rotate", "revoke", "delete", "resolve"}
CallSteps == {"load", "insert", "version", "undo", "swap", "rollback", "stamp", "update",
              "shred", "tombstone", "read", "ok", "error", "unavailable"}

\* seen is the current_version the caller loaded, key wraps the version it sealed.
Calls == [op : Operations, at : CallSteps, secret : SecretIds, seen : 0..MaxVersion, key : Keys]
NoCall == [op |-> "none"]

SecretsInit ==
  /\ sstatus  = [x \in SecretIds |-> "absent"]
  /\ scurrent = [x \in SecretIds |-> 0]
  /\ versions = [x \in SecretIds |-> [n \in Numbers |-> NoRow]]
  /\ kek = "old"
  /\ call = [c \in Callers |-> NoCall]
  /\ faulted = {}

SecretsTypeOK ==
  /\ sstatus \in [SecretIds -> {"absent", "active", "revoked", "deleted", "removed"}]
  /\ scurrent \in [SecretIds -> 0..MaxVersion]
  /\ versions \in [SecretIds -> [Numbers -> Rows \cup {NoRow}]]
  /\ kek \in Keys \cup {"retired"}
  /\ call \in [Callers -> Calls \cup {NoCall}]
  /\ faulted \subseteq SecretIds

----
(* Calls. *)

Idle(c) == call[c] = NoCall

Calling(c, op, at) == call[c].op = op /\ call[c].at = at

Ended(c) == ~Idle(c) /\ call[c].at \in {"ok", "error", "unavailable"}

\* Mutant: nobody asks whether the key of the moment is still configured.
SealingKey_unchecked == kek

\* New versions are wrapped under the key of the moment.
SealingKey == IF kek = "old" THEN "old" ELSE "new"

Begin(c, op, at, x) ==
  /\ Idle(c)
  /\ call' = [call EXCEPT ![c] = [op |-> op, at |-> at, secret |-> x, seen |-> 0, key |-> SealingKey]]

Go(c, at) == call' = [call EXCEPT ![c].at = at]

\* The operation took effect; its audit row may still not be written.
Finish(c) == call' \in {[call EXCEPT ![c].at = "ok"], [call EXCEPT ![c].at = "error"]}

ReturnCall(c) ==
  /\ Ended(c)
  /\ call' = [call EXCEPT ![c] = NoCall]
  /\ UNCHANGED <<store, kek, faulted>>

\* The write of this step did not happen, or was not heard of.
Spoil(x) == faulted' = faulted \cup {x}

\* A step of c that fails before or after its write W and goes on at "at".
Lose(c, W, at) == (W \/ UNCHANGED store) /\ Go(c, at) /\ Spoil(call[c].secret)

Alive(x) == sstatus[x] \in {"active", "revoked"}
\* The id of a row that was removed is not used again.
Exists(x) == sstatus[x] \notin {"absent", "removed"}

SetStatus(x, s) ==
  /\ sstatus' = [sstatus EXCEPT ![x] = s]
  /\ UNCHANGED <<scurrent, versions>>

SetVersions(x, rows) ==
  /\ versions' = [versions EXCEPT ![x] = rows]
  /\ UNCHANGED <<sstatus, scurrent>>

Insert(x, n, k) ==
  SetVersions(x, [versions[x] EXCEPT ![n] = [held |-> TRUE, key |-> k, revoked |-> FALSE]])

Remove(x, n) == SetVersions(x, [versions[x] EXCEPT ![n] = NoRow])

\* Revoke the versions of x below n.
RevokeBelow(x, n) ==
  SetVersions(x, [m \in Numbers |->
    IF m < n /\ versions[x][m].held THEN [versions[x][m] EXCEPT !.revoked = TRUE]
                                    ELSE versions[x][m]])

----
(* createSecret *)

\* The row comes first ...
InsertSecret(c) ==
  /\ Calling(c, "create", "insert")
  /\ LET x == call[c].secret
         Row == /\ sstatus'  = [sstatus EXCEPT ![x] = "active"]
                /\ scurrent' = [scurrent EXCEPT ![x] = 1]
                /\ UNCHANGED versions IN
       \/ sstatus[x] = "absent" /\ Row /\ Go(c, "version") /\ UNCHANGED faulted
       \/ sstatus[x] = "absent" /\ Lose(c, Row, "error")
  /\ UNCHANGED kek

\* ... then its first version.
InsertFirst(c) ==
  /\ Calling(c, "create", "version")
  /\ LET x == call[c].secret
         Row == Insert(x, 1, call[c].key) IN
       \/ Row /\ Finish(c) /\ UNCHANGED faulted
       \/ Lose(c, Row, "undo")
  /\ UNCHANGED kek

\* Without it the row is deleted, and its versions with it; the result is not looked at.
UndoCreate(c) ==
  /\ Calling(c, "create", "undo")
  /\ LET x == call[c].secret IN
       \/ /\ sstatus' = [sstatus EXCEPT ![x] = "removed"]
          /\ UNCHANGED scurrent
          /\ versions' = [versions EXCEPT ![x] = [n \in Numbers |-> NoRow]]
          /\ Go(c, "error") /\ UNCHANGED faulted
       \/ Lose(c, FALSE, "error")
  /\ UNCHANGED kek

----
(* rotateSecret *)

\* Only an active secret; the new version is sealed under the key of the moment.
LoadToRotate(c) ==
  /\ Calling(c, "rotate", "load")
  /\ LET x == call[c].secret IN
       \/ /\ sstatus[x] = "active" /\ scurrent[x] < MaxVersion
          /\ call' = [call EXCEPT ![c].at = "insert", ![c].seen = scurrent[x],
                                  ![c].key = SealingKey]
       \/ sstatus[x] # "active" /\ Go(c, "unavailable")
  /\ UNCHANGED <<store, kek, faulted>>

\* Mutant: the version is also removed when another rotation has inserted it.
OnConflict_rollback == "rollback"

\* A version that is already there: "rotated concurrently; retry".
OnConflict == "error"

InsertNext(c) ==
  /\ Calling(c, "rotate", "insert")
  /\ LET x == call[c].secret
         n == call[c].seen + 1
         Row == Insert(x, n, call[c].key) IN
       \/ /\ Exists(x) /\ ~versions[x][n].held
          /\ \/ Row /\ Go(c, "swap") /\ UNCHANGED faulted
             \/ Lose(c, Row, "error")
       \/ /\ versions[x][n].held
          /\ Go(c, OnConflict) /\ UNCHANGED <<store, faulted>>
       \/ /\ ~Exists(x)
          /\ Go(c, "error") /\ UNCHANGED <<store, faulted>>
  /\ UNCHANGED kek

\* The compare-and-swap on current_version of an active secret.
SwapCurrent(c) ==
  /\ Calling(c, "rotate", "swap")
  /\ LET x == call[c].secret
         Swap == /\ scurrent' = [scurrent EXCEPT ![x] = call[c].seen + 1]
                 /\ UNCHANGED <<sstatus, versions>> IN
       \/ /\ sstatus[x] = "active" /\ scurrent[x] = call[c].seen
          /\ \/ Swap /\ Go(c, "stamp") /\ UNCHANGED faulted
             \/ Lose(c, Swap, "rollback")
       \/ /\ ~(sstatus[x] = "active" /\ scurrent[x] = call[c].seen)
          /\ Go(c, "rollback") /\ UNCHANGED <<store, faulted>>
  /\ UNCHANGED kek

\* Without the swap the version is removed again; the result is not looked at.
RollBack(c) ==
  /\ Calling(c, "rotate", "rollback")
  /\ LET x == call[c].secret IN
       \/ Remove(x, call[c].seen + 1) /\ Go(c, "error") /\ UNCHANGED faulted
       \/ Lose(c, FALSE, "error")
  /\ UNCHANGED kek

\* Mutant: the version itself is revoked too.
Outdate_inclusive(x, n) == RevokeBelow(x, n + 1)

\* Older versions are revoked, and stay.
Outdate(x, n) == RevokeBelow(x, n)

StampOlder(c) ==
  /\ Calling(c, "rotate", "stamp")
  /\ LET x == call[c].secret IN
       \/ Outdate(x, call[c].seen + 1) /\ Finish(c) /\ UNCHANGED faulted
       \/ Lose(c, FALSE, "ok")
  /\ UNCHANGED kek

----
(* revokeSecret *)

LoadToRevoke(c) ==
  /\ Calling(c, "revoke", "load")
  /\ LET s == sstatus[call[c].secret] IN
       Go(c, CASE s = "active" -> "update" [] s = "revoked" -> "ok" [] OTHER -> "unavailable")
  /\ UNCHANGED <<store, kek, faulted>>

\* Whatever it has become since: the trigger keeps a deleted secret deleted.
UpdateRevoked(c) ==
  /\ Calling(c, "revoke", "update")
  /\ LET x == call[c].secret IN
       \/ /\ Alive(x)
          /\ \/ SetStatus(x, "revoked") /\ Go(c, "stamp") /\ UNCHANGED faulted
             \/ Lose(c, SetStatus(x, "revoked"), "error")
       \/ ~Alive(x) /\ Go(c, "error") /\ UNCHANGED <<store, faulted>>
  /\ UNCHANGED kek

StampAll(c) ==
  /\ Calling(c, "revoke", "stamp")
  /\ \/ RevokeBelow(call[c].secret, MaxVersion + 1) /\ Finish(c) /\ UNCHANGED faulted
     \/ Lose(c, FALSE, "ok")
  /\ UNCHANGED kek

----
(* deleteSecret *)

LoadToDelete(c) ==
  /\ Calling(c, "delete", "load")
  /\ LET s == sstatus[call[c].secret] IN
       Go(c, CASE s = "deleted" -> "ok" [] ~Exists(call[c].secret) -> "unavailable" [] OTHER -> "shred")
  /\ UNCHANGED <<store, kek, faulted>>

\* The versions go first ...
Shred(c) ==
  /\ Calling(c, "delete", "shred")
  /\ LET x == call[c].secret
         Gone == SetVersions(x, [n \in Numbers |-> NoRow]) IN
       \/ Gone /\ Go(c, "tombstone") /\ UNCHANGED faulted
       \/ Lose(c, Gone, "error")
  /\ UNCHANGED kek

\* ... then the row becomes a tombstone.
Tombstone(c) ==
  /\ Calling(c, "delete", "tombstone")
  /\ LET x == call[c].secret IN
       \/ Exists(x) /\ SetStatus(x, "deleted") /\ Finish(c) /\ UNCHANGED faulted
       \/ Exists(x) /\ Lose(c, SetStatus(x, "deleted"), "error")
       \/ ~Exists(x) /\ Finish(c) /\ UNCHANGED <<store, faulted>>
  /\ UNCHANGED kek

----
(* resolveSecret *)

LoadToResolve(c) ==
  /\ Calling(c, "resolve", "load")
  /\ LET x == call[c].secret IN
       \/ /\ sstatus[x] = "active"
          /\ call' = [call EXCEPT ![c].at = "read", ![c].seen = scurrent[x]]
       \/ sstatus[x] # "active" /\ Go(c, "unavailable")
  /\ UNCHANGED <<store, kek, faulted>>

\* The version the row pointed at, revoked or not; denied when it is missing.
ReadVersion(c) ==
  /\ Calling(c, "resolve", "read")
  /\ LET row == versions[call[c].secret][call[c].seen] IN
       IF row.held
       THEN Finish(c)
       ELSE Go(c, "unavailable")
  /\ UNCHANGED <<store, kek, faulted>>

----
(* Key encryption keys: lib/secrets/rewrap.ts and its runbook. *)

RotateKek == kek = "old" /\ kek' = "new" /\ UNCHANGED <<store, call, faulted>>

\* A pass scans versions that are not revoked and swaps the wrapped key it read for one
\* under the current key; the version may have been revoked since, and one that changed
\* is a conflict.  Nothing else of the version is written.
RewrapVersion(x, n) ==
  /\ kek = "new"
  /\ versions[x][n].held /\ versions[x][n].key = "old"
  /\ SetVersions(x, [versions[x] EXCEPT ![n].key = "new"])
  /\ UNCHANGED <<kek, call, faulted>>

\* The operator removes the old key once no version that is not revoked needs it, and
\* the callers that sealed under it are gone.
RetireKek ==
  /\ kek = "new"
  /\ \A x \in SecretIds, n \in Numbers :
       versions[x][n].held => versions[x][n].revoked \/ versions[x][n].key = "new"
  /\ \A c \in Callers : ~Idle(c) => call[c].key = "new"
  /\ kek' = "retired"
  /\ UNCHANGED <<store, call, faulted>>

----
\* A request starts on the Secrets page, the worker API or the session pages.
Request(c, op, x) ==
  /\ IF op = "create"
     THEN sstatus[x] = "absent" /\ \A d \in Callers : ~Idle(d) => call[d].secret # x
     ELSE Exists(x)
  /\ Begin(c, op, IF op = "create" THEN "insert" ELSE "load", x)

\* The next step of c's operation.
SecretStep(c) ==
  \/ InsertSecret(c) \/ InsertFirst(c) \/ UndoCreate(c)
  \/ LoadToRotate(c) \/ InsertNext(c) \/ SwapCurrent(c) \/ RollBack(c) \/ StampOlder(c)
  \/ LoadToRevoke(c) \/ UpdateRevoked(c) \/ StampAll(c)
  \/ LoadToDelete(c) \/ Shred(c) \/ Tombstone(c)
  \/ LoadToResolve(c) \/ ReadVersion(c)

\* The caller dies between two steps.
Abandon(c) ==
  /\ ~Idle(c) /\ ~Ended(c)
  /\ call' = [call EXCEPT ![c] = NoCall]
  /\ Spoil(call[c].secret)
  /\ UNCHANGED <<store, kek>>

Maintain == RotateKek \/ RetireKek \/ \E x \in SecretIds, n \in Numbers : RewrapVersion(x, n)

SecretsNext ==
  \/ \E c \in Callers :
       \/ \E op \in Operations, x \in SecretIds : Request(c, op, x) /\ UNCHANGED <<store, kek, faulted>>
       \/ SecretStep(c) \/ ReturnCall(c) \/ Abandon(c)
  \/ Maintain

SecretsSpec == SecretsInit /\ [][SecretsNext]_secretsVars

----
(* Properties. *)

\* Neither created nor deleted at the moment, nor has a caller died on it or missed the
\* result of a write.
Whole(x) ==
  /\ Exists(x) /\ sstatus[x] # "deleted" /\ x \notin faulted
  /\ \A c \in Callers : call[c] # NoCall /\ call[c].secret = x =>
       ~Calling(c, "create", "version") /\ ~Calling(c, "delete", "tombstone")

\* A secret always has its current version, and a resolution that has read which version
\* that is finds it, whatever rotations and revocations overlap: versions are revoked, not
\* removed, and a rotation that loses takes back only what it inserted itself.
CurrentVersionKept ==
  \A x \in SecretIds : Whole(x) =>
    /\ versions[x][scurrent[x]].held
    /\ \A c \in Callers : Calling(c, "resolve", "read") /\ call[c].secret = x
         => versions[x][call[c].seen].held

\* Removing the old key after the runbook's check makes no active secret unreadable: a
\* version the check may skip because it is revoked is never the current one.
RetiredKeyUnused ==
  kek = "retired" => \A x \in SecretIds :
    LET row == versions[x][scurrent[x]] IN
      sstatus[x] = "active" /\ row.held => row.key = "new"
====
