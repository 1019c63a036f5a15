---- MODULE StorageProofs ----
(***************************************************************************)
(* What is kept outside the tables or sealed in them.  A secret keeps its  *)
(* current version, the old key encryption key is not needed once it is    *)
(* retired, the browser sessions use the store as its specification asks,  *)
(* a revoked browser session stays revoked and keeps its state, which is   *)
(* shredded, for any number of secrets, callers, versions and flows; and   *)
(* artifacts and their objects agree, for any number of artifacts, of      *)
(* requests in flight and any quota.                                       *)
(***************************************************************************)
EXTENDS BrowserSessions, Artifacts, TLAPS

(***************************************************************************)
(* Secrets and browser sessions.                                           *)
(***************************************************************************)
\* Caller c runs op on x, and is at the step "at".
Performs(c, op, at, x) == call[c] # NoCall /\ Calling(c, op, at) /\ call[c].secret = x

CallsTyped == call \in [Callers -> Calls \cup {NoCall}]

StoreTyped ==
  /\ sstatus \in [SecretIds -> {"absent", "active", "revoked", "deleted", "removed"}]
  /\ scurrent \in [SecretIds -> 0..MaxVersion]
  /\ versions \in [SecretIds -> [Numbers -> Rows \cup {NoRow}]]

\* The two parts of the type invariant that take work.
LEMMA StoreTypeParts ==
  SecretsTypeOK <=> StoreTyped /\ CallsTyped /\ kek \in Keys \cup {"retired"} /\ faulted \subseteq SecretIds
  BY DEF SecretsTypeOK, StoreTyped, CallsTyped

\* A caller at a step of an operation has a row.
LEMMA Busy ==
  ASSUME CallsTyped, NEW c \in Callers, call[c].op # "none"
  PROVE  call[c] \in Calls /\ call[c].secret \in SecretIds /\ ~Idle(c)
BY DEF CallsTyped, Calls, NoCall, Idle

\* Going on keeps everything but the step.
LEMMA Going ==
  ASSUME CallsTyped, NEW c \in Callers, call[c] \in Calls, NEW at \in CallSteps, Go(c, at)
  PROVE  /\ CallsTyped' /\ call'[c] \in Calls
         /\ call'[c].at = at /\ call'[c].op = call[c].op /\ call'[c].secret = call[c].secret
         /\ call'[c].seen = call[c].seen /\ call'[c].key = call[c].key
         /\ \A d \in Callers \ {c} : call'[d] = call[d]
<1>1. call'[c] = [call[c] EXCEPT !.at = at] /\ \A d \in Callers \ {c} : call'[d] = call[d]
  BY DEF Go, CallsTyped
<1>2. [call[c] EXCEPT !.at = at] \in Calls
  BY DEF Calls
<1>3. CallsTyped'
  BY <1>2 DEF CallsTyped, Go
<1>4. QED
  BY <1>1, <1>2, <1>3 DEF Calls

\* A load that keeps what it read.
LEMMA Loading ==
  ASSUME CallsTyped, NEW c \in Callers, call[c] \in Calls, NEW at \in CallSteps,
         NEW n \in 0..MaxVersion, NEW k \in Keys,
         \/ call' = [call EXCEPT ![c].at = at, ![c].seen = n, ![c].key = k]
         \/ call' = [call EXCEPT ![c].at = at, ![c].seen = n] /\ k = call[c].key
  PROVE  /\ CallsTyped' /\ call'[c] \in Calls
         /\ call'[c].at = at /\ call'[c].op = call[c].op /\ call'[c].secret = call[c].secret
         /\ call'[c].seen = n /\ call'[c].key = k
         /\ \A d \in Callers \ {c} : call'[d] = call[d]
<1>1. CASE call' = [call EXCEPT ![c].at = at, ![c].seen = n, ![c].key = k]
  <2> DEFINE row == [[[call[c] EXCEPT !.at = at] EXCEPT !.seen = n] EXCEPT !.key = k]
  <2>1. call' = [call EXCEPT ![c] = row] /\ row \in Calls
    BY <1>1 DEF Calls
  <2>2. CallsTyped' /\ call'[c] = row /\ \A d \in Callers \ {c} : call'[d] = call[d]
    BY <2>1 DEF CallsTyped
  <2>3. /\ row.at = at /\ row.op = call[c].op /\ row.secret = call[c].secret
        /\ row.seen = n /\ row.key = k
    BY DEF Calls
  <2>4. QED
    BY <2>1, <2>2, <2>3
<1>2. CASE call' = [call EXCEPT ![c].at = at, ![c].seen = n] /\ k = call[c].key
  <2> DEFINE row == [[call[c] EXCEPT !.at = at] EXCEPT !.seen = n]
  <2>1. call' = [call EXCEPT ![c] = row] /\ row \in Calls
    BY <1>2 DEF Calls
  <2>2. CallsTyped' /\ call'[c] = row /\ \A d \in Callers \ {c} : call'[d] = call[d]
    BY <2>1 DEF CallsTyped
  <2>3. /\ row.at = at /\ row.op = call[c].op /\ row.secret = call[c].secret
        /\ row.seen = n /\ row.key = call[c].key
    BY DEF Calls
  <2>4. QED
    BY <1>2, <2>1, <2>2, <2>3
<1>3. QED
  BY <1>1, <1>2

\* An operation that begins.
LEMMA Beginning ==
  ASSUME CallsTyped, NEW c \in Callers, NEW op \in Operations, NEW at \in CallSteps,
         NEW x \in SecretIds, Begin(c, op, at, x)
  PROVE  /\ CallsTyped' /\ call'[c] \in Calls
         /\ call'[c].at = at /\ call'[c].op = op /\ call'[c].secret = x /\ call'[c].key = SealingKey
         /\ \A d \in Callers \ {c} : call'[d] = call[d]
BY SecretsAssumption DEF Begin, CallsTyped, Calls, Keys, SealingKey

\* An operation that is over, or whose caller died.
LEMMA Leaving ==
  ASSUME CallsTyped, NEW c \in Callers, call' = [call EXCEPT ![c] = NoCall]
  PROVE  CallsTyped' /\ call'[c] = NoCall /\ \A d \in Callers \ {c} : call'[d] = call[d]
BY DEF CallsTyped

----
(* The invariant. *)

\* What a caller relies on, for the secret it works on.
CallerOk(c) ==
  call[c] # NoCall =>
    LET x == call[c].secret IN
      /\ sstatus[x] = "absent" => call[c].op = "create" /\ call[c].at \in {"insert", "error"}
      /\ call[c].op = "rotate" /\ call[c].at \in {"insert", "swap", "rollback", "stamp"} =>
           1 <= call[c].seen /\ call[c].seen < MaxVersion
      /\ Calling(c, "rotate", "stamp") => call[c].seen < scurrent[x]
      /\ Calling(c, "resolve", "read") => 1 <= call[c].seen /\ call[c].seen <= scurrent[x]
      /\ Calling(c, "revoke", "stamp") => sstatus[x] # "active"

CallersOk == \A c \in Callers : CallerOk(c)

\* A secret has a current version, and no version that is to come is revoked while it is active.
SecretOk(x) ==
  /\ sstatus[x] = "absent" => \A n \in Numbers : ~versions[x][n].held
  /\ sstatus[x] # "absent" => 1 <= scurrent[x]
  /\ sstatus[x] = "active" =>
       \A n \in Numbers : scurrent[x] <= n /\ versions[x][n].held => ~versions[x][n].revoked

SecretsOk == \A x \in SecretIds : SecretOk(x)

\* After the old key was retired nothing seals under it, and nothing that counts is sealed so.
KeysOk ==
  kek = "retired" =>
    /\ \A c \in Callers : call[c] # NoCall => call[c].key = "new"
    /\ \A x \in SecretIds, n \in Numbers :
         versions[x][n].held /\ ~versions[x][n].revoked => versions[x][n].key = "new"

\* Neither gone nor being deleted, and nothing was lost or has died on it.
Tidy(x) ==
  /\ Exists(x) /\ sstatus[x] # "deleted" /\ x \notin faulted
  /\ \A c \in Callers : ~Performs(c, "delete", "tombstone", x)

\* Caller c has inserted the version after the one it saw, and may take it back.
Rotating(c, x) == Performs(c, "rotate", "swap", x) \/ Performs(c, "rotate", "rollback", x)

\* Versions up to the current one are there, the first when it was created; those to come
\* belong to the one rotation that inserted them.
VersionsOk(x) ==
  /\ versions[x][1].held \/ \E c \in Callers : Performs(c, "create", "version", x)
  /\ \A n \in Numbers : 2 <= n /\ n <= scurrent[x] => versions[x][n].held
  /\ \A c \in Callers : Rotating(c, x) =>
       /\ versions[x][call[c].seen + 1].held
       /\ scurrent[x] <= call[c].seen
       /\ \A d \in Callers : Rotating(d, x) /\ call[d].seen = call[c].seen => d = c

TidyOk == \A x \in SecretIds : Tidy(x) => VersionsOk(x)

SecretsInv == SecretsTypeOK /\ CallersOk /\ SecretsOk /\ KeysOk /\ TidyOk

----
\* The writes of the store keep its types.
LEMMA WritesTyped ==
  ASSUME StoreTyped, NEW x \in SecretIds, NEW n \in Numbers, NEW k \in Keys, NEW m \in Nat
  PROVE  /\ \A s \in {"active", "revoked", "deleted", "removed"} : SetStatus(x, s) => StoreTyped'
         /\ Insert(x, n, k) => StoreTyped'
         /\ Remove(x, n) => StoreTyped'
         /\ RevokeBelow(x, m) => StoreTyped'
         /\ SetVersions(x, [i \in Numbers |-> NoRow]) => StoreTyped'
         /\ SetVersions(x, [versions[x] EXCEPT ![n].key = "new"]) /\ versions[x][n].held => StoreTyped'
<1>1. ASSUME NEW f \in [Numbers -> Rows \cup {NoRow}], SetVersions(x, f) PROVE StoreTyped'
  BY <1>1 DEF SetVersions, StoreTyped
<1>2. versions[x] \in [Numbers -> Rows \cup {NoRow}]
  BY DEF StoreTyped
<1>3. \A s \in {"active", "revoked", "deleted", "removed"} : SetStatus(x, s) => StoreTyped'
  BY DEF StoreTyped, SetStatus
<1>4. Insert(x, n, k) => StoreTyped'
  <2>1. [versions[x] EXCEPT ![n] = [held |-> TRUE, key |-> k, revoked |-> FALSE]]
           \in [Numbers -> Rows \cup {NoRow}]
    BY <1>2 DEF Rows
  <2>2. QED
    BY <1>1, <2>1 DEF Insert
<1>5. Remove(x, n) => StoreTyped'
  <2>1. [versions[x] EXCEPT ![n] = NoRow] \in [Numbers -> Rows \cup {NoRow}]
    BY <1>2
  <2>2. QED
    BY <1>1, <2>1 DEF Remove
<1>6. RevokeBelow(x, m) => StoreTyped'
  <2> DEFINE f == [i \in Numbers |->
                     IF i < m /\ versions[x][i].held THEN [versions[x][i] EXCEPT !.revoked = TRUE]
                                                     ELSE versions[x][i]]
  <2>1. ASSUME NEW i \in Numbers, versions[x][i].held
        PROVE  [versions[x][i] EXCEPT !.revoked = TRUE] \in Rows
    <3>1. versions[x][i] \in Rows
      BY <1>2, <2>1 DEF NoRow
    <3>2. ASSUME NEW r \in Rows PROVE [r EXCEPT !.revoked = TRUE] \in Rows
      BY DEF Rows
    <3>3. QED
      BY <3>1, <3>2
  <2>2. f \in [Numbers -> Rows \cup {NoRow}]
    BY <1>2, <2>1
  <2>3. QED
    BY <1>1, <2>2 DEF RevokeBelow
<1>7. SetVersions(x, [i \in Numbers |-> NoRow]) => StoreTyped'
  BY <1>1
<1>8. SetVersions(x, [versions[x] EXCEPT ![n].key = "new"]) /\ versions[x][n].held => StoreTyped'
  <2>1. ASSUME versions[x][n].held
        PROVE  [versions[x] EXCEPT ![n].key = "new"] \in [Numbers -> Rows \cup {NoRow}]
    <3>1. versions[x][n] \in Rows
      BY <1>2, <2>1 DEF NoRow
    <3>2. [versions[x][n] EXCEPT !.key = "new"] \in Rows
      BY <3>1 DEF Rows, Keys
    <3>3. QED
      BY <1>2, <3>2
  <2>2. QED
    BY <1>1, <2>1
<1>9. QED
  BY <1>3, <1>4, <1>5, <1>6, <1>7, <1>8

\* The audit row decides how an operation that took effect ends.
LEMMA FinishTyped ==
  ASSUME CallsTyped, NEW c \in Callers, call[c] \in Calls, Finish(c)
  PROVE  Go(c, "ok") \/ Go(c, "error")
BY DEF Finish, Go

\* Every step keeps the types.
LEMMA StoreTypeStep ==
  ASSUME SecretsInv, [SecretsNext]_secretsVars
  PROVE  SecretsTypeOK'
<1>0. StoreTyped /\ CallsTyped /\ kek \in Keys \cup {"retired"} /\ faulted \subseteq SecretIds
      /\ CallersOk /\ MaxVersion \in Nat \ {0}
  BY StoreTypeParts, SecretsAssumption DEF SecretsInv
<1> DEFINE Good == StoreTyped' /\ CallsTyped' /\ kek' \in Keys \cup {"retired"} /\ faulted' \subseteq SecretIds
<1> SUFFICES Good
  BY DEF SecretsTypeOK, StoreTyped, CallsTyped
<1> USE <1>0
<1>s. CallSteps = {"load", "insert", "version", "undo", "swap", "rollback", "stamp", "update",
              "shred", "tombstone", "read", "ok", "error", "unavailable"}
  BY DEF CallSteps
<1>a. ASSUME NEW c \in Callers, call[c].op # "none"
      PROVE  /\ call[c] \in Calls /\ call[c].secret \in SecretIds
             /\ call[c].seen \in 0..MaxVersion /\ call[c].key \in Keys
  BY <1>a, Busy DEF Calls
<1>b. ASSUME UNCHANGED store PROVE StoreTyped'
  BY <1>b DEF store, StoreTyped
<1>c. ASSUME NEW c \in Callers, call[c] \in Calls, NEW s \in CallSteps, Go(c, s) PROVE CallsTyped'
  BY <1>c, Going
<1>d. ASSUME NEW c \in Callers, call[c] \in Calls, Finish(c) PROVE CallsTyped'
  BY <1>c, <1>d, <1>s, FinishTyped
<1>f. ASSUME NEW x \in SecretIds, faulted' = faulted \/ Spoil(x) PROVE faulted' \subseteq SecretIds
  BY <1>f DEF Spoil
<1>1. CASE UNCHANGED secretsVars
  BY <1>1, <1>b DEF secretsVars, CallsTyped
<1>2. ASSUME NEW c \in Callers, NEW op \in Operations, NEW x \in SecretIds, Request(c, op, x),
             UNCHANGED <<store, kek, faulted>>
      PROVE  Good
  <2>1. \E at \in CallSteps : Begin(c, op, at, x)
    BY <1>2, <1>s DEF Request
  <2>2. QED
    BY <1>2, <1>b, <2>1, Beginning
<1>3. ASSUME NEW c \in Callers, ReturnCall(c) \/ Abandon(c) PROVE Good
  <2>1. call' = [call EXCEPT ![c] = NoCall] /\ UNCHANGED store /\ UNCHANGED kek
    BY <1>3 DEF ReturnCall, Abandon
  <2>2. faulted' \subseteq SecretIds
    <3>1. CASE ReturnCall(c)
      BY <3>1 DEF ReturnCall
    <3>2. CASE Abandon(c)
      BY <3>2 DEF Abandon, Idle, CallsTyped, Calls, Spoil
    <3>3. QED
      BY <1>3, <3>1, <3>2
  <2>3. QED
    BY <1>b, <2>1, <2>2, Leaving
<1>4. ASSUME NEW c \in Callers, InsertSecret(c) PROVE Good
  <2> DEFINE x == call[c].secret
  <2>1. call[c] \in Calls /\ x \in SecretIds
    BY <1>4, <1>a DEF InsertSecret, Calling
  <2>2. /\ Go(c, "version") \/ Go(c, "error")
        /\ UNCHANGED kek /\ (faulted' = faulted \/ Spoil(x))
        /\ \/ UNCHANGED store
           \/ /\ sstatus' = [sstatus EXCEPT ![x] = "active"] /\ scurrent' = [scurrent EXCEPT ![x] = 1]
              /\ UNCHANGED versions
    BY <1>4 DEF InsertSecret, Lose
  <2>3. StoreTyped'
    BY <1>b, <2>1, <2>2 DEF StoreTyped
  <2>4. QED
    BY <1>c, <1>f, <1>s, <2>1, <2>2, <2>3
<1>5. ASSUME NEW c \in Callers, InsertFirst(c) PROVE Good
  <2> DEFINE x == call[c].secret
  <2>1. call[c] \in Calls /\ x \in SecretIds /\ call[c].key \in Keys /\ 1 \in Numbers
    BY <1>5, <1>a DEF InsertFirst, Calling, Numbers
  <2>2. /\ Finish(c) \/ Go(c, "undo")
        /\ UNCHANGED kek /\ (faulted' = faulted \/ Spoil(x))
        /\ UNCHANGED store \/ Insert(x, 1, call[c].key)
    BY <1>5 DEF InsertFirst, Lose
  <2>3. StoreTyped'
    BY <1>b, <2>1, <2>2, WritesTyped
  <2>4. QED
    BY <1>c, <1>d, <1>f, <1>s, <2>1, <2>2, <2>3
<1>6. ASSUME NEW c \in Callers, UndoCreate(c) PROVE Good
  <2> DEFINE x == call[c].secret
  <2>1. call[c] \in Calls /\ x \in SecretIds
    BY <1>6, <1>a DEF UndoCreate, Calling
  <2>2. /\ Go(c, "error")
        /\ UNCHANGED kek /\ (faulted' = faulted \/ Spoil(x))
        /\ \/ UNCHANGED store
           \/ /\ sstatus' = [sstatus EXCEPT ![x] = "removed"] /\ UNCHANGED scurrent
              /\ versions' = [versions EXCEPT ![x] = [n \in Numbers |-> NoRow]]
    BY <1>6 DEF UndoCreate, Lose
  <2>r. [n \in Numbers |-> NoRow] \in [Numbers -> Rows \cup {NoRow}]
    OBVIOUS
  <2>3. StoreTyped'
    BY <1>b, <2>1, <2>2, <2>r DEF StoreTyped
  <2>4. QED
    BY <1>c, <1>f, <1>s, <2>1, <2>2, <2>3
<1>7. ASSUME NEW c \in Callers, LoadToRotate(c) PROVE Good
  <2> DEFINE x == call[c].secret
  <2>1. call[c] \in Calls /\ scurrent[x] \in 0..MaxVersion /\ SealingKey \in Keys
    BY <1>7, <1>a DEF LoadToRotate, Calling, StoreTyped, SealingKey, Keys
  <2>2. UNCHANGED <<store, kek, faulted>>
        /\ (Go(c, "unavailable")
            \/ call' = [call EXCEPT ![c].at = "insert", ![c].seen = scurrent[x], ![c].key = SealingKey])
    BY <1>7 DEF LoadToRotate
  <2>3. CASE Go(c, "unavailable")
    BY <1>b, <1>c, <1>s, <2>1, <2>2, <2>3
  <2>4. CASE call' = [call EXCEPT ![c].at = "insert", ![c].seen = scurrent[x], ![c].key = SealingKey]
    <3>1. CallsTyped'
      BY <1>c, <1>s, <2>1, <2>4, Loading
    <3>2. QED
      BY <1>b, <2>2, <3>1
  <2>5. QED
    BY <2>2, <2>3, <2>4
<1>8. ASSUME NEW c \in Callers, InsertNext(c) PROVE Good
  <2> DEFINE x == call[c].secret
  <2>1. call[c] \in Calls /\ x \in SecretIds /\ call[c].key \in Keys /\ call[c].seen \in 0..MaxVersion
    BY <1>8, <1>a DEF InsertNext, Calling
  <2>2. call[c].seen + 1 \in Numbers
    BY <1>8, <2>1 DEF InsertNext, Calling, CallersOk, CallerOk, NoCall, Numbers, Calls
  <2>3. /\ Go(c, "swap") \/ Go(c, "error")
        /\ UNCHANGED kek /\ (faulted' = faulted \/ Spoil(x))
        /\ UNCHANGED store \/ Insert(x, call[c].seen + 1, call[c].key)
    BY <1>8 DEF InsertNext, Lose, OnConflict
  <2>4. StoreTyped'
    BY <1>b, <2>1, <2>2, <2>3, WritesTyped
  <2>5. QED
    BY <1>c, <1>f, <1>s, <2>1, <2>3, <2>4
<1>9. ASSUME NEW c \in Callers, SwapCurrent(c) PROVE Good
  <2> DEFINE x == call[c].secret
  <2>1. call[c] \in Calls /\ x \in SecretIds /\ call[c].seen \in 0..MaxVersion
    BY <1>9, <1>a DEF SwapCurrent, Calling
  <2>2. call[c].seen + 1 \in 0..MaxVersion
    BY <1>9, <2>1 DEF SwapCurrent, Calling, CallersOk, CallerOk, NoCall, Calls
  <2>3. /\ Go(c, "stamp") \/ Go(c, "rollback")
        /\ UNCHANGED kek /\ (faulted' = faulted \/ Spoil(x))
        /\ \/ UNCHANGED store
           \/ scurrent' = [scurrent EXCEPT ![x] = call[c].seen + 1] /\ UNCHANGED <<sstatus, versions>>
    BY <1>9 DEF SwapCurrent, Lose
  <2>4. StoreTyped'
    BY <1>b, <2>1, <2>2, <2>3 DEF StoreTyped
  <2>5. QED
    BY <1>c, <1>f, <1>s, <2>1, <2>3, <2>4
<1>10. ASSUME NEW c \in Callers, RollBack(c) PROVE Good
  <2> DEFINE x == call[c].secret
  <2>1. call[c] \in Calls /\ x \in SecretIds /\ call[c].seen \in 0..MaxVersion
    BY <1>10, <1>a DEF RollBack, Calling
  <2>2. call[c].seen + 1 \in Numbers
    BY <1>10, <2>1 DEF RollBack, Calling, CallersOk, CallerOk, NoCall, Numbers, Calls
  <2>3. /\ Go(c, "error")
        /\ UNCHANGED kek /\ (faulted' = faulted \/ Spoil(x))
        /\ UNCHANGED store \/ Remove(x, call[c].seen + 1)
    BY <1>10 DEF RollBack, Lose
  <2>4. StoreTyped'
    BY <1>b, <2>1, <2>2, <2>3, WritesTyped, SecretsAssumption DEF Keys
  <2>5. QED
    BY <1>c, <1>f, <1>s, <2>1, <2>3, <2>4
<1>11. ASSUME NEW c \in Callers, StampOlder(c) \/ StampAll(c) PROVE Good
  <2> DEFINE x == call[c].secret
  <2>1. call[c] \in Calls /\ x \in SecretIds /\ call[c].seen \in 0..MaxVersion
    BY <1>11, <1>a DEF StampOlder, StampAll, Calling
  <2>2. /\ Finish(c) \/ Go(c, "ok")
        /\ UNCHANGED kek /\ (faulted' = faulted \/ Spoil(x))
        /\ UNCHANGED store \/ RevokeBelow(x, call[c].seen + 1) \/ RevokeBelow(x, MaxVersion + 1)
    BY <1>11 DEF StampOlder, StampAll, Lose, Outdate
  <2>3. StoreTyped'
    <3>1. call[c].seen + 1 \in Nat /\ MaxVersion + 1 \in Nat /\ 1 \in Numbers /\ "new" \in Keys
      BY <2>1 DEF Numbers, Keys
    <3>2. QED
      BY <1>b, <2>1, <2>2, <3>1, WritesTyped
  <2>4. QED
    BY <1>c, <1>d, <1>f, <1>s, <2>1, <2>2, <2>3
<1>12. ASSUME NEW c \in Callers, LoadToRevoke(c) PROVE Good
  <2>1. call[c] \in Calls
    BY <1>12, <1>a DEF LoadToRevoke, Calling
  <2>2. UNCHANGED <<store, kek, faulted>> /\ (Go(c, "update") \/ Go(c, "ok") \/ Go(c, "unavailable"))
    BY <1>12 DEF LoadToRevoke
  <2>3. QED
    BY <1>b, <1>c, <1>s, <2>1, <2>2
<1>13. ASSUME NEW c \in Callers, UpdateRevoked(c) PROVE Good
  <2> DEFINE x == call[c].secret
  <2>1. call[c] \in Calls /\ x \in SecretIds
    BY <1>13, <1>a DEF UpdateRevoked, Calling
  <2>2. /\ Go(c, "stamp") \/ Go(c, "error")
        /\ UNCHANGED kek /\ (faulted' = faulted \/ Spoil(x))
        /\ UNCHANGED store \/ SetStatus(x, "revoked")
    BY <1>13 DEF UpdateRevoked, Lose
  <2>3. StoreTyped'
    BY <1>b, <2>1, <2>2 DEF StoreTyped, SetStatus
  <2>4. QED
    BY <1>c, <1>f, <1>s, <2>1, <2>2, <2>3
<1>14. ASSUME NEW c \in Callers, LoadToDelete(c) PROVE Good
  <2>1. call[c] \in Calls
    BY <1>14, <1>a DEF LoadToDelete, Calling
  <2>2. UNCHANGED <<store, kek, faulted>> /\ (Go(c, "shred") \/ Go(c, "ok") \/ Go(c, "unavailable"))
    BY <1>14 DEF LoadToDelete
  <2>3. QED
    BY <1>b, <1>c, <1>s, <2>1, <2>2
<1>15. ASSUME NEW c \in Callers, Shred(c) PROVE Good
  <2> DEFINE x == call[c].secret
  <2>1. call[c] \in Calls /\ x \in SecretIds
    BY <1>15, <1>a DEF Shred, Calling
  <2>2. /\ Go(c, "tombstone") \/ Go(c, "error")
        /\ UNCHANGED kek /\ (faulted' = faulted \/ Spoil(x))
        /\ UNCHANGED store \/ SetVersions(x, [n \in Numbers |-> NoRow])
    BY <1>15 DEF Shred, Lose
  <2>3. StoreTyped'
    BY <1>b, <2>1, <2>2 DEF StoreTyped, SetVersions
  <2>4. QED
    BY <1>c, <1>f, <1>s, <2>1, <2>2, <2>3
<1>16. ASSUME NEW c \in Callers, Tombstone(c) PROVE Good
  <2> DEFINE x == call[c].secret
  <2>1. call[c] \in Calls /\ x \in SecretIds
    BY <1>16, <1>a DEF Tombstone, Calling
  <2>2. /\ Finish(c) \/ Go(c, "error")
        /\ UNCHANGED kek /\ (faulted' = faulted \/ Spoil(x))
        /\ UNCHANGED store \/ SetStatus(x, "deleted")
    BY <1>16 DEF Tombstone, Lose
  <2>3. StoreTyped'
    BY <1>b, <2>1, <2>2 DEF StoreTyped, SetStatus
  <2>4. QED
    BY <1>c, <1>d, <1>f, <1>s, <2>1, <2>2, <2>3
<1>17. ASSUME NEW c \in Callers, LoadToResolve(c) PROVE Good
  <2> DEFINE x == call[c].secret
  <2>1. call[c] \in Calls /\ scurrent[x] \in 0..MaxVersion /\ call[c].key \in Keys
    BY <1>17, <1>a DEF LoadToResolve, Calling, StoreTyped
  <2>2. UNCHANGED <<store, kek, faulted>>
        /\ (Go(c, "unavailable") \/ call' = [call EXCEPT ![c].at = "read", ![c].seen = scurrent[x]])
    BY <1>17 DEF LoadToResolve
  <2>3. CallsTyped'
    BY <1>c, <1>s, <2>1, <2>2, Loading
  <2>4. QED
    BY <1>b, <2>2, <2>3
<1>18. ASSUME NEW c \in Callers, ReadVersion(c) PROVE Good
  <2>1. call[c] \in Calls
    BY <1>18, <1>a DEF ReadVersion, Calling
  <2>2. UNCHANGED <<store, kek, faulted>> /\ (Finish(c) \/ Go(c, "unavailable"))
    BY <1>18 DEF ReadVersion
  <2>3. QED
    BY <1>b, <1>c, <1>d, <1>s, <2>1, <2>2
<1>19. CASE RotateKek \/ RetireKek
  BY <1>19, <1>b DEF RotateKek, RetireKek, Keys, CallsTyped
<1>20. ASSUME NEW x \in SecretIds, NEW n \in Numbers, RewrapVersion(x, n) PROVE Good
  <2>1. 0 \in Nat /\ "new" \in Keys
    BY DEF Keys
  <2>2. StoreTyped'
    BY <1>20, <2>1, WritesTyped DEF RewrapVersion
  <2>3. QED
    BY <1>20, <2>2 DEF RewrapVersion, CallsTyped
<1>21. QED
  BY <1>1, <1>2, <1>3, <1>4, <1>5, <1>6, <1>7, <1>8, <1>9, <1>10, <1>11, <1>12, <1>13, <1>14,
     <1>15, <1>16, <1>17, <1>18, <1>19, <1>20 DEF SecretsNext, SecretStep, Maintain

----
(* What a step does to secrets, as those who do not take it see it. *)

\* A secret that is there does not go back to not being there, its current version does not
\* fall, and it does not become active again.
Grows ==
  \A x \in SecretIds : sstatus[x] # "absent" =>
    /\ sstatus'[x] # "absent" /\ scurrent[x] <= scurrent'[x]
    /\ sstatus'[x] = "active" => sstatus[x] = "active"

\* Only these steps write the row of a secret.
LEMMA RowWriters ==
  ASSUME [SecretsNext]_secretsVars, <<sstatus, scurrent>>' # <<sstatus, scurrent>>
  PROVE  \E c \in Callers :
           InsertSecret(c) \/ UndoCreate(c) \/ SwapCurrent(c) \/ UpdateRevoked(c) \/ Tombstone(c)
BY DEF SecretsNext, SecretStep, Maintain, secretsVars, store, ReturnCall, Abandon, InsertFirst, LoadToRotate,
       InsertNext, RollBack, StampOlder, LoadToRevoke, StampAll, LoadToDelete, Shred, LoadToResolve,
       ReadVersion, RotateKek, RetireKek, RewrapVersion, Lose, Insert, Remove, Outdate, RevokeBelow,
       SetVersions

\* No step takes a secret back.
LEMMA GrowsStep ==
  ASSUME SecretsInv, [SecretsNext]_secretsVars
  PROVE  Grows
<1>0. StoreTyped /\ CallsTyped /\ CallersOk
  BY StoreTypeParts DEF SecretsInv
<1> USE <1>0
<1>i. \A x \in SecretIds : scurrent[x] \in 0..MaxVersion /\ MaxVersion \in Nat
  BY SecretsAssumption DEF StoreTyped
<1>1. CASE UNCHANGED <<sstatus, scurrent>>
  BY <1>1, <1>i DEF Grows
<1>2. ASSUME NEW c \in Callers, InsertSecret(c) PROVE Grows
  <2>1. call[c].secret \in SecretIds
    BY <1>2, Busy DEF InsertSecret, Calling
  <2>2. sstatus[call[c].secret] = "absent"
    BY <1>2 DEF InsertSecret
  <2>3. \A x \in SecretIds \ {call[c].secret} : sstatus'[x] = sstatus[x] /\ scurrent'[x] = scurrent[x]
    BY <1>2, <2>1 DEF InsertSecret, Lose, store, StoreTyped
  <2>4. QED
    BY <1>i, <2>2, <2>3 DEF Grows
<1>3. ASSUME NEW c \in Callers, UndoCreate(c) PROVE Grows
  <2>1. scurrent' = scurrent /\ (sstatus' = sstatus \/ sstatus' = [sstatus EXCEPT ![call[c].secret] = "removed"])
    BY <1>3 DEF UndoCreate, Lose, store
  <2>2. QED
    BY <1>i, <2>1 DEF Grows, StoreTyped
<1>4. ASSUME NEW c \in Callers, SwapCurrent(c) PROVE Grows
  <2> DEFINE x == call[c].secret
  <2>1. x \in SecretIds /\ call[c].seen \in 0..MaxVersion
    BY <1>4, Busy DEF SwapCurrent, Calling, Calls
  <2>2. /\ sstatus' = sstatus
        /\ scurrent' = scurrent
           \/ (scurrent[x] = call[c].seen /\ scurrent' = [scurrent EXCEPT ![x] = call[c].seen + 1])
    BY <1>4 DEF SwapCurrent, Lose, store
  <2>3. QED
    BY <1>i, <2>1, <2>2 DEF Grows, StoreTyped
<1>5. ASSUME NEW c \in Callers, UpdateRevoked(c) \/ Tombstone(c) PROVE Grows
  <2>1. scurrent' = scurrent
        /\ \/ sstatus' = sstatus
           \/ \E s \in {"revoked", "deleted"} : sstatus' = [sstatus EXCEPT ![call[c].secret] = s]
    BY <1>5 DEF UpdateRevoked, Tombstone, SetStatus, Lose, store
  <2>2. QED
    BY <1>i, <2>1 DEF Grows, StoreTyped
<1>6. QED
  BY <1>1, <1>2, <1>3, <1>4, <1>5, RowWriters

\* A caller that does not move is not disturbed.
LEMMA OthersOk ==
  ASSUME SecretsInv, SecretsTypeOK', Grows, NEW d \in Callers, call'[d] = call[d]
  PROVE  CallerOk(d)'
<1>1. CASE call[d] = NoCall
  BY <1>1 DEF CallerOk
<1>2. CASE call[d] # NoCall
  <2> DEFINE x == call[d].secret
  <2>1. call[d] \in Calls /\ x \in SecretIds
    BY <1>2 DEF SecretsInv, SecretsTypeOK, Calls
  <2>2. /\ sstatus'[x] = "absent" => sstatus[x] = "absent"
        /\ sstatus[x] # "absent" => scurrent[x] <= scurrent'[x] /\ (sstatus'[x] = "active" => sstatus[x] = "active")
        /\ scurrent[x] \in 0..MaxVersion /\ scurrent'[x] \in 0..MaxVersion /\ MaxVersion \in Nat
        /\ call[d].seen \in 0..MaxVersion
    BY <2>1, SecretsAssumption DEF Grows, SecretsInv, SecretsTypeOK, Calls
  <2>3. CallerOk(d)
    BY DEF SecretsInv, CallersOk
  <2>4. QED
    BY <1>2, <2>2, <2>3 DEF CallerOk, Calling
<1>3. QED
  BY <1>1, <1>2

\* A step of a caller's operation moves that caller alone.
LEMMA StepMoves ==
  ASSUME NEW c \in Callers, SecretStep(c)
  PROVE  \/ \E s : Go(c, s)
         \/ Finish(c)
         \/ \E s, n : call' = [call EXCEPT ![c].at = s, ![c].seen = n]
         \/ \E s, n : call' = [call EXCEPT ![c].at = s, ![c].seen = n, ![c].key = SealingKey]
<1>1. CASE LoadToRotate(c) \/ LoadToResolve(c)
  BY <1>1 DEF LoadToRotate, LoadToResolve
<1>2. CASE LoadToRevoke(c) \/ LoadToDelete(c)
  BY <1>2 DEF LoadToRevoke, LoadToDelete
<1>3. CASE InsertSecret(c) \/ InsertFirst(c) \/ UndoCreate(c) \/ InsertNext(c) \/ SwapCurrent(c) \/ RollBack(c)
  BY <1>3 DEF InsertSecret, InsertFirst, UndoCreate, InsertNext, SwapCurrent, RollBack, Lose
<1>4. CASE StampOlder(c) \/ UpdateRevoked(c) \/ StampAll(c) \/ Shred(c) \/ Tombstone(c) \/ ReadVersion(c)
  BY <1>4 DEF StampOlder, UpdateRevoked, StampAll, Shred, Tombstone, ReadVersion, Lose
<1>5. QED
  BY <1>1, <1>2, <1>3, <1>4 DEF SecretStep

\* The caller that moves is in order afterwards.
LEMMA ActorOk ==
  ASSUME SecretsInv, SecretsTypeOK', Grows, NEW c \in Callers, SecretStep(c)
  PROVE  CallerOk(c)'
<1> DEFINE x == call[c].secret
<1>t. StoreTyped /\ CallsTyped /\ StoreTyped' /\ CallsTyped'
  BY DEF SecretsInv, SecretsTypeOK, StoreTyped, CallsTyped
<1>c. CallerOk(c)
  BY DEF SecretsInv, CallersOk
<1>0. StoreTyped /\ CallsTyped /\ StoreTyped' /\ CallsTyped' /\ CallerOk(c) /\ MaxVersion \in Nat
  BY <1>t, <1>c, SecretsAssumption
<1>1. call[c].op # "none" /\ call[c] # NoCall
  <2>1. \E op \in {"create", "rotate", "revoke", "delete", "resolve"} : \E at : Calling(c, op, at)
    BY DEF SecretStep, InsertSecret, InsertFirst, UndoCreate, LoadToRotate, InsertNext, SwapCurrent,
           RollBack, StampOlder, LoadToRevoke, UpdateRevoked, StampAll, LoadToDelete, Shred, Tombstone,
           LoadToResolve, ReadVersion
  <2>2. QED
    BY <2>1 DEF Calling, NoCall
<1>2. call[c] \in Calls /\ x \in SecretIds
  BY <1>0, <1>1, Busy
<1>i. call[c].seen \in 0..MaxVersion /\ scurrent[x] \in 0..MaxVersion /\ scurrent'[x] \in 0..MaxVersion
  BY <1>0, <1>2 DEF Calls, StoreTyped
<1>s. CallSteps = {"load", "insert", "version", "undo", "swap", "rollback", "stamp", "update",
              "shred", "tombstone", "read", "ok", "error", "unavailable"}
  BY DEF CallSteps
\* Most steps ask nothing of what comes.
<1>3. ASSUME NEW s \in CallSteps \ {"insert", "swap", "rollback", "stamp", "read"}, Go(c, s),
             sstatus[x] # "absent" \/ (call[c].op = "create" /\ s = "error")
      PROVE  CallerOk(c)'
  <2>1. call'[c].at = s /\ call'[c].op = call[c].op /\ call'[c].secret = x
    BY <1>0, <1>2, <1>3, Going
  <2>2. sstatus[x] # "absent" => sstatus'[x] # "absent"
    BY <1>2 DEF Grows
  <2>3. QED
    BY <1>3, <2>1, <2>2 DEF CallerOk, Calling
<1>4. ASSUME call[c].op # "create" \/ call[c].at \notin {"insert", "error"} PROVE sstatus[x] # "absent"
  BY <1>0, <1>1, <1>4 DEF CallerOk
<1>5. ASSUME Finish(c), sstatus[x] # "absent" PROVE CallerOk(c)'
  BY <1>0, <1>2, <1>3, <1>5, <1>s, FinishTyped
<1>6. CASE InsertSecret(c)
  <2>1. Calling(c, "create", "insert")
    BY <1>6 DEF InsertSecret
  <2>2. CASE Go(c, "error")
    BY <1>3, <1>s, <2>1, <2>2 DEF Calling
  <2>3. CASE Go(c, "version")
    <3>1. call'[c].at = "version" /\ call'[c].op = "create" /\ call'[c].secret = x
      BY <1>0, <1>2, <1>s, <2>1, <2>3, Going DEF Calling
    <3>2. call'[c].at # "error"
      BY <3>1
    <3>3. sstatus' = [sstatus EXCEPT ![x] = "active"]
      <4>1. ~Go(c, "error")
        BY <1>0, <1>2, <1>s, <3>2, Going
      <4>2. QED
        BY <1>6, <4>1 DEF InsertSecret, Lose
    <3>4. QED
      BY <1>0, <1>2, <3>1, <3>3 DEF CallerOk, Calling, StoreTyped
  <2>4. QED
    BY <1>6, <2>2, <2>3 DEF InsertSecret, Lose
<1>7. CASE InsertFirst(c) \/ UndoCreate(c) \/ LoadToRevoke(c) \/ LoadToDelete(c) \/ Shred(c) \/ Tombstone(c)
           \/ RollBack(c) \/ StampOlder(c) \/ StampAll(c) \/ ReadVersion(c)
  <2>1. sstatus[x] # "absent"
    BY <1>4, <1>7 DEF Calling, InsertFirst, UndoCreate, LoadToRevoke, LoadToDelete, Shred, Tombstone, RollBack,
       StampOlder, StampAll, ReadVersion
  <2>2. Finish(c) \/ \E s \in {"undo", "update", "shred", "tombstone", "ok", "error", "unavailable"} : Go(c, s)
    BY <1>7 DEF InsertFirst, UndoCreate, LoadToRevoke, LoadToDelete, Shred, Tombstone, RollBack, StampOlder, StampAll,
                ReadVersion, Lose
  <2>3. QED
    BY <1>3, <1>5, <1>s, <2>1, <2>2
<1>8. CASE LoadToRotate(c)
  <2>1. call[c].op = "rotate"
    BY <1>8 DEF LoadToRotate, Calling
  <2>2. CASE Go(c, "unavailable")
    BY <1>3, <1>4, <1>s, <2>1, <2>2
  <2>3. CASE /\ sstatus[x] = "active" /\ scurrent[x] < MaxVersion
             /\ call' = [call EXCEPT ![c].at = "insert", ![c].seen = scurrent[x], ![c].key = SealingKey]
    <3>1. call'[c].at = "insert" /\ call'[c].op = "rotate" /\ call'[c].secret = x /\ call'[c].seen = scurrent[x]
      <4>1. SealingKey \in Keys /\ "insert" \in CallSteps
        BY <1>s DEF SealingKey, Keys
      <4>2. QED
        <5> DEFINE v == scurrent[x]
        <5>1. CallsTyped /\ call[c] \in Calls /\ v \in 0..MaxVersion
              /\ call' = [call EXCEPT ![c].at = "insert", ![c].seen = v, ![c].key = SealingKey]
          BY <1>t, <1>2, <1>i, <2>3
        <5> HIDE DEF v
        <5>2. call'[c].at = "insert" /\ call'[c].op = call[c].op /\ call'[c].secret = call[c].secret /\ call'[c].seen = v
          <6>1. call'[c] = [[[call[c] EXCEPT !.at = "insert"] EXCEPT !.seen = v] EXCEPT !.key = SealingKey]
            BY <5>1 DEF CallsTyped
          <6>2. QED
            BY <5>1, <6>1 DEF Calls
        <5>3. QED
          BY <2>1, <5>2 DEF v
    <3>2. 1 <= scurrent[x] /\ sstatus' = sstatus
      BY <1>2, <1>8, <2>3 DEF SecretsInv, SecretsOk, SecretOk, LoadToRotate, store
    <3>3. QED
      BY <2>3, <3>1, <3>2 DEF CallerOk, Calling
  <2>4. QED
    BY <1>8, <2>2, <2>3 DEF LoadToRotate
<1>9. CASE InsertNext(c)
  <2>1. call[c].op = "rotate" /\ call[c].at = "insert"
    BY <1>9 DEF InsertNext, Calling
  <2>2. CASE Go(c, "error")
    BY <1>3, <1>4, <1>s, <2>1, <2>2
  <2>3. CASE Go(c, "swap")
    <3>1. call'[c].at = "swap" /\ call'[c].op = "rotate" /\ call'[c].secret = x /\ call'[c].seen = call[c].seen
      BY <1>0, <1>2, <1>s, <2>1, <2>3, Going
    <3>2. sstatus'[x] # "absent"
      BY <1>2, <1>4, <2>1 DEF Grows
    <3>3. QED
      BY <1>0, <1>1, <2>1, <3>1, <3>2 DEF CallerOk, Calling
  <2>4. QED
    BY <1>9, <2>2, <2>3 DEF InsertNext, Lose, OnConflict
<1>10. CASE SwapCurrent(c)
  <2>1. call[c].op = "rotate" /\ call[c].at = "swap"
    BY <1>10 DEF SwapCurrent, Calling
  <2>2. sstatus'[x] # "absent"
    BY <1>2, <1>4, <2>1 DEF Grows
  <2>3. CASE Go(c, "rollback")
    <3>1. call'[c].at = "rollback" /\ call'[c].op = "rotate" /\ call'[c].secret = x /\ call'[c].seen = call[c].seen
      BY <1>0, <1>2, <1>s, <2>1, <2>3, Going
    <3>2. QED
      BY <1>0, <1>1, <2>1, <2>2, <3>1 DEF CallerOk, Calling
  <2>4. CASE Go(c, "stamp") /\ scurrent' = [scurrent EXCEPT ![x] = call[c].seen + 1]
    <3>1. call'[c].at = "stamp" /\ call'[c].op = "rotate" /\ call'[c].secret = x /\ call'[c].seen = call[c].seen
      BY <1>0, <1>2, <1>s, <2>1, <2>4, Going
    <3>2. scurrent'[x] = call[c].seen + 1
      BY <1>0, <1>2, <2>4 DEF StoreTyped
    <3>3. QED
      BY <1>0, <1>1, <1>i, <2>1, <2>2, <3>1, <3>2 DEF CallerOk, Calling
  <2>5. QED
    BY <1>10, <2>3, <2>4 DEF SwapCurrent, Lose
<1>11. CASE UpdateRevoked(c)
  <2>1. call[c].op = "revoke"
    BY <1>11 DEF UpdateRevoked, Calling
  <2>2. CASE Go(c, "error")
    BY <1>3, <1>4, <1>s, <2>1, <2>2
  <2>3. CASE Go(c, "stamp") /\ SetStatus(x, "revoked")
    <3>1. call'[c].at = "stamp" /\ call'[c].op = "revoke" /\ call'[c].secret = x
      BY <1>0, <1>2, <1>s, <2>1, <2>3, Going
    <3>2. sstatus'[x] = "revoked"
      BY <1>0, <1>2, <2>3 DEF StoreTyped, SetStatus
    <3>3. QED
      BY <3>1, <3>2 DEF CallerOk, Calling
  <2>4. QED
    BY <1>11, <2>2, <2>3 DEF UpdateRevoked, Lose
<1>12. CASE LoadToResolve(c)
  <2>1. call[c].op = "resolve"
    BY <1>12 DEF LoadToResolve, Calling
  <2>2. CASE Go(c, "unavailable")
    BY <1>3, <1>4, <1>s, <2>1, <2>2
  <2>3. CASE sstatus[x] = "active" /\ call' = [call EXCEPT ![c].at = "read", ![c].seen = scurrent[x]]
    <3>1. call'[c].at = "read" /\ call'[c].op = "resolve" /\ call'[c].secret = x /\ call'[c].seen = scurrent[x]
      <4>1. call[c].key \in Keys /\ "read" \in CallSteps
        BY <1>2, <1>s DEF Calls
      <4>2. QED
        <5> DEFINE v == scurrent[x]
        <5>1. CallsTyped /\ call[c] \in Calls /\ v \in 0..MaxVersion
              /\ call' = [call EXCEPT ![c].at = "read", ![c].seen = v]
          BY <1>t, <1>2, <1>i, <2>3
        <5> HIDE DEF v
        <5>2. call'[c].at = "read" /\ call'[c].op = call[c].op /\ call'[c].secret = call[c].secret /\ call'[c].seen = v
          <6>1. call'[c] = [[call[c] EXCEPT !.at = "read"] EXCEPT !.seen = v]
            BY <5>1 DEF CallsTyped
          <6>2. QED
            BY <5>1, <6>1 DEF Calls
        <5>3. QED
          BY <2>1, <5>2 DEF v
    <3>2. 1 <= scurrent[x] /\ UNCHANGED <<sstatus, scurrent>>
      BY <1>2, <1>12, <2>3 DEF SecretsInv, SecretsOk, SecretOk, LoadToResolve, store
    <3>3. QED
      BY <1>i, <2>3, <3>1, <3>2 DEF CallerOk, Calling
  <2>4. QED
    BY <1>12, <2>2, <2>3 DEF LoadToResolve
<1>13. QED
  BY <1>6, <1>7, <1>8, <1>9, <1>10, <1>11, <1>12 DEF SecretStep

\* Callers are in order after every step.
LEMMA CallersStep ==
  ASSUME SecretsInv, SecretsTypeOK', Grows, [SecretsNext]_secretsVars
  PROVE  CallersOk'
<1>0. CallsTyped
  BY DEF SecretsInv, SecretsTypeOK, CallsTyped
<1>1. CASE call' = call
  BY <1>1, OthersOk DEF CallersOk
<1>2. ASSUME NEW c \in Callers, ReturnCall(c) \/ Abandon(c) PROVE CallersOk'
  <2>1. call' = [call EXCEPT ![c] = NoCall]
    BY <1>2 DEF ReturnCall, Abandon
  <2>2. call'[c] = NoCall /\ \A d \in Callers \ {c} : call'[d] = call[d]
    BY <1>0, <2>1, Leaving
  <2>3. CallerOk(c)'
    BY <2>2 DEF CallerOk
  <2>4. QED
    BY <2>2, <2>3, OthersOk DEF CallersOk
<1>3. ASSUME NEW c \in Callers, NEW op \in Operations, NEW x \in SecretIds, Request(c, op, x),
             UNCHANGED <<store, kek, faulted>>
      PROVE  CallersOk'
  <2>1. PICK at \in {"insert", "load"} : /\ Begin(c, op, at, x)
                                         /\ at = "insert" => op = "create"
                                         /\ op # "create" => sstatus[x] # "absent"
                                         /\ op = "create" => at = "insert"
    BY <1>3 DEF Request, Exists
  <2>2. /\ call'[c].at = at /\ call'[c].op = op /\ call'[c].secret = x
        /\ \A d \in Callers \ {c} : call'[d] = call[d]
    BY <1>0, <2>1, Beginning DEF CallSteps
  <2>3. sstatus' = sstatus
    BY <1>3 DEF store
  <2>4. CallerOk(c)'
    BY <2>1, <2>2, <2>3 DEF CallerOk, Calling
  <2>5. QED
    BY <2>2, <2>4, OthersOk DEF CallersOk
<1>4. ASSUME NEW c \in Callers, SecretStep(c) PROVE CallersOk'
  <2>1. \A d \in Callers \ {c} : call'[d] = call[d]
    BY <1>0, <1>4, StepMoves DEF CallsTyped, Go, Finish
  <2>2. QED
    BY <1>4, <2>1, ActorOk, OthersOk DEF CallersOk
<1>5. QED
  BY <1>1, <1>2, <1>3, <1>4 DEF SecretsNext, Maintain, RotateKek, RetireKek, RewrapVersion, secretsVars

----
(* What a step does to versions. *)

\* An insert writes the one row.
LEMMA InsertEffect ==
  ASSUME StoreTyped, NEW y \in SecretIds, NEW m \in Numbers, NEW k, NEW x \in SecretIds, NEW n \in Numbers,
         Insert(y, m, k)
  PROVE  /\ x = y /\ n = m => versions'[x][n] = [held |-> TRUE, key |-> k, revoked |-> FALSE]
         /\ versions'[x][n] = versions[x][n] \/ (x = y /\ n = m)
<1>1. versions[y] \in [Numbers -> Rows \cup {NoRow}] /\ versions[x] \in [Numbers -> Rows \cup {NoRow}]
  BY DEF StoreTyped
<1>2. QED
  BY <1>1 DEF StoreTyped, Insert, SetVersions

\* A removal empties the one row.
LEMMA RemoveEffect ==
  ASSUME StoreTyped, NEW y \in SecretIds, NEW m \in Numbers, NEW x \in SecretIds, NEW n \in Numbers,
         Remove(y, m)
  PROVE  /\ x = y /\ n = m => versions'[x][n] = NoRow
         /\ versions'[x][n] = versions[x][n] \/ (x = y /\ n = m)
<1>1. versions[y] \in [Numbers -> Rows \cup {NoRow}] /\ versions[x] \in [Numbers -> Rows \cup {NoRow}]
  BY DEF StoreTyped
<1>2. QED
  BY <1>1 DEF StoreTyped, Remove, SetVersions

\* A revocation marks the rows below a number.
LEMMA RevokeEffect ==
  ASSUME StoreTyped, NEW y \in SecretIds, NEW j, NEW x \in SecretIds, NEW n \in Numbers,
         RevokeBelow(y, j)
  PROVE  /\ x = y /\ n < j /\ versions[x][n].held => versions'[x][n] = [versions[x][n] EXCEPT !.revoked = TRUE]
         /\ versions'[x][n] = versions[x][n] \/ (x = y /\ n < j /\ versions[x][n].held)
<1>1. versions[y] \in [Numbers -> Rows \cup {NoRow}] /\ versions[x] \in [Numbers -> Rows \cup {NoRow}]
  BY DEF StoreTyped
<1>2. QED
  BY <1>1 DEF StoreTyped, RevokeBelow, SetVersions

\* A deletion empties every row.
LEMMA ShredEffect ==
  ASSUME StoreTyped, NEW y \in SecretIds, NEW x \in SecretIds, NEW n \in Numbers,
         versions' = [versions EXCEPT ![y] = [i \in Numbers |-> NoRow]]
  PROVE  /\ x = y => versions'[x][n] = NoRow
         /\ versions'[x][n] = versions[x][n] \/ x = y
<1>1. versions[y] \in [Numbers -> Rows \cup {NoRow}] /\ versions[x] \in [Numbers -> Rows \cup {NoRow}]
  BY DEF StoreTyped
<1>2. QED
  BY <1>1 DEF StoreTyped

\* A rewrap changes the key of the one row.
LEMMA RewrapEffect ==
  ASSUME StoreTyped, NEW y \in SecretIds, NEW m \in Numbers, NEW x \in SecretIds, NEW n \in Numbers,
         RewrapVersion(y, m)
  PROVE  /\ x = y /\ n = m => versions'[x][n] = [versions[x][n] EXCEPT !.key = "new"]
         /\ versions'[x][n] = versions[x][n] \/ (x = y /\ n = m)
<1>1. versions[y] \in [Numbers -> Rows \cup {NoRow}] /\ versions[x] \in [Numbers -> Rows \cup {NoRow}]
  BY DEF StoreTyped
<1>2. QED
  BY <1>1 DEF StoreTyped, SetVersions, RewrapVersion

\* A row that is held is a row.
LEMMA HeldRow ==
  ASSUME StoreTyped, NEW x \in SecretIds, NEW n \in Numbers, versions[x][n].held
  PROVE  versions[x][n] \in Rows
BY DEF StoreTyped, NoRow

\* Only these steps write versions.
LEMMA VersionWriters ==
  ASSUME [SecretsNext]_secretsVars, versions' # versions
  PROVE  \/ \E c \in Callers : InsertFirst(c) \/ UndoCreate(c) \/ InsertNext(c) \/ RollBack(c)
                               \/ StampOlder(c) \/ StampAll(c) \/ Shred(c)
         \/ \E x \in SecretIds, n \in Numbers : RewrapVersion(x, n)
BY DEF SecretsNext, SecretStep, Maintain, secretsVars, store, ReturnCall, Abandon, InsertSecret, LoadToRotate,
       SwapCurrent, LoadToRevoke, UpdateRevoked, LoadToDelete, Tombstone, LoadToResolve, ReadVersion,
       RotateKek, RetireKek, Lose, SetStatus

\* A version held after a step was held before, under the same key or the new one, and was
\* not revoked by it while it mattered; or a caller inserted it.
LEMMA VersionStep ==
  ASSUME SecretsInv, [SecretsNext]_secretsVars, NEW x \in SecretIds, NEW n \in Numbers, versions'[x][n].held
  PROVE  \/ /\ versions[x][n].held
            /\ versions'[x][n].key = versions[x][n].key \/ versions'[x][n].key = "new"
            /\ versions'[x][n].revoked =>
                 versions[x][n].revoked \/ (sstatus[x] = "active" => n < scurrent[x])
            /\ versions[x][n].revoked => versions'[x][n].revoked
         \/ /\ ~versions'[x][n].revoked /\ sstatus[x] # "absent"
            /\ \E c \in Callers : call[c] # NoCall /\ versions'[x][n].key = call[c].key
<1> DEFINE Kept == /\ versions[x][n].held
                   /\ versions'[x][n].key = versions[x][n].key \/ versions'[x][n].key = "new"
                   /\ versions'[x][n].revoked =>
                        versions[x][n].revoked \/ (sstatus[x] = "active" => n < scurrent[x])
                   /\ versions[x][n].revoked => versions'[x][n].revoked
           New == /\ ~versions'[x][n].revoked /\ sstatus[x] # "absent"
                  /\ \E c \in Callers : call[c] # NoCall /\ versions'[x][n].key = call[c].key
<1> SUFFICES Kept \/ New
  OBVIOUS
<1>0. StoreTyped /\ CallsTyped
  BY DEF SecretsInv, SecretsTypeOK, StoreTyped, CallsTyped
<1>c. \A c \in Callers : CallerOk(c)
  BY DEF SecretsInv, CallersOk
<1>a. ASSUME NEW c \in Callers, call[c].op # "none"
      PROVE  /\ call[c] \in Calls /\ call[c].secret \in SecretIds /\ call[c] # NoCall
             /\ call[c].seen \in 0..MaxVersion /\ call[c].key \in Keys
  BY <1>0, <1>a, Busy DEF Calls, Idle
<1>n. n \in Nat /\ n <= MaxVersion /\ MaxVersion \in Nat /\ scurrent[x] \in 0..MaxVersion
  BY <1>0, SecretsAssumption DEF Numbers, StoreTyped
<1>s. ASSUME versions'[x][n] = versions[x][n] PROVE Kept
  BY <1>s
<1>1. CASE versions' = versions
  BY <1>1, <1>s
<1>2. ASSUME NEW c \in Callers, NEW y \in SecretIds, NEW m \in Numbers, NEW k, k = call[c].key,
             Insert(y, m, k), call[c] # NoCall, sstatus[y] # "absent"
      PROVE  Kept \/ New
  <2>1. CASE x = y /\ n = m
    <3>1. versions'[x][n] = [held |-> TRUE, key |-> k, revoked |-> FALSE]
      BY <1>0, <1>2, <2>1, InsertEffect
    <3>2. QED
      BY <1>2, <2>1, <3>1
  <2>2. CASE ~(x = y /\ n = m)
    <3>1. versions'[x][n] = versions[x][n] \/ (x = y /\ n = m)
      BY <1>0, <1>2, InsertEffect DEF Insert, SetVersions
    <3>2. versions'[x][n] = versions[x][n]
      BY <2>2, <3>1
    <3>3. QED
      BY <1>s, <3>2
  <2>3. QED
    BY <2>1, <2>2
<1>3. ASSUME NEW y \in SecretIds, NEW j, RevokeBelow(y, j), y = x => (sstatus[x] = "active" => n < scurrent[x]) \/ ~(n < j)
      PROVE  Kept
  <2>1. CASE x = y /\ n < j /\ versions[x][n].held
    <3>1. versions'[x][n] = [versions[x][n] EXCEPT !.revoked = TRUE]
      BY <1>0, <1>3, <2>1, RevokeEffect
    <3>2. versions[x][n] \in Rows
      BY <1>0, <2>1, HeldRow
    <3>3. QED
      BY <1>3, <2>1, <3>1, <3>2 DEF Rows
  <2>2. CASE ~(x = y /\ n < j /\ versions[x][n].held)
    <3>1. versions'[x][n] = versions[x][n]
      BY <1>0, <1>3, <2>2, RevokeEffect
    <3>2. QED
      BY <1>s, <3>1
  <2>3. QED
    BY <2>1, <2>2
<1>4. ASSUME NEW c \in Callers, InsertFirst(c), versions' # versions PROVE Kept \/ New
  <2>1. Calling(c, "create", "version") /\ Insert(call[c].secret, 1, call[c].key)
    BY <1>4 DEF InsertFirst, Lose, store
  <2>2. call[c].secret \in SecretIds /\ call[c] # NoCall
    BY <1>a, <2>1 DEF Calling
  <2>3. sstatus[call[c].secret] # "absent"
    BY <1>c, <2>1, <2>2 DEF CallerOk, Calling
  <2>4. 1 \in Numbers
    BY SecretsAssumption DEF Numbers
  <2>5. QED
    BY <1>2, <2>1, <2>2, <2>3, <2>4
<1>5. ASSUME NEW c \in Callers, InsertNext(c), versions' # versions PROVE Kept \/ New
  <2>1. Calling(c, "rotate", "insert") /\ Insert(call[c].secret, call[c].seen + 1, call[c].key)
    BY <1>5 DEF InsertNext, Lose, store
  <2>2. call[c].secret \in SecretIds /\ call[c] # NoCall /\ call[c].seen \in 0..MaxVersion
    BY <1>a, <2>1 DEF Calling
  <2>3. sstatus[call[c].secret] # "absent" /\ call[c].seen + 1 \in Numbers
    BY <1>c, <1>n, <2>1, <2>2 DEF CallerOk, Calling, Numbers
  <2>4. QED
    BY <1>2, <2>1, <2>2, <2>3
<1>6. ASSUME NEW c \in Callers, RollBack(c), versions' # versions PROVE Kept
  <2>1. Calling(c, "rotate", "rollback") /\ Remove(call[c].secret, call[c].seen + 1)
    BY <1>6 DEF RollBack, Lose, store
  <2>2. call[c].secret \in SecretIds /\ call[c] # NoCall /\ call[c].seen \in 0..MaxVersion
    BY <1>a, <2>1 DEF Calling
  <2>3. call[c].seen + 1 \in Numbers
    BY <1>c, <1>n, <2>1, <2>2 DEF CallerOk, Calling, Numbers
  <2>4. versions'[x][n] = NoRow \/ versions'[x][n] = versions[x][n]
    BY <1>0, <2>1, <2>2, <2>3, RemoveEffect
  <2>5. QED
    BY <1>s, <2>4 DEF NoRow
<1>7. ASSUME NEW c \in Callers, UndoCreate(c) \/ Shred(c), versions' # versions PROVE Kept
  <2>1. /\ call[c].op # "none"
        /\ versions' = [versions EXCEPT ![call[c].secret] = [i \in Numbers |-> NoRow]]
    BY <1>7 DEF UndoCreate, Shred, Lose, store, SetVersions, Calling
  <2>2. call[c].secret \in SecretIds
    BY <1>a, <2>1
  <2>3. versions'[x][n] = NoRow \/ versions'[x][n] = versions[x][n]
    BY <1>0, <2>1, <2>2, ShredEffect
  <2>4. QED
    BY <1>s, <2>3 DEF NoRow
<1>8. ASSUME NEW c \in Callers, StampOlder(c), versions' # versions PROVE Kept
  <2>1. Calling(c, "rotate", "stamp") /\ RevokeBelow(call[c].secret, call[c].seen + 1)
    BY <1>8 DEF StampOlder, Lose, store, Outdate
  <2>2. call[c].secret \in SecretIds /\ call[c] # NoCall /\ call[c].seen \in 0..MaxVersion
    BY <1>a, <2>1 DEF Calling
  <2>3. call[c].seen < scurrent[call[c].secret]
    BY <1>c, <2>1, <2>2 DEF CallerOk
  <2>4. QED
    BY <1>3, <1>n, <2>1, <2>2, <2>3
<1>9. ASSUME NEW c \in Callers, StampAll(c), versions' # versions PROVE Kept
  <2>1. Calling(c, "revoke", "stamp") /\ RevokeBelow(call[c].secret, MaxVersion + 1)
    BY <1>9 DEF StampAll, Lose, store
  <2>2. call[c].secret \in SecretIds /\ call[c] # NoCall
    BY <1>a, <2>1 DEF Calling
  <2>3. sstatus[call[c].secret] # "active"
    BY <1>c, <2>1, <2>2 DEF CallerOk
  <2>4. QED
    BY <1>3, <2>1, <2>2, <2>3
<1>10. ASSUME NEW y \in SecretIds, NEW m \in Numbers, RewrapVersion(y, m) PROVE Kept
  <2>1. versions[y][m].held
    BY <1>10 DEF RewrapVersion
  <2>2. CASE x = y /\ n = m
    <3>1. versions'[x][n] = [versions[x][n] EXCEPT !.key = "new"] /\ versions[x][n] \in Rows
      BY <1>0, <1>10, <2>1, <2>2, RewrapEffect, HeldRow
    <3>2. QED
      BY <2>1, <2>2, <3>1 DEF Rows
  <2>3. CASE ~(x = y /\ n = m)
    <3>1. versions'[x][n] = versions[x][n] \/ (x = y /\ n = m)
      BY <1>0, <1>10, RewrapEffect DEF RewrapVersion, SetVersions
    <3>2. versions'[x][n] = versions[x][n]
      BY <2>3, <3>1
    <3>3. QED
      BY <1>s, <3>2
  <2>4. QED
    BY <2>2, <2>3
<1>11. QED
  BY <1>1, <1>4, <1>5, <1>6, <1>7, <1>8, <1>9, <1>10, VersionWriters

\* A secret begins with the row createSecret inserts, and without versions.
LEMMA Born ==
  ASSUME SecretsInv, [SecretsNext]_secretsVars, NEW x \in SecretIds,
         sstatus[x] = "absent", sstatus'[x] # "absent"
  PROVE  /\ sstatus'[x] = "active" /\ scurrent'[x] = 1 /\ UNCHANGED versions
         /\ \E c \in Callers : Performs(c, "create", "insert", x) /\ (Go(c, "version") \/ Spoil(x))
<1>0. StoreTyped /\ CallsTyped
  BY DEF SecretsInv, SecretsTypeOK, StoreTyped, CallsTyped
<1>1. PICK c \in Callers :
        InsertSecret(c) \/ UndoCreate(c) \/ SwapCurrent(c) \/ UpdateRevoked(c) \/ Tombstone(c)
  BY RowWriters
<1>2. call[c].op # "none" /\ call[c] # NoCall
  <2>1. \E op \in {"create", "rotate", "revoke", "delete"} : \E at : Calling(c, op, at)
    BY <1>1 DEF InsertSecret, UndoCreate, SwapCurrent, UpdateRevoked, Tombstone
  <2>2. QED
    BY <2>1 DEF Calling, NoCall
<1>3. call[c].secret \in SecretIds /\ CallerOk(c)
  BY <1>0, <1>2, Busy DEF SecretsInv, CallersOk
<1>4. CASE InsertSecret(c)
  <2>1. /\ Calling(c, "create", "insert")
        /\ sstatus' = [sstatus EXCEPT ![call[c].secret] = "active"]
        /\ scurrent' = [scurrent EXCEPT ![call[c].secret] = 1]
        /\ UNCHANGED versions
        /\ Go(c, "version") \/ Spoil(call[c].secret)
    BY <1>4 DEF InsertSecret, Lose, store
  <2>2. call[c].secret = x
    BY <1>0, <1>3, <2>1 DEF StoreTyped
  <2>3. QED
    BY <1>0, <1>2, <1>3, <2>1, <2>2 DEF StoreTyped, Performs
<1>5. CASE UndoCreate(c) \/ SwapCurrent(c) \/ UpdateRevoked(c) \/ Tombstone(c)
  <2>1. sstatus[call[c].secret] # "absent"
    BY <1>2, <1>3, <1>5 DEF UndoCreate, SwapCurrent, UpdateRevoked, Tombstone, Calling, CallerOk
  <2>2. sstatus' = sstatus \/ \E s : sstatus' = [sstatus EXCEPT ![call[c].secret] = s]
    BY <1>5 DEF UndoCreate, SwapCurrent, UpdateRevoked, Tombstone, Lose, store, SetStatus
  <2>3. QED
    BY <1>0, <1>3, <2>1, <2>2 DEF StoreTyped
<1>6. QED
  BY <1>1, <1>4, <1>5

\* No step revokes what an active secret may still come to use.
LEMMA SecretsStep ==
  ASSUME SecretsInv, SecretsTypeOK', Grows, [SecretsNext]_secretsVars
  PROVE  SecretsOk'
<1> SUFFICES ASSUME NEW x \in SecretIds PROVE SecretOk(x)'
  BY DEF SecretsOk
<1>0. SecretOk(x)
  BY DEF SecretsInv, SecretsOk
<1>n. /\ scurrent[x] \in Nat /\ scurrent'[x] \in Nat /\ MaxVersion \in Nat
      /\ \A n \in Numbers : n \in Nat
  BY SecretsAssumption DEF SecretsInv, SecretsTypeOK, Numbers
<1>1. ASSUME sstatus'[x] = "absent", NEW n \in Numbers, versions'[x][n].held PROVE FALSE
  BY <1>0, <1>1, VersionStep DEF Grows, SecretOk
<1>2. ASSUME sstatus'[x] # "absent" PROVE 1 <= scurrent'[x]
  BY <1>0, <1>2, <1>n, Born DEF Grows, SecretOk
<1>3. ASSUME sstatus'[x] = "active", NEW n \in Numbers, scurrent'[x] <= n, versions'[x][n].held
      PROVE  ~versions'[x][n].revoked
  <2>1. CASE sstatus[x] = "absent"
    BY <1>0, <1>3, <2>1, Born DEF SecretOk
  <2>2. CASE sstatus[x] # "absent"
    <3>1. sstatus[x] = "active" /\ scurrent[x] <= n
      BY <1>3, <1>n, <2>2 DEF Grows
    <3>2. ~(n < scurrent[x])
      BY <1>n, <3>1
    <3>3. QED
      BY <1>0, <1>3, <3>1, <3>2, VersionStep DEF SecretOk
  <2>3. QED
    BY <2>1, <2>2
<1>4. QED
  BY <1>1, <1>2, <1>3 DEF SecretOk

\* The key a caller seals under is the one of the moment it loads, or stays.
LEMMA KeyMoves ==
  ASSUME SecretsInv, [SecretsNext]_secretsVars, NEW c \in Callers, call'[c] # NoCall
  PROVE  call'[c].key = SealingKey \/ (call[c] # NoCall /\ call'[c].key = call[c].key)
<1>0. CallsTyped
  BY DEF SecretsInv, SecretsTypeOK, CallsTyped
<1>1. CASE call' = call
  BY <1>1
<1>2. ASSUME NEW d \in Callers, ReturnCall(d) \/ Abandon(d)
      PROVE  call[c] # NoCall /\ call'[c].key = call[c].key
  <2>1. call' = [call EXCEPT ![d] = NoCall]
    BY <1>2 DEF ReturnCall, Abandon
  <2>2. c # d /\ call'[c] = call[c]
    BY <1>0, <2>1, Leaving
  <2>3. QED
    BY <2>2
<1>3. ASSUME NEW d \in Callers, NEW op \in Operations, NEW x \in SecretIds, Request(d, op, x)
      PROVE  call'[c].key = SealingKey \/ (call[c] # NoCall /\ call'[c].key = call[c].key)
  <2>1. \E at : Begin(d, op, at, x)
    BY <1>3 DEF Request
  <2>2. QED
    BY <1>0, <2>1 DEF Begin, CallsTyped
<1>4. ASSUME NEW d \in Callers, SecretStep(d)
      PROVE  call'[c].key = SealingKey \/ (call[c] # NoCall /\ call'[c].key = call[c].key)
  <2>1. CASE c # d
    <3>1. call'[c] = call[c]
      BY <1>0, <1>4, <2>1, StepMoves DEF CallsTyped, Go, Finish
    <3>2. QED
      BY <3>1
  <2>2. CASE c = d
    <3>1. call[c] \in Calls /\ call[c] # NoCall
      <4>1. \E op \in {"create", "rotate", "revoke", "delete", "resolve"} : \E at : Calling(c, op, at)
        BY <1>4, <2>2 DEF SecretStep, InsertSecret, InsertFirst, UndoCreate, LoadToRotate, InsertNext, SwapCurrent,
           RollBack, StampOlder, LoadToRevoke, UpdateRevoked, StampAll, LoadToDelete, Shred, Tombstone,
           LoadToResolve, ReadVersion
      <4>2. QED
        BY <1>0, <4>1, Busy DEF Calling, NoCall
    <3>2. \/ \E s : call'[c] = [call[c] EXCEPT !.at = s]
          \/ \E s, n : call'[c] = [[call[c] EXCEPT !.at = s] EXCEPT !.seen = n]
          \/ \E s, n : call'[c] = [[[call[c] EXCEPT !.at = s] EXCEPT !.seen = n] EXCEPT !.key = SealingKey]
      <4>1. CASE Finish(c) \/ \E s : Go(c, s)
        BY <1>0, <4>1 DEF CallsTyped, Go, Finish
      <4>2. CASE \E s, n : call' = [call EXCEPT ![c].at = s, ![c].seen = n]
        <5>1. PICK s, n : call' = [call EXCEPT ![c].at = s, ![c].seen = n]
          BY <4>2
        <5>2. call'[c] = [[call[c] EXCEPT !.at = s] EXCEPT !.seen = n]
          BY <1>0, <5>1 DEF CallsTyped
        <5>3. QED
          BY <5>2
      <4>3. CASE \E s, n : call' = [call EXCEPT ![c].at = s, ![c].seen = n, ![c].key = SealingKey]
        <5>1. PICK s, n : call' = [call EXCEPT ![c].at = s, ![c].seen = n, ![c].key = SealingKey]
          BY <4>3
        <5>2. call'[c] = [[[call[c] EXCEPT !.at = s] EXCEPT !.seen = n] EXCEPT !.key = SealingKey]
          BY <1>0, <5>1 DEF CallsTyped
        <5>3. QED
          BY <5>2
      <4>4. QED
        BY <1>4, <2>2, <4>1, <4>2, <4>3, StepMoves
    <3>3. QED
      BY <3>1, <3>2 DEF Calls
  <2>3. QED
    BY <2>1, <2>2
<1>5. QED
  BY <1>1, <1>2, <1>3, <1>4 DEF SecretsNext, Maintain, RotateKek, RetireKek, RewrapVersion, secretsVars

\* The old key stays unused.
LEMMA KeysStep ==
  ASSUME SecretsInv, [SecretsNext]_secretsVars
  PROVE  KeysOk'
<1> SUFFICES ASSUME kek' = "retired"
             PROVE  /\ \A c \in Callers : call'[c] # NoCall => call'[c].key = "new"
                    /\ \A x \in SecretIds, n \in Numbers :
                         versions'[x][n].held /\ ~versions'[x][n].revoked => versions'[x][n].key = "new"
  BY DEF KeysOk
<1>1. CASE kek = "retired"
  <2>1. /\ \A c \in Callers : call[c] # NoCall => call[c].key = "new"
        /\ \A x \in SecretIds, n \in Numbers :
             versions[x][n].held /\ ~versions[x][n].revoked => versions[x][n].key = "new"
    BY <1>1 DEF SecretsInv, KeysOk
  <2>2. SealingKey = "new"
    BY <1>1 DEF SealingKey
  <2>3. ASSUME NEW c \in Callers, call'[c] # NoCall PROVE call'[c].key = "new"
    BY <2>1, <2>2, <2>3, KeyMoves
  <2>4. ASSUME NEW x \in SecretIds, NEW n \in Numbers, versions'[x][n].held, ~versions'[x][n].revoked
        PROVE  versions'[x][n].key = "new"
    BY <2>1, <2>4, VersionStep
  <2>5. QED
    BY <2>3, <2>4
<1>2. CASE kek # "retired"
  <2>1. RetireKek
    BY <1>2 DEF SecretsNext, SecretStep, Maintain, secretsVars, ReturnCall, Abandon, InsertSecret, InsertFirst,
       UndoCreate, LoadToRotate, InsertNext, SwapCurrent, RollBack, StampOlder, LoadToRevoke, UpdateRevoked,
       StampAll, LoadToDelete, Shred, Tombstone, LoadToResolve, ReadVersion, RotateKek, RewrapVersion
  <2>2. QED
    BY <2>1 DEF RetireKek, Idle, store
<1>3. QED
  BY <1>1, <1>2

----
(* Current versions are kept. *)

\* What is spoilt stays so.
LEMMA FaultedGrows ==
  ASSUME [SecretsNext]_secretsVars
  PROVE  faulted \subseteq faulted'
<1>1. CASE UNCHANGED faulted
  BY <1>1
<1>2. CASE \E x : Spoil(x)
  BY <1>2 DEF Spoil
<1>3. ASSUME NEW c \in Callers, SecretStep(c) PROVE UNCHANGED faulted \/ \E x : Spoil(x)
  <2>1. CASE InsertSecret(c) \/ InsertFirst(c) \/ UndoCreate(c) \/ InsertNext(c) \/ SwapCurrent(c) \/ RollBack(c)
    BY <2>1 DEF InsertSecret, InsertFirst, UndoCreate, InsertNext, SwapCurrent, RollBack, Lose
  <2>2. CASE StampOlder(c) \/ UpdateRevoked(c) \/ StampAll(c) \/ Shred(c) \/ Tombstone(c)
    BY <2>2 DEF StampOlder, UpdateRevoked, StampAll, Shred, Tombstone, Lose
  <2>3. CASE LoadToRotate(c) \/ LoadToResolve(c) \/ LoadToRevoke(c) \/ LoadToDelete(c) \/ ReadVersion(c)
    BY <2>3 DEF LoadToRotate, LoadToResolve, LoadToRevoke, LoadToDelete, ReadVersion
  <2>4. QED
    BY <1>3, <2>1, <2>2, <2>3 DEF SecretStep
<1>4. QED
  BY <1>1, <1>2, <1>3 DEF SecretsNext, Maintain, RotateKek, RetireKek, RewrapVersion, secretsVars, ReturnCall, Abandon

\* A secret that is gone stays gone.
LEMMA StatusStep ==
  ASSUME SecretsInv, [SecretsNext]_secretsVars, NEW x \in SecretIds,
         Exists(x)', sstatus'[x] # "deleted"
  PROVE  sstatus[x] = "absent" \/ (Exists(x) /\ sstatus[x] # "deleted")
<1>0. StoreTyped /\ CallsTyped
  BY DEF SecretsInv, SecretsTypeOK, StoreTyped, CallsTyped
<1>1. CASE sstatus' = sstatus
  BY <1>1 DEF Exists
<1>2. ASSUME NEW c \in Callers, InsertSecret(c) \/ UndoCreate(c) \/ SwapCurrent(c) \/ UpdateRevoked(c) \/ Tombstone(c),
             sstatus' # sstatus
      PROVE  sstatus[x] = "absent" \/ (Exists(x) /\ sstatus[x] # "deleted")
  <2> DEFINE y == call[c].secret
  <2>1. \/ sstatus' = [sstatus EXCEPT ![y] = "active"] /\ sstatus[y] = "absent"
        \/ sstatus' = [sstatus EXCEPT ![y] = "removed"]
        \/ sstatus' = [sstatus EXCEPT ![y] = "revoked"] /\ Alive(y)
        \/ sstatus' = [sstatus EXCEPT ![y] = "deleted"]
    BY <1>2 DEF InsertSecret, UndoCreate, SwapCurrent, UpdateRevoked, Tombstone, Lose, store, SetStatus
  <2>2. CASE x = y
    BY <1>0, <2>1, <2>2 DEF StoreTyped, Exists, Alive
  <2>3. CASE x # y
    BY <1>0, <2>1, <2>3 DEF StoreTyped, Exists
  <2>4. QED
    BY <2>2, <2>3
<1>3. QED
  BY <1>1, <1>2, RowWriters

\* The step of an operation keeps who runs it and for which secret, and the others.
LEMMA CallMoves ==
  ASSUME SecretsInv, NEW c \in Callers, SecretStep(c)
  PROVE  /\ call[c] \in Calls /\ call[c] # NoCall /\ call'[c] # NoCall
         /\ call'[c].op = call[c].op /\ call'[c].secret = call[c].secret
         /\ \A d \in Callers \ {c} : call'[d] = call[d]
<1>0. CallsTyped
  BY DEF SecretsInv, SecretsTypeOK, CallsTyped
<1>1. call[c] \in Calls /\ call[c] # NoCall /\ call[c].op # "none"
  <2>1. \E op \in {"create", "rotate", "revoke", "delete", "resolve"} : \E at : Calling(c, op, at)
    BY DEF SecretStep, InsertSecret, InsertFirst, UndoCreate, LoadToRotate, InsertNext, SwapCurrent,
       RollBack, StampOlder, LoadToRevoke, UpdateRevoked, StampAll, LoadToDelete, Shred, Tombstone,
       LoadToResolve, ReadVersion
  <2>2. QED
    BY <1>0, <2>1, Busy DEF Calling, NoCall
<1>2. \A d \in Callers \ {c} : call'[d] = call[d]
  BY <1>0, StepMoves DEF CallsTyped, Go, Finish
<1>3. call'[c].op = call[c].op /\ call'[c].secret = call[c].secret
  <2>1. CASE Finish(c) \/ \E s : Go(c, s)
    <3>1. \E s : call'[c] = [call[c] EXCEPT !.at = s]
      BY <1>0, <2>1 DEF CallsTyped, Go, Finish
    <3>2. QED
      BY <1>1, <3>1 DEF Calls
  <2>2. CASE \E s, n : call' = [call EXCEPT ![c].at = s, ![c].seen = n]
    <3>1. PICK s, n : call' = [call EXCEPT ![c].at = s, ![c].seen = n]
      BY <2>2
    <3>2. call'[c] = [[call[c] EXCEPT !.at = s] EXCEPT !.seen = n]
      BY <1>0, <3>1 DEF CallsTyped
    <3>3. QED
      BY <1>1, <3>2 DEF Calls
  <2>3. CASE \E s, n : call' = [call EXCEPT ![c].at = s, ![c].seen = n, ![c].key = SealingKey]
    <3>1. PICK s, n : call' = [call EXCEPT ![c].at = s, ![c].seen = n, ![c].key = SealingKey]
      BY <2>3
    <3>2. call'[c] = [[[call[c] EXCEPT !.at = s] EXCEPT !.seen = n] EXCEPT !.key = SealingKey]
      BY <1>0, <3>1 DEF CallsTyped
    <3>3. QED
      BY <1>1, <3>2 DEF Calls
  <2>4. QED
    BY <2>1, <2>2, <2>3, StepMoves
<1>4. call'[c] # NoCall
  BY <1>1, <1>3 DEF NoCall
<1>5. QED
  BY <1>1, <1>2, <1>3, <1>4

\* Only its own secret.
LEMMA OtherSecretsStay ==
  ASSUME SecretsInv, NEW c \in Callers, SecretStep(c), NEW x \in SecretIds, x # call[c].secret
  PROVE  scurrent'[x] = scurrent[x] /\ versions'[x] = versions[x]
<1>0. StoreTyped
  BY DEF SecretsInv, SecretsTypeOK, StoreTyped
<1>1. scurrent' = scurrent \/ \E n : scurrent' = [scurrent EXCEPT ![call[c].secret] = n]
  BY DEF SecretStep, InsertSecret, InsertFirst, UndoCreate, LoadToRotate, InsertNext, SwapCurrent,
       RollBack, StampOlder, LoadToRevoke, UpdateRevoked, StampAll, LoadToDelete, Shred, Tombstone,
       LoadToResolve, ReadVersion, Lose, store, Insert, Remove, Outdate, RevokeBelow, SetVersions, SetStatus
<1>2. versions' = versions \/ \E r : versions' = [versions EXCEPT ![call[c].secret] = r]
  <2>1. CASE InsertSecret(c) \/ InsertFirst(c) \/ UndoCreate(c) \/ InsertNext(c) \/ SwapCurrent(c) \/ RollBack(c)
    BY <2>1 DEF InsertSecret, InsertFirst, UndoCreate, InsertNext, SwapCurrent, RollBack, Lose, store,
                Insert, Remove, SetVersions
  <2>2. CASE StampOlder(c) \/ UpdateRevoked(c) \/ StampAll(c) \/ Shred(c) \/ Tombstone(c)
    BY <2>2 DEF StampOlder, UpdateRevoked, StampAll, Shred, Tombstone, Lose, store, Outdate, RevokeBelow,
                SetVersions, SetStatus
  <2>3. CASE LoadToRotate(c) \/ LoadToResolve(c) \/ LoadToRevoke(c) \/ LoadToDelete(c) \/ ReadVersion(c)
    BY <2>3 DEF LoadToRotate, LoadToResolve, LoadToRevoke, LoadToDelete, ReadVersion, store
  <2>4. QED
    BY <2>1, <2>2, <2>3 DEF SecretStep
<1>3. QED
  BY <1>0, <1>1, <1>2 DEF StoreTyped

\* A secret that is in order after a step was so before it, or was not there.
LEMMA TidyBefore ==
  ASSUME SecretsInv, [SecretsNext]_secretsVars, NEW x \in SecretIds, Tidy(x)'
  PROVE  Tidy(x) \/ sstatus[x] = "absent"
<1>0. StoreTyped /\ CallsTyped
  BY DEF SecretsInv, SecretsTypeOK, StoreTyped, CallsTyped
<1>1. x \notin faulted' /\ x \notin faulted /\ Exists(x)' /\ sstatus'[x] # "deleted"
  BY FaultedGrows DEF Tidy
<1>2. SUFFICES ASSUME sstatus[x] # "absent", NEW c \in Callers, Performs(c, "delete", "tombstone", x) PROVE FALSE
  BY <1>1, StatusStep DEF Tidy
<1>3. ~Performs(c, "delete", "tombstone", x)'
  BY DEF Tidy
<1>4. call'[c] # call[c]
  BY <1>2, <1>3 DEF Performs, Calling
<1>5. ~Idle(c) /\ ~ReturnCall(c)
  BY <1>2 DEF Performs, Calling, Idle, ReturnCall, Ended
<1>6. ~Abandon(c)
  BY <1>1, <1>2 DEF Abandon, Performs, Spoil
<1>7. ASSUME NEW d \in Callers, d # c,
             ReturnCall(d) \/ Abandon(d) \/ SecretStep(d) \/ \E op \in Operations, y \in SecretIds : Request(d, op, y)
      PROVE  FALSE
  <2>1. CASE ReturnCall(d) \/ Abandon(d)
    <3>1. call' = [call EXCEPT ![d] = NoCall]
      BY <2>1 DEF ReturnCall, Abandon
    <3>2. QED
      BY <1>0, <1>4, <1>7, <3>1, Leaving
  <2>2. CASE SecretStep(d)
    BY <1>4, <1>7, <2>2, CallMoves
  <2>3. CASE \E op \in Operations, y \in SecretIds : Request(d, op, y)
    BY <1>0, <1>4, <1>7, <2>3 DEF Request, Begin, CallsTyped
  <2>4. QED
    BY <1>7, <2>1, <2>2, <2>3
<1>8. SecretStep(c)
  BY <1>4, <1>5, <1>6, <1>7 DEF SecretsNext, Maintain, RotateKek, RetireKek, RewrapVersion, secretsVars, Request, Begin
<1>9. Tombstone(c)
  BY <1>2, <1>8 DEF Performs, Calling, SecretStep, InsertSecret, InsertFirst, UndoCreate, LoadToRotate, InsertNext, SwapCurrent,
       RollBack, StampOlder, LoadToRevoke, UpdateRevoked, StampAll, LoadToDelete, Shred,
       LoadToResolve, ReadVersion
<1>10. \/ sstatus' = [sstatus EXCEPT ![x] = "deleted"]
       \/ x \in faulted'
       \/ ~Exists(x) /\ sstatus' = sstatus
  BY <1>2, <1>9 DEF Performs, Tombstone, SetStatus, Lose, store, Spoil
<1>11. QED
  BY <1>0, <1>1, <1>10 DEF StoreTyped, Exists

\* A step that does not touch what a secret's versions rest on.
AtRest(x) ==
  /\ scurrent'[x] = scurrent[x]
  /\ \A n \in Numbers : versions[x][n].held => versions'[x][n].held
  /\ \A c \in Callers : Rotating(c, x)' => Rotating(c, x) /\ call'[c].seen = call[c].seen
  /\ \A c \in Callers : Performs(c, "create", "version", x) => Performs(c, "create", "version", x)'

\* A caller that rolls back or swaps has a version of its own.
LEMMA HoldsNumber ==
  ASSUME SecretsInv, NEW c \in Callers, NEW x \in SecretIds, Rotating(c, x)
  PROVE  call[c].seen + 1 \in Numbers /\ call[c].seen \in Nat /\ 1 <= call[c].seen
<1>1. call[c] \in Calls /\ CallerOk(c)
  BY DEF SecretsInv, SecretsTypeOK, CallersOk, Rotating, Performs
<1>2. QED
  BY <1>1, SecretsAssumption DEF Calls, CallerOk, Rotating, Performs, Calling, Numbers

\* Such a step keeps the versions in order.
LEMMA QuietOk ==
  ASSUME SecretsInv, NEW x \in SecretIds, VersionsOk(x), AtRest(x)
  PROVE  VersionsOk(x)'
<1>1. 1 \in Numbers
  BY SecretsAssumption DEF Numbers
<1>2. versions'[x][1].held \/ \E c \in Callers : Performs(c, "create", "version", x)'
  BY <1>1 DEF VersionsOk, AtRest
<1>3. \A n \in Numbers : 2 <= n /\ n <= scurrent'[x] => versions'[x][n].held
  BY DEF VersionsOk, AtRest
<1>4. ASSUME NEW c \in Callers, Rotating(c, x)'
      PROVE  /\ versions'[x][call'[c].seen + 1].held
             /\ scurrent'[x] <= call'[c].seen
             /\ \A d \in Callers : Rotating(d, x)' /\ call'[d].seen = call'[c].seen => d = c
  <2>1. Rotating(c, x) /\ call'[c].seen = call[c].seen
    BY <1>4 DEF AtRest
  <2>2. versions[x][call[c].seen + 1].held /\ call[c].seen + 1 \in Numbers
    BY <2>1, HoldsNumber DEF VersionsOk
  <2>3. \A d \in Callers : Rotating(d, x)' => Rotating(d, x) /\ call'[d].seen = call[d].seen
    BY DEF AtRest
  <2>4. QED
    BY <2>1, <2>2, <2>3 DEF VersionsOk, AtRest
<1>5. QED
  BY <1>2, <1>3, <1>4 DEF VersionsOk

\* The step of caller c on x is quiet when c neither comes to hold a version nor ends its creation.
LEMMA QuietStep ==
  ASSUME SecretsInv, NEW c \in Callers, SecretStep(c), NEW x \in SecretIds,
         scurrent'[x] = scurrent[x],
         \A n \in Numbers : versions[x][n].held => versions'[x][n].held,
         Rotating(c, x)' => Rotating(c, x) /\ call'[c].seen = call[c].seen,
         ~Performs(c, "create", "version", x)
  PROVE  AtRest(x)
<1>1. \A d \in Callers \ {c} : call'[d] = call[d]
  BY CallMoves
<1>2. \A d \in Callers : Rotating(d, x)' => Rotating(d, x) /\ call'[d].seen = call[d].seen
  BY <1>1 DEF Rotating, Performs, Calling
<1>3. \A d \in Callers : Performs(d, "create", "version", x) => Performs(d, "create", "version", x)'
  BY <1>1 DEF Performs, Calling
<1>4. QED
  BY <1>2, <1>3 DEF AtRest

\* Versions are kept, where nothing went wrong.
LEMMA VersionsStep ==
  ASSUME SecretsInv, SecretsTypeOK', NEW c \in Callers, SecretStep(c), NEW x \in SecretIds,
         x = call[c].secret, Tidy(x), VersionsOk(x), Tidy(x)'
  PROVE  VersionsOk(x)'
<1>0. StoreTyped /\ CallsTyped /\ StoreTyped'
  BY DEF SecretsInv, SecretsTypeOK, StoreTyped, CallsTyped
<1>m. /\ call[c] \in Calls /\ call[c] # NoCall /\ call'[c] # NoCall
      /\ call'[c].op = call[c].op /\ call'[c].secret = x
      /\ \A d \in Callers \ {c} : call'[d] = call[d]
  BY CallMoves
<1>k. call[c].seen \in 0..MaxVersion /\ MaxVersion \in Nat /\ scurrent[x] \in 0..MaxVersion /\ 1 \in Numbers
      /\ \A n \in Numbers : n \in Nat /\ 1 <= n /\ n <= MaxVersion
  BY <1>0, <1>m, SecretsAssumption DEF Calls, StoreTyped, Numbers
<1>s. CallSteps = {"load", "insert", "version", "undo", "swap", "rollback", "stamp", "update",
              "shred", "tombstone", "read", "ok", "error", "unavailable"}
  BY DEF CallSteps
<1>t. ~Spoil(x)
  BY DEF Tidy, Spoil
<1>e. Exists(x) /\ sstatus'[x] # "removed" /\ sstatus'[x] # "deleted" /\ ~Performs(c, "delete", "tombstone", x)'
  BY DEF Tidy, Exists
<1>g. ASSUME NEW s \in CallSteps, Go(c, s) PROVE call'[c].at = s /\ call'[c].seen = call[c].seen
  BY <1>0, <1>g, <1>m, Going
\* What other callers hold is theirs.
<1>o. ASSUME NEW d \in Callers, d # c, Rotating(d, x)'
      PROVE  Rotating(d, x) /\ call'[d].seen = call[d].seen
  BY <1>m, <1>o DEF Rotating, Performs, Calling
<1>1. CASE InsertSecret(c) \/ UndoCreate(c)
  <2>1. sstatus[x] = "absent" \/ sstatus' = [sstatus EXCEPT ![x] = "removed"] \/ Spoil(x)
    BY <1>1 DEF InsertSecret, UndoCreate, Lose
  <2>2. QED
    BY <1>0, <1>e, <1>t, <2>1 DEF StoreTyped, Exists
<1>2. CASE InsertFirst(c)
  <2>1. Calling(c, "create", "version") /\ Insert(x, 1, call[c].key) /\ scurrent' = scurrent
    BY <1>2, <1>t DEF InsertFirst, Lose, Insert, SetVersions
  <2>2. versions'[x][1].held /\ \A n \in Numbers : versions[x][n].held => versions'[x][n].held
    <3>1. versions'[x][1].held
      <4>1. versions' = [versions EXCEPT ![x] = [versions[x] EXCEPT ![1] = [held |-> TRUE, key |-> call[c].key, revoked |-> FALSE]]]
        BY <2>1 DEF Insert, SetVersions
      <4>2. versions \in [SecretIds -> [Numbers -> Rows \cup {NoRow}]] /\ x \in SecretIds
        BY <1>0 DEF StoreTyped
      <4>3. versions'[x][1] = [held |-> TRUE, key |-> call[c].key, revoked |-> FALSE]
        BY <1>k, <4>1, <4>2
      <4>4. QED
        BY <4>3
    <3>2. ASSUME NEW n \in Numbers PROVE versions'[x][n] = versions[x][n] \/ n = 1
      BY <1>0, <1>k, <2>1, InsertEffect DEF Insert, SetVersions
    <3>3. QED
      BY <3>1, <3>2
  <2>3. ~Rotating(c, x)'
    BY <1>m, <2>1 DEF Rotating, Performs, Calling
  <2>4. \A n \in Numbers : 2 <= n /\ n <= scurrent'[x] => versions'[x][n].held
    BY <2>1, <2>2 DEF VersionsOk
  <2>5. ASSUME NEW d \in Callers, Rotating(d, x)'
        PROVE  /\ versions'[x][call'[d].seen + 1].held
               /\ scurrent'[x] <= call'[d].seen
               /\ \A f \in Callers : Rotating(f, x)' /\ call'[f].seen = call'[d].seen => f = d
    <3>1. d # c /\ Rotating(d, x) /\ call'[d].seen = call[d].seen
      BY <1>o, <2>3, <2>5
    <3>2. versions[x][call[d].seen + 1].held /\ call[d].seen + 1 \in Numbers
      BY <3>1, HoldsNumber DEF VersionsOk
    <3>3. QED
      BY <1>o, <2>1, <2>2, <2>3, <3>1, <3>2 DEF VersionsOk
  <2>6. QED
    BY <2>2, <2>4, <2>5 DEF VersionsOk
<1>3. CASE \/ LoadToRotate(c) \/ LoadToRevoke(c) \/ UpdateRevoked(c) \/ LoadToDelete(c) \/ Tombstone(c)
           \/ LoadToResolve(c) \/ ReadVersion(c)
  <2>1. /\ UNCHANGED <<scurrent, versions>>
        /\ call[c].op # "create"
        /\ call[c].op = "rotate" => LoadToRotate(c)
    BY <1>3 DEF LoadToRotate, LoadToRevoke, UpdateRevoked, LoadToDelete, Tombstone, LoadToResolve, ReadVersion,
                Calling, Lose, SetStatus, store
  <2>2. LoadToRotate(c) => call'[c].at \in {"insert", "unavailable"}
    <3>1. CASE Go(c, "unavailable")
      BY <1>g, <1>s, <3>1
    <3>2. CASE call' = [call EXCEPT ![c].at = "insert", ![c].seen = scurrent[x], ![c].key = SealingKey]
      <4>1. call'[c] = [[[call[c] EXCEPT !.at = "insert"] EXCEPT !.seen = scurrent[x]] EXCEPT !.key = SealingKey]
        BY <1>0, <3>2 DEF CallsTyped
      <4>2. QED
        BY <1>m, <4>1 DEF Calls
    <3>3. QED
      BY <3>1, <3>2 DEF LoadToRotate
  <2>3. ~Rotating(c, x)' /\ ~Performs(c, "create", "version", x)
    BY <1>m, <2>1, <2>2 DEF Rotating, Performs, Calling
  <2>4. QED
    BY <2>1, <2>3, QuietOk, QuietStep
<1>4. CASE InsertNext(c)
  <2> DEFINE n == call[c].seen + 1
  <2>1. Calling(c, "rotate", "insert") /\ scurrent' = scurrent
    BY <1>4 DEF InsertNext, Lose, Insert, SetVersions, store
  <2>n. n \in Numbers /\ n \in Nat /\ 2 <= n
    BY <1>k, <1>m, <2>1 DEF SecretsInv, CallersOk, CallerOk, Calling, Numbers
  <2>2. CASE Go(c, "error") /\ versions' = versions
    <3>1. ~Rotating(c, x)' /\ ~Performs(c, "create", "version", x)
      BY <1>g, <1>s, <2>1, <2>2 DEF Rotating, Performs, Calling
    <3>2. QED
      BY <2>1, <2>2, <3>1, QuietOk, QuietStep
  <2>3. CASE Go(c, "swap") /\ Insert(x, n, call[c].key) /\ ~versions[x][n].held
    <3>1. \A m \in Numbers : versions[x][m].held => versions'[x][m].held
      <4>1. ASSUME NEW m \in Numbers PROVE versions'[x][m] = versions[x][m] \/ m = n
        BY <1>0, <2>n, <2>3, InsertEffect DEF Insert, SetVersions
      <4>2. QED
        BY <2>3, <4>1
    <3>2. versions'[x][n].held
      <4>1. versions' = [versions EXCEPT ![x] = [versions[x] EXCEPT ![n] = [held |-> TRUE, key |-> call[c].key, revoked |-> FALSE]]]
        BY <2>3 DEF Insert, SetVersions
      <4>2. versions \in [SecretIds -> [Numbers -> Rows \cup {NoRow}]] /\ x \in SecretIds
        BY <1>0 DEF StoreTyped
      <4>3. versions'[x][n] = [held |-> TRUE, key |-> call[c].key, revoked |-> FALSE]
        BY <2>n, <4>1, <4>2
      <4>4. QED
        BY <4>3
    <3>3. scurrent[x] <= call[c].seen
      BY <1>k, <2>n, <2>3 DEF VersionsOk
    <3>4. call'[c].seen = call[c].seen
      BY <1>g, <1>s, <2>3
    <3>5. versions'[x][1].held \/ \E d \in Callers : Performs(d, "create", "version", x)'
      <4>1. CASE versions[x][1].held
        BY <1>k, <3>1, <4>1
      <4>2. ASSUME NEW d \in Callers, Performs(d, "create", "version", x) PROVE Performs(d, "create", "version", x)'
        BY <1>m, <2>1, <4>2 DEF Performs, Calling
      <4>3. QED
        BY <4>1, <4>2 DEF VersionsOk
    <3>6. \A m \in Numbers : 2 <= m /\ m <= scurrent'[x] => versions'[x][m].held
      BY <2>1, <3>1 DEF VersionsOk
    <3>7. ASSUME NEW d \in Callers, d # c, Rotating(d, x)'
          PROVE  /\ versions'[x][call'[d].seen + 1].held
                 /\ scurrent'[x] <= call'[d].seen
                 /\ call'[d].seen # call'[c].seen
                 /\ \A f \in Callers \ {c} : Rotating(f, x)' /\ call'[f].seen = call'[d].seen => f = d
      <4>1. Rotating(d, x) /\ call'[d].seen = call[d].seen
        BY <1>o, <3>7
      <4>2. versions[x][call[d].seen + 1].held /\ call[d].seen + 1 \in Numbers
        BY <4>1, HoldsNumber DEF VersionsOk
      <4>3. call[d].seen # call[c].seen
        BY <2>3, <4>2
      <4>4. \A f \in Callers \ {c} : Rotating(f, x)' => Rotating(f, x) /\ call'[f].seen = call[f].seen
        BY <1>o
      <4>5. QED
        BY <2>1, <3>1, <3>4, <4>1, <4>2, <4>3, <4>4 DEF VersionsOk
    <3>8. ASSUME NEW d \in Callers, Rotating(d, x)'
          PROVE  /\ versions'[x][call'[d].seen + 1].held
                 /\ scurrent'[x] <= call'[d].seen
                 /\ \A f \in Callers : Rotating(f, x)' /\ call'[f].seen = call'[d].seen => f = d
      <4>1. CASE d = c
        BY <2>1, <3>2, <3>3, <3>4, <3>7, <4>1
      <4>2. CASE d # c
        BY <3>7, <3>8, <4>2
      <4>3. QED
        BY <4>1, <4>2
    <3>9. QED
      BY <3>5, <3>6, <3>8 DEF VersionsOk
  <2>4. QED
    BY <1>4, <1>e, <1>t, <2>2, <2>3 DEF InsertNext, Lose, OnConflict, store
<1>5. CASE SwapCurrent(c)
  <2>1. Calling(c, "rotate", "swap") /\ versions' = versions
    BY <1>5 DEF SwapCurrent, Lose, store
  <2>h. Rotating(c, x)
    BY <1>m, <2>1 DEF Rotating, Performs
  <2>2. CASE Go(c, "rollback") /\ scurrent' = scurrent
    <3>1. call'[c].seen = call[c].seen
      BY <1>g, <1>s, <2>2
    <3>2. ~Performs(c, "create", "version", x)
      BY <2>1 DEF Performs, Calling
    <3>3. QED
      BY <2>1, <2>2, <2>h, <3>1, <3>2, QuietOk, QuietStep
  <2>3. CASE Go(c, "stamp") /\ scurrent[x] = call[c].seen /\ scurrent' = [scurrent EXCEPT ![x] = call[c].seen + 1]
    <3>1. scurrent'[x] = scurrent[x] + 1
      BY <1>0, <2>3 DEF StoreTyped
    <3>2. ~Rotating(c, x)'
      BY <1>g, <1>s, <2>3 DEF Rotating, Performs, Calling
    <3>3. versions'[x][1].held \/ \E d \in Callers : Performs(d, "create", "version", x)'
      <4>1. ASSUME NEW d \in Callers, Performs(d, "create", "version", x) PROVE Performs(d, "create", "version", x)'
        BY <1>m, <2>1, <4>1 DEF Performs, Calling
      <4>2. QED
        BY <2>1, <4>1 DEF VersionsOk
    <3>4. versions[x][call[c].seen + 1].held
      BY <2>h DEF VersionsOk
    <3>5. \A n \in Numbers : 2 <= n /\ n <= scurrent'[x] => versions'[x][n].held
      BY <1>k, <2>1, <2>3, <3>1, <3>4 DEF VersionsOk
    <3>6. ASSUME NEW d \in Callers, Rotating(d, x)'
          PROVE  /\ versions'[x][call'[d].seen + 1].held
                 /\ scurrent'[x] <= call'[d].seen
                 /\ \A f \in Callers : Rotating(f, x)' /\ call'[f].seen = call'[d].seen => f = d
      <4>1. d # c /\ Rotating(d, x) /\ call'[d].seen = call[d].seen
        BY <1>o, <3>2, <3>6
      <4>2. call[d].seen # call[c].seen /\ scurrent[x] <= call[d].seen /\ call[d].seen \in Nat
        BY <2>h, <4>1, HoldsNumber DEF VersionsOk
      <4>3. \A f \in Callers : Rotating(f, x)' => Rotating(f, x) /\ call'[f].seen = call[f].seen
        BY <1>o, <3>2
      <4>4. QED
        BY <1>k, <2>1, <2>3, <3>1, <4>1, <4>2, <4>3 DEF VersionsOk
    <3>7. QED
      BY <3>3, <3>5, <3>6 DEF VersionsOk
  <2>4. QED
    BY <1>5, <1>t, <2>2, <2>3 DEF SwapCurrent, Lose, store
<1>6. CASE RollBack(c)
  <2> DEFINE n == call[c].seen + 1
  <2>1. Calling(c, "rotate", "rollback") /\ Remove(x, n) /\ Go(c, "error") /\ scurrent' = scurrent
    BY <1>6, <1>t DEF RollBack, Lose, Remove, SetVersions
  <2>h. Rotating(c, x)
    BY <1>m, <2>1 DEF Rotating, Performs
  <2>n. n \in Numbers /\ 2 <= n /\ scurrent[x] <= call[c].seen
    BY <2>h, HoldsNumber DEF VersionsOk
  <2>2. \A m \in Numbers : m # n /\ versions[x][m].held => versions'[x][m].held
    BY <1>0, <2>1, <2>n, RemoveEffect DEF Remove, SetVersions
  <2>3. ~Rotating(c, x)'
    BY <1>g, <1>s, <2>1 DEF Rotating, Performs, Calling
  <2>4. versions'[x][1].held \/ \E d \in Callers : Performs(d, "create", "version", x)'
    <3>1. CASE versions[x][1].held
      BY <1>k, <2>2, <2>n, <3>1
    <3>2. ASSUME NEW d \in Callers, Performs(d, "create", "version", x) PROVE Performs(d, "create", "version", x)'
      BY <1>m, <2>1, <3>2 DEF Performs, Calling
    <3>3. QED
      BY <3>1, <3>2 DEF VersionsOk
  <2>5. \A m \in Numbers : 2 <= m /\ m <= scurrent'[x] => versions'[x][m].held
    BY <1>k, <2>1, <2>2, <2>n DEF VersionsOk
  <2>6. ASSUME NEW d \in Callers, Rotating(d, x)'
        PROVE  /\ versions'[x][call'[d].seen + 1].held
               /\ scurrent'[x] <= call'[d].seen
               /\ \A f \in Callers : Rotating(f, x)' /\ call'[f].seen = call'[d].seen => f = d
    <3>1. d # c /\ Rotating(d, x) /\ call'[d].seen = call[d].seen
      BY <1>o, <2>3, <2>6
    <3>2. call[d].seen # call[c].seen /\ call[d].seen + 1 \in Numbers /\ call[d].seen \in Nat
      BY <2>h, <3>1, HoldsNumber DEF VersionsOk
    <3>3. call[d].seen + 1 # n
      BY <1>k, <3>2
    <3>4. \A f \in Callers : Rotating(f, x)' => Rotating(f, x) /\ call'[f].seen = call[f].seen
      BY <1>o, <2>3
    <3>5. QED
      BY <2>1, <2>2, <3>1, <3>2, <3>3, <3>4 DEF VersionsOk
  <2>7. QED
    BY <2>4, <2>5, <2>6 DEF VersionsOk
<1>7. CASE StampOlder(c) \/ StampAll(c)
  <2>1. /\ call[c].at = "stamp" /\ scurrent' = scurrent
        /\ Finish(c) \/ Go(c, "ok")
        /\ versions' = versions \/ RevokeBelow(x, call[c].seen + 1) \/ RevokeBelow(x, MaxVersion + 1)
    <3>1. scurrent' = scurrent
      BY <1>7 DEF StampOlder, StampAll, Lose, store, Outdate, RevokeBelow, SetVersions
    <3>2. QED
      BY <1>7, <3>1 DEF StampOlder, StampAll, Calling, Lose, store, Outdate
  <2>2. call'[c].at \in {"ok", "error"}
    BY <1>0, <1>g, <1>m, <1>s, <2>1, FinishTyped
  <2>3. ASSUME NEW n \in Numbers, versions[x][n].held PROVE versions'[x][n].held
    <3>1. CASE versions' = versions
      BY <2>3, <3>1
    <3>2. ASSUME NEW j, RevokeBelow(x, j) PROVE versions'[x][n].held
      <4>1. versions'[x][n] = versions[x][n] \/ versions'[x][n] = [versions[x][n] EXCEPT !.revoked = TRUE]
        BY <1>0, <3>2, RevokeEffect
      <4>2. versions[x][n] \in Rows
        BY <1>0, <2>3, HeldRow
      <4>3. QED
        BY <2>3, <4>1, <4>2 DEF Rows
    <3>3. QED
      BY <2>1, <3>1, <3>2
  <2>4. ~Rotating(c, x)' /\ ~Performs(c, "create", "version", x)
    BY <2>1, <2>2 DEF Rotating, Performs, Calling
  <2>5. QED
    BY <2>1, <2>3, <2>4, QuietOk, QuietStep
<1>8. CASE Shred(c)
  <2>1. Go(c, "tombstone") /\ Calling(c, "delete", "shred")
    BY <1>8, <1>t DEF Shred, Lose
  <2>2. Performs(c, "delete", "tombstone", x)'
    BY <1>g, <1>m, <1>s, <2>1 DEF Performs, Calling
  <2>3. QED
    BY <1>e, <2>2
<1>9. QED
  BY <1>1, <1>2, <1>3, <1>4, <1>5, <1>6, <1>7, <1>8 DEF SecretStep

\* Every secret that is in order keeps its versions in order.
LEMMA TidyStep ==
  ASSUME SecretsInv, SecretsTypeOK', [SecretsNext]_secretsVars
  PROVE  TidyOk'
<1> SUFFICES ASSUME NEW x \in SecretIds, Tidy(x)' PROVE VersionsOk(x)'
  BY DEF TidyOk
<1>0. StoreTyped /\ CallsTyped
  BY DEF SecretsInv, SecretsTypeOK, StoreTyped, CallsTyped
<1>q. ASSUME UNCHANGED scurrent, \A n \in Numbers : versions[x][n].held => versions'[x][n].held,
             \A c \in Callers : call'[c] = call[c] \/ (~Rotating(c, x)' /\ ~Performs(c, "create", "version", x))
      PROVE  AtRest(x)
  BY <1>q DEF AtRest, Rotating, Performs, Calling
<1>1. CASE sstatus[x] = "absent"
  <2>1. /\ scurrent'[x] = 1 /\ UNCHANGED versions
        /\ \E c \in Callers : Performs(c, "create", "insert", x) /\ (Go(c, "version") \/ Spoil(x))
    BY <1>1, Born DEF Tidy, Exists
  <2>2. PICK c \in Callers : Performs(c, "create", "insert", x) /\ Go(c, "version")
    BY <2>1 DEF Tidy, Spoil
  <2>3. call[c] \in Calls
    BY <1>0, <2>2 DEF CallsTyped, Performs
  <2>4. /\ call'[c].at = "version" /\ call'[c].op = "create" /\ call'[c].secret = x
        /\ \A d \in Callers \ {c} : call'[d] = call[d]
    BY <1>0, <2>2, <2>3, Going DEF CallSteps, Performs, Calling
  <2>5. Performs(c, "create", "version", x)'
    BY <2>4 DEF Performs, Calling, NoCall
  <2>6. ASSUME NEW d \in Callers PROVE ~Rotating(d, x)'
    <3>1. CallerOk(d)
      BY DEF SecretsInv, CallersOk
    <3>2. CASE d = c
      BY <2>4, <3>2 DEF Rotating, Performs, Calling
    <3>3. CASE d # c
      BY <1>1, <2>4, <3>1, <3>3 DEF CallerOk, Rotating, Performs, Calling
    <3>4. QED
      BY <3>2, <3>3
  <2>7. \A n \in Numbers : ~(2 <= n /\ n <= scurrent'[x])
    BY <2>1, SecretsAssumption DEF Numbers
  <2>8. QED
    BY <2>5, <2>6, <2>7 DEF VersionsOk
<1>2. CASE Tidy(x)
  <2>0. VersionsOk(x)
    BY <1>2 DEF SecretsInv, TidyOk
  <2>1. CASE UNCHANGED secretsVars \/ RotateKek \/ RetireKek
    BY <1>q, <2>0, <2>1, QuietOk DEF secretsVars, store, RotateKek, RetireKek
  <2>2. ASSUME NEW y \in SecretIds, NEW m \in Numbers, RewrapVersion(y, m) PROVE VersionsOk(x)'
    <3>1. UNCHANGED <<scurrent, call>>
      BY <2>2 DEF RewrapVersion, SetVersions
    <3>2. ASSUME NEW n \in Numbers, versions[x][n].held PROVE versions'[x][n].held
      <4>1. versions'[x][n] = versions[x][n] \/ versions'[x][n] = [versions[x][n] EXCEPT !.key = "new"]
        BY <1>0, <2>2, RewrapEffect DEF RewrapVersion, SetVersions
      <4>2. versions[x][n] \in Rows
        BY <1>0, <3>2, HeldRow
      <4>3. QED
        BY <3>2, <4>1, <4>2 DEF Rows
    <3>3. QED
      BY <1>q, <2>0, <3>1, <3>2, QuietOk
  <2>3. ASSUME NEW c \in Callers, ReturnCall(c) \/ Abandon(c) PROVE VersionsOk(x)'
    <3>1. call' = [call EXCEPT ![c] = NoCall] /\ UNCHANGED store
      BY <2>3 DEF ReturnCall, Abandon
    <3>2. call'[c] = NoCall /\ \A d \in Callers \ {c} : call'[d] = call[d]
      BY <1>0, <3>1, Leaving
    <3>3. ~Performs(c, "create", "version", x)
      BY <2>3 DEF Performs, Calling, ReturnCall, Ended, Abandon, Spoil, Tidy
    <3>4. ~Rotating(c, x)'
      BY <3>2 DEF Rotating, Performs
    <3>5. QED
      BY <1>q, <2>0, <3>1, <3>2, <3>3, <3>4, QuietOk DEF store
  <2>4. ASSUME NEW c \in Callers, NEW op \in Operations, NEW y \in SecretIds, Request(c, op, y),
               UNCHANGED <<store, kek, faulted>>
        PROVE  VersionsOk(x)'
    <3>1. PICK at \in {"insert", "load"} : Begin(c, op, at, y)
      BY <2>4 DEF Request
    <3>2. call'[c].at = at /\ \A d \in Callers \ {c} : call'[d] = call[d]
      BY <1>0, <3>1, Beginning DEF CallSteps
    <3>3. ~Performs(c, "create", "version", x) /\ ~Rotating(c, x)'
      BY <3>1, <3>2 DEF Performs, Rotating, Calling, Begin, Idle
    <3>4. QED
      BY <1>q, <2>0, <2>4, <3>2, <3>3, QuietOk DEF store
  <2>5. ASSUME NEW c \in Callers, SecretStep(c) PROVE VersionsOk(x)'
    <3>1. CASE x = call[c].secret
      BY <1>2, <2>0, <2>5, <3>1, VersionsStep
    <3>2. CASE x # call[c].secret
      <4>1. scurrent'[x] = scurrent[x] /\ versions'[x] = versions[x]
        BY <2>5, <3>2, OtherSecretsStay
      <4>2. ~Rotating(c, x)' /\ ~Performs(c, "create", "version", x)
        BY <2>5, <3>2, CallMoves DEF Rotating, Performs
      <4>3. QED
        BY <2>0, <2>5, <4>1, <4>2, QuietOk, QuietStep
    <3>3. QED
      BY <3>1, <3>2
  <2>6. QED
    BY <2>1, <2>2, <2>3, <2>4, <2>5 DEF SecretsNext, Maintain
<1>3. QED
  BY <1>1, <1>2, TidyBefore

----
(* The theorems. *)

\* The invariant holds at first ...
LEMMA SecretsInvInit ==
  ASSUME SecretsInit
  PROVE  SecretsInv
<1>1. SecretsTypeOK
  BY SecretsAssumption DEF SecretsInit, SecretsTypeOK, Keys
<1>2. CallersOk /\ KeysOk /\ TidyOk
  BY DEF SecretsInit, CallersOk, CallerOk, KeysOk, TidyOk, Tidy, Exists
<1>3. SecretsOk
  BY DEF SecretsInit, SecretsOk, SecretOk, NoRow
<1>4. QED
  BY <1>1, <1>2, <1>3 DEF SecretsInv

\* ... and every step keeps it.
LEMMA StepInv ==
  ASSUME SecretsInv, [SecretsNext]_secretsVars
  PROVE  SecretsInv'
<1>1. SecretsTypeOK'
  BY StoreTypeStep
<1>2. Grows
  BY GrowsStep
<1>3. QED
  BY <1>1, <1>2, CallersStep, SecretsStep, KeysStep, TidyStep DEF SecretsInv

\* Callers, secrets, keys and versions stay in order.
THEOREM SecretsInvariant == SecretsSpec => []SecretsInv
<1>1. SecretsInit => SecretsInv
  BY SecretsInvInit
<1>2. SecretsInv /\ [SecretsNext]_secretsVars => SecretsInv'
  BY StepInv
<1>3. QED
  BY <1>1, <1>2, PTL DEF SecretsSpec

\* The tables and the callers keep their types.
THEOREM SecretsTypeCorrect == SecretsSpec => []SecretsTypeOK
<1>1. SecretsInv => SecretsTypeOK
  BY DEF SecretsInv
<1>2. QED
  BY <1>1, SecretsInvariant, PTL

\* Whatever overlaps, a secret nothing went wrong on has its current version, and a resolution
\* finds the one it was sent to.
THEOREM CurrentVersion == SecretsSpec => []CurrentVersionKept
<1>1. ASSUME SecretsInv PROVE CurrentVersionKept
  <2> SUFFICES ASSUME NEW x \in SecretIds, Whole(x)
               PROVE  /\ versions[x][scurrent[x]].held
                      /\ \A c \in Callers : Calling(c, "resolve", "read") /\ call[c].secret = x
                           => versions[x][call[c].seen].held
    BY DEF CurrentVersionKept
  <2>1. Tidy(x) /\ \A c \in Callers : ~Performs(c, "create", "version", x)
    BY DEF Whole, Tidy, Performs
  <2>2. versions[x][1].held /\ \A n \in Numbers : 2 <= n /\ n <= scurrent[x] => versions[x][n].held
    BY <1>1, <2>1 DEF SecretsInv, TidyOk, VersionsOk
  <2>3. scurrent[x] \in 0..MaxVersion /\ 1 <= scurrent[x] /\ MaxVersion \in Nat
    BY <1>1, <2>1, SecretsAssumption DEF SecretsInv, SecretsTypeOK, SecretsOk, SecretOk, Tidy, Exists
  <2>4. ASSUME NEW n \in 0..MaxVersion, 1 <= n, n <= scurrent[x] PROVE versions[x][n].held
    BY <2>2, <2>3, <2>4 DEF Numbers
  <2>5. versions[x][scurrent[x]].held
    BY <2>3, <2>4
  <2>6. ASSUME NEW c \in Callers, Calling(c, "resolve", "read"), call[c].secret = x
        PROVE  versions[x][call[c].seen].held
    <3>1. call[c] \in Calls /\ call[c] # NoCall
      BY <1>1, <2>6 DEF SecretsInv, SecretsTypeOK, Calling, NoCall
    <3>2. 1 <= call[c].seen /\ call[c].seen <= scurrent[x] /\ call[c].seen \in 0..MaxVersion
      BY <1>1, <2>6, <3>1 DEF SecretsInv, CallersOk, CallerOk, Calls
    <3>3. QED
      BY <2>4, <3>2
  <2>7. QED
    BY <2>5, <2>6
<1>2. QED
  BY <1>1, SecretsInvariant, PTL

\* Once the old key is retired no active secret needs it.
THEOREM RetiredKey == SecretsSpec => []RetiredKeyUnused
<1>1. ASSUME SecretsInv, kek = "retired", NEW x \in SecretIds, sstatus[x] = "active", versions[x][scurrent[x]].held
      PROVE  versions[x][scurrent[x]].key = "new"
  <2>1. scurrent[x] \in Numbers /\ scurrent[x] <= scurrent[x]
    BY <1>1, SecretsAssumption DEF SecretsInv, SecretsTypeOK, SecretsOk, SecretOk, Numbers
  <2>2. ~versions[x][scurrent[x]].revoked
    BY <1>1, <2>1 DEF SecretsInv, SecretsOk, SecretOk
  <2>3. QED
    BY <1>1, <2>1, <2>2 DEF SecretsInv, KeysOk
<1>2. SecretsInv => RetiredKeyUnused
  BY <1>1 DEF RetiredKeyUnused
<1>3. QED
  BY <1>2, SecretsInvariant, PTL

----
(* Browser sessions. *)

Sessions == [status : SessionStatuses, secret : SecretIds \cup {NoSecret}, attested : BOOLEAN]

\* The variables of the module itself; those of the secret store do not matter here.
FlowsTyped ==
  /\ session \in Sessions
  /\ flow \in [Callers -> Flows \cup {NoFlow}]

\* A flow goes on at another step, or ends.
LEMMA Stepping ==
  ASSUME FlowsTyped, NEW c \in Callers, flow[c] # NoFlow, NEW s \in FlowSteps,
         NEW x \in SecretIds \cup {NoSecret},
         \/ FlowTo(c, s) \/ Finished(c)
         \/ flow' = [flow EXCEPT ![c].at = s, ![c].secret = x]
         \/ flow' = [flow EXCEPT ![c].secret = x]
  PROVE  flow' \in [Callers -> Flows \cup {NoFlow}]
<1>1. flow[c] \in Flows
  BY DEF FlowsTyped
<1>2. CASE FlowTo(c, s)
  <2>1. flow' = [flow EXCEPT ![c] = [flow[c] EXCEPT !.at = s]]
    BY <1>2 DEF FlowTo
  <2>2. [flow[c] EXCEPT !.at = s] \in Flows
    BY <1>1 DEF Flows
  <2>3. QED
    BY <2>1, <2>2 DEF FlowsTyped
<1>3. CASE Finished(c)
  BY <1>3 DEF Finished, FlowsTyped
<1>4. CASE flow' = [flow EXCEPT ![c].at = s, ![c].secret = x]
  <2>1. flow' = [flow EXCEPT ![c] = [[flow[c] EXCEPT !.at = s] EXCEPT !.secret = x]]
    BY <1>4
  <2>2. [[flow[c] EXCEPT !.at = s] EXCEPT !.secret = x] \in Flows
    BY <1>1 DEF Flows
  <2>3. QED
    BY <2>1, <2>2 DEF FlowsTyped
<1>5. CASE flow' = [flow EXCEPT ![c].secret = x]
  <2>1. flow' = [flow EXCEPT ![c] = [flow[c] EXCEPT !.secret = x]]
    BY <1>5
  <2>2. [flow[c] EXCEPT !.secret = x] \in Flows
    BY <1>1 DEF Flows
  <2>3. QED
    BY <2>1, <2>2 DEF FlowsTyped
<1>6. QED
  BY <1>2, <1>3, <1>4, <1>5

\* What a step may do to the session.
Safe ==
  /\ session' \in Sessions
  /\ session.status = "revoked" => session'.status = "revoked" /\ session'.secret = session.secret

\* Every write of the session passes the trigger, which lets a revoked one through only as it
\* is; the write that makes it revoked leaves its state.
LEMMA WriteSafe ==
  ASSUME FlowsTyped, NEW c \in Callers, flow[c] # NoFlow, NEW new \in Sessions, NEW at \in FlowSteps,
         new.status # "revoked" \/ new.secret = session.secret,
         WriteSession(c, new, at)
  PROVE  Safe /\ (FlowTo(c, at) \/ Finished(c))
<1>1. session \in Sessions
  BY DEF FlowsTyped
<1>2. CASE session' = session
  BY <1>1, <1>2 DEF Safe, WriteSession
<1>3. CASE session' = new /\ Guarded(new)
  BY <1>1, <1>3 DEF Safe, WriteSession, Guarded
<1>4. QED
  BY <1>2, <1>3 DEF WriteSession

\* Every step of a flow keeps the types, and a revoked session as it is.
LEMMA SessionMoves ==
  ASSUME FlowsTyped, [SessionNext]_<<secretsVars, sessionVars>>
  PROVE  Safe /\ flow' \in [Callers -> Flows \cup {NoFlow}]
<1> DEFINE Typed == flow' \in [Callers -> Flows \cup {NoFlow}]
           Good  == Safe /\ Typed
<1>0. session \in Sessions /\ flow \in [Callers -> Flows \cup {NoFlow}] /\ NoFlow.kind = "none"
  BY DEF FlowsTyped, NoFlow
<1>a. ASSUME session' = session PROVE Safe
  BY <1>0, <1>a DEF Safe
<1>b. ASSUME NEW c \in Callers, flow[c].kind \in FlowKinds PROVE flow[c] # NoFlow /\ flow[c] \in Flows
  BY <1>0, <1>b DEF FlowKinds
\* A step of a flow that does not write the session.
<1>c. ASSUME NEW c \in Callers, flow[c] # NoFlow, session' = session,
             \/ UNCHANGED flow \/ Finished(c)
             \/ \E s \in FlowSteps : FlowTo(c, s)
             \/ \E s \in FlowSteps, x \in SecretIds \cup {NoSecret} :
                  flow' = [flow EXCEPT ![c].at = s, ![c].secret = x]
             \/ \E x \in SecretIds \cup {NoSecret} : flow' = [flow EXCEPT ![c].secret = x]
      PROVE  Good
  <2>1. Safe
    BY <1>a, <1>c
  <2>2. "load" \in FlowSteps /\ NoSecret \in SecretIds \cup {NoSecret}
    BY DEF FlowSteps
  <2>3. CASE UNCHANGED flow
    BY <1>0, <2>1, <2>3
  <2>4. CASE Finished(c)
    BY <1>c, <2>1, <2>2, <2>4, Stepping
  <2>5. CASE \E s \in FlowSteps : FlowTo(c, s)
    BY <1>c, <2>1, <2>2, <2>5, Stepping
  <2>6. CASE \E s \in FlowSteps, x \in SecretIds \cup {NoSecret} :
               flow' = [flow EXCEPT ![c].at = s, ![c].secret = x]
    BY <1>c, <2>1, <2>6, Stepping
  <2>7. CASE \E x \in SecretIds \cup {NoSecret} : flow' = [flow EXCEPT ![c].secret = x]
    BY <1>c, <2>1, <2>2, <2>7, Stepping
  <2>8. QED
    BY <1>c, <2>3, <2>4, <2>5, <2>6, <2>7
\* A step that writes it.
<1>d. ASSUME NEW c \in Callers, flow[c] # NoFlow, NEW new \in Sessions, NEW at \in FlowSteps,
             new.status # "revoked" \/ new.secret = session.secret, WriteSession(c, new, at)
      PROVE  Good
  <2>1. Safe /\ (FlowTo(c, at) \/ Finished(c))
    BY <1>d, WriteSafe
  <2>2. NoSecret \in SecretIds \cup {NoSecret}
    OBVIOUS
  <2>3. QED
    BY <1>d, <2>1, <2>2, Stepping
<1>1. CASE UNCHANGED <<secretsVars, sessionVars>>
  BY <1>0, <1>1, <1>a DEF sessionVars
<1>2. ASSUME NEW c \in Callers, NEW kind \in FlowKinds, StartFlow(c, kind) PROVE Good
  BY <1>0, <1>2, <1>a DEF StartFlow, Flows, FlowSteps
<1>3. ASSUME NEW c \in Callers, LoadToImport(c) PROVE Good
  <2>1. flow[c] # NoFlow /\ session' = session
    BY <1>3, <1>b DEF LoadToImport, In, FlowKinds
  <2>2. \/ Finished(c) \/ FlowTo(c, "create")
        \/ flow' = [flow EXCEPT ![c].at = "store", ![c].secret = session.secret]
    BY <1>3 DEF LoadToImport
  <2>3. "create" \in FlowSteps /\ "store" \in FlowSteps /\ session.secret \in SecretIds \cup {NoSecret}
    BY <1>0 DEF FlowSteps, Sessions
  <2>4. QED
    BY <1>c, <2>1, <2>2, <2>3
<1>4. ASSUME NEW c \in Callers, Rotated(c) PROVE Good
  <2>1. flow[c] # NoFlow /\ session' = session
    BY <1>4, <1>b DEF Rotated, In, FlowKinds
  <2>2. Finished(c) \/ FlowTo(c, "update") \/ FlowTo(c, "create")
    BY <1>4 DEF Rotated
  <2>3. QED
    BY <1>c, <2>1, <2>2 DEF FlowSteps
<1>5. ASSUME NEW c \in Callers, Create(c) PROVE Good
  <2>1. flow[c] # NoFlow /\ session' = session
    BY <1>5, <1>b DEF Create, In, FlowKinds
  <2>2. \E x \in SecretIds \cup {NoSecret} : flow' = [flow EXCEPT ![c].secret = x]
    BY <1>5 DEF Create
  <2>3. QED
    BY <1>c, <2>1, <2>2
<1>6. ASSUME NEW c \in Callers, Created(c) PROVE Good
  <2>1. flow[c] # NoFlow /\ session' = session
    BY <1>6, <1>b DEF Created, In, FlowKinds
  <2>2. Finished(c) \/ FlowTo(c, "update")
    BY <1>6 DEF Created
  <2>3. QED
    BY <1>c, <2>1, <2>2 DEF FlowSteps
<1>7. ASSUME NEW c \in Callers, PointToState(c) PROVE Good
  <2>1. flow[c] # NoFlow /\ flow[c] \in Flows
    BY <1>7, <1>b DEF PointToState, In, FlowKinds
  <2> DEFINE new == [session EXCEPT !.secret = flow[c].secret, !.status = "unverified"]
  <2>2. new \in Sessions /\ new.status # "revoked"
    BY <1>0, <2>1 DEF Sessions, Flows, SessionStatuses
  <2>3. "conclude" \in FlowSteps /\ WriteSession(c, new, "conclude")
    BY <1>7 DEF PointToState, FlowSteps
  <2>4. QED
    BY <1>d, <2>1, <2>2, <2>3
<1>8. ASSUME NEW c \in Callers, Conclude(c) PROVE Good
  BY <1>8, <1>c DEF Conclude
<1>9. ASSUME NEW c \in Callers, BeginRevocation(c) PROVE Good
  <2>1. flow[c] # NoFlow /\ session' = session
    BY <1>9, <1>b DEF BeginRevocation, In, FlowKinds
  <2>2. Finished(c) \/ flow' = [flow EXCEPT ![c].at = "update", ![c].secret = session.secret]
    BY <1>9 DEF BeginRevocation
  <2>3. "update" \in FlowSteps /\ session.secret \in SecretIds \cup {NoSecret}
    BY <1>0 DEF FlowSteps, Sessions
  <2>4. QED
    BY <1>c, <2>1, <2>2, <2>3
<1>10. ASSUME NEW c \in Callers, MarkRevoked(c) PROVE Good
  <2>1. flow[c] # NoFlow
    BY <1>10, <1>b DEF MarkRevoked, In, FlowKinds
  <2> DEFINE new == [session EXCEPT !.status = "revoked"]
             at  == IF flow[c].secret = NoSecret THEN "conclude" ELSE "delete"
  <2>2. new \in Sessions /\ new.secret = session.secret
    BY <1>0 DEF Sessions, SessionStatuses
  <2>3. at \in FlowSteps /\ WriteSession(c, new, at)
    BY <1>10 DEF MarkRevoked, FlowSteps, PageOps
  <2>4. QED
    BY <1>d, <2>1, <2>2, <2>3
<1>11. ASSUME NEW c \in Callers, DeleteState(c) PROVE Good
  <2>1. flow[c] # NoFlow /\ session' = session
    BY <1>11, <1>b DEF DeleteState, In, FlowKinds
  <2>2. UNCHANGED flow \/ Finished(c) \/ FlowTo(c, "conclude")
    BY <1>11 DEF DeleteState
  <2>3. QED
    BY <1>c, <2>1, <2>2 DEF FlowSteps
<1>12. ASSUME NEW c \in Callers, LoadToAttest(c) PROVE Good
  <2>1. flow[c] # NoFlow /\ session' = session
    BY <1>12, <1>b DEF LoadToAttest, In, FlowKinds
  <2>2. Finished(c) \/ FlowTo(c, "update")
    BY <1>12 DEF LoadToAttest
  <2>3. QED
    BY <1>c, <2>1, <2>2 DEF FlowSteps
<1>13. ASSUME NEW c \in Callers, Attest(c) PROVE Good
  <2>1. flow[c] # NoFlow
    BY <1>13, <1>b DEF Attest, In, FlowKinds
  <2>2. PICK b \in BOOLEAN : WriteSession(c, [session EXCEPT !.attested = b], "conclude")
    BY <1>13 DEF Attest
  <2>3. [session EXCEPT !.attested = b] \in Sessions
        /\ [session EXCEPT !.attested = b].secret = session.secret
    BY <1>0 DEF Sessions
  <2>4. QED
    BY <1>d, <2>1, <2>2, <2>3 DEF FlowSteps
<1>14. ASSUME NEW c \in Callers, Lease(c) PROVE Good
  <2>1. flow[c] # NoFlow /\ session' = session
    BY <1>14, <1>b DEF Lease, In, FlowKinds
  <2>2. Finished(c) \/ FlowTo(c, "resolve")
    BY <1>14 DEF Lease
  <2>3. QED
    BY <1>c, <2>1, <2>2 DEF FlowSteps
<1>15. ASSUME NEW c \in Callers, Leased(c) PROVE Good
  <2>1. flow[c] # NoFlow /\ session' = session
    BY <1>15, <1>b DEF Leased, In, FlowKinds
  <2>2. Finished(c) \/ FlowTo(c, "run")
    BY <1>15 DEF Leased
  <2>3. QED
    BY <1>c, <2>1, <2>2 DEF FlowSteps
<1>16. ASSUME NEW c \in Callers, Report(c) PROVE Good
  <2>1. flow[c] # NoFlow /\ session' = session
    BY <1>16, <1>b DEF Report, In, FlowKinds
  <2>2. Finished(c) \/ flow' = [flow EXCEPT ![c].at = "report", ![c].secret = session.secret]
    BY <1>16 DEF Report
  <2>3. "report" \in FlowSteps /\ session.secret \in SecretIds \cup {NoSecret}
    BY <1>0 DEF FlowSteps, Sessions
  <2>4. QED
    BY <1>c, <2>1, <2>2, <2>3
<1>17. ASSUME NEW c \in Callers, Record(c) PROVE Good
  <2>1. flow[c] # NoFlow
    BY <1>17, <1>b DEF Record, In, FlowKinds
  <2>2. ASSUME NEW s \in {"usable", "human"}
        PROVE  /\ [session EXCEPT !.status = s] \in Sessions
               /\ [session EXCEPT !.status = s].secret = session.secret
    BY <1>0 DEF Sessions, SessionStatuses
  <2>3. \/ WriteSession(c, [session EXCEPT !.status = "usable"], "store")
        \/ WriteSession(c, [session EXCEPT !.status = "human"], "conclude")
    BY <1>17 DEF Record
  <2>4. "store" \in FlowSteps /\ "conclude" \in FlowSteps
    BY DEF FlowSteps
  <2>5. QED
    BY <1>d, <2>1, <2>2, <2>3, <2>4
<1>18. ASSUME NEW c \in Callers, Refresh(c) PROVE Good
  <2>1. flow[c] # NoFlow /\ session' = session
    BY <1>18, <1>b DEF Refresh, In, FlowKinds
  <2>2. UNCHANGED flow \/ Finished(c)
    BY <1>18 DEF Refresh
  <2>3. QED
    BY <1>c, <2>1, <2>2
<1>19. ASSUME NEW c \in Callers, Expire(c) PROVE Good
  <2>1. flow[c] # NoFlow /\ session' = session
    BY <1>19, <1>b DEF Expire, In, FlowKinds
  <2>2. Finished(c) \/ FlowTo(c, "update")
    BY <1>19 DEF Expire
  <2>3. QED
    BY <1>c, <2>1, <2>2 DEF FlowSteps
<1>20. ASSUME NEW c \in Callers, Expired(c) PROVE Good
  <2>1. flow[c] # NoFlow
    BY <1>20, <1>b DEF Expired, In, FlowKinds
  <2> DEFINE new == [session EXCEPT !.status = "human"]
  <2>2. new \in Sessions /\ new.secret = session.secret
    BY <1>0 DEF Sessions, SessionStatuses
  <2>3. "conclude" \in FlowSteps /\ WriteSession(c, new, "conclude")
    BY <1>20 DEF Expired, FlowSteps
  <2>4. QED
    BY <1>d, <2>1, <2>2, <2>3
<1>21. ASSUME NEW c \in Callers, UNCHANGED sessionVars PROVE Good
  BY <1>0, <1>21, <1>a DEF sessionVars
<1>22. ASSUME NEW c \in Callers, Drop(c) PROVE Good
  BY <1>22, <1>c DEF Drop
<1>25. ASSUME NEW c \in Callers, PageRequest(c) PROVE Good
  <2>1. PICK op \in PageOps, x \in SecretIds :
          flow' = [flow EXCEPT ![c] = [kind |-> "page", at |-> op, secret |-> x]]
    BY <1>25 DEF PageRequest
  <2>2. [kind |-> "page", at |-> op, secret |-> x] \in Flows /\ session' = session
    BY <1>25 DEF PageRequest, Flows, FlowSteps
  <2>3. QED
    BY <1>0, <1>a, <2>1, <2>2
<1>26. ASSUME NEW c \in Callers, PageReturns(c) PROVE Good
  <2>1. flow[c] # NoFlow /\ session' = session /\ Finished(c)
    BY <1>0, <1>26 DEF PageReturns
  <2>2. QED
    BY <1>c, <2>1
<1>23. ASSUME NEW c \in Callers, SessionStep(c) PROVE Good
  BY <1>3, <1>4, <1>5, <1>6, <1>7, <1>8, <1>9, <1>10, <1>11, <1>12, <1>13, <1>14, <1>15, <1>16,
     <1>17, <1>18, <1>19, <1>20, <1>21, <1>23, <1>26 DEF SessionStep
<1>24. QED
  BY <1>1, <1>2, <1>22, <1>23, <1>25 DEF SessionNext

\* The trigger browser_session_guard, together with what the callers of
\* lib/browser-sessions/service.ts write, keeps a revoked session revoked and with the
\* state it had, for any number of overlapping flows.
THEOREM RevocationIsFinal == SessionSpec => RevokedForGood
<1> DEFINE Final == session.status = "revoked" =>
                      session'.status = "revoked" /\ session'.secret = session.secret
<1>1. SessionInit => FlowsTyped
  BY DEF SessionInit, FlowsTyped, Sessions, SessionStatuses
<1>2. FlowsTyped /\ [SessionNext]_<<secretsVars, sessionVars>> => FlowsTyped'
  BY SessionMoves DEF FlowsTyped, Safe
<1>3. FlowsTyped /\ [SessionNext]_<<secretsVars, sessionVars>> => [Final]_sessionVars
  BY SessionMoves DEF Safe
<1>4. QED
  BY <1>1, <1>2, <1>3, PTL DEF SessionSpec, RevokedForGood

-----------------------------------------------------------------------------
(* Browser sessions over the secret store. *)

\* What a caller does with the store is what its flow asks for.
CallFits(c) ==
  call[c] # NoCall =>
    \/ call[c].op = "create" /\ In(c, "import", "create") /\ flow[c].secret = call[c].secret
    \/ call[c].op = "rotate" /\ (In(c, "import", "store") \/ In(c, "check", "store"))
         /\ flow[c].secret = call[c].secret
    \/ call[c].op = "delete" /\ In(c, "revoke", "delete") /\ flow[c].secret = call[c].secret
    \/ call[c].op = "resolve" /\ In(c, "check", "resolve")
    \/ call[c].op \in PageOps /\ In(c, "page", call[c].op) /\ flow[c].secret = call[c].secret

CallsFit == \A c \in Callers : CallFits(c)

\* Caller c creates secret x.
Creating(c, x) == call[c] # NoCall /\ call[c].op = "create" /\ call[c].secret = x

\* A secret that has been created: there is a row, and nobody is going to undo it.
Known(x) == Exists(x) /\ \A c \in Callers : ~Creating(c, x)

\* A secret is created once, and is there while its first version is written.
CreatesOk ==
  \A c \in Callers, x \in SecretIds : Creating(c, x) =>
    /\ call[c].at \in {"version", "ok"} => Exists(x)
    /\ \A d \in Callers : Creating(d, x) => d = c

\* What the session and its flows point at has been created; the page may name any secret.
Leads(c) == flow[c] # NoFlow /\ flow[c].secret # NoSecret /\ ~In(c, "import", "create") /\ flow[c].kind # "page"

PointsAt(c) == Leads(c) => Known(flow[c].secret)

KnownOk ==
  /\ session.secret # NoSecret => Known(session.secret)
  /\ \A c \in Callers : PointsAt(c)

\* A revocation deletes the state of a revoked session, and a flow that has not looked knows no secret.
DeletesOk ==
  /\ \A c \in Callers : In(c, "revoke", "delete") => session.status = "revoked" /\ flow[c].secret # NoSecret
  /\ \A c \in Callers : flow[c] # NoFlow /\ flow[c].at = "load" => flow[c].secret = NoSecret

FitInv == CallsFit /\ CreatesOk /\ KnownOk /\ DeletesOk

----
\* The steps of a flow, as they change it.
LEMMA Walking ==
  ASSUME FlowsTyped, NEW c \in Callers, flow[c] # NoFlow, NEW s \in FlowSteps, FlowTo(c, s)
  PROVE  /\ flow'[c] # NoFlow
         /\ flow'[c].kind = flow[c].kind /\ flow'[c].at = s /\ flow'[c].secret = flow[c].secret
         /\ \A d \in Callers \ {c} : flow'[d] = flow[d]
<1>1. flow[c] \in Flows
  BY DEF FlowsTyped
<1>2. flow'[c] = [flow[c] EXCEPT !.at = s] /\ \A d \in Callers \ {c} : flow'[d] = flow[d]
  BY DEF FlowTo, FlowsTyped
<1>3. flow'[c].kind # "none"
  BY <1>1, <1>2 DEF Flows, FlowKinds
<1>4. QED
  BY <1>1, <1>2, <1>3 DEF Flows, NoFlow

LEMMA FlowEnds ==
  ASSUME FlowsTyped, NEW c \in Callers, Finished(c)
  PROVE  flow'[c] = NoFlow /\ \A d \in Callers \ {c} : flow'[d] = flow[d]
BY DEF Finished, FlowsTyped

\* The flow goes on and keeps the secret it read.
Reads(c, s, x) == flow' = [flow EXCEPT ![c].at = s, ![c].secret = x]

LEMMA Reading ==
  ASSUME FlowsTyped, NEW c \in Callers, flow[c] # NoFlow, NEW s \in FlowSteps,
         NEW x \in SecretIds \cup {NoSecret}, Reads(c, s, x)
  PROVE  /\ flow'[c] # NoFlow
         /\ flow'[c].kind = flow[c].kind /\ flow'[c].at = s /\ flow'[c].secret = x
         /\ \A d \in Callers \ {c} : flow'[d] = flow[d]
<1>1. flow[c] \in Flows /\ flow[c].kind # "none"
  BY DEF FlowsTyped, Flows, FlowKinds
<1>2. /\ flow'[c] = [[flow[c] EXCEPT !.at = s] EXCEPT !.secret = x]
      /\ \A d \in Callers \ {c} : flow'[d] = flow[d]
  BY DEF FlowsTyped, Reads
<1>3. flow'[c].kind = flow[c].kind /\ flow'[c].at = s /\ flow'[c].secret = x
  BY <1>1, <1>2 DEF Flows
<1>4. NoFlow.kind = "none"
  BY DEF NoFlow
<1>5. QED
  BY <1>1, <1>2, <1>3, <1>4

LEMMA Choosing ==
  ASSUME FlowsTyped, NEW c \in Callers, flow[c] # NoFlow, NEW x \in SecretIds,
         flow' = [flow EXCEPT ![c].secret = x]
  PROVE  /\ flow'[c] # NoFlow
         /\ flow'[c].kind = flow[c].kind /\ flow'[c].at = flow[c].at /\ flow'[c].secret = x
         /\ \A d \in Callers \ {c} : flow'[d] = flow[d]
<1>1. flow[c] \in Flows /\ flow[c].kind # "none"
  BY DEF FlowsTyped, Flows, FlowKinds
<1>2. flow'[c] = [flow[c] EXCEPT !.secret = x] /\ \A d \in Callers \ {c} : flow'[d] = flow[d]
  BY DEF FlowsTyped
<1>3. flow'[c].kind = flow[c].kind /\ flow'[c].at = flow[c].at /\ flow'[c].secret = x
  BY <1>1, <1>2 DEF Flows
<1>4. NoFlow.kind = "none"
  BY DEF NoFlow
<1>5. QED
  BY <1>1, <1>2, <1>3, <1>4

----
\* A step of the store changes the status of its own secret only, in one of these ways.
LEMMA StatusMoves ==
  ASSUME SecretsInv, NEW c \in Callers, SecretStep(c), NEW x \in SecretIds, sstatus'[x] # sstatus[x]
  PROVE  /\ x = call[c].secret
         /\ \/ Calling(c, "create", "insert") /\ sstatus[x] = "absent" /\ sstatus'[x] = "active"
            \/ Calling(c, "create", "undo") /\ sstatus'[x] = "removed"
            \/ call[c].op = "revoke" /\ Exists(x) /\ sstatus'[x] = "revoked"
            \/ Calling(c, "delete", "tombstone") /\ Exists(x) /\ sstatus'[x] = "deleted"
<1>0. StoreTyped
  BY DEF SecretsInv, SecretsTypeOK, StoreTyped
<1>1. CASE InsertSecret(c)
  BY <1>0, <1>1 DEF InsertSecret, Lose, store, StoreTyped
<1>2. CASE UndoCreate(c)
  BY <1>0, <1>2 DEF UndoCreate, Lose, store, StoreTyped
<1>3. CASE UpdateRevoked(c)
  BY <1>0, <1>3 DEF UpdateRevoked, Lose, store, StoreTyped, SetStatus, Calling, Alive, Exists
<1>4. CASE Tombstone(c)
  BY <1>0, <1>4 DEF Tombstone, Lose, store, StoreTyped, SetStatus
<1>5. CASE InsertFirst(c) \/ InsertNext(c) \/ SwapCurrent(c) \/ RollBack(c) \/ StampOlder(c) \/ StampAll(c) \/ Shred(c)
  BY <1>5 DEF InsertFirst, InsertNext, SwapCurrent, RollBack, StampOlder, StampAll, Shred, Lose, store,
              Insert, Remove, Outdate, RevokeBelow, SetVersions
<1>6. CASE LoadToRotate(c) \/ LoadToResolve(c) \/ LoadToRevoke(c) \/ LoadToDelete(c) \/ ReadVersion(c)
  BY <1>6 DEF LoadToRotate, LoadToResolve, LoadToRevoke, LoadToDelete, ReadVersion, store
<1>7. QED
  BY <1>1, <1>2, <1>3, <1>4, <1>5, <1>6 DEF SecretStep

\* A rotation that has found its secret active.
Renewing(c) ==
  call[c] # NoCall /\ call[c].op = "rotate" /\ call[c].at \in {"insert", "swap", "rollback", "stamp"}

\* Only a creation or a rotation puts a version where there was none.
LEMMA HeldMoves ==
  ASSUME SecretsInv, NEW c \in Callers, SecretStep(c), NEW x \in SecretIds,
         Shredded(x), ~Shredded(x)'
  PROVE  x = call[c].secret /\ (Calling(c, "create", "version") \/ Renewing(c))
<1>0. StoreTyped
  BY DEF SecretsInv, SecretsTypeOK, StoreTyped
<1>1. x = call[c].secret
  BY OtherSecretsStay DEF Shredded
<1>2. versions'[x] # versions[x]
  BY DEF Shredded
<1>3. CASE StampOlder(c) \/ InsertFirst(c) \/ InsertNext(c) \/ RollBack(c)
  <2>1. call[c] # NoCall
    BY CallMoves
  <2>2. QED
    BY <1>1, <1>3, <2>1 DEF InsertFirst, InsertNext, RollBack, StampOlder, Calling, Renewing
<1>4. CASE StampAll(c)
  <2>1. versions' = [versions EXCEPT ![x] = [m \in Numbers |->
          IF m < MaxVersion + 1 /\ versions[x][m].held THEN [versions[x][m] EXCEPT !.revoked = TRUE]
                                                       ELSE versions[x][m]]]
    BY <1>1, <1>2, <1>4 DEF StampAll, Lose, store, RevokeBelow, SetVersions
  <2>2. \A m \in Numbers : ~versions[x][m].held
    BY DEF Shredded
  <2>3. \A m \in Numbers : versions'[x][m] = versions[x][m]
    BY <1>0, <2>1, <2>2 DEF StoreTyped
  <2>4. QED
    BY <2>2, <2>3 DEF Shredded
<1>5. CASE Shred(c) \/ UndoCreate(c)
  <2>1. versions' = [versions EXCEPT ![x] = [n \in Numbers |-> NoRow]]
    BY <1>1, <1>2, <1>5 DEF Shred, UndoCreate, Lose, store, SetVersions
  <2>2. QED
    BY <1>0, <2>1 DEF Shredded, StoreTyped, NoRow
<1>6. CASE ~(StampOlder(c) \/ InsertFirst(c) \/ InsertNext(c) \/ RollBack(c) \/ UndoCreate(c)
             \/ StampAll(c) \/ Shred(c))
  BY <1>2, <1>6 DEF SecretStep, InsertSecret, LoadToRotate, SwapCurrent, LoadToRevoke, UpdateRevoked,
       LoadToDelete, Tombstone, LoadToResolve, ReadVersion, Lose, SetStatus, store
<1>7. QED
  BY <1>3, <1>4, <1>5, <1>6

\* What the results of an operation say of its secret.
LEMMA ResultsMean ==
  ASSUME SecretsInv, NEW c \in Callers, SecretStep(c), NEW x \in SecretIds, x = call[c].secret
  PROVE  /\ call[c].op = "create" /\ call'[c].at \in {"version", "ok"} =>
              \/ sstatus'[x] = "active"
              \/ call[c].at = "version" /\ sstatus'[x] = sstatus[x]
         /\ call[c].op = "rotate" /\ call'[c].at = "unavailable" =>
              sstatus[x] # "active" /\ sstatus' = sstatus /\ versions' = versions
         /\ Renewing(c)' => Renewing(c) \/ sstatus[x] = "active"
         /\ call[c].op = "delete" /\ call'[c].at \in {"tombstone", "ok"} =>
              \/ Shredded(x)'
              \/ versions' = versions /\ (call[c].at = "tombstone" \/ sstatus[x] = "deleted")
         /\ call[c].op = "delete" /\ call'[c].at = "ok" => sstatus'[x] # "active"
<1>0. StoreTyped /\ CallsTyped /\ call[c] \in Calls
  BY CallMoves DEF SecretsInv, SecretsTypeOK, StoreTyped, CallsTyped
<1>1. call[c].op = "create" /\ call'[c].at \in {"version", "ok"} =>
              \/ sstatus'[x] = "active"
              \/ call[c].at = "version" /\ sstatus'[x] = sstatus[x]
  <2> SUFFICES ASSUME call[c].op = "create", call'[c].at \in {"version", "ok"}
               PROVE  sstatus'[x] = "active" \/ (call[c].at = "version" /\ sstatus'[x] = sstatus[x])
    OBVIOUS
  <2>1. CASE InsertSecret(c)
    <3>1. \/ sstatus' = [sstatus EXCEPT ![x] = "active"]
          \/ Go(c, "error")
      BY <2>1 DEF InsertSecret, Lose
    <3>2. CASE Go(c, "error")
      BY <1>0, <3>2, Going DEF CallSteps
    <3>3. QED
      BY <1>0, <3>1, <3>2 DEF StoreTyped
  <2>2. CASE InsertFirst(c)
    BY <2>2 DEF InsertFirst, Lose, Insert, SetVersions, store, Calling
  <2>3. CASE UndoCreate(c)
    <3>1. Go(c, "error")
      BY <2>3 DEF UndoCreate, Lose
    <3>2. QED
      BY <1>0, <3>1, Going DEF CallSteps
  <2>4. QED
    BY <2>1, <2>2, <2>3 DEF SecretStep, LoadToRotate, InsertNext, SwapCurrent, RollBack, StampOlder,
       LoadToRevoke, UpdateRevoked, StampAll, LoadToDelete, Shred, Tombstone, LoadToResolve, ReadVersion, Calling
<1>2. call[c].op = "rotate" /\ call'[c].at = "unavailable" =>
        sstatus[x] # "active" /\ sstatus' = sstatus /\ versions' = versions
  <2> SUFFICES ASSUME call[c].op = "rotate", call'[c].at = "unavailable"
               PROVE  sstatus[x] # "active" /\ sstatus' = sstatus /\ versions' = versions
    OBVIOUS
  <2>1. CASE LoadToRotate(c)
    <3>1. /\ \/ call' = [call EXCEPT ![c].at = "insert", ![c].seen = scurrent[x], ![c].key = SealingKey]
             \/ sstatus[x] # "active"
          /\ sstatus' = sstatus /\ versions' = versions
      BY <2>1 DEF LoadToRotate, store
    <3>2. scurrent[x] \in 0..MaxVersion /\ SealingKey \in Keys
      BY <1>0 DEF StoreTyped, SealingKey, Keys
    <3>3. CASE call' = [call EXCEPT ![c].at = "insert", ![c].seen = scurrent[x], ![c].key = SealingKey]
      BY <1>0, <3>2, <3>3, Loading DEF CallSteps
    <3>4. QED
      BY <3>1, <3>3
  <2>2. ASSUME NEW s \in {"swap", "error", "stamp", "rollback", "ok"}, Go(c, s) PROVE FALSE
    BY <1>0, <2>2, Going DEF CallSteps
  <2>3. CASE InsertNext(c) \/ SwapCurrent(c) \/ RollBack(c) \/ StampOlder(c)
    <3>1. \E s \in {"swap", "error", "stamp", "rollback", "ok"} : Go(c, s)
      BY <2>3 DEF InsertNext, SwapCurrent, RollBack, StampOlder, Lose, Finish, Go, OnConflict
    <3>2. QED
      BY <2>2, <3>1
  <2>4. QED
    BY <2>1, <2>3 DEF SecretStep, InsertSecret, InsertFirst, UndoCreate, LoadToRevoke, UpdateRevoked,
       StampAll, LoadToDelete, Shred, Tombstone, LoadToResolve, ReadVersion, Calling
<1>3. call[c].op = "delete" /\ call'[c].at \in {"tombstone", "ok"} =>
              \/ Shredded(x)'
              \/ versions' = versions /\ (call[c].at = "tombstone" \/ sstatus[x] = "deleted")
  <2> SUFFICES ASSUME call[c].op = "delete", call'[c].at \in {"tombstone", "ok"}
               PROVE  \/ Shredded(x)'
                      \/ versions' = versions /\ (call[c].at = "tombstone" \/ sstatus[x] = "deleted")
    OBVIOUS
  <2>1. CASE LoadToDelete(c)
    <3>1. versions' = versions
          /\ (sstatus[x] = "deleted" \/ \E s \in {"unavailable", "shred"} : Go(c, s))
      BY <2>1 DEF LoadToDelete, store
    <3>2. ASSUME NEW s \in {"unavailable", "shred"}, Go(c, s) PROVE FALSE
      BY <1>0, <3>2, Going DEF CallSteps
    <3>3. QED
      BY <3>1, <3>2
  <2>2. CASE Shred(c)
    <3>1. versions' = [versions EXCEPT ![x] = [n \in Numbers |-> NoRow]] \/ Go(c, "error")
      BY <2>2 DEF Shred, Lose, SetVersions
    <3>2. CASE Go(c, "error")
      BY <1>0, <3>2, Going DEF CallSteps
    <3>3. CASE versions' = [versions EXCEPT ![x] = [n \in Numbers |-> NoRow]]
      BY <1>0, <3>3 DEF Shredded, StoreTyped, NoRow
    <3>4. QED
      BY <3>1, <3>2, <3>3
  <2>3. CASE Tombstone(c)
    BY <2>3 DEF Tombstone, Lose, SetStatus, store, Calling
  <2>4. QED
    BY <2>1, <2>2, <2>3 DEF SecretStep, InsertSecret, InsertFirst, UndoCreate, LoadToRotate, InsertNext,
       SwapCurrent, RollBack, StampOlder, LoadToRevoke, UpdateRevoked, StampAll, LoadToResolve, ReadVersion, Calling
<1>4. Renewing(c)' => Renewing(c) \/ sstatus[x] = "active"
  <2> SUFFICES ASSUME call[c].op = "rotate", call'[c].at \in {"insert", "swap", "rollback", "stamp"}
               PROVE  Renewing(c) \/ sstatus[x] = "active"
    BY CallMoves DEF Renewing
  <2>1. call[c] # NoCall
    BY CallMoves
  <2>2. CASE LoadToRotate(c)
    <3>1. sstatus[x] = "active" \/ Go(c, "unavailable")
      BY <2>2 DEF LoadToRotate
    <3>2. CASE Go(c, "unavailable")
      BY <1>0, <3>2, Going DEF CallSteps
    <3>3. QED
      BY <3>1, <3>2
  <2>3. CASE InsertNext(c) \/ SwapCurrent(c) \/ RollBack(c) \/ StampOlder(c)
    BY <2>1, <2>3 DEF InsertNext, SwapCurrent, RollBack, StampOlder, Calling, Renewing
  <2>4. QED
    BY <2>2, <2>3 DEF SecretStep, InsertSecret, InsertFirst, UndoCreate, LoadToRevoke, UpdateRevoked,
       StampAll, LoadToDelete, Shred, Tombstone, LoadToResolve, ReadVersion, Calling
<1>5. call[c].op = "delete" /\ call'[c].at = "ok" => sstatus'[x] # "active"
  <2> SUFFICES ASSUME call[c].op = "delete", call'[c].at = "ok" PROVE sstatus'[x] # "active"
    OBVIOUS
  <2>1. ASSUME NEW s \in {"unavailable", "shred", "tombstone", "error"}, Go(c, s) PROVE FALSE
    BY <1>0, <2>1, Going DEF CallSteps
  <2>2. CASE LoadToDelete(c)
    <3>1. sstatus' = sstatus
          /\ (sstatus[x] = "deleted" \/ \E s \in {"unavailable", "shred"} : Go(c, s))
      BY <2>2 DEF LoadToDelete, store
    <3>2. QED
      BY <2>1, <3>1
  <2>3. CASE Shred(c)
    <3>1. \E s \in {"tombstone", "error"} : Go(c, s)
      BY <2>3 DEF Shred, Lose
    <3>2. QED
      BY <2>1, <3>1
  <2>4. CASE Tombstone(c)
    <3>1. \/ sstatus' = [sstatus EXCEPT ![x] = "deleted"]
          \/ ~Exists(x) /\ sstatus' = sstatus
          \/ Go(c, "error")
      BY <2>4 DEF Tombstone, Lose, SetStatus, store
    <3>2. QED
      BY <1>0, <2>1, <3>1 DEF StoreTyped, Exists
  <2>5. QED
    BY <2>2, <2>3, <2>4 DEF SecretStep, InsertSecret, InsertFirst, UndoCreate, LoadToRotate, InsertNext,
       SwapCurrent, RollBack, StampOlder, LoadToRevoke, UpdateRevoked, StampAll, LoadToResolve, ReadVersion, Calling
<1>6. QED
  BY <1>1, <1>2, <1>3, <1>4, <1>5

\* What the flows and the store know of each other, beside the store's own invariant.
UseInv == SecretsInv /\ FlowsTyped /\ FitInv

\* Nobody but c may still undo the creation of x.
Free(c, x) == Exists(x) /\ \A d \in Callers \ {c} : ~Creating(d, x)

\* Between two calls a caller runs none.
LEMMA Between ==
  ASSUME UseInv, NEW c \in Callers, flow[c].at \notin {"create", "store", "resolve", "rotate", "revoke", "delete"} \/ flow[c] = NoFlow
  PROVE  call[c] = NoCall
BY DEF UseInv, FitInv, CallsFit, CallFits, In, NoFlow, PageOps

\* What a caller reads in the session, or has read, is known.
LEMMA Familiar ==
  ASSUME UseInv, NEW c \in Callers
  PROVE  /\ session.secret # NoSecret => Free(c, session.secret) /\ Exists(session.secret)
         /\ Leads(c) => Free(c, flow[c].secret) /\ Exists(flow[c].secret)
BY DEF UseInv, FitInv, KnownOk, PointsAt, Known, Free

\* A step of c beside the store, after which its call fits its flow.
LEMMA FitKept ==
  ASSUME UseInv, NEW c \in Callers, sstatus' = sstatus,
         \A d \in Callers \ {c} : call'[d] = call[d] /\ flow'[d] = flow[d],
         CallFits(c)',
         call'[c] # NoCall /\ call'[c].op = "create" =>
           /\ call'[c].at = "insert" /\ sstatus[call'[c].secret] = "absent"
           /\ \A d \in Callers \ {c} : ~Creating(d, call'[c].secret),
         session'.secret # NoSecret => Free(c, session'.secret),
         session.status = "revoked" => session'.status = "revoked",
         flow'[c] # NoFlow =>
           /\ flow'[c].secret # NoSecret /\ ~(flow'[c].kind = "import" /\ flow'[c].at = "create")
                /\ flow'[c].kind # "page" => Free(c, flow'[c].secret)
           /\ flow'[c].kind = "revoke" /\ flow'[c].at = "delete" =>
                session'.status = "revoked" /\ flow'[c].secret # NoSecret
           /\ flow'[c].at = "load" => flow'[c].secret = NoSecret
  PROVE  FitInv'
<1>0. CallsFit /\ CreatesOk /\ KnownOk /\ DeletesOk
  BY DEF UseInv, FitInv
<1>1. CallsFit'
  BY <1>0 DEF CallsFit, CallFits, In
<1>2. CreatesOk'
  BY <1>0 DEF CreatesOk, Creating, Exists
<1>3. ASSUME NEW x, Free(c, x) PROVE Exists(x) /\ \A d \in Callers : ~(call'[d] # NoCall /\ call'[d].op = "create" /\ call'[d].secret = x)
  BY <1>3 DEF Free, Exists, Creating
<1>4. KnownOk'
  <2>1. session'.secret # NoSecret => Known(session.secret)'
    BY <1>3 DEF Known, Exists, Creating
  <2>2. PointsAt(c)'
    BY <1>3 DEF PointsAt, Leads, Known, Exists, Creating, In
  <2>3. ASSUME NEW d \in Callers \ {c} PROVE PointsAt(d)'
    <3>1. CASE Leads(d)
      <4>1. Free(c, flow[d].secret)
        BY <1>0, <3>1 DEF KnownOk, PointsAt, Known, Free
      <4>2. QED
        BY <1>3, <4>1 DEF PointsAt, Leads, Known, Exists, Creating, In
    <3>2. CASE ~Leads(d)
      BY <3>2 DEF PointsAt, Leads, In
    <3>3. QED
      BY <3>1, <3>2
  <2>4. QED
    BY <2>1, <2>2, <2>3 DEF KnownOk
<1>5. DeletesOk'
  BY <1>0 DEF DeletesOk, In, NoFlow
<1>6. QED
  BY <1>1, <1>2, <1>4, <1>5 DEF FitInv

\* The same for a step that leaves c without a call and the session with its secret.
LEMMA FitIdle ==
  ASSUME UseInv, NEW c \in Callers, sstatus' = sstatus, flow[c] # NoFlow,
         \A d \in Callers \ {c} : call'[d] = call[d] /\ flow'[d] = flow[d],
         call'[c] = NoCall, Safe, session'.secret = session.secret,
         \/ flow'[c] = NoFlow
         \/ /\ ~In(c, "import", "create") /\ flow'[c].at # "load" /\ flow'[c].kind = flow[c].kind
            /\ flow'[c].secret \in {flow[c].secret, session.secret}
            /\ flow'[c].kind = "revoke" /\ flow'[c].at = "delete" =>
                 session'.status = "revoked" /\ flow'[c].secret # NoSecret
  PROVE  FitInv'
<1>1. CallFits(c)'
  BY DEF CallFits
<1>2. session'.secret # NoSecret => Free(c, session'.secret)
  BY Familiar
<1>3. flow'[c] # NoFlow /\ flow'[c].secret # NoSecret /\ flow'[c].kind # "page" => Free(c, flow'[c].secret)
  BY Familiar DEF Leads
<1>4. session.status = "revoked" => session'.status = "revoked"
  BY DEF Safe
<1>5. QED
  BY <1>1, <1>2, <1>3, <1>4, FitKept

\* A write of the session: it takes effect and the flow goes on, or the flow fails.
LEMMA Written ==
  ASSUME FlowsTyped, NEW c \in Callers, flow[c] # NoFlow, NEW new, NEW at \in FlowSteps,
         WriteSession(c, new, at)
  PROVE  /\ \A d \in Callers \ {c} : flow'[d] = flow[d]
         /\ session' \in {session, new}
         /\ \/ flow'[c] = NoFlow /\ missed'
            \/ /\ session' = new /\ Guarded(new) /\ missed' = missed
               /\ flow'[c] # NoFlow /\ flow'[c].kind = flow[c].kind
               /\ flow'[c].at = at /\ flow'[c].secret = flow[c].secret
<1>1. CASE Guarded(new) /\ session' = new /\ FlowTo(c, at) /\ UNCHANGED missed
  BY <1>1, Walking
<1>2. CASE session' \in {session, new} /\ Finished(c) /\ missed' = TRUE
  BY <1>2, FlowEnds
<1>3. QED
  BY <1>1, <1>2 DEF WriteSession

\* A call that begins, as it changes the calls.
LEMMA Begun ==
  ASSUME UseInv, NEW c \in Callers, NEW op \in Operations, NEW at \in {"load", "insert"},
         NEW x \in SecretIds, Begin(c, op, at, x)
  PROVE  /\ call'[c] # NoCall /\ call[c] = NoCall
         /\ call'[c].op = op /\ call'[c].at = at /\ call'[c].secret = x
         /\ \A d \in Callers \ {c} : call'[d] = call[d]
<1>1. CallsTyped /\ at \in CallSteps
  BY DEF UseInv, SecretsInv, SecretsTypeOK, CallsTyped, CallSteps
<1>2. call'[c] \in Calls
  BY <1>1, Beginning
<1>3. call'[c] # NoCall
  BY <1>2 DEF Calls, Operations, NoCall
<1>4. QED
  BY <1>1, <1>3, Beginning DEF Begin, Idle

\* A call that ends.
LEMMA Back ==
  ASSUME UseInv, NEW c \in Callers, ReturnCall(c) \/ Abandon(c)
  PROVE  /\ call'[c] = NoCall /\ call[c] # NoCall /\ \A d \in Callers \ {c} : call'[d] = call[d]
         /\ sstatus' = sstatus /\ versions' = versions /\ scurrent' = scurrent
BY Leaving DEF UseInv, SecretsInv, SecretsTypeOK, CallsTyped, ReturnCall, Abandon, Idle, Ended, store

\* A step of the store keeps what the flows know.
LEMMA FitStore ==
  ASSUME UseInv, NEW c \in Callers, SecretStep(c), UNCHANGED sessionVars
  PROVE  FitInv'
<1>0. CallsFit /\ CreatesOk /\ KnownOk /\ DeletesOk /\ SecretsInv /\ FlowsTyped
      /\ session' = session /\ flow' = flow
  BY DEF UseInv, FitInv, sessionVars
<1>1. /\ call[c] \in Calls /\ call[c] # NoCall /\ call'[c] # NoCall
      /\ call'[c].op = call[c].op /\ call'[c].secret = call[c].secret
      /\ \A d \in Callers \ {c} : call'[d] = call[d]
  BY <1>0, CallMoves
<1>2. call[c].secret \in SecretIds
  BY <1>1 DEF Calls
<1>3. ASSUME NEW d \in Callers, NEW x
      PROVE  (call'[d] # NoCall /\ call'[d].op = "create" /\ call'[d].secret = x) <=> Creating(d, x)
  BY <1>1 DEF Creating
<1>4. ASSUME NEW x \in SecretIds, sstatus'[x] # sstatus[x]
      PROVE  /\ x = call[c].secret
             /\ \/ Creating(c, x) /\ call[c].at = "insert" /\ sstatus[x] = "absent" /\ sstatus'[x] = "active"
                \/ Creating(c, x) /\ sstatus'[x] = "removed"
                \/ Exists(x) /\ sstatus'[x] \in {"deleted", "revoked"}
  BY <1>0, <1>1, <1>2, <1>4, StatusMoves DEF Calling, Creating
<1>5. CallsFit'
  BY <1>0, <1>1 DEF CallsFit, CallFits, In
<1>6. ASSUME NEW x \in SecretIds, Known(x)
      PROVE  /\ sstatus'[x] \notin {"absent", "removed"}
             /\ \A d \in Callers : ~(call'[d] # NoCall /\ call'[d].op = "create" /\ call'[d].secret = x)
  BY <1>3, <1>4, <1>6 DEF Known, Exists
<1>7. KnownOk'
  <2>1. session.secret # NoSecret => session.secret \in SecretIds /\ Known(session.secret)
    BY <1>0 DEF KnownOk, FlowsTyped, Sessions
  <2>2. session'.secret # NoSecret => Known(session.secret)'
    BY <1>0, <1>6, <2>1 DEF Known, Exists, Creating
  <2>3. ASSUME NEW d \in Callers PROVE PointsAt(d)'
    <3>1. CASE Leads(d)
      <4>1. flow[d].secret \in SecretIds /\ Known(flow[d].secret)
        BY <1>0, <3>1 DEF KnownOk, PointsAt, Leads, FlowsTyped, Flows
      <4>2. QED
        BY <1>0, <1>6, <4>1 DEF PointsAt, Known, Exists, Creating
    <3>2. CASE ~Leads(d)
      BY <1>0, <3>2 DEF PointsAt, Leads, In
    <3>3. QED
      BY <3>1, <3>2
  <2>4. QED
    BY <2>2, <2>3 DEF KnownOk
<1>8. ASSUME NEW d \in Callers, NEW x \in SecretIds, Creating(d, x), call'[d].at \in {"version", "ok"}
      PROVE  sstatus'[x] \notin {"absent", "removed"}
  <2>1. CASE d = c
    <3>1. x = call[c].secret /\ call[c].op = "create"
      BY <1>8, <2>1 DEF Creating
    <3>2. \/ sstatus'[x] = "active"
          \/ call[c].at = "version" /\ sstatus'[x] = sstatus[x]
      BY <1>0, <1>8, <2>1, <3>1, ResultsMean
    <3>3. QED
      BY <1>0, <1>8, <2>1, <3>2 DEF CreatesOk, Exists
  <2>2. CASE d # c
    <3>1. Exists(x) /\ ~Creating(c, x)
      BY <1>0, <1>1, <1>8, <2>2 DEF CreatesOk
    <3>2. QED
      BY <1>4, <3>1 DEF Exists
  <2>3. QED
    BY <2>1, <2>2
<1>9. CreatesOk'
  <2>1. \A d \in Callers, x \in SecretIds : Creating(d, x) => \A e \in Callers : Creating(e, x) => e = d
    BY <1>0 DEF CreatesOk
  <2>2. \A d \in Callers, x \in SecretIds : Creating(d, x)' => Creating(d, x)
    BY <1>3 DEF Creating
  <2>3. QED
    <3>1. ASSUME NEW d \in Callers, NEW x \in SecretIds, Creating(d, x)'
          PROVE  /\ call'[d].at \in {"version", "ok"} => Exists(x)'
                 /\ \A e \in Callers : Creating(e, x)' => e = d
      BY <1>8, <2>1, <2>2, <3>1 DEF Exists
    <3>2. QED
      BY <3>1 DEF CreatesOk
<1>10. DeletesOk'
  BY <1>0 DEF DeletesOk, In
<1>11. QED
  BY <1>5, <1>7, <1>9, <1>10 DEF FitInv

\* What a flow does with the store is one of the store's own steps.
LEMMA StoreUsed ==
  ASSUME UseInv, [SessionNext]_<<secretsVars, sessionVars>>
  PROVE  [SecretsNext]_secretsVars
<1>0. session \in Sessions /\ flow \in [Callers -> Flows \cup {NoFlow}] /\ "create" \in Operations
      /\ {"rotate", "delete", "resolve"} \subseteq Operations /\ NoFlow.kind = "none"
  BY DEF UseInv, FlowsTyped, Operations, NoFlow
<1>s. ASSUME NEW c \in Callers, NEW kind \in FlowKinds, NEW at, In(c, kind, at) PROVE flow[c] # NoFlow /\ flow[c] \in Flows
  BY <1>0, <1>s DEF In, FlowKinds
<1>a. ASSUME NEW c \in Callers, NEW op \in {"rotate", "delete", "resolve"}, NEW x \in SecretIds \cup {NoSecret},
             x # NoSecret, Exists(x), Begin(c, op, "load", x), UNCHANGED <<store, kek, faulted>>
      PROVE  SecretsNext
  <2>1. Request(c, op, x) /\ x \in SecretIds /\ op \in Operations
    BY <1>0, <1>a DEF Request
  <2>2. QED
    BY <1>a, <2>1 DEF SecretsNext
<1>b. ASSUME NEW c \in Callers, ReturnCall(c) \/ Abandon(c) \/ SecretStep(c) PROVE SecretsNext
  BY <1>b DEF SecretsNext
<1>c. ASSUME NEW c \in Callers, NEW result, Returned(c, result) PROVE SecretsNext
  BY <1>b, <1>c DEF Returned
<1>1. CASE UNCHANGED <<secretsVars, sessionVars>>
  BY <1>1
<1>2. ASSUME NEW c \in Callers, NEW kind \in FlowKinds, StartFlow(c, kind) PROVE UNCHANGED secretsVars
  BY <1>2 DEF StartFlow
<1>3. ASSUME NEW c \in Callers, LoadToImport(c) PROVE [SecretsNext]_secretsVars
  <2>1. CASE UNCHANGED call
    BY <1>3, <2>1 DEF LoadToImport, secretsVars
  <2>2. CASE session.secret # NoSecret /\ Begin(c, "rotate", "load", session.secret)
    <3>1. session.secret \in SecretIds \cup {NoSecret} /\ Exists(session.secret)
      BY <1>0, <2>2, Familiar DEF Sessions
    <3>2. QED
      BY <1>3, <1>a, <2>2, <3>1 DEF LoadToImport
  <2>3. QED
    BY <1>3, <2>1, <2>2 DEF LoadToImport
<1>4. ASSUME NEW c \in Callers, Rotated(c) \/ Created(c) \/ Leased(c) PROVE SecretsNext
  BY <1>4, <1>c DEF Rotated, Created, Leased
<1>5. ASSUME NEW c \in Callers, Create(c) PROVE SecretsNext
  BY <1>0, <1>5 DEF Create, SecretsNext
<1>6. ASSUME NEW c \in Callers,
             \/ PointToState(c) \/ BeginRevocation(c) \/ MarkRevoked(c) \/ Conclude(c) \/ LoadToAttest(c)
             \/ Attest(c) \/ Report(c) \/ Record(c) \/ Expire(c) \/ Expired(c)
      PROVE  UNCHANGED secretsVars
  BY <1>6 DEF PointToState, BeginRevocation, MarkRevoked, Conclude, LoadToAttest, Attest, Report, Record,
              Expire, Expired
<1>7. ASSUME NEW c \in Callers, DeleteState(c) PROVE SecretsNext
  <2>1. CASE Begin(c, ShredWith, "load", flow[c].secret) /\ UNCHANGED <<store, kek, faulted, flow, missed>>
    <3>1. In(c, "revoke", "delete") /\ flow[c] # NoFlow /\ flow[c] \in Flows
      BY <1>7, <1>s DEF DeleteState, FlowKinds
    <3>2. flow[c].secret # NoSecret
      BY <3>1 DEF UseInv, FitInv, DeletesOk
    <3>3. flow[c].secret \in SecretIds \cup {NoSecret} /\ Exists(flow[c].secret)
      BY <3>1, <3>2, Familiar DEF Leads, Flows, In
    <3>4. QED
      BY <1>a, <2>1, <3>2, <3>3 DEF ShredWith
  <2>2. QED
    BY <1>7, <1>c, <2>1 DEF DeleteState
<1>8. ASSUME NEW c \in Callers, Lease(c) PROVE [SecretsNext]_secretsVars
  <2>1. CASE UNCHANGED call
    BY <1>8, <2>1 DEF Lease, secretsVars
  <2>2. CASE session.secret # NoSecret /\ Begin(c, "resolve", "load", session.secret)
    <3>1. session.secret \in SecretIds \cup {NoSecret} /\ Exists(session.secret)
      BY <1>0, <2>2, Familiar DEF Sessions
    <3>2. QED
      BY <1>8, <1>a, <2>2, <3>1 DEF Lease
  <2>3. QED
    BY <1>8, <2>1, <2>2 DEF Lease
<1>9. ASSUME NEW c \in Callers, Refresh(c) PROVE [SecretsNext]_secretsVars
  <2>1. CASE flow[c].secret # NoSecret /\ Begin(c, "rotate", "load", flow[c].secret)
             /\ UNCHANGED <<store, kek, faulted, flow>>
    <3>1. In(c, "check", "store") /\ flow[c] # NoFlow /\ flow[c] \in Flows
      BY <1>9, <1>s DEF Refresh, FlowKinds
    <3>2. flow[c].secret \in SecretIds \cup {NoSecret} /\ Exists(flow[c].secret)
      BY <2>1, <3>1, Familiar DEF Leads, Flows, In
    <3>3. QED
      BY <1>a, <2>1, <3>2
  <2>2. QED
    BY <1>9, <1>b, <2>1 DEF Refresh
<1>10. ASSUME NEW c \in Callers, Drop(c) PROVE [SecretsNext]_secretsVars
  BY <1>10, <1>b DEF Drop
<1>13. ASSUME NEW c \in Callers, PageRequest(c) PROVE SecretsNext
  BY <1>13 DEF PageRequest, PageOps, Operations, SecretsNext
<1>14. ASSUME NEW c \in Callers, PageReturns(c) PROVE SecretsNext
  BY <1>14, <1>b DEF PageReturns
<1>11. ASSUME NEW c \in Callers, SessionStep(c) PROVE [SecretsNext]_secretsVars
  BY <1>11, <1>b, <1>3, <1>4, <1>5, <1>6, <1>7, <1>8, <1>9, <1>14 DEF SessionStep
<1>12. QED
  BY <1>1, <1>2, <1>10, <1>11, <1>13 DEF SessionNext

\* Every step keeps what the flows and the store know of each other.
LEMMA FitStep ==
  ASSUME UseInv, [SessionNext]_<<secretsVars, sessionVars>>
  PROVE  FitInv'
<1>0. /\ session \in Sessions /\ flow \in [Callers -> Flows \cup {NoFlow}] /\ NoFlow.kind = "none"
      /\ FlowsTyped /\ Safe
  BY SessionMoves DEF UseInv, FlowsTyped, NoFlow
<1>s. ASSUME NEW c \in Callers, NEW kind \in FlowKinds, NEW at, In(c, kind, at)
      PROVE  flow[c] # NoFlow /\ flow[c] \in Flows /\ flow[c].secret \in SecretIds \cup {NoSecret}
  BY <1>0, <1>s DEF In, FlowKinds, Flows
<1>f. FlowSteps = {"rotate", "revoke", "delete", "load", "store", "create", "update", "conclude", "resolve",
                   "run", "report"}
      /\ FlowKinds = {"import", "revoke", "check", "attest", "expire"}
  BY DEF FlowSteps, FlowKinds, PageOps
<1>g. session.secret \in SecretIds \cup {NoSecret}
  BY <1>0 DEF Sessions
\* A flow between two calls ends or moves on; it may read the session.
<1>a. ASSUME NEW c \in Callers, flow[c] # NoFlow, ~In(c, "import", "create"),
             call'[c] = NoCall, \A d \in Callers \ {c} : call'[d] = call[d], sstatus' = sstatus,
             session'.secret = session.secret,
             \/ Finished(c)
             \/ \E s \in FlowSteps \ {"load", "delete"} :
                  \/ FlowTo(c, s)
                  \/ Reads(c, s, session.secret)
      PROVE  FitInv'
  <2>1. CASE Finished(c)
    BY <1>0, <1>a, <2>1, FlowEnds, FitIdle
  <2>2. ASSUME NEW s \in FlowSteps \ {"load", "delete"},
               \/ FlowTo(c, s)
               \/ Reads(c, s, session.secret)
        PROVE  FitInv'
    <3>1. /\ \A d \in Callers \ {c} : flow'[d] = flow[d]
          /\ flow'[c].kind = flow[c].kind /\ flow'[c].at = s
          /\ flow'[c].secret \in {flow[c].secret, session.secret}
      <4>1. CASE FlowTo(c, s)
        BY <1>0, <1>a, <4>1, Walking
      <4>2. CASE Reads(c, s, session.secret)
        BY <1>0, <1>a, <1>g, <4>2, Reading
      <4>3. QED
        BY <2>2, <4>1, <4>2
    <3>2. QED
      BY <1>0, <1>a, <3>1, FitIdle
  <2>3. QED
    BY <1>a, <2>1, <2>2
\* The same for a step that does not touch the store.
<1>b. ASSUME NEW c \in Callers, flow[c] # NoFlow,
             flow[c].at \notin {"create", "store", "resolve", "rotate", "revoke", "delete"},
             UNCHANGED secretsVars, session'.secret = session.secret,
             \/ Finished(c)
             \/ \E s \in FlowSteps \ {"load", "delete"} :
                  \/ FlowTo(c, s)
                  \/ Reads(c, s, session.secret)
      PROVE  FitInv'
  <2>1. call[c] = NoCall
    BY <1>b, Between
  <2>2. ~In(c, "import", "create")
    BY <1>b DEF In
  <2>3. QED
    BY <1>a, <1>b, <2>1, <2>2 DEF secretsVars, store
\* A step that writes the session's status or attestation.
<1>c. ASSUME NEW c \in Callers, flow[c] # NoFlow,
             flow[c].at \notin {"create", "store", "resolve", "rotate", "revoke", "delete"},
             UNCHANGED secretsVars, NEW new, new.secret = session.secret,
             NEW at \in FlowSteps, at # "load", WriteSession(c, new, at),
             at = "delete" => new.status = "revoked" /\ flow[c].secret # NoSecret
      PROVE  FitInv'
  <2>1. /\ \A d \in Callers \ {c} : flow'[d] = flow[d]
        /\ session' \in {session, new}
        /\ \/ flow'[c] = NoFlow
           \/ /\ session' = new /\ flow'[c].kind = flow[c].kind
              /\ flow'[c].at = at /\ flow'[c].secret = flow[c].secret
    BY <1>0, <1>c, Written
  <2>2. call[c] = NoCall
    BY <1>c, Between
  <2>3. ~In(c, "import", "create") /\ call' = call /\ sstatus' = sstatus
    BY <1>c DEF In, secretsVars, store
  <2>4. session'.secret = session.secret
    BY <1>c, <2>1
  <2>5. QED
    BY <1>0, <1>c, <2>1, <2>2, <2>3, <2>4, FitIdle
\* A call that begins.
<1>d. ASSUME NEW c \in Callers, flow[c] # NoFlow, NEW op \in {"rotate", "delete", "resolve"},
             NEW x \in SecretIds \cup {NoSecret}, x # NoSecret, Begin(c, op, "load", x),
             sstatus' = sstatus, session' = session,
             NEW s \in FlowSteps, s # "load",
             \/ UNCHANGED flow /\ s = flow[c].at
             \/ FlowTo(c, s)
             \/ x = session.secret /\ Reads(c, s, x),
             ~In(c, "import", "create"),
             \/ op = "rotate" /\ flow'[c].secret = x /\ s = "store" /\ flow[c].kind \in {"import", "check"}
             \/ op = "delete" /\ flow'[c].secret = x /\ UNCHANGED flow /\ In(c, "revoke", "delete")
             \/ op = "resolve" /\ s = "resolve" /\ flow[c].kind = "check"
      PROVE  FitInv'
  <2>1. op \in Operations /\ x \in SecretIds
    BY <1>d DEF Operations
  <2>2. /\ call'[c] # NoCall /\ call'[c].op = op /\ call'[c].secret = x
        /\ \A d \in Callers \ {c} : call'[d] = call[d]
    BY <1>d, <2>1, Begun
  <2>3. /\ flow'[c] # NoFlow /\ flow'[c].kind = flow[c].kind /\ flow'[c].at = s
        /\ flow'[c].secret \in {flow[c].secret, session.secret}
        /\ \A d \in Callers \ {c} : flow'[d] = flow[d]
    <3>1. CASE UNCHANGED flow /\ s = flow[c].at
      BY <1>d, <3>1
    <3>2. CASE FlowTo(c, s)
      BY <1>0, <1>d, <3>2, Walking
    <3>3. CASE x = session.secret /\ Reads(c, s, x)
      BY <1>0, <1>d, <3>3, Reading
    <3>4. QED
      BY <1>d, <3>1, <3>2, <3>3
  <2>4. CallFits(c)'
    BY <1>d, <2>2, <2>3 DEF CallFits, In
  <2>5. session'.secret # NoSecret => Free(c, session'.secret)
    BY <1>d, Familiar
  <2>6. flow'[c].secret # NoSecret => Free(c, flow'[c].secret)
    <3>1. flow[c].kind # "page"
      BY <1>d DEF In
    <3>2. QED
      BY <1>d, <2>3, <3>1, Familiar DEF Leads
  <2>7. flow'[c].kind = "revoke" /\ flow'[c].at = "delete" =>
          session'.status = "revoked" /\ flow'[c].secret # NoSecret
    BY <1>d, <2>3 DEF UseInv, FitInv, DeletesOk, In
  <2>8. QED
    BY <1>d, <2>2, <2>3, <2>4, <2>5, <2>6, <2>7, FitKept
<1>1. CASE UNCHANGED <<secretsVars, sessionVars>>
  BY <1>1 DEF UseInv, FitInv, CallsFit, CallFits, CreatesOk, Creating, KnownOk, PointsAt, Leads, Known, Exists,
              DeletesOk, In, secretsVars, store, sessionVars
<1>2. ASSUME NEW c \in Callers, NEW kind \in FlowKinds, StartFlow(c, kind) PROVE FitInv'
  <2>1. /\ flow'[c] = [kind |-> kind, at |-> "load", secret |-> NoSecret]
        /\ \A d \in Callers \ {c} : flow'[d] = flow[d]
        /\ call' = call /\ call[c] = NoCall /\ sstatus' = sstatus /\ session' = session
    BY <1>0, <1>2 DEF StartFlow, Idle, secretsVars, store
  <2>2. CallFits(c)'
    BY <2>1 DEF CallFits
  <2>3. QED
    BY <2>1, <2>2, Familiar, FitKept
<1>3. ASSUME NEW c \in Callers, LoadToImport(c) PROVE FitInv'
  <2>1. /\ In(c, "import", "load") /\ flow[c] # NoFlow /\ ~In(c, "import", "create")
        /\ session' = session /\ UNCHANGED <<store, kek, faulted>>
    BY <1>3, <1>s, <1>f DEF LoadToImport, In
  <2>2. CASE UNCHANGED call /\ (Finished(c) \/ FlowTo(c, "create"))
    BY <1>b, <1>f, <2>1, <2>2 DEF In, secretsVars
  <2>3. CASE session.secret # NoSecret /\ Begin(c, "rotate", "load", session.secret)
             /\ Reads(c, "store", session.secret)
    <3>1. flow'[c].secret = session.secret
      BY <1>0, <1>f, <1>g, <2>1, <2>3, Reading
    <3>2. QED
      BY <1>d, <1>f, <1>g, <2>1, <2>3, <3>1 DEF In, store
  <2>4. QED
    BY <1>3, <2>2, <2>3 DEF LoadToImport, Reads
<1>4. ASSUME NEW c \in Callers, Rotated(c) \/ Leased(c) PROVE FitInv'
  <2>1. /\ flow[c] # NoFlow /\ ~In(c, "import", "create") /\ ReturnCall(c) /\ session' = session
        /\ \/ Finished(c) \/ \E s \in {"update", "create", "run"} : FlowTo(c, s)
    BY <1>4, <1>s, <1>f DEF Rotated, Leased, Returned, In
  <2>2. call'[c] = NoCall /\ sstatus' = sstatus /\ \A d \in Callers \ {c} : call'[d] = call[d]
    BY <2>1, Back
  <2>3. QED
    BY <1>a, <1>f, <2>1, <2>2
<1>5. ASSUME NEW c \in Callers, Create(c) PROVE FitInv'
  <2>1. PICK x \in SecretIds : Request(c, "create", x) /\ flow' = [flow EXCEPT ![c].secret = x]
    BY <1>5 DEF Create
  <2>2. /\ In(c, "import", "create") /\ flow[c] # NoFlow /\ flow[c].at \in FlowSteps
        /\ sstatus' = sstatus /\ session' = session
    BY <1>5, <1>s, <1>f DEF Create, In, store
  <2>3. /\ sstatus[x] = "absent" /\ \A d \in Callers : ~Idle(d) => call[d].secret # x
        /\ Begin(c, "create", "insert", x) /\ "create" \in Operations
    BY <2>1 DEF Request, Operations
  <2>4. /\ call'[c] # NoCall /\ call'[c].op = "create" /\ call'[c].at = "insert" /\ call'[c].secret = x
        /\ \A d \in Callers \ {c} : call'[d] = call[d]
    BY <2>3, Begun
  <2>5. /\ flow'[c].kind = "import" /\ flow'[c].at = "create" /\ flow'[c].secret = x
        /\ \A d \in Callers \ {c} : flow'[d] = flow[d]
    BY <1>0, <2>1, <2>2, Choosing DEF In
  <2>6. CallFits(c)'
    BY <2>4, <2>5 DEF CallFits, In
  <2>7. \A d \in Callers \ {c} : ~Creating(d, x)
    BY <2>3 DEF Creating, Idle
  <2>8. QED
    BY <2>2, <2>3, <2>4, <2>5, <2>6, <2>7, Familiar, FitKept
<1>6. ASSUME NEW c \in Callers, Created(c) PROVE FitInv'
  <2>1. In(c, "import", "create") /\ flow[c] # NoFlow /\ flow[c] \in Flows /\ ReturnCall(c) /\ session' = session
    BY <1>6, <1>s, <1>f DEF Created, Returned
  <2>2. call'[c] = NoCall /\ call[c] # NoCall /\ sstatus' = sstatus /\ \A d \in Callers \ {c} : call'[d] = call[d]
    BY <2>1, Back
  <2>3. CASE Finished(c)
    BY <1>0, <2>1, <2>2, <2>3, FlowEnds, FitIdle
  <2>4. CASE Returned(c, "ok") /\ FlowTo(c, "update")
    <3>1. /\ flow'[c].kind = "import" /\ flow'[c].at = "update" /\ flow'[c].secret = flow[c].secret
          /\ \A d \in Callers \ {c} : flow'[d] = flow[d]
      BY <1>0, <1>f, <2>1, <2>4, Walking DEF In
    <3>2. Creating(c, flow[c].secret) /\ call[c].at = "ok" /\ flow[c].secret \in SecretIds
      <4>1. call[c].op = "create" /\ flow[c].secret = call[c].secret
        BY <2>1, <2>2 DEF UseInv, FitInv, CallsFit, CallFits, In
      <4>2. call[c] \in Calls
        BY <2>2 DEF UseInv, SecretsInv, SecretsTypeOK
      <4>3. QED
        BY <2>2, <2>4, <4>1, <4>2 DEF Creating, Returned, Calls
    <3>3. Free(c, flow[c].secret)
      BY <3>2 DEF UseInv, FitInv, CreatesOk, Free
    <3>4. CallFits(c)'
      BY <2>2 DEF CallFits
    <3>5. QED
      BY <2>1, <2>2, <3>1, <3>3, <3>4, Familiar, FitKept
  <2>5. QED
    BY <1>6, <2>3, <2>4 DEF Created
<1>7. ASSUME NEW c \in Callers, PointToState(c) PROVE FitInv'
  <2> DEFINE new == [session EXCEPT !.secret = flow[c].secret, !.status = "unverified"]
  <2>1. /\ In(c, "import", "update") /\ flow[c] # NoFlow /\ UNCHANGED secretsVars
        /\ WriteSession(c, new, "conclude") /\ flow[c].kind = "import" /\ flow[c].at = "update"
    BY <1>7, <1>s, <1>f DEF PointToState, In
  <2>2. new.secret = flow[c].secret
    BY <1>0 DEF Sessions
  <2>3. /\ \A d \in Callers \ {c} : flow'[d] = flow[d]
        /\ session' \in {session, new}
        /\ \/ flow'[c] = NoFlow
           \/ /\ flow'[c].kind = flow[c].kind
              /\ flow'[c].at = "conclude" /\ flow'[c].secret = flow[c].secret
    <3>1. "conclude" \in FlowSteps
      BY <1>f
    <3> HIDE DEF new
    <3>2. QED
      BY <1>0, <2>1, <3>1, Written
  <2>4. call[c] = NoCall /\ call' = call /\ sstatus' = sstatus
    BY <2>1, Between DEF secretsVars, store
  <2>5. session'.secret # NoSecret => Free(c, session'.secret)
    BY <2>1, <2>2, <2>3, Familiar DEF Leads, In
  <2>6. flow'[c] # NoFlow => (flow'[c].secret # NoSecret => Free(c, flow'[c].secret))
    BY <2>1, <2>3, Familiar DEF Leads, In
  <2>7. CallFits(c)'
    BY <2>4 DEF CallFits
  <2>8. session.status = "revoked" => session'.status = "revoked"
    BY <1>0 DEF Safe
  <2>9. QED
    BY <2>1, <2>3, <2>4, <2>5, <2>6, <2>7, <2>8, FitKept
<1>8. ASSUME NEW c \in Callers, Conclude(c) PROVE FitInv'
  BY <1>8, <1>b DEF Conclude
<1>9. ASSUME NEW c \in Callers,
             BeginRevocation(c) \/ LoadToAttest(c) \/ Report(c) \/ Expire(c)
      PROVE  FitInv'
  <2>1. /\ flow[c] # NoFlow /\ flow[c].at \in {"load", "run"} /\ UNCHANGED secretsVars /\ session' = session
        /\ \/ Finished(c)
           \/ \E s \in {"update", "report"} :
                FlowTo(c, s) \/ Reads(c, s, session.secret)
    BY <1>9, <1>s, <1>f DEF BeginRevocation, LoadToAttest, Report, Expire, In, Reads
  <2>2. QED
    BY <1>b, <1>f, <2>1
<1>10. ASSUME NEW c \in Callers, MarkRevoked(c) PROVE FitInv'
  <2> DEFINE new == [session EXCEPT !.status = "revoked"]
             at  == IF flow[c].secret = NoSecret THEN "conclude" ELSE "delete"
  <2>1. flow[c] # NoFlow /\ flow[c].at = "update" /\ UNCHANGED secretsVars /\ WriteSession(c, new, at)
    BY <1>10, <1>s, <1>f DEF MarkRevoked, In
  <2>2. /\ new.secret = session.secret /\ new.status = "revoked" /\ at \in FlowSteps /\ at # "load"
        /\ (at = "delete" => flow[c].secret # NoSecret)
    BY <1>0, <1>f DEF Sessions
  <2> HIDE DEF new, at
  <2>3. QED
    BY <1>c, <2>1, <2>2
<1>11. ASSUME NEW c \in Callers, DeleteState(c) PROVE FitInv'
  <2>1. In(c, "revoke", "delete") /\ flow[c] # NoFlow /\ ~In(c, "import", "create") /\ session' = session
        /\ flow[c].secret \in SecretIds \cup {NoSecret} /\ flow[c].secret # NoSecret /\ flow[c].at = "delete"
    BY <1>11, <1>s, <1>f DEF DeleteState, In, UseInv, FitInv, DeletesOk
  <2>2. CASE Begin(c, ShredWith, "load", flow[c].secret) /\ UNCHANGED <<store, kek, faulted, flow, missed>>
    BY <1>d, <1>f, <2>1, <2>2 DEF ShredWith, store
  <2>3. CASE ReturnCall(c) /\ (Finished(c) \/ FlowTo(c, "conclude"))
    <3>1. call'[c] = NoCall /\ sstatus' = sstatus /\ \A d \in Callers \ {c} : call'[d] = call[d]
      BY <2>3, Back
    <3>2. QED
      BY <1>a, <1>f, <2>1, <2>3, <3>1
  <2>4. QED
    BY <1>11, <2>2, <2>3 DEF DeleteState, Returned
<1>12. ASSUME NEW c \in Callers, Attest(c) PROVE FitInv'
  <2>1. PICK b \in BOOLEAN : WriteSession(c, [session EXCEPT !.attested = b], "conclude")
    BY <1>12 DEF Attest
  <2> DEFINE new == [session EXCEPT !.attested = b]
  <2>2. flow[c] # NoFlow /\ flow[c].at = "update" /\ UNCHANGED secretsVars /\ new.secret = session.secret
    BY <1>0, <1>12, <1>s, <1>f DEF Attest, In, Sessions
  <2> HIDE DEF new
  <2>3. WriteSession(c, new, "conclude")
    BY <2>1 DEF new
  <2>4. QED
    BY <1>c, <1>f, <2>2, <2>3
<1>13. ASSUME NEW c \in Callers, Lease(c) PROVE FitInv'
  <2>1. /\ In(c, "check", "load") /\ flow[c] # NoFlow /\ ~In(c, "import", "create") /\ session' = session
        /\ flow[c].kind = "check" /\ flow[c].at = "load" /\ UNCHANGED <<store, kek, faulted>>
    BY <1>13, <1>s, <1>f DEF Lease, In
  <2>2. CASE UNCHANGED call /\ Finished(c)
    BY <1>b, <2>1, <2>2 DEF secretsVars
  <2>3. CASE session.secret # NoSecret /\ Begin(c, "resolve", "load", session.secret) /\ FlowTo(c, "resolve")
    BY <1>d, <1>f, <1>g, <2>1, <2>3 DEF store
  <2>4. QED
    BY <1>13, <2>2, <2>3 DEF Lease
<1>14. ASSUME NEW c \in Callers, Record(c) \/ Expired(c) PROVE FitInv'
  <2>1. flow[c] # NoFlow /\ flow[c].at \in {"report", "update"} /\ UNCHANGED secretsVars
    BY <1>14, <1>s, <1>f DEF Record, Expired, In
  <2>2. ASSUME NEW s, NEW at \in {"store", "conclude"}, WriteSession(c, [session EXCEPT !.status = s], at)
        PROVE  FitInv'
    <3> DEFINE new == [session EXCEPT !.status = s]
    <3>1. new.secret = session.secret /\ at \in FlowSteps /\ at # "load" /\ at # "delete"
      BY <1>0, <1>f DEF Sessions
    <3> HIDE DEF new
    <3>2. WriteSession(c, new, at)
      BY <2>2 DEF new
    <3>3. QED
      BY <1>c, <2>1, <3>1, <3>2
  <2>3. QED
    BY <1>14, <2>2 DEF Record, Expired
<1>15. ASSUME NEW c \in Callers, Refresh(c) PROVE FitInv'
  <2>1. In(c, "check", "store") /\ flow[c] # NoFlow /\ ~In(c, "import", "create") /\ session' = session
        /\ flow[c].secret \in SecretIds \cup {NoSecret} /\ flow[c].at = "store" /\ flow[c].kind = "check"
    BY <1>15, <1>s, <1>f DEF Refresh, In
  <2>2. CASE flow[c].secret # NoSecret /\ Begin(c, "rotate", "load", flow[c].secret)
             /\ UNCHANGED <<store, kek, faulted, flow>>
    BY <1>d, <1>f, <2>1, <2>2 DEF store
  <2>3. CASE Idle(c) /\ Finished(c) /\ UNCHANGED secretsVars
    BY <1>a, <2>1, <2>3 DEF secretsVars, store, Idle
  <2>4. CASE ReturnCall(c) /\ Finished(c)
    <3>1. call'[c] = NoCall /\ sstatus' = sstatus /\ \A d \in Callers \ {c} : call'[d] = call[d]
      BY <2>4, Back
    <3>2. QED
      BY <1>a, <2>1, <2>4, <3>1
  <2>5. QED
    BY <1>15, <2>2, <2>3, <2>4 DEF Refresh
<1>16. ASSUME NEW c \in Callers, Drop(c) PROVE FitInv'
  <2>1. flow[c] # NoFlow /\ Finished(c) /\ session' = session
    BY <1>16 DEF Drop
  <2>2. call'[c] = NoCall /\ sstatus' = sstatus /\ \A d \in Callers \ {c} : call'[d] = call[d]
    <3>1. CASE Idle(c) /\ UNCHANGED secretsVars
      BY <3>1 DEF Idle, secretsVars, store
    <3>2. CASE ReturnCall(c) \/ Abandon(c)
      BY <3>2, Back
    <3>3. QED
      BY <1>16, <3>1, <3>2 DEF Drop
  <2>3. QED
    BY <1>0, <2>1, <2>2, FlowEnds, FitIdle
<1>17. ASSUME NEW c \in Callers, SecretStep(c), UNCHANGED sessionVars PROVE FitInv'
  BY <1>17, FitStore
<1>20. ASSUME NEW c \in Callers, PageRequest(c) PROVE FitInv'
  <2>1. PICK op \in PageOps, x \in SecretIds :
          /\ Request(c, op, x)
          /\ flow' = [flow EXCEPT ![c] = [kind |-> "page", at |-> op, secret |-> x]]
    BY <1>20 DEF PageRequest
  <2>2. sstatus' = sstatus /\ session' = session /\ Begin(c, op, "load", x) /\ op \in Operations /\ op # "create"
    BY <1>20, <2>1 DEF PageRequest, Request, PageOps, Operations, store
  <2>3. /\ call'[c] # NoCall /\ call'[c].op = op /\ call'[c].secret = x
        /\ \A d \in Callers \ {c} : call'[d] = call[d]
    BY <2>2, Begun
  <2>4. /\ flow'[c].kind = "page" /\ flow'[c].at = op /\ flow'[c].secret = x
        /\ \A d \in Callers \ {c} : flow'[d] = flow[d]
    BY <1>0, <2>1
  <2>5. CallFits(c)' /\ op # "load"
    BY <2>3, <2>4 DEF CallFits, In, PageOps
  <2>6. session'.secret # NoSecret => Free(c, session'.secret)
    BY <2>2, Familiar
  <2>7. QED
    BY <2>2, <2>3, <2>4, <2>5, <2>6, FitKept
<1>21. ASSUME NEW c \in Callers, PageReturns(c) PROVE FitInv'
  <2>1. flow[c] # NoFlow /\ Finished(c) /\ ReturnCall(c) /\ session' = session
    BY <1>0, <1>21 DEF PageReturns
  <2>2. call'[c] = NoCall /\ sstatus' = sstatus /\ \A d \in Callers \ {c} : call'[d] = call[d]
    BY <2>1, Back
  <2>3. QED
    BY <1>0, <2>1, <2>2, FlowEnds, FitIdle
<1>18. ASSUME NEW c \in Callers, SessionStep(c) PROVE FitInv'
  BY <1>3, <1>4, <1>5, <1>6, <1>7, <1>8, <1>9, <1>10, <1>11, <1>12, <1>13, <1>14, <1>15, <1>17, <1>18, <1>21
     DEF SessionStep
<1>19. QED
  BY <1>1, <1>2, <1>16, <1>18, <1>20 DEF SessionNext

\* No two flows stored or revoked at a time, none failed, and no write went wrong.
Undisturbed == ~overlapped /\ ~missed /\ faulted = {}

\* A flow that puts a state into the store, and one that shreds one, once they have looked.
Storer(c)  == \/ flow[c].kind = "import" /\ flow[c].at # "load"
              \/ In(c, "check", "store") \/ In(c, "page", "rotate")
Revoker(c) == (flow[c].kind = "revoke" /\ flow[c].at # "load") \/ In(c, "page", "delete")

\* One flow at a time stores, none beside one that shreds.
StoresAlone(c) == Storer(c) => \A d \in Callers \ {c} : ~Storer(d) /\ ~Revoker(d)

Apart == \A c \in Callers : StoresAlone(c)

\* Nothing is left of a secret, and it will not be rotated; or its owner has revoked it.
Destroyed(x) == Shredded(x) /\ sstatus[x] # "active"
Gone(x)      == sstatus[x] = "revoked" \/ Destroyed(x)

\* What a flow read is still so.
HoldsState(c) ==
  /\ In(c, "import", "store") =>
       /\ flow[c].secret = session.secret
       /\ call[c] # NoCall /\ call[c].at = "unavailable" => Gone(session.secret)
  /\ In(c, "import", "create") =>
       /\ call[c] = NoCall => flow[c].secret \in {NoSecret, session.secret}
       /\ session.secret # NoSecret => Gone(session.secret)
  /\ In(c, "import", "update") =>
       /\ flow[c].secret # NoSecret
       /\ session.secret \in {NoSecret, flow[c].secret} \/ Gone(session.secret)
  /\ In(c, "revoke", "update") \/ In(c, "revoke", "delete") => flow[c].secret = session.secret
  /\ Calling(c, "create", "version") => sstatus[call[c].secret] # "deleted"
  /\ Renewing(c) => /\ Storer(c) /\ call[c].secret = session.secret
                    /\ session.status # "revoked" /\ sstatus[session.secret] # "deleted"

ReadsHold == \A c \in Callers : HoldsState(c)

\* Caller c has created x, or is about to, and the session does not point at it yet.
Brings(c, x) == (In(c, "import", "create") \/ In(c, "import", "update")) /\ flow[c].secret = x

\* No other state is left than that of the session, the one an import brings, and those whose
\* secrets were revoked on the page.
NoOrphans ==
  \A x \in SecretIds : x # session.secret => Gone(x) \/ \E c \in Callers : Brings(c, x)

\* The state of a revoked session is gone, or a revocation is deleting it.
StateGoes ==
  session.status = "revoked" /\ session.secret # NoSecret =>
    Destroyed(session.secret) \/ \E c \in Callers : In(c, "revoke", "delete")

\* A deletion has shredded what it is about to declare deleted.
DeletesShredded ==
  /\ \A c \in Callers : call[c] # NoCall /\ call[c].op = "delete" =>
       /\ call[c].at \in {"tombstone", "ok"} => Shredded(call[c].secret)
       /\ call[c].at = "ok" => sstatus[call[c].secret] # "active"
  /\ \A x \in SecretIds : sstatus[x] = "deleted" => Shredded(x)

Orderly == Apart /\ ReadsHold /\ NoOrphans /\ StateGoes /\ DeletesShredded

UndisturbedInv == Undisturbed => Orderly

----
\* What is destroyed or gone stays so, unless its own caller writes a version.
LEMMA StaysGone ==
  ASSUME SecretsInv, NEW c \in Callers, SecretStep(c), NEW x \in SecretIds,
         ~(x = call[c].secret /\ (call[c].op = "create" \/ Renewing(c)))
  PROVE  /\ Shredded(x) => Shredded(x)'
         /\ Destroyed(x) => Destroyed(x)'
         /\ Gone(x) /\ (Calling(c, "delete", "tombstone") /\ call[c].secret = x => Shredded(x)) => Gone(x)'
<1>1. Shredded(x) => Shredded(x)'
  BY HeldMoves DEF Calling
<1>2. sstatus'[x] # sstatus[x] =>
        \/ sstatus'[x] = "revoked"
        \/ sstatus'[x] = "deleted" /\ Calling(c, "delete", "tombstone") /\ call[c].secret = x
  BY StatusMoves DEF Calling
<1>3. QED
  BY <1>1, <1>2 DEF Destroyed, Gone

\* A step of c that leaves the store and the session's secret alone.
LEMMA OrderKept ==
  ASSUME Orderly, NEW c \in Callers, sstatus' = sstatus, versions' = versions,
         \A d \in Callers \ {c} : call'[d] = call[d] /\ flow'[d] = flow[d],
         session'.secret = session.secret,
         session'.status = "revoked" =>
           \/ session.status = "revoked"
           \/ /\ \A d \in Callers \ {c} : ~Storer(d)
              /\ session.secret # NoSecret => In(c, "revoke", "delete")',
         Storer(c)' => \A d \in Callers \ {c} : ~Storer(d) /\ ~Revoker(d),
         Revoker(c)' => \A d \in Callers \ {c} : ~Storer(d),
         HoldsState(c)',
         In(c, "import", "create") \/ In(c, "import", "update") =>
           /\ In(c, "import", "create")' \/ In(c, "import", "update")'
           /\ flow[c].secret \in {NoSecret, session.secret, flow'[c].secret},
         In(c, "revoke", "delete") => In(c, "revoke", "delete")' \/ Destroyed(session.secret),
         call'[c] = NoCall \/ call'[c].at \in {"load", "insert"}
  PROVE  Orderly'
<1>0. Apart /\ ReadsHold /\ NoOrphans /\ StateGoes /\ DeletesShredded
  BY DEF Orderly
<1>1. Apart'
  <2>1. ASSUME NEW d \in Callers, d # c PROVE (Storer(d)' <=> Storer(d)) /\ (Revoker(d)' <=> Revoker(d))
    BY <2>1 DEF Storer, Revoker, In
  <2>2. ASSUME NEW d \in Callers, d # c, Storer(d) PROVE ~Storer(c)' /\ ~Revoker(c)'
    BY <1>0, <2>2 DEF Apart, StoresAlone
  <2>3. ASSUME NEW d \in Callers, Storer(d)', NEW e \in Callers, e # d PROVE ~Storer(e)' /\ ~Revoker(e)'
    <3>1. CASE d = c
      BY <2>1, <2>3, <3>1
    <3>2. CASE d # c
      BY <1>0, <2>1, <2>2, <2>3, <3>2 DEF Apart, StoresAlone
    <3>3. QED
      BY <3>1, <3>2
  <2>4. QED
    BY <2>3 DEF Apart, StoresAlone
<1>2. \A x : (Shredded(x)' <=> Shredded(x)) /\ (Destroyed(x)' <=> Destroyed(x)) /\ (Gone(x)' <=> Gone(x))
  BY DEF Shredded, Destroyed, Gone
<1>3. ReadsHold'
  <2>1. ASSUME NEW d \in Callers, d # c PROVE HoldsState(d)'
    <3>1. HoldsState(d) /\ call'[d] = call[d] /\ flow'[d] = flow[d]
      BY <1>0, <2>1 DEF ReadsHold
    <3>2. Renewing(d) => Storer(d) /\ session'.status # "revoked"
      BY <2>1, <3>1 DEF HoldsState
    <3>3. Gone(session.secret) => Gone(session.secret)'
      BY DEF Gone, Destroyed, Shredded
    <3>4. QED
      BY <3>1, <3>2, <3>3 DEF HoldsState, Renewing, Storer, Calling, In
  <2>2. QED
    BY <2>1 DEF ReadsHold
<1>4. NoOrphans'
  <2>1. ASSUME NEW x \in SecretIds, x # session'.secret, ~Gone(x)' PROVE \E d \in Callers : Brings(d, x)'
    <3>1. PICK d \in Callers : Brings(d, x)
      BY <1>0, <1>2, <2>1 DEF NoOrphans
    <3>2. CASE d = c
      BY <2>1, <3>1, <3>2, SessionAssumption DEF Brings, In
    <3>3. CASE d # c
      BY <3>1, <3>3 DEF Brings, In
    <3>4. QED
      BY <3>2, <3>3
  <2>2. QED
    BY <2>1 DEF NoOrphans
<1>5. StateGoes'
  <2>1. Destroyed(session.secret) => Destroyed(session.secret)'
    BY DEF Destroyed, Shredded
  <2>2. ASSUME NEW d \in Callers, In(d, "revoke", "delete")
        PROVE  In(d, "revoke", "delete")' \/ Destroyed(session.secret)
    BY <2>2 DEF In
  <2>3. QED
    BY <1>0, <2>1, <2>2 DEF StateGoes
<1>6. DeletesShredded'
  <2>1. \A d \in Callers : call'[d] # NoCall /\ call'[d].at \in {"tombstone", "ok"} => call'[d] = call[d]
    OBVIOUS
  <2>2. QED
    BY <1>0, <2>1 DEF DeletesShredded, Shredded
<1>7. QED
  BY <1>1, <1>3, <1>4, <1>5, <1>6 DEF Orderly

\* A step of the store.
LEMMA OrderStore ==
  ASSUME UseInv, Orderly, NEW c \in Callers, SecretStep(c), UNCHANGED sessionVars
  PROVE  Orderly'
<1>0. /\ Apart /\ ReadsHold /\ NoOrphans /\ StateGoes /\ DeletesShredded
      /\ CallsFit /\ CreatesOk /\ KnownOk /\ DeletesOk /\ SecretsInv /\ FlowsTyped
      /\ session' = session /\ flow' = flow
  BY DEF UseInv, FitInv, Orderly, sessionVars
<1> DEFINE x == call[c].secret
<1>1. /\ call[c] \in Calls /\ call[c] # NoCall /\ call'[c] # NoCall
      /\ call'[c].op = call[c].op /\ call'[c].secret = call[c].secret
      /\ \A d \in Callers \ {c} : call'[d] = call[d]
  BY <1>0, CallMoves
<1>2. x \in SecretIds /\ session.secret \in SecretIds \cup {NoSecret}
  BY <1>0, <1>1 DEF Calls, FlowsTyped, Sessions
\* Who creates or rotates stores, and who deletes shreds.
<1>3. ASSUME NEW d \in Callers, call[d] # NoCall
      PROVE  /\ call[d].op = "create" => In(d, "import", "create") /\ flow[d].secret = call[d].secret /\ Storer(d)
             /\ call[d].op = "rotate" =>
                  /\ Storer(d) /\ flow[d].secret = call[d].secret
                  /\ ~In(d, "import", "create") /\ ~In(d, "import", "update")
             /\ call[d].op = "delete" => Revoker(d)
  <2>1. CallFits(d)
    BY <1>0, <1>3 DEF CallsFit
  <2>2. call[d].op = "create" => In(d, "import", "create") /\ flow[d].secret = call[d].secret
    BY <1>3, <2>1 DEF CallFits, PageOps
  <2>3. call[d].op = "rotate" =>
          /\ flow[d].secret = call[d].secret
          /\ In(d, "import", "store") \/ In(d, "check", "store") \/ In(d, "page", "rotate")
    BY <1>3, <2>1 DEF CallFits
  <2>4. call[d].op = "delete" => In(d, "revoke", "delete") \/ In(d, "page", "delete")
    BY <1>3, <2>1 DEF CallFits
  <2>5. QED
    BY <2>2, <2>3, <2>4 DEF In, Storer, Revoker
\* A step that writes a version is that of the only flow that stores.
<1>4. ASSUME call[c].op \in {"create", "rotate"}, NEW d \in Callers, d # c PROVE ~Storer(d) /\ ~Revoker(d)
  BY <1>0, <1>1, <1>3, <1>4 DEF Apart, StoresAlone
<1>5. ASSUME Renewing(c)
      PROVE  x = session.secret /\ session.status # "revoked" /\ sstatus[session.secret] # "deleted"
  BY <1>0, <1>5 DEF ReadsHold, HoldsState
<1>6. Calling(c, "delete", "tombstone") => Shredded(x)
  BY <1>0, <1>1 DEF DeletesShredded, Calling
\* What a revocation needs gone is not what is being created.
<1>7. session.secret # NoSecret => ~(call[c].op = "create" /\ x = session.secret) /\ Exists(session.secret)
  BY <1>0, <1>1 DEF KnownOk, Known, Creating
<1>8. session.secret # NoSecret /\ Gone(session.secret) /\ ~Renewing(c) => Gone(session.secret)'
  <2> SUFFICES ASSUME session.secret # NoSecret, Gone(session.secret), ~Renewing(c)
               PROVE  Gone(session.secret)'
    OBVIOUS
  <2> DEFINE y == session.secret
  <2>1. y \in SecretIds /\ ~(y = call[c].secret /\ (call[c].op = "create" \/ Renewing(c)))
    BY <1>2, <1>7
  <2>2. Gone(y) /\ (Calling(c, "delete", "tombstone") /\ call[c].secret = y => Shredded(y))
    BY <1>6
  <2>3. sstatus'[y] = "revoked" \/ (sstatus'[y] # "active" /\ \A n \in Numbers : ~versions'[y][n].held)
    <3>1. ASSUME NEW z \in SecretIds, z = y PROVE Gone(z)'
      <4> HIDE DEF y
      <4>1. QED
        BY <1>0, <2>1, <2>2, <3>1, StaysGone
    <3>2. QED
      BY <2>1, <3>1 DEF Gone, Destroyed, Shredded
  <2>4. QED
    BY <1>0, <2>3 DEF Gone, Destroyed, Shredded
<1>9. Apart'
  BY <1>0 DEF Apart, StoresAlone, Storer, Revoker, In
<1>10. ReadsHold'
  <2> SUFFICES ASSUME NEW d \in Callers PROVE HoldsState(d)'
    BY DEF ReadsHold
  <2>0. HoldsState(d)
    BY <1>0 DEF ReadsHold
  <2>1. ASSUME In(d, "import", "store") \/ In(d, "import", "create") \/ In(d, "import", "update"),
               session.secret # NoSecret, Gone(session.secret), d = c => ~Renewing(c)
        PROVE  Gone(session.secret)'
    <3>1. Storer(d)
      BY <2>1 DEF Storer, In
    <3>2. d # c => ~Storer(c)
      BY <1>0, <3>1 DEF Apart, StoresAlone
    <3>3. ~Renewing(c)
      BY <1>3, <2>1, <3>2 DEF Renewing
    <3>4. QED
      BY <1>8, <2>1, <3>3
  <2>2. ASSUME In(d, "import", "store"), call'[d] # NoCall, call'[d].at = "unavailable" PROVE Gone(session.secret)'
    <3>1. call[d] # NoCall /\ call[d].op = "rotate" /\ call[d].secret = session.secret /\ session.secret # NoSecret
      BY <1>0, <1>1, <1>2, <2>0, <2>2, SessionAssumption DEF HoldsState, CallsFit, CallFits, In, SecretsInv, SecretsTypeOK, Calls
    <3>2. CASE d # c
      BY <1>1, <2>0, <2>1, <2>2, <3>1, <3>2 DEF HoldsState
    <3>3. CASE d = c
      <4>1. sstatus[x] # "active" /\ sstatus' = sstatus /\ versions' = versions
        BY <1>0, <1>1, <1>2, <2>2, <3>1, <3>3, ResultsMean
      <4>2. Exists(x) /\ sstatus[x] \in {"absent", "active", "revoked", "deleted", "removed"}
        BY <1>0, <1>2, <1>7, <3>1, <3>3 DEF SecretsInv, SecretsTypeOK
      <4>3. sstatus[x] \in {"revoked", "deleted"}
        BY <4>1, <4>2 DEF Exists
      <4>4. sstatus[x] = "deleted" => Shredded(x)
        BY <1>0, <1>2 DEF DeletesShredded
      <4>5. QED
        BY <1>0, <3>1, <3>3, <4>1, <4>3, <4>4 DEF Gone, Destroyed, Shredded
    <3>4. QED
      BY <3>2, <3>3
  <2>3. ASSUME In(d, "import", "create")
        PROVE  /\ call'[d] = NoCall => flow[d].secret \in {NoSecret, session.secret}
               /\ session.secret # NoSecret => Gone(session.secret)'
    <3>1. d = c => ~Renewing(c)
      BY <1>1, <1>3, <2>3 DEF Renewing
    <3>2. QED
      BY <1>1, <2>0, <2>1, <2>3, <3>1 DEF HoldsState
  <2>4. ASSUME In(d, "import", "update")
        PROVE  session.secret \in {NoSecret, flow[d].secret} \/ Gone(session.secret)'
    <3>1. d = c => ~Renewing(c)
      BY <1>1, <1>3, <2>4 DEF Renewing
    <3>2. QED
      BY <2>0, <2>1, <2>4, <3>1 DEF HoldsState
  <2>5. ASSUME Calling(d, "create", "version")' PROVE sstatus'[call'[d].secret] # "deleted"
    <3>1. CASE d = c
      <4>1. \/ sstatus'[x] = "active"
            \/ call[c].at = "version" /\ sstatus'[x] = sstatus[x]
        BY <1>0, <1>1, <1>2, <2>5, <3>1, ResultsMean DEF Calling
      <4>2. call[c].at = "version" => sstatus[x] # "deleted"
        BY <1>1, <2>0, <2>5, <3>1 DEF HoldsState, Calling
      <4>3. QED
        BY <1>1, <3>1, <4>1, <4>2
    <3>2. CASE d # c
      <4>1. /\ sstatus[call[d].secret] # "deleted" /\ call'[d] = call[d] /\ call[d].op = "create"
            /\ call[d] # NoCall /\ call[d].secret \in SecretIds
        BY <1>0, <1>1, <2>0, <2>5, <3>2 DEF HoldsState, Calling, NoCall, SecretsInv, SecretsTypeOK, Calls
      <4>2. ~Revoker(c)
        BY <1>0, <1>3, <3>2, <4>1 DEF Apart, StoresAlone
      <4>3. QED
        BY <1>0, <1>1, <1>3, <4>1, <4>2, StatusMoves DEF Calling
    <3>3. QED
      BY <3>1, <3>2
  <2>6. ASSUME Renewing(d)'
        PROVE  /\ Storer(d) /\ call'[d].secret = session.secret
               /\ session.status # "revoked" /\ sstatus'[session.secret] # "deleted"
    <3>1. call[d] # NoCall /\ call[d].op = "rotate" /\ call'[d].secret = call[d].secret /\ call[d].secret \in SecretIds
      BY <1>0, <1>1, <2>6 DEF Renewing, SecretsInv, SecretsTypeOK, Calls
    <3>2. Storer(d) /\ ~In(d, "import", "create") /\ ~In(d, "import", "update")
      BY <1>3, <3>1
    <3>3. \A e \in Callers \ {d} : ~Storer(e) /\ ~Revoker(e)
      BY <1>0, <3>2 DEF Apart, StoresAlone
    <3>4. /\ call[d].secret = session.secret /\ session.status # "revoked"
          /\ sstatus[session.secret] # "deleted"
      <4>1. CASE Renewing(d)
        BY <2>0, <4>1 DEF HoldsState
      <4>2. CASE ~Renewing(d)
        <5>1. d = c
          BY <1>1, <2>6, <4>2 DEF Renewing
        <5>2. sstatus[x] = "active"
          BY <1>0, <1>2, <2>6, <4>2, <5>1, ResultsMean
        <5>3. x = session.secret
          <6>1. ~Gone(x)
            BY <5>2 DEF Gone, Destroyed
          <6>2. \A e \in Callers : ~Brings(e, x)
            BY <3>2, <3>3 DEF Brings, Storer, In
          <6>3. QED
            BY <1>0, <1>2, <6>1, <6>2 DEF NoOrphans
        <5>4. session.status # "revoked"
          <6>1. \A e \in Callers : ~In(e, "revoke", "delete")
            BY <3>2, <3>3 DEF Revoker, Storer, In
          <6>2. QED
            BY <1>0, <1>2, <5>2, <5>3, <6>1, SessionAssumption DEF StateGoes, Destroyed
        <5>5. QED
          BY <5>1, <5>2, <5>3, <5>4
      <4>3. QED
        BY <4>1, <4>2
    <3>5. sstatus'[session.secret] # "deleted"
      <4>1. session.secret \in SecretIds
        BY <3>1, <3>4
      <4>2. ~Calling(c, "delete", "tombstone")
        BY <1>1, <1>3, <3>1, <3>3 DEF Calling
      <4>3. ASSUME NEW y \in SecretIds, sstatus[y] # "deleted" PROVE sstatus'[y] # "deleted"
        BY <1>0, <4>2, <4>3, StatusMoves
      <4>4. QED
        BY <3>4, <4>1, <4>3
    <3>6. QED
      BY <3>1, <3>2, <3>4, <3>5
  <2>7. QED
    <3>1. \A k, a : In(d, k, a)' <=> In(d, k, a)
      BY <1>0 DEF In
    <3>2. Storer(d) => Storer(d)'
      BY <1>0 DEF Storer, In
    <3>3. session' = session /\ flow'[d] = flow[d]
      BY <1>0
    <3>4. In(d, "import", "store") =>
            /\ flow'[d].secret = session'.secret
            /\ call'[d] # NoCall /\ call'[d].at = "unavailable" => Gone(session.secret)'
      BY <2>0, <2>2, <3>3 DEF HoldsState
    <3>5. In(d, "import", "update") => flow'[d].secret # NoSecret
      BY <2>0, <3>3 DEF HoldsState
    <3>6. In(d, "revoke", "update") \/ In(d, "revoke", "delete") => flow'[d].secret = session'.secret
      BY <2>0, <3>3 DEF HoldsState
    <3>7. QED
      BY <2>3, <2>4, <2>5, <2>6, <3>1, <3>2, <3>3, <3>4, <3>5, <3>6 DEF HoldsState
<1>11. NoOrphans'
  <2>1. ASSUME NEW y \in SecretIds, y # session.secret PROVE Gone(y)' \/ \E d \in Callers : Brings(d, y)
    <3>1. CASE y = x /\ call[c].op = "create"
      BY <1>1, <1>3, <3>1 DEF Brings
    <3>2. CASE ~(y = x /\ call[c].op = "create")
      <4>1. ~(y = x /\ (call[c].op = "create" \/ Renewing(c)))
        BY <1>5, <2>1, <3>2
      <4>2. Gone(y) => Gone(y)'
        BY <1>0, <1>6, <4>1, StaysGone
      <4>3. QED
        BY <1>0, <2>1, <4>2 DEF NoOrphans
    <3>3. QED
      BY <3>1, <3>2
  <2>2. QED
    BY <1>0, <2>1 DEF NoOrphans, Brings, In
<1>12. StateGoes'
  <2>1. ASSUME session.status = "revoked", session.secret # NoSecret, Destroyed(session.secret)
        PROVE  Destroyed(session.secret)'
    <3>1. session.secret \in SecretIds /\ ~Renewing(c) /\ ~(call[c].op = "create" /\ x = session.secret)
      BY <1>2, <1>5, <1>7, <2>1
    <3>2. ASSUME NEW y \in SecretIds, y = session.secret
          PROVE  sstatus'[y] # "active" /\ \A n \in Numbers : ~versions'[y][n].held
      <4>1. Destroyed(y) /\ ~(y = x /\ (call[c].op = "create" \/ Renewing(c)))
        BY <2>1, <3>1, <3>2
      <4>2. Destroyed(y)'
        BY <1>0, <4>1, StaysGone
      <4>3. QED
        BY <4>2 DEF Destroyed, Shredded
    <3>3. QED
      BY <1>0, <3>1, <3>2 DEF Destroyed, Shredded
  <2>2. QED
    BY <1>0, <2>1 DEF StateGoes, In
<1>13. DeletesShredded'
  \* What a deletion has shredded, or declared deleted, nobody else writes.
  <2>1. ASSUME NEW y \in SecretIds, Shredded(y), ~Shredded(y)' PROVE y = x /\ call[c].op \in {"create", "rotate"} /\ sstatus[y] # "deleted"
    <3>1. y = x /\ (Calling(c, "create", "version") \/ Renewing(c))
      BY <1>0, <2>1, HeldMoves
    <3>2. sstatus[y] # "deleted"
      BY <1>0, <1>5, <3>1 DEF ReadsHold, HoldsState
    <3>3. QED
      BY <3>1, <3>2 DEF Calling, Renewing
  <2>2. ASSUME NEW d \in Callers, call'[d] # NoCall, call'[d].op = "delete", NEW y, y = call'[d].secret
        PROVE  /\ call'[d].at \in {"tombstone", "ok"} => Shredded(y)'
               /\ call'[d].at = "ok" => sstatus'[y] # "active"
    <3>1. call[d] # NoCall /\ call[d].op = "delete" /\ y = call[d].secret /\ y \in SecretIds /\ Revoker(d)
      BY <1>0, <1>1, <1>3, <2>2 DEF SecretsInv, SecretsTypeOK, Calls
    <3>2. call[c].op \notin {"create", "rotate"}
      BY <1>4, <3>1
    <3>3. Shredded(y) => Shredded(y)'
      BY <2>1, <3>1, <3>2
    <3>4. CASE d = c
      <4>1. call'[c].at \in {"tombstone", "ok"} =>
              \/ Shredded(y)'
              \/ versions' = versions /\ (call[c].at = "tombstone" \/ sstatus[y] = "deleted")
        BY <1>0, <3>1, <3>4, ResultsMean
      <4>2. call[c].at = "tombstone" \/ sstatus[y] = "deleted" => Shredded(y)
        BY <1>0, <3>1, <3>4 DEF DeletesShredded
      <4>3. call'[c].at = "ok" => sstatus'[y] # "active"
        BY <1>0, <3>1, <3>4, ResultsMean
      <4>4. QED
        BY <3>3, <3>4, <4>1, <4>2, <4>3
    <3>5. CASE d # c
      <4>1. sstatus[y] # "active" => sstatus'[y] # "active"
        BY <1>0, <3>1, <3>2, StatusMoves DEF Calling
      <4>2. QED
        BY <1>0, <1>1, <3>1, <3>3, <3>5, <4>1 DEF DeletesShredded
    <3>6. QED
      BY <3>4, <3>5
  <2>3. ASSUME NEW y \in SecretIds, sstatus'[y] = "deleted" PROVE Shredded(y)'
    <3>1. CASE sstatus[y] = "deleted"
      BY <1>0, <2>1, <3>1 DEF DeletesShredded
    <3>2. CASE sstatus[y] # "deleted"
      <4>1. y = x /\ Calling(c, "delete", "tombstone")
        BY <1>0, <2>3, <3>2, StatusMoves
      <4>2. QED
        BY <1>6, <2>1, <4>1 DEF Calling
    <3>3. QED
      BY <3>1, <3>2
  <2>4. ASSUME NEW d \in Callers, call'[d] # NoCall, call'[d].op = "delete"
        PROVE  /\ call'[d].at \in {"tombstone", "ok"} => \A n \in Numbers : ~versions'[call'[d].secret][n].held
               /\ call'[d].at = "ok" => sstatus'[call'[d].secret] # "active"
    <3>1. ASSUME NEW y, y = call'[d].secret
          PROVE  /\ call'[d].at \in {"tombstone", "ok"} => \A n \in Numbers : ~versions'[y][n].held
                 /\ call'[d].at = "ok" => sstatus'[y] # "active"
      BY <2>2, <2>4, <3>1 DEF Shredded
    <3>2. QED
      BY <3>1
  <2>5. QED
    BY <2>3, <2>4 DEF DeletesShredded, Shredded
<1>14. QED
  BY <1>9, <1>10, <1>11, <1>12, <1>13 DEF Orderly

\* Nothing that went wrong is forgotten.
LEMMA CalmBefore ==
  ASSUME UseInv, [SessionNext]_<<secretsVars, sessionVars>>, Undisturbed'
  PROVE  Undisturbed
<1>1. faulted = {}
  BY StoreUsed, FaultedGrows DEF Undisturbed
<1>2. missed => missed'
  <2>1. ASSUME NEW c \in Callers, NEW new, NEW at, WriteSession(c, new, at), missed PROVE missed'
    BY <2>1 DEF WriteSession
  <2>2. ASSUME NEW c \in Callers, missed, PointToState(c) \/ MarkRevoked(c) \/ Attest(c) \/ Record(c) \/ Expired(c)
        PROVE  missed'
    BY <2>1, <2>2 DEF PointToState, MarkRevoked, Attest, Record, Expired
  <2>3. ASSUME NEW c \in Callers, missed,
               \/ \E kind \in FlowKinds : StartFlow(c, kind)
               \/ LoadToImport(c) \/ Rotated(c) \/ Create(c) \/ Created(c) \/ BeginRevocation(c)
               \/ DeleteState(c) \/ Conclude(c) \/ LoadToAttest(c) \/ Lease(c) \/ Leased(c) \/ Report(c)
               \/ Refresh(c) \/ Expire(c) \/ Drop(c) \/ PageRequest(c) \/ PageReturns(c) \/ UNCHANGED sessionVars
        PROVE  missed'
    BY <2>3 DEF StartFlow, LoadToImport, Rotated, Create, Created, BeginRevocation, DeleteState, Conclude,
                LoadToAttest, Lease, Leased, Report, Refresh, Expire, Drop, PageRequest, PageReturns, sessionVars
  <2>4. QED
    BY <2>2, <2>3 DEF SessionNext, SessionStep, sessionVars
<1>3. overlapped => overlapped'
  <2>1. ASSUME NEW c \in Callers, overlapped, LoadToImport(c) \/ BeginRevocation(c) \/ Record(c) \/ PageRequest(c)
        PROVE  overlapped'
    BY <2>1 DEF LoadToImport, BeginRevocation, Record, PageRequest, Overlap
  <2>2. ASSUME NEW c \in Callers, overlapped,
               \/ \E kind \in FlowKinds : StartFlow(c, kind)
               \/ Rotated(c) \/ Create(c) \/ Created(c) \/ PointToState(c) \/ MarkRevoked(c)
               \/ DeleteState(c) \/ Conclude(c) \/ LoadToAttest(c) \/ Attest(c) \/ Lease(c) \/ Leased(c)
               \/ Report(c) \/ Refresh(c) \/ Expire(c) \/ Expired(c) \/ Drop(c) \/ PageReturns(c)
               \/ UNCHANGED sessionVars
        PROVE  overlapped'
    BY <2>2 DEF StartFlow, Rotated, Create, Created, PointToState, MarkRevoked, DeleteState, Conclude,
                LoadToAttest, Attest, Lease, Leased, Report, Refresh, Expire, Expired, Drop, PageReturns, sessionVars
  <2>3. QED
    BY <2>1, <2>2 DEF SessionNext, SessionStep, sessionVars
<1>4. QED
  BY <1>1, <1>2, <1>3 DEF Undisturbed

\* A flow that stores begins alone.
LEMMA BeginsAlone ==
  ASSUME NEW c \in Callers, NEW r \in BOOLEAN, Overlap(c, r), ~overlapped'
  PROVE  \A d \in Callers \ {c} : ~Storer(d) /\ (~r => ~Revoker(d))
BY DEF Overlap, Storing, Shredding, Storer, Revoker, In

\* The import points the session at the state it brings.
LEMMA OrderPointed ==
  ASSUME UseInv, Orderly, NEW c \in Callers, In(c, "import", "update"), UNCHANGED secretsVars,
         \A d \in Callers \ {c} : flow'[d] = flow[d],
         session'.status = "unverified", session'.secret = flow[c].secret,
         flow'[c].kind = "import", flow'[c].at = "conclude"
  PROVE  Orderly'
<1>0. /\ Apart /\ ReadsHold /\ NoOrphans /\ StateGoes /\ DeletesShredded
      /\ call' = call /\ sstatus' = sstatus /\ versions' = versions /\ call[c] = NoCall
  BY Between DEF Orderly, secretsVars, store, In
<1>1. session.secret \in {NoSecret, flow[c].secret} \/ Gone(session.secret)
  BY <1>0 DEF ReadsHold, HoldsState
<1>2. \A d \in Callers \ {c} : ~Storer(d) /\ ~Revoker(d)
  BY <1>0 DEF Apart, StoresAlone, Storer, In
<1>3. Apart'
  BY <1>2 DEF Apart, StoresAlone, Storer, Revoker, In
<1>4. ReadsHold'
  <2>1. ~Renewing(c) /\ ~Calling(c, "create", "version") /\ call'[c] = NoCall
    BY <1>0 DEF Renewing, Calling, NoCall
  <2>2. HoldsState(c)'
    BY <1>0, <2>1 DEF HoldsState, Renewing, Calling, In
  <2>3. ASSUME NEW d \in Callers, d # c PROVE HoldsState(d)'
    <3>1. ~(In(d, "import", "store") \/ In(d, "import", "create") \/ In(d, "import", "update")
            \/ In(d, "revoke", "update") \/ In(d, "revoke", "delete"))
      BY <1>2, <2>3 DEF Storer, Revoker, In
    <3>2. HoldsState(d) /\ ~Renewing(d) /\ flow'[d] = flow[d]
      BY <1>0, <1>2, <2>3 DEF ReadsHold, HoldsState
    <3>3. QED
      BY <1>0, <3>1, <3>2 DEF HoldsState, Renewing, Calling, In
  <2>4. QED
    BY <2>2, <2>3 DEF ReadsHold
<1>5. StateGoes'
  BY DEF StateGoes
<1>6. \A x : Gone(x)' <=> Gone(x)
  BY <1>0 DEF Gone, Destroyed, Shredded
<1>7. NoOrphans'
  <2>1. ASSUME NEW x \in SecretIds, x # session'.secret, ~Gone(x) PROVE \E d \in Callers : Brings(d, x)'
    <3>1. PICK d \in Callers : Brings(d, x)
      BY <1>0, <1>1, <2>1, SessionAssumption DEF NoOrphans
    <3>2. d # c
      BY <2>1, <3>1 DEF Brings
    <3>3. QED
      BY <3>1, <3>2 DEF Brings, In
  <2>2. QED
    BY <1>6, <2>1 DEF NoOrphans
<1>8. DeletesShredded'
  BY <1>0 DEF DeletesShredded, Shredded
<1>9. QED
  BY <1>3, <1>4, <1>5, <1>7, <1>8 DEF Orderly

\* Every step of a calm run keeps its order.
LEMMA UndisturbedStep ==
  ASSUME UseInv, UndisturbedInv, [SessionNext]_<<secretsVars, sessionVars>>
  PROVE  UndisturbedInv'
<1> SUFFICES ASSUME Undisturbed' PROVE Orderly'
  BY DEF UndisturbedInv
<1>0. /\ session \in Sessions /\ session.secret \in SecretIds \cup {NoSecret}
      /\ flow \in [Callers -> Flows \cup {NoFlow}] /\ NoFlow.kind = "none" /\ FlowsTyped
  BY DEF UseInv, FlowsTyped, NoFlow, Sessions
<1>o. Orderly /\ ~overlapped' /\ ~missed'
  BY CalmBefore DEF Undisturbed, UndisturbedInv
<1>p. Apart /\ ReadsHold /\ DeletesShredded /\ CallsFit /\ DeletesOk
  BY <1>o DEF Orderly, UseInv, FitInv
<1>s. ASSUME NEW c \in Callers, NEW kind \in FlowKinds, NEW at, In(c, kind, at)
      PROVE  flow[c] # NoFlow /\ flow[c] \in Flows /\ flow[c].kind = kind /\ flow[c].at = at
  BY <1>0, <1>s DEF In, FlowKinds
<1>f. FlowSteps = {"rotate", "revoke", "delete", "load", "store", "create", "update", "conclude", "resolve",
                   "run", "report"}
      /\ FlowKinds = {"import", "revoke", "check", "attest", "expire"}
  BY DEF FlowSteps, FlowKinds, PageOps
\* A flow ends or goes on to a step where it neither stores nor revokes.
<1>a. ASSUME NEW c \in Callers, sstatus' = sstatus, versions' = versions,
             \A d \in Callers \ {c} : call'[d] = call[d] /\ flow'[d] = flow[d],
             call'[c] = NoCall \/ call'[c].at = "load",
             session'.secret = session.secret,
             session'.status = session.status \/ (session'.status # "revoked" /\ session.status # "revoked"),
             ~In(c, "import", "create"), ~In(c, "import", "update"), ~In(c, "revoke", "delete"),
             \/ flow'[c] = NoFlow
             \/ /\ flow'[c].kind \in {"import", "revoke"} /\ flow'[c].at = "load"
             \/ flow'[c].kind \in {"attest", "expire", "check"} /\ flow'[c].at # "store"
             \/ flow'[c].kind = "page" /\ flow'[c].at = "revoke"
      PROVE  Orderly'
  <2>1. ~Storer(c)' /\ ~Revoker(c)'
    BY <1>0, <1>a DEF Storer, Revoker, In
  <2>2. ~Renewing(c)' /\ ~Calling(c, "create", "version")'
    BY <1>a DEF Renewing, Calling, NoCall
  <2>4. HoldsState(c)'
    BY <1>0, <1>a, <2>2 DEF HoldsState, In
  <2>3. QED
    BY <1>o, <1>a, <2>1, <2>4, OrderKept
\* The same without a call.
<1>b. ASSUME NEW c \in Callers, NEW kind \in FlowKinds \ {"revoke"},
             NEW at \in {"load", "run", "report", "update", "conclude"},
             In(c, kind, at), kind # "import" \/ at # "update", UNCHANGED secretsVars,
             session'.secret = session.secret,
             session'.status = session.status \/ (session'.status # "revoked" /\ session.status # "revoked"),
             \/ Finished(c)
             \/ kind # "import" /\ \E s \in {"update", "conclude"} : FlowTo(c, s)
             \/ kind # "import" /\ Reads(c, "report", session.secret)
      PROVE  Orderly'
  <2>1. /\ flow[c] # NoFlow /\ flow[c].kind = kind /\ flow[c].at = at /\ ~In(c, "revoke", "delete")
        /\ ~In(c, "import", "create") /\ ~In(c, "import", "update")
    BY <1>b, <1>s DEF In
  <2>2. call[c] = NoCall /\ call' = call /\ sstatus' = sstatus /\ versions' = versions
    BY <1>b, <2>1, Between DEF secretsVars, store
  <2>3. CASE Finished(c)
    BY <1>0, <1>a, <1>b, <2>1, <2>2, <2>3, FlowEnds
  <2>4. ASSUME kind # "import", NEW s \in {"update", "conclude"}, FlowTo(c, s) PROVE Orderly'
    <3>1. flow'[c].kind = kind /\ flow'[c].at = s /\ \A d \in Callers \ {c} : flow'[d] = flow[d]
      BY <1>0, <1>f, <2>1, <2>4, Walking
    <3>2. kind \in {"attest", "expire", "check"} /\ s # "store" /\ s # "report"
      BY <1>f, <2>4
    <3>3. QED
      BY <1>a, <1>b, <2>1, <2>2, <3>1, <3>2
  <2>5. CASE kind # "import" /\ Reads(c, "report", session.secret)
    <3>1. /\ flow'[c].kind = kind /\ flow'[c].at = "report" /\ flow'[c].secret = session.secret
          /\ \A d \in Callers \ {c} : flow'[d] = flow[d]
      BY <1>0, <1>f, <2>1, <2>5, Reading
    <3>2. kind \in {"attest", "expire", "check"}
      BY <1>f, <2>5
    <3>3. QED
      BY <1>a, <1>b, <2>1, <2>2, <3>1, <3>2
  <2>6. QED
    BY <1>b, <2>3, <2>4, <2>5
\* A write of the session that succeeds.
<1>c. ASSUME NEW c \in Callers, flow[c] # NoFlow, NEW new, NEW at \in FlowSteps, WriteSession(c, new, at)
      PROVE  /\ session' = new /\ Guarded(new)
             /\ flow'[c].kind = flow[c].kind /\ flow'[c].at = at /\ flow'[c].secret = flow[c].secret
             /\ flow'[c] # NoFlow /\ \A d \in Callers \ {c} : flow'[d] = flow[d]
  BY <1>0, <1>o, <1>c, Written
\* A write of an attestation, a report or the sweep.
<1>d. ASSUME NEW c \in Callers, NEW kind \in {"attest", "expire", "check"}, NEW at \in {"update", "report"},
             In(c, kind, at), UNCHANGED secretsVars, NEW new, new.secret = session.secret,
             new.status = session.status \/ new.status # "revoked", WriteSession(c, new, "conclude")
      PROVE  Orderly'
  <2>1. /\ flow[c] # NoFlow /\ flow[c].kind = kind /\ flow[c].at = at /\ ~In(c, "revoke", "delete")
        /\ ~In(c, "import", "create") /\ ~In(c, "import", "update")
    BY <1>d, <1>s, <1>f DEF In
  <2>2. call[c] = NoCall /\ call' = call /\ sstatus' = sstatus /\ versions' = versions
    BY <1>d, <2>1, Between DEF secretsVars, store
  <2>3. /\ session' = new /\ Guarded(new) /\ flow'[c].kind = kind /\ flow'[c].at = "conclude"
        /\ \A d \in Callers \ {c} : flow'[d] = flow[d]
    BY <1>c, <1>d, <1>f, <2>1
  <2>4. session'.status = session.status \/ (session'.status # "revoked" /\ session.status # "revoked")
    BY <1>d, <2>3 DEF Guarded
  <2>5. QED
    BY <1>a, <1>d, <2>1, <2>2, <2>3, <2>4
\* A call that ends, its flow with it or going on to a step that does not matter.
<1>e. ASSUME NEW c \in Callers, flow[c].kind = "check", flow[c] # NoFlow, ReturnCall(c), session' = session,
             Finished(c) \/ FlowTo(c, "run")
      PROVE  Orderly'
  <2>1. /\ call'[c] = NoCall /\ sstatus' = sstatus /\ versions' = versions
        /\ \A d \in Callers \ {c} : call'[d] = call[d]
    BY <1>e, Back
  <2>2. /\ \A d \in Callers \ {c} : flow'[d] = flow[d]
        /\ flow'[c] = NoFlow \/ (flow'[c].kind = "check" /\ flow'[c].at = "run")
    BY <1>0, <1>e, <1>f, FlowEnds, Walking
  <2>3. ~In(c, "import", "create") /\ ~In(c, "import", "update") /\ ~In(c, "revoke", "delete")
    BY <1>e DEF In
  <2>4. QED
    BY <1>a, <1>e, <2>1, <2>2, <2>3
<1>1. CASE UNCHANGED <<secretsVars, sessionVars>>
  BY <1>o, <1>1 DEF Orderly, Apart, StoresAlone, Storer, Revoker, ReadsHold, HoldsState, Renewing, Calling, NoOrphans,
                    Brings, Gone, Destroyed, StateGoes, DeletesShredded, Shredded, In, secretsVars, store, sessionVars
<1>2. ASSUME NEW c \in Callers, NEW kind \in FlowKinds, StartFlow(c, kind) PROVE Orderly'
  <2>1. /\ flow'[c] = [kind |-> kind, at |-> "load", secret |-> NoSecret] /\ flow[c] = NoFlow
        /\ \A d \in Callers \ {c} : flow'[d] = flow[d]
        /\ call' = call /\ call[c] = NoCall /\ sstatus' = sstatus /\ versions' = versions /\ session' = session
    BY <1>0, <1>2 DEF StartFlow, Idle, secretsVars, store
  <2>2. ~In(c, "import", "create") /\ ~In(c, "import", "update") /\ ~In(c, "revoke", "delete")
    BY <1>0, <2>1 DEF In
  <2>3. QED
    BY <1>a, <1>f, <2>1, <2>2
<1>3. ASSUME NEW c \in Callers, LoadToImport(c) PROVE Orderly'
  <2>1. /\ In(c, "import", "load") /\ flow[c] # NoFlow /\ session' = session /\ flow[c].kind = "import"
        /\ flow[c].at = "load" /\ flow[c].secret = NoSecret /\ call[c] = NoCall
        /\ sstatus' = sstatus /\ versions' = versions
        /\ ~In(c, "import", "create") /\ ~In(c, "import", "update") /\ ~In(c, "revoke", "delete")
    BY <1>3, <1>f, <1>p, <1>s, Between DEF LoadToImport, In, DeletesOk, store
  <2>2. CASE Finished(c) /\ UNCHANGED <<call, overlapped>>
    BY <1>3, <1>b, <1>f, <2>1, <2>2 DEF LoadToImport, secretsVars
  <2>3. CASE session.status # "revoked" /\ session.secret = NoSecret /\ FlowTo(c, "create")
             /\ Overlap(c, FALSE) /\ UNCHANGED call
    <3>1. /\ flow'[c].kind = "import" /\ flow'[c].at = "create" /\ flow'[c].secret = NoSecret
          /\ \A d \in Callers \ {c} : flow'[d] = flow[d]
      BY <1>0, <1>f, <2>1, <2>3, Walking
    <3>2. \A d \in Callers \ {c} : ~Storer(d) /\ ~Revoker(d)
      BY <1>o, <2>3, BeginsAlone
    <3>3. HoldsState(c)' /\ ~Revoker(c)'
      BY <2>1, <2>3, <3>1 DEF HoldsState, Renewing, Calling, NoCall, Revoker, In
    <3>4. QED
      BY <1>o, <2>1, <2>3, <3>1, <3>2, <3>3, OrderKept
  <2>4. CASE session.status # "revoked" /\ session.secret # NoSecret
             /\ Begin(c, "rotate", "load", session.secret)
             /\ Reads(c, "store", session.secret) /\ Overlap(c, FALSE)
    <3>1. /\ flow'[c].kind = "import" /\ flow'[c].at = "store" /\ flow'[c].secret = session.secret
          /\ \A d \in Callers \ {c} : flow'[d] = flow[d]
      BY <1>0, <1>f, <2>1, <2>4, Reading
    <3>2. \A d \in Callers \ {c} : ~Storer(d) /\ ~Revoker(d)
      BY <1>o, <2>4, BeginsAlone
    <3>3. /\ call'[c] # NoCall /\ call'[c].op = "rotate" /\ call'[c].at = "load"
          /\ \A d \in Callers \ {c} : call'[d] = call[d]
      <4>1. session.secret \in SecretIds /\ "rotate" \in Operations
        BY <1>0, <2>4 DEF Operations
      <4>2. QED
        BY <2>4, <4>1, Begun
    <3>4. HoldsState(c)' /\ ~Revoker(c)'
      BY <2>1, <3>1, <3>3 DEF HoldsState, Renewing, Calling, Revoker, In
    <3>5. QED
      BY <1>o, <2>1, <2>4, <3>1, <3>2, <3>3, <3>4, OrderKept
  <2>5. QED
    BY <1>3, <2>2, <2>3, <2>4 DEF LoadToImport, Reads
<1>4. ASSUME NEW c \in Callers, Rotated(c) PROVE Orderly'
  <2>1. /\ In(c, "import", "store") /\ flow[c] # NoFlow /\ ReturnCall(c) /\ session' = session
        /\ flow[c].kind = "import" /\ flow[c].at = "store" /\ Storer(c) /\ flow[c].secret = session.secret
    BY <1>4, <1>f, <1>p, <1>s DEF Rotated, Returned, Storer, ReadsHold, HoldsState
  <2>2. /\ call'[c] = NoCall /\ call[c] # NoCall /\ sstatus' = sstatus /\ versions' = versions
        /\ \A d \in Callers \ {c} : call'[d] = call[d]
    BY <2>1, Back
  <2>3. call[c].secret = flow[c].secret /\ call[c].secret \in SecretIds
    BY <1>p, <2>1, <2>2 DEF CallsFit, CallFits, In, UseInv, SecretsInv, SecretsTypeOK, Calls
  <2>4. \/ FlowTo(c, "update")
        \/ FlowTo(c, "create") /\ call[c].at = "unavailable"
    BY <1>4, <1>o DEF Rotated, Returned
  <2>5. call[c].at = "unavailable" => Gone(session.secret)
    BY <1>p, <2>1, <2>2 DEF ReadsHold, HoldsState
  <2>6. /\ flow'[c].kind = "import" /\ flow'[c].secret = flow[c].secret
        /\ flow'[c].at = "update" \/ (flow'[c].at = "create" /\ Gone(session.secret))
        /\ \A d \in Callers \ {c} : flow'[d] = flow[d]
    <3>1. CASE FlowTo(c, "update")
      BY <1>0, <1>f, <2>1, <3>1, Walking
    <3>2. CASE FlowTo(c, "create") /\ call[c].at = "unavailable"
      BY <1>0, <1>f, <2>1, <2>5, <3>2, Walking
    <3>3. QED
      BY <2>4, <3>1, <3>2
  <2>7. \A d \in Callers \ {c} : ~Storer(d) /\ ~Revoker(d)
    BY <1>p, <2>1 DEF Apart, StoresAlone
  <2>8. flow[c].secret # NoSecret
    BY <2>3, SessionAssumption
  <2>9. Gone(session.secret)' <=> Gone(session.secret)
    BY <2>1, <2>2 DEF Gone, Destroyed, Shredded
  <2>10. HoldsState(c)' /\ ~Revoker(c)'
    BY <2>1, <2>2, <2>6, <2>8, <2>9 DEF HoldsState, Renewing, Calling, NoCall, Revoker, In
  <2>11. ~In(c, "import", "create") /\ ~In(c, "import", "update") /\ ~In(c, "revoke", "delete")
    BY <2>1 DEF In
  <2>12. QED
    BY <1>o, <2>1, <2>2, <2>6, <2>7, <2>10, <2>11, OrderKept
<1>5. ASSUME NEW c \in Callers, Create(c) PROVE Orderly'
  <2>1. PICK x \in SecretIds : Request(c, "create", x) /\ flow' = [flow EXCEPT ![c].secret = x]
    BY <1>5 DEF Create
  <2>2. /\ In(c, "import", "create") /\ flow[c] # NoFlow /\ flow[c].kind = "import" /\ flow[c].at = "create"
        /\ sstatus' = sstatus /\ versions' = versions /\ session' = session /\ Storer(c)
    BY <1>5, <1>s, <1>f DEF Create, In, store, Storer
  <2>3. Begin(c, "create", "insert", x) /\ "create" \in Operations
    BY <2>1 DEF Request, Operations
  <2>4. /\ call'[c] # NoCall /\ call'[c].op = "create" /\ call'[c].at = "insert" /\ call[c] = NoCall
        /\ \A d \in Callers \ {c} : call'[d] = call[d]
    BY <2>3, Begun
  <2>5. /\ flow'[c].kind = "import" /\ flow'[c].at = "create" /\ flow'[c].secret = x
        /\ \A d \in Callers \ {c} : flow'[d] = flow[d]
    BY <1>0, <2>1, <2>2, Choosing
  <2>6. flow[c].secret \in {NoSecret, session.secret} /\ (session.secret # NoSecret => Gone(session.secret)')
    BY <1>p, <2>2, <2>4 DEF ReadsHold, HoldsState, Gone, Destroyed, Shredded
  <2>7. \A d \in Callers \ {c} : ~Storer(d) /\ ~Revoker(d)
    BY <1>p, <2>2 DEF Apart, StoresAlone
  <2>8. HoldsState(c)' /\ ~Revoker(c)' /\ In(c, "import", "create")'
    BY <2>2, <2>4, <2>5, <2>6 DEF HoldsState, Renewing, Calling, Revoker, In
  <2>9. ~In(c, "revoke", "delete")
    BY <2>2 DEF In
  <2>10. QED
    BY <1>o, <2>2, <2>4, <2>5, <2>6, <2>7, <2>8, <2>9, OrderKept
<1>6. ASSUME NEW c \in Callers, Created(c) PROVE Orderly'
  <2>1. /\ In(c, "import", "create") /\ flow[c] # NoFlow /\ flow[c].kind = "import" /\ flow[c].at = "create"
        /\ Returned(c, "ok") /\ FlowTo(c, "update") /\ session' = session /\ Storer(c)
    BY <1>6, <1>f, <1>o, <1>s DEF Created, Storer, In
  <2>2. /\ call'[c] = NoCall /\ call[c] # NoCall /\ sstatus' = sstatus /\ versions' = versions
        /\ \A d \in Callers \ {c} : call'[d] = call[d]
    BY <2>1, Back DEF Returned
  <2>3. call[c].op = "create" /\ call[c].secret = flow[c].secret /\ call[c].secret \in SecretIds /\ call[c].at = "ok"
    BY <1>p, <2>1, <2>2 DEF CallsFit, CallFits, In, UseInv, SecretsInv, SecretsTypeOK, Calls, Returned
  <2>4. /\ flow'[c].kind = "import" /\ flow'[c].at = "update" /\ flow'[c].secret = flow[c].secret
        /\ \A d \in Callers \ {c} : flow'[d] = flow[d]
    BY <1>0, <1>f, <2>1, Walking
  <2>5. (session.secret # NoSecret => Gone(session.secret)') /\ flow[c].secret # NoSecret
    BY <1>p, <2>1, <2>2, <2>3, SessionAssumption DEF ReadsHold, HoldsState, Gone, Destroyed, Shredded
  <2>6. \A d \in Callers \ {c} : ~Storer(d) /\ ~Revoker(d)
    BY <1>p, <2>1 DEF Apart, StoresAlone
  <2>7. HoldsState(c)' /\ ~Revoker(c)' /\ In(c, "import", "update")' /\ ~In(c, "revoke", "delete")
    BY <2>1, <2>2, <2>4, <2>5 DEF HoldsState, Renewing, Calling, NoCall, Revoker, In
  <2>8. QED
    BY <1>o, <2>1, <2>2, <2>4, <2>6, <2>7, OrderKept
<1>7. ASSUME NEW c \in Callers, PointToState(c) PROVE Orderly'
  <2> DEFINE new == [session EXCEPT !.secret = flow[c].secret, !.status = "unverified"]
  <2>1. /\ In(c, "import", "update") /\ flow[c] # NoFlow /\ UNCHANGED secretsVars
        /\ WriteSession(c, new, "conclude") /\ flow[c].kind = "import"
    BY <1>7, <1>s, <1>f DEF PointToState, In
  <2>2. new.secret = flow[c].secret /\ new.status = "unverified"
    BY <1>0 DEF Sessions
  <2> HIDE DEF new
  <2>3. /\ session' = new /\ flow'[c].kind = "import" /\ flow'[c].at = "conclude"
        /\ \A d \in Callers \ {c} : flow'[d] = flow[d]
    BY <1>c, <1>f, <2>1
  <2>4. QED
    BY <1>o, <2>1, <2>2, <2>3, OrderPointed
<1>8. ASSUME NEW c \in Callers, Conclude(c) PROVE Orderly'
  <2>1. /\ flow[c] # NoFlow /\ flow[c].at = "conclude" /\ Finished(c) /\ UNCHANGED secretsVars
        /\ session' = session
    BY <1>8 DEF Conclude
  <2>2. call[c] = NoCall /\ call' = call /\ sstatus' = sstatus /\ versions' = versions
    BY <2>1, Between DEF secretsVars, store
  <2>3. ~In(c, "import", "create") /\ ~In(c, "import", "update") /\ ~In(c, "revoke", "delete")
    BY <2>1 DEF In
  <2>4. QED
    BY <1>0, <1>a, <2>1, <2>2, <2>3, FlowEnds
<1>9. ASSUME NEW c \in Callers, BeginRevocation(c) PROVE Orderly'
  <2>1. /\ In(c, "revoke", "load") /\ flow[c] # NoFlow /\ flow[c].kind = "revoke" /\ flow[c].at = "load"
        /\ UNCHANGED secretsVars /\ session' = session
        /\ ~In(c, "import", "create") /\ ~In(c, "import", "update") /\ ~In(c, "revoke", "delete")
    BY <1>9, <1>s, <1>f DEF BeginRevocation, In
  <2>2. call[c] = NoCall /\ call' = call /\ sstatus' = sstatus /\ versions' = versions
    BY <2>1, Between DEF secretsVars, store
  <2>3. CASE Finished(c)
    BY <1>0, <1>a, <2>1, <2>2, <2>3, FlowEnds
  <2>4. CASE Reads(c, "update", session.secret) /\ Overlap(c, TRUE)
    <3>1. /\ flow'[c].kind = "revoke" /\ flow'[c].at = "update" /\ flow'[c].secret = session.secret
          /\ \A d \in Callers \ {c} : flow'[d] = flow[d]
      BY <1>0, <1>f, <2>1, <2>4, Reading
    <3>2. \A d \in Callers \ {c} : ~Storer(d)
      BY <1>o, <2>4, BeginsAlone
    <3>3. HoldsState(c)' /\ ~Storer(c)'
      BY <2>1, <2>2, <3>1 DEF HoldsState, Renewing, Calling, NoCall, Storer, In
    <3>4. QED
      BY <1>o, <2>1, <2>2, <3>1, <3>2, <3>3, OrderKept
  <2>5. QED
    BY <1>9, <2>3, <2>4 DEF BeginRevocation, Reads
<1>10. ASSUME NEW c \in Callers, MarkRevoked(c) PROVE Orderly'
  <2> DEFINE new == [session EXCEPT !.status = "revoked"]
             at  == IF flow[c].secret = NoSecret THEN "conclude" ELSE "delete"
  <2>1. /\ In(c, "revoke", "update") /\ flow[c] # NoFlow /\ flow[c].kind = "revoke" /\ flow[c].at = "update"
        /\ UNCHANGED secretsVars /\ WriteSession(c, new, at)
        /\ ~In(c, "import", "create") /\ ~In(c, "import", "update") /\ ~In(c, "revoke", "delete")
        /\ Revoker(c) /\ flow[c].secret = session.secret
    BY <1>10, <1>s, <1>f, <1>p DEF MarkRevoked, In, Revoker, ReadsHold, HoldsState
  <2>2. new.secret = session.secret /\ new.status = "revoked" /\ at \in FlowSteps
        /\ at \in {"conclude", "delete"} /\ (session.secret # NoSecret => at = "delete")
    BY <1>0, <1>f, <2>1 DEF Sessions
  <2> HIDE DEF new, at
  <2>3. /\ session' = new /\ flow'[c].kind = "revoke" /\ flow'[c].at = at /\ flow'[c].secret = flow[c].secret
        /\ \A d \in Callers \ {c} : flow'[d] = flow[d]
    BY <1>c, <2>1, <2>2
  <2>4. call[c] = NoCall /\ call' = call /\ sstatus' = sstatus /\ versions' = versions
    BY <2>1, Between DEF secretsVars, store
  <2>5. \A d \in Callers \ {c} : ~Storer(d)
    BY <1>p, <2>1 DEF Apart, StoresAlone
  <2>6. HoldsState(c)' /\ ~Storer(c)' /\ (session.secret # NoSecret => In(c, "revoke", "delete")')
    BY <2>1, <2>2, <2>3, <2>4 DEF HoldsState, Renewing, Calling, NoCall, Storer, In
  <2>7. QED
    BY <1>o, <2>1, <2>2, <2>3, <2>4, <2>5, <2>6, OrderKept
<1>11. ASSUME NEW c \in Callers, DeleteState(c) PROVE Orderly'
  <2>1. /\ In(c, "revoke", "delete") /\ flow[c] # NoFlow /\ flow[c].kind = "revoke" /\ flow[c].at = "delete"
        /\ session' = session /\ flow[c].secret \in SecretIds /\ flow[c].secret = session.secret
        /\ ~In(c, "import", "create") /\ ~In(c, "import", "update") /\ Revoker(c)
    BY <1>11, <1>s, <1>f, <1>p DEF DeleteState, In, Revoker, ReadsHold, HoldsState, DeletesOk, Flows
  <2>2. \A d \in Callers \ {c} : ~Storer(d)
    BY <1>p, <2>1 DEF Apart, StoresAlone
  <2>3. CASE Begin(c, ShredWith, "load", flow[c].secret) /\ UNCHANGED <<store, kek, faulted, flow, missed>>
    <3>1. /\ call'[c] # NoCall /\ call'[c].op = "delete" /\ call'[c].at = "load"
          /\ \A d \in Callers \ {c} : call'[d] = call[d]
      <4>1. "delete" \in Operations
        BY DEF Operations
      <4>2. QED
        BY <2>1, <2>3, <4>1, Begun DEF ShredWith
    <3>2. HoldsState(c)' /\ ~Storer(c)' /\ In(c, "revoke", "delete")'
      BY <2>1, <2>3, <3>1 DEF HoldsState, Renewing, Calling, Storer, In
    <3>3. sstatus' = sstatus /\ versions' = versions /\ flow' = flow
      BY <2>3 DEF store
    <3>4. QED
      BY <1>o, <2>1, <2>2, <3>1, <3>2, <3>3, OrderKept
  <2>4. CASE Returned(c, "ok") /\ FlowTo(c, "conclude")
    <3>1. /\ call'[c] = NoCall /\ call[c] # NoCall /\ sstatus' = sstatus /\ versions' = versions
          /\ \A d \in Callers \ {c} : call'[d] = call[d]
      BY <2>4, Back DEF Returned
    <3>2. call[c].op = "delete" /\ call[c].secret = flow[c].secret /\ call[c].at = "ok"
      BY <1>p, <2>1, <2>4, <3>1 DEF CallsFit, CallFits, In, Returned
    <3>3. Destroyed(session.secret)
      BY <1>p, <2>1, <3>1, <3>2 DEF DeletesShredded, Destroyed
    <3>4. /\ flow'[c].kind = "revoke" /\ flow'[c].at = "conclude"
          /\ \A d \in Callers \ {c} : flow'[d] = flow[d]
      BY <1>0, <1>f, <2>1, <2>4, Walking
    <3>5. HoldsState(c)' /\ ~Storer(c)'
      BY <3>1, <3>4 DEF HoldsState, Renewing, Calling, NoCall, Storer, In
    <3>6. QED
      BY <1>o, <2>1, <2>2, <3>1, <3>3, <3>4, <3>5, OrderKept
  <2>5. QED
    BY <1>11, <1>o, <2>3, <2>4 DEF DeleteState
<1>12. ASSUME NEW c \in Callers, LoadToAttest(c) PROVE Orderly'
  BY <1>12, <1>b, <1>f DEF LoadToAttest
<1>13. ASSUME NEW c \in Callers, Attest(c) PROVE Orderly'
  <2>1. PICK b \in BOOLEAN : WriteSession(c, [session EXCEPT !.attested = b], "conclude")
    BY <1>13 DEF Attest
  <2> DEFINE new == [session EXCEPT !.attested = b]
  <2>2. In(c, "attest", "update") /\ UNCHANGED secretsVars /\ new.secret = session.secret /\ new.status = session.status
    BY <1>0, <1>13 DEF Attest, Sessions
  <2> HIDE DEF new
  <2>3. WriteSession(c, new, "conclude")
    BY <2>1 DEF new
  <2>4. QED
    BY <1>d, <2>2, <2>3
<1>14. ASSUME NEW c \in Callers, Lease(c) PROVE Orderly'
  <2>1. /\ In(c, "check", "load") /\ flow[c] # NoFlow /\ flow[c].kind = "check" /\ flow[c].at = "load"
        /\ session' = session /\ UNCHANGED <<store, kek, faulted>>
        /\ ~In(c, "import", "create") /\ ~In(c, "import", "update") /\ ~In(c, "revoke", "delete")
    BY <1>14, <1>s, <1>f DEF Lease, In
  <2>2. CASE Finished(c) /\ UNCHANGED call
    BY <1>b, <1>f, <2>1, <2>2 DEF secretsVars
  <2>3. CASE session.secret # NoSecret /\ Begin(c, "resolve", "load", session.secret) /\ FlowTo(c, "resolve")
    <3>1. /\ flow'[c].kind = "check" /\ flow'[c].at = "resolve" /\ \A d \in Callers \ {c} : flow'[d] = flow[d]
      BY <1>0, <1>f, <2>1, <2>3, Walking
    <3>2. /\ call'[c].op = "resolve" /\ call'[c].at = "load" /\ \A d \in Callers \ {c} : call'[d] = call[d]
      <4>1. session.secret \in SecretIds /\ "resolve" \in Operations
        BY <1>0, <2>3 DEF Operations
      <4>2. QED
        BY <2>3, <4>1, Begun
    <3>3. sstatus' = sstatus /\ versions' = versions
      BY <2>1 DEF store
    <3>4. QED
      BY <1>a, <2>1, <3>1, <3>2, <3>3
  <2>4. QED
    BY <1>14, <2>2, <2>3 DEF Lease
<1>15. ASSUME NEW c \in Callers, Leased(c) PROVE Orderly'
  BY <1>15, <1>e, <1>f, <1>s DEF Leased, Returned
<1>16. ASSUME NEW c \in Callers, Report(c) PROVE Orderly'
  BY <1>16, <1>b, <1>f DEF Report, Reads
<1>17. ASSUME NEW c \in Callers, Record(c) PROVE Orderly'
  <2>1. /\ In(c, "check", "report") /\ flow[c] # NoFlow /\ flow[c].kind = "check" /\ flow[c].at = "report"
        /\ UNCHANGED secretsVars
    BY <1>17, <1>s, <1>f DEF Record
  <2>2. CASE WriteSession(c, [session EXCEPT !.status = "human"], "conclude")
    <3> DEFINE new == [session EXCEPT !.status = "human"]
    <3>1. new.secret = session.secret /\ new.status # "revoked"
      BY <1>0 DEF Sessions
    <3> HIDE DEF new
    <3>2. WriteSession(c, new, "conclude")
      BY <2>2 DEF new
    <3>3. QED
      BY <1>d, <2>1, <3>1, <3>2
  <2>3. CASE /\ WriteSession(c, [session EXCEPT !.status = "usable"], "store")
             /\ IF flow'[c] # NoFlow THEN Overlap(c, FALSE) ELSE UNCHANGED overlapped
    <3> DEFINE new == [session EXCEPT !.status = "usable"]
    <3>1. new.secret = session.secret /\ new.status = "usable" /\ WriteSession(c, new, "store")
      BY <1>0, <2>3 DEF Sessions
    <3> HIDE DEF new
    <3>2. /\ session' = new /\ Guarded(new) /\ flow'[c] # NoFlow
          /\ flow'[c].kind = "check" /\ flow'[c].at = "store" /\ flow'[c].secret = flow[c].secret
          /\ \A d \in Callers \ {c} : flow'[d] = flow[d]
      BY <1>c, <1>f, <2>1, <3>1
    <3>3. session.status # "revoked" /\ session'.status # "revoked" /\ session'.secret = session.secret
      BY <3>1, <3>2 DEF Guarded
    <3>4. \A d \in Callers \ {c} : ~Storer(d) /\ ~Revoker(d)
      BY <1>o, <2>3, <3>2, BeginsAlone
    <3>5. call[c] = NoCall /\ call' = call /\ sstatus' = sstatus /\ versions' = versions
      BY <2>1, Between DEF secretsVars, store
    <3>6. /\ HoldsState(c)' /\ ~Revoker(c)'
          /\ ~In(c, "import", "create") /\ ~In(c, "import", "update") /\ ~In(c, "revoke", "delete")
      BY <2>1, <3>2, <3>5 DEF HoldsState, Renewing, Calling, NoCall, Revoker, In
    <3>7. QED
      BY <1>o, <3>2, <3>3, <3>4, <3>5, <3>6, OrderKept
  <2>4. QED
    BY <1>17, <2>2, <2>3 DEF Record
<1>18. ASSUME NEW c \in Callers, Refresh(c) PROVE Orderly'
  <2>1. /\ In(c, "check", "store") /\ flow[c] # NoFlow /\ flow[c].kind = "check" /\ flow[c].at = "store"
        /\ session' = session /\ Storer(c) /\ flow[c].secret \in SecretIds \cup {NoSecret}
        /\ ~In(c, "import", "create") /\ ~In(c, "import", "update") /\ ~In(c, "revoke", "delete")
    BY <1>18, <1>s, <1>f DEF Refresh, In, Storer, Flows
  <2>2. CASE flow[c].secret # NoSecret /\ Begin(c, "rotate", "load", flow[c].secret)
             /\ UNCHANGED <<store, kek, faulted, flow>>
    <3>1. /\ call'[c] # NoCall /\ call'[c].op = "rotate" /\ call'[c].at = "load"
          /\ \A d \in Callers \ {c} : call'[d] = call[d]
      <4>1. flow[c].secret \in SecretIds /\ "rotate" \in Operations
        BY <2>1, <2>2 DEF Operations
      <4>2. QED
        BY <2>2, <4>1, Begun
    <3>2. sstatus' = sstatus /\ versions' = versions /\ flow' = flow
      BY <2>2 DEF store
    <3>3. \A d \in Callers \ {c} : ~Storer(d) /\ ~Revoker(d)
      BY <1>p, <2>1 DEF Apart, StoresAlone
    <3>4. HoldsState(c)' /\ ~Revoker(c)'
      BY <2>1, <3>1, <3>2 DEF HoldsState, Renewing, Calling, Revoker, In
    <3>5. QED
      BY <1>o, <2>1, <3>1, <3>2, <3>3, <3>4, OrderKept
  <2>3. CASE Idle(c) /\ Finished(c) /\ UNCHANGED secretsVars
    BY <1>0, <1>a, <2>1, <2>3, FlowEnds DEF secretsVars, store, Idle
  <2>4. CASE ReturnCall(c) /\ Finished(c)
    BY <1>e, <2>1, <2>4
  <2>5. QED
    BY <1>18, <2>2, <2>3, <2>4 DEF Refresh
<1>19. ASSUME NEW c \in Callers, Expire(c) PROVE Orderly'
  BY <1>19, <1>b, <1>f DEF Expire
<1>20. ASSUME NEW c \in Callers, Expired(c) PROVE Orderly'
  <2> DEFINE new == [session EXCEPT !.status = "human"]
  <2>1. /\ In(c, "expire", "update") /\ UNCHANGED secretsVars /\ WriteSession(c, new, "conclude")
        /\ new.secret = session.secret /\ new.status # "revoked"
    BY <1>0, <1>20 DEF Expired, Sessions
  <2> HIDE DEF new
  <2>2. QED
    BY <1>d, <2>1
<1>21. ASSUME NEW c \in Callers, Drop(c) PROVE Orderly'
  <2>1. /\ flow[c] # NoFlow /\ Finished(c) /\ session' = session /\ call[c] = NoCall /\ UNCHANGED secretsVars
        /\ flow[c].kind \notin {"import", "revoke"}
    <3>1. Idle(c) /\ flow[c].kind \notin {"import", "revoke"}
      BY <1>21, <1>o DEF Drop
    <3>2. ~Abandon(c) /\ ~ReturnCall(c)
      BY <3>1 DEF Abandon, ReturnCall, Ended
    <3>3. QED
      BY <1>21, <3>1, <3>2 DEF Drop, Idle
  <2>2. ~In(c, "import", "create") /\ ~In(c, "import", "update") /\ ~In(c, "revoke", "delete")
    BY <2>1 DEF In
  <2>3. QED
    BY <1>0, <1>a, <2>1, <2>2, FlowEnds DEF secretsVars, store
<1>22. ASSUME NEW c \in Callers, SecretStep(c), UNCHANGED sessionVars PROVE Orderly'
  BY <1>22, <1>o, OrderStore
<1>25. ASSUME NEW c \in Callers, PageRequest(c) PROVE Orderly'
  <2>1. PICK op \in PageOps, x \in SecretIds :
          /\ Request(c, op, x)
          /\ flow' = [flow EXCEPT ![c] = [kind |-> "page", at |-> op, secret |-> x]]
          /\ IF op = "revoke" THEN UNCHANGED overlapped ELSE Overlap(c, op = "delete")
    BY <1>25 DEF PageRequest
  <2>2. /\ sstatus' = sstatus /\ versions' = versions /\ session' = session /\ flow[c] = NoFlow
        /\ Begin(c, op, "load", x) /\ op \in Operations
    BY <1>25, <2>1 DEF PageRequest, Request, PageOps, Operations, store
  <2>3. /\ call'[c] # NoCall /\ call'[c].op = op /\ call'[c].at = "load"
        /\ \A d \in Callers \ {c} : call'[d] = call[d]
    BY <2>2, Begun
  <2>4. /\ flow'[c].kind = "page" /\ flow'[c].at = op
        /\ \A d \in Callers \ {c} : flow'[d] = flow[d]
    BY <1>0, <2>1
  <2>5. ~In(c, "import", "create") /\ ~In(c, "import", "update") /\ ~In(c, "revoke", "delete")
    BY <1>0, <2>2 DEF In
  <2>6. HoldsState(c)'
    BY <2>3, <2>4 DEF HoldsState, Renewing, Calling, In
  <2>7. CASE op = "revoke"
    BY <1>a, <2>2, <2>3, <2>4, <2>5, <2>7
  <2>8. CASE op = "rotate"
    <3>1. \A d \in Callers \ {c} : ~Storer(d) /\ ~Revoker(d)
      BY <1>o, <2>1, <2>8, BeginsAlone
    <3>2. ~Revoker(c)'
      BY <2>4, <2>8 DEF Revoker, In
    <3>3. QED
      BY <1>o, <2>2, <2>3, <2>4, <2>5, <2>6, <3>1, <3>2, OrderKept
  <2>9. CASE op = "delete"
    <3>1. \A d \in Callers \ {c} : ~Storer(d)
      BY <1>o, <2>1, <2>9, BeginsAlone
    <3>2. ~Storer(c)'
      BY <2>4, <2>9 DEF Storer, In
    <3>3. QED
      BY <1>o, <2>2, <2>3, <2>4, <2>5, <2>6, <3>1, <3>2, OrderKept
  <2>10. QED
    BY <2>7, <2>8, <2>9 DEF PageOps
<1>26. ASSUME NEW c \in Callers, PageReturns(c) PROVE Orderly'
  <2>1. /\ flow[c] # NoFlow /\ flow[c].kind = "page" /\ Finished(c) /\ ReturnCall(c) /\ session' = session
        /\ ~In(c, "import", "create") /\ ~In(c, "import", "update") /\ ~In(c, "revoke", "delete")
    BY <1>0, <1>26 DEF PageReturns, In
  <2>2. /\ call'[c] = NoCall /\ sstatus' = sstatus /\ versions' = versions
        /\ \A d \in Callers \ {c} : call'[d] = call[d]
    BY <2>1, Back
  <2>3. QED
    BY <1>0, <1>a, <2>1, <2>2, FlowEnds
<1>23. ASSUME NEW c \in Callers, SessionStep(c) PROVE Orderly'
  BY <1>3, <1>4, <1>5, <1>6, <1>7, <1>8, <1>9, <1>10, <1>11, <1>12, <1>13, <1>14, <1>15, <1>16, <1>17,
     <1>18, <1>19, <1>20, <1>22, <1>23, <1>26 DEF SessionStep
<1>24. QED
  BY <1>1, <1>2, <1>21, <1>23, <1>25 DEF SessionNext

(* The theorems. *)

\* What the flows and the store know of each other, and the order of a calm run.
SessionInv == UseInv /\ UndisturbedInv

LEMMA SessionStart ==
  ASSUME SessionInit
  PROVE  SessionInv
<1>1. /\ \A c \in Callers : call[c] = NoCall /\ flow[c] = NoFlow
      /\ \A x \in SecretIds : sstatus[x] = "absent" /\ \A n \in Numbers : ~versions[x][n].held
      /\ session = [status |-> "human", secret |-> NoSecret, attested |-> FALSE]
      /\ NoFlow.kind = "none"
  BY DEF SessionInit, SecretsInit, NoRow, NoFlow
<1>2. FlowsTyped
  BY DEF SessionInit, FlowsTyped, Sessions, SessionStatuses
<1>3. FitInv
  BY <1>1 DEF FitInv, CallsFit, CallFits, CreatesOk, Creating, KnownOk, PointsAt, Leads, DeletesOk, In
<1>4. UndisturbedInv
  BY <1>1 DEF UndisturbedInv, Orderly, Apart, StoresAlone, Storer, Revoker, ReadsHold, HoldsState, Renewing, Calling,
              NoCall, NoOrphans, Gone, Destroyed, StateGoes, DeletesShredded, Shredded, In
<1>5. QED
  BY <1>2, <1>3, <1>4, SecretsInvInit DEF SessionInv, UseInv, SessionInit

LEMMA SessionInvStep ==
  ASSUME SessionInv, [SessionNext]_<<secretsVars, sessionVars>>
  PROVE  SessionInv'
<1>1. UseInv /\ UndisturbedInv
  BY DEF SessionInv
<1>2. SecretsInv'
  BY <1>1, StoreUsed, StepInv DEF UseInv
<1>3. FlowsTyped'
  BY <1>1, SessionMoves DEF UseInv, FlowsTyped, Safe
<1>4. QED
  BY <1>1, <1>2, <1>3, FitStep, UndisturbedStep DEF SessionInv, UseInv

\* The flows of lib/browser-sessions/service.ts and the secrets they point at fit together at
\* every step, whatever the owner does on the Secrets page; and in a run where no flow stores
\* beside another that stores or shreds, and none fails, what a flow read is still so when it
\* uses it.
THEOREM SessionsInvariant == SessionSpec => []SessionInv
<1>1. SessionInit => SessionInv
  BY SessionStart
<1>2. SessionInv /\ [SessionNext]_<<secretsVars, sessionVars>> => SessionInv'
  BY SessionInvStep
<1>3. QED
  BY <1>1, <1>2, PTL DEF SessionSpec

\* The flows use the secret store as its own specification lets any caller: they create
\* fresh secrets and rotate, resolve and delete only secrets that exist.
THEOREM SessionsUseStore == SessionSpec => SecretsSpec
<1>1. SessionInit => SecretsInit
  BY DEF SessionInit
<1>2. SessionInv /\ [SessionNext]_<<secretsVars, sessionVars>> => [SecretsNext]_secretsVars
  BY StoreUsed DEF SessionInv
<1>3. QED
  BY <1>1, <1>2, SessionsInvariant, PTL DEF SessionSpec, SecretsSpec

\* Sessions, flows and the store below them are well typed.
THEOREM SessionsTypeCorrect == SessionSpec => []SessionTypeOK
<1> DEFINE Counted == flows \in 0..MaxFlows /\ overlapped \in BOOLEAN /\ missed \in BOOLEAN
<1>1. SessionInit => Counted
  <2>1. SessionInit => flows = 0 /\ overlapped \in BOOLEAN /\ missed \in BOOLEAN
    BY DEF SessionInit
  <2>2. 0 \in 0..MaxFlows
    BY SessionAssumption
  <2>3. QED
    BY <2>1, <2>2
<1>2. Counted /\ [SessionNext]_<<secretsVars, sessionVars>> => Counted'
  <2> SUFFICES ASSUME Counted, [SessionNext]_<<secretsVars, sessionVars>> PROVE Counted'
    OBVIOUS
  <2>1. CASE UNCHANGED <<secretsVars, sessionVars>>
    BY <2>1 DEF sessionVars
  <2>2. ASSUME NEW c \in Callers, NEW kind \in FlowKinds, StartFlow(c, kind) PROVE Counted'
    BY <2>2, SessionAssumption DEF StartFlow
  <2>3. ASSUME NEW c \in Callers, NEW new, NEW at, WriteSession(c, new, at) PROVE missed' \in BOOLEAN
    BY <2>3 DEF WriteSession
  <2>4. ASSUME NEW c \in Callers, NEW r, Overlap(c, r) PROVE overlapped' \in BOOLEAN
    BY <2>4 DEF Overlap
  <2>5. ASSUME NEW c \in Callers, PointToState(c) \/ MarkRevoked(c) \/ Attest(c) \/ Record(c) \/ Expired(c)
        PROVE  Counted'
    BY <2>3, <2>4, <2>5 DEF PointToState, MarkRevoked, Attest, Record, Expired
  <2>6. ASSUME NEW c \in Callers, LoadToImport(c) \/ BeginRevocation(c) PROVE Counted'
    BY <2>4, <2>6 DEF LoadToImport, BeginRevocation
  <2>10. ASSUME NEW c \in Callers, PageRequest(c) PROVE Counted'
    <3>1. flows' \in 0..MaxFlows /\ missed' = missed
      BY <2>10, SessionAssumption DEF PageRequest
    <3>2. overlapped' \in BOOLEAN
      BY <2>4, <2>10 DEF PageRequest
    <3>3. QED
      BY <3>1, <3>2
  <2>7. ASSUME NEW c \in Callers,
               \/ Rotated(c) \/ Create(c) \/ Created(c) \/ DeleteState(c) \/ Conclude(c) \/ LoadToAttest(c)
               \/ Lease(c) \/ Leased(c) \/ Report(c) \/ Refresh(c) \/ Expire(c) \/ PageReturns(c)
               \/ UNCHANGED sessionVars
        PROVE  Counted'
    BY <2>7 DEF Rotated, Create, Created, DeleteState, Conclude, LoadToAttest, Lease, Leased, Report, Refresh,
                Expire, PageReturns, sessionVars
  <2>8. ASSUME NEW c \in Callers, Drop(c) PROVE Counted'
    <3>1. flows' = flows /\ overlapped' = overlapped
      BY <2>8 DEF Drop
    <3>2. missed' \in BOOLEAN
      BY <2>8 DEF Drop
    <3>3. QED
      BY <3>1, <3>2
  <2>9. QED
    BY <2>1, <2>2, <2>5, <2>6, <2>7, <2>8, <2>10 DEF SessionNext, SessionStep
<1>3. SessionInv /\ Counted => SessionTypeOK
  BY DEF SessionInv, UseInv, SecretsInv, FlowsTyped, Sessions, SessionTypeOK
<1>4. QED
  BY <1>1, <1>2, <1>3, SessionsInvariant, PTL DEF SessionSpec

\* Once a session is revoked and every flow is done, revokeBrowserSession has left no version
\* of the state the session points at, and nothing of the states it pointed at before but
\* those whose secrets the owner had revoked on the Secrets page; for any number of flows,
\* page requests and secrets, unless one stored beside another that stored or shredded, or
\* one failed or died.
THEOREM StateShredded == SessionSpec => []RevocationShreds
<1>1. ASSUME SessionInv PROVE RevocationShreds
  <2> SUFFICES ASSUME session.status = "revoked", Quiet, ~overlapped, ~missed, faulted = {}, NEW x \in SecretIds
               PROVE  Shredded(x) \/ (sstatus[x] = "revoked" /\ x # session.secret)
    BY DEF RevocationShreds
  <2>1. Orderly
    BY <1>1 DEF SessionInv, UndisturbedInv, Undisturbed
  <2>2. \A c \in Callers : flow[c].kind = "none"
    BY DEF Quiet, NoFlow
  <2>3. CASE x = session.secret
    BY <2>1, <2>2, <2>3, SessionAssumption DEF Orderly, StateGoes, Destroyed, In
  <2>4. CASE x # session.secret
    BY <2>1, <2>2, <2>4 DEF Orderly, NoOrphans, Gone, Destroyed, Brings, In
  <2>5. QED
    BY <2>3, <2>4
<1>2. SessionInv => RevocationShreds
  BY <1>1
<1>3. QED
  BY <1>2, SessionsInvariant, PTL

(***************************************************************************)
(* Artifacts.                                                              *)
(***************************************************************************)

\* Request r works on artifact a.
OfRequest(r, a) == req[r] # NoRequest /\ req[r].artifact = a

\* A row is inserted once: an id that is to be inserted has no row, and no other request.
InsertsAlone ==
  \A r \in Requests, a \in ArtifactIds : OfRequest(r, a) =>
    /\ ReqAt(r, "insert") <=> astatus[a] = "absent"
    /\ ReqAt(r, "insert") => \A q \in Requests : OfRequest(q, a) => q = r

\* Once an artifact is overdue no URL to write its object is left, nor will there be one.
NoUrlLeft ==
  \A a \in ArtifactIds : overdue[a] =>
    /\ astatus[a] # "absent" /\ url[a] # "live"
    /\ \A r \in Requests : OfRequest(r, a) => ~ReqAt(r, "insert") /\ ~ReqAt(r, "sign")

\* The sweep works on overdue artifacts; whose object it removed stays without one.
SweepsOverdue ==
  /\ \A a \in sweep.todo : overdue[a]
  /\ \A a \in sweep.removed \cup sweptAway : overdue[a] /\ object[a] = "none"

\* The sweep removes an object, writes its row, and goes on to the next.
OneAtATime == \A a \in sweep.removed, b \in sweep.removed : a = b

\* What AvailableIsStored demands.
Stored(a) == object[a] # "none" \/ BeingDeleted(a) \/ a \in halfDeleted

\* A verification that passed has seen the object.
SeenStored ==
  \A r \in Requests, a \in ArtifactIds :
    OfRequest(r, a) /\ ReqAt(r, "accept") /\ astatus[a] = "pending_upload" => Stored(a)

ArtifactsInv ==
  ArtifactsTypeOK /\ InsertsAlone /\ NoUrlLeft /\ SweepsOverdue /\ OneAtATime /\ SeenStored
  /\ AvailableIsStored

\* The request's handlers name their artifact.
LEMMA RequestTyped ==
  ASSUME ArtifactsTypeOK, NEW r \in Requests, req[r].at # "idle"
  PROVE  req[r] \in RequestRows /\ req[r].artifact \in ArtifactIds
BY DEF ArtifactsTypeOK, NoRequest, RequestRows

\* What a request's step leaves of its row and of the others.
LEMMA RequestMoves ==
  ASSUME ArtifactsTypeOK, NEW r \in Requests, req[r].at # "idle", NEW s \in RequestSteps, ReqTo(r, s)
  PROVE  /\ req'[r].at = s /\ req'[r].artifact = req[r].artifact /\ req'[r] \in RequestRows
         /\ \A q \in Requests \ {r} : req'[q] = req[q]
<1>1. req[r] \in RequestRows
  BY RequestTyped
<1>2. req'[r] = [req[r] EXCEPT !.at = s] /\ \A q \in Requests \ {r} : req'[q] = req[q]
  BY DEF ReqTo, ArtifactsTypeOK
<1>3. QED
  BY <1>1, <1>2 DEF RequestRows

\* A request that ends leaves the others alone.
LEMMA RequestEnds ==
  ASSUME ArtifactsTypeOK, NEW r \in Requests, EndRequest(r)
  PROVE  req'[r] = NoRequest /\ \A q \in Requests \ {r} : req'[q] = req[q]
BY DEF ArtifactsTypeOK, EndRequest

\* A request starts on an artifact.
LEMMA RequestStarts ==
  ASSUME ArtifactsTypeOK, NEW r \in Requests, NEW s \in RequestSteps, NEW a \in ArtifactIds,
         StartRequest(r, s, a)
  PROVE  /\ req[r] = NoRequest
         /\ req'[r].at = s /\ req'[r].artifact = a /\ req'[r] \in RequestRows
         /\ \A q \in Requests \ {r} : req'[q] = req[q]
BY DEF ArtifactsTypeOK, StartRequest, RequestRows

\* The requests' part of the type invariant.
RequestsTyped == req \in [Requests -> RequestRows \cup {NoRequest}]

\* Every handler keeps the types.
LEMMA ArtifactsTypeStep ==
  ASSUME ArtifactsTypeOK, [ArtifactsNext]_artifactVars
  PROVE  ArtifactsTypeOK'
<1> DEFINE Other ==
      /\ astatus' \in [ArtifactIds -> {"absent", "pending_upload", "available", "quarantined", "deleted"}]
      /\ object' \in [ArtifactIds -> {"none"} \cup Contents]
      /\ url' \in [ArtifactIds -> {"none", "live", "expired"}]
      /\ overdue' \in [ArtifactIds -> BOOLEAN]
      /\ checksum' \in BOOLEAN
      /\ sweep' \in [todo : SUBSET ArtifactIds, removed : SUBSET ArtifactIds]
      /\ sweptAway' \subseteq ArtifactIds /\ halfDeleted' \subseteq ArtifactIds
<1> SUFFICES Other /\ RequestsTyped'
  BY DEF ArtifactsTypeOK, RequestsTyped
<1>a. ASSUME NEW r \in Requests, req[r].at # "idle", NEW s \in RequestSteps, ReqTo(r, s)
      PROVE  RequestsTyped'
  BY <1>a, RequestMoves DEF ArtifactsTypeOK, RequestsTyped, ReqTo
<1>b. ASSUME NEW r \in Requests, EndRequest(r) PROVE RequestsTyped'
  BY <1>b DEF ArtifactsTypeOK, RequestsTyped, EndRequest
<1>c. ASSUME NEW r \in Requests, NEW s \in RequestSteps, NEW a \in ArtifactIds, StartRequest(r, s, a)
      PROVE  RequestsTyped'
  BY <1>c DEF ArtifactsTypeOK, RequestsTyped, StartRequest, RequestRows
<1>1. CASE UNCHANGED artifactVars
  BY <1>1 DEF artifactVars, ArtifactsTypeOK, RequestsTyped
<1>2. ASSUME NEW r \in Requests, CheckQuota(r) PROVE Other /\ RequestsTyped'
  BY <1>2, <1>c DEF CheckQuota, Rest, ArtifactsTypeOK, RequestSteps
<1>3. ASSUME NEW r \in Requests, InsertRow(r) PROVE Other /\ RequestsTyped'
  BY <1>3, <1>a DEF InsertRow, ReqAt, Rest, ArtifactsTypeOK, RequestSteps
<1>4. ASSUME NEW r \in Requests, SignUpload(r) PROVE Other /\ RequestsTyped'
  BY <1>4, <1>b DEF SignUpload, ArtifactsTypeOK
<1>5. ASSUME NEW r \in Requests, LoadToComplete(r) PROVE Other /\ RequestsTyped'
  BY <1>5, <1>c DEF LoadToComplete, Rest, ArtifactsTypeOK, RequestSteps
<1>6. ASSUME NEW r \in Requests, Verify(r) PROVE Other /\ RequestsTyped'
  <2>1. req[r].at # "idle" /\ (EndRequest(r) \/ ReqTo(r, "reject") \/ ReqTo(r, "accept"))
    BY <1>6 DEF Verify, ReqAt
  <2>2. "reject" \in RequestSteps /\ "accept" \in RequestSteps
    BY DEF RequestSteps
  <2>3. QED
    BY <1>6, <1>a, <1>b, <2>1, <2>2 DEF Verify, Rest, ArtifactsTypeOK
<1>7. ASSUME NEW r \in Requests, Judge(r) PROVE Other /\ RequestsTyped'
  BY <1>7, <1>b DEF Judge, Rest, ArtifactsTypeOK
<1>8. ASSUME NEW r \in Requests, LoadToRemove(r) PROVE Other /\ RequestsTyped'
  BY <1>8, <1>c DEF LoadToRemove, Rest, ArtifactsTypeOK, RequestSteps
<1>9. ASSUME NEW r \in Requests, RemoveObject(r) PROVE Other /\ RequestsTyped'
  BY <1>9, <1>a DEF RemoveObject, ReqAt, Rest, ArtifactsTypeOK, RequestSteps
<1>10. ASSUME NEW r \in Requests, MarkDeleted(r) PROVE Other /\ RequestsTyped'
  <2>1. req[r].artifact \in ArtifactIds
    BY <1>10, RequestTyped DEF MarkDeleted, ReqAt
  <2>2. QED
    BY <1>10, <1>b, <2>1 DEF MarkDeleted, ArtifactsTypeOK
<1>11. ASSUME NEW r \in Requests, DropRequest(r) PROVE Other /\ RequestsTyped'
  <2>1. req[r].artifact \in ArtifactIds
    BY <1>11 DEF DropRequest, ArtifactsTypeOK, RequestRows
  <2>2. QED
    BY <1>11, <1>b, <2>1 DEF DropRequest, ArtifactsTypeOK
<1>12. ASSUME NEW a \in ArtifactIds, Put(a) PROVE Other /\ RequestsTyped'
  BY <1>12 DEF Put, Rest, ArtifactsTypeOK, RequestsTyped, Contents
<1>13. ASSUME NEW a \in ArtifactIds, ExpireUrl(a) PROVE Other /\ RequestsTyped'
  BY <1>13 DEF ExpireUrl, ArtifactsTypeOK, RequestsTyped
<1>14. ASSUME NEW a \in ArtifactIds, ComeDue(a) PROVE Other /\ RequestsTyped'
  BY <1>14 DEF ComeDue, ArtifactsTypeOK, RequestsTyped
<1>15. CASE ScanSweep
  BY <1>15 DEF ScanSweep, ArtifactsTypeOK, RequestsTyped
<1>16. CASE SweepObject
  BY <1>16 DEF SweepObject, ArtifactsTypeOK, RequestsTyped
<1>17. CASE SweepRow
  BY <1>17 DEF SweepRow, ArtifactsTypeOK, RequestsTyped
<1>18. CASE DropSweep
  BY <1>18 DEF DropSweep, ArtifactsTypeOK, RequestsTyped
<1>19. QED
  BY <1>1, <1>2, <1>3, <1>4, <1>5, <1>6, <1>7, <1>8, <1>9, <1>10, <1>11, <1>12, <1>13, <1>14,
     <1>15, <1>16, <1>17, <1>18 DEF ArtifactsNext

\* What a step does to requests, as the invariants see it.
LEMMA Working ==
  ASSUME ArtifactsTypeOK, NEW r \in Requests, req[r].at # "idle", NEW s \in RequestSteps, ReqTo(r, s)
  PROVE  /\ req'[r].at = s
         /\ \A a \in ArtifactIds : OfRequest(r, a)' <=> OfRequest(r, a)
         /\ \A q \in Requests \ {r} : req'[q] = req[q]
<1>1. req'[r] # NoRequest /\ req[r] # NoRequest
  BY RequestMoves, RequestTyped DEF RequestRows, NoRequest, RequestSteps
<1>2. QED
  BY <1>1, RequestMoves DEF OfRequest

\* A request that stands still or has ended.
LEMMA SameRequest ==
  ASSUME NEW q \in Requests, req'[q] = req[q] \/ req'[q] = NoRequest, NEW a \in ArtifactIds,
         OfRequest(q, a)'
  PROVE  OfRequest(q, a) /\ req'[q] = req[q]
BY DEF OfRequest

\* Steps of requests that have their row, and steps of no request.
LEMMA RowStays ==
  ASSUME ArtifactsTypeOK, InsertsAlone,
         \A a \in ArtifactIds : astatus'[a] = "absent" <=> astatus[a] = "absent",
         \A q \in Requests, a \in ArtifactIds : OfRequest(q, a)' =>
           \/ OfRequest(q, a) /\ (ReqAt(q, "insert")' <=> ReqAt(q, "insert"))
           \/ ~ReqAt(q, "insert")' /\ astatus[a] # "absent"
  PROVE  InsertsAlone'
BY DEF InsertsAlone

\* createUpload picks an id that is nobody's, and a row that is there is not inserted again.
LEMMA AloneStep ==
  ASSUME ArtifactsInv, [ArtifactsNext]_artifactVars
  PROVE  InsertsAlone'
<1> USE DEF ArtifactsInv
<1>0. astatus \in [ArtifactIds -> {"absent", "pending_upload", "available", "quarantined", "deleted"}]
  BY DEF ArtifactsTypeOK
<1>a. ASSUME UNCHANGED req, \A a \in ArtifactIds : astatus'[a] = "absent" <=> astatus[a] = "absent"
      PROVE  InsertsAlone'
  BY <1>a, RowStays DEF OfRequest, ReqAt
<1>b. ASSUME NEW r \in Requests, EndRequest(r),
             \A a \in ArtifactIds : astatus'[a] = "absent" <=> astatus[a] = "absent"
      PROVE  InsertsAlone'
  BY <1>b, RequestEnds, SameRequest, RowStays DEF ReqAt
<1>c. ASSUME NEW r \in Requests, NEW s \in RequestSteps \ {"insert"}, NEW a \in ArtifactIds,
             StartRequest(r, s, a), astatus[a] # "absent", UNCHANGED astatus
      PROVE  InsertsAlone'
  <2>1. \A q \in Requests \ {r} : req'[q] = req[q]
    BY <1>c, RequestStarts
  <2>2. \A b \in ArtifactIds : OfRequest(r, b)' => b = a /\ ~ReqAt(r, "insert")'
    BY <1>c, RequestStarts DEF OfRequest, ReqAt
  <2>3. QED
    BY <1>c, <2>1, <2>2, SameRequest, RowStays DEF ReqAt
<1>d. ASSUME NEW r \in Requests, req[r].at \notin {"idle", "insert"}, NEW s \in RequestSteps \ {"insert"},
             ReqTo(r, s), UNCHANGED astatus
      PROVE  InsertsAlone'
  <2>1. /\ \A q \in Requests \ {r} : req'[q] = req[q]
        /\ \A a \in ArtifactIds : OfRequest(r, a)' => OfRequest(r, a)
        /\ ~ReqAt(r, "insert")' /\ ~ReqAt(r, "insert")
    BY <1>d, Working DEF ReqAt
  <2>2. QED
    BY <1>d, <2>1, SameRequest, RowStays DEF ReqAt
<1>1. CASE UNCHANGED artifactVars
  BY <1>1, <1>a DEF artifactVars
<1>2. ASSUME NEW r \in Requests, CheckQuota(r) PROVE InsertsAlone'
  <2>1. PICK a \in ArtifactIds :
          /\ astatus[a] = "absent" /\ \A q \in Requests : ~(ReqAt(q, "insert") /\ req[q].artifact = a)
          /\ StartRequest(r, "insert", a)
    BY <1>2 DEF CheckQuota
  <2>2. /\ req'[r].at = "insert" /\ req'[r].artifact = a /\ UNCHANGED astatus
        /\ \A q \in Requests \ {r} : req'[q] = req[q]
    BY <1>2, <2>1, RequestStarts DEF CheckQuota, RequestSteps
  <2>3. \A q \in Requests : ~OfRequest(q, a)
    BY <2>1 DEF InsertsAlone, OfRequest
  <2>4. QED
    BY <2>1, <2>2, <2>3 DEF InsertsAlone, OfRequest, ReqAt
<1>3. ASSUME NEW r \in Requests, InsertRow(r) PROVE InsertsAlone'
  <2> DEFINE a == req[r].artifact
  <2>1. a \in ArtifactIds /\ req[r].at = "insert" /\ OfRequest(r, a)
    BY <1>3, RequestTyped DEF InsertRow, ReqAt, OfRequest, NoRequest
  <2>2. /\ req'[r].at = "sign" /\ \A q \in Requests \ {r} : req'[q] = req[q]
        /\ \A b \in ArtifactIds : OfRequest(r, b)' => b = a
        /\ astatus' = [astatus EXCEPT ![a] = "pending_upload"]
    BY <1>3, <2>1, Working DEF InsertRow, RequestSteps, OfRequest
  <2>3. \A q \in Requests \ {r} : ~OfRequest(q, a)
    BY <2>1 DEF InsertsAlone, ReqAt
  <2>4. QED
    BY <1>0, <2>1, <2>2, <2>3 DEF InsertsAlone, OfRequest, ReqAt
<1>4. ASSUME NEW r \in Requests, SignUpload(r) PROVE InsertsAlone'
  BY <1>4, <1>b DEF SignUpload
<1>5. ASSUME NEW r \in Requests, LoadToComplete(r) PROVE InsertsAlone'
  BY <1>5, <1>c DEF LoadToComplete, RequestSteps
<1>6. ASSUME NEW r \in Requests, Verify(r) PROVE InsertsAlone'
  <2>1. req[r].at \notin {"idle", "insert"} /\ UNCHANGED astatus
        /\ (EndRequest(r) \/ ReqTo(r, "reject") \/ ReqTo(r, "accept"))
    BY <1>6 DEF Verify, ReqAt
  <2>2. "reject" \in RequestSteps \ {"insert"} /\ "accept" \in RequestSteps \ {"insert"}
    BY DEF RequestSteps
  <2>3. QED
    BY <1>b, <1>d, <2>1, <2>2
<1>7. ASSUME NEW r \in Requests, Judge(r) PROVE InsertsAlone'
  <2>1. EndRequest(r) /\ \A a \in ArtifactIds : astatus'[a] = "absent" <=> astatus[a] = "absent"
    BY <1>0, <1>7 DEF Judge
  <2>2. QED
    BY <1>b, <2>1
<1>8. ASSUME NEW r \in Requests, LoadToRemove(r) PROVE InsertsAlone'
  BY <1>8, <1>c DEF LoadToRemove, RequestSteps
<1>9. ASSUME NEW r \in Requests, RemoveObject(r) PROVE InsertsAlone'
  BY <1>9, <1>d DEF RemoveObject, ReqAt, RequestSteps
<1>10. ASSUME NEW r \in Requests, MarkDeleted(r) PROVE InsertsAlone'
  <2> DEFINE a == req[r].artifact
  <2>1. a \in ArtifactIds /\ OfRequest(r, a) /\ ~ReqAt(r, "insert")
    BY <1>10, RequestTyped DEF MarkDeleted, ReqAt, OfRequest, NoRequest
  <2>2. astatus[a] # "absent"
    BY <2>1 DEF InsertsAlone
  <2>3. \A b \in ArtifactIds : astatus'[b] = "absent" <=> astatus[b] = "absent"
    BY <1>0, <1>10, <2>1, <2>2 DEF MarkDeleted
  <2>4. QED
    BY <1>10, <1>b, <2>3 DEF MarkDeleted
<1>11. ASSUME NEW r \in Requests, DropRequest(r) PROVE InsertsAlone'
  BY <1>11, <1>b DEF DropRequest
<1>12. ASSUME NEW a \in ArtifactIds, Put(a) \/ ExpireUrl(a) \/ ComeDue(a) PROVE InsertsAlone'
  BY <1>12, <1>a DEF Put, ExpireUrl, ComeDue, Rest
<1>13. CASE ScanSweep \/ SweepObject \/ DropSweep
  BY <1>13, <1>a DEF ScanSweep, SweepObject, DropSweep
<1>14. CASE SweepRow
  <2>1. PICK a \in sweep.removed :
          astatus' = [astatus EXCEPT ![a] = "deleted"] \/ UNCHANGED astatus
    BY <1>14 DEF SweepRow
  <2>2. a \in ArtifactIds /\ astatus[a] # "absent"
    BY <2>1 DEF SweepsOverdue, NoUrlLeft, ArtifactsTypeOK
  <2>3. \A b \in ArtifactIds : astatus'[b] = "absent" <=> astatus[b] = "absent"
    BY <1>0, <2>1, <2>2
  <2>4. QED
    BY <1>14, <1>a, <2>3 DEF SweepRow
<1>15. QED
  BY <1>1, <1>2, <1>3, <1>4, <1>5, <1>6, <1>7, <1>8, <1>9, <1>10, <1>11, <1>12, <1>13, <1>14
     DEF ArtifactsNext

\* What is overdue stays overdue, and only what has no URL and no request becomes so.
LEMMA OverdueMoves ==
  ASSUME ArtifactsInv, [ArtifactsNext]_artifactVars, NEW a \in ArtifactIds
  PROVE  /\ overdue[a] => overdue'[a]
         /\ overdue'[a] /\ ~overdue[a] =>
              /\ UNCHANGED <<astatus, url, req>> /\ url[a] # "live"
              /\ astatus[a] # "absent" /\ \A r \in Requests : ~OfRequest(r, a)
<1> USE DEF ArtifactsInv
<1>0. overdue \in [ArtifactIds -> BOOLEAN]
  BY DEF ArtifactsTypeOK
<1>1. CASE UNCHANGED overdue
  BY <1>1
<1>2. ASSUME NEW b \in ArtifactIds, ComeDue(b)
      PROVE  /\ overdue' = [overdue EXCEPT ![b] = TRUE] /\ UNCHANGED <<astatus, url, req>>
             /\ url[b] # "live" /\ astatus[b] # "absent" /\ \A r \in Requests : ~OfRequest(r, b)
  BY <1>2 DEF ComeDue, OfRequest
<1>3. CASE \E b \in ArtifactIds : ComeDue(b)
  BY <1>0, <1>2, <1>3
<1>4. UNCHANGED overdue \/ \E b \in ArtifactIds : ComeDue(b)
  BY DEF ArtifactsNext, artifactVars, CheckQuota, InsertRow, SignUpload, LoadToComplete, Verify, Judge,
     LoadToRemove, RemoveObject, MarkDeleted, DropRequest, Put, ExpireUrl, ScanSweep, SweepObject,
     SweepRow, DropSweep, Rest
<1>5. QED
  BY <1>1, <1>3, <1>4

\* A request that is about to insert a row or to sign its URL was so, or begins to insert.
LEMMA SignerMoves ==
  ASSUME ArtifactsInv, [ArtifactsNext]_artifactVars, NEW r \in Requests, NEW a \in ArtifactIds,
         OfRequest(r, a)', ReqAt(r, "insert")' \/ ReqAt(r, "sign")'
  PROVE  \/ astatus[a] = "absent"
         \/ OfRequest(r, a) /\ (ReqAt(r, "insert") \/ ReqAt(r, "sign"))
<1> USE DEF ArtifactsInv
<1>1. CASE req'[r] = req[r]
  BY <1>1 DEF OfRequest, ReqAt
<1>2. req'[r] # NoRequest
  BY DEF OfRequest
<1>a. ASSUME NEW q \in Requests, NEW s \in RequestSteps, NEW b \in ArtifactIds, StartRequest(q, s, b),
             s = "insert" => astatus[b] = "absent", s # "sign"
      PROVE  req'[r] = req[r] \/ astatus[a] = "absent"
  BY <1>a, RequestStarts DEF OfRequest, ReqAt
<1>b. ASSUME NEW q \in Requests, EndRequest(q) PROVE req'[r] = req[r]
  BY <1>2, <1>b, RequestEnds
<1>c. ASSUME NEW q \in Requests, req[q].at # "idle", NEW s \in RequestSteps \ {"insert", "sign"}, ReqTo(q, s)
      PROVE  req'[r] = req[r]
  BY <1>c, Working DEF ReqAt
<1>3. ASSUME NEW q \in Requests, CheckQuota(q) PROVE req'[r] = req[r] \/ astatus[a] = "absent"
  BY <1>3, <1>a DEF CheckQuota, RequestSteps
<1>4. ASSUME NEW q \in Requests, InsertRow(q)
      PROVE  req'[r] = req[r] \/ (OfRequest(r, a) /\ ReqAt(r, "insert"))
  BY <1>4, Working DEF InsertRow, ReqAt, RequestSteps
<1>5. ASSUME NEW q \in Requests, LoadToComplete(q) \/ LoadToRemove(q)
      PROVE  req'[r] = req[r] \/ astatus[a] = "absent"
  BY <1>5, <1>a DEF LoadToComplete, LoadToRemove, RequestSteps
<1>6. ASSUME NEW q \in Requests, Verify(q) PROVE req'[r] = req[r]
  <2>1. req[q].at # "idle" /\ (EndRequest(q) \/ ReqTo(q, "reject") \/ ReqTo(q, "accept"))
    BY <1>6 DEF Verify, ReqAt
  <2>2. QED
    BY <1>b, <1>c, <2>1 DEF RequestSteps
<1>7. ASSUME NEW q \in Requests, SignUpload(q) \/ Judge(q) \/ MarkDeleted(q) \/ DropRequest(q)
      PROVE  req'[r] = req[r]
  BY <1>7, <1>b DEF SignUpload, Judge, MarkDeleted, DropRequest
<1>8. ASSUME NEW q \in Requests, RemoveObject(q) PROVE req'[r] = req[r]
  BY <1>8, <1>c DEF RemoveObject, ReqAt, RequestSteps
<1>9. CASE UNCHANGED req
  BY <1>1, <1>9
<1>10. QED
  BY <1>1, <1>3, <1>4, <1>5, <1>6, <1>7, <1>8, <1>9
     DEF ArtifactsNext, artifactVars, Put, ExpireUrl, ComeDue, ScanSweep, SweepObject, SweepRow,
         DropSweep, Rest

\* A URL is signed for a request that is about to sign it.
LEMMA UrlMoves ==
  ASSUME ArtifactsInv, [ArtifactsNext]_artifactVars, NEW a \in ArtifactIds, url'[a] = "live"
  PROVE  url[a] = "live" \/ \E r \in Requests : OfRequest(r, a) /\ ReqAt(r, "sign")
<1> USE DEF ArtifactsInv
<1>0. url \in [ArtifactIds -> {"none", "live", "expired"}]
  BY DEF ArtifactsTypeOK
<1>1. CASE UNCHANGED url
  BY <1>1
<1>2. ASSUME NEW r \in Requests, SignUpload(r)
      PROVE  url[a] = "live" \/ (OfRequest(r, a) /\ ReqAt(r, "sign"))
  BY <1>0, <1>2, RequestTyped DEF SignUpload, ReqAt, OfRequest, NoRequest
<1>3. ASSUME NEW b \in ArtifactIds, ExpireUrl(b) PROVE url[a] = "live"
  BY <1>0, <1>3 DEF ExpireUrl
<1>4. QED
  BY <1>1, <1>2, <1>3
     DEF ArtifactsNext, artifactVars, CheckQuota, InsertRow, LoadToComplete, Verify, Judge, LoadToRemove,
         RemoveObject, MarkDeleted, DropRequest, Put, ComeDue, ScanSweep, SweepObject, SweepRow,
         DropSweep, Rest

\* A row never disappears.
LEMMA RowsStay ==
  ASSUME ArtifactsInv, [ArtifactsNext]_artifactVars, NEW a \in ArtifactIds, astatus[a] # "absent"
  PROVE  astatus'[a] # "absent"
<1> USE DEF ArtifactsInv
<1>0. astatus \in [ArtifactIds -> {"absent", "pending_upload", "available", "quarantined", "deleted"}]
  BY DEF ArtifactsTypeOK
<1>1. UNCHANGED astatus
      \/ \E b : astatus' = [astatus EXCEPT ![b] = "pending_upload"]
             \/ astatus' = [astatus EXCEPT ![b] = "available"]
             \/ astatus' = [astatus EXCEPT ![b] = "quarantined"]
             \/ astatus' = [astatus EXCEPT ![b] = "deleted"]
  BY DEF ArtifactsNext, artifactVars, CheckQuota, InsertRow, SignUpload, LoadToComplete, Verify, Judge,
     LoadToRemove, RemoveObject, MarkDeleted, DropRequest, Put, ExpireUrl, ComeDue, ScanSweep,
     SweepObject, SweepRow, DropSweep, Rest
<1>2. QED
  BY <1>0, <1>1

\* Every handler leaves what is overdue without a URL.
LEMMA NoUrlStep ==
  ASSUME ArtifactsInv, [ArtifactsNext]_artifactVars
  PROVE  NoUrlLeft'
<1> SUFFICES ASSUME NEW a \in ArtifactIds, overdue'[a]
             PROVE  /\ astatus'[a] # "absent" /\ url'[a] # "live"
                    /\ \A r \in Requests : OfRequest(r, a)' => ~ReqAt(r, "insert")' /\ ~ReqAt(r, "sign")'
  BY DEF NoUrlLeft
<1>1. CASE overdue[a]
  <2>1. /\ astatus[a] # "absent" /\ url[a] # "live"
        /\ \A r \in Requests : OfRequest(r, a) => ~ReqAt(r, "insert") /\ ~ReqAt(r, "sign")
    BY <1>1 DEF ArtifactsInv, NoUrlLeft
  <2>2. QED
    BY <2>1, RowsStay, UrlMoves, SignerMoves
<1>2. CASE ~overdue[a]
  BY <1>2, OverdueMoves DEF OfRequest
<1>3. QED
  BY <1>1, <1>2

\* An object is written through a live URL only.
LEMMA ObjectMoves ==
  ASSUME ArtifactsInv, [ArtifactsNext]_artifactVars, NEW a \in ArtifactIds, object[a] = "none",
         url[a] # "live"
  PROVE  object'[a] = "none"
<1> USE DEF ArtifactsInv
<1>0. object \in [ArtifactIds -> {"none"} \cup Contents]
  BY DEF ArtifactsTypeOK
<1>1. ASSUME NEW b \in ArtifactIds, Put(b) PROVE object'[a] = object[a]
  BY <1>0, <1>1 DEF Put
<1>2. CASE \E b : object' = [object EXCEPT ![b] = "none"]
  BY <1>0, <1>2
<1>3. QED
  BY <1>1, <1>2
     DEF ArtifactsNext, artifactVars, CheckQuota, InsertRow, SignUpload, LoadToComplete, Verify, Judge,
         LoadToRemove, RemoveObject, MarkDeleted, DropRequest, ExpireUrl, ComeDue, ScanSweep,
         SweepObject, SweepRow, DropSweep, Rest

\* Every handler leaves what the sweep deleted without an object.
LEMMA SweepStep ==
  ASSUME ArtifactsInv, [ArtifactsNext]_artifactVars
  PROVE  SweepsOverdue'
<1>0. /\ sweep \in [todo : SUBSET ArtifactIds, removed : SUBSET ArtifactIds]
      /\ sweptAway \subseteq ArtifactIds /\ SweepsOverdue
      /\ object \in [ArtifactIds -> {"none"} \cup Contents]
  BY DEF ArtifactsInv, ArtifactsTypeOK
<1>1. \A a \in ArtifactIds : overdue[a] => overdue'[a]
  BY OverdueMoves
<1>2. \A a \in sweep.removed \cup sweptAway : object'[a] = "none"
  BY <1>0, ObjectMoves DEF SweepsOverdue, ArtifactsInv, NoUrlLeft
<1>3. ASSUME NEW a \in sweep'.todo PROVE overdue'[a]
  <2>1. CASE ScanSweep
    BY <1>0, <1>3, <2>1 DEF ScanSweep, Sweepable
  <2>2. CASE ~ScanSweep
    <3>1. a \in sweep.todo
      BY <1>0, <1>3, <2>2
         DEF ArtifactsNext, artifactVars, CheckQuota, InsertRow, SignUpload, LoadToComplete, Verify,
             Judge, LoadToRemove, RemoveObject, MarkDeleted, DropRequest, Put, ExpireUrl, ComeDue,
             SweepObject, SweepRow, DropSweep, Rest
    <3>2. QED
      BY <1>0, <1>1, <3>1 DEF SweepsOverdue
  <2>3. QED
    BY <2>1, <2>2
<1>4. ASSUME NEW a \in sweep'.removed \cup sweptAway' PROVE overdue'[a] /\ object'[a] = "none"
  <2>1. CASE a \in sweep.removed \cup sweptAway
    BY <1>0, <1>1, <1>2, <2>1 DEF SweepsOverdue
  <2>2. CASE a \notin sweep.removed \cup sweptAway
    <3>1. SweepObject
      BY <1>0, <1>4, <2>2
         DEF ArtifactsNext, artifactVars, CheckQuota, InsertRow, SignUpload, LoadToComplete, Verify,
             Judge, LoadToRemove, RemoveObject, MarkDeleted, DropRequest, Put, ExpireUrl, ComeDue,
             ScanSweep, SweepRow, DropSweep, Rest
    <3>2. a \in sweep.todo /\ object'[a] = "none"
      BY <1>0, <1>4, <2>2, <3>1 DEF SweepObject
    <3>3. QED
      BY <1>0, <1>1, <3>2 DEF SweepsOverdue
  <2>3. QED
    BY <2>1, <2>2
<1>5. QED
  BY <1>3, <1>4 DEF SweepsOverdue

\* The sweep is between the two writes of one artifact.
LEMMA OneRemoved ==
  ASSUME ArtifactsInv, NEW a \in sweep.removed, NEW b \in sweep.removed
  PROVE  a = b
BY DEF ArtifactsInv, OneAtATime

\* A deletion that is between its two writes ends with the second one, or is remembered.
LEMMA StoredStays ==
  ASSUME ArtifactsInv, [ArtifactsNext]_artifactVars, NEW a \in ArtifactIds, Stored(a)
  PROVE  Stored(a)' \/ astatus'[a] = "deleted"
<1> USE DEF ArtifactsInv
<1>0. /\ object \in [ArtifactIds -> {"none"} \cup Contents] /\ "none" \notin Contents
      /\ astatus \in [ArtifactIds -> {"absent", "pending_upload", "available", "quarantined", "deleted"}]
  BY DEF ArtifactsTypeOK, Contents
<1> DEFINE Marks(r) == ReqAt(r, "mark") /\ req[r].artifact = a
\* A request that is not at its second write changes nothing of this.
<1>a. ASSUME object'[a] = object[a] \/ object'[a] # "none", a \in sweep.removed => a \in sweep'.removed,
             halfDeleted \subseteq halfDeleted',
             \A q \in Requests : Marks(q) => req'[q] = req[q]
      PROVE  Stored(a)'
  BY <1>a DEF Stored, BeingDeleted, ReqAt
<1>b. ASSUME NEW r \in Requests, req[r].at # "mark", EndRequest(r)
      PROVE  \A q \in Requests : Marks(q) => req'[q] = req[q]
  BY <1>b, RequestEnds DEF ReqAt
<1>c. ASSUME NEW r \in Requests, req[r].at \notin {"idle", "mark"}, NEW s \in RequestSteps, ReqTo(r, s)
      PROVE  \A q \in Requests : Marks(q) => req'[q] = req[q]
  BY <1>c, Working DEF ReqAt
<1>d. ASSUME NEW r \in Requests, NEW s \in RequestSteps, NEW b \in ArtifactIds, StartRequest(r, s, b)
      PROVE  \A q \in Requests : Marks(q) => req'[q] = req[q]
  BY <1>d, RequestStarts DEF ReqAt, NoRequest
<1>1. CASE UNCHANGED artifactVars
  BY <1>1, <1>a DEF artifactVars
<1>2. ASSUME NEW r \in Requests, CheckQuota(r) PROVE Stored(a)'
  BY <1>2, <1>a, <1>d DEF CheckQuota, Rest, RequestSteps
<1>3. ASSUME NEW r \in Requests, InsertRow(r) PROVE Stored(a)'
  BY <1>3, <1>a, <1>c DEF InsertRow, ReqAt, Rest, RequestSteps
<1>4. ASSUME NEW r \in Requests, SignUpload(r) PROVE Stored(a)'
  BY <1>4, <1>a, <1>b DEF SignUpload, ReqAt
<1>5. ASSUME NEW r \in Requests, LoadToComplete(r) PROVE Stored(a)'
  BY <1>5, <1>a, <1>d DEF LoadToComplete, Rest, RequestSteps
<1>6. ASSUME NEW r \in Requests, Verify(r) PROVE Stored(a)'
  <2>1. req[r].at \notin {"idle", "mark"} /\ UNCHANGED <<object, sweep, halfDeleted>>
        /\ (EndRequest(r) \/ ReqTo(r, "reject") \/ ReqTo(r, "accept"))
    BY <1>6 DEF Verify, ReqAt, Rest
  <2>2. "reject" \in RequestSteps /\ "accept" \in RequestSteps
    BY DEF RequestSteps
  <2>3. \A q \in Requests : Marks(q) => req'[q] = req[q]
    BY <1>b, <1>c, <2>1, <2>2
  <2>4. QED
    BY <1>a, <2>1, <2>3
<1>7. ASSUME NEW r \in Requests, Judge(r) PROVE Stored(a)'
  BY <1>7, <1>a, <1>b DEF Judge, ReqAt, Rest
<1>8. ASSUME NEW r \in Requests, LoadToRemove(r) PROVE Stored(a)'
  BY <1>8, <1>a, <1>d DEF LoadToRemove, Rest, RequestSteps
<1>9. ASSUME NEW r \in Requests, RemoveObject(r) PROVE Stored(a)'
  <2>1. /\ req[r].at = "remove" /\ ReqTo(r, "mark") /\ "mark" \in RequestSteps
        /\ UNCHANGED <<sweep, halfDeleted>>
        /\ object' = [object EXCEPT ![req[r].artifact] = "none"]
    BY <1>9 DEF RemoveObject, ReqAt, Rest, RequestSteps
  <2>2. CASE req[r].artifact = a
    <3>1. req'[r].at = "mark" /\ req'[r].artifact = a
      BY <2>1, <2>2, RequestMoves
    <3>2. QED
      BY <3>1 DEF Stored, BeingDeleted, ReqAt
  <2>3. CASE req[r].artifact # a
    <3>1. object'[a] = object[a]
      BY <1>0, <2>1, <2>3
    <3>2. QED
      BY <1>a, <1>c, <2>1, <3>1
  <2>4. QED
    BY <2>2, <2>3
<1>10. ASSUME NEW r \in Requests, MarkDeleted(r) PROVE Stored(a)' \/ astatus'[a] = "deleted"
  <2> DEFINE b == req[r].artifact
  <2>1. EndRequest(r) /\ UNCHANGED <<object, sweep>> /\ halfDeleted \subseteq halfDeleted'
    BY <1>10 DEF MarkDeleted
  <2>2. CASE b = a
    BY <1>0, <1>10, <2>2 DEF MarkDeleted, Stored
  <2>3. CASE b # a
    <3>1. \A q \in Requests : Marks(q) => req'[q] = req[q]
      BY <2>1, <2>3, RequestEnds
    <3>2. QED
      BY <1>a, <2>1, <3>1
  <2>4. QED
    BY <2>2, <2>3
<1>11. ASSUME NEW r \in Requests, DropRequest(r) PROVE Stored(a)'
  <2>1. EndRequest(r) /\ UNCHANGED <<object, sweep>> /\ halfDeleted \subseteq halfDeleted'
    BY <1>11 DEF DropRequest
  <2>2. CASE Marks(r)
    BY <1>11, <2>2 DEF DropRequest, Stored
  <2>3. CASE ~Marks(r)
    <3>1. \A q \in Requests : Marks(q) => req'[q] = req[q]
      BY <2>1, <2>3, RequestEnds
    <3>2. QED
      BY <1>a, <2>1, <3>1
  <2>4. QED
    BY <2>2, <2>3
<1>12. ASSUME NEW b \in ArtifactIds, Put(b) PROVE Stored(a)'
  <2>1. object'[a] = object[a] \/ object'[a] # "none"
    BY <1>0, <1>12 DEF Put, Contents
  <2>2. QED
    BY <1>12, <1>a, <2>1 DEF Put, Rest
<1>13. ASSUME NEW b \in ArtifactIds, ExpireUrl(b) \/ ComeDue(b) PROVE Stored(a)'
  BY <1>13, <1>a DEF ExpireUrl, ComeDue
<1>14. CASE ScanSweep
  BY <1>14, <1>a DEF ScanSweep
<1>15. CASE SweepObject
  <2>1. PICK b \in sweep.todo :
          object' = [object EXCEPT ![b] = "none"] /\ sweep' = [sweep EXCEPT !.removed = {b}]
    BY <1>15 DEF SweepObject
  <2>2. sweep.removed = {} /\ sweep'.removed = {b} /\ UNCHANGED <<req, halfDeleted>>
    BY <1>15, <2>1 DEF SweepObject, ArtifactsTypeOK
  <2>3. CASE a = b
    BY <2>2, <2>3 DEF Stored, BeingDeleted
  <2>4. CASE a # b
    BY <1>0, <1>a, <2>1, <2>2, <2>4
  <2>5. QED
    BY <2>3, <2>4
<1>16. CASE SweepRow
  <2>1. PICK b \in sweep.removed :
          /\ sweep' = [todo |-> sweep.todo \ {b}, removed |-> {}]
          /\ astatus' = [astatus EXCEPT ![b] = "deleted"] \/ halfDeleted' = halfDeleted \cup {b}
          /\ halfDeleted \subseteq halfDeleted'
    BY <1>16 DEF SweepRow
  <2>2. CASE a = b
    BY <1>0, <2>1, <2>2 DEF Stored
  <2>3. CASE a # b
    BY <1>16, <2>1, <2>3, OneRemoved DEF SweepRow, Stored, BeingDeleted, ReqAt
  <2>4. QED
    BY <2>2, <2>3
<1>17. CASE DropSweep
  BY <1>17 DEF DropSweep, Stored, BeingDeleted, ReqAt
<1>18. QED
  BY <1>1, <1>2, <1>3, <1>4, <1>5, <1>6, <1>7, <1>8, <1>9, <1>10, <1>11, <1>12, <1>13, <1>14,
     <1>15, <1>16, <1>17 DEF ArtifactsNext

\* A row becomes available by the verdict of a request that saw its object.
LEMMA BecomesAvailable ==
  ASSUME ArtifactsInv, [ArtifactsNext]_artifactVars, NEW a \in ArtifactIds,
         astatus'[a] = "available", astatus[a] # "available"
  PROVE  Stored(a)
<1> USE DEF ArtifactsInv
<1>0. astatus \in [ArtifactIds -> {"absent", "pending_upload", "available", "quarantined", "deleted"}]
  BY DEF ArtifactsTypeOK
<1>1. ASSUME NEW r \in Requests, Judge(r) PROVE Stored(a)
  <2>1. /\ ReqAt(r, "accept") /\ req[r].artifact = a /\ astatus[a] = "pending_upload"
    BY <1>0, <1>1 DEF Judge, ReqAt
  <2>2. QED
    BY <2>1 DEF SeenStored, OfRequest, ReqAt, NoRequest
<1>2. CASE \/ UNCHANGED astatus
           \/ \E b : astatus' = [astatus EXCEPT ![b] = "deleted"]
                  \/ astatus' = [astatus EXCEPT ![b] = "pending_upload"]
  BY <1>0, <1>2
<1>3. QED
  BY <1>1, <1>2
     DEF ArtifactsNext, artifactVars, CheckQuota, InsertRow, SignUpload, LoadToComplete, Verify,
         LoadToRemove, RemoveObject, MarkDeleted, DropRequest, Put, ExpireUrl, ComeDue, ScanSweep,
         SweepObject, SweepRow, DropSweep, Rest

\* Every handler keeps the objects of available artifacts.
LEMMA AvailableStep ==
  ASSUME ArtifactsInv, [ArtifactsNext]_artifactVars
  PROVE  AvailableIsStored'
<1> SUFFICES ASSUME NEW a \in ArtifactIds, astatus'[a] = "available" PROVE Stored(a)'
  BY DEF AvailableIsStored, Stored
<1>1. Stored(a)
  BY BecomesAvailable DEF ArtifactsInv, AvailableIsStored, Stored
<1>2. QED
  BY <1>1, StoredStays

\* A verification passes when the object is there; its row was waiting before.
LEMMA Accepts ==
  ASSUME ArtifactsInv, [ArtifactsNext]_artifactVars, NEW r \in Requests, NEW a \in ArtifactIds,
         OfRequest(r, a)', ReqAt(r, "accept")', astatus'[a] = "pending_upload"
  PROVE  \/ object[a] # "none"
         \/ OfRequest(r, a) /\ ReqAt(r, "accept") /\ astatus[a] = "pending_upload"
<1> USE DEF ArtifactsInv
<1>0. astatus \in [ArtifactIds -> {"absent", "pending_upload", "available", "quarantined", "deleted"}]
  BY DEF ArtifactsTypeOK
<1>a. req'[r] # NoRequest
  BY DEF OfRequest
<1>b. ASSUME req'[r] = req[r], astatus[a] = "pending_upload" PROVE OfRequest(r, a) /\ ReqAt(r, "accept")
  BY <1>b DEF OfRequest, ReqAt
<1>1. CASE ~\E q \in Requests : InsertRow(q)
  <2>1. astatus[a] = "pending_upload"
    <3>1. ASSUME NEW q \in Requests, Judge(q) PROVE astatus[a] = "pending_upload"
      BY <1>0, <3>1 DEF Judge
    <3>2. CASE UNCHANGED astatus \/ \E b : astatus' = [astatus EXCEPT ![b] = "deleted"]
      BY <1>0, <3>2
    <3>3. QED
      BY <1>1, <3>1, <3>2
         DEF ArtifactsNext, artifactVars, CheckQuota, SignUpload, LoadToComplete, Verify,
             LoadToRemove, RemoveObject, MarkDeleted, DropRequest, Put, ExpireUrl, ComeDue, ScanSweep,
             SweepObject, SweepRow, DropSweep, Rest
  <2>c. ASSUME NEW q \in Requests, NEW s \in RequestSteps \ {"accept"}, NEW b \in ArtifactIds,
               StartRequest(q, s, b)
        PROVE  req'[r] = req[r]
    BY <2>c, RequestStarts DEF ReqAt
  <2>d. ASSUME NEW q \in Requests, EndRequest(q) PROVE req'[r] = req[r]
    BY <1>a, <2>d, RequestEnds
  <2>2. ASSUME NEW q \in Requests, Verify(q) PROVE req'[r] = req[r] \/ object[a] # "none"
    <3>1. CASE EndRequest(q)
      BY <2>d, <3>1
    <3>2. CASE Present(req[q].artifact) /\ (ReqTo(q, "reject") \/ ReqTo(q, "accept"))
      <4>1. req[q].at # "idle" /\ "reject" \in RequestSteps /\ "accept" \in RequestSteps
        BY <2>2 DEF Verify, ReqAt, RequestSteps
      <4>2. CASE q = r
        <5>1. OfRequest(r, a)
          BY <3>2, <4>1, <4>2, Working
        <5>2. QED
          BY <3>2, <4>2, <5>1 DEF OfRequest, Present
      <4>3. CASE q # r
        BY <3>2, <4>1, <4>3, Working
      <4>4. QED
        BY <4>2, <4>3
    <3>3. QED
      BY <2>2, <3>1, <3>2 DEF Verify
  <2>3. ASSUME NEW q \in Requests, CheckQuota(q) \/ LoadToComplete(q) \/ LoadToRemove(q)
        PROVE  req'[r] = req[r]
    BY <2>3, <2>c DEF CheckQuota, LoadToComplete, LoadToRemove, RequestSteps
  <2>4. ASSUME NEW q \in Requests, SignUpload(q) \/ Judge(q) \/ MarkDeleted(q) \/ DropRequest(q)
        PROVE  req'[r] = req[r]
    BY <2>4, <2>d DEF SignUpload, Judge, MarkDeleted, DropRequest
  <2>5. ASSUME NEW q \in Requests, RemoveObject(q) PROVE req'[r] = req[r]
    BY <2>5, Working DEF RemoveObject, ReqAt, RequestSteps
  <2>6. req'[r] = req[r] \/ object[a] # "none"
    BY <1>1, <2>2, <2>3, <2>4, <2>5
       DEF ArtifactsNext, artifactVars, Put, ExpireUrl, ComeDue, ScanSweep, SweepObject, SweepRow,
           DropSweep, Rest
  <2>7. QED
    BY <1>b, <2>1, <2>6
<1>2. ASSUME NEW q \in Requests, InsertRow(q)
      PROVE  OfRequest(r, a) /\ ReqAt(r, "accept") /\ astatus[a] = "pending_upload"
  <2>1. q # r /\ req'[r] = req[r]
    BY <1>2, Working DEF InsertRow, ReqAt, RequestSteps
  <2>2. OfRequest(r, a) /\ ReqAt(r, "accept")
    BY <2>1 DEF OfRequest, ReqAt
  <2>3. req[q].at = "insert" /\ req[q].artifact \in ArtifactIds /\ OfRequest(q, req[q].artifact)
    BY <1>2, RequestTyped DEF InsertRow, ReqAt, OfRequest, NoRequest
  <2>4. req[q].artifact # a
    BY <2>1, <2>2, <2>3 DEF InsertsAlone, ReqAt
  <2>5. QED
    BY <1>0, <1>2, <2>2, <2>4 DEF InsertRow
<1>3. QED
  BY <1>1, <1>2

\* Every handler keeps what a verification has seen.
LEMMA SeenStep ==
  ASSUME ArtifactsInv, [ArtifactsNext]_artifactVars
  PROVE  SeenStored'
<1> SUFFICES ASSUME NEW r \in Requests, NEW a \in ArtifactIds,
                    OfRequest(r, a)', ReqAt(r, "accept")', astatus'[a] = "pending_upload"
             PROVE  Stored(a)'
  BY DEF SeenStored
<1>1. Stored(a)
  BY Accepts DEF ArtifactsInv, SeenStored, Stored
<1>2. QED
  BY <1>1, StoredStays

\* sweepArtifacts deals with one artifact after the other.
LEMMA OneStep ==
  ASSUME ArtifactsInv, [ArtifactsNext]_artifactVars
  PROVE  OneAtATime'
<1>1. UNCHANGED sweep \/ sweep'.removed = {} \/ (\E a : sweep'.removed = {a})
      \/ sweep'.removed = sweep.removed
  BY DEF ArtifactsInv, ArtifactsTypeOK, ArtifactsNext, artifactVars, CheckQuota, InsertRow, SignUpload,
     LoadToComplete, Verify, Judge, LoadToRemove, RemoveObject, MarkDeleted, DropRequest, Put, ExpireUrl,
     ComeDue, ScanSweep, SweepObject, SweepRow, DropSweep, Rest
<1>2. QED
  BY <1>1 DEF ArtifactsInv, OneAtATime

----
\* At first there are no artifacts.
LEMMA ArtifactsStart == ArtifactsInit => ArtifactsInv
  BY DEF ArtifactsInit, ArtifactsInv, ArtifactsTypeOK, InsertsAlone, NoUrlLeft, SweepsOverdue, OneAtATime,
     SeenStored, AvailableIsStored, OfRequest, ReqAt, NoRequest, Contents

\* The invariant is inductive.
LEMMA ArtifactsInvStep == ArtifactsInv /\ [ArtifactsNext]_artifactVars => ArtifactsInv'
<1> SUFFICES ASSUME ArtifactsInv, [ArtifactsNext]_artifactVars PROVE ArtifactsInv'
  OBVIOUS
<1>1. ArtifactsTypeOK'
  BY ArtifactsTypeStep DEF ArtifactsInv
<1>2. QED
  BY <1>1, AloneStep, NoUrlStep, SweepStep, OneStep, SeenStep, AvailableStep DEF ArtifactsInv

\* What the handlers of lib/artifacts/service.ts keep true together.
THEOREM ArtifactsInvariant == ArtifactsSpec => []ArtifactsInv
  BY ArtifactsStart, ArtifactsInvStep, PTL DEF ArtifactsSpec

\* Rows, objects, URLs and requests of lib/artifacts/service.ts have the shape the module
\* gives them.
THEOREM ArtifactsTypeCorrect == ArtifactsSpec => []ArtifactsTypeOK
<1>1. ArtifactsInv => ArtifactsTypeOK
  BY DEF ArtifactsInv
<1>2. QED
  BY <1>1, ArtifactsInvariant, PTL

\* completeUpload makes an artifact available only over an object, and deleteArtifact and
\* the sweep take the object away only on their way to the row.
THEOREM AvailableHasObject == ArtifactsSpec => []AvailableIsStored
<1>1. ArtifactsInv => AvailableIsStored
  BY DEF ArtifactsInv
<1>2. QED
  BY <1>1, ArtifactsInvariant, PTL

\* sweepArtifacts comes when no URL to write the object is left, so that what it deletes
\* stays deleted.
THEOREM SweepIsFinal == ArtifactsSpec => []SweepLeavesNoObject
<1>1. ArtifactsInv => SweepLeavesNoObject
  BY DEF ArtifactsInv, SweepsOverdue, SweepLeavesNoObject
<1>2. QED
  BY <1>1, ArtifactsInvariant, PTL

====
