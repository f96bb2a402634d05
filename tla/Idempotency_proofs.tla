-------------------------- MODULE Idempotency_proofs ------------------------
(***************************************************************************)
(* The guarantees of Idempotency for every set of attempts, keys and        *)
(* payloads and every choice of faults.                                     *)
(***************************************************************************)
EXTENDS Idempotency, TLAPS

\* A row was inserted by an attempt with its key and its payload; a response in
\* it is the owner's, whose handler committed.
RowIsOwners ==
  \A k \in Keys :
    row[k] # NoRow =>
      /\ KeyOf[row[k].owner] = k
      /\ row[k].payload = PayloadOf[row[k].owner]
      /\ row[k].response # Null =>
           /\ row[k].response = row[k].owner
           /\ row[k].owner \in committed

\* Where each attempt may stand with its client: it listens only while the
\* pipeline runs, and has no answer before it is over or timed out.
ClientWaits ==
  \A a \in Attempts :
    /\ a \in listening => pc[a] \notin {"start", "end"} /\ answer[a] = "none"
    /\ pc[a] = "start" => answer[a] = "none"
    /\ pc[a] # "end" => answer[a] \in {"none", "timeout"}

\* An attempt that has not yet reserved owns no row.
NotYetReserved ==
  \A a \in Attempts :
    pc[a] \in {"start", "insert", "resolve", "reclaim", "reinsert", "resolveAgain"} =>
      \A k \in Keys : row[k].owner # a

\* A reservation in use is its attempt's own, unanswered but by complete() itself,
\* and not stale, so that nobody may reclaim it.
Protected ==
  \A a \in Attempts :
    (pc[a] = "handle" /\ a \in listening) \/ pc[a] \in {"complete", "release"} =>
      /\ Row(a).owner = a
      /\ Row(a).response = Null \/ (pc[a] = "release" /\ Row(a).response = a)
      /\ Row(a).age = "fresh"

\* complete() runs after the handler committed; the success it reports is on
\* record until it is purged.
SuccessOnRecord ==
  \A a \in Attempts :
    /\ pc[a] = "complete" => a \in committed
    /\ answer[a] = "created" => a \in committed
    /\ answer[a] = "created" /\ a \notin forgotten => Row(a).response = a

IInv ==
  /\ TypeOK
  /\ RowIsOwners
  /\ ClientWaits
  /\ NotYetReserved
  /\ Protected
  /\ SuccessOnRecord
  /\ ReplayIsFaithful
  /\ FailureNotCached

-----------------------------------------------------------------------------
(* One lemma per action: the invariant is preserved. *)

LEMMA InitInv == Init => IInv
BY IdempotencyAssumption DEF Init, IInv, TypeOK, RowIsOwners, ClientWaits, NotYetReserved, Protected,
   SuccessOnRecord, ReplayIsFaithful, FailureNotCached, NoRow, Rows, Row

\* A request arrives and waits for its answer.
LEMMA ArriveInv ==
  ASSUME IInv, NEW a \in Attempts, Arrive(a)
  PROVE  IInv'
<1> USE IdempotencyAssumption DEF IInv, Arrive, Goto, Row, TypeOK
<1>1. TypeOK'
  BY DEF Rows, NoRow
<1>2. ClientWaits'
  BY DEF ClientWaits, Rows, NoRow
<1>3. NotYetReserved'
  BY DEF NotYetReserved, Rows, NoRow
<1>4. Protected'
  BY DEF Protected, ClientWaits, Rows, NoRow
<1>5. RowIsOwners' /\ SuccessOnRecord' /\ ReplayIsFaithful' /\ FailureNotCached'
  BY DEF RowIsOwners, SuccessOnRecord, ReplayIsFaithful, FailureNotCached
<1> QED BY <1>1, <1>2, <1>3, <1>4, <1>5

\* reserveOnce inserts a row only where there was none, so no reservation in use is
\* lost, and the inserter owned none.
LEMMA ReserveOnceInv ==
  ASSUME IInv, NEW a \in Attempts, ReserveOnce(a)
  PROVE  IInv'
<1> USE IdempotencyAssumption DEF IInv, ReserveOnce, Reserved, Goto, Row, TypeOK
<1>1. TypeOK'
  BY DEF Rows, NoRow
<1>2. RowIsOwners'
  BY DEF RowIsOwners, Rows, NoRow
<1>3. ClientWaits'
  BY DEF ClientWaits, Rows, NoRow
<1>4. NotYetReserved'
  BY DEF NotYetReserved, Rows, NoRow
<1>5. Protected'
  BY DEF Protected, Rows, NoRow
<1>6. SuccessOnRecord'
  BY DEF SuccessOnRecord, Rows, NoRow
<1>7. ReplayIsFaithful'
  BY DEF ReplayIsFaithful, Rows, NoRow
<1>8. FailureNotCached'
  <2>1. answer[a] # "failed"
    BY DEF ClientWaits
  <2>2. \A k \in Keys : row'[k].owner \in {row[k].owner, a}
    BY DEF Rows, NoRow
  <2> QED BY <2>1, <2>2 DEF FailureNotCached
<1> QED BY <1>1, <1>2, <1>3, <1>4, <1>5, <1>6, <1>7, <1>8

\* An insert that reports an error: if it left a row, its attempt is unsettled.
LEMMA ReserveFailsInv ==
  ASSUME IInv, NEW a \in Attempts, ReserveFails(a)
  PROVE  IInv'
<1> USE IdempotencyAssumption DEF IInv, ReserveFails, Reserved, Answer, Goto, Row, TypeOK
<1>1. TypeOK'
  <2>1. row' \in [Keys -> Rows \cup {NoRow}]
    <3>1. CASE row' = row
      BY <3>1
    <3>2. CASE row' = Reserved(a)
      BY <3>2 DEF Rows
    <3> QED BY <3>1, <3>2
  <2> QED BY <2>1
<1>2. RowIsOwners'
  BY DEF RowIsOwners, Rows, NoRow
<1>3. ClientWaits'
  BY DEF ClientWaits, Rows, NoRow
<1>4. NotYetReserved'
  BY DEF NotYetReserved, Rows, NoRow
<1>5. Protected'
  <2>1. CASE row' = row
    BY <2>1 DEF Protected
  <2>2. CASE Row(a) = NoRow /\ row' = Reserved(a)
    BY <2>2 DEF Protected, NoRow
  <2> QED BY <2>1, <2>2
<1>6. SuccessOnRecord'
  <2>1. CASE row' = row
    BY <2>1 DEF SuccessOnRecord
  <2>2. CASE Row(a) = NoRow /\ row' = Reserved(a)
    BY <2>2 DEF SuccessOnRecord, NoRow
  <2> QED BY <2>1, <2>2
<1>7. ReplayIsFaithful'
  BY DEF ReplayIsFaithful, Rows, NoRow
<1>8. FailureNotCached'
  <2>1. \A b \in Attempts : b # a => answer'[b] = answer[b]
    OBVIOUS
  <2>2. \A k \in Keys :
          row'[k] = row[k] \/ (row'[k].owner = a /\ row'[k].response = Null)
    BY DEF Rows, NoRow
  <2>3. \A k \in Keys : row[k].owner # a
    BY DEF NotYetReserved
  <2> QED BY <2>1, <2>2, <2>3 DEF FailureNotCached
<1> QED BY <1>1, <1>2, <1>3, <1>4, <1>5, <1>6, <1>7, <1>8

\* resolveExisting answers from the row: what it replays is its owner's commit.
LEMMA ResolveExistingInv ==
  ASSUME IInv, NEW a \in Attempts, ResolveExisting(a)
  PROVE  IInv'
<1> USE IdempotencyAssumption DEF IInv, ResolveExisting, Goto, Answer, Row, TypeOK
<1>1. TypeOK'
  BY DEF Rows, NoRow
<1>2. ClientWaits'
  BY DEF ClientWaits, Rows, NoRow
<1>3. NotYetReserved'
  BY DEF NotYetReserved, Rows, NoRow
<1>4. Protected'
  BY DEF Protected, Rows, NoRow
<1>5. SuccessOnRecord'
  BY DEF SuccessOnRecord, Rows, NoRow
<1>6. ReplayIsFaithful'
  BY DEF ReplayIsFaithful, RowIsOwners, Rows, NoRow
<1>7. FailureNotCached'
  BY DEF FailureNotCached, Rows, NoRow
<1>8. RowIsOwners'
  BY DEF RowIsOwners
<1> QED BY <1>1, <1>2, <1>3, <1>4, <1>5, <1>6, <1>7, <1>8

\* The reclaim deletes stale rows without a response only; none of those is in use.
LEMMA ReclaimInv ==
  ASSUME IInv, NEW a \in Attempts, Reclaim(a)
  PROVE  IInv'
<1> USE IdempotencyAssumption DEF IInv, Reclaim, Goto, Answer, Row, TypeOK
<1>1. TypeOK'
  BY DEF Rows, NoRow
<1>2. RowIsOwners'
  BY DEF RowIsOwners, Rows, NoRow
<1>3. ClientWaits'
  BY DEF ClientWaits, Rows, NoRow
<1>4. NotYetReserved'
  BY DEF NotYetReserved, Rows, NoRow
<1>5. Protected'
  BY DEF Protected, Rows, NoRow
<1>6. SuccessOnRecord'
  BY DEF SuccessOnRecord, Rows, NoRow
<1>7. ReplayIsFaithful'
  BY DEF ReplayIsFaithful, Rows, NoRow
<1>8. FailureNotCached'
  BY DEF FailureNotCached, Rows, NoRow
<1> QED BY <1>1, <1>2, <1>3, <1>4, <1>5, <1>6, <1>7, <1>8

\* A read or a reclaim that reports an error deletes at most a stale row.
LEMMA ResolveFailsInv ==
  ASSUME IInv, NEW a \in Attempts, ResolveFails(a)
  PROVE  IInv'
<1> USE IdempotencyAssumption DEF IInv, ResolveFails, Goto, Answer, Row, TypeOK
<1>1. TypeOK'
  BY DEF Rows, NoRow
<1>2. RowIsOwners'
  BY DEF RowIsOwners, Rows, NoRow
<1>3. ClientWaits'
  BY DEF ClientWaits, Rows, NoRow
<1>4. NotYetReserved'
  BY DEF NotYetReserved, Rows, NoRow
<1>5. Protected'
  <2>1. CASE row' = row
    BY <2>1 DEF Protected
  <2>2. CASE /\ Row(a).response = Null /\ Row(a).age = "stale"
             /\ row' = [row EXCEPT ![KeyOf[a]] = NoRow]
    BY <2>2 DEF Protected, NoRow
  <2> QED BY <2>1, <2>2
<1>6. SuccessOnRecord'
  <2>1. CASE row' = row
    BY <2>1 DEF SuccessOnRecord
  <2>2. CASE /\ Row(a).response = Null /\ Row(a).age = "stale"
             /\ row' = [row EXCEPT ![KeyOf[a]] = NoRow]
    BY <2>2 DEF SuccessOnRecord, NoRow
  <2> QED BY <2>1, <2>2
<1>7. ReplayIsFaithful'
  BY DEF ReplayIsFaithful, Rows, NoRow
<1>8. FailureNotCached'
  BY DEF FailureNotCached, NotYetReserved, Rows, NoRow
<1> QED BY <1>1, <1>2, <1>3, <1>4, <1>5, <1>6, <1>7, <1>8

\* The handler commits.
LEMMA HandlerCommitsInv ==
  ASSUME IInv, NEW a \in Attempts, HandlerCommits(a)
  PROVE  IInv'
<1> USE IdempotencyAssumption DEF IInv, HandlerCommits, Goto, Row, TypeOK
<1>1. TypeOK'
  BY DEF Rows, NoRow
<1>2. RowIsOwners'
  BY DEF RowIsOwners, Rows, NoRow
<1>3. ClientWaits'
  BY DEF ClientWaits, Rows, NoRow
<1>4. NotYetReserved'
  BY DEF NotYetReserved, Rows, NoRow
<1>5. Protected'
  BY DEF Protected, Rows, NoRow
<1>6. SuccessOnRecord'
  BY DEF SuccessOnRecord, Rows, NoRow
<1>7. ReplayIsFaithful'
  BY DEF ReplayIsFaithful, Rows, NoRow
<1>8. FailureNotCached'
  BY DEF FailureNotCached
<1> QED BY <1>1, <1>2, <1>3, <1>4, <1>5, <1>6, <1>7, <1>8

\* The handler fails, and may have committed.
LEMMA HandlerFailsInv ==
  ASSUME IInv, NEW a \in Attempts, HandlerFails(a)
  PROVE  IInv'
<1> USE IdempotencyAssumption DEF IInv, HandlerFails, Goto, Row, TypeOK
<1>1. TypeOK'
  BY DEF Rows, NoRow
<1>2. ClientWaits'
  BY DEF ClientWaits, Rows, NoRow
<1>3. NotYetReserved'
  BY DEF NotYetReserved, Rows, NoRow
<1>4. Protected'
  BY DEF Protected, Rows, NoRow
<1>5. SuccessOnRecord'
  BY DEF SuccessOnRecord, Rows, NoRow
<1>6. RowIsOwners' /\ ReplayIsFaithful'
  BY DEF RowIsOwners, ReplayIsFaithful
<1>7. FailureNotCached'
  BY DEF FailureNotCached
<1> QED BY <1>1, <1>2, <1>3, <1>4, <1>5, <1>6, <1>7

\* complete() finds its own reservation and stores its own response in it.
LEMMA CompleteInv ==
  ASSUME IInv, NEW a \in Attempts, Complete(a)
  PROVE  IInv'
<1> USE IdempotencyAssumption DEF IInv, Complete, Goto, Answer, Row, TypeOK
<1>1. TypeOK'
  BY DEF Rows, NoRow
<1>2. RowIsOwners'
  BY DEF RowIsOwners, SuccessOnRecord, Protected, Rows, NoRow
<1>3. ClientWaits'
  BY DEF ClientWaits, Rows, NoRow
<1>4. NotYetReserved'
  BY DEF NotYetReserved, Rows, NoRow
<1>5. Protected'
  BY DEF Protected, Rows, NoRow
<1>6. SuccessOnRecord'
  BY DEF SuccessOnRecord, Protected, RowIsOwners, Rows, NoRow
<1>7. ReplayIsFaithful'
  BY DEF ReplayIsFaithful, Rows, NoRow
<1>8. FailureNotCached'
  <2>1. Row(a).owner = a
    BY DEF Protected
  <2>2. \A k \in Keys : row'[k] = row[k] \/ (k = KeyOf[a] /\ row'[k].owner = row[k].owner)
    BY DEF Rows, NoRow
  <2>3. answer'[a] # "failed" /\ \A b \in Attempts : b # a => answer'[b] = answer[b]
    BY DEF ClientWaits
  <2> QED BY <2>1, <2>2, <2>3 DEF FailureNotCached
<1> QED BY <1>1, <1>2, <1>3, <1>4, <1>5, <1>6, <1>7, <1>8

\* The update of complete() fails, and the interceptor goes on to release, which
\* may find the response in place.
LEMMA CompleteFailsInv ==
  ASSUME IInv, NEW a \in Attempts, CompleteFails(a)
  PROVE  IInv'
<1> USE IdempotencyAssumption DEF IInv, CompleteFails, Goto, Row, TypeOK
<1>1. TypeOK'
  BY DEF Rows, NoRow
<1>2. RowIsOwners'
  BY DEF RowIsOwners, SuccessOnRecord, Protected, Rows, NoRow
<1>3. ClientWaits'
  BY DEF ClientWaits, Rows, NoRow
<1>4. NotYetReserved'
  BY DEF NotYetReserved, Rows, NoRow
<1>5. Protected'
  <2>1. CASE row' = row
    BY <2>1 DEF Protected
  <2>2. CASE row' = [row EXCEPT ![KeyOf[a]].response = a]
    BY <2>2 DEF Protected, Rows, NoRow
  <2> QED BY <2>1, <2>2
<1>6. SuccessOnRecord'
  <2>1. CASE row' = row
    BY <2>1 DEF SuccessOnRecord
  <2>2. CASE row' = [row EXCEPT ![KeyOf[a]].response = a]
    <3>1. Row(a).response = Null
      BY DEF Protected
    <3> QED BY <2>2, <3>1 DEF SuccessOnRecord, Rows, NoRow
  <2> QED BY <2>1, <2>2
<1>7. ReplayIsFaithful'
  BY DEF ReplayIsFaithful
<1>8. FailureNotCached'
  BY DEF FailureNotCached, Protected, ClientWaits, Rows, NoRow
<1> QED BY <1>1, <1>2, <1>3, <1>4, <1>5, <1>6, <1>7, <1>8

\* release() deletes its own reservation, the only row of its attempt, and never
\* the response of another.
LEMMA ReleaseInv ==
  ASSUME IInv, NEW a \in Attempts, Release(a)
  PROVE  IInv'
<1> USE IdempotencyAssumption DEF IInv, Release, Goto, Answer, Row, TypeOK
<1>1. TypeOK'
  BY DEF Rows, NoRow
<1>2. RowIsOwners'
  BY DEF RowIsOwners, Rows, NoRow
<1>3. ClientWaits'
  BY DEF ClientWaits, Rows, NoRow
<1>4. NotYetReserved'
  BY DEF NotYetReserved, Rows, NoRow
<1>5. Protected'
  BY DEF Protected, Rows, NoRow
<1>6. SuccessOnRecord'
  BY DEF SuccessOnRecord, Protected, RowIsOwners, ClientWaits, Rows, NoRow
<1>7. ReplayIsFaithful'
  BY DEF ReplayIsFaithful, Rows, NoRow
<1>8. FailureNotCached'
  BY DEF FailureNotCached, RowIsOwners, Rows, NoRow
<1> QED BY <1>1, <1>2, <1>3, <1>4, <1>5, <1>6, <1>7, <1>8

\* release() swallows the error of its delete: the row stays, and its attempt is
\* unsettled.
LEMMA ReleaseFailsInv ==
  ASSUME IInv, NEW a \in Attempts, ReleaseFails(a)
  PROVE  IInv'
<1> USE IdempotencyAssumption DEF IInv, ReleaseFails, Goto, Answer, Row, TypeOK
<1>1. TypeOK'
  BY DEF Rows, NoRow
<1>2. ClientWaits'
  BY DEF ClientWaits, Rows, NoRow
<1>3. NotYetReserved'
  BY DEF NotYetReserved, Rows, NoRow
<1>4. Protected'
  BY DEF Protected, Rows, NoRow
<1>5. SuccessOnRecord'
  BY DEF SuccessOnRecord, Rows, NoRow
<1>6. RowIsOwners' /\ ReplayIsFaithful'
  BY DEF RowIsOwners, ReplayIsFaithful
<1>7. FailureNotCached'
  BY DEF FailureNotCached, RowIsOwners, Rows, NoRow
<1> QED BY <1>1, <1>2, <1>3, <1>4, <1>5, <1>6, <1>7

\* A timeout answers a client that had no answer.
LEMMA TimeoutInv ==
  ASSUME IInv, NEW a \in Attempts, Timeout(a)
  PROVE  IInv'
<1> USE IdempotencyAssumption DEF IInv, Timeout, Row, TypeOK
<1>1. TypeOK'
  BY DEF Rows, NoRow
<1>2. ClientWaits'
  BY DEF ClientWaits, Rows, NoRow
<1>3. Protected'
  BY DEF Protected, Rows, NoRow
<1>4. SuccessOnRecord'
  BY DEF SuccessOnRecord, Rows, NoRow
<1>5. ReplayIsFaithful'
  BY DEF ReplayIsFaithful, Rows, NoRow
<1>6. FailureNotCached'
  BY DEF FailureNotCached, Rows, NoRow
<1>7. RowIsOwners' /\ NotYetReserved'
  BY DEF RowIsOwners, NotYetReserved
<1> QED BY <1>1, <1>2, <1>3, <1>4, <1>5, <1>6, <1>7

\* A crash ends the attempt and leaves its row behind.
LEMMA CrashInv ==
  ASSUME IInv, NEW a \in Attempts, Crash(a)
  PROVE  IInv'
<1> USE IdempotencyAssumption DEF IInv, Crash, Goto, Row, TypeOK
<1>1. TypeOK'
  BY DEF Rows, NoRow
<1>2. ClientWaits'
  BY DEF ClientWaits, Rows, NoRow
<1>3. NotYetReserved'
  BY DEF NotYetReserved, Rows, NoRow
<1>4. Protected'
  BY DEF Protected, Rows, NoRow
<1>5. SuccessOnRecord'
  BY DEF SuccessOnRecord, Rows, NoRow
<1>6. RowIsOwners' /\ ReplayIsFaithful' /\ FailureNotCached'
  BY DEF RowIsOwners, ReplayIsFaithful, FailureNotCached
<1> QED BY <1>1, <1>2, <1>3, <1>4, <1>5, <1>6

\* Only a row that no running attempt relies on becomes stale.
LEMMA ExpireInv ==
  ASSUME IInv, NEW k \in Keys, Expire(k)
  PROVE  IInv'
<1> USE IdempotencyAssumption DEF IInv, Expire, Row, TypeOK
<1>1. TypeOK'
  BY DEF Rows, NoRow
<1>2. RowIsOwners'
  BY DEF RowIsOwners, Rows, NoRow
<1>3. NotYetReserved'
  BY DEF NotYetReserved, Rows, NoRow
<1>4. Protected'
  BY DEF Protected, RowIsOwners, Rows, NoRow
<1>5. SuccessOnRecord'
  BY DEF SuccessOnRecord, Rows, NoRow
<1>6. FailureNotCached'
  BY DEF FailureNotCached, Rows, NoRow
<1>7. ClientWaits' /\ ReplayIsFaithful'
  BY DEF ClientWaits, ReplayIsFaithful
<1> QED BY <1>1, <1>2, <1>3, <1>4, <1>5, <1>6, <1>7

\* The purge deletes rows with a response only, and remembers whose.
LEMMA PurgeCompletedInv ==
  ASSUME IInv, NEW k \in Keys, PurgeCompleted(k)
  PROVE  IInv'
<1> USE IdempotencyAssumption DEF IInv, PurgeCompleted, Row, TypeOK
<1>1. TypeOK'
  BY DEF Rows, NoRow
<1>2. RowIsOwners'
  BY DEF RowIsOwners, Rows, NoRow
<1>3. NotYetReserved'
  BY DEF NotYetReserved, Rows, NoRow
<1>4. Protected'
  BY DEF Protected, Rows, NoRow
<1>5. SuccessOnRecord'
  BY DEF SuccessOnRecord, RowIsOwners, Rows, NoRow
<1>6. FailureNotCached'
  BY DEF FailureNotCached, Rows, NoRow
<1>7. ClientWaits' /\ ReplayIsFaithful'
  BY DEF ClientWaits, ReplayIsFaithful
<1> QED BY <1>1, <1>2, <1>3, <1>4, <1>5, <1>6, <1>7

\* Idempotency: IInv holds in every reachable state.
THEOREM IdempotencyInductive == Spec => []IInv
<1>1. ASSUME IInv, [Next]_vars
      PROVE  IInv'
  <2>1. CASE UNCHANGED vars
    BY <1>1, <2>1 DEF vars, IInv, TypeOK, RowIsOwners, ClientWaits, NotYetReserved, Protected,
       SuccessOnRecord, ReplayIsFaithful, FailureNotCached, Row
  <2>2. ASSUME NEW a \in Attempts,
               \/ Arrive(a) \/ ReserveOnce(a) \/ ReserveFails(a)
               \/ ResolveExisting(a) \/ Reclaim(a) \/ ResolveFails(a)
               \/ HandlerCommits(a) \/ HandlerFails(a)
               \/ Complete(a) \/ CompleteFails(a) \/ Release(a) \/ ReleaseFails(a)
               \/ Timeout(a) \/ Crash(a)
        PROVE  IInv'
    BY <1>1, <2>2, ArriveInv, ReserveOnceInv, ReserveFailsInv, ResolveExistingInv, ReclaimInv,
       ResolveFailsInv, HandlerCommitsInv, HandlerFailsInv, CompleteInv, CompleteFailsInv,
       ReleaseInv, ReleaseFailsInv, TimeoutInv, CrashInv
  <2>3. ASSUME NEW k \in Keys, Expire(k) \/ PurgeCompleted(k)
        PROVE  IInv'
    BY <1>1, <2>3, ExpireInv, PurgeCompletedInv
  <2> QED BY <1>1, <2>1, <2>2, <2>3 DEF Next, Idle
<1> QED BY <1>1, InitInv, PTL DEF Spec

\* Idempotency.TypeOK, for every set of attempts and keys.
THEOREM IdempotencyTypeCorrect == Spec => []TypeOK
<1>1. IInv => TypeOK
  BY DEF IInv
<1> QED BY <1>1, IdempotencyInductive, PTL

\* complete() and release() name the key only, and yet the row they write is the
\* attempt's own reservation, which only its own complete() may have answered.
THEOREM OwnReservation == Spec => []ReservationIsOwn
<1>1. IInv => ReservationIsOwn
  BY DEF IInv, Protected, ReservationIsOwn
<1> QED BY <1>1, IdempotencyInductive, PTL

\* resolveExisting replays a commit of the same key and the same request only.
THEOREM FaithfulReplay == Spec => []ReplayIsFaithful
<1>1. IInv => ReplayIsFaithful
  BY DEF IInv
<1> QED BY <1>1, IdempotencyInductive, PTL

\* An attempt that was told it failed has no row behind it that blocks a retry,
\* whatever fails, but the one whose own insert or delete was in error.
THEOREM FailureLeavesNoRow == Spec => []FailureNotCached
<1>1. IInv => FailureNotCached
  BY DEF IInv
<1> QED BY <1>1, IdempotencyInductive, PTL

\* After a reported success no retry runs the handler within the retention time:
\* the handler starts from reserveOnce alone, which found no row, and the success
\* is still on record.
THEOREM SuccessIsFinal == Spec => SuccessEndsRetries
<1> DEFINE Starts(a) == pc[a] # "handle" /\ pc'[a] = "handle"
           Succeeded(a) == \E b \in Attempts : /\ KeyOf[b] = KeyOf[a]
                                               /\ answer[b] = "created"
                                               /\ b \notin forgotten
<1>1. ASSUME IInv, [Next]_vars, NEW a \in Attempts, Starts(a)
      PROVE  ~Succeeded(a)
  <2>1. ReserveOnce(a) /\ Row(a) = NoRow
    <3>1. PICK b \in Attempts :
            \/ Arrive(b) \/ ReserveOnce(b) \/ ReserveFails(b)
            \/ ResolveExisting(b) \/ Reclaim(b) \/ ResolveFails(b)
            \/ HandlerCommits(b) \/ HandlerFails(b)
            \/ Complete(b) \/ CompleteFails(b) \/ Release(b) \/ ReleaseFails(b)
            \/ Crash(b)
      BY <1>1 DEF Next, vars, Idle, Timeout, Expire, PurgeCompleted
    <3>2. pc' = [pc EXCEPT ![b] = pc'[b]]
      BY <1>1, <3>1 DEF IInv, TypeOK, Arrive, ReserveOnce, ReserveFails, ResolveExisting, Reclaim,
         ResolveFails, HandlerCommits, HandlerFails, Complete, CompleteFails, Release, ReleaseFails,
         Crash, Answer, Goto
    <3>3. b = a
      BY <1>1, <3>2 DEF IInv, TypeOK
    <3>4. ReserveOnce(a)
      BY <1>1, <3>1, <3>3 DEF IInv, TypeOK, Arrive, ReserveFails, ResolveExisting, Reclaim,
         ResolveFails, HandlerCommits, HandlerFails, Complete, CompleteFails, Release, ReleaseFails,
         Crash, Answer, Goto
    <3> QED BY <1>1, <3>4 DEF IInv, TypeOK, ReserveOnce, Goto
  <2>2. Row(a).response = Null
    BY <2>1 DEF NoRow
  <2> QED
    BY <1>1, <2>2, IdempotencyAssumption DEF IInv, SuccessOnRecord, Row
<1>2. IInv /\ [Next]_vars => [\A a \in Attempts : Starts(a) => ~Succeeded(a)]_vars
  BY <1>1
<1> QED BY <1>2, IdempotencyInductive, PTL DEF Spec, SuccessEndsRetries

-----------------------------------------------------------------------------
(* What it takes to commit the write behind a key twice. *)

\* A committed attempt that did not tell its client so: the client got a timeout or
\* an error, or the process died.
AnswerLost(a) ==
  answer[a] \in {"timeout", "failed"} \/ (pc[a] = "end" /\ answer[a] = "none")

\* A commit comes before complete() or release(), and is never answered by what
\* another attempt did.
CommitIsLate ==
  \A a \in committed :
    /\ pc[a] \in {"complete", "release", "end"}
    /\ answer[a] \notin {"replayed", "conflict", "mismatch"}

\* The run idem_timeout shows that a retry may commit a second time.  Whatever the
\* faults, that takes a lost answer: of two commits of one key within the retention
\* time, one was reported to its client as a timeout or an error, or its process
\* died.  The other, if it is not lost as well, owns the row of the key.
THEOREM SecondCommitTakesLostAnswer ==
  Spec => [](\A a, b \in committed \ forgotten :
               a # b /\ KeyOf[a] = KeyOf[b] => AnswerLost(a) \/ AnswerLost(b))
<1> USE IdempotencyAssumption
<1>1. Init => CommitIsLate
  BY DEF Init, CommitIsLate
<1>2. ASSUME IInv, CommitIsLate, [Next]_vars
      PROVE  CommitIsLate'
  <2> USE <1>2 DEF IInv, TypeOK, CommitIsLate
  <2>1. CASE UNCHANGED vars
    BY <2>1 DEF vars
  <2>2. ASSUME NEW a \in Attempts, Arrive(a) \/ ReserveOnce(a) \/ Timeout(a) \/ Crash(a)
        PROVE  CommitIsLate'
    BY <2>2 DEF Arrive, ReserveOnce, Timeout, Crash, Goto
  <2>3. ASSUME NEW a \in Attempts, ResolveExisting(a) \/ Reclaim(a)
        PROVE  CommitIsLate'
    BY <2>3 DEF ResolveExisting, Reclaim, Goto, Answer
  <2>4. ASSUME NEW a \in Attempts, ReserveFails(a) \/ ResolveFails(a) \/ ReleaseFails(a)
        PROVE  CommitIsLate'
    BY <2>4 DEF ReserveFails, ResolveFails, ReleaseFails, Goto, Answer
  <2>5. ASSUME NEW a \in Attempts, HandlerCommits(a) \/ HandlerFails(a)
        PROVE  CommitIsLate'
    BY <2>5 DEF HandlerCommits, HandlerFails, Goto, ClientWaits
  <2>6. ASSUME NEW a \in Attempts, Complete(a) \/ CompleteFails(a) \/ Release(a)
        PROVE  CommitIsLate'
    BY <2>6 DEF Complete, CompleteFails, Release, Goto, Answer
  <2>7. ASSUME NEW k \in Keys, Expire(k) \/ PurgeCompleted(k)
        PROVE  CommitIsLate'
    BY <2>7 DEF Expire, PurgeCompleted
  <2> QED BY <2>1, <2>2, <2>3, <2>4, <2>5, <2>6, <2>7 DEF Next, Idle
<1>3. ASSUME IInv, CommitIsLate, NEW a \in committed \ forgotten
      PROVE  AnswerLost(a) \/ Row(a).owner = a
  <2> USE <1>3 DEF IInv, TypeOK
  <2>1. CASE pc[a] \in {"complete", "release"}
    BY <2>1 DEF Protected
  <2>2. CASE pc[a] = "end" /\ answer[a] = "created"
    <3>1. Row(a).response = a
      BY <2>2 DEF SuccessOnRecord
    <3>2. Row(a) # NoRow
      BY <3>1 DEF NoRow
    <3> QED BY <3>1, <3>2 DEF RowIsOwners, Row
  <2> QED BY <2>1, <2>2 DEF CommitIsLate, AnswerLost
<1>4. IInv /\ CommitIsLate =>
        \A a, b \in committed \ forgotten :
          a # b /\ KeyOf[a] = KeyOf[b] => AnswerLost(a) \/ AnswerLost(b)
  BY <1>3 DEF Row
<1> QED BY <1>1, <1>2, <1>4, IdempotencyInductive, PTL DEF Spec
=============================================================================
