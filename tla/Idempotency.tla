---------------------------- MODULE Idempotency -----------------------------
(***************************************************************************)
(* Reserve-first idempotency of the write endpoints: IdempotencyService,    *)
(* IdempotencyInterceptor, the hourly purge, and RequestTimeoutInterceptor, *)
(* which wraps them (AppModule's interceptors are registered first).  An    *)
(* attempt is one HTTP request; retries of a request carry its key.  Each   *)
(* statement on idempotency_keys is one step, and so is the commit of the   *)
(* handler.  When an attempt times out its client gets a 408 and the        *)
(* pipeline is unsubscribed: the statement or handler already running goes  *)
(* on, but nothing that should follow it happens.  A statement may fail, or *)
(* take effect and have its acknowledgement lost.                           *)
(***************************************************************************)
EXTENDS Naturals, FiniteSets

CONSTANTS
  Attempts,
  Keys,        \* (user_id, key): the primary key of the table
  KeyOf,       \* KeyOf[a]: the key that attempt a carries
  Payloads,
  PayloadOf,   \* PayloadOf[a]: its method, path and request_hash
  Faults,      \* which of "timeout", "crash", "dbError" may happen
  Null

ASSUME IdempotencyAssumption ==
  /\ KeyOf \in [Attempts -> Keys]
  /\ PayloadOf \in [Attempts -> Payloads]
  /\ Faults \subseteq {"timeout", "crash", "dbError"}
  /\ Null \notin Attempts

VARIABLES
  row,        \* idempotency_keys; owner is not a column: who inserted the row
  pc,         \* the statement each attempt runs next
  listening,  \* the attempts whose client still waits for the pipeline
  answer,     \* what the client got
  replayOf,   \* whose response a replay returned
  committed,  \* the attempts whose handler committed its write
  forgotten,  \* the commits whose key was purged after its retention
  unsettled   \* the attempts whose insert or delete of the row reported an error

vars == <<row, pc, listening, answer, replayOf, committed, forgotten, unsettled>>

NoRow == [owner |-> Null, payload |-> Null, response |-> Null, age |-> "fresh"]
Rows  == [owner: Attempts, payload: Payloads, response: Attempts \cup {Null},
          age: {"fresh", "stale"}]

Init ==
  /\ row = [k \in Keys |-> NoRow]
  /\ pc = [a \in Attempts |-> "start"]
  /\ listening = {}
  /\ answer = [a \in Attempts |-> "none"]
  /\ replayOf = [a \in Attempts |-> Null]
  /\ committed = {}
  /\ forgotten = {}
  /\ unsettled = {}

Row(a) == row[KeyOf[a]]
Goto(a, l) == pc' = [pc EXCEPT ![a] = l]

\* The attempt ends; its client, if it still listens, gets the answer.
Answer(a, what, from) ==
  /\ Goto(a, "end")
  /\ listening' = listening \ {a}
  /\ IF a \in listening
       THEN /\ answer' = [answer EXCEPT ![a] = what]
            /\ replayOf' = [replayOf EXCEPT ![a] = from]
       ELSE UNCHANGED <<answer, replayOf>>

-----------------------------------------------------------------------------
(* IdempotencyService.reserve. *)

Arrive(a) ==
  /\ pc[a] = "start"
  /\ Goto(a, "insert")
  /\ listening' = listening \cup {a}
  /\ UNCHANGED <<row, answer, replayOf, committed, forgotten, unsettled>>

\* The row that an attempt reserves its key with.
Reserved(a) ==
  [row EXCEPT ![KeyOf[a]] =
     [owner |-> a, payload |-> PayloadOf[a], response |-> Null, age |-> "fresh"]]

\* reserveOnce: the insert, whose primary key decides.  The handler starts only
\* if the client still listens.
ReserveOnce(a) ==
  /\ pc[a] \in {"insert", "reinsert"}
  /\ IF Row(a) = NoRow
       THEN /\ row' = Reserved(a)
            /\ Goto(a, IF a \in listening THEN "handle" ELSE "end")
       ELSE /\ Goto(a, IF pc[a] = "insert" THEN "resolve" ELSE "resolveAgain")
            /\ UNCHANGED row
  /\ UNCHANGED <<listening, answer, replayOf, committed, forgotten, unsettled>>

\* The insert reports an error other than P2002, with or without a row left behind:
\* reserveOnce rethrows it, outside the pipe that would release.
ReserveFails(a) ==
  /\ "dbError" \in Faults
  /\ pc[a] \in {"insert", "reinsert"}
  /\ row' = row \/ (Row(a) = NoRow /\ row' = Reserved(a))
  /\ unsettled' = unsettled \cup {a}
  /\ Answer(a, "failed", Null)
  /\ UNCHANGED <<committed, forgotten>>

\* Mutant of ResolveExisting: the body of the request is not compared.
ReplayAnyPayload(a) ==
  /\ pc[a] \in {"resolve", "resolveAgain"}
  /\ \/ /\ Row(a).response # Null
        /\ Answer(a, "replayed", Row(a).response)
     \/ /\ Row(a).response = Null
        /\ Answer(a, "conflict", Null)
  /\ UNCHANGED <<row, committed, forgotten, unsettled>>

\* resolveExisting: one read decides between 409, 422, reclaim and replay.
ResolveExisting(a) ==
  /\ pc[a] \in {"resolve", "resolveAgain"}
  /\ \/ /\ Row(a) = NoRow
        /\ Answer(a, "conflict", Null)
     \/ /\ Row(a) # NoRow
        /\ Row(a).payload # PayloadOf[a]
        /\ Answer(a, "mismatch", Null)
     \/ /\ Row(a).payload = PayloadOf[a]
        /\ Row(a).response # Null
        /\ Answer(a, "replayed", Row(a).response)
     \/ /\ Row(a).payload = PayloadOf[a]
        /\ Row(a).response = Null
        /\ IF pc[a] = "resolve" /\ Row(a).age = "stale"
             THEN Goto(a, "reclaim") /\ UNCHANGED <<listening, answer, replayOf>>
             ELSE Answer(a, "conflict", Null)
  /\ UNCHANGED <<row, committed, forgotten, unsettled>>

\* The deleteMany of a stale reservation, which re-evaluates its predicate.
Reclaim(a) ==
  /\ pc[a] = "reclaim"
  /\ IF Row(a).response = Null /\ Row(a).age = "stale"
       THEN /\ row' = [row EXCEPT ![KeyOf[a]] = NoRow]
            /\ Goto(a, "reinsert")
            /\ UNCHANGED <<listening, answer, replayOf>>
       ELSE Answer(a, "conflict", Null) /\ UNCHANGED row
  /\ UNCHANGED <<committed, forgotten, unsettled>>

\* The read or the deleteMany of resolveExisting reports an error, the latter with or
\* without effect.
ResolveFails(a) ==
  /\ "dbError" \in Faults
  /\ pc[a] \in {"resolve", "resolveAgain", "reclaim"}
  /\ \/ row' = row
     \/ /\ pc[a] = "reclaim" /\ Row(a).response = Null /\ Row(a).age = "stale"
        /\ row' = [row EXCEPT ![KeyOf[a]] = NoRow]
  /\ Answer(a, "failed", Null)
  /\ UNCHANGED <<committed, forgotten, unsettled>>

-----------------------------------------------------------------------------
(* IdempotencyInterceptor around the handler. *)

HandlerCommits(a) ==
  /\ pc[a] = "handle"
  /\ committed' = committed \cup {a}
  /\ Goto(a, IF a \in listening THEN "complete" ELSE "end")
  /\ UNCHANGED <<row, listening, answer, replayOf, forgotten, unsettled>>

\* The handler throws: it wrote nothing, or its commit was not acknowledged.
HandlerFails(a) ==
  /\ pc[a] = "handle"
  /\ \/ committed' = committed
     \/ "dbError" \in Faults /\ committed' = committed \cup {a}
  /\ Goto(a, IF a \in listening THEN "release" ELSE "end")
  /\ UNCHANGED <<row, listening, answer, replayOf, forgotten, unsettled>>

\* Mutant of Complete: the answer is sent, the snapshot is not stored.
CompleteUnstored(a) ==
  /\ pc[a] = "complete"
  /\ Answer(a, "created", Null)
  /\ UNCHANGED <<row, committed, forgotten, unsettled>>

\* complete: the update names the key only.  If it finds no row, the error reaches
\* the interceptor's catchError.
Complete(a) ==
  /\ pc[a] = "complete"
  /\ IF Row(a) # NoRow
       THEN /\ row' = [row EXCEPT ![KeyOf[a]].response = a]
            /\ Answer(a, "created", Null)
       ELSE /\ Goto(a, IF a \in listening THEN "release" ELSE "end")
            /\ UNCHANGED <<row, listening, answer, replayOf>>
  /\ UNCHANGED <<committed, forgotten, unsettled>>

\* So does any other error of it, with or without effect.
CompleteFails(a) ==
  /\ "dbError" \in Faults
  /\ pc[a] = "complete"
  /\ row' = row \/ (Row(a) # NoRow /\ row' = [row EXCEPT ![KeyOf[a]].response = a])
  /\ Goto(a, IF a \in listening THEN "release" ELSE "end")
  /\ UNCHANGED <<listening, answer, replayOf, committed, forgotten, unsettled>>

\* Mutant of Release: the row is blanked, not deleted.
BlankReservation(a) ==
  /\ pc[a] = "release"
  /\ row' = [row EXCEPT ![KeyOf[a]].payload = Null]
  /\ Answer(a, "failed", Null)
  /\ UNCHANGED <<committed, forgotten, unsettled>>

\* Mutant of Release: the reservation is kept after a failure.
KeepReservation(a) ==
  /\ pc[a] = "release"
  /\ Answer(a, "failed", Null)
  /\ UNCHANGED <<row, committed, forgotten, unsettled>>

\* release: the delete names the key only, and the error of the handler, or of
\* complete, goes on to the client.
Release(a) ==
  /\ pc[a] = "release"
  /\ row' = [row EXCEPT ![KeyOf[a]] = NoRow]
  /\ Answer(a, "failed", Null)
  /\ UNCHANGED <<committed, forgotten, unsettled>>

\* The delete fails: its error is swallowed and the row stays.
ReleaseFails(a) ==
  /\ "dbError" \in Faults
  /\ pc[a] = "release"
  /\ unsettled' = unsettled \cup {a}
  /\ Answer(a, "failed", Null)
  /\ UNCHANGED <<row, committed, forgotten>>

-----------------------------------------------------------------------------
(* Time and failure. *)

\* RequestTimeoutInterceptor: the client gets a 408.
Timeout(a) ==
  /\ "timeout" \in Faults
  /\ a \in listening
  /\ listening' = listening \ {a}
  /\ answer' = [answer EXCEPT ![a] = "timeout"]
  /\ UNCHANGED <<row, pc, replayOf, committed, forgotten, unsettled>>

\* The process dies, before or after the statement in hand took effect.
Crash(a) ==
  /\ "crash" \in Faults
  /\ pc[a] \notin {"start", "end"}
  /\ Goto(a, "end")
  /\ listening' = listening \ {a}
  /\ UNCHANGED <<row, answer, replayOf, committed, forgotten, unsettled>>

\* Mutant of Expire: the in-flight TTL is shorter than the request timeout.
ExpireEarly(k) ==
  /\ row[k] # NoRow
  /\ row[k].response = Null
  /\ row' = [row EXCEPT ![k].age = "stale"]
  /\ UNCHANGED <<pc, listening, answer, replayOf, committed, forgotten, unsettled>>

\* IDEMPOTENCY_INFLIGHT_TTL_MS passes (120 s).  No client still listens to the
\* owner (408 after 35 s), nor is its complete or release still running.
Expire(k) ==
  /\ row[k] # NoRow
  /\ row[k].response = Null
  /\ row[k].owner \notin listening
  /\ pc[row[k].owner] \notin {"complete", "release"}
  /\ row' = [row EXCEPT ![k].age = "stale"]
  /\ UNCHANGED <<pc, listening, answer, replayOf, committed, forgotten, unsettled>>

\* purgeCompleted, hourly, of keys completed more than a day ago: the attempt that
\* completed one is long over.
PurgeCompleted(k) ==
  /\ row[k].response # Null
  /\ pc[row[k].owner] = "end"
  /\ row' = [row EXCEPT ![k] = NoRow]
  /\ forgotten' = forgotten \cup {a \in committed : KeyOf[a] = k}
  /\ UNCHANGED <<pc, listening, answer, replayOf, committed, unsettled>>

Idle ==
  /\ \A a \in Attempts : pc[a] \in {"start", "end"}
  /\ UNCHANGED vars

Next ==
  \/ \E a \in Attempts :
       \/ Arrive(a) \/ ReserveOnce(a) \/ ReserveFails(a)
       \/ ResolveExisting(a) \/ Reclaim(a) \/ ResolveFails(a)
       \/ HandlerCommits(a) \/ HandlerFails(a)
       \/ Complete(a) \/ CompleteFails(a) \/ Release(a) \/ ReleaseFails(a)
       \/ Timeout(a) \/ Crash(a)
  \/ \E k \in Keys : Expire(k) \/ PurgeCompleted(k)
  \/ Idle

Spec == Init /\ [][Next]_vars

-----------------------------------------------------------------------------
(* Properties. *)

TypeOK ==
  /\ row \in [Keys -> Rows \cup {NoRow}]
  /\ pc \in [Attempts -> {"start", "insert", "resolve", "reclaim", "reinsert",
                          "resolveAgain", "handle", "complete", "release", "end"}]
  /\ listening \subseteq Attempts
  /\ answer \in [Attempts -> {"none", "created", "replayed", "conflict", "mismatch",
                              "failed", "timeout"}]
  /\ replayOf \in [Attempts -> Attempts \cup {Null}]
  /\ committed \subseteq Attempts
  /\ forgotten \subseteq committed
  /\ unsettled \subseteq Attempts

\* complete() and release() name the key and not the reservation; still, the row
\* they touch is always the attempt's own, although others may have reclaimed,
\* released and reserved the key in between.  release() may find a response in it,
\* if complete() took effect and was not acknowledged.
ReservationIsOwn ==
  \A a \in Attempts :
    (pc[a] = "handle" /\ a \in listening) \/ pc[a] \in {"complete", "release"} =>
      /\ Row(a).owner = a
      /\ Row(a).response = Null \/ (pc[a] = "release" /\ Row(a).response = a)

\* resolveExisting: a replay returns what an attempt with the same key and the
\* same endpoint and body did commit.
ReplayIsFaithful ==
  \A a \in Attempts :
    answer[a] = "replayed" =>
      /\ replayOf[a] \in committed
      /\ KeyOf[replayOf[a]] = KeyOf[a]
      /\ PayloadOf[replayOf[a]] = PayloadOf[a]

\* IdempotencyService: "failures are never cached": an attempt that was told it
\* failed leaves no row behind that could block or answer a retry, unless the insert
\* or the delete of that row was itself in error, which release() swallows; and even
\* then a response in it is that of a write that was committed.
FailureNotCached ==
  \A a \in Attempts, k \in Keys :
    answer[a] = "failed" /\ row[k].owner = a =>
      /\ a \in unsettled
      /\ row[k].response # Null => row[k].response = a /\ a \in committed

\* Once a client was told of success, no retry of the key runs the handler again
\* within the retention time, even if it had already seen the row as stale.
SuccessEndsRetries ==
  [][\A a \in Attempts :
       pc[a] # "handle" /\ pc'[a] = "handle" =>
         ~ \E b \in Attempts : /\ KeyOf[b] = KeyOf[a]
                               /\ answer[b] = "created"
                               /\ b \notin forgotten]_vars

\* docs/api/frontend-guide.md: "Retrying with the same key is always safe (you get
\* a replay, or a 409 while it's still running)": within the retention time the
\* write behind a key is committed at most once.
AtMostOnce ==
  \A k \in Keys :
    Cardinality({a \in committed \ forgotten : KeyOf[a] = k}) <= 1
=============================================================================
