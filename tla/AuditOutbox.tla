----------------------------- MODULE AuditOutbox -----------------------------
(***************************************************************************)
(* The audit outbox: requests that change something and record an event    *)
(* about it, and the workers (one per replica) that deliver the recorded   *)
(* events to the audit log.                                                *)
(*                                                                         *)
(*   app/application/services/audit_event_service.py   log, log_required   *)
(*   app/adapters/persistence/audit.py                 the two outboxes    *)
(*   app/adapters/persistence/audit_outbox_worker.py   delivery            *)
(*   app/application/services/audit_cleanup_job.py     retention           *)
(*   app/adapters/lifecycle/commit_middleware.py, app/di/.../db.py         *)
(*                                     the request's own transaction       *)
(*                                                                         *)
(* An event stands for its outbox row and for the request that records it. *)
(* Events are numbered by the created_at of their rows; rows appear in any *)
(* order, since clocks differ and transactions commit late.                *)
(***************************************************************************)
EXTENDS Naturals, FiniteSets

CONSTANTS
    N,            \* number of events
    Worker,       \* one AuditOutboxWorker per replica
    Required,     \* events recorded with log_required
    Before,       \* events recorded before the change they are about
    Poison,       \* events whose insertion into the audit log always fails
    MaxAttempts,  \* max_attempts
    Batch,        \* batch_size
    MaxFaults     \* bound on failing calls, crashes and stops

Event == 1 .. N

ASSUME OutboxAssumption ==
    /\ N \in Nat
    /\ Required \subseteq Event /\ Before \subseteq Event /\ Poison \subseteq Event
    /\ MaxAttempts \in Nat \ {0}
    /\ Batch \in Nat \ {0}
    /\ MaxFaults \in Nat

VARIABLES
    request,   \* open, answered, closed (its session ended), refused (the
               \* event could not be recorded), died
    changed,   \* events whose change is committed (or remote effect begun)
    staged,    \* events flushed into the open transaction of their request
    row,       \* audit_outbox.status, "none" before the row is committed
    attempts,  \* audit_outbox.attempts
    waiting,   \* events whose next_attempt_at lies in the future
    log,       \* the event in audit_logs: absent, present, expired
    running,   \* workers between start() and stop()
    held,      \* rows locked by the worker's open transaction
    ok, bad,   \* rows delivered, rows failed in that transaction
    faults

requestVars == <<request, changed, staged>>
workerVars == <<running, held, ok, bad>>
vars == <<requestVars, row, attempts, waiting, log, workerVars, faults>>

TypeOK ==
    /\ request \in [Event -> {"open", "answered", "closed", "refused", "died"}]
    /\ changed \subseteq Event
    /\ staged \subseteq Event
    /\ row \in [Event -> {"none", "pending", "completed", "failed"}]
    /\ attempts \in [Event -> 0 .. MaxAttempts]
    /\ waiting \subseteq Event
    /\ log \in [Event -> {"absent", "present", "expired"}]
    /\ running \subseteq Worker
    /\ held \in [Worker -> SUBSET Event]
    /\ ok \in [Worker -> SUBSET Event]
    /\ bad \in [Worker -> SUBSET Event]
    /\ faults \in 0 .. MaxFaults

Init ==
    /\ request = [e \in Event |-> "open"]
    /\ changed = {}
    /\ staged = {}
    /\ row = [e \in Event |-> "none"]
    /\ attempts = [e \in Event |-> 0]
    /\ waiting = {}
    /\ log = [e \in Event |-> "absent"]
    /\ running = {}
    /\ held = [w \in Worker |-> {}]
    /\ ok = [w \in Worker |-> {}]
    /\ bad = [w \in Worker |-> {}]
    /\ faults = 0

Fault == faults < MaxFaults /\ faults' = faults + 1

----------------------------------------------------------------------------
(* The request                                                             *)

Recorded(e) == e \in staged \/ row[e] # "none"

\* log_required commits the row in a transaction of its own; log flushes it into
\* the transaction of the request.
Log(e) ==
    /\ request[e] = "open"
    /\ ~Recorded(e)
    /\ e \in Before \/ e \in changed
    /\ IF e \in Required
          THEN /\ row' = [row EXCEPT ![e] = "pending"]
               /\ UNCHANGED staged
          ELSE /\ staged' = staged \cup {e}
               /\ UNCHANGED row
    /\ UNCHANGED <<request, changed, attempts, waiting, log, workerVars, faults>>

\* Either outbox fails: AuditWriteError ends the request.
LogFails(e) ==
    /\ request[e] = "open"
    /\ ~Recorded(e)
    /\ e \in Before \/ e \in changed
    /\ Fault
    /\ request' = [request EXCEPT ![e] = "refused"]
    /\ UNCHANGED <<changed, staged, row, attempts, waiting, log, workerVars>>

\* The change itself: a writer with a session of its own, or a remote command.
Change(e) ==
    /\ request[e] = "open"
    /\ e \notin changed
    /\ e \in Before => Recorded(e)
    /\ changed' = changed \cup {e}
    /\ UNCHANGED <<request, staged, row, attempts, waiting, log, workerVars, faults>>

\* The change fails and the client is told so; what is staged stays staged.
ChangeFails(e) ==
    /\ request[e] = "open"
    /\ e \notin changed
    /\ e \in Before => Recorded(e)
    /\ Fault
    /\ request' = [request EXCEPT ![e] = "answered"]
    /\ UNCHANGED <<changed, staged, row, attempts, waiting, log, workerVars>>

\* The response goes out.  The middleware commits only a session with new, dirty
\* or deleted objects, and a flushed event is none of these.
Answer(e) ==
    /\ request[e] = "open"
    /\ e \in changed /\ Recorded(e)
    /\ request' = [request EXCEPT ![e] = "answered"]
    /\ UNCHANGED <<changed, staged, row, attempts, waiting, log, workerVars, faults>>

\* The container closes the request's scope: session.begin() commits.
CloseSession(e) ==
    /\ request[e] = "answered"
    /\ request' = [request EXCEPT ![e] = "closed"]
    /\ row' = IF e \in staged THEN [row EXCEPT ![e] = "pending"] ELSE row
    /\ staged' = staged \ {e}
    /\ UNCHANGED <<changed, attempts, waiting, log, workerVars, faults>>

\* The process ends, or the commit fails: what is staged is rolled back.
RequestDies(e) ==
    /\ request[e] \in {"open", "answered"}
    /\ Fault
    /\ request' = [request EXCEPT ![e] = "died"]
    /\ staged' = staged \ {e}
    /\ UNCHANGED <<changed, row, attempts, waiting, log, workerVars>>

----------------------------------------------------------------------------
(* Delivery: AuditOutboxWorker                                             *)

Start(w) ==
    /\ w \notin running
    /\ running' = running \cup {w}
    /\ UNCHANGED <<requestVars, row, attempts, waiting, log, held, ok, bad, faults>>

\* Mutant: an event that failed once is never selected again.
DueOnlyFresh == {e \in Event : /\ row[e] = "pending" /\ attempts[e] = 0
                               /\ \A w \in Worker : e \notin held[w]}

\* Rows no transaction has locked: FOR UPDATE SKIP LOCKED.
Due == {e \in Event : /\ row[e] = "pending" /\ e \notin waiting
                      /\ \A w \in Worker : e \notin held[w]}

Oldest(S) == {e \in S : Cardinality({f \in S : f < e}) < Batch}

\* run_once opens its transaction; without due rows it has no effect.
Claim(w) ==
    /\ w \in running
    /\ held[w] = {}
    /\ Due # {}
    /\ held' = [held EXCEPT ![w] = Oldest(Due)]
    /\ UNCHANGED <<requestVars, row, attempts, waiting, log, running, ok, bad, faults>>

\* _deliver for the next row of the batch, in a savepoint.
ToDeliver(w, e) ==
    LET todo == held[w] \ (ok[w] \cup bad[w])
    IN  e \in todo /\ \A f \in todo : e <= f

\* Mutant: the log row is committed at once, outside the batch's transaction.
DeliverAutocommits(w, e) ==
    /\ ToDeliver(w, e)
    /\ e \notin Poison
    /\ ok' = [ok EXCEPT ![w] = @ \cup {e}]
    /\ log' = [log EXCEPT ![e] = "present"]
    /\ UNCHANGED <<requestVars, row, attempts, waiting, running, held, bad, faults>>

Deliver(w, e) ==
    /\ ToDeliver(w, e)
    /\ e \notin Poison
    /\ ok' = [ok EXCEPT ![w] = @ \cup {e}]
    /\ UNCHANGED <<requestVars, row, attempts, waiting, log, running, held, bad, faults>>

DeliverFails(w, e) ==
    /\ ToDeliver(w, e)
    /\ IF e \in Poison THEN UNCHANGED faults ELSE Fault
    /\ bad' = [bad EXCEPT ![w] = @ \cup {e}]
    /\ UNCHANGED <<requestVars, row, attempts, waiting, log, running, held, ok>>

Release(w) ==
    /\ held' = [held EXCEPT ![w] = {}]
    /\ ok' = [ok EXCEPT ![w] = {}]
    /\ bad' = [bad EXCEPT ![w] = {}]

Exhausted(w) == {e \in bad[w] : attempts[e] + 1 >= MaxAttempts}

\* Mutant: only failed attempts are counted.
CommitCountsFailures(w) ==
    /\ held[w] # {}
    /\ held[w] \subseteq ok[w] \cup bad[w]
    /\ row' = [e \in Event |-> IF e \in ok[w] THEN "completed"
                               ELSE IF e \in Exhausted(w) THEN "failed" ELSE row[e]]
    /\ attempts' = [e \in Event |-> IF e \in bad[w] THEN attempts[e] + 1 ELSE attempts[e]]
    /\ waiting' = waiting \cup (bad[w] \ Exhausted(w))
    /\ log' = [e \in Event |-> IF e \in ok[w] THEN "present" ELSE log[e]]
    /\ Release(w)
    /\ UNCHANGED <<requestVars, running, faults>>

\* The batch commits: the log rows, the new statuses and the backoffs together.
Commit(w) ==
    /\ held[w] # {}
    /\ held[w] \subseteq ok[w] \cup bad[w]
    /\ row' = [e \in Event |-> IF e \in ok[w] THEN "completed"
                               ELSE IF e \in Exhausted(w) THEN "failed" ELSE row[e]]
    /\ attempts' = [e \in Event |-> IF e \in held[w] THEN attempts[e] + 1 ELSE attempts[e]]
    /\ waiting' = waiting \cup (bad[w] \ Exhausted(w))
    /\ log' = [e \in Event |-> IF e \in ok[w] THEN "present" ELSE log[e]]
    /\ Release(w)
    /\ UNCHANGED <<requestVars, running, faults>>

\* A database error or a crash rolls the batch back; the loop starts anew.
RollBack(w) ==
    /\ held[w] # {}
    /\ Fault
    /\ Release(w)
    /\ UNCHANGED <<requestVars, row, attempts, waiting, log, running>>

\* stop() cancels the task, whose transaction is rolled back.
Stop(w) ==
    /\ w \in running
    /\ Fault
    /\ running' = running \ {w}
    /\ Release(w)
    /\ UNCHANGED <<requestVars, row, attempts, waiting, log>>

\* next_attempt_at of a backed-off row is reached.
BackoffEnds(e) ==
    /\ e \in waiting
    /\ waiting' = waiting \ {e}
    /\ UNCHANGED <<requestVars, row, attempts, log, workerVars, faults>>

\* A starting replica deletes the log rows older than the retention period.
Cleanup ==
    \E S \in SUBSET {e \in Event : log[e] = "present"} :
        /\ S # {}
        /\ log' = [e \in Event |-> IF e \in S THEN "expired" ELSE log[e]]
        /\ UNCHANGED <<requestVars, row, attempts, waiting, workerVars, faults>>

----------------------------------------------------------------------------
RequestStep(e) ==
    \/ Log(e) \/ LogFails(e) \/ Change(e) \/ ChangeFails(e)
    \/ Answer(e) \/ CloseSession(e) \/ RequestDies(e)

WorkerStep(w) ==
    \/ Claim(w) \/ Commit(w)
    \/ \E e \in Event : Deliver(w, e) \/ DeliverFails(w, e)

\* Every request is over and every recorded event is settled.
Quiet ==
    /\ \A e \in Event : request[e] \notin {"open", "answered"} /\ row[e] # "pending"
    /\ UNCHANGED vars

Next ==
    \/ \E e \in Event : RequestStep(e) \/ BackoffEnds(e)
    \/ \E w \in Worker : Start(w) \/ WorkerStep(w) \/ RollBack(w) \/ Stop(w)
    \/ Cleanup
    \/ Quiet

\* The delivery loop of a running worker goes on, and time passes.
Fairness ==
    /\ \A w \in Worker : WF_vars(WorkerStep(w))
    /\ \A e \in Event : WF_vars(BackoffEnds(e))

Spec == Init /\ [][Next]_vars /\ Fairness

----------------------------------------------------------------------------
(* Properties                                                              *)

\* Delivery is exactly-once through crashes, rollbacks, several workers and
\* retention: an event has been in the log if and only if its row is completed.
DeliveredExactlyOnce == \A e \in Event : log[e] # "absent" <=> row[e] = "completed"

\* No event is tried for ever and none is given up early: "failed" stands for
\* max_attempts counted failures, however many rollbacks came in between.
RetriesBounded ==
    \A e \in Event :
        /\ row[e] = "failed" => attempts[e] = MaxAttempts
        /\ row[e] = "pending" => attempts[e] < MaxAttempts

\* A recorded event is delivered or, after its attempts, given up, as long as
\* some replica runs its worker; a poisoned event does not hold up the others.
EventsSettle ==
    []<>(running # {}) =>
        \A e \in Event :
            row[e] = "pending" ~> (row[e] = "completed" \/ (row[e] = "failed"
                                     /\ (e \in Poison \/ faults > 0)))

\* The abstract view: one trail per event.
Trail == INSTANCE AuditTrail WITH
    tries <- attempts,
    trail <- [e \in Event |-> IF log[e] = "present" THEN "logged"
                              ELSE IF log[e] = "expired" THEN "purged"
                              ELSE IF row[e] = "failed" THEN "abandoned"
                              ELSE IF row[e] = "none" THEN "none" ELSE "recorded"]

\* Workers, claims and transactions together behave like a trail per event.
ImplementsTrail == Trail!TrailSpec

\* ADR-011: "Committed business changes do not silently lose their audit event".
ChangeKeepsEvent ==
    \A e \in changed : request[e] \in {"closed", "died"} => row[e] # "none"
=============================================================================
