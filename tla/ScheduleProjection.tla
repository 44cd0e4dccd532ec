-------------------------- MODULE ScheduleProjection --------------------------
(***************************************************************************)
(* Desired schedules and their runtime projection.  script_schedules is    *)
(* the source of truth; the jobs of each replica's APScheduler engine are  *)
(* an ephemeral copy, written by the request handlers of that replica and  *)
(* rebuilt at startup and periodically by its reconciler.                  *)
(*                                                                         *)
(*   app/application/services/schedule_management.py      the requests     *)
(*   app/application/services/schedule_reconciliation.py  the reconciler   *)
(*   app/adapters/persistence/schedule.py                 the transactions *)
(*   app/adapters/runtime/apscheduler_runtime.py          loop and engine  *)
(*   app/adapters/lifecycle/application_startup.py        first restore    *)
(*                                                                         *)
(* Every await of a database call is a point where the other coroutines of *)
(* the process, and the other processes, may run; between two awaits a     *)
(* coroutine is atomic.                                                    *)
(***************************************************************************)
EXTENDS Scheduler

CONSTANTS
    Definition,     \* (cron, timezone, nodes, params, grace) of a schedule
    NoSchedule,     \* no row, or no job
    NoScript,       \* no script
    Request,        \* slots for requests in flight
    Unregistrable,  \* <<replica, definition>>: the replica cannot build the
                    \* trigger (its tz database lacks the zone)
    MaxEdits        \* bound on upserts and deletes

ASSUME ProjectionAssumption ==
    /\ NoSchedule \notin Definition
    /\ NoScript \notin Script
    /\ Unregistrable \subseteq Replica \X Definition
    /\ MaxEdits \in Nat
    /\ MaxFaults \in Nat

VARIABLES
    scripts,   \* scripts that exist
    db,        \* script_schedules: script -> definition
    opState,   \* script_schedules.operational_state
    jobs,      \* the engine's jobs: replica -> script -> definition
    ready,     \* replicas with ApschedulerRuntime._ready
    recPc,     \* the reconciler: off, idle, listed, marking, marked
    snap,      \* ... the schedules it listed
    todo,      \* ... the listed schedules it has not applied yet
    cur,       \* ... the schedule whose state it is writing
    touched,   \* history: scripts whose job a request of this replica set or
               \* removed since the reconciler's last listing
    req,       \* requests: [pc, replica, script, def]
    edits

recVars == <<recPc, snap, todo, cur>>
vars == <<scripts, db, opState, phase, jobs, ready, recVars, touched, req, edits, faults>>

Schedules == [Script -> Definition \cup {NoSchedule}]
NoJobs == [s \in Script |-> NoSchedule]

Idle == [pc |-> "idle"]
RequestState ==
    {Idle} \cup [pc : {"apply", "mark"}, replica : Replica, script : Script,
                 def : Definition]
           \cup [pc : {"remove"}, replica : Replica, script : Script]

TypeOK ==
    /\ scripts \subseteq Script
    /\ db \in Schedules
    /\ opState \in [Script -> {"pending_registration", "registered"}]
    /\ phase \in [Replica -> {"down", "restoring", "up"}]
    /\ jobs \in [Replica -> Schedules]
    /\ ready \subseteq Replica
    /\ recPc \in [Replica -> {"off", "idle", "listed", "marking", "marked"}]
    /\ snap \in [Replica -> Schedules]
    /\ todo \in [Replica -> SUBSET Script]
    /\ cur \in [Replica -> Script \cup {NoScript}]
    /\ touched \in [Replica -> SUBSET Script]
    /\ req \in [Request -> RequestState]
    /\ edits \in 0 .. MaxEdits
    /\ faults \in 0 .. MaxFaults

Init ==
    /\ scripts = Script
    /\ db = NoJobs
    /\ opState = [s \in Script |-> "registered"]
    /\ phase = [r \in Replica |-> "down"]
    /\ jobs = [r \in Replica |-> NoJobs]
    /\ ready = {}
    /\ recPc = [r \in Replica |-> "off"]
    /\ snap = [r \in Replica |-> NoJobs]
    /\ todo = [r \in Replica |-> {}]
    /\ cur = [r \in Replica |-> NoScript]
    /\ touched = [r \in Replica |-> {}]
    /\ req = [q \in Request |-> Idle]
    /\ edits = 0
    /\ faults = 0

Edit == edits < MaxEdits /\ edits' = edits + 1

\* ZoneInfo(timezone) and CronTrigger.from_crontab(cron) succeed on r.
Registrable(r, d) == <<r, d>> \notin Unregistrable

\* UPDATE script_schedules SET operational_state = 'registered' WHERE script_id
\* = s: no row, no effect.
MarkRegistered(s) ==
    opState' = IF db[s] = NoSchedule THEN opState
                                     ELSE [opState EXCEPT ![s] = "registered"]

----------------------------------------------------------------------------
(* The reconciler: reconcile(), run by restore() at startup and then by    *)
(* _reconcile_loop                                                         *)

\* ApplicationStartup.run begins restoring; the server is not listening yet.
Boot(r) ==
    /\ phase[r] = "down"
    /\ phase' = [phase EXCEPT ![r] = "restoring"]
    /\ recPc' = [recPc EXCEPT ![r] = "idle"]
    /\ UNCHANGED <<scripts, db, opState, jobs, ready, snap, todo, cur, touched, req,
                   edits, faults>>

\* Mutant: the loop applies the listing of the startup again.
RecListOnce(r) ==
    LET listing == IF phase[r] = "up" THEN snap[r] ELSE db IN
    /\ recPc[r] = "idle"
    /\ recPc' = [recPc EXCEPT ![r] = "listed"]
    /\ snap' = [snap EXCEPT ![r] = listing]
    /\ todo' = [todo EXCEPT ![r] = {s \in Script : listing[s] # NoSchedule}]
    /\ touched' = [touched EXCEPT ![r] = {}]
    /\ UNCHANGED <<scripts, db, opState, phase, jobs, ready, cur, req, edits, faults>>

\* list_enabled_schedules() reads the table.
RecList(r) ==
    /\ recPc[r] = "idle"
    /\ recPc' = [recPc EXCEPT ![r] = "listed"]
    /\ snap' = [snap EXCEPT ![r] = db]
    /\ todo' = [todo EXCEPT ![r] = {s \in Script : db[s] # NoSchedule}]
    /\ touched' = [touched EXCEPT ![r] = {}]
    /\ UNCHANGED <<scripts, db, opState, phase, jobs, ready, cur, req, edits, faults>>

\* Mutant: orphans are not removed.
SweptKeepsOrphans(r) == jobs[r]

\* The engine's jobs once the orphans are removed, which happens when the list
\* arrives and before the first schedule is applied.
Swept(r) ==
    IF recPc[r] = "listed"
       THEN [s \in Script |-> IF snap[r][s] = NoSchedule THEN NoSchedule ELSE jobs[r][s]]
       ELSE jobs[r]

\* add_or_replace() of the next schedule; then the reconciler waits for
\* mark_registration("registered").
RecApply(r) ==
    /\ recPc[r] \in {"listed", "marked"}
    /\ \E s \in todo[r] :
          /\ Registrable(r, snap[r][s])
          /\ jobs' = [jobs EXCEPT ![r] = [Swept(r) EXCEPT ![s] = snap[r][s]]]
          /\ todo' = [todo EXCEPT ![r] = @ \ {s}]
          /\ cur' = [cur EXCEPT ![r] = s]
    /\ recPc' = [recPc EXCEPT ![r] = "marking"]
    /\ UNCHANGED <<scripts, db, opState, phase, ready, snap, touched, req, edits, faults>>

\* Mutant: the reconciler does not write the registration state.
RecMarkSkipped(r) ==
    /\ recPc[r] = "marking"
    /\ recPc' = [recPc EXCEPT ![r] = "marked"]
    /\ UNCHANGED <<scripts, db, opState, phase, jobs, ready, snap, todo, cur, touched,
                   req, edits, faults>>

\* The transaction of mark_registration commits.
RecMark(r) ==
    /\ recPc[r] = "marking"
    /\ MarkRegistered(cur[r])
    /\ recPc' = [recPc EXCEPT ![r] = "marked"]
    /\ UNCHANGED <<scripts, db, phase, jobs, ready, snap, todo, cur, touched, req, edits,
                   faults>>

\* reconcile() returns: mark_restored(failed=0); at startup the process goes on
\* to serve requests.
RecDone(r) ==
    /\ recPc[r] \in {"listed", "marked"}
    /\ todo[r] = {}
    /\ jobs' = [jobs EXCEPT ![r] = Swept(r)]
    /\ ready' = ready \cup {r}
    /\ phase' = [phase EXCEPT ![r] = "up"]
    /\ recPc' = [recPc EXCEPT ![r] = "idle"]
    /\ UNCHANGED <<scripts, db, opState, snap, todo, cur, touched, req, edits, faults>>

\* reconcile() raises.  The loop publishes not-ready and tries again after its
\* interval; at startup nobody catches the exception and the process ends.
Abort(r) ==
    /\ ready' = ready \ {r}
    /\ IF phase[r] = "up"
          THEN /\ recPc' = [recPc EXCEPT ![r] = "idle"]
               /\ jobs' = [jobs EXCEPT ![r] = Swept(r)]
               /\ UNCHANGED phase
          ELSE /\ recPc' = [recPc EXCEPT ![r] = "off"]
               /\ jobs' = [jobs EXCEPT ![r] = NoJobs]
               /\ phase' = [phase EXCEPT ![r] = "down"]
    /\ UNCHANGED <<scripts, db, opState, snap, todo, cur, touched, req, edits>>

\* The next schedule cannot be registered.  A missing zone raises a KeyError,
\* which is not caught; a ValueError is, but then mark_registration writes
\* "registration_failed", a value the check constraint of the table refuses, and
\* the IntegrityError leaves reconcile() as well.
RecUnregistrable(r) ==
    /\ recPc[r] \in {"listed", "marked"}
    /\ \E s \in todo[r] : ~Registrable(r, snap[r][s])
    /\ Abort(r)
    /\ UNCHANGED faults

\* A database call of the reconciler fails: the list (nothing applied, nothing
\* swept) or mark_registration.
RecFails(r) ==
    /\ recPc[r] \in {"idle", "marking"}
    /\ Fault
    /\ Abort(r)

----------------------------------------------------------------------------
(* Requests: ScheduleManagementService                                     *)

\* The transaction of upsert_schedule; a changed schedule is to be registered anew.
UpsertRow(s, d) ==
    /\ db' = [db EXCEPT ![s] = d]
    /\ opState' = [opState EXCEPT ![s] = "pending_registration"]

\* create_or_update() up to the commit of upsert_schedule.  The script must
\* exist (it is read first, and the foreign key insists) and validate() runs on
\* the replica that serves the request.
Upsert(q, r, s, d) ==
    /\ req[q].pc = "idle"
    /\ phase[r] = "up"
    /\ s \in scripts
    /\ Registrable(r, d)
    /\ Edit
    /\ UpsertRow(s, d)
    /\ req' = [req EXCEPT ![q] = [pc |-> "apply", replica |-> r, script |-> s, def |-> d]]
    /\ UNCHANGED <<scripts, phase, jobs, ready, recVars, touched, faults>>

\* The committed row is back: add_or_replace() of the values this request wrote.
Apply(q) ==
    /\ req[q].pc = "apply"
    /\ LET r == req[q].replica
           s == req[q].script IN
       /\ jobs' = [jobs EXCEPT ![r] = [@ EXCEPT ![s] = req[q].def]]
       /\ touched' = [touched EXCEPT ![r] = @ \cup {s}]
    /\ req' = [req EXCEPT ![q].pc = "mark"]
    /\ UNCHANGED <<scripts, db, opState, phase, ready, recVars, edits, faults>>

\* The end of create_or_update(): mark_registration("registered") commits.
Mark(q) ==
    /\ req[q].pc = "mark"
    /\ MarkRegistered(req[q].script)
    /\ req' = [req EXCEPT ![q] = Idle]
    /\ UNCHANGED <<scripts, db, phase, jobs, ready, recVars, touched, edits, faults>>

\* The transaction of delete_schedule, which finds a row or answers False.
DeleteRow(s) ==
    /\ db[s] # NoSchedule
    /\ db' = [db EXCEPT ![s] = NoSchedule]

\* delete(): the row is deleted; without a row the request ends with 404.
Delete(q, r, s) ==
    /\ req[q].pc = "idle"
    /\ phase[r] = "up"
    /\ DeleteRow(s)
    /\ Edit
    /\ req' = [req EXCEPT ![q] = [pc |-> "remove", replica |-> r, script |-> s]]
    /\ UNCHANGED <<scripts, opState, phase, jobs, ready, recVars, touched, faults>>

\* The end of delete(): the job is removed from this replica's engine.
Remove(q) ==
    /\ req[q].pc = "remove"
    /\ LET r == req[q].replica
           s == req[q].script IN
       /\ jobs' = [jobs EXCEPT ![r] = [@ EXCEPT ![s] = NoSchedule]]
       /\ touched' = [touched EXCEPT ![r] = @ \cup {s}]
    /\ req' = [req EXCEPT ![q] = Idle]
    /\ UNCHANGED <<scripts, db, opState, phase, ready, recVars, edits, faults>>

\* A database call of a request fails or its client is gone: the steps already
\* taken stay.
RequestFails(q) ==
    /\ req[q].pc # "idle"
    /\ Fault
    /\ req' = [req EXCEPT ![q] = Idle]
    /\ UNCHANGED <<scripts, db, opState, phase, jobs, ready, recVars, touched, edits>>

\* Deleting a script cascades to its schedule row; no engine is told.
DeleteScript(s) ==
    /\ s \in scripts
    /\ \E r \in Replica : phase[r] = "up"
    /\ Edit
    /\ scripts' = scripts \ {s}
    /\ db' = [db EXCEPT ![s] = NoSchedule]
    /\ UNCHANGED <<opState, phase, jobs, ready, recVars, touched, req, faults>>

\* The process stops or dies: engine, reconciler and requests are gone.
ProcessEnds(r) ==
    /\ phase[r] # "down"
    /\ Fault
    /\ phase' = [phase EXCEPT ![r] = "down"]
    /\ jobs' = [jobs EXCEPT ![r] = NoJobs]
    /\ ready' = ready \ {r}
    /\ recPc' = [recPc EXCEPT ![r] = "off"]
    /\ req' = [q \in Request |-> IF req[q] # Idle /\ req[q].replica = r THEN Idle
                                                                      ELSE req[q]]
    /\ UNCHANGED <<scripts, db, opState, snap, todo, cur, touched, edits>>

----------------------------------------------------------------------------
RecContinues(r) == RecApply(r) \/ RecDone(r) \/ RecUnregistrable(r)

Next ==
    \/ \E r \in Replica :
          \/ Boot(r) \/ RecList(r) \/ RecContinues(r) \/ RecMark(r) \/ RecFails(r)
          \/ ProcessEnds(r)
    \/ \E q \in Request :
          \/ \E r \in Replica, s \in Script :
                Delete(q, r, s) \/ \E d \in Definition : Upsert(q, r, s, d)
          \/ Apply(q) \/ Mark(q) \/ Remove(q) \/ RequestFails(q)
    \/ \E s \in Script : DeleteScript(s)

\* The event loop resumes the reconciler and every request; the interval of the
\* reconciliation loop ends.  Booting, requests and faults are the environment's.
Fairness ==
    /\ \A r \in Replica :
          WF_vars(RecList(r)) /\ WF_vars(RecContinues(r)) /\ WF_vars(RecMark(r))
    /\ \A q \in Request : WF_vars(Apply(q)) /\ WF_vars(Mark(q)) /\ WF_vars(Remove(q))

Spec == Init /\ [][Next]_vars /\ Fairness

----------------------------------------------------------------------------
(* Properties                                                              *)

\* What the reconciler has guaranteed so far about the jobs that no request
\* touched since it listed the table.
Progress(r) ==
    \A s \in Script \ touched[r] :
        /\ recPc[r] \in {"marking", "marked"} /\ s \notin todo[r]
              => jobs[r][s] = snap[r][s]
        /\ recPc[r] = "idle" /\ r \in ready => jobs[r][s] = snap[r][s]

\* "readiness is reported only after successful reconciliation": a ready replica
\* whose reconciler is at rest runs exactly the schedules its last listing found,
\* up to what its own requests changed since; also in the middle of a pass, the
\* schedules already handled are in place and the orphans are gone.
ReadyMeansRestored == \A r \in Replica : Progress(r)

\* r can register every schedule of the table.
Able(r) == \A s \in Script : db[s] = NoSchedule \/ Registrable(r, db[s])

\* "runtime state converges back to the persistent registry": once edits and
\* faults end, every replica that is up and able to has exactly the jobs of the
\* table, whatever stale snapshot or half-done request was in flight.
Converges ==
    <>[](\A r \in Replica : phase[r] = "up" /\ Able(r) => jobs[r] = db)

\* No schedule stays pending_registration while some able replica stays up.
RegistrationSettles ==
    <>[](\E r \in Replica : phase[r] = "up" /\ Able(r))
      => <>[](\A s \in Script : db[s] # NoSchedule => opState[s] = "registered")

\* ADR-003: "Startup and periodic reconciliation rebuild missing jobs, replace
\* changed jobs, and remove runtime orphans."  One schedule that a replica cannot
\* register does not keep it from the others.
RegistrableConverge ==
    <>[](\A r \in Replica, s \in Script :
            phase[r] = "up" /\ (db[s] = NoSchedule \/ Registrable(r, db[s]))
              => jobs[r][s] = db[s])
=============================================================================
