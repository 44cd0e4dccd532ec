-------------------------- MODULE SchedulerOwnership --------------------------
(***************************************************************************)
(* Which replica runs the scheduled scripts.  Every replica of the API has *)
(* an APScheduler engine; a PostgreSQL session advisory lock elects the    *)
(* replica whose jobs really execute.                                      *)
(*                                                                         *)
(*   app/adapters/persistence/scheduler_ownership.py   the lock adapter    *)
(*   app/adapters/runtime/apscheduler_runtime.py       monitor, stop, job  *)
(*   app/di/providers_modules/scheduler.py             start and finalizer *)
(*   app/api/v2/internal.py                            trigger-now         *)
(*                                                                         *)
(* The lock belongs to a database session.  A session whose client is gone *)
(* (crash, broken connection, cancelled query) keeps the lock until the    *)
(* server notices: `session' says whether the holder is such a one.        *)
(* Only the PostgreSQL path is modelled: on any other dialect              *)
(* try_acquire() answers TRUE and no monitor is started.                   *)
(***************************************************************************)
EXTENDS Scheduler

CONSTANTS
    NoReplica,    \* "nobody holds the lock"
    E2EEnabled    \* settings.E2E_ENABLED

ASSUME OwnershipAssumption ==
    /\ NoReplica \notin Replica
    /\ E2EEnabled \in BOOLEAN
    /\ MaxFaults \in Nat

VARIABLES
    monitor,    \* the acquire/monitor coroutine: off, sleep, trying, granted,
                \* refused, probing
    acquired,   \* replicas with SqlAlchemySchedulerOwnership._acquired set
    conn,       \* SqlAlchemySchedulerOwnership._connection: none, live, broken
    ownerGauge, \* replicas with the SCHEDULER_OWNER gauge at 1 (and the runtime's own _owns_execution,
                \* which nothing reads once an ownership adapter is configured)
    lock,       \* server side: whose session holds the advisory lock
    session,    \* server side: the holding session is none (lock free),
                \* attached, or an orphan that has lost its client
    running     \* executions in flight: <<script, "cron" or "manual">>

ownershipVars == <<phase, monitor, acquired, conn, ownerGauge, lock, session, running, faults>>

Origin == {"cron", "manual"}

OwnershipTypeOK ==
    /\ phase \in [Replica -> {"down", "booting", "up", "stopping", "leaving"}]
    /\ monitor \in [Replica ->
           {"off", "sleep", "trying", "granted", "refused", "probing"}]
    /\ acquired \subseteq Replica
    /\ conn \in [Replica -> {"none", "live", "broken"}]
    /\ ownerGauge \subseteq Replica
    /\ lock \in Replica \cup {NoReplica}
    /\ session \in {"none", "attached", "orphan"}
    /\ running \in [Replica -> SUBSET (Script \X Origin)]
    /\ faults \in 0 .. MaxFaults

OwnershipInit ==
    /\ phase = [r \in Replica |-> "down"]
    /\ monitor = [r \in Replica |-> "off"]
    /\ acquired = {}
    /\ conn = [r \in Replica |-> "none"]
    /\ ownerGauge = {}
    /\ lock = NoReplica
    /\ session = "none"
    /\ running = [r \in Replica |-> {}]
    /\ faults = 0

\* A session of r holds the lock and r's process is attached to it.
Holds(r) == lock = r /\ session = "attached"

----------------------------------------------------------------------------
(* Acquiring the lock                                                      *)

\* get_script_scheduler: acquire_ownership() is awaited before the monitor and
\* the engine are started.
Start(r) ==
    /\ phase[r] = "down"
    /\ phase' = [phase EXCEPT ![r] = "booting"]
    /\ monitor' = [monitor EXCEPT ![r] = "trying"]
    /\ UNCHANGED <<acquired, conn, ownerGauge, lock, session, running, faults>>

\* The server runs SELECT pg_try_advisory_lock on a connection of its own.
ServerTryLock(r) ==
    /\ monitor[r] = "trying"
    /\ IF lock = NoReplica
          THEN /\ lock' = r
               /\ session' = "attached"
               /\ monitor' = [monitor EXCEPT ![r] = "granted"]
          ELSE /\ monitor' = [monitor EXCEPT ![r] = "refused"]
               /\ UNCHANGED <<lock, session>>
    /\ UNCHANGED <<phase, acquired, conn, ownerGauge, running, faults>>

\* The rest of try_acquire() and acquire_ownership() once the answer is here.
FinishTry(r) ==
    /\ monitor[r] \in {"granted", "refused"}
    /\ IF monitor[r] = "granted"
          THEN /\ acquired' = acquired \cup {r}
               /\ ownerGauge' = ownerGauge \cup {r}
               /\ conn' = [conn EXCEPT ![r] = "live"]
          ELSE /\ acquired' = acquired \ {r}
               /\ ownerGauge' = ownerGauge \ {r}
               /\ UNCHANGED conn
    /\ phase' = [phase EXCEPT ![r] = "up"]
    /\ monitor' = [monitor EXCEPT ![r] = "sleep"]
    /\ UNCHANGED <<lock, session, running, faults>>

\* The query raises: the connection is closed and the exception leaves
\* try_acquire().  The monitor logs the loss and sleeps; at startup nobody
\* catches it and the process ends.  A lock granted to the lost session stays
\* with the server.
TryFails(r) ==
    /\ monitor[r] \in {"trying", "granted"}
    /\ Fault
    /\ session' = IF monitor[r] = "granted" THEN "orphan" ELSE session
    /\ IF phase[r] = "booting"
          THEN /\ phase' = [phase EXCEPT ![r] = "down"]
               /\ monitor' = [monitor EXCEPT ![r] = "off"]
               /\ UNCHANGED ownerGauge
          ELSE /\ monitor' = [monitor EXCEPT ![r] = "sleep"]
               /\ ownerGauge' = ownerGauge \ {r}
               /\ UNCHANGED phase
    /\ UNCHANGED <<acquired, conn, lock, running>>

----------------------------------------------------------------------------
(* The ownership monitor: _monitor_ownership_with_port                     *)

\* Mutant: the monitor never tries to acquire.
MonitorOnlyProbes(r) ==
    /\ phase[r] = "up"
    /\ monitor[r] = "sleep"
    /\ monitor' = [monitor EXCEPT ![r] = "probing"]
    /\ UNCHANGED <<phase, acquired, conn, ownerGauge, lock, session, running, faults>>

MonitorWake(r) ==
    /\ phase[r] = "up"
    /\ monitor[r] = "sleep"
    /\ monitor' = [monitor EXCEPT ![r] = IF r \in acquired THEN "probing" ELSE "trying"]
    /\ UNCHANGED <<phase, acquired, conn, ownerGauge, lock, session, running, faults>>

\* A failed probe only clears the runtime's flag and gauge: neither _acquired
\* nor _connection of the adapter is reset.
Probe(r) ==
    /\ monitor[r] = "probing"
    /\ monitor' = [monitor EXCEPT ![r] = "sleep"]
    /\ ownerGauge' = IF conn[r] = "live" THEN ownerGauge ELSE ownerGauge \ {r}
    /\ UNCHANGED <<phase, acquired, conn, lock, session, running, faults>>

----------------------------------------------------------------------------
(* Executing                                                               *)

\* Mutant: the job does not ask owns_execution.
FireJobUnowned(r, s) ==
    /\ phase[r] = "up"
    /\ <<s, "cron">> \notin running[r]
    /\ running' = [running EXCEPT ![r] = @ \cup {<<s, "cron">>}]
    /\ UNCHANGED <<phase, monitor, acquired, conn, ownerGauge, lock, session, faults>>

\* A cron trigger fires.  owns_execution is the adapter's is_acquired; a job
\* that does not own execution is skipped and changes nothing.  max_instances=1
\* refuses a second instance of the same job.
FireJob(r, s) ==
    /\ phase[r] = "up"
    /\ r \in acquired
    /\ <<s, "cron">> \notin running[r]
    /\ running' = [running EXCEPT ![r] = @ \cup {<<s, "cron">>}]
    /\ UNCHANGED <<phase, monitor, acquired, conn, ownerGauge, lock, session, faults>>

\* POST /internal/e2e/scheduler/{script_id}/trigger-now.  The handler tests
\* `not scheduler.owns_execution', a method object, which is never true: there
\* is no ownership guard.
TriggerNow(r, s) ==
    /\ E2EEnabled
    /\ phase[r] = "up"
    /\ <<s, "manual">> \notin running[r]
    /\ running' = [running EXCEPT ![r] = @ \cup {<<s, "manual">>}]
    /\ UNCHANGED <<phase, monitor, acquired, conn, ownerGauge, lock, session, faults>>

FinishJob(r) ==
    /\ \E j \in running[r] : running' = [running EXCEPT ![r] = @ \ {j}]
    /\ UNCHANGED <<phase, monitor, acquired, conn, ownerGauge, lock, session, faults>>

----------------------------------------------------------------------------
(* Stopping                                                                *)

\* First half of stop(): the monitor is cancelled (a lock just granted to its
\* query is abandoned with the session) and the engine shuts down.  With wait=False
\* it only asks its jobs to cancel; they go on until they have cleaned up.
StopBegin(r) ==
    /\ phase[r] = "up"
    /\ phase' = [phase EXCEPT ![r] = "stopping"]
    /\ session' = IF monitor[r] = "granted" THEN "orphan" ELSE session
    /\ monitor' = [monitor EXCEPT ![r] = "off"]
    /\ UNCHANGED <<acquired, conn, ownerGauge, lock, running, faults>>

\* Mutant: release() gives the connection back to the pool without unlocking.
StopReleaseWithoutUnlock(r) ==
    /\ phase[r] = "stopping"
    /\ conn' = [conn EXCEPT ![r] = "none"]
    /\ acquired' = acquired \ {r}
    /\ ownerGauge' = ownerGauge \ {r}
    /\ phase' = [phase EXCEPT ![r] = "leaving"]
    /\ UNCHANGED <<monitor, lock, session, running, faults>>

\* Second half of stop(): release() unlocks on the lock's own connection,
\* closes it and forgets it; a failing unlock is only logged.  Nobody waits for the
\* jobs.
StopRelease(r) ==
    /\ phase[r] = "stopping"
    /\ IF conn[r] = "live" THEN lock' = NoReplica /\ session' = "none"
                         ELSE UNCHANGED <<lock, session>>
    /\ conn' = [conn EXCEPT ![r] = "none"]
    /\ acquired' = acquired \ {r}
    /\ ownerGauge' = ownerGauge \ {r}
    /\ phase' = [phase EXCEPT ![r] = "leaving"]
    /\ UNCHANGED <<monitor, running, faults>>

\* The process is gone, and with it the jobs that had not ended.
Exit(r) ==
    /\ phase[r] = "leaving"
    /\ phase' = [phase EXCEPT ![r] = "down"]
    /\ running' = [running EXCEPT ![r] = {}]
    /\ UNCHANGED <<monitor, acquired, conn, ownerGauge, lock, session, faults>>

----------------------------------------------------------------------------
(* The environment                                                         *)

\* The process dies; its sessions are orphans from now on.
Crash(r) ==
    /\ phase[r] # "down"
    /\ Fault
    /\ phase' = [phase EXCEPT ![r] = "down"]
    /\ session' = IF conn[r] = "live" \/ monitor[r] = "granted"
                   THEN "orphan" ELSE session
    /\ monitor' = [monitor EXCEPT ![r] = "off"]
    /\ acquired' = acquired \ {r}
    /\ conn' = [conn EXCEPT ![r] = "none"]
    /\ ownerGauge' = ownerGauge \ {r}
    /\ running' = [running EXCEPT ![r] = {}]
    /\ UNCHANGED lock

\* The lock's connection breaks (network, failover, pg_terminate_backend).
SessionLost(r) ==
    /\ conn[r] = "live"
    /\ Fault
    /\ conn' = [conn EXCEPT ![r] = "broken"]
    /\ session' = "orphan"
    /\ UNCHANGED <<phase, monitor, acquired, ownerGauge, lock, running>>

\* The server ends a session that lost its client and frees its lock.
ServerReap ==
    /\ session = "orphan"
    /\ lock' = NoReplica
    /\ session' = "none"
    /\ UNCHANGED <<phase, monitor, acquired, conn, ownerGauge, running, faults>>

----------------------------------------------------------------------------
OwnershipNext ==
    \/ \E r \in Replica :
          \/ Start(r) \/ ServerTryLock(r) \/ FinishTry(r) \/ TryFails(r)
          \/ MonitorWake(r) \/ Probe(r)
          \/ FinishJob(r)
          \/ StopBegin(r) \/ StopRelease(r) \/ Exit(r)
          \/ Crash(r) \/ SessionLost(r)
    \/ \E r \in Replica, s \in Script : FireJob(r, s) \/ TriggerNow(r, s)
    \/ ServerReap

\* The event loop keeps running every coroutine of a live process and the
\* server answers queries and reaps dead sessions; starting, stopping, firing
\* and every fault are up to the environment.
OwnershipFairness ==
    /\ \A r \in Replica :
          /\ WF_ownershipVars(ServerTryLock(r)) /\ WF_ownershipVars(FinishTry(r))
          /\ WF_ownershipVars(MonitorWake(r)) /\ WF_ownershipVars(Probe(r))
          /\ WF_ownershipVars(StopRelease(r))
    /\ WF_ownershipVars(ServerReap)

OwnershipSpec == OwnershipInit /\ [][OwnershipNext]_ownershipVars /\ OwnershipFairness

----------------------------------------------------------------------------
(* Properties                                                              *)

\* What every process believes about the lock agrees with the server, except
\* for a process whose session was lost.  This is the inductive core of the
\* safety argument.
Agreement ==
    /\ session = "none" <=> lock = NoReplica
    /\ \A r \in Replica :
          /\ conn[r] = "live" => Holds(r)
          /\ monitor[r] = "granted" => Holds(r)
          /\ r \in acquired <=> conn[r] # "none"
          /\ monitor[r] \in {"trying", "granted", "refused"} => r \notin acquired
          /\ phase[r] \in {"down", "stopping", "leaving"} => monitor[r] = "off"
          /\ phase[r] \in {"down", "booting", "leaving"} => r \notin acquired
          /\ phase[r] \in {"down", "booting"} => running[r] = {}
          /\ \A s \in Script :
                <<s, "cron">> \in running[r] => r \in acquired \/ phase[r] = "leaving"

\* A lock that the server does not see as orphaned is in the hands of a process
\* that will give it back: it has the connection, or the granting answer is on
\* its way.  Nothing in try_acquire(), stop() or release() may lose track of a
\* granted lock while its session lives.
NoLeakedLock ==
    \A r \in Replica : Holds(r) => conn[r] = "live" \/ monitor[r] = "granted"

\* Two replicas execute cron jobs at the same time only when one of them has
\* lost the database session of its lock, or has stopped and released the lock and
\* its jobs, asked to cancel, have not ended yet.  Crashes, failed queries, restarts
\* and any other moment of a shutdown never get there.
SingleExecutor ==
    \A r1, r2 \in Replica :
        /\ r1 # r2
        /\ \E s \in Script : <<s, "cron">> \in running[r1]
        /\ \E s \in Script : <<s, "cron">> \in running[r2]
        => \E r \in {r1, r2} : conn[r] = "broken" \/ phase[r] = "leaving"

Standby(r) == phase[r] = "up" /\ r \notin acquired

\* Failover: a free lock does not stay free while some standby is up, whatever
\* crashed before (_monitor_ownership_with_port retries).
StandbyTakesOver ==
    \A r \in Replica :
        (lock = NoReplica /\ Standby(r)) ~> (lock # NoReplica \/ ~Standby(r))

\* docs/en/architecture/runtime-lifecycle.md: "A non-owner replica serves HTTP
\* but never executes jobs."  A replica that has logged scheduler.owner.lost and
\* reports SCHEDULER_OWNER 0 starts no cron job.
NonOwnerNeverExecutes ==
    [][\A r \in Replica, s \in Script :
          <<s, "cron">> \in running'[r] \ running[r] => r \in ownerGauge]_ownershipVars

\* start_ownership_monitor: "Continuously acquire ownership after startup or
\* owner failover."  While a replica is up the lock does not stay free.
LockIsReacquired ==
    \A r \in Replica :
        (lock = NoReplica /\ phase[r] = "up") ~> (lock # NoReplica \/ phase[r] # "up")
=============================================================================
