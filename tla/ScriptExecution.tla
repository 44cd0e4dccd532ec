--------------------------- MODULE ScriptExecution ---------------------------
(***************************************************************************)
(* One call of ScriptExecutionService.execute_script on a set of nodes,    *)
(* with the cancel requests, the timeout and the faults that race with it. *)
(*                                                                         *)
(*   app/application/services/script_execution_service.py   the batch      *)
(*   app/application/services/execution_registry.py         task registry  *)
(*   app/application/services/execution_lifecycle_service.py  cancel       *)
(*   app/adapters/persistence/execution_lifecycle.py        cancel's rows  *)
(*                                                                         *)
(* A target is a node of the batch; targets are numbered in the order of   *)
(* the list, which is the order in which rows are created, the semaphore   *)
(* is granted and results are persisted.  What the steps of the script do  *)
(* on a node is abstracted to the outcome of _run_remote: success, or      *)
(* error (a failing step, a step timeout, a connection that fails).        *)
(***************************************************************************)
EXTENDS Naturals, FiniteSets

CONSTANTS
    N,            \* number of targets
    Concurrency,  \* _SCRIPT_NODE_CONCURRENCY
    OtherReplica, \* a cancel may be served by another replica, or come after the
                  \* registry dropped an entry older than _TTL_SECONDS
    MaxFaults     \* bound on failed database calls and crashes

ASSUME ExecutionAssumption ==
    /\ N \in Nat \ {0}
    /\ Concurrency \in Nat \ {0}
    /\ OtherReplica \in BOOLEAN
    /\ MaxFaults \in Nat

VARIABLES
    batch,    \* execute_script: creating, running, cancelling (its timeout
              \* fired), timedOut, persisting, returned, raised, dead
    row,      \* script_executions.status, "none" before the row exists
    tasks,    \* the target's coroutine: none, waiting (semaphore), remote,
              \* aborting (cancelled, closing its connection), aborted, finished
    outcome,  \* status of the ScriptNodeResultDTO of a finished task
    todo,     \* targets whose row has still to be created or written
    cancel,   \* the target's cancel request: none, begun, aborted (its task was
              \* cancelled), writing, ok, notFound
    events,   \* SSE events published for the execution
    faults

batchVars == <<batch, row, tasks, outcome, todo, cancel, events, faults>>

Target == 1 .. N
Terminal == {"success", "error", "cancelled"}

BatchTypeOK ==
    /\ batch \in {"creating", "running", "cancelling", "timedOut", "persisting",
                  "returned", "raised", "dead"}
    /\ row \in [Target -> {"none", "running"} \cup Terminal]
    /\ tasks \in [Target -> {"none", "waiting", "remote", "aborting", "aborted", "finished"}]
    /\ outcome \in [Target -> {"none", "success", "error"}]
    /\ todo \subseteq Target
    /\ cancel \in [Target -> {"none", "begun", "aborted", "writing", "ok", "notFound"}]
    /\ events \in [Target -> SUBSET {"completed", "failed", "cancelled"}]
    /\ faults \in 0 .. MaxFaults

BatchInit ==
    /\ batch = "creating"
    /\ row = [t \in Target |-> "none"]
    /\ tasks = [t \in Target |-> "none"]
    /\ outcome = [t \in Target |-> "none"]
    /\ todo = Target
    /\ cancel = [t \in Target |-> "none"]
    /\ events = [t \in Target |-> {}]
    /\ faults = 0

Fault == faults < MaxFaults /\ faults' = faults + 1

First(S, t) == t \in S /\ \A u \in S : t <= u

\* Has a place in the execution registry: registered when the semaphore is
\* granted, dropped by the done callback.
Registered(t) == tasks[t] \in {"remote", "aborting"}

----------------------------------------------------------------------------
(* The batch: execute_script                                               *)

\* create_execution for the next node, status "running"; after the last one the
\* coroutines are gathered under wait_for.
Create(t) ==
    /\ batch = "creating"
    /\ First(todo, t)
    /\ row' = [row EXCEPT ![t] = "running"]
    /\ IF todo = {t}
          THEN /\ batch' = "running"
               /\ tasks' = [u \in Target |-> "waiting"]
          ELSE UNCHANGED <<batch, tasks>>
    /\ todo' = todo \ {t}
    /\ UNCHANGED <<outcome, cancel, events, faults>>

\* create_execution raises; the rows created so far are left as they are.
CreateFails ==
    /\ batch = "creating"
    /\ Fault
    /\ batch' = "raised"
    /\ todo' = {}
    /\ UNCHANGED <<row, tasks, outcome, cancel, events>>

\* The semaphore is granted in order; the task registers itself.
StartRemote(t) ==
    /\ First({u \in Target : tasks[u] = "waiting"}, t)
    /\ Cardinality({u \in Target : Registered(u)}) < Concurrency
    /\ tasks' = [tasks EXCEPT ![t] = "remote"]
    /\ UNCHANGED <<batch, row, outcome, todo, cancel, events, faults>>

\* _run_remote returns.
RemoteEnds(t, o) ==
    /\ tasks[t] = "remote"
    /\ tasks' = [tasks EXCEPT ![t] = "finished"]
    /\ outcome' = [outcome EXCEPT ![t] = o]
    /\ UNCHANGED <<batch, row, todo, cancel, events, faults>>

\* A cancelled task has closed its connection.  gather() passes the
\* CancelledError on and no handler of execute_script catches it: the call is
\* over, the other tasks go on.  After the deadline see TimeoutRaised.
AbortEnds(t) ==
    /\ tasks[t] = "aborting"
    /\ tasks' = [tasks EXCEPT ![t] = "aborted"]
    /\ batch' = IF batch = "running" THEN "raised" ELSE batch
    /\ UNCHANGED <<row, outcome, todo, cancel, events, faults>>

\* gather() is done and the call resumes with the results.
Gathered ==
    /\ batch = "running"
    /\ \A t \in Target : tasks[t] = "finished"
    /\ batch' = "persisting"
    /\ todo' = Target
    /\ UNCHANGED <<row, tasks, outcome, cancel, events, faults>>

\* update_execution with the outcome, unconditionally, then the SSE event.
Persist(t) ==
    /\ batch = "persisting"
    /\ First(todo, t)
    /\ row' = [row EXCEPT ![t] = outcome[t]]
    /\ events' = [events EXCEPT ![t] =
                    @ \cup {IF outcome[t] = "success" THEN "completed" ELSE "failed"}]
    /\ todo' = todo \ {t}
    /\ UNCHANGED <<batch, tasks, outcome, cancel, faults>>

\* A failing update_execution is logged and skipped, in both loops.
PersistFails(t) ==
    /\ batch \in {"persisting", "timedOut"}
    /\ First(todo, t)
    /\ Fault
    /\ todo' = todo \ {t}
    /\ UNCHANGED <<batch, row, tasks, outcome, cancel, events>>

\* Mutant: the handler of the timeout falls through to the other loop.
ReturnFallsThrough ==
    /\ batch \in {"persisting", "timedOut"}
    /\ todo = {}
    /\ batch' = IF batch = "persisting" THEN "returned" ELSE "persisting"
    /\ todo' = IF batch = "persisting" THEN {} ELSE Target
    /\ UNCHANGED <<row, tasks, outcome, cancel, events, faults>>

\* Both loops end: with the results, or with a TimeoutError.
Return ==
    /\ batch \in {"persisting", "timedOut"}
    /\ todo = {}
    /\ batch' = IF batch = "persisting" THEN "returned" ELSE "raised"
    /\ UNCHANGED <<row, tasks, outcome, todo, cancel, events, faults>>

\* wait_for's deadline passes (it can win even when every task is done): gather()
\* asks the tasks to cancel.
Timeout ==
    /\ batch = "running"
    /\ batch' = "cancelling"
    /\ tasks' = [t \in Target |-> CASE tasks[t] = "waiting" -> "aborted"
                                   [] tasks[t] = "remote"  -> "aborting"
                                   [] OTHER               -> tasks[t]]
    /\ UNCHANGED <<row, outcome, todo, cancel, events, faults>>

\* gather() ends with its first cancelled task, or when all had ended before: the
\* handler runs while the other tasks still close their connections.
TimeoutRaised ==
    /\ batch = "cancelling"
    /\ \/ \E t \in Target : tasks[t] = "aborted"
       \/ \A t \in Target : tasks[t] = "finished"
    /\ batch' = "timedOut"
    /\ todo' = Target
    /\ UNCHANGED <<row, tasks, outcome, cancel, events, faults>>

\* Mutant: targets that finished before the deadline are forgotten.
PersistTimeoutUnfinished(t) ==
    /\ batch = "timedOut"
    /\ First(todo, t)
    /\ IF tasks[t] = "finished"
          THEN UNCHANGED <<row, events>>
          ELSE /\ row' = [row EXCEPT ![t] = "error"]
               /\ events' = [events EXCEPT ![t] = @ \cup {"failed"}]
    /\ todo' = todo \ {t}
    /\ UNCHANGED <<batch, tasks, outcome, cancel, faults>>

\* Every execution of the batch is marked "error", finished ones included.
PersistTimeout(t) ==
    /\ batch = "timedOut"
    /\ First(todo, t)
    /\ row' = [row EXCEPT ![t] = "error"]
    /\ events' = [events EXCEPT ![t] = @ \cup {"failed"}]
    /\ todo' = todo \ {t}
    /\ UNCHANGED <<batch, tasks, outcome, cancel, faults>>

\* The process ends, or the scheduler's stop() cancels the job that runs the
\* batch: nothing is written any more.
BatchDies ==
    /\ batch \notin {"returned", "raised", "dead"}
    /\ Fault
    /\ batch' = "dead"
    /\ tasks' = [t \in Target |-> IF tasks[t] \in {"waiting", "remote", "aborting"}
                                    THEN "aborted" ELSE tasks[t]]
    /\ UNCHANGED <<row, outcome, todo, cancel, events>>

----------------------------------------------------------------------------
(* Cancelling: ExecutionLifecycleService.cancel_execution                  *)

\* The in-memory task first.  A task that still waits for the semaphore, or that
\* belongs to another replica, is not in the registry.
CancelTask(t, local) ==
    /\ cancel[t] = "none"
    /\ row[t] # "none"
    /\ IF local /\ Registered(t)
          THEN /\ tasks' = [tasks EXCEPT ![t] = "aborting"]
               /\ events' = [events EXCEPT ![t] = @ \cup {"cancelled"}]
               /\ cancel' = [cancel EXCEPT ![t] = "aborted"]
          ELSE /\ cancel' = [cancel EXCEPT ![t] = "begun"]
               /\ UNCHANGED <<tasks, events>>
    /\ UNCHANGED <<batch, row, outcome, todo, faults>>

\* The gateway's transaction reads the status; without a task and without a
\* running row the answer is ExecutionNotFoundError.
CancelRead(t) ==
    /\ cancel[t] \in {"begun", "aborted"}
    /\ cancel' = [cancel EXCEPT ![t] = IF row[t] = "running" THEN "writing"
                                       ELSE IF @ = "begun" THEN "notFound" ELSE "ok"]
    /\ UNCHANGED <<batch, row, tasks, outcome, todo, events, faults>>

\* ... and writes, whatever the status is by now: the row was read without a lock.
CancelWrite(t) ==
    /\ cancel[t] = "writing"
    /\ row' = [row EXCEPT ![t] = "cancelled"]
    /\ cancel' = [cancel EXCEPT ![t] = "ok"]
    /\ UNCHANGED <<batch, tasks, outcome, todo, events, faults>>

----------------------------------------------------------------------------
\* Nothing is left to do.
Done ==
    /\ batch \in {"returned", "raised", "dead"}
    /\ \A t \in Target : tasks[t] \in {"none", "finished", "aborted"}
    /\ UNCHANGED batchVars

BatchStep ==
    \/ Gathered \/ Return \/ TimeoutRaised
    \/ \E t \in Target : Create(t) \/ Persist(t) \/ PersistTimeout(t)

TaskStep(t) ==
    \/ StartRemote(t) \/ AbortEnds(t)
    \/ \E o \in {"success", "error"} : RemoteEnds(t, o)

CancelStep(t) == CancelRead(t) \/ CancelWrite(t)

BatchNext ==
    \/ BatchStep
    \/ \E t \in Target :
          \/ TaskStep(t) \/ CancelStep(t) \/ PersistFails(t)
          \/ CancelTask(t, TRUE)
          \/ OtherReplica /\ CancelTask(t, FALSE)
    \/ CreateFails \/ Timeout \/ BatchDies
    \/ Done

\* The event loop runs every coroutine; a remote command ends or the timeout of
\* the script does it.
BatchFairness ==
    /\ WF_batchVars(BatchStep)
    /\ \A t \in Target : WF_batchVars(TaskStep(t)) /\ WF_batchVars(CancelStep(t))

BatchSpec == BatchInit /\ [][BatchNext]_batchVars /\ BatchFairness

----------------------------------------------------------------------------
(* Properties                                                              *)

\* A row says success only for a node on which the script ran to a successful
\* end, whatever raced with it: no cancel, timeout or lost write invents one.
NoFalseSuccess ==
    \A t \in Target :
        row[t] = "success" => tasks[t] = "finished" /\ outcome[t] = "success"

\* "completed" and "failed" are published after the row was stored with that outcome,
\* never both for one execution, and only a cancel overwrites the row afterwards.  The
\* event of a cancel goes out before its row is written: it may be followed by
\* "failed", when the batch times out, and never comes with "completed".
EventsTruthful ==
    \A t \in Target :
        /\ "completed" \in events[t] =>
              events[t] = {"completed"} /\ row[t] \in {"success", "cancelled"}
        /\ "failed" \in events[t] => row[t] \in {"error", "cancelled"}

\* An answered cancel leaves no execution in "running".
CancelSettles ==
    \A t \in Target : cancel[t] \in {"ok", "notFound"} => row[t] \in Terminal

Undisturbed == faults = 0 /\ \A t \in Target : cancel[t] = "none"

\* A batch that nobody cancels and no fault hits ends, with or without its
\* timeout, and leaves every execution in a terminal status.
UndisturbedBatchEnds ==
    []Undisturbed => <>[](\A t \in Target : row[t] \in Terminal)

\* docs/en/guides/scripts.md: "Only `running` executions can be cancelled."
OnlyRunningCancelled ==
    [][\A t \in Target :
          row'[t] = "cancelled" /\ row[t] # "cancelled" => row[t] = "running"]_batchVars

\* docs/en/guides/scripts.md: "Cancels abort still-running executions."  After a
\* cancel was answered with success the script is not started on that node.
CancelAborts ==
    [][\A t \in Target : cancel[t] = "ok" /\ tasks'[t] = "remote" => tasks[t] = "remote"]_batchVars

\* docs/en/guides/scripts.md: "partial failures do not roll back successful
\* executions."  A successful execution does not stay "running" for ever because
\* another one of the batch was cancelled.
SuccessIsRecorded ==
    \A t \in Target : outcome[t] = "success" ~> (row[t] \in Terminal \/ faults > 0)
=============================================================================
