--------------------------- MODULE SchedulerProofs ---------------------------
(***************************************************************************)
(* Safety of the scheduler: of the schedule projection for any number of   *)
(* replicas, scripts, definitions and requests in flight, any              *)
(* Unregistrable and any number of edits and faults; and of scheduler      *)
(* ownership for any set of replicas, any set of scripts and any number of *)
(* faults.                                                                 *)
(***************************************************************************)
EXTENDS ScheduleProjection, SchedulerOwnership, TLAPS

----------------------------------------------------------------------------
(* The projection.  ReadyMeansRestored is not inductive: the pass that     *)
(* starts with an empty todo list, and the sweep, need to know that a      *)
(* schedule outside `todo' right after the listing is one that the listing *)
(* did not find; and Boot that a process which is down is not ready.       *)

Listing ==
    \A r \in Replica :
        /\ recPc[r] = "listed" => todo[r] = {s \in Script : snap[r][s] # NoSchedule}
        /\ r \in ready => phase[r] = "up"

IInv == TypeOK /\ Listing /\ ReadyMeansRestored

\* Sweeping yields a job table again.
LEMMA SweptType == TypeOK => \A r \in Replica : Swept(r) \in Schedules
  BY DEF TypeOK, Swept, Schedules

\* Nothing is scheduled anywhere and every process is down.
LEMMA InitIInv == Init => IInv
<1> SUFFICES ASSUME Init PROVE IInv
  OBVIOUS
<1>1. TypeOK
  BY ProjectionAssumption DEF Init, TypeOK, Schedules, NoJobs, RequestState, Idle
<1>2. Listing
  BY DEF Init, Listing
<1>3. ReadyMeansRestored
  BY DEF Init, ReadyMeansRestored, Progress
<1> QED
  BY <1>1, <1>2, <1>3 DEF IInv

\* A request in flight names a replica and a script, and a definition when it
\* came from create_or_update().
LEMMA RequestFields ==
    ASSUME TypeOK, NEW q \in Request
    PROVE  /\ req[q].pc = "apply" => /\ req[q].replica \in Replica
                                     /\ req[q].script \in Script
                                     /\ req[q].def \in Definition
           /\ req[q].pc = "mark" => req[q].script \in Script
           /\ req[q].pc = "remove" => /\ req[q].replica \in Replica
                                      /\ req[q].script \in Script
<1> req[q] \in RequestState
  BY DEF TypeOK
<1> QED
  BY DEF RequestState, Idle

\* The reconciler keeps the types.
LEMMA ReconcilerTypeOK ==
    ASSUME TypeOK, NEW r \in Replica,
           Boot(r) \/ RecList(r) \/ RecContinues(r) \/ RecMark(r) \/ RecFails(r)
    PROVE  TypeOK'
<1> USE ProjectionAssumption DEF TypeOK
<1>0. Swept(r) \in Schedules /\ NoJobs \in Schedules
  BY SweptType DEF NoJobs, Schedules
<1>1. CASE Boot(r)
  BY <1>1 DEF Boot
<1>2. CASE RecList(r)
  BY <1>2 DEF RecList
<1>3. CASE RecApply(r)
  <2>1. PICK s \in todo[r] :
           /\ jobs' = [jobs EXCEPT ![r] = [Swept(r) EXCEPT ![s] = snap[r][s]]]
           /\ todo' = [todo EXCEPT ![r] = @ \ {s}]
           /\ cur' = [cur EXCEPT ![r] = s]
    BY <1>3 DEF RecApply
  <2>2. s \in Script /\ [Swept(r) EXCEPT ![s] = snap[r][s]] \in Schedules
    BY <1>0 DEF Schedules
  <2> QED
    BY <1>3, <2>1, <2>2 DEF RecApply
<1>4. CASE RecDone(r)
  BY <1>0, <1>4 DEF RecDone
<1>5. CASE RecUnregistrable(r)
  BY <1>0, <1>5 DEF RecUnregistrable, Abort
<1>6. CASE RecMark(r)
  BY <1>6 DEF RecMark, MarkRegistered
<1>7. CASE RecFails(r)
  BY <1>0, <1>7 DEF RecFails, Abort, Fault
<1> QED
  BY <1>1, <1>2, <1>3, <1>4, <1>5, <1>6, <1>7 DEF RecContinues

\* So do the requests, the deletion of a script and the end of a process.
LEMMA RequestTypeOK ==
    ASSUME TypeOK, NEW q \in Request,
           \/ Apply(q) \/ Mark(q) \/ Remove(q) \/ RequestFails(q)
           \/ \E r \in Replica, s \in Script :
                 Delete(q, r, s) \/ \E d \in Definition : Upsert(q, r, s, d)
    PROVE  TypeOK'
<1> USE ProjectionAssumption DEF TypeOK
<1> Idle \in RequestState
  BY DEF RequestState
<1>1. ASSUME NEW r \in Replica, NEW s \in Script, NEW d \in Definition,
             Upsert(q, r, s, d)
      PROVE  TypeOK'
  <2>1. [pc |-> "apply", replica |-> r, script |-> s, def |-> d] \in RequestState
    BY DEF RequestState
  <2> QED
    BY <1>1, <2>1 DEF Upsert, UpsertRow, Edit, Schedules, recVars
<1>2. ASSUME NEW r \in Replica, NEW s \in Script, Delete(q, r, s) PROVE TypeOK'
  <2>1. [pc |-> "remove", replica |-> r, script |-> s] \in RequestState
    BY DEF RequestState
  <2> QED
    BY <1>2, <2>1 DEF Delete, DeleteRow, Edit, Schedules, recVars
<1>3. CASE Apply(q)
  <2>1. /\ req[q].replica \in Replica
        /\ req[q].script \in Script
        /\ req[q].def \in Definition
    BY <1>3, RequestFields DEF Apply
  <2>2. [req[q] EXCEPT !.pc = "mark"] \in RequestState
    BY <1>3 DEF Apply, RequestState, Idle
  <2>3. [jobs[req[q].replica] EXCEPT ![req[q].script] = req[q].def] \in Schedules
    BY <2>1 DEF Schedules
  <2> QED
    BY <1>3, <2>1, <2>2, <2>3 DEF Apply, recVars
<1>4. CASE Mark(q)
  BY <1>4, RequestFields DEF Mark, MarkRegistered, recVars
<1>5. CASE Remove(q)
  <2>1. req[q].replica \in Replica /\ req[q].script \in Script
    BY <1>5, RequestFields DEF Remove
  <2>2. [jobs[req[q].replica] EXCEPT ![req[q].script] = NoSchedule] \in Schedules
    BY <2>1 DEF Schedules
  <2> QED
    BY <1>5, <2>1, <2>2 DEF Remove, recVars
<1>6. CASE RequestFails(q)
  BY <1>6 DEF RequestFails, Fault, recVars
<1> QED
  BY <1>1, <1>2, <1>3, <1>4, <1>5, <1>6

\* Every step keeps the types.
LEMMA NextTypeOK == TypeOK /\ [Next]_vars => TypeOK'
<1> SUFFICES ASSUME TypeOK, [Next]_vars PROVE TypeOK'
  OBVIOUS
<1>1. CASE UNCHANGED vars
  BY <1>1 DEF TypeOK, vars, recVars
<1>2. ASSUME NEW s \in Script, DeleteScript(s) PROVE TypeOK'
  BY <1>2, ProjectionAssumption DEF TypeOK, DeleteScript, Edit, Schedules, recVars
<1>3. ASSUME NEW r \in Replica, ProcessEnds(r) PROVE TypeOK'
  <2>1. req' \in [Request -> RequestState]
    BY <1>3 DEF TypeOK, ProcessEnds, RequestState
  <2> QED
    BY <1>3, <2>1, ProjectionAssumption DEF TypeOK, ProcessEnds, Fault, Schedules, NoJobs
<1> QED
  BY <1>1, <1>2, <1>3, ReconcilerTypeOK, RequestTypeOK DEF Next

\* The steps of one reconciler preserve what its pass has established, and leave
\* the other replicas alone.
LEMMA ReconcilerProgress ==
    ASSUME IInv, NEW r \in Replica,
           Boot(r) \/ RecList(r) \/ RecContinues(r) \/ RecMark(r) \/ RecFails(r)
    PROVE  Listing' /\ ReadyMeansRestored'
<1> USE DEF IInv, TypeOK, Listing, ReadyMeansRestored, Progress, Schedules
<1>1. CASE Boot(r)
  BY <1>1 DEF Boot
<1>2. CASE RecList(r)
  BY <1>2 DEF RecList
<1>3. CASE RecApply(r)
  <2>1. PICK s \in todo[r] :
           /\ jobs' = [jobs EXCEPT ![r] = [Swept(r) EXCEPT ![s] = snap[r][s]]]
           /\ todo' = [todo EXCEPT ![r] = @ \ {s}]
    BY <1>3 DEF RecApply
  <2>2. ASSUME NEW t \in Script \ touched[r], t \notin todo'[r]
        PROVE  jobs'[r][t] = snap[r][t]
    BY <1>3, <2>1, <2>2 DEF RecApply, Swept
  <2> QED
    BY <1>3, <2>1, <2>2 DEF RecApply
<1>4. CASE RecDone(r)
  <2>1. ASSUME NEW t \in Script \ touched[r] PROVE jobs'[r][t] = snap[r][t]
    BY <1>4 DEF RecDone, Swept
  <2> QED
    BY <1>4, <2>1 DEF RecDone
<1>5. CASE RecUnregistrable(r)
  BY <1>5 DEF RecUnregistrable, Abort
<1>6. CASE RecMark(r)
  BY <1>6 DEF RecMark
<1>7. CASE RecFails(r)
  <2>1. \A p \in Replica \ {r} : jobs'[p] = jobs[p] /\ recPc'[p] = recPc[p]
    BY <1>7 DEF RecFails, Abort
  <2>2. recPc'[r] # "listed" /\ recPc'[r] \notin {"marking", "marked"} /\ r \notin ready'
    BY <1>7 DEF RecFails, Abort
  <2> QED
    BY <1>7, <2>1, <2>2 DEF RecFails, Abort
<1> QED
  BY <1>1, <1>2, <1>3, <1>4, <1>5, <1>6, <1>7 DEF RecContinues

\* A request changes a job only after recording that it touched it.
LEMMA RequestProgress ==
    ASSUME IInv, NEW q \in Request,
           \/ Apply(q) \/ Mark(q) \/ Remove(q) \/ RequestFails(q)
           \/ \E r \in Replica, s \in Script :
                 Delete(q, r, s) \/ \E d \in Definition : Upsert(q, r, s, d)
    PROVE  Listing' /\ ReadyMeansRestored'
<1> USE DEF IInv, Listing, ReadyMeansRestored, Progress, recVars
<1>1. CASE Apply(q)
  <2>1. req[q].replica \in Replica /\ req[q].script \in Script
    BY <1>1, RequestFields DEF Apply
  <2> QED
    BY <1>1, <2>1 DEF Apply, TypeOK, Schedules
<1>2. CASE Remove(q)
  <2>1. req[q].replica \in Replica /\ req[q].script \in Script
    BY <1>2, RequestFields DEF Remove
  <2> QED
    BY <1>2, <2>1 DEF Remove, TypeOK, Schedules
<1>3. CASE Mark(q) \/ RequestFails(q)
  BY <1>3 DEF Mark, RequestFails
<1>4. ASSUME NEW r \in Replica, NEW s \in Script,
             Delete(q, r, s) \/ \E d \in Definition : Upsert(q, r, s, d)
      PROVE  Listing' /\ ReadyMeansRestored'
  BY <1>4 DEF Delete, Upsert
<1> QED
  BY <1>1, <1>2, <1>3, <1>4

\* IInv holds in every reachable state.
LEMMA Invariance == Spec => []IInv
<1>1. ASSUME IInv, [Next]_vars PROVE IInv'
  <2>1. TypeOK'
    BY <1>1, NextTypeOK DEF IInv
  <2>2. CASE UNCHANGED vars
    BY <1>1, <2>1, <2>2
       DEF IInv, Listing, ReadyMeansRestored, Progress, vars, recVars
  <2>3. ASSUME NEW s \in Script, DeleteScript(s) PROVE IInv'
    BY <1>1, <2>1, <2>3
       DEF IInv, Listing, ReadyMeansRestored, Progress, DeleteScript, recVars
  <2>4. ASSUME NEW r \in Replica, ProcessEnds(r) PROVE IInv'
    BY <1>1, <2>1, <2>4
       DEF IInv, TypeOK, Listing, ReadyMeansRestored, Progress, ProcessEnds
  <2> QED
    BY <1>1, <2>1, <2>2, <2>3, <2>4, ReconcilerProgress, RequestProgress DEF Next, IInv
<1> QED
  BY InitIInv, <1>1, PTL DEF Spec

\* Every variable keeps its type.
THEOREM TypeCorrect == Spec => []TypeOK
  BY Invariance, PTL DEF IInv

\* A ready replica at rest runs what its last listing found, up to its own later
\* requests: reconcile() and mark_restored() never claim more than was restored.
THEOREM ReadyCorrect == Spec => []ReadyMeansRestored
  BY Invariance, PTL DEF IInv

----------------------------------------------------------------------------
(* Ownership.  The inductive invariant is OwnIInv: the types, the          *)
(* agreement of what the processes believe with what the server does, and  *)
(* the absence of a leaked lock.  None of them is inductive alone.         *)
(* Agreement needs NoLeakedLock: ServerReap frees the lock and must not    *)
(* take it from a process that still has its connection.                   *)

OwnIInv == OwnershipTypeOK /\ Agreement /\ NoLeakedLock

\* The initial state, with every process down and the lock free, satisfies it.
LEMMA OwnInitIInv == OwnershipInit => OwnIInv
<1> SUFFICES ASSUME OwnershipInit PROVE OwnIInv
  OBVIOUS
<1>1. OwnershipTypeOK
  BY OwnershipAssumption DEF OwnershipAssumption, OwnershipInit, OwnershipTypeOK
<1>2. Agreement
  <2>1. ASSUME NEW r \in Replica PROVE r \notin acquired /\ conn[r] = "none"
    BY DEF OwnershipInit
  <2> QED
    BY <2>1 DEF OwnershipInit, Agreement
<1>3. NoLeakedLock
  BY OwnershipAssumption DEF OwnershipAssumption, OwnershipInit, NoLeakedLock, Holds
<1> QED
  BY <1>1, <1>2, <1>3 DEF OwnIInv

\* No step of a process, of the server or of the environment changes a variable
\* to a value of the wrong type.
LEMMA OwnNextTypeOK ==
    OwnershipTypeOK /\ [OwnershipNext]_ownershipVars => OwnershipTypeOK'
<1> SUFFICES ASSUME OwnershipTypeOK, [OwnershipNext]_ownershipVars PROVE OwnershipTypeOK'
  OBVIOUS
<1> USE OwnershipAssumption DEF OwnershipAssumption, OwnershipTypeOK, Fault
<1>1. CASE UNCHANGED ownershipVars
  BY <1>1 DEF ownershipVars
<1>2. ASSUME NEW r \in Replica, Start(r) \/ MonitorWake(r) PROVE OwnershipTypeOK'
  BY <1>2 DEF Start, MonitorWake
<1>3. ASSUME NEW r \in Replica, ServerTryLock(r) PROVE OwnershipTypeOK'
  BY <1>3 DEF ServerTryLock
<1>4. ASSUME NEW r \in Replica, FinishTry(r) PROVE OwnershipTypeOK'
  BY <1>4 DEF FinishTry
<1>5. ASSUME NEW r \in Replica, TryFails(r) PROVE OwnershipTypeOK'
  BY <1>5 DEF TryFails
<1>6. ASSUME NEW r \in Replica, Probe(r) PROVE OwnershipTypeOK'
  BY <1>6 DEF Probe
<1>7. ASSUME NEW r \in Replica, NEW s \in Script, FireJob(r, s) \/ TriggerNow(r, s)
      PROVE OwnershipTypeOK'
  BY <1>7 DEF FireJob, TriggerNow, Origin
<1>8. ASSUME NEW r \in Replica, FinishJob(r) PROVE OwnershipTypeOK'
  BY <1>8 DEF FinishJob
<1>9. ASSUME NEW r \in Replica, StopBegin(r) PROVE OwnershipTypeOK'
  BY <1>9 DEF StopBegin
<1>10. ASSUME NEW r \in Replica, StopRelease(r) PROVE OwnershipTypeOK'
  BY <1>10 DEF StopRelease
<1>11. ASSUME NEW r \in Replica, Crash(r) PROVE OwnershipTypeOK'
  BY <1>11 DEF Crash
<1>12. ASSUME NEW r \in Replica, SessionLost(r) PROVE OwnershipTypeOK'
  BY <1>12 DEF SessionLost
<1>13. CASE ServerReap
  BY <1>13 DEF ServerReap
<1>14. ASSUME NEW r \in Replica, Exit(r) PROVE OwnershipTypeOK'
  BY <1>14 DEF Exit
<1> QED
  BY <1>1, <1>2, <1>3, <1>4, <1>5, <1>6, <1>7, <1>8, <1>9, <1>10, <1>11, <1>12,
     <1>13, <1>14 DEF OwnershipNext

\* No step breaks the agreement between the processes and the server, or leaves
\* a lock with a live session that nobody will give back.
LEMMA OwnNextAgreement ==
    OwnIInv /\ [OwnershipNext]_ownershipVars => Agreement' /\ NoLeakedLock'
<1> SUFFICES ASSUME OwnIInv, [OwnershipNext]_ownershipVars PROVE Agreement' /\ NoLeakedLock'
  OBVIOUS
<1> USE OwnershipAssumption DEF OwnershipAssumption, OwnIInv, OwnershipTypeOK, Agreement,
            NoLeakedLock, Holds
<1>1. CASE UNCHANGED ownershipVars
  BY <1>1 DEF ownershipVars
<1>2. ASSUME NEW r \in Replica, Start(r) \/ MonitorWake(r)
      PROVE Agreement' /\ NoLeakedLock'
  BY <1>2 DEF Start, MonitorWake
<1>3. ASSUME NEW r \in Replica, ServerTryLock(r) PROVE Agreement' /\ NoLeakedLock'
  BY <1>3 DEF ServerTryLock
<1>4. ASSUME NEW r \in Replica, FinishTry(r) PROVE Agreement' /\ NoLeakedLock'
  BY <1>4 DEF FinishTry
<1>5. ASSUME NEW r \in Replica, TryFails(r) PROVE Agreement' /\ NoLeakedLock'
  BY <1>5 DEF TryFails
<1>6. ASSUME NEW r \in Replica, Probe(r) PROVE Agreement' /\ NoLeakedLock'
  BY <1>6 DEF Probe
<1>7. ASSUME NEW r \in Replica, NEW s \in Script, FireJob(r, s) \/ TriggerNow(r, s)
      PROVE Agreement' /\ NoLeakedLock'
  BY <1>7 DEF FireJob, TriggerNow
<1>8. ASSUME NEW r \in Replica, FinishJob(r) PROVE Agreement' /\ NoLeakedLock'
  BY <1>8 DEF FinishJob
<1>9. ASSUME NEW r \in Replica, StopBegin(r) PROVE Agreement' /\ NoLeakedLock'
  BY <1>9 DEF StopBegin
<1>10. ASSUME NEW r \in Replica, StopRelease(r) PROVE Agreement' /\ NoLeakedLock'
  BY <1>10 DEF StopRelease
<1>11. ASSUME NEW r \in Replica, Crash(r) PROVE Agreement' /\ NoLeakedLock'
  BY <1>11 DEF Crash
<1>12. ASSUME NEW r \in Replica, SessionLost(r) PROVE Agreement' /\ NoLeakedLock'
  BY <1>12 DEF SessionLost
<1>13. CASE ServerReap
  BY <1>13 DEF ServerReap
<1>14. ASSUME NEW r \in Replica, Exit(r) PROVE Agreement' /\ NoLeakedLock'
  BY <1>14 DEF Exit
<1> QED
  BY <1>1, <1>2, <1>3, <1>4, <1>5, <1>6, <1>7, <1>8, <1>9, <1>10, <1>11, <1>12,
     <1>13, <1>14 DEF OwnershipNext

\* OwnIInv holds in every reachable state.
LEMMA OwnInvariance == OwnershipSpec => []OwnIInv
<1>1. OwnIInv /\ [OwnershipNext]_ownershipVars => OwnIInv'
  BY OwnNextTypeOK, OwnNextAgreement DEF OwnIInv
<1> QED
  BY OwnInitIInv, <1>1, PTL DEF OwnershipSpec

\* Two cron jobs on two replicas put a lost session or a replica that has already
\* released between them: before the release a job in flight means acquired, acquired
\* means a connection, and two live connections would both hold the one lock.
LEMMA OwnAgreementExcludes == OwnIInv => SingleExecutor
  BY OwnershipAssumption DEF OwnershipAssumption, OwnIInv, OwnershipTypeOK, Agreement,
         SingleExecutor, Holds

\* Every variable keeps its type.
THEOREM OwnTypeCorrect == OwnershipSpec => []OwnershipTypeOK
  BY OwnInvariance, PTL DEF OwnIInv

\* What each process believes about the lock agrees with the server, unless its
\* session was lost.
THEOREM AgreementHolds == OwnershipSpec => []Agreement
  BY OwnInvariance, PTL DEF OwnIInv

\* A lock of a live session is never lost track of by try_acquire(), stop() or
\* release().
THEOREM LockNeverLeaks == OwnershipSpec => []NoLeakedLock
  BY OwnInvariance, PTL DEF OwnIInv

\* Scheduled jobs run on one replica at a time, unless a lock session was lost or a
\* stopped replica has released the lock before its jobs ended.
THEOREM OneExecutor == OwnershipSpec => []SingleExecutor
  BY OwnInvariance, OwnAgreementExcludes, PTL
=============================================================================
