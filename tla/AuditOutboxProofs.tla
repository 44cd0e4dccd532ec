--------------------------- MODULE AuditOutboxProofs ---------------------------
(***************************************************************************)
(* Safety of audit delivery for any number of events, any set of workers,  *)
(* any batch size and any bound on attempts, and the refinement of         *)
(* AuditTrail.                                                             *)
(*                                                                         *)
(* Exactly-once delivery is not inductive: a worker writes statuses it     *)
(* decided on when it claimed the rows.  Locks says why they are still     *)
(* right when it commits (a claimed row is pending and nobody else's), and *)
(* Unborn that a row is committed once, from nothing.                      *)
(***************************************************************************)
EXTENDS AuditOutbox, TLAPS

\* What a worker's open transaction relies on.
Locks ==
    /\ \A w \in Worker :
          /\ ok[w] \subseteq held[w] /\ bad[w] \subseteq held[w]
          /\ ok[w] \cap bad[w] = {}
          /\ \A e \in held[w] : row[e] = "pending"
    /\ \A v, w \in Worker : v # w => held[v] \cap held[w] = {}

\* A row that does not exist yet was never tried, and a staged event has none.
Unborn ==
    \A e \in Event :
        /\ row[e] = "none" => attempts[e] = 0
        /\ e \in staged => row[e] = "none" /\ e \notin Required

IInv ==
    /\ TypeOK
    /\ Locks
    /\ Unborn
    /\ DeliveredExactlyOnce
    /\ RetriesBounded

\* Nothing is recorded yet and no worker runs.
LEMMA InitIInv == Init => IInv
<1> SUFFICES ASSUME Init PROVE IInv
  OBVIOUS
<1>1. TypeOK
  BY OutboxAssumption DEF Init, TypeOK
<1>2. Locks /\ Unborn
  BY DEF Init, Locks, Unborn
<1>3. DeliveredExactlyOnce /\ RetriesBounded
  BY OutboxAssumption DEF Init, DeliveredExactlyOnce, RetriesBounded
<1> QED
  BY <1>1, <1>2, <1>3 DEF IInv

\* The steps of a request, and the end of a backoff.
LEMMA RequestInductive ==
    ASSUME IInv, NEW e \in Event, RequestStep(e) \/ BackoffEnds(e) PROVE IInv'
<1> USE OutboxAssumption
    DEF IInv, TypeOK, Locks, Unborn, DeliveredExactlyOnce, RetriesBounded,
         Recorded, workerVars, requestVars
<1>1. CASE Log(e)
  BY <1>1 DEF Log
<1>2. CASE LogFails(e)
  BY <1>2 DEF LogFails, Fault
<1>3. CASE Change(e)
  BY <1>3 DEF Change
<1>4. CASE ChangeFails(e)
  BY <1>4 DEF ChangeFails, Fault
<1>5. CASE Answer(e)
  BY <1>5 DEF Answer
<1>6. CASE CloseSession(e)
  BY <1>6 DEF CloseSession
<1>7. CASE RequestDies(e)
  BY <1>7 DEF RequestDies, Fault
<1>8. CASE BackoffEnds(e)
  BY <1>8 DEF BackoffEnds
<1> QED
  BY <1>1, <1>2, <1>3, <1>4, <1>5, <1>6, <1>7, <1>8 DEF RequestStep

\* The steps of a worker.
LEMMA WorkerInductive ==
    ASSUME IInv, NEW w \in Worker,
           Start(w) \/ WorkerStep(w) \/ RollBack(w) \/ Stop(w)
    PROVE  IInv'
<1> USE OutboxAssumption
    DEF IInv, TypeOK, Locks, Unborn, DeliveredExactlyOnce, RetriesBounded,
        requestVars
<1>1. CASE Start(w)
  BY <1>1 DEF Start
<1>2. CASE Claim(w)
  <2> DEFINE S == Oldest(Due)
  <2>1. S \subseteq Event
    BY DEF Oldest, Due
  <2>2. \A e \in S : row[e] = "pending" /\ \A v \in Worker : e \notin held[v]
    BY DEF Oldest, Due
  <2>3. held' = [held EXCEPT ![w] = S] /\ held[w] = {}
    BY <1>2 DEF Claim
  <2> HIDE DEF S
  <2> QED
    BY <1>2, <2>1, <2>2, <2>3 DEF Claim
<1>3. ASSUME NEW e \in Event, Deliver(w, e) PROVE IInv'
  BY <1>3 DEF Deliver, ToDeliver
<1>4. ASSUME NEW e \in Event, DeliverFails(w, e) PROVE IInv'
  BY <1>4 DEF DeliverFails, ToDeliver, Fault
<1>5. CASE Commit(w)
  <2>1. TypeOK'
    BY <1>5 DEF Commit, Release, Exhausted
  <2>2. Locks'
    BY <1>5 DEF Commit, Release, Exhausted
  <2>3. Unborn'
    BY <1>5 DEF Commit, Exhausted
  <2>4. DeliveredExactlyOnce'
    BY <1>5 DEF Commit, Exhausted
  <2>5. RetriesBounded'
    <3> SUFFICES ASSUME NEW e \in Event
                 PROVE  /\ row'[e] = "failed" => attempts'[e] = MaxAttempts
                        /\ row'[e] = "pending" => attempts'[e] < MaxAttempts
      OBVIOUS
    <3>1. CASE e \in ok[w]
      BY <1>5, <3>1 DEF Commit
    <3>2. CASE e \in bad[w]
      <4>1. attempts[e] < MaxAttempts /\ attempts[e] \in Nat /\ e \in held[w] /\ e \notin ok[w]
        BY <3>2
      <4>2. attempts'[e] = attempts[e] + 1
        BY <1>5, <4>1 DEF Commit
      <4>3. row'[e] = IF attempts[e] + 1 >= MaxAttempts THEN "failed" ELSE row[e]
        BY <1>5, <3>2, <4>1 DEF Commit, Exhausted
      <4> QED
        BY <3>2, <4>1, <4>2, <4>3
    <3>3. CASE e \notin held[w]
      BY <1>5, <3>3 DEF Commit, Exhausted
    <3> QED
      BY <1>5, <3>1, <3>2, <3>3 DEF Commit
  <2> QED
    BY <2>1, <2>2, <2>3, <2>4, <2>5
<1>6. CASE RollBack(w)
  BY <1>6 DEF RollBack, Release, Fault
<1>7. CASE Stop(w)
  BY <1>7 DEF Stop, Release, Fault
<1> QED
  BY <1>1, <1>2, <1>3, <1>4, <1>5, <1>6, <1>7 DEF WorkerStep

\* IInv holds in every reachable state.
LEMMA Invariance == Spec => []IInv
<1>1. ASSUME IInv, [Next]_vars PROVE IInv'
  <2>1. CASE UNCHANGED vars
    BY <1>1, <2>1 DEF vars, requestVars, workerVars, IInv, TypeOK, Locks, Unborn,
       DeliveredExactlyOnce, RetriesBounded
  <2>2. CASE Cleanup
    BY <1>1, <2>2 DEF Cleanup, requestVars, workerVars, IInv, TypeOK, Locks, Unborn,
       DeliveredExactlyOnce, RetriesBounded
  <2>3. CASE Quiet
    BY <2>1, <2>3 DEF Quiet
  <2> QED
    BY <1>1, <2>1, <2>2, <2>3, RequestInductive, WorkerInductive DEF Next
<1> QED
  BY InitIInv, <1>1, PTL DEF Spec

\* Every variable keeps its type.
THEOREM TypeCorrect == Spec => []TypeOK
  BY Invariance, PTL DEF IInv

\* An event has been in the audit log if and only if its row is completed.
THEOREM DeliveryCorrect == Spec => []DeliveredExactlyOnce
  BY Invariance, PTL DEF IInv

\* An event is given up after max_attempts tries, not earlier and not later.
THEOREM RetriesCorrect == Spec => []RetriesBounded
  BY Invariance, PTL DEF IInv

----------------------------------------------------------------------------
(* Refinement                                                              *)

\* The trail of an event, as the refinement mapping computes it.
TrailOf(e) == IF log[e] = "present" THEN "logged"
              ELSE IF log[e] = "expired" THEN "purged"
              ELSE IF row[e] = "failed" THEN "abandoned"
              ELSE IF row[e] = "none" THEN "none" ELSE "recorded"

\* Every step is a step of the trails or leaves them alone.
LEMMA StepRefines == ASSUME IInv, [Next]_vars PROVE [Trail!TrailNext]_(Trail!trailVars)
<1> USE OutboxAssumption
    DEF IInv, TypeOK, Locks, Unborn, DeliveredExactlyOnce, RetriesBounded,
        requestVars, workerVars, TrailOf
<1>1. ASSUME UNCHANGED <<row, attempts, log>>
      PROVE UNCHANGED Trail!trailVars
  BY <1>1 DEF Trail!trailVars
<1>2. ASSUME NEW e \in Event, row[e] = "none", log[e] = "absent",
             row' = [row EXCEPT ![e] = "pending"], UNCHANGED <<attempts, log>>
      PROVE Trail!Record(e)
  <2> DEFINE T == [f \in Event |-> TrailOf(f)]
  <2>1. T[e] = "none"
    BY <1>2
  <2>2. T' = [T EXCEPT ![e] = "recorded"]
    <3>1. \A f \in Event : f # e => TrailOf(f)' = TrailOf(f)
      BY <1>2
    <3>2. TrailOf(e)' = "recorded"
      BY <1>2
    <3> HIDE DEF TrailOf
    <3> QED
      BY <3>1, <3>2
  <2> QED
    BY <1>2, <2>1, <2>2 DEF Trail!Record
<1>3. ASSUME NEW e \in Event, RequestStep(e)
      PROVE Trail!Record(e) \/ UNCHANGED Trail!trailVars
  <2>1. CASE Log(e) /\ e \in Required
    <3>1. row[e] = "none" /\ log[e] = "absent"
      BY <2>1 DEF Log, Recorded
    <3>2. row' = [row EXCEPT ![e] = "pending"] /\ UNCHANGED <<attempts, log>>
      BY <2>1 DEF Log
    <3> QED
      BY <3>1, <3>2, <1>2
  <2>2. CASE Log(e) /\ e \notin Required
    BY <1>1, <2>2 DEF Log
  <2>3. CASE CloseSession(e) /\ e \in staged
    <3>1. row[e] = "none" /\ log[e] = "absent"
      BY <2>3
    <3>2. row' = [row EXCEPT ![e] = "pending"] /\ UNCHANGED <<attempts, log>>
      BY <2>3 DEF CloseSession
    <3> QED
      BY <3>1, <3>2, <1>2
  <2>4. CASE CloseSession(e) /\ e \notin staged
    BY <1>1, <2>4 DEF CloseSession
  <2>5. CASE LogFails(e) \/ Change(e) \/ ChangeFails(e) \/ Answer(e) \/ RequestDies(e)
    BY <1>1, <2>5 DEF LogFails, Change, ChangeFails, Answer, RequestDies
  <2> QED
    BY <1>3, <2>1, <2>2, <2>3, <2>4, <2>5 DEF RequestStep
<1>4. ASSUME NEW w \in Worker, Commit(w) PROVE Trail!TrailNext
  <2>1. PICK S \in SUBSET Event, D \in SUBSET Event : S = held[w] /\ D = ok[w]
    BY Zenon
  <2>2. Trail!Attempt(S, D) /\ D \in SUBSET S
    BY <1>4, <2>1 DEF Commit, Exhausted, Trail!Attempt
  <2> QED
    BY <2>2 DEF Trail!TrailNext
<1>5. CASE Cleanup
  <2>1. PICK S \in SUBSET {e \in Event : log[e] = "present"} :
            /\ S # {}
            /\ log' = [e \in Event |-> IF e \in S THEN "expired" ELSE log[e]]
            /\ UNCHANGED <<requestVars, row, attempts, waiting, workerVars, faults>>
    BY ONLY <1>5, Zenon DEF Cleanup
  <2>2. Trail!Purge(S)
    BY <2>1 DEF Trail!Purge
  <2> QED
    BY <2>2 DEF Trail!TrailNext
<1>6. ASSUME NEW w \in Worker,
             \/ Start(w) \/ Claim(w) \/ RollBack(w) \/ Stop(w)
             \/ \E e \in Event : Deliver(w, e) \/ DeliverFails(w, e)
      PROVE UNCHANGED Trail!trailVars
  BY <1>1, <1>6 DEF Start, Claim, RollBack, Stop, Deliver, DeliverFails
<1>7. ASSUME NEW e \in Event, BackoffEnds(e) PROVE UNCHANGED Trail!trailVars
  BY <1>1, <1>7 DEF BackoffEnds
<1>8. CASE Quiet \/ UNCHANGED vars
  BY <1>1, <1>8 DEF Quiet, vars
<1>9. ASSUME NEW e \in Event, Trail!Record(e) PROVE Trail!TrailNext
  BY <1>9 DEF Trail!TrailNext
<1> HIDE DEF IInv
<1> QED
  BY <1>3, <1>4, <1>5, <1>6, <1>7, <1>8, <1>9 DEF Next, WorkerStep

\* The outbox, its requests and its workers implement one trail per event:
\* recorded once, then logged once or abandoned after MaxAttempts tries.
THEOREM Refinement == Spec => ImplementsTrail
<1>1. Init => Trail!TrailInit
  BY DEF Init, Trail!TrailInit
<1> QED
  BY <1>1, Invariance, StepRefines, PTL DEF Spec, ImplementsTrail, Trail!TrailSpec
=============================================================================
