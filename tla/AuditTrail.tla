------------------------------ MODULE AuditTrail ------------------------------
(***************************************************************************)
(* What the audit outbox promises of one recorded event, without workers,  *)
(* claims or transactions: it is delivered to the audit log once, or it is *)
(* abandoned after exactly MaxAttempts tries, and neither is ever undone.  *)
(* AuditOutbox implements this specification.                              *)
(***************************************************************************)
EXTENDS Naturals

CONSTANTS
    Event,
    MaxAttempts

VARIABLES
    trail,  \* none, recorded, logged, purged (retention), abandoned
    tries

trailVars == <<trail, tries>>

TrailInit ==
    /\ trail = [e \in Event |-> "none"]
    /\ tries = [e \in Event |-> 0]

Record(e) ==
    /\ trail[e] = "none"
    /\ trail' = [trail EXCEPT ![e] = "recorded"]
    /\ UNCHANGED tries

\* One transaction tries the recorded events S and succeeds for those of D.
Attempt(S, D) ==
    /\ \A e \in S : trail[e] = "recorded" /\ tries[e] < MaxAttempts
    /\ trail' = [e \in Event |-> IF e \in D THEN "logged"
                                 ELSE IF e \in S /\ tries[e] + 1 = MaxAttempts
                                 THEN "abandoned" ELSE trail[e]]
    /\ tries' = [e \in Event |-> IF e \in S THEN tries[e] + 1 ELSE tries[e]]

Purge(S) ==
    /\ \A e \in S : trail[e] = "logged"
    /\ trail' = [e \in Event |-> IF e \in S THEN "purged" ELSE trail[e]]
    /\ UNCHANGED tries

TrailNext ==
    \/ \E e \in Event : Record(e)
    \/ \E S \in SUBSET Event : Purge(S) \/ \E D \in SUBSET S : Attempt(S, D)

TrailSpec == TrailInit /\ [][TrailNext]_trailVars
=============================================================================
