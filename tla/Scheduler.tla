------------------------------ MODULE Scheduler ------------------------------
(***************************************************************************)
(* What ownership and projection say about the same thing: the API         *)
(* processes, the scripts that have schedules, where a process is in its   *)
(* life, and the failures so far.                                          *)
(***************************************************************************)
EXTENDS Naturals

CONSTANTS
    Replica,    \* the API processes
    Script,     \* ids of scripts
    MaxFaults   \* bound on crashes, lost sessions and failed database calls

VARIABLES
    phase,      \* the process: down, on its way up or down, up
    faults      \* faults so far

Fault == faults < MaxFaults /\ faults' = faults + 1

=============================================================================
