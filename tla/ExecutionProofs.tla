--------------------------- MODULE ExecutionProofs ---------------------------
(***************************************************************************)
(* Safety of the two ways a script or a command is executed: of an         *)
(* interactive session for every size of the queue, amount of output and   *)
(* number of commands; and of a script batch for any number of targets,    *)
(* any concurrency limit and any number of faults.                         *)
(***************************************************************************)
EXTENDS StreamSession, ScriptExecution, TLAPS

----------------------------------------------------------------------------
(* The inductive invariant of a session                                    *)

\* What the handler's position says about the session.
Positions ==
    /\ main \in {"auth", "connect"} =>
          conn = "none" /\ task = "none" /\ ended = "no"
    /\ conn = "none" => task = "none"
    /\ main \in {"receive", "signal", "reply", "abort", "leave"} => conn \in {"open", "lost"}
    /\ main \in {"finally", "gather", "closed"} => conn # "open"
    /\ left = "disconnect" => main \in {"abort", "leave", "finally", "gather", "closed"}

\* What is known of the process: an exit that was noticed on an open connection is
\* real, and a task that is over has seen it.
Endings ==
    /\ task = "none" => proc = "none"
    /\ task \in {"none", "starting"} => exit = "none"
    /\ task = "done" => exit = "none" \/ main \in {"gather", "closed"}
    /\ exit \in {"putting", "done"} /\ conn = "open" => proc = "exited"
    /\ task \in {"remove", "done"} /\ conn = "open" => ~Alive
    /\ conn = "lost" /\ Alive => blind = "yes"

\* A process was forgotten on an open connection for each start that failed, and every
\* command has at most one process.
Strays ==
    /\ conn = "open" => strays = timeouts
    /\ conn = "none" => strays = 0 /\ timeouts = 0
    /\ strays + (IF Alive \/ task = "starting" THEN 1 ELSE 0) <= commands
    /\ timeouts + (IF task = "starting" THEN 1 ELSE 0) <= commands

\* Once a disconnect was handled, a process that could be reached is dead and none
\* will be started.
Aborted ==
    /\ left = "disconnect" /\ main # "abort" /\ blind = "no"
    => ~Alive /\ task # "starting"

Reported == IF exit = "done" THEN 1 ELSE 0

\* Where the chunks of a command are.
Chunks ==
    /\ unread <= produced /\ sent <= produced
    /\ task = "starting" =>
          queue = <<>> /\ sent = 0 /\ unread = produced
    /\ task = "streaming" => sent + Len(queue) + unread = produced + Reported

\* The exit event is queued once, and last unless it overtook a chunk.
ExitQueued ==
    task = "streaming" =>
        /\ exit # "done" => \A i \in 1 .. Len(queue) : queue[i] = "out"
        /\ exit = "done" =>
              \E i \in 1 .. Len(queue) :
                 /\ queue[i] = "exit"
                 /\ \A j \in 1 .. Len(queue) : queue[j] = "exit" => j = i
        /\ exit = "done" /\ lag = 0 /\ conn = "open" =>
              unread = 0 /\ queue[Len(queue)] = "exit"

\* The exit frame is the end of the command.
ExitFrame ==
    /\ ended = "sent" => task \notin {"none", "starting", "streaming"}
    /\ ended = "sent" => exit \in {"done", "none"}
    /\ ExitAfterOutput

IInv == TypeOK /\ Positions /\ Endings /\ Strays /\ Aborted /\ Chunks /\ ExitQueued /\ ExitFrame

----------------------------------------------------------------------------

\* A socket that has not been accepted yet.
LEMMA InitHolds == Init => IInv
BY StreamAssumption DEF Init, IInv, TypeOK, Positions, Endings, Strays, Aborted, Chunks, Reported,
     ExitQueued, ExitFrame, ExitAfterOutput, Alive

\* The steps of the handler and of the remote process.
LEMMA HandlerStep ==
    ASSUME IInv, Handler \/ Receive \/ Process \/ ClientLeaves \/ ConnectionLost
    PROVE  IInv'
<1> USE StreamAssumption
        DEF IInv, TypeOK, Positions, Endings, Strays, Aborted, Chunks, Reported, ExitQueued, ExitFrame,
            ExitAfterOutput, Alive, handler, stream
<1>1. CASE Authenticate
  BY <1>1 DEF Authenticate
<1>2. CASE Connect
  BY <1>2 DEF Connect
<1>3. CASE SendSignal
  BY <1>3 DEF SendSignal, LeaveLoop, KillGroup, Busy
<1>4. CASE Reply
  BY <1>4 DEF Reply, LeaveLoop, Busy
<1>5. CASE Disconnected
  BY <1>5 DEF Disconnected, Busy
<1>6. CASE Abort
  BY <1>6 DEF Abort, KillGroup, Reachable, Active, Busy
<1>7. CASE Leave
  BY <1>7 DEF Leave
<1>8. CASE Finally
  <2>1. CASE Busy
    <3>1. /\ main = "finally" /\ main' = "gather" /\ conn # "open"
          /\ task' \in {"done", "cleanup", "remove"}
          /\ task' = "cleanup" => task = "streaming"
          /\ UNCHANGED <<client, left, blind, conn, exit, proc, strays, stream, timeouts, commands>>
      BY <1>8, <2>1 DEF Finally, CancelledAt
    <3>2. QED
      BY <2>1, <3>1 DEF Busy
  <2>2. CASE ~Busy
    BY <1>8, <2>2 DEF Finally, Busy
  <2>3. QED
    BY <2>1, <2>2
<1>9. CASE Gather
  BY <1>9 DEF Gather
<1>10. CASE ReceiveCommand
  <2>1. CASE Busy
    BY <1>10, <2>1 DEF ReceiveCommand
  <2>2. CASE ~Busy
    <3>1. queue' = <<>> /\ queue' \in Seq({"out", "exit"}) /\ Len(queue') = 0
      BY <1>10, <2>2 DEF ReceiveCommand
    <3>2. QED
      BY <1>10, <2>2, <3>1 DEF ReceiveCommand, Busy
  <2>3. QED
    BY <2>1, <2>2
<1>11. CASE ReceiveInvalid
  BY <1>11 DEF ReceiveInvalid
<1>12. CASE ReceiveSignal
  BY <1>12 DEF ReceiveSignal, Active
<1>13. CASE ReceiveFatal
  BY <1>13 DEF ReceiveFatal, LeaveLoop, Busy
<1>14. CASE ProcessStarts
  BY <1>14 DEF ProcessStarts
<1>15. CASE WriteGroupFile
  BY <1>15 DEF WriteGroupFile
<1>16. CASE ProcessEnds
  BY <1>16 DEF ProcessEnds
<1>17. CASE Produce
  BY <1>17 DEF Produce
<1>18. CASE ClientLeaves
  BY <1>18 DEF ClientLeaves
<1>19. CASE ConnectionLost
  BY <1>19 DEF ConnectionLost
<1>20. QED
  BY <1>1, <1>2, <1>3, <1>4, <1>5, <1>6, <1>7, <1>8, <1>9, <1>10,
     <1>11, <1>12, <1>13, <1>14, <1>15, <1>16, <1>17, <1>18, <1>19 DEF Handler, Receive, Process

\* The steps of the command's task.
LEMMA CommandStep == ASSUME IInv, Task PROVE IInv'
<1> USE StreamAssumption
        DEF IInv, TypeOK, Positions, Endings, Strays, Aborted, Chunks, Reported, ExitQueued, ExitFrame,
            ExitAfterOutput, Alive, handler, stream
<1>1. CASE StartCompletes
  BY <1>1 DEF StartCompletes
<1>2. CASE StartFails
  <2>1. /\ task = "starting" /\ task' = "done" /\ proc' = "none" /\ exit = "none"
        /\ UNCHANGED <<client, main, left, blind, conn, exit, unread, lag, queue, produced, sent,
                       ended, commands>>
    BY <1>2 DEF StartFails
  <2>2. /\ strays + 1 <= commands /\ timeouts + 1 <= commands
        /\ \/ strays' = strays + 1 /\ timeouts' = timeouts + 1
           \/ strays' = strays /\ timeouts' = timeouts
        /\ conn # "none"
    BY <1>2, <2>1 DEF StartFails
  <2>3. TypeOK' /\ Strays'
    BY <2>1, <2>2
  <2>4. Positions' /\ Endings' /\ Aborted' /\ Chunks' /\ ExitQueued' /\ ExitFrame'
    BY <2>1
  <2>5. QED
    BY <2>3, <2>4
<1>3. CASE Cleanup
  BY <1>3 DEF Cleanup, KillGroup
<1>4. CASE GraceEnds
  BY <1>4 DEF GraceEnds
<1>4a. CASE GraceTimesOut
  <2>1. /\ task = "grace" /\ task' = "kill" /\ exit' = "none"
        /\ UNCHANGED <<client, main, left, blind, conn, proc, strays, unread, lag, queue, produced,
                       sent, ended, timeouts, commands>>
    BY <1>4a DEF GraceTimesOut
  <2>2. TypeOK' /\ Positions' /\ Endings' /\ Strays' /\ Aborted'
    BY <2>1
  <2>3. Chunks' /\ ExitQueued' /\ ExitFrame'
    BY <2>1
  <2>4. QED
    BY <2>2, <2>3
<1>5. CASE Kill
  BY <1>5 DEF Kill, KillGroup
<1>6. CASE WaitProcess
  BY <1>6 DEF WaitProcess
<1>6a. CASE Remove
  BY <1>6a DEF Remove
<1>7. CASE Forward
  <2>1. /\ queue' \in Seq({"out", "exit"}) /\ Len(queue') = Len(queue) - 1
        /\ Len(queue) > 0 /\ Head(queue) = queue[1]
        /\ \A i \in 1 .. Len(queue') : queue'[i] = queue[i + 1]
    BY <1>7 DEF Forward
  <2>2. CASE task' = "streaming"
    <3>1. /\ Head(queue) = "out" /\ sent' = sent + 1 /\ ended' = ended
          /\ UNCHANGED <<client, handler, conn, exit, proc, strays, unread, lag, produced,
                         timeouts, commands>>
      BY <1>7, <2>1, <2>2 DEF Forward
    <3>2. exit = "done" => Len(queue) > 1
      BY <1>7, <2>1, <3>1 DEF Forward
    <3>3. ExitQueued'
      BY <1>7, <2>1, <3>1, <3>2 DEF Forward
    <3>4. QED
      BY <1>7, <2>1, <2>2, <3>1, <3>2, <3>3 DEF Forward
  <2>3. CASE task' # "streaming" /\ ended' = "sent"
    <3>1. Head(queue) = "exit" /\ exit = "done" /\ sent' = sent
      BY <1>7, <2>1, <2>3 DEF Forward
    <3>2. lag = 0 /\ conn = "open" => Len(queue) = 1
      BY <1>7, <2>1, <3>1 DEF Forward
    <3>3. QED
      BY <1>7, <2>1, <2>3, <3>1, <3>2 DEF Forward
  <2>4. CASE task' # "streaming" /\ ended' # "sent"
    BY <1>7, <2>1, <2>4 DEF Forward
  <2>5. QED
    BY <2>2, <2>3, <2>4
<1>8. QED
  BY <1>1, <1>2, <1>3, <1>4, <1>4a, <1>5, <1>6, <1>6a, <1>7 DEF Task

\* The pumps and the task that waits for the exit.
LEMMA HelperStep == ASSUME IInv, Helpers PROVE IInv'
<1> USE StreamAssumption
        DEF IInv, TypeOK, Positions, Endings, Strays, Aborted, Chunks, Reported, ExitQueued, ExitFrame,
            ExitAfterOutput, Alive, handler, stream
<1>1. CASE Pump
  BY <1>1 DEF Pump
<1>2. CASE ExitNoticed
  BY <1>2 DEF ExitNoticed
<1>3. CASE PutExit
  BY <1>3 DEF PutExit
<1>4. QED
  BY <1>1, <1>2, <1>3 DEF Helpers

\* IInv holds in every reachable state.
LEMMA Invariance == Spec => []IInv
<1>1. IInv /\ [Next]_vars => IInv'
  <2> SUFFICES ASSUME IInv, [Next]_vars PROVE IInv'
    OBVIOUS
  <2>1. CASE Next
    BY <2>1, HandlerStep, CommandStep, HelperStep DEF Next
  <2>2. CASE UNCHANGED vars
    BY <2>2 DEF vars, IInv, TypeOK, Positions, Endings, Strays, Aborted, Chunks, Reported, ExitQueued,
         ExitFrame, ExitAfterOutput, Alive
  <2>3. QED
    BY <2>1, <2>2
<1>2. QED
  BY InitHolds, <1>1, PTL DEF Spec

----------------------------------------------------------------------------

\* Every variable keeps its type; in particular the queue of
\* execute_command_streaming_events never holds more than its bound.
THEOREM TypeCorrect == Spec => []TypeOK
BY Invariance, PTL DEF IInv

\* On an open connection every process that the session has forgotten is the work of a
\* start that timed out (execute_command_streaming_events).
THEOREM OneProcessHolds == Spec => []OneProcess
<1>1. IInv => OneProcess
  BY DEF IInv, TypeOK, Endings, Strays, OneProcess, Forgotten
<1>2. QED
  BY Invariance, <1>1, PTL

\* A client that leaves while the process can be signalled leaves nothing behind
\* (exec_stream).
THEOREM ReachableDies == Spec => []ReachableProcessDies
<1>1. IInv => ReachableProcessDies
  BY DEF IInv, TypeOK, Aborted, ReachableProcessDies
<1>2. QED
  BY Invariance, <1>1, PTL

\* The exit frame comes after all of the output (_send_command_events).
THEOREM OutputComplete == Spec => []ExitAfterOutput
BY Invariance, PTL DEF IInv, ExitFrame

----------------------------------------------------------------------------
(* A batch.  Its properties are not inductive because each speaks of rows  *)
(* and events that two loops of execute_script write once per target.      *)
(* BatchPhases says what each phase of the call knows: what has not been   *)
(* written yet, that results are persisted only when every task has one,   *)
(* and that a task whose cancel was announced has none.                    *)

\* No outcome was published for t.
Unreported(t) == "completed" \notin events[t] /\ "failed" \notin events[t]

BatchPhases ==
    /\ \A t \in Target :
          /\ row[t] = "none" => cancel[t] = "none" /\ events[t] = {}
          /\ outcome[t] # "none" <=> tasks[t] = "finished"
          /\ batch = "creating" => tasks[t] = "none"
          /\ batch = "creating" /\ t \in todo => row[t] = "none"
          /\ batch = "persisting" => tasks[t] = "finished"
          /\ batch \in {"creating", "running", "cancelling"} => Unreported(t)
          /\ batch \in {"persisting", "timedOut"} /\ t \in todo => Unreported(t)
          /\ "cancelled" \in events[t] => tasks[t] \in {"aborting", "aborted"}
          /\ "completed" \in events[t] => tasks[t] = "finished"

BatchSafe == NoFalseSuccess /\ EventsTruthful /\ CancelSettles

BatchIInv == BatchTypeOK /\ BatchPhases /\ BatchSafe

\* Before the first row is created.
LEMMA BatchInitIInv == BatchInit => BatchIInv
<1> SUFFICES ASSUME BatchInit PROVE BatchIInv
  OBVIOUS
<1>1. BatchTypeOK
  BY ExecutionAssumption DEF ExecutionAssumption, BatchInit, BatchTypeOK, Terminal
<1>2. BatchPhases /\ BatchSafe
  BY DEF BatchInit, BatchPhases, Unreported, BatchSafe,
         NoFalseSuccess, EventsTruthful, CancelSettles
<1> QED
  BY <1>1, <1>2 DEF BatchIInv

\* The steps of execute_script itself.
LEMMA BatchInductive == ASSUME BatchIInv, BatchStep PROVE BatchIInv'
<1> USE ExecutionAssumption DEF ExecutionAssumption, BatchIInv, BatchTypeOK, BatchPhases,
            Unreported, BatchSafe, NoFalseSuccess, EventsTruthful,
            CancelSettles, Terminal
<1>1. CASE Gathered
  BY <1>1 DEF Gathered
<1>2. CASE Return
  BY <1>2 DEF Return
<1>3. CASE TimeoutRaised
  BY <1>3 DEF TimeoutRaised
<1>4. ASSUME NEW t \in Target, Create(t) PROVE BatchIInv'
  BY <1>4 DEF Create, First
<1>5. ASSUME NEW t \in Target, Persist(t) PROVE BatchIInv'
  BY <1>5 DEF Persist, First
<1>6. ASSUME NEW t \in Target, PersistTimeout(t) PROVE BatchIInv'
  BY <1>6 DEF PersistTimeout, First
<1> QED
  BY <1>1, <1>2, <1>3, <1>4, <1>5, <1>6 DEF BatchStep

\* The steps of a target's coroutine and of its cancel request.
LEMMA TargetInductive ==
    ASSUME BatchIInv, NEW t \in Target, NEW local \in BOOLEAN,
           \/ TaskStep(t) \/ CancelStep(t)
           \/ PersistFails(t) \/ CancelTask(t, local)
    PROVE  BatchIInv'
<1> USE ExecutionAssumption DEF ExecutionAssumption, BatchIInv, BatchTypeOK, BatchPhases,
            Unreported, BatchSafe, NoFalseSuccess, EventsTruthful,
            CancelSettles, Terminal
<1>1. CASE StartRemote(t)
  BY <1>1 DEF StartRemote, First
<1>2. CASE AbortEnds(t)
  BY <1>2 DEF AbortEnds
<1>3. ASSUME NEW o \in {"success", "error"}, RemoteEnds(t, o) PROVE BatchIInv'
  BY <1>3 DEF RemoteEnds
<1>4. CASE CancelRead(t)
  BY <1>4 DEF CancelRead
<1>5. CASE CancelWrite(t)
  BY <1>5 DEF CancelWrite
<1>6. CASE PersistFails(t)
  BY <1>6 DEF PersistFails, Fault, First
<1>7. CASE CancelTask(t, local)
  BY <1>7 DEF CancelTask, Registered
<1> QED
  BY <1>1, <1>2, <1>3, <1>4, <1>5, <1>6, <1>7 DEF TaskStep, CancelStep

\* BatchIInv holds in every reachable state.
LEMMA BatchInvariance == BatchSpec => []BatchIInv
<1>1. ASSUME BatchIInv, [BatchNext]_batchVars PROVE BatchIInv'
  <2> USE ExecutionAssumption DEF ExecutionAssumption, BatchIInv, BatchTypeOK, BatchPhases,
              Unreported, BatchSafe, NoFalseSuccess, EventsTruthful,
              CancelSettles, Terminal
  <2>1. CASE UNCHANGED batchVars
    BY <1>1, <2>1 DEF batchVars
  <2>2. CASE CreateFails
    BY <1>1, <2>2 DEF CreateFails, Fault
  <2>3. CASE Timeout
    BY <1>1, <2>3 DEF Timeout
  <2>4. CASE BatchDies
    BY <1>1, <2>4 DEF BatchDies, Fault
  <2> HIDE DEF BatchIInv
  <2>5. CASE Done
    BY <2>1, <2>5 DEF Done
  <2> QED
    BY <1>1, <2>1, <2>2, <2>3, <2>4, <2>5, BatchInductive, TargetInductive
    DEF BatchNext
<1> QED
  BY BatchInitIInv, <1>1, PTL DEF BatchSpec

\* Every variable keeps its type.
THEOREM BatchTypeCorrect == BatchSpec => []BatchTypeOK
  BY BatchInvariance, PTL DEF BatchIInv

\* A stored success is a real one.
THEOREM SuccessCorrect == BatchSpec => []NoFalseSuccess
  BY BatchInvariance, PTL DEF BatchIInv, BatchSafe

\* "completed" and "failed" exclude each other and are published after the row was
\* stored; "completed" excludes "cancelled" (execute_script, cancel_execution).
THEOREM EventsCorrect == BatchSpec => []EventsTruthful
  BY BatchInvariance, PTL DEF BatchIInv, BatchSafe

\* An answered cancel leaves no execution in "running".
THEOREM CancelCorrect == BatchSpec => []CancelSettles
  BY BatchInvariance, PTL DEF BatchIInv, BatchSafe
=============================================================================
