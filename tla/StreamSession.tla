---------------------------- MODULE StreamSession ----------------------------
(* One WebSocket session that streams commands from a node: the handler's loop,
   the task that forwards a command's events, the SSH connector with its pumps,
   its bounded queue and its exit task, and the remote process.  The process runs
   in a group of its own (setsid), so a closed connection does not end it; it is
   signalled through the file it writes its group to.  The client may leave at
   any await, and the connection may be lost. *)
EXTENDS Naturals, Sequences

CONSTANTS
    QueueSize,    \* _STREAM_QUEUE_SIZE
    MaxChunks,    \* bound: chunks of output of a command
    MaxCommands   \* bound: commands of the session

ASSUME StreamAssumption ==
    /\ QueueSize \in Nat \ {0}
    /\ MaxChunks \in Nat
    /\ MaxCommands \in Nat

VARIABLES
    client,   \* "here", "gone"
    main,     \* next step of exec_stream
    left,     \* why the handler left its loop
    blind,    \* "yes" once a process could not be reached when it should end
    conn,     \* the SSH connection
    task,     \* next step of _send_command_events and its generator
    exit,     \* wait_for_exit
    proc,     \* the remote process
    strays,   \* processes that the session has forgotten and that may still run
    timeouts, \* history: starts that failed although the process may have been created
    unread,   \* chunks the pumps have not queued
    lag,      \* chunks the exit event may overtake
    queue,    \* the events queued
    produced, \* chunks of the command
    sent,     \* chunks forwarded
    ended,    \* the exit frame: "no", "sent"
    commands  \* commands started

vars == <<client, main, left, blind, conn, task, exit, proc, strays, unread, lag,
          queue, produced, sent, ended, timeouts, commands>>

handler == <<main, left, blind>>
stream == <<unread, lag, queue, produced, sent, ended>>

TypeOK ==
    /\ client \in {"here", "gone"}
    /\ main \in {"auth", "connect", "receive", "signal", "reply", "abort", "leave",
                 "finally", "gather", "closed"}
    /\ left \in {"no", "refused", "disconnect", "error"}
    /\ blind \in {"no", "yes"}
    /\ conn \in {"none", "open", "lost", "closed"}
    /\ task \in {"none", "starting", "streaming", "cleanup", "grace", "kill", "wait",
                 "remove", "done"}
    /\ exit \in {"none", "waiting", "putting", "done"}
    /\ proc \in {"none", "started", "running", "exited"}
    /\ strays \in 0 .. MaxCommands
    /\ timeouts \in 0 .. MaxCommands
    /\ unread \in 0 .. MaxChunks
    /\ lag \in 0 .. MaxChunks
    /\ queue \in Seq({"out", "exit"}) /\ Len(queue) <= QueueSize
    /\ produced \in 0 .. MaxChunks
    /\ sent \in 0 .. MaxChunks
    /\ ended \in {"no", "sent"}
    /\ commands \in 0 .. MaxCommands

Init ==
    /\ client = "here"
    /\ main = "auth"
    /\ left = "no"
    /\ blind = "no"
    /\ conn = "none"
    /\ task = "none"
    /\ exit = "none"
    /\ proc = "none"
    /\ strays = 0 /\ timeouts = 0
    /\ unread = 0 /\ lag = 0 /\ queue = <<>>
    /\ produced = 0 /\ sent = 0 /\ ended = "no"
    /\ commands = 0

----------------------------------------------------------------------------

Alive == proc \in {"started", "running"}

\* active_task is not None and not active_task.done()
Busy == task \notin {"none", "done"}

\* _active_process is not None
Active == task \in {"streaming", "cleanup", "grace", "kill", "wait"}

\* Nothing reaches a process whose group file is not written yet.
Reachable == Active /\ conn = "open" /\ proc # "started"

\* kill -KILL -$(cat file) over the connection
KillGroup == proc' = IF proc = "running" THEN "exited" ELSE proc

----------------------------------------------------------------------------
(* The client and the connection                                           *)

ClientLeaves ==
    /\ client = "here"
    /\ client' = "gone"
    /\ UNCHANGED <<handler, conn, task, exit, proc, strays, stream, timeouts, commands>>

ConnectionLost ==
    /\ conn = "open"
    /\ conn' = "lost"
    /\ blind' = IF Alive THEN "yes" ELSE blind
    /\ UNCHANGED <<client, main, left, task, exit, proc, strays, stream, timeouts, commands>>

----------------------------------------------------------------------------
(* exec_stream                                                             *)

\* _validate_ws_token
Authenticate ==
    /\ main = "auth"
    /\ \/ main' = "connect" /\ UNCHANGED left
       \/ main' = "closed" /\ left' = "refused"
    /\ UNCHANGED <<client, blind, conn, task, exit, proc, strays, stream, timeouts, commands>>

\* connect: the node, its credentials, the SSH handshake
Connect ==
    /\ main = "connect"
    /\ \/ main' = "receive" /\ conn' = "open" /\ UNCHANGED left
       \/ main' = "finally" /\ left' = "refused" /\ UNCHANGED conn
    /\ UNCHANGED <<client, blind, task, exit, proc, strays, stream, timeouts, commands>>

\* Leaving the loop by an exception or a return: the connection is closed before
\* the process is signalled.
LeaveLoop(why) ==
    /\ main' = "leave"
    /\ left' = why
    /\ blind' = IF Busy THEN "yes" ELSE blind

ReceiveCommand ==
    /\ main = "receive" /\ client = "here"
    /\ IF Busy
       THEN main' = "reply" /\ UNCHANGED <<task, proc, strays, stream, commands>>
       ELSE /\ commands < MaxCommands
            /\ commands' = commands + 1
            /\ task' = "starting"
            /\ proc' = "none"
            /\ strays' = IF Alive THEN strays + 1 ELSE strays
            /\ unread' = 0 /\ lag' = 0 /\ queue' = <<>>
            /\ produced' = 0 /\ sent' = 0 /\ ended' = "no"
            /\ UNCHANGED main
    /\ UNCHANGED <<client, left, blind, conn, exit, timeouts>>

\* Invalid JSON, or a message that does not validate
ReceiveInvalid ==
    /\ main = "receive" /\ client = "here"
    /\ main' = "reply"
    /\ UNCHANGED <<client, left, blind, conn, task, exit, proc, strays, stream, timeouts, commands>>

\* A message that is too large, or JSON that is not an object
ReceiveFatal ==
    /\ main = "receive" /\ client = "here"
    /\ LeaveLoop("error")
    /\ UNCHANGED <<client, conn, task, exit, proc, strays, stream, timeouts, commands>>

\* Without an active process the signal is rejected.
ReceiveSignal ==
    /\ main = "receive" /\ client = "here"
    /\ main' = IF Active THEN "signal" ELSE "reply"
    /\ UNCHANGED <<client, left, blind, conn, task, exit, proc, strays, stream, timeouts, commands>>

\* The process may ignore the signal; without the connection the call raises.
SendSignal ==
    /\ main = "signal"
    /\ IF conn = "open"
       THEN /\ main' = "reply"
            /\ KillGroup \/ UNCHANGED proc
            /\ UNCHANGED <<left, blind>>
       ELSE LeaveLoop("error") /\ UNCHANGED proc
    /\ UNCHANGED <<client, conn, task, exit, strays, stream, timeouts, commands>>

\* send_json may raise once the client is gone.
Reply ==
    /\ main = "reply"
    /\ \/ main' = "receive" /\ UNCHANGED <<left, blind>>
       \/ client = "gone" /\ LeaveLoop("error")
    /\ UNCHANGED <<client, conn, task, exit, proc, strays, stream, timeouts, commands>>

\* Mutant: the disconnect is handled and the loop goes on.
DisconnectedStays ==
    /\ main = "receive" /\ client = "gone"
    /\ IF Busy THEN main' = "abort" ELSE UNCHANGED main
    /\ UNCHANGED <<client, left, blind, conn, task, exit, proc, strays, stream, timeouts, commands>>

\* receive_json raises WebSocketDisconnect.
Disconnected ==
    /\ main = "receive" /\ client = "gone"
    /\ main' = IF Busy THEN "abort" ELSE "leave"
    /\ left' = "disconnect"
    /\ UNCHANGED <<client, blind, conn, task, exit, proc, strays, stream, timeouts, commands>>

\* Mutant: the session's connection is closed first, as on the other ways out.
AbortAfterClose ==
    /\ main = "abort"
    /\ main' = "leave"
    /\ blind' = IF Busy /\ ~Reachable THEN "yes" ELSE blind
    /\ UNCHANGED <<client, left, conn, task, exit, proc, strays, stream, timeouts, commands>>

\* abort_active_process does nothing without an active process, and raises
\* without a connection.
Abort ==
    /\ main = "abort"
    /\ main' = "leave"
    /\ blind' = IF Busy /\ ~Reachable THEN "yes" ELSE blind
    /\ IF Active /\ conn = "open" THEN KillGroup ELSE UNCHANGED proc
    /\ UNCHANGED <<client, left, conn, task, exit, strays, stream, timeouts, commands>>

\* disconnect, as the context of the session is left
Leave ==
    /\ main = "leave"
    /\ main' = "finally"
    /\ conn' = "closed"
    /\ UNCHANGED <<client, left, blind, task, exit, proc, strays, stream, timeouts, commands>>

\* The abort here finds no connection; the task is cancelled where it waits: for the
\* start; for an event, and its cleanup begins; for the cancelled pumps, and the rest
\* of the cleanup is skipped, the exit task's included; or for the process.
CancelledAt(step) ==
    CASE step = "starting"  -> {"done"}
      [] step = "streaming" -> {"cleanup"}
      [] step = "cleanup"   -> {"done", "remove"}
      [] OTHER              -> {"remove"}

Finally ==
    /\ main = "finally"
    /\ IF Busy
       THEN main' = "gather" /\ task' \in CancelledAt(task)
       ELSE main' = "closed" /\ UNCHANGED task
    /\ UNCHANGED <<client, left, blind, conn, exit, proc, strays, stream, timeouts, commands>>

Gather ==
    /\ main = "gather"
    /\ task = "done"
    /\ main' = "closed"
    /\ UNCHANGED <<client, left, blind, conn, task, exit, proc, strays, stream, timeouts, commands>>

----------------------------------------------------------------------------
(* The remote process                                                      *)

ProcessStarts ==
    /\ task = "starting" /\ conn = "open" /\ proc = "none"
    /\ proc' = "started"
    /\ UNCHANGED <<client, handler, conn, task, exit, strays, stream, timeouts, commands>>

\* printf '%s' "$$" > file
WriteGroupFile ==
    /\ proc = "started"
    /\ proc' = "running"
    /\ UNCHANGED <<client, handler, conn, task, exit, strays, stream, timeouts, commands>>

Produce ==
    /\ proc = "running" /\ conn = "open" /\ task \in {"starting", "streaming"}
    /\ produced < MaxChunks
    /\ produced' = produced + 1
    /\ unread' = unread + 1
    /\ UNCHANGED <<client, handler, conn, task, exit, proc, strays, lag, queue, sent,
                   ended, timeouts, commands>>

ProcessEnds ==
    /\ proc = "running"
    /\ proc' = "exited"
    /\ UNCHANGED <<client, handler, conn, task, exit, strays, stream, timeouts, commands>>

----------------------------------------------------------------------------
(* execute_command_streaming_events and _send_command_events               *)

StartCompletes ==
    /\ task = "starting" /\ conn = "open" /\ proc # "none"
    /\ task' = "streaming"
    /\ exit' = "waiting"
    /\ UNCHANGED <<client, handler, conn, proc, strays, stream, timeouts, commands>>

\* There is no connection, or create_process times out: the process may run by now, or
\* start later, and _active_process does not know it.
StartFails ==
    /\ task = "starting"
    /\ task' = "done"
    /\ proc' = "none"
    /\ \/ strays' = strays + 1 /\ timeouts' = timeouts + 1
       \/ ~Alive /\ UNCHANGED <<strays, timeouts>>
    /\ UNCHANGED <<client, handler, conn, exit, stream, commands>>

\* pump
Pump ==
    /\ task = "streaming"
    /\ unread > 0 /\ Len(queue) < QueueSize
    /\ unread' = unread - 1
    /\ queue' = Append(queue, "out")
    /\ UNCHANGED <<client, handler, conn, task, exit, proc, strays, lag, produced, sent,
                   ended, timeouts, commands>>

\* process.wait() returns.  The pumps have queued all they could before that; one
\* chunk waits in front of the exit event when the queue is full.
ExitNoticed ==
    /\ exit = "waiting"
    /\ proc = "exited" \/ conn # "open"
    /\ unread = 0 \/ Len(queue) = QueueSize \/ task # "streaming"
    /\ exit' = "putting"
    /\ lag' = IF unread = 0 THEN 0 ELSE unread - 1
    /\ UNCHANGED <<client, handler, conn, task, proc, strays, unread, queue, produced,
                   sent, ended, timeouts, commands>>

PutExit ==
    /\ exit = "putting"
    /\ Len(queue) < QueueSize
    /\ unread <= lag \/ task # "streaming"
    /\ queue' = Append(queue, "exit")
    /\ exit' = "done"
    /\ UNCHANGED <<client, handler, conn, task, proc, strays, unread, lag, produced,
                   sent, ended, timeouts, commands>>

\* Mutant: the loop ends with the process, not with its exit event.
ForwardWhileAlive ==
    /\ task = "streaming" /\ queue # <<>>
    /\ queue' = Tail(queue)
    /\ sent' = sent + (IF Head(queue) = "out" THEN 1 ELSE 0)
    /\ ended' = IF Head(queue) = "exit" \/ exit # "waiting" THEN "sent" ELSE ended
    /\ task' = IF ended' = "sent" THEN "cleanup" ELSE task
    /\ UNCHANGED <<client, handler, conn, exit, proc, strays, unread, lag, produced,
                   timeouts, commands>>

\* send_json raises when the client is gone, and the generator is closed.
Forward ==
    /\ task = "streaming" /\ queue # <<>>
    /\ queue' = Tail(queue)
    /\ \/ /\ sent' = sent + (IF Head(queue) = "out" THEN 1 ELSE 0)
          /\ ended' = IF Head(queue) = "exit" THEN "sent" ELSE ended
          /\ task' = IF Head(queue) = "exit" THEN "cleanup" ELSE task
       \/ client = "gone" /\ task' = "cleanup" /\ UNCHANGED <<sent, ended>>
    /\ UNCHANGED <<client, handler, conn, exit, proc, strays, unread, lag, produced,
                   timeouts, commands>>

\* The pumps are cancelled; a process that has not reported its end gets TERM,
\* which it may ignore.
Cleanup ==
    /\ task = "cleanup"
    /\ IF exit \in {"putting", "done"} /\ proc = "exited"
       THEN task' = "grace" /\ UNCHANGED proc
       ELSE IF conn = "open"
            THEN task' = "grace" /\ (KillGroup \/ UNCHANGED proc)
            ELSE task' = "remove" /\ UNCHANGED proc
    /\ UNCHANGED <<client, handler, conn, exit, strays, stream, timeouts, commands>>

\* wait_for(exit_task): done, or _PROCESS_TERMINATION_TIMEOUT
GraceEnds ==
    /\ task = "grace" /\ exit = "done"
    /\ task' = "remove"
    /\ UNCHANGED <<client, handler, conn, exit, proc, strays, stream, timeouts, commands>>

\* Mutant: after the timeout the process is left alone.
GraceGivesUp ==
    /\ task = "grace" /\ exit # "done"
    /\ task' = "remove"
    /\ exit' = "none"
    /\ UNCHANGED <<client, handler, conn, proc, strays, stream, timeouts, commands>>

GraceTimesOut ==
    /\ task = "grace" /\ exit # "done"
    /\ task' = "kill"
    /\ exit' = "none"
    /\ UNCHANGED <<client, handler, conn, proc, strays, stream, timeouts, commands>>

Kill ==
    /\ task = "kill"
    /\ IF conn = "open"
       THEN task' = "wait" /\ KillGroup
       ELSE task' = "remove" /\ UNCHANGED proc
    /\ UNCHANGED <<client, handler, conn, exit, strays, stream, timeouts, commands>>

\* process.wait() returns for a lost or closed connection too.
WaitProcess ==
    /\ task = "wait"
    /\ proc = "exited" \/ conn # "open"
    /\ task' = "remove"
    /\ UNCHANGED <<client, handler, conn, exit, proc, strays, stream, timeouts, commands>>

\* rm -f of the group file; the exit task is over or cancelled.
Remove ==
    /\ task = "remove"
    /\ task' = "done"
    /\ exit' = "none"
    /\ UNCHANGED <<client, handler, conn, proc, strays, stream, timeouts, commands>>

----------------------------------------------------------------------------

Handler ==
    \/ Authenticate \/ Connect \/ SendSignal \/ Reply \/ Disconnected
    \/ Abort \/ Leave \/ Finally \/ Gather

Receive == ReceiveCommand \/ ReceiveInvalid \/ ReceiveFatal \/ ReceiveSignal

Task ==
    \/ StartCompletes \/ StartFails \/ Forward \/ Cleanup
    \/ GraceEnds \/ GraceTimesOut \/ Kill \/ WaitProcess \/ Remove

Helpers == Pump \/ ExitNoticed \/ PutExit

Process == ProcessStarts \/ WriteGroupFile \/ Produce \/ ProcessEnds

Next == ClientLeaves \/ ConnectionLost \/ Receive \/ Handler \/ Task \/ Helpers \/ Process

\* The event loop runs every coroutine that can go on; the commands the handler
\* itself sends over the connection return or fail.  The client need not do
\* anything, and the process need not end.
Fairness == WF_vars(Handler) /\ WF_vars(Task) /\ WF_vars(Helpers)

Spec == Init /\ [][Next]_vars /\ Fairness

----------------------------------------------------------------------------
(* Properties                                                              *)

\* Processes of the session's commands that are over, or were given up.
Forgotten == strays + (IF task = "done" /\ Alive THEN 1 ELSE 0)

\* While the connection is open, a command runs beside another process of the session
\* only when a start had timed out and left it there: a task that has its process is
\* over only when the process is, whether it ended with the exit event, with TERM, or
\* with KILL after the timeout (execute_command_streaming_events).
OneProcess == conn = "open" => Forgotten <= timeouts

\* A client that leaves while the command's process can be signalled does not leave it
\* behind: the abort comes before the connection is closed (exec_stream).
ReachableProcessDies == main = "closed" /\ left = "disconnect" /\ Alive => blind = "yes"

\* A client that has the exit frame of a command has all of its output, unless the
\* connection was lost or the exit event overtook chunks held back by a full queue.
ExitAfterOutput == ended = "sent" /\ conn = "open" /\ lag = 0 => sent = produced

\* When the client is gone the handler returns, and the task of its command is over
\* (exec_stream's finally).
SessionEnds == client = "gone" ~> (main = "closed" /\ ~Busy)

\* After the client has left and the session is over, the remote process is not
\* running: "disconnect cancels and closes the remote process".
DisconnectClosesProcess == main = "closed" /\ left = "disconnect" => ~Alive

============================================================================
