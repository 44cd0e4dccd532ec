-------------------------- MODULE ServiceRequests --------------------------
(* A request of the API, from its guard to its answer and the end of its
   session.  ApiRoutes gives every handler's guard, the way it spreads its items
   and the steps of the operation it runs for each; this module says what a step
   does and lets the items of a request interleave.  The items share the
   request's session and its semaphore.  The environment may refuse an item, fail
   a transaction, lose the answer of a command or fail the command. *)
EXTENDS ApiRoutes, Integers, FiniteSets

CONSTANTS
    N,        \* items of a request
    Slots     \* the slots a semaphore may have free when a request comes

ASSUME RequestAssumption == N \in Nat \ {0} /\ Slots \subseteq Nat \ {0}

Items == 1 .. N

Principals == {"nobody", "reader", "user", "writer", "superuser"}

NoRequest == [guard |-> "none", wrap |-> "none", program |-> <<>>]

VARIABLES
    req,      \* the route of the request, or NoRequest
    who,      \* the principal
    pc,       \* [Items -> index of the next step]
    out,      \* [Items -> outcome of the last command]
    did,      \* [Items -> what the item has left behind]
    res,      \* [Items -> "absent", "none", "success", "error"]
    free,     \* free slots of the semaphore
    flushing, \* items inside a flush of the request's session
    session,  \* the request's session
    answer    \* "none", "done", "error"

vars == <<req, who, pc, out, did, res, free, flushing, session, answer>>

Facts ==
    {"intent", "effect", "token", "log", "row", "event", "failed", "staged", "key", "scratch"}

TypeOK ==
    /\ req \in Routes \cup {NoRequest}
    /\ who \in Principals
    /\ \A i \in Items : pc[i] \in 1 .. Len(req.program) + 1
    /\ out \in [Items -> {"none", "ok", "failed", "silent", "lost"}]
    /\ did \in [Items -> SUBSET Facts]
    /\ res \in [Items -> {"absent", "none", "success", "error"}]
    /\ free \in Nat
    /\ flushing \subseteq Items
    /\ session \in {"clean", "marked", "flushed", "committed", "lost"}
    /\ answer \in {"none", "done", "error"}

Init ==
    /\ req = NoRequest
    /\ who = "nobody"
    /\ pc = [i \in Items |-> 1]
    /\ out = [i \in Items |-> "none"]
    /\ did = [i \in Items |-> {}]
    /\ res = [i \in Items |-> "absent"]
    /\ free = 0
    /\ flushing = {}
    /\ session = "clean"
    /\ answer = "none"

----------------------------------------------------------------------------
(* Admission                                                               *)

\* Mutant: the write guard lets every authenticated principal through.
AdmittedByAnyKey(guard) ==
    CASE guard = "none" -> Principals
      [] guard \in {"principal", "write"} -> Principals \ {"nobody"}
      [] guard = "user" -> {"user", "superuser"}
      [] guard = "superuser" -> {"superuser"}
      [] guard = "service" -> {"writer"}

\* reader and writer hold an API key, user and superuser a token.
Admitted(guard) ==
    CASE guard = "none" -> Principals
      [] guard = "principal" -> Principals \ {"nobody"}
      [] guard = "write" -> {"writer", "superuser"}
      [] guard = "user" -> {"user", "superuser"}
      [] guard = "superuser" -> {"superuser"}
      [] guard = "service" -> {"writer"}

Accept(r, p, n) ==
    /\ req = NoRequest
    /\ p \in Admitted(r.guard)
    /\ req' = r
    /\ who' = p
    /\ free' = n
    /\ res' = [i \in Items |-> IF r.wrap # "one" \/ i = 1 THEN "none" ELSE "absent"]
    /\ UNCHANGED <<pc, out, did, flushing, session, answer>>

----------------------------------------------------------------------------
(* Steps of an item                                                        *)

Step(i) == req.program[pc[i]]

Done(i, k) == \E n \in 1 .. pc[i] - 1 : req.program[n] = k

Promises(k) == \E n \in 1 .. Len(req.program) : req.program[n] = k

Holds(i) == Done(i, "acquire") /\ ~Done(i, "release")

\* Steps of the coroutine that spreads the items: after an exception it is gone,
\* and the tasks it has started go on.
MainSteps == {"require", "intent", "barrier", "logQuiet"}

At(i, kinds) ==
    /\ res[i] = "none"
    /\ pc[i] <= Len(req.program)
    /\ Step(i) \in kinds
    /\ answer = "none" \/ Step(i) \notin MainSteps
    /\ req.wrap = "loop" => \A j \in 1 .. i - 1 : res[j] # "none"

\* Mutant: a step too many.
AdvanceTwice(i, facts) ==
    /\ pc' = [pc EXCEPT ![i] = @ + 2]
    /\ did' = [did EXCEPT ![i] = @ \cup facts]
    /\ UNCHANGED <<req, who, res, free, answer>>

Advance(i, facts) ==
    /\ pc' = [pc EXCEPT ![i] = @ + 1]
    /\ did' = [did EXCEPT ![i] = @ \cup facts]
    /\ UNCHANGED <<req, who, res, free, answer>>

\* Mutant: the slot is given back only by an item that runs to its end.
EndKeepsSlot(i, result) ==
    /\ res' = [res EXCEPT ![i] = result]
    /\ UNCHANGED <<req, who, pc, free>>

\* The item has its result; `async with' gives its slot back.
End(i, result) ==
    /\ res' = [res EXCEPT ![i] = result]
    /\ free' = IF Holds(i) THEN free + 1 ELSE free
    /\ UNCHANGED <<req, who, pc>>

\* An exception.  Handlers of several items turn it into the item's error; it is
\* the answer of the others, and of what precedes the items.  execute_command
\* audits and publishes the failure, unless auditing it fails as well.
Raise(i) ==
    /\ End(i, "error")
    /\ answer' = IF req.wrap \in {"one", "batch"} \/ Step(i) = "require"
                    THEN "error" ELSE answer
    /\ \E facts \in IF Done(i, "announce") THEN {{}, {"failed"}} ELSE {{}} :
          did' = [did EXCEPT ![i] = @ \cup facts]

Refuse(i) ==
    /\ At(i, {"check", "require", "change", "nested", "token", "stage"})
    /\ Raise(i)
    /\ UNCHANGED <<out, flushing, session>>

Check(i) ==
    /\ At(i, {"check", "require", "announce"})
    /\ Advance(i, {})
    /\ UNCHANGED <<out, flushing, session>>

Intent(i) ==
    /\ At(i, {"intent"})
    /\ Advance(i, {"intent"})
    /\ UNCHANGED <<out, flushing, session>>

\* Mutant: the history row is best effort.
SaveFailsOpen(i) ==
    /\ At(i, {"intent", "save"})
    /\ IF Step(i) = "save" THEN Advance(i, {}) ELSE Raise(i)
    /\ UNCHANGED <<out, flushing, session>>

\* log_required or the history's transaction fails.
WriteFails(i) ==
    /\ At(i, {"intent", "save"})
    /\ Raise(i)
    /\ UNCHANGED <<out, flushing, session>>

Change(i) ==
    /\ At(i, {"change", "nested", "token"})
    /\ Advance(i, IF Step(i) = "token" THEN {"token"} ELSE {"effect"})
    /\ UNCHANGED <<out, flushing, session>>

\* A favorite is written in the session of the request: added or changed and
\* flushed, or deleted without a flush.
Stage(i) ==
    /\ At(i, {"stage", "mark"})
    /\ Advance(i, {"staged"})
    /\ session' = IF Step(i) = "mark" THEN "marked" ELSE "flushed"
    /\ UNCHANGED <<out, flushing>>

\* ensure_host, best effort: known_hosts may have the host's key afterwards.
Trust(i) ==
    /\ At(i, {"trust"})
    /\ \E facts \in {{}, {"key"}} : Advance(i, facts)
    /\ UNCHANGED <<out, flushing, session>>

\* The first half of a compose command: `base64 -d > file' with a file of the
\* call's own, which nothing removes.
Scratch(i) ==
    /\ At(i, {"scratch"})
    /\ \E facts \in {{}, {"scratch"}} : Advance(i, facts)
    /\ UNCHANGED <<out, flushing, session>>

Reads == {"read", "attempt"}

Mutates == {"write", "exec", "keep"}

\* The command runs on the node.  A lost answer leaves open whether it did; the
\* compose command behind `&&' does not run when its file was not written.
Outcome(i, o, effect) ==
    /\ Done(i, "scratch") /\ "scratch" \notin did[i] => o \in {"failed", "lost"} /\ ~effect
    /\ effect => Step(i) \in Mutates /\ o \in {"ok", "lost"}
    /\ o = "ok" /\ Step(i) \in Mutates => effect
    /\ out' = [out EXCEPT ![i] = o]

\* The command ends with an exit code, or the caller goes on without one.
Remote(i) ==
    /\ At(i, Reads \cup Mutates)
    /\ \E o \in {"ok", "failed", "silent", "lost"}, effect \in BOOLEAN :
          /\ o = "lost" => Step(i) \in {"keep", "attempt"}
          /\ Step(i) = "attempt" => o # "ok"
          /\ Outcome(i, o, effect)
          /\ Advance(i, IF effect THEN {"effect"} ELSE {})
    /\ UNCHANGED <<flushing, session>>

\* The connection or the timeout ends the command: an exception, which
\* exec_command of a container turns into a result.
RemoteLost(i) ==
    /\ At(i, {"read", "write", "exec"})
    /\ \E effect \in BOOLEAN :
          /\ Outcome(i, "lost", effect)
          /\ LET before == did[i] \cup (IF effect THEN {"effect"} ELSE {})
             IN  \E facts \in IF Done(i, "announce") THEN {{}, {"failed"}} ELSE {{}} :
                    did' = [did EXCEPT ![i] = before \cup facts]
    /\ End(i, "error")
    /\ answer' = IF req.wrap \in {"one", "batch"} /\ Step(i) # "exec"
                    THEN "error" ELSE answer
    /\ UNCHANGED <<flushing, session>>

\* images and version of compose: the first command answers, the second is only
\* its fallback.
AttemptSucceeds(i) ==
    /\ At(i, {"attempt"})
    /\ Outcome(i, "ok", FALSE)
    /\ End(i, "success")
    /\ UNCHANGED <<did, flushing, session, answer>>

\* Mutant: a command that fails without a message counts as a success.
AcceptsQuietly(i, kind) == out[i] \in {"none", "ok", "silent"}

\* raise_for_docker_error looks at the exit code; the bulk service of docker
\* wants a message as well.  A lost answer that was kept is no exit code.
Accepts(i, kind) ==
    CASE kind = "strict" -> out[i] \in {"none", "ok", "lost"}
      [] kind = "soft" -> out[i] \in {"none", "ok", "silent"}
      [] kind = "judge" -> out[i] \in {"none", "ok"}
      [] kind = "output" -> TRUE

Judge(i) ==
    /\ At(i, {"strict", "soft", "judge", "output"})
    /\ Accepts(i, Step(i))
    /\ Advance(i, {})
    /\ UNCHANGED <<out, flushing, session>>

Rejected(i) ==
    /\ At(i, {"strict", "soft", "output"})
    /\ ~Accepts(i, Step(i)) \/ Step(i) = "output"
    /\ Raise(i)
    /\ UNCHANGED <<out, flushing, session>>

\* The exit code is the item's result.
Judged(i) ==
    /\ At(i, {"judge"})
    /\ ~Accepts(i, "judge")
    /\ End(i, "error")
    /\ UNCHANGED <<out, did, flushing, session, answer>>

----------------------------------------------------------------------------
(* Audit events, history, SSE                                              *)

\* The outbox flushes in a savepoint of the request's session, which takes one
\* operation at a time: a second item that flushes meanwhile may fail.
LogBegin(i) ==
    /\ At(i, {"log"})
    /\ i \notin flushing
    /\ flushing' = flushing \cup {i}
    /\ UNCHANGED <<req, who, pc, out, did, res, free, session, answer>>

LogEnd(i) ==
    /\ i \in flushing
    /\ flushing' = flushing \ {i}
    /\ Advance(i, {"log"})
    /\ session' = IF session = "clean" THEN "flushed" ELSE session
    /\ UNCHANGED out

\* AuditWriteError.
LogFails(i) ==
    /\ i \in flushing
    /\ flushing' = flushing \ {i}
    /\ Raise(i)
    /\ UNCHANGED <<out, session>>

\* Best effort: the event or the row may be missing.
Quiet(i) ==
    /\ At(i, {"logQuiet", "saveQuiet"})
    /\ \E facts \in {{}, {IF Step(i) = "logQuiet" THEN "log" ELSE "row"}} :
          Advance(i, facts)
    /\ session' = IF session = "clean" /\ Step(i) = "logQuiet" THEN "flushed" ELSE session
    /\ UNCHANGED <<out, flushing>>

Save(i) ==
    /\ At(i, {"save"})
    /\ Advance(i, {"row"})
    /\ UNCHANGED <<out, flushing, session>>

Publish(i) ==
    /\ At(i, {"event"})
    /\ Advance(i, {"event"})
    /\ UNCHANGED <<out, flushing, session>>

----------------------------------------------------------------------------
(* Concurrency of the items                                                *)

\* Mutant: the tasks start as soon as their own intent is written.
NoBarrier(i) ==
    /\ At(i, {"barrier"})
    /\ Advance(i, {})
    /\ UNCHANGED <<out, flushing, session>>

Barrier(i) ==
    /\ At(i, {"barrier"})
    /\ \A j \in Items : res[j] # "none" \/ pc[j] >= pc[i]
    /\ Advance(i, {})
    /\ UNCHANGED <<out, flushing, session>>

Acquire(i) ==
    /\ At(i, {"acquire"})
    /\ free > 0
    /\ free' = free - 1
    /\ pc' = [pc EXCEPT ![i] = @ + 1]
    /\ UNCHANGED <<req, who, out, did, res, flushing, session, answer>>

Release(i) ==
    /\ At(i, {"release"})
    /\ free' = free + 1
    /\ pc' = [pc EXCEPT ![i] = @ + 1]
    /\ UNCHANGED <<req, who, out, did, res, flushing, session, answer>>

Finish(i) ==
    /\ res[i] = "none"
    /\ pc[i] = Len(req.program) + 1
    /\ res' = [res EXCEPT ![i] = "success"]
    /\ UNCHANGED <<req, who, pc, out, did, free, flushing, session, answer>>

----------------------------------------------------------------------------
(* The answer                                                              *)

\* CommitOnResponseMiddleware commits a session with new, dirty or deleted
\* objects; what is flushed is none of these.
Answer ==
    /\ req # NoRequest
    /\ answer = "none"
    /\ \A i \in Items : res[i] # "none"
    /\ answer' = "done"
    /\ session' = IF session = "marked" THEN "committed" ELSE session
    /\ UNCHANGED <<req, who, pc, out, did, res, free, flushing>>

CommitFails ==
    /\ req # NoRequest
    /\ answer = "none"
    /\ \A i \in Items : res[i] # "none"
    /\ session = "marked"
    /\ answer' = "error"
    /\ session' = "lost"
    /\ UNCHANGED <<req, who, pc, out, did, res, free, flushing>>

\* The scope of the request ends and its session commits what was flushed, or
\* fails to, after the answer.
CloseSession ==
    /\ answer # "none"
    /\ session = "flushed"
    /\ session' \in {"committed", "lost"}
    /\ UNCHANGED <<req, who, pc, out, did, res, free, flushing, answer>>

\* No task of the request is left: the next request may come.
Leave ==
    /\ answer # "none"
    /\ session # "flushed"
    /\ \A i \in Items : \/ res[i] # "none"
                        \/ pc[i] <= Len(req.program) /\ Step(i) \in MainSteps
    /\ req' = NoRequest
    /\ who' = "nobody"
    /\ pc' = [i \in Items |-> 1]
    /\ out' = [i \in Items |-> "none"]
    /\ did' = [i \in Items |-> {}]
    /\ res' = [i \in Items |-> "absent"]
    /\ free' = 0
    /\ session' = "clean"
    /\ answer' = "none"
    /\ UNCHANGED flushing

ItemStep(i) ==
    \/ Refuse(i) \/ Check(i) \/ Intent(i) \/ WriteFails(i) \/ Change(i) \/ Stage(i)
    \/ Trust(i) \/ Scratch(i) \/ Remote(i) \/ RemoteLost(i) \/ AttemptSucceeds(i)
    \/ Judge(i) \/ Rejected(i) \/ Judged(i)
    \/ LogBegin(i) \/ LogEnd(i) \/ LogFails(i) \/ Quiet(i) \/ Save(i) \/ Publish(i)
    \/ Barrier(i) \/ Acquire(i) \/ Release(i) \/ Finish(i)

RequestStep == Answer \/ CommitFails \/ CloseSession \/ Leave

Next ==
    \/ \E r \in Routes, p \in Principals, n \in Slots : Accept(r, p, n)
    \/ \E i \in Items : ItemStep(i)
    \/ RequestStep

\* A coroutine that can resume does: every command has a timeout and every
\* transaction an end.
Fairness ==
    /\ \A i \in Items : WF_vars(ItemStep(i))
    /\ WF_vars(RequestStep)

Spec == Init /\ [][Next]_vars /\ Fairness

----------------------------------------------------------------------------
(* Properties                                                              *)

\* Only a principal with write access changes a node, a row or the trusted host
\* keys, whichever of the handlers it calls: the guard of each handler fits what
\* the services below it do (a caller's own refresh tokens apart).  What every
\* other authenticated principal can leave on a node is a compose file: ps, logs,
\* config, images, top, port and version of compose are guarded as reads and
\* write one for each command.
OnlyWritersChange ==
    \A i \in Items :
        /\ did[i] \cap {"effect", "staged", "key"} # {} => who \in {"writer", "superuser"}
        /\ "scratch" \in did[i] => who # "nobody"

\* An item that a handler reports as a success and whose program runs a command
\* that changes its node did change it: no lost answer, failed command or command
\* that never ran (a compose file that was not written) is reported as a success.
\* Retries run no command and are not meant here: see RetriesRun.
SuccessIsReal ==
    \A i \in Items :
        /\ res[i] = "success"
        /\ req.guard # "service"
        /\ \E k \in Mutates : Promises(k)
        => out[i] = "ok" /\ "effect" \in did[i]

\* Operations whose intent comes before their effect.
AuditedFirst ==
    \E n \in 1 .. Len(req.program) :
        /\ req.program[n] = "intent"
        /\ \E m \in n .. Len(req.program) : req.program[m] \in Mutates \cup {"change"}

\* Before such an operation changes its first node or row, its intent is
\* committed, and in a batch the intents for all targets are.  What an update of
\* a node does earlier is to trust the key of its new address: ensure_host comes
\* before log_required, and the entry stays when the intent cannot be written.
IntentFirst ==
    AuditedFirst =>
        \A i \in Items : "effect" \in did[i] =>
            \A j \in Items : (j = i \/ req.wrap = "batch") => "intent" \in did[j]

\* A published event is about something that happened and was recorded: the
\* docker command exited with 0, the execution has its history row, and no
\* execution is announced both as completed and as failed.
EventsReal ==
    \A i \in Items : "event" \in did[i] =>
        /\ {"effect", "log"} \subseteq did[i] \/ out[i] # "ok"
        /\ Promises("strict") => out[i] = "ok"
        /\ Promises("save") => "row" \in did[i]
        /\ "failed" \notin did[i]

\* Every request is answered and leaves nothing behind that waits: no slot is
\* lost to an item that failed, no barrier waits for an item that has ended.
RequestsEnd == (req # NoRequest) ~> (req = NoRequest)

\* What the middleware's docstring promises: a change made in the session of the
\* request is committed before the answer says that it was made.
CommittedBeforeAnswer ==
    (answer = "done" /\ \E i \in Items : "staged" \in did[i] /\ res[i] = "success")
        => session = "committed"

\* What the guide says of retries: one that is answered as a success has executed
\* the command again.
RetriesRun ==
    \A i \in Items :
        req = api_bulk_retry_executions /\ res[i] = "success" => "effect" \in did[i]

============================================================================
