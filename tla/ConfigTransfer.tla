--------------------------- MODULE ConfigTransfer ---------------------------
(* Export, preview and import of the configuration behind the request timeout.
   Tables are read in pages without an order, an import is
   one transaction with unique names, and a request that is answered with 504
   runs on.  Other requests create and delete rows meanwhile.
   app/adapters/persistence/config.py, app/application/services/config_service.py,
   app/api/middleware.py *)
EXTENDS Naturals, Sequences, SequencesExt, FiniteSets, FiniteSetsExt

CONSTANTS
    Kinds,        \* sequence of the tables, in the order they are read
    Names,
    Payloads,     \* sequences of rows <<kind, name>>, grouped by kind
    Batch,        \* batch_size
    Slots,        \* requests in flight
    MaxRequests,  \* bound: requests sent
    MaxEdits      \* bound: rows created or deleted by other requests

ASSUME TransferAssumption ==
    /\ Batch \in Nat \ {0} /\ MaxRequests \in Nat /\ MaxEdits \in Nat
    /\ Kinds \in Seq(Range(Kinds)) /\ IsFiniteSet(Names)
    /\ \A p \in Payloads : p \in Seq(Range(Kinds) \X Names)

Rows == Range(Kinds) \X Names

VARIABLES
    table,   \* committed rows
    req,     \* [Slots -> the request, or Idle]
    sent,    \* requests sent
    edits    \* edits made

vars == <<table, req, sent, edits>>

Ops == {"export", "preview", "import"}

\* op: the operation; data: its rows; phase: what its handler does next; kind,
\* got: table being read and rows of it read so far; known: rows read; item: next
\* row of the data; staged: rows inserted and not committed; added: history, rows
\* it committed; heard: what the client was answered; seen: history, rows that
\* existed while it ran
Idle == [op |-> "none", data |-> <<>>, phase |-> "idle", kind |-> 1, got |-> 0,
         known |-> {}, item |-> 1, staged |-> {}, added |-> {}, heard |-> "none",
         seen |-> {}]

TypeOK ==
    /\ table \subseteq Rows
    /\ \A s \in Slots :
          /\ req[s].op \in Ops \cup {"none"}
          /\ req[s].data \in Payloads \cup {<<>>}
          /\ req[s].phase \in {"idle", "read", "insert", "commit", "reply", "done"}
          /\ req[s].kind \in 1 .. Len(Kinds) + 1
          /\ req[s].got \in 0 .. Cardinality(Rows)
          /\ req[s].known \cup req[s].staged \cup req[s].added \cup req[s].seen
                \subseteq Rows
          /\ req[s].item \in 1 .. Len(req[s].data) + 1
          /\ req[s].heard \in {"none", "success", "error", "504"}
          /\ req[s].staged \cap table = {}  \* the unique indexes
    /\ sent \in 0 .. MaxRequests
    /\ edits \in 0 .. MaxEdits

Init ==
    /\ table = {}
    /\ req = [s \in Slots |-> Idle]
    /\ sent = 0
    /\ edits = 0

----------------------------------------------------------------------------
(* Requests                                                                *)

\* Every request that runs notices the rows that exist.
Noticed(requests, rows) ==
    [s \in Slots |-> IF requests[s].phase \in {"idle", "done"} THEN requests[s]
                     ELSE [requests[s] EXCEPT !.seen = @ \cup rows]]

Becomes(s, r) == req' = [req EXCEPT ![s] = r]

RowsOf(kind, rows) == {row \in rows : row[1] = kind}

\* The kinds a handler reads: all for an export, else those it has data for.
Reads(op, data, kind) == op = "export" \/ RowsOf(kind, Range(data)) # {}

\* The first table to read from position k on.
NextKind(op, data, k) ==
    LET left == {i \in k .. Len(Kinds) : Reads(op, data, Kinds[i])} IN
    IF left = {} THEN Len(Kinds) + 1 ELSE CHOOSE i \in left : \A j \in left : i <= j

AfterReading(op) == IF op = "import" THEN "insert" ELSE "reply"

\* The format check's 400 changes nothing and is left out.
Arrive(s, op, data) ==
    /\ sent < MaxRequests
    /\ req[s].phase = "idle" /\ \A t \in Slots : req[t].phase = "idle" => s <= t
    /\ sent' = sent + 1
    /\ LET k == NextKind(op, data, 1) IN
       Becomes(s, [Idle EXCEPT !.op = op, !.data = data, !.kind = k, !.seen = table,
                       !.phase = IF k > Len(Kinds) THEN AfterReading(op) ELSE "read"])
    /\ UNCHANGED <<table, edits>>

\* get_all(skip, limit): OFFSET and LIMIT without ORDER BY, any rows of the table
Page(s, page) ==
    LET rows == Cardinality(RowsOf(Kinds[req[s].kind], table))
        left == IF rows > req[s].got THEN rows - req[s].got ELSE 0
    IN  Cardinality(page) = Min({Batch, left})

\* Mutant: every page starts at the first row.
LoadKeepsSkip(s) ==
    LET r == req[s]
        next == NextKind(r.op, r.data, r.kind + 1)
    IN  /\ r.phase = "read"
        /\ \E page \in SUBSET RowsOf(Kinds[r.kind], table) :
              /\ Page(s, page)
              /\ IF Cardinality(page) = Batch
                 THEN Becomes(s, [r EXCEPT !.known = @ \cup page])
                 ELSE Becomes(s, [r EXCEPT !.known = @ \cup page, !.got = 0, !.kind = next,
                         !.phase = IF next > Len(Kinds) THEN AfterReading(r.op) ELSE "read"])
        /\ UNCHANGED <<table, sent, edits>>

\* _load_all: until a page is not full
Load(s) ==
    LET r == req[s]
        next == NextKind(r.op, r.data, r.kind + 1)
    IN  /\ r.phase = "read"
        /\ \E page \in SUBSET RowsOf(Kinds[r.kind], table) :
              /\ Page(s, page)
              /\ IF Cardinality(page) = Batch
                 THEN Becomes(s, [r EXCEPT !.known = @ \cup page, !.got = @ + Batch])
                 ELSE Becomes(s, [r EXCEPT !.known = @ \cup page, !.got = 0, !.kind = next,
                         !.phase = IF next > Len(Kinds) THEN AfterReading(r.op) ELSE "read"])
        /\ UNCHANGED <<table, sent, edits>>

\* Handlers that have inserted the row and not ended their transaction.
Holders(row) == {s \in Slots : row \in req[s].staged}

\* The handler is at an INSERT.
Inserting(s) ==
    /\ req[s].phase = "insert"
    /\ req[s].item <= Len(req[s].data)
    /\ req[s].data[req[s].item] \notin req[s].known

Current(s) == req[s].data[req[s].item]

\* Mutant: the loop steps over the next row too.
SkipRowAndNext(s) ==
    /\ req[s].phase = "insert"
    /\ req[s].item <= Len(req[s].data)
    /\ Current(s) \in req[s].known
    /\ Becomes(s, [req[s] EXCEPT !.item = @ + 2])
    /\ UNCHANGED <<table, sent, edits>>

\* A row whose name was read, or is in the data twice, is skipped.
SkipRow(s) ==
    /\ req[s].phase = "insert"
    /\ req[s].item <= Len(req[s].data)
    /\ Current(s) \in req[s].known
    /\ Becomes(s, [req[s] EXCEPT !.item = @ + 1])
    /\ UNCHANGED <<table, sent, edits>>

\* The unique index makes the INSERT wait while another transaction holds the
\* name.
Insert(s) ==
    /\ Inserting(s)
    /\ Current(s) \notin table
    /\ Holders(Current(s)) = {}
    /\ Becomes(s, [req[s] EXCEPT !.item = @ + 1, !.staged = @ \cup {Current(s)},
                                 !.known = @ \cup {Current(s)}])
    /\ UNCHANGED <<table, sent, edits>>

\* The handler ends; a client that has its 504 hears nothing more.
Respond(r, answer) ==
    [r EXCEPT !.phase = "done", !.heard = IF @ = "504" THEN @ ELSE answer]

\* Mutant: the rows of the tables before are committed when one table fails.
FailKeepsTables(s) ==
    LET kept == {row \in req[s].staged : row[1] # Current(s)[1]} IN
    /\ req' = Noticed([req EXCEPT ![s] =
                 [Respond(@, "error") EXCEPT !.staged = {}, !.known = {}, !.added = kept]], kept)
    /\ table' = table \cup kept
    /\ UNCHANGED <<sent, edits>>

\* Roll back and answer 500.
Fail(s) ==
    /\ Becomes(s, [Respond(req[s], "error") EXCEPT !.staged = {}, !.known = {}])
    /\ UNCHANGED <<table, sent, edits>>

\* The name was committed since the tables were read, or a page had left it out.
UniqueViolation(s) == Inserting(s) /\ Current(s) \in table /\ Fail(s)

Waits(s, t) == Inserting(s) /\ s # t /\ t \in Holders(Current(s))

\* The server ends one of two transactions that wait for each other.
DeadlockDetected(s) == (\E t \in Slots : Waits(s, t) /\ Waits(t, s)) /\ Fail(s)

\* Any statement may fail, and a commit that does not take effect.
Broken(s) == req[s].phase \in {"read", "insert", "commit"} /\ Fail(s)

InsertsDone(s) ==
    /\ req[s].phase = "insert"
    /\ req[s].item > Len(req[s].data)
    /\ Becomes(s, [req[s] EXCEPT !.phase = "commit"])
    /\ UNCHANGED <<table, sent, edits>>

Commit(s) ==
    LET rows == req[s].staged IN
    /\ req[s].phase = "commit"
    /\ table' = table \cup rows
    /\ req' = Noticed([req EXCEPT ![s].phase = "reply", ![s].staged = {}, ![s].added = rows],
                      rows)
    /\ UNCHANGED <<sent, edits>>

\* The commit takes effect and its acknowledgement is lost: the client reads a 500.
CommitUnheard(s) ==
    LET rows == req[s].staged IN
    /\ req[s].phase = "commit"
    /\ table' = table \cup rows
    /\ req' = Noticed([req EXCEPT ![s] = [Respond(@, "error") EXCEPT !.staged = {}, !.added = rows]],
                      rows)
    /\ UNCHANGED <<sent, edits>>

\* The tallies or the rows are returned.
Reply(s) ==
    /\ req[s].phase = "reply"
    /\ Becomes(s, Respond(req[s], "success"))
    /\ UNCHANGED <<table, sent, edits>>

\* TimeoutMiddleware answers 504; call_next's task is not cancelled.
Timeout(s) ==
    /\ req[s].phase \notin {"idle", "done"}
    /\ req[s].heard = "none"
    /\ Becomes(s, [req[s] EXCEPT !.heard = "504"])
    /\ UNCHANGED <<table, sent, edits>>

Close(s) ==
    /\ req[s].phase = "done"
    /\ Becomes(s, Idle)
    /\ UNCHANGED <<table, sent, edits>>

\* Other endpoints create a row or delete one, each in a transaction of its own.
Edit(row) ==
    /\ edits < MaxEdits
    /\ edits' = edits + 1
    /\ \/ row \in table /\ table' = table \ {row}
       \/ row \notin table /\ Holders(row) = {} /\ table' = table \cup {row}
    /\ req' = Noticed(req, table')
    /\ UNCHANGED <<sent>>

----------------------------------------------------------------------------

Step(s) ==
    Load(s) \/ SkipRow(s) \/ Insert(s) \/ UniqueViolation(s) \/ DeadlockDetected(s)
            \/ InsertsDone(s) \/ Commit(s) \/ Reply(s)

Next ==
    \/ \E s \in Slots :
          \/ Arrive(s, "export", <<>>)
          \/ \E op \in {"preview", "import"}, data \in Payloads : Arrive(s, op, data)
    \/ \E s \in Slots : Step(s) \/ Broken(s) \/ CommitUnheard(s) \/ Timeout(s) \/ Close(s)
    \/ \E row \in Rows : Edit(row)

\* A handler goes on unless it waits for a lock.
Fairness == \A s \in Slots : WF_vars(Step(s))

Spec == Init /\ [][Next]_vars /\ Fairness

----------------------------------------------------------------------------
(* Properties                                                              *)

\* SqlAlchemyConfigGateway: "atomically import configuration".  A client told of
\* success has every row of its data committed by the import or known to have
\* existed while it ran; whatever it is told, an error after a commit that was not
\* acknowledged and a 504 included, the import has committed all of the rows it
\* found missing or none, never a part.
ImportWhole ==
    \A s \in Slots :
        LET r == req[s] IN
        /\ r.heard = "success" /\ r.op = "import" => Range(r.data) \subseteq r.added \cup r.seen
        /\ r.added # {} => Range(r.data) \subseteq r.added \cup r.known

\* No handler reads pages for ever or waits for ever, also after its 504.
HandlersEnd == \A s \in Slots : req[s].phase # "idle" ~> req[s].phase \in {"done", "idle"}
=============================================================================
