---------------------------- MODULE NodeLifecycle ----------------------------
(* Nodes, the requests that change their status and tags, the status history and
   the events published about them.  Each gateway call is a transaction of its
   own: a connectivity check reads the node, probes it over SSH, reads the old
   status, writes the new one, adds a row to the history and publishes, with other
   requests in between.  Bulk tag operations lock their rows; the operations on a
   single tag read the list, record their intent, and write the list back; an update
   that carries tags replaces the list.  *)
EXTENDS EventStreams, FiniteSets

CONSTANTS
    Nodes,
    Tags,
    Workers,      \* requests that run at the same time
    MaxRequests   \* bound: requests in all

ASSUME NodesAssumption == MaxRequests \in Nat

Statuses == {"active", "unreachable", "error"}
None == "none"

VARIABLES
    node,      \* [Nodes -> "absent", "present", "deleted"]
    status,    \* [Nodes -> status]
    tags,      \* [Nodes -> tags of the row]
    history,   \* [Nodes -> rows of the status history, oldest first]
    rows,      \* every row ever saved, as <<node, old, new>>
    published, \* what the events were about, in order
    phase,     \* [Workers -> next step]
    kind,      \* [Workers -> "check", "edit", "add", "remove", "set"]
    on,        \* [Workers -> node of the request]
    old,       \* [Workers -> status read, or None]
    want,      \* [Workers -> status to write, or None]
    list,      \* [Workers -> tags read]
    given,     \* [Workers -> tags to add, to remove or to set]
    report,    \* [Workers -> status reported, "error", or None]
    held,      \* [Workers -> statuses its node had since it began]
    meant,     \* [Nodes -> tags if each operation had its effect alone]
    lapped,    \* nodes whose tags an operation on a single tag overwrote with a stale list
    raced,     \* nodes where status requests overlapped
    missed,    \* nodes with a row of the history that could not be saved
    requests

request == <<kind, on, old, want, list, given, report>>
vars == <<streams, node, status, tags, history, rows, published, phase, request, held,
          meant, lapped, raced, missed, requests>>

data == <<status, tags, history, rows, published>>
ghosts == <<held, meant, lapped, raced, missed>>

TypeOK ==
    /\ StreamsTypeOK
    /\ node \in [Nodes -> {"absent", "present", "deleted"}]
    /\ status \in [Nodes -> Statuses]
    /\ tags \in [Nodes -> SUBSET Tags]
    /\ history \in [Nodes -> Seq((Statuses \cup {None}) \X Statuses)]
    /\ phase \in [Workers -> {"idle", "probe", "read", "intent", "save", "history",
                              "publish", "tagIntent", "tagWrite", "bulkWrite", "answer"}]
    /\ kind \in [Workers -> {"check", "edit", "add", "remove", "set"}]
    /\ on \in [Workers -> Nodes \cup {None}]
    /\ old \in [Workers -> Statuses \cup {None}]
    /\ want \in [Workers -> Statuses \cup {None}]
    /\ list \in [Workers -> SUBSET Tags]
    /\ given \in [Workers -> SUBSET Tags]
    /\ report \in [Workers -> Statuses \cup {"failed", None}]
    /\ held \in [Workers -> SUBSET Statuses]
    /\ meant \in [Nodes -> SUBSET Tags]
    /\ requests \in Nat

Init ==
    /\ StreamsInit
    /\ node = [n \in Nodes |-> "absent"]
    /\ status = [n \in Nodes |-> "active"]
    /\ tags = [n \in Nodes |-> {}]
    /\ history = [n \in Nodes |-> <<>>]
    /\ rows = {}
    /\ published = <<>>
    /\ phase = [w \in Workers |-> "idle"]
    /\ kind = [w \in Workers |-> "check"]
    /\ on = [w \in Workers |-> None]
    /\ old = [w \in Workers |-> None]
    /\ want = [w \in Workers |-> None]
    /\ list = [w \in Workers |-> {}]
    /\ given = [w \in Workers |-> {}]
    /\ report = [w \in Workers |-> None]
    /\ held = [w \in Workers |-> {}]
    /\ meant = [n \in Nodes |-> {}]
    /\ lapped = {} /\ raced = {} /\ missed = {}
    /\ requests = 0

----------------------------------------------------------------------------
(* Requests                                                                *)

Count == requests < MaxRequests /\ requests' = requests + 1

Begin(w, k, n, step) ==
    /\ phase[w] = "idle"
    /\ Count
    /\ phase' = [phase EXCEPT ![w] = step]
    /\ kind' = [kind EXCEPT ![w] = k]
    /\ on' = [on EXCEPT ![w] = n]
    /\ UNCHANGED report

Goto(w, step) == phase' = [phase EXCEPT ![w] = step]

End(w, r) ==
    /\ phase' = [phase EXCEPT ![w] = "answer"]
    /\ report' = [report EXCEPT ![w] = r]

\* The response; nothing of the request is kept.
Answer(w) ==
    /\ phase[w] = "answer"
    /\ phase' = [phase EXCEPT ![w] = "idle"]
    /\ kind' = [kind EXCEPT ![w] = "check"]
    /\ on' = [on EXCEPT ![w] = None]
    /\ old' = [old EXCEPT ![w] = None]
    /\ want' = [want EXCEPT ![w] = None]
    /\ list' = [list EXCEPT ![w] = {}]
    /\ given' = [given EXCEPT ![w] = {}]
    /\ report' = [report EXCEPT ![w] = None]
    /\ held' = [held EXCEPT ![w] = {}]
    /\ UNCHANGED <<streams, node, data, meant, lapped, raced, missed, requests>>

Present(n) == node[n] = "present"

\* Between its reading of the old status and its row of the history
ChangingStatus(w, n) == on[w] = n /\ phase[w] \in {"intent", "save", "history"}

\* A bulk operation holds the row's lock until its transaction ends; other writes
\* of the row wait for it.
Locked(n) == \E w \in Workers : on[w] = n /\ phase[w] = "bulkWrite"

CreateNode(n) ==
    /\ node[n] = "absent"
    /\ node' = [node EXCEPT ![n] = "present"]
    /\ UNCHANGED <<streams, data, phase, request, ghosts, requests>>

\* delete_node and bulk_delete: the rows of the history lose their node.
DeleteNode(n) ==
    /\ Present(n)
    /\ ~Locked(n)
    /\ node' = [node EXCEPT ![n] = "deleted"]
    /\ history' = [history EXCEPT ![n] = <<>>]
    /\ UNCHANGED <<streams, status, tags, rows, published, phase, request, ghosts,
                   requests>>

----------------------------------------------------------------------------
(* Status: check_connectivity, bulk_check, update_node                     *)

\* get_connection finds the node.
BeginCheck(w, n) ==
    /\ Present(n)
    /\ Begin(w, "check", n, "probe")
    /\ held' = [held EXCEPT ![w] = {status[n]}]
    /\ UNCHANGED <<streams, node, data, old, want, list, given, meant, lapped, raced, missed>>

\* The connector is built outside the try: credentials that cannot be decrypted
\* end the request.  The command's exit status is not looked at.
Probe(w) ==
    /\ phase[w] = "probe"
    /\ \/ \E s \in {"active", "unreachable"} :
             /\ want' = [want EXCEPT ![w] = s]
             /\ Goto(w, "read")
             /\ UNCHANGED report
       \/ End(w, "failed") /\ UNCHANGED want
    /\ UNCHANGED <<streams, node, data, kind, on, old, list, given, ghosts, requests>>

\* The old status: None if the node is gone or the read fails.
ReadOld(w) ==
    /\ phase[w] = "read"
    /\ \/ Present(on[w]) /\ old' = [old EXCEPT ![w] = status[on[w]]]
       \/ old' = [old EXCEPT ![w] = None]
    /\ Goto(w, "save")
    /\ raced' = IF \E v \in Workers \ {w} : ChangingStatus(v, on[w])
                THEN raced \cup {on[w]} ELSE raced
    /\ UNCHANGED <<streams, node, data, kind, on, want, list, given, report, held, meant,
                   lapped, missed, requests>>

\* update_node that carries a status: the old one is None here, too, if the node is
\* gone or the read fails.
BeginEdit(w, n, s) ==
    /\ Begin(w, "edit", n, "intent")
    /\ \/ Present(n) /\ old' = [old EXCEPT ![w] = status[n]]
       \/ old' = [old EXCEPT ![w] = None]
    /\ want' = [want EXCEPT ![w] = s]
    /\ held' = [held EXCEPT ![w] = {status[n]}]
    /\ raced' = IF \E v \in Workers \ {w} : ChangingStatus(v, n)
                THEN raced \cup {n} ELSE raced
    /\ UNCHANGED <<streams, node, data, list, given, meant, lapped, missed>>

\* log_required
LogIntent(w) ==
    /\ phase[w] = "intent"
    /\ \/ Goto(w, "save") /\ UNCHANGED report
       \/ End(w, "failed")
    /\ UNCHANGED <<streams, node, data, kind, on, old, want, list, given, ghosts, requests>>

\* Mutant: a row only for a status that was read.
ChangedFromKnown(w) == old[w] # None /\ old[w] # want[w]

Changed(w) == old[w] # want[w]

\* The node is gone, or the transaction fails.
SaveFails(w) == End(w, "failed")

SaveStatus(w) ==
    /\ phase[w] = "save"
    /\ \/ /\ Present(on[w]) /\ ~Locked(on[w])
          /\ status' = [status EXCEPT ![on[w]] = want[w]]
          /\ held' = [v \in Workers |-> IF on[v] = on[w] THEN held[v] \cup {want[w]}
                                                         ELSE held[v]]
          /\ IF Changed(w) THEN Goto(w, "history") /\ UNCHANGED report
                           ELSE End(w, want[w])
       \/ SaveFails(w) /\ UNCHANGED <<status, held>>
    /\ UNCHANGED <<streams, node, tags, history, rows, published, kind, on, old, want,
                   list, given, meant, lapped, raced, missed, requests>>

\* The row is best effort; without it nothing is published.
HistoryFails(w) ==
    /\ missed' = missed \cup {on[w]}
    /\ End(w, want[w])
    /\ UNCHANGED <<history, rows>>

WriteHistory(w) ==
    /\ phase[w] = "history"
    /\ \/ /\ Present(on[w])
          /\ history' = [history EXCEPT ![on[w]] = Append(@, <<old[w], want[w]>>)]
          /\ rows' = rows \cup {<<on[w], old[w], want[w]>>}
          /\ IF kind[w] = "check" THEN Goto(w, "publish") /\ UNCHANGED report
                                  ELSE End(w, want[w])
          /\ UNCHANGED missed
       \/ HistoryFails(w)
    /\ UNCHANGED <<streams, node, status, tags, published, kind, on, old, want, list, given,
                   held, meant, lapped, raced, requests>>

\* node.status_changed
PublishChange(w) ==
    /\ phase[w] = "publish"
    /\ Publish
    /\ published' = Append(published, <<on[w], old[w], want[w]>>)
    /\ End(w, want[w])
    /\ UNCHANGED <<node, status, tags, history, rows, kind, on, old, want, list, given,
                   ghosts, requests>>

----------------------------------------------------------------------------
(* Tags                                                                    *)

\* The tags that operation k makes of a list.
With(k, set, some) ==
    CASE k = "add" -> set \cup some
      [] k = "remove" -> set \ some
      [] k = "set" -> some

\* add_tag and remove_tag: nothing to do ends the request.
BeginTag(w, k, n, t) ==
    /\ Present(n)
    /\ With(k, tags[n], {t}) # tags[n]
    /\ Begin(w, k, n, "tagIntent")
    /\ list' = [list EXCEPT ![w] = tags[n]]
    /\ given' = [given EXCEPT ![w] = {t}]
    /\ UNCHANGED <<streams, node, data, old, want, ghosts>>

\* update_node that carries tags: the list is not read.
BeginSet(w, n, some) ==
    /\ Begin(w, "set", n, "tagIntent")
    /\ given' = [given EXCEPT ![w] = some]
    /\ UNCHANGED <<streams, node, data, old, want, list, ghosts>>

\* log_required
LogTagIntent(w) ==
    /\ phase[w] = "tagIntent"
    /\ \/ Goto(w, "tagWrite") /\ UNCHANGED report
       \/ End(w, "failed")
    /\ UNCHANGED <<streams, node, data, kind, on, old, want, list, given, ghosts, requests>>

\* update_node with the whole list, which may have changed since it was read
WriteTags(w) ==
    /\ phase[w] = "tagWrite"
    /\ \/ /\ Present(on[w]) /\ ~Locked(on[w])
          /\ tags' = [tags EXCEPT ![on[w]] = With(kind[w], list[w], given[w])]
          /\ meant' = [meant EXCEPT ![on[w]] = With(kind[w], @, given[w])]
          /\ lapped' = IF kind[w] = "set" THEN lapped \ {on[w]}
                       ELSE IF list[w] # tags[on[w]] THEN lapped \cup {on[w]}
                       ELSE lapped
          /\ End(w, None)
       \/ End(w, "failed") /\ UNCHANGED <<tags, meant, lapped>>
    /\ UNCHANGED <<streams, node, status, history, rows, published, kind, on, old, want,
                   list, given, held, raced, missed, requests>>

\* Mutant: the rows are read without FOR UPDATE.
BeginBulkUnlocked(w, k, n, some) ==
    /\ Present(n)
    /\ Begin(w, k, n, "bulkWrite")
    /\ list' = [list EXCEPT ![w] = tags[n]]
    /\ given' = [given EXCEPT ![w] = some]
    /\ UNCHANGED <<streams, node, data, old, want, ghosts>>

\* bulk_add_tags and bulk_remove_tags on one of their nodes: SELECT ... FOR UPDATE
BeginBulk(w, k, n, some) ==
    /\ Present(n) /\ ~Locked(n)
    /\ Begin(w, k, n, "bulkWrite")
    /\ list' = [list EXCEPT ![w] = tags[n]]
    /\ given' = [given EXCEPT ![w] = some]
    /\ UNCHANGED <<streams, node, data, old, want, ghosts>>

\* The update and the commit, or the rollback, end the transaction.
BulkWrite(w) ==
    /\ phase[w] = "bulkWrite"
    /\ \/ /\ tags' = [tags EXCEPT ![on[w]] = With(kind[w], list[w], given[w])]
          /\ meant' = [meant EXCEPT ![on[w]] = With(kind[w], @, given[w])]
          /\ End(w, None)
       \/ End(w, "failed") /\ UNCHANGED <<tags, meant>>
    /\ UNCHANGED <<streams, node, status, history, rows, published, kind, on, old, want,
                   list, given, held, lapped, raced, missed, requests>>

----------------------------------------------------------------------------

rest == <<node, data, phase, request, ghosts, requests>>

\* check_connectivity and, for each of its nodes, bulk_check
CheckConnectivity(w) ==
    \/ \E n \in Nodes : BeginCheck(w, n)
    \/ Probe(w) \/ ReadOld(w) \/ SaveStatus(w) \/ WriteHistory(w) \/ PublishChange(w)

Work(w) ==
    \/ CheckConnectivity(w)
    \/ \E n \in Nodes, s \in Statuses : BeginEdit(w, n, s)
    \/ \E k \in {"add", "remove"}, n \in Nodes, t \in Tags : BeginTag(w, k, n, t)
    \/ \E n \in Nodes, some \in SUBSET Tags : BeginSet(w, n, some)
    \/ \E k \in {"add", "remove"}, n \in Nodes, some \in SUBSET Tags : BeginBulk(w, k, n, some)
    \/ LogIntent(w) \/ LogTagIntent(w) \/ WriteTags(w) \/ BulkWrite(w) \/ Answer(w)

Next ==
    \/ \E n \in Nodes : CreateNode(n) \/ DeleteNode(n)
    \/ \E w \in Workers : Work(w)
    \/ \E s \in Subscribers : (Subscribe(s) \/ Deliver(s) \/ Unsubscribe(s)) /\ UNCHANGED rest

Spec == Init /\ [][Next]_vars

----------------------------------------------------------------------------
(* Properties                                                              *)

\* A status a request reports was the node's status at some time since the request
\* began: a check whose result could not be saved reports a failure (bulk_check's
\* "DB failure => failed").
ReportsHonest ==
    \A w \in Workers : report[w] \in Statuses => report[w] \in held[w]

\* Every published change of status has its row: an event is published after the
\* row, and not without it (check_connectivity, bulk_check).
EventsRecorded ==
    /\ Len(published) = events
    /\ \A i \in 1 .. Len(published) : published[i] \in rows

Settled(n) == Present(n) /\ \A w \in Workers : ~ChangingStatus(w, n)

Explained(n) ==
    IF history[n] = <<>> THEN status[n] = "active"
                         ELSE status[n] = history[n][Len(history[n])][2]

\* When no request is changing the status, the last row of the history explains it,
\* if every row could be saved and no two requests overlapped.
HistoryExplainsStatus ==
    \A n \in Nodes \ (raced \cup missed) : Settled(n) => Explained(n)

\* The tags of a node are what the updates, bulk operations and operations on a
\* single tag make of them when each has its effect alone, in the order of their
\* writes, whatever overlaps; the one exception is an operation on a single tag that
\* wrote back a list which had changed since it was read, and it lasts until an
\* update sets the tags (bulk_add_tags, update_node, add_tag).
TagsExplained == \A n \in Nodes \ lapped : Present(n) => tags[n] = meant[n]

\* The history "records every status change for a node": the last row explains the
\* status whenever every row could be saved.
EveryChangeRecorded == \A n \in Nodes \ missed : Settled(n) => Explained(n)

============================================================================
