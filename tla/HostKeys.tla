------------------------------ MODULE HostKeys ------------------------------
(* The known_hosts file of a replica.  Creating, updating and validating a node
   fetch a host's key if the file has none (ensure_host); refreshing removes the
   host's keys and fetches again (refresh_host).  Appends happen under a lock of
   the process, the removal does not: ssh-keygen -R reads the file and replaces it
   by a copy, and goes on alone when its five seconds are over.  A removal may also
   fail, and a look at the file may answer wrongly.  Connections need an entry with
   the key that the host presents.
   app/adapters/runtime/known_hosts.py, app/adapters/runtime/ssh.py,
   app/adapters/runtime/node_validation.py *)
EXTENDS Naturals, Sequences, FiniteSets, Functions

CONSTANTS
    Hosts,
    Contained,   \* hosts whose name is part of the other hosts' lines: "a" in "[a]:2222"
    Tasks,       \* coroutines of requests, numbered
    MaxKeys,     \* bound: keys a host has, one after the other
    MaxRequests  \* bound: requests

ASSUME HostKeysAssumption ==
    /\ MaxKeys \in Nat \ {0} /\ MaxRequests \in Nat
    /\ Hosts # {} /\ Contained \subseteq Hosts /\ Tasks \subseteq Nat \ {0}

Nobody == 0
NoCopy == [h \in Hosts |-> <<0>>]
Invalid == 0

VARIABLES
    file,      \* [Hosts -> keys of the host's entries]
    real,      \* [Hosts -> the key the host presents]
    setting,   \* "auto" or "manual": SSH_KNOWN_HOSTS_AUTO_ADD; "bare": auto, and the
               \* image has no ssh-keyscan
    phase,     \* [Tasks -> next step]
    op,        \* [Tasks -> the request's operation]
    host,      \* [Tasks -> its host]
    scanned,   \* [Tasks -> the key that ssh-keyscan printed]
    copy,      \* [Tasks -> what its ssh-keygen -R will put in the file's place]
    lock,      \* the task in _fetch_and_append, or Nobody
    kept,      \* history: hosts given a key while nobody rewrote the file
    past,      \* history: [Hosts -> what happened to the host's entries]
    accepted,  \* history: [Hosts -> keys with which connections were made]
    sent       \* requests sent

vars == <<file, real, setting, phase, op, host, scanned, copy, lock, kept,
          past, accepted, sent>>

history == <<kept, past, accepted>>

\* A refresh of the host was asked for; a rewrite of the file for another host put
\* back what the host had before; a key came between the removal and the append of a
\* refresh; the second look did not see the entry; a refresh went on although the
\* entry had not been removed.
Causes == {"refreshed", "overwritten", "overlapped", "unseen", "unremoved"}

Marked(causes) == {h \in Hosts : past[h] \cap causes # {}}

Note(h, cause) == past' = [past EXCEPT ![h] = @ \cup {cause}]

Ops == {"ensure", "validate", "refresh", "connect"}

TypeOK ==
    /\ real \in [Hosts -> 1 .. MaxKeys]
    /\ file \in [Hosts -> Seq(Nat)]
    /\ \A h \in Hosts : file[h] \in Seq(1 .. real[h])  \* keys that h has had
    /\ setting \in {"auto", "manual", "bare"}
    /\ phase \in [Tasks -> {"idle", "check", "remove", "lock", "recheck", "scan", "append",
                            "connect"}]
    /\ op \in [Tasks -> Ops \cup {"none"}]
    /\ host \in [Tasks -> Hosts]
    /\ scanned \in [Tasks -> 0 .. MaxKeys]
    /\ copy \in [Tasks -> [Hosts -> Seq(Nat)]]
    /\ lock \in Tasks \cup {Nobody}
    /\ kept \subseteq Hosts
    /\ past \in [Hosts -> SUBSET Causes]
    /\ accepted \in [Hosts -> SUBSET (1 .. MaxKeys)]
    /\ sent \in 0 .. MaxRequests

Init ==
    /\ file = [h \in Hosts |-> <<>>]
    /\ real = [h \in Hosts |-> 1]
    /\ setting \in {"auto", "manual", "bare"}
    /\ phase = [t \in Tasks |-> "idle"]
    /\ op = [t \in Tasks |-> "none"]
    /\ host = [t \in Tasks |-> CHOOSE h \in Hosts : TRUE]
    /\ scanned = [t \in Tasks |-> Invalid]
    /\ copy = [t \in Tasks |-> NoCopy]
    /\ lock = Nobody
    /\ kept = {}
    /\ past = [h \in Hosts |-> {}]
    /\ accepted = [h \in Hosts |-> {}]
    /\ sent = 0

----------------------------------------------------------------------------

Rewriting == {t \in Tasks : copy[t] # NoCopy}

Present(h) == file[h] # <<>>

Goto(t, step) == phase' = [phase EXCEPT ![t] = step]

End(t) ==
    /\ Goto(t, "idle")
    /\ op' = [op EXCEPT ![t] = "none"]
    /\ scanned' = [scanned EXCEPT ![t] = Invalid]
    /\ UNCHANGED <<real, setting, host, copy, sent>>

\* The first step of each operation, once the directory and the file exist;
\* ensure_host answers at once without auto_add.
First(o) == CASE o = "connect" -> "connect"
              [] o = "refresh" -> "remove"
              [] o \in {"ensure", "validate"} ->
                    IF setting # "manual" THEN "check"
                    ELSE IF o = "validate" THEN "connect" ELSE "idle"

Free(t) == phase[t] = "idle" /\ t \notin Rewriting

Begin(t, o, h) ==
    /\ sent < MaxRequests
    /\ Free(t) /\ \A u \in Tasks : Free(u) => t <= u
    /\ sent' = sent + 1
    /\ Goto(t, First(o))
    /\ op' = [op EXCEPT ![t] = IF First(o) = "idle" THEN "none" ELSE o]
    /\ host' = [host EXCEPT ![t] = h]
    /\ IF o = "refresh" THEN Note(h, "refreshed") ELSE UNCHANGED past
    /\ UNCHANGED <<file, real, setting, scanned, copy, lock, kept, accepted>>

\* The end of ensure_host or refresh_host: a validation goes on to connect
\* whatever the outcome, a refresh and an edit of a node answer.
Finish(t) ==
    IF op[t] = "validate"
    THEN Goto(t, "connect") /\ UNCHANGED <<real, setting, op, host, scanned, copy, sent>>
    ELSE End(t)

\* _is_present: ssh-keygen -F answers; the substring search that stands in for it also
\* finds the name in another host's line; a file that cannot be read has no entry.
Answers(h) == {Present(h), FALSE, h \in Contained /\ \E g \in Hosts : Present(g)}

\* ensure_host looks before the lock is asked for.
Check(t) ==
    /\ phase[t] = "check"
    /\ \E found \in Answers(host[t]) :
          IF found
          THEN Finish(t)
          ELSE Goto(t, "lock") /\ UNCHANGED <<real, setting, op, host, scanned, copy, sent>>
    /\ UNCHANGED <<file, lock, history>>

----------------------------------------------------------------------------
(* ssh-keygen -R                                                           *)

\* It reads the file; without an entry there is nothing to replace.
Remove(t) ==
    LET h == host[t] IN
    /\ phase[t] = "remove" /\ t \notin Rewriting
    /\ IF Present(h)
       THEN /\ copy' = [copy EXCEPT ![t] = [file EXCEPT ![h] = <<>>]]
            /\ kept' = kept \ {h}
            /\ UNCHANGED phase
       ELSE Goto(t, "lock") /\ UNCHANGED <<copy, kept>>
    /\ UNCHANGED <<file, real, setting, op, host, scanned, lock, past, accepted, sent>>

\* There is no ssh-keygen, it does not start, or it fails before the file is replaced;
\* its exit code is only logged.  The refresh goes on to append.
RemoveFails(t) ==
    /\ phase[t] = "remove" /\ t \notin Rewriting
    /\ Goto(t, "lock")
    /\ IF Present(host[t]) THEN Note(host[t], "unremoved") ELSE UNCHANGED past
    /\ UNCHANGED <<file, real, setting, op, host, scanned, copy, lock, kept, accepted, sent>>

\* It renames the copy; hosts that got a key after it was made lose it.
Rename(t) ==
    /\ t \in Rewriting
    /\ file' = copy[t]
    /\ copy' = [copy EXCEPT ![t] = NoCopy]
    /\ past' = [h \in Hosts |-> IF copy[t][h] # file[h] /\ h # host[t]
                                THEN past[h] \cup {"overwritten"} ELSE past[h]]
    /\ phase' = IF phase[t] = "remove" THEN [phase EXCEPT ![t] = "lock"] ELSE phase
    /\ UNCHANGED <<real, setting, op, host, scanned, lock, kept, accepted, sent>>

\* wait_for gives up; the process is not killed.
RemoveTimesOut(t) ==
    /\ phase[t] = "remove" /\ t \in Rewriting
    /\ Goto(t, "lock")
    /\ Note(host[t], "unremoved")
    /\ UNCHANGED <<file, real, setting, op, host, scanned, copy, lock, kept, accepted, sent>>

----------------------------------------------------------------------------
(* _fetch_and_append                                                       *)

\* Without ssh-keyscan the request fails before it asks for the lock.
NoKeyscan(t) ==
    /\ phase[t] = "lock" /\ setting = "bare"
    /\ Finish(t)
    /\ UNCHANGED <<file, lock, history>>

Acquire(t) ==
    /\ phase[t] = "lock" /\ setting # "bare"
    /\ lock = Nobody
    /\ lock' = t
    /\ Goto(t, IF op[t] = "refresh" THEN "scan" ELSE "recheck")
    /\ UNCHANGED <<file, real, setting, op, host, scanned, copy, history, sent>>

\* Mutant: the result of the second look is not used.
RecheckIgnored(t) ==
    /\ phase[t] = "recheck"
    /\ Goto(t, "scan")
    /\ UNCHANGED <<file, real, setting, op, host, scanned, copy, lock, history, sent>>

\* "Double-check under lock to avoid races"
Recheck(t) ==
    /\ phase[t] = "recheck"
    /\ \E found \in Answers(host[t]) :
          IF found
          THEN Finish(t) /\ lock' = Nobody /\ UNCHANGED past
          ELSE /\ Goto(t, "scan")
               /\ IF Present(host[t]) THEN Note(host[t], "unseen") ELSE UNCHANGED past
               /\ UNCHANGED <<real, setting, op, host, scanned, copy, lock, sent>>
    /\ UNCHANGED <<file, kept, accepted>>

\* Lines were printed, and ssh-keygen -l accepts them; where there is no ssh-keygen what
\* ssh-keyscan prints is taken to be keys.
Valid(key) == key # Invalid

\* ssh-keyscan prints the host's key, or something that is not one.
Scan(t) ==
    /\ phase[t] = "scan"
    /\ \E key \in {real[host[t]], Invalid} :
          /\ Valid(key)
          /\ scanned' = [scanned EXCEPT ![t] = key]
    /\ Goto(t, "append")
    /\ UNCHANGED <<file, real, setting, op, host, copy, lock, history, sent>>

\* Mutant: an exception leaves the lock taken.
ScanFailsHolding(t) ==
    /\ phase[t] = "scan"
    /\ Finish(t)
    /\ UNCHANGED <<file, lock, history>>

\* It times out and is killed, exits with an error or prints nothing valid.
ScanFails(t) ==
    /\ phase[t] = "scan"
    /\ Finish(t)
    /\ lock' = Nobody
    /\ UNCHANGED <<file, history>>

\* Mutant: the file is opened for writing instead of appending.
AppendTruncates(t) ==
    LET h == host[t] IN
    /\ phase[t] = "append"
    /\ file' = [g \in Hosts |-> IF g = h THEN <<scanned[t]>> ELSE <<>>]
    /\ kept' = IF Rewriting = {} THEN kept \cup {h} ELSE kept
    /\ Finish(t)
    /\ lock' = Nobody
    /\ UNCHANGED <<past, accepted>>

\* Refreshes of h that are past their removal and will append without looking.
Removed(t, h) == {u \in Tasks \ {t} : /\ op[u] = "refresh" /\ host[u] = h
                                      /\ phase[u] \in {"lock", "scan", "append"}}

\* The entry is appended; a read-only file fails the request instead.
AppendEntry(t) ==
    LET h == host[t] IN
    /\ phase[t] = "append"
    /\ lock' = Nobody
    /\ \/ /\ file' = [file EXCEPT ![h] = Append(@, scanned[t])]
          /\ kept' = IF Rewriting = {} THEN kept \cup {h} ELSE kept
          /\ IF Removed(t, h) # {} THEN Note(h, "overlapped") ELSE UNCHANGED past
          /\ Finish(t)
       \/ Finish(t) /\ UNCHANGED <<file, kept, past>>
    /\ UNCHANGED accepted

----------------------------------------------------------------------------

Accept(t) ==
    /\ accepted' = [accepted EXCEPT ![host[t]] = @ \cup {real[host[t]]}]
    /\ End(t)
    /\ UNCHANGED <<file, lock, kept, past>>

\* Mutant: a host without entries is accepted.
VerifiedOrUnknown(t) == file[host[t]] = <<>> \/ real[host[t]] \in Range(file[host[t]])

\* Strict checking: an entry has the key that the host presents.
Verified(t) == real[host[t]] \in Range(file[host[t]])

\* SSHConnector.connect
Connect(t) == phase[t] = "connect" /\ Verified(t) /\ Accept(t)

\* ConnectionFailedError, for want of a matching entry or another reason
ConnectFails(t) ==
    /\ phase[t] = "connect"
    /\ End(t)
    /\ UNCHANGED <<file, lock, history>>

\* The host is installed again and presents another key.
Rekey(h) ==
    /\ real[h] < MaxKeys
    /\ real' = [real EXCEPT ![h] = @ + 1]
    /\ UNCHANGED <<file, setting, phase, op, host, scanned, copy, lock, history, sent>>

Step(t) ==
    Check(t) \/ Remove(t) \/ RemoveFails(t) \/ Rename(t) \/ RemoveTimesOut(t)
             \/ NoKeyscan(t) \/ Acquire(t) \/ Recheck(t) \/ Scan(t) \/ ScanFails(t)
             \/ AppendEntry(t) \/ Connect(t) \/ ConnectFails(t)

Next ==
    \/ \E t \in Tasks : Step(t) \/ \E o \in Ops, h \in Hosts : Begin(t, o, h)
    \/ \E h \in Hosts : Rekey(h)

\* Coroutines are scheduled, and subprocesses end or time out.  The lock of asyncio
\* is granted in order, so no task misses it for ever.
Fairness == \A t \in Tasks : WF_vars(Step(t))

Spec == Init /\ [][Next]_vars /\ Fairness

----------------------------------------------------------------------------
(* Properties                                                              *)

\* "Double-check under lock to avoid races": however many requests ensure a host at
\* once, it has one entry.  A second one has one of four causes: a refresh whose removal
\* failed or was not waited for, a key that came between a refresh's removal and its
\* append, a second look that did not see the entry, or a rewrite for another host that
\* put an older entry back.
SingleEntry ==
    \A h \in Hosts \ Marked({"overwritten", "overlapped", "unseen", "unremoved"}) :
        Len(file[h]) <= 1

\* A key that was added while no refresh rewrote the file stays until a refresh of
\* its own host removes it.
KeysKept == \A h \in kept : Present(h)

\* Only the key that a host presented first is accepted, unless a refresh of the host
\* was asked for, the second look did not see its entry, or a rewrite for another host
\* took its entry away: no ensure_host or validation on its own lets a changed key in,
\* whatever else fails or overlaps.
TrustOnFirstUse ==
    \A h \in Hosts \ Marked({"refreshed", "overwritten", "unseen"}) :
        Cardinality(accepted[h]) <= 1

\* Every request ends and none leaves the lock taken.
OperationsEnd == \A t \in Tasks : phase[t] # "idle" ~> phase[t] = "idle"
=============================================================================
