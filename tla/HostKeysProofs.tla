--------------------------- MODULE HostKeysProofs ---------------------------
(* Proofs about HostKeys for any hosts, concurrent requests and changes of keys. *)
EXTENDS HostKeys, FiniteSetTheorems, TLAPS

----------------------------------------------------------------------------
(* The inductive invariant                                                 *)

\* The hosts that may have more than one entry, and those refreshed.
raced == Marked({"overwritten", "overlapped", "unseen", "unremoved"})
refreshed == Marked({"refreshed"})

\* Only a refresh leaves an entry unremoved or is overlapped.
OfRefreshes == Marked({"overlapped", "unremoved"}) \subseteq refreshed

\* What ssh-keygen -R will put in the file's place holds real keys, and none of
\* the host it was asked to remove; once its request went on without it, the host
\* counts as raced.
Copies ==
    \A t \in Rewriting :
        /\ \A h \in Hosts : copy[t][h] \in Seq(1 .. real[h])
        /\ copy[t][host[t]] = <<>>
        /\ host[t] \in refreshed
        /\ phase[t] # "remove" => host[t] \in raced

\* Requests: the lock, and what belongs to a refresh.
Steps ==
    \A t \in Tasks :
        /\ phase[t] \in {"recheck", "scan", "append"} => lock = t
        /\ phase[t] \in {"recheck", "check", "connect"} => op[t] # "refresh"
        /\ phase[t] = "idle" => op[t] = "none"
        /\ phase[t] = "remove" => op[t] = "refresh"
        /\ op[t] = "refresh" => host[t] \in refreshed
        /\ phase[t] = "append" => scanned[t] \in 1 .. real[host[t]]

\* A request that is going to append finds no entry of its host.
Cleared ==
    \A t \in Tasks :
        /\ host[t] \notin raced
        /\ phase[t] \in {"scan", "append"} \/ (phase[t] = "lock" /\ op[t] = "refresh")
        => file[host[t]] = <<>>

\* A kept key is also in every copy that may replace the file.
KeptInCopies ==
    \A h \in kept : Present(h) /\ \A t \in Rewriting : copy[t][h] # <<>>

\* Only keys of entries still there have been accepted.
AcceptedInFile ==
    \A h \in Hosts \ (refreshed \cup raced) : accepted[h] \subseteq Range(file[h])

IInv ==
    /\ TypeOK /\ Copies /\ Steps /\ Cleared /\ SingleEntry /\ KeptInCopies /\ AcceptedInFile
    /\ OfRefreshes

----------------------------------------------------------------------------

\* A host's keys are only added to.
LEMMA SeqGrows ==
    ASSUME NEW a \in Nat, NEW b \in Nat, a <= b, NEW s \in Seq(1 .. a)
    PROVE  s \in Seq(1 .. b)
OBVIOUS

\* What notes of the past do to the two sets.
LEMMA PastKeeps ==
    ASSUME UNCHANGED past PROVE UNCHANGED <<raced, refreshed>> /\ (OfRefreshes => OfRefreshes')
BY DEF raced, refreshed, OfRefreshes, Marked

LEMMA NoteMarks ==
    ASSUME TypeOK, NEW h \in Hosts, NEW c \in Causes, Note(h, c)
    PROVE  /\ past' \in [Hosts -> SUBSET Causes]
           /\ raced' = IF c # "refreshed" THEN raced \cup {h} ELSE raced
           /\ refreshed' = IF c = "refreshed" THEN refreshed \cup {h} ELSE refreshed
           /\ OfRefreshes /\ (h \in refreshed \/ c \in {"refreshed", "unseen"}) => OfRefreshes'
<1>1. /\ past \in [Hosts -> SUBSET Causes]
      /\ past' = [past EXCEPT ![h] = past[h] \cup {c}]
  BY DEF TypeOK, Note
<1>2. past'[h] = past[h] \cup {c} /\ \A g \in Hosts \ {h} : past'[g] = past[g]
  BY <1>1
<1>3. past' \in [Hosts -> SUBSET Causes]
  BY <1>1
<1>4. \A S : Marked(S)' = IF c \in S THEN Marked(S) \cup {h} ELSE Marked(S)
  BY <1>2 DEF Marked
<1>5. QED
  BY <1>3, <1>4 DEF raced, refreshed, OfRefreshes, Causes

LEMMA InitHolds == Init => IInv
<1> SUFFICES ASSUME Init PROVE IInv
  OBVIOUS
<1>1. TypeOK
  BY HostKeysAssumption DEF Init, TypeOK, Ops, Nobody, NoCopy, Invalid, Causes
<1>2. Rewriting = {}
  BY DEF Init, Rewriting
<1>3. raced = {} /\ OfRefreshes
  BY DEF Init, raced, OfRefreshes, Marked
<1>4. QED
  BY <1>1, <1>2, <1>3 DEF Init, IInv, Copies, Steps, Cleared, SingleEntry, KeptInCopies,
       AcceptedInFile

\* A request t goes on to step x, with operation o or none, and leaves the file and
\* what may replace it alone.
Moves(t, x, o) ==
    /\ phase[t] \notin {"remove", "idle"}
    /\ phase' = [phase EXCEPT ![t] = x]
    /\ op' = [op EXCEPT ![t] = o]
    /\ lock' \in Tasks \cup {Nobody}
    /\ UNCHANGED <<file, real, setting, host, copy, kept, past, sent>>

LEMMA MovesKeep ==
    ASSUME IInv, NEW t \in Tasks, NEW x \in {"idle", "connect", "lock", "recheck", "scan", "append"},
           NEW o \in {op[t], "none"}, NEW k \in 0 .. MaxKeys,
           Moves(t, x, o),
           scanned' = [scanned EXCEPT ![t] = k],
           accepted' \in [Hosts -> SUBSET (1 .. MaxKeys)],
           AcceptedInFile',
           x = "idle" => o = "none",
           x \in {"connect", "recheck"} => o # "refresh",
           x \in {"recheck", "scan", "append"} => lock' = t,
           lock' = lock \/ lock \in {t, Nobody},
           x \in {"scan", "append"} \/ (x = "lock" /\ o = "refresh") =>
               host[t] \in raced \/ file[host[t]] = <<>>,
           x = "append" => k \in 1 .. real[host[t]]
    PROVE  IInv'
<1> USE HostKeysAssumption DEF Moves, IInv, Nobody
<1> UNCHANGED <<raced, refreshed>> /\ OfRefreshes'
  BY PastKeeps
<1>1. TypeOK'
  BY DEF TypeOK, Ops
<1>2. Rewriting' = Rewriting
  BY DEF Rewriting
<1>3. Copies'
  BY <1>2 DEF Copies, TypeOK, Rewriting
<1>4. Steps'
  BY DEF Steps, TypeOK
<1>5. Cleared'
  BY DEF Cleared, TypeOK
<1>6. SingleEntry' /\ KeptInCopies'
  BY <1>2 DEF SingleEntry, raced, KeptInCopies, Present
<1>7. QED
  BY <1>1, <1>3, <1>4, <1>5, <1>6

LEMMA FinishMoves ==
    ASSUME IInv, NEW t \in Tasks, Finish(t), phase[t] \notin {"remove", "idle"},
           UNCHANGED <<file, kept, past, accepted>>,
           lock' \in {lock, Nobody}, lock' = lock \/ lock \in {t, Nobody}
    PROVE  IInv'
<1> UNCHANGED <<raced, refreshed>>
  BY PastKeeps
<1>1. CASE op[t] = "validate"
  <2>1. Moves(t, "connect", op[t]) /\ scanned' = [scanned EXCEPT ![t] = scanned[t]]
    BY <1>1 DEF Finish, Goto, Moves, IInv, TypeOK, Nobody
  <2>2. scanned[t] \in 0 .. MaxKeys /\ AcceptedInFile' /\ accepted' \in [Hosts -> SUBSET (1 .. MaxKeys)]
    BY DEF IInv, TypeOK, AcceptedInFile
  <2>3. QED
    BY <1>1, <2>1, <2>2, MovesKeep DEF Nobody
<1>2. CASE op[t] # "validate"
  <2>1. Moves(t, "idle", "none") /\ scanned' = [scanned EXCEPT ![t] = Invalid]
    BY <1>2 DEF Finish, End, Goto, Moves, IInv, TypeOK, Nobody
  <2>2. Invalid \in 0 .. MaxKeys /\ AcceptedInFile' /\ accepted' \in [Hosts -> SUBSET (1 .. MaxKeys)]
    BY HostKeysAssumption DEF IInv, TypeOK, AcceptedInFile, Invalid
  <2>3. QED
    BY <1>2, <2>1, <2>2, MovesKeep DEF Nobody
<1>3. QED
  BY <1>1, <1>2

\* The second look does not see the entry that is there.
LEMMA UnseenStep ==
    ASSUME IInv, NEW t \in Tasks, phase[t] = "recheck",
           Goto(t, "scan"), Note(host[t], "unseen"),
           UNCHANGED <<file, real, setting, op, host, scanned, copy, lock, kept, accepted, sent>>
    PROVE  IInv'
<1> USE HostKeysAssumption DEF IInv
<1>1. /\ phase' = [phase EXCEPT ![t] = "scan"] /\ lock = t /\ op[t] # "refresh" /\ host[t] \in Hosts
  BY DEF Goto, Steps, TypeOK
<1>2. /\ past' \in [Hosts -> SUBSET Causes]
      /\ raced' = raced \cup {host[t]} /\ refreshed' = refreshed /\ OfRefreshes'
  BY <1>1, NoteMarks DEF Causes
<1>3. TypeOK'
  BY <1>1, <1>2 DEF TypeOK
<1>4. Rewriting' = Rewriting
  BY DEF Rewriting
<1>5. Copies' /\ Steps'
  BY <1>1, <1>2, <1>4 DEF Copies, Steps, TypeOK, Rewriting
<1>6. Cleared'
  BY <1>1, <1>2 DEF Cleared, TypeOK
<1>7. SingleEntry' /\ KeptInCopies' /\ AcceptedInFile'
  BY <1>2, <1>4 DEF SingleEntry, raced, KeptInCopies, Present, AcceptedInFile
<1>8. QED
  BY <1>2, <1>3, <1>5, <1>6, <1>7

\* The steps that only move on.
LEMMA MoveStep ==
    ASSUME IInv, NEW t \in Tasks,
           \/ Check(t) \/ NoKeyscan(t) \/ Acquire(t) \/ Recheck(t) \/ Scan(t)
           \/ ScanFails(t) \/ Connect(t) \/ ConnectFails(t)
    PROVE  IInv'
<1> USE HostKeysAssumption
<1>k. scanned[t] \in 0 .. MaxKeys /\ accepted \in [Hosts -> SUBSET (1 .. MaxKeys)]
  BY DEF IInv, TypeOK
<1>f. ASSUME UNCHANGED <<file, past, accepted>> PROVE AcceptedInFile'
  BY <1>f, PastKeeps DEF IInv, AcceptedInFile
<1>1. CASE Check(t)
  <2>1. CASE Finish(t)
    BY <1>1, <2>1, FinishMoves DEF Check, history
  <2>2. CASE ~Finish(t)
    <3>1. op[t] # "refresh"
      BY <1>1 DEF Check, IInv, Steps
    <3>2. /\ Moves(t, "lock", op[t]) /\ lock' = lock
          /\ scanned' = [scanned EXCEPT ![t] = scanned[t]]
      BY <1>1, <2>2 DEF Check, Goto, Moves, history, IInv, TypeOK
    <3>3. UNCHANGED <<file, past, accepted>>
      BY <1>1 DEF Check, history
    <3>4. QED
      BY <1>k, <1>f, <3>1, <3>2, <3>3, MovesKeep
  <2>3. QED
    BY <2>1, <2>2
<1>2. CASE NoKeyscan(t)
  BY <1>2, FinishMoves DEF NoKeyscan, history
<1>3. CASE Acquire(t)
  <2> DEFINE x == IF op[t] = "refresh" THEN "scan" ELSE "recheck"
  <2>1. /\ Moves(t, x, op[t]) /\ lock' = t /\ lock = Nobody
        /\ scanned' = [scanned EXCEPT ![t] = scanned[t]]
    BY <1>3 DEF Acquire, Goto, Moves, history, IInv, TypeOK
  <2>2. UNCHANGED <<file, past, accepted>>
    BY <1>3 DEF Acquire, history
  <2>3. x = "scan" => host[t] \in raced \/ file[host[t]] = <<>>
    BY <1>3 DEF Acquire, IInv, Cleared
  <2>4. QED
    BY <1>k, <1>f, <2>1, <2>2, <2>3, MovesKeep
<1>4. CASE Recheck(t)
  <2>1. lock = t /\ op[t] # "refresh"
    BY <1>4 DEF Recheck, IInv, Steps
  <2>2. CASE Finish(t) /\ lock' = Nobody /\ UNCHANGED past
    BY <1>4, <2>1, <2>2, FinishMoves DEF Recheck
  <2>3. CASE UNCHANGED past /\ ~Present(host[t]) /\ ~(Finish(t) /\ lock' = Nobody)
    <3>1. /\ Moves(t, "scan", op[t]) /\ lock' = t
          /\ scanned' = [scanned EXCEPT ![t] = scanned[t]]
      BY <1>4, <2>1, <2>3 DEF Recheck, Goto, Moves, IInv, TypeOK
    <3>2. UNCHANGED <<file, past, accepted>>
      BY <1>4, <2>3 DEF Recheck
    <3>3. QED
      BY <1>k, <1>f, <2>1, <2>3, <3>1, <3>2, MovesKeep DEF Present
  <2>4. CASE Present(host[t]) /\ ~(Finish(t) /\ lock' = Nobody /\ UNCHANGED past)
    BY <1>4, <2>4, UnseenStep DEF Recheck
  <2>5. QED
    BY <1>4, <2>2, <2>3, <2>4 DEF Recheck
<1>5. CASE Scan(t)
  <2>1. PICK key \in {real[host[t]], Invalid} :
           Valid(key) /\ scanned' = [scanned EXCEPT ![t] = key]
    BY <1>5 DEF Scan
  <2>2. key \in 1 .. real[host[t]] /\ key \in 0 .. MaxKeys
    BY <2>1 DEF Valid, Invalid, IInv, TypeOK
  <2>3. lock = t
    BY <1>5 DEF Scan, IInv, Steps
  <2>4. Moves(t, "append", op[t]) /\ lock' = t
    BY <1>5, <2>3 DEF Scan, Goto, Moves, history, IInv, TypeOK
  <2>5. UNCHANGED <<file, past, accepted>>
    BY <1>5 DEF Scan, history
  <2>6. host[t] \in raced \/ file[host[t]] = <<>>
    BY <1>5 DEF Scan, IInv, Cleared
  <2>7. QED
    BY <1>k, <1>f, <2>1, <2>2, <2>3, <2>4, <2>5, <2>6, MovesKeep
<1>6. CASE ScanFails(t)
  <2>1. lock = t
    BY <1>6 DEF ScanFails, IInv, Steps
  <2>2. QED
    BY <1>6, <2>1, FinishMoves DEF ScanFails, history
<1>7. CASE Connect(t)
  <2> DEFINE h == host[t]
  <2>1. /\ Moves(t, "idle", "none") /\ lock' = lock
        /\ scanned' = [scanned EXCEPT ![t] = Invalid] /\ Invalid \in 0 .. MaxKeys
    BY <1>7 DEF Connect, Accept, End, Goto, Moves, IInv, TypeOK, Invalid
  <2>2. /\ accepted' = [accepted EXCEPT ![h] = @ \cup {real[h]}]
        /\ real[h] \in Range(file[h]) /\ h \in Hosts /\ real[h] \in 1 .. MaxKeys
    BY <1>7 DEF Connect, Verified, Accept, IInv, TypeOK
  <2>3. accepted' \in [Hosts -> SUBSET (1 .. MaxKeys)]
    BY <1>k, <2>2
  <2>4. AcceptedInFile'
    BY <1>k, <2>1, <2>2, PastKeeps DEF Moves, IInv, AcceptedInFile
  <2>5. QED
    BY <2>1, <2>3, <2>4, MovesKeep
<1>8. CASE ConnectFails(t)
  <2>1. /\ Moves(t, "idle", "none") /\ lock' = lock
        /\ scanned' = [scanned EXCEPT ![t] = Invalid] /\ Invalid \in 0 .. MaxKeys
    BY <1>8 DEF ConnectFails, End, Goto, Moves, IInv, TypeOK, Invalid, history
  <2>2. UNCHANGED <<file, past, accepted>>
    BY <1>8 DEF ConnectFails, history
  <2>3. QED
    BY <1>k, <1>f, <2>1, <2>2, MovesKeep
<1>9. QED
  BY <1>1, <1>2, <1>3, <1>4, <1>5, <1>6, <1>7, <1>8

\* A request begins.
LEMMA BeginStep ==
    ASSUME IInv, NEW t \in Tasks, NEW o \in Ops, NEW h \in Hosts, Begin(t, o, h)
    PROVE  IInv'
<1> USE HostKeysAssumption DEF IInv
<1>1. /\ First(o) \in {"connect", "remove", "check", "idle"}
      /\ First(o) = "remove" <=> o = "refresh"
  BY DEF First, Ops
<1>2. /\ phase' = [phase EXCEPT ![t] = First(o)]
      /\ op' = [op EXCEPT ![t] = IF First(o) = "idle" THEN "none" ELSE o]
      /\ host' = [host EXCEPT ![t] = h]
      /\ sent < MaxRequests /\ sent' = sent + 1
      /\ phase[t] = "idle" /\ t \notin Rewriting
      /\ UNCHANGED <<file, real, setting, scanned, copy, lock, kept, accepted>>
  BY DEF Begin, Free, Goto
<1>a. /\ past' \in [Hosts -> SUBSET Causes] /\ raced' = raced /\ OfRefreshes'
      /\ refreshed' = IF o = "refresh" THEN refreshed \cup {h} ELSE refreshed
  <2>1. CASE o = "refresh"
    BY <2>1, NoteMarks DEF Begin, Causes
  <2>2. CASE o # "refresh"
    BY <2>2, PastKeeps DEF Begin, TypeOK
  <2>3. QED
    BY <2>1, <2>2
<1>3. TypeOK'
  <2>1. phase' \in [Tasks -> {"idle", "check", "remove", "lock", "recheck", "scan", "append",
                              "connect"}]
    BY <1>1, <1>2 DEF TypeOK
  <2>2. op' \in [Tasks -> Ops \cup {"none"}] /\ host' \in [Tasks -> Hosts]
    BY <1>2 DEF TypeOK
  <2>3. kept' \subseteq Hosts
    BY <1>2 DEF TypeOK
  <2>4. sent' \in 0 .. MaxRequests
    BY <1>2 DEF TypeOK
  <2>5. QED
    BY <1>2, <1>a, <2>1, <2>2, <2>3, <2>4 DEF TypeOK
<1>4. Rewriting' = Rewriting
  BY <1>2 DEF Rewriting
<1>5. Copies'
  BY <1>2, <1>a, <1>4 DEF Copies, TypeOK, Rewriting
<1>6. Steps'
  BY <1>1, <1>2, <1>a DEF Steps, TypeOK
<1>7. Cleared'
  BY <1>1, <1>2, <1>a DEF Cleared, TypeOK
<1>8. SingleEntry' /\ KeptInCopies' /\ AcceptedInFile'
  BY <1>2, <1>a, <1>4 DEF SingleEntry, raced, KeptInCopies, Present, AcceptedInFile
<1>9. QED
  BY <1>3, <1>a, <1>5, <1>6, <1>7, <1>8

\* ssh-keygen -R
LEMMA RemoveStep ==
    ASSUME IInv, NEW t \in Tasks, Remove(t) \/ RemoveFails(t) \/ RemoveTimesOut(t) PROVE IInv'
<1> USE HostKeysAssumption DEF IInv
<1>1. CASE Remove(t) /\ Present(host[t])
  <2> DEFINE h == host[t]
  <2>1. /\ copy' = [copy EXCEPT ![t] = [file EXCEPT ![h] = <<>>]]
        /\ kept' = kept \ {h} /\ phase[t] = "remove" /\ h \in refreshed /\ h \in Hosts
        /\ UNCHANGED <<file, real, setting, phase, op, host, scanned, lock, past, accepted,
                       sent>>
    BY <1>1 DEF Remove, Steps, TypeOK
  <2> UNCHANGED <<raced, refreshed>> /\ OfRefreshes'
    BY <2>1, PastKeeps
  <2>2. copy'[t] \in [Hosts -> Seq(Nat)] /\ copy'[t][h] = <<>>
    BY <2>1 DEF TypeOK
  <2>3. Rewriting' = Rewriting \cup {t}
    <3>1. copy'[t] # NoCopy
      <4>1. NoCopy[h] = <<0>>
        BY <2>1 DEF NoCopy
      <4>2. <<>> # <<0>>
        OBVIOUS
      <4>3. QED
        BY ONLY <2>2, <4>1, <4>2, Zenon
    <3>2. QED
      BY <2>1, <3>1 DEF Rewriting, TypeOK, NoCopy
  <2>4. TypeOK'
    BY <2>1, <2>2 DEF TypeOK
  <2>5. Copies'
    <3>1. \A g \in Hosts : copy'[t][g] = file[g] \/ copy'[t][g] = <<>>
      BY <2>1 DEF TypeOK
    <3>2. \A g \in Hosts : copy'[t][g] \in Seq(1 .. real[g])
      <4>1. \A g \in Hosts : file[g] \in Seq(1 .. real[g])
        BY DEF TypeOK
      <4>2. \A g \in Hosts : <<>> \in Seq(1 .. real[g])
        OBVIOUS
      <4>3. QED
        BY ONLY <3>1, <4>1, <4>2, Zenon
    <3>3. \A u \in Rewriting \ {t} : copy'[u] = copy[u]
      BY <2>1 DEF TypeOK, Rewriting
    <3>4. QED
      BY <2>1, <2>2, <2>3, <3>2, <3>3 DEF Copies
  <2>6. Steps' /\ Cleared' /\ SingleEntry' /\ AcceptedInFile'
    BY <2>1 DEF Steps, Cleared, SingleEntry, raced, AcceptedInFile
  <2>7. KeptInCopies'
    BY <2>1, <2>2, <2>3 DEF KeptInCopies, Present, TypeOK, Rewriting
  <2>8. QED
    BY <2>4, <2>5, <2>6, <2>7
<1>2. CASE (Remove(t) \/ RemoveFails(t)) /\ ~Present(host[t])
  <2>1. /\ phase' = [phase EXCEPT ![t] = "lock"] /\ phase[t] = "remove" /\ t \notin Rewriting
        /\ file[host[t]] = <<>>
        /\ UNCHANGED <<file, real, setting, op, host, scanned, copy, lock, kept, past,
                       accepted, sent>>
    BY <1>2 DEF Remove, RemoveFails, Goto, Present
  <2> UNCHANGED <<raced, refreshed>> /\ OfRefreshes'
    BY <2>1, PastKeeps
  <2>2. Rewriting' = Rewriting
    BY <2>1 DEF Rewriting
  <2>3. TypeOK'
    BY <2>1 DEF TypeOK
  <2>4. Copies' /\ Steps'
    BY <2>1, <2>2 DEF Copies, Steps, TypeOK, Rewriting
  <2>5. Cleared'
    BY <2>1 DEF Cleared, TypeOK
  <2>6. SingleEntry' /\ KeptInCopies' /\ AcceptedInFile'
    BY <2>1, <2>2 DEF SingleEntry, raced, KeptInCopies, Present, AcceptedInFile
  <2>7. QED
    BY <2>3, <2>4, <2>5, <2>6
<1>3. CASE RemoveTimesOut(t) \/ (RemoveFails(t) /\ Present(host[t]))
  <2>1. /\ phase' = [phase EXCEPT ![t] = "lock"] /\ phase[t] = "remove"
        /\ Note(host[t], "unremoved") /\ host[t] \in Hosts /\ host[t] \in refreshed
        /\ UNCHANGED <<file, real, setting, op, host, scanned, copy, lock, kept,
                       accepted, sent>>
    BY <1>3 DEF RemoveTimesOut, RemoveFails, Goto, Steps, TypeOK
  <2>a. /\ past' \in [Hosts -> SUBSET Causes]
        /\ raced' = raced \cup {host[t]} /\ refreshed' = refreshed /\ OfRefreshes'
    BY <2>1, NoteMarks DEF Causes
  <2>2. Rewriting' = Rewriting
    BY <2>1 DEF Rewriting
  <2>3. TypeOK'
    BY <2>1, <2>a DEF TypeOK
  <2>4. Copies' /\ Steps'
    BY <2>1, <2>a, <2>2 DEF Copies, Steps, TypeOK, Rewriting
  <2>5. Cleared'
    BY <2>1, <2>a DEF Cleared, TypeOK
  <2>6. SingleEntry' /\ KeptInCopies' /\ AcceptedInFile'
    BY <2>1, <2>a, <2>2 DEF SingleEntry, raced, KeptInCopies, Present, AcceptedInFile
  <2>7. QED
    BY <2>a, <2>3, <2>4, <2>5, <2>6
<1>4. QED
  BY <1>1, <1>2, <1>3

\* The copy takes the file's place.
LEMMA RenameStep == ASSUME IInv, NEW t \in Tasks, Rename(t) PROVE IInv'
<1> USE HostKeysAssumption DEF IInv
<1>1. /\ t \in Rewriting
      /\ file' = copy[t]
      /\ copy' = [copy EXCEPT ![t] = NoCopy]
      /\ UNCHANGED <<real, setting, op, host, scanned, lock, kept, accepted, sent>>
  BY DEF Rename
<1>a. /\ past' \in [Hosts -> SUBSET Causes]
      /\ raced' = raced \cup {g \in Hosts : copy[t][g] # file[g] /\ g # host[t]}
      /\ refreshed' = refreshed /\ OfRefreshes'
  BY DEF Rename, TypeOK, Causes, raced, refreshed, OfRefreshes, Marked
<1>2. phase' \in [Tasks -> {"idle", "check", "remove", "lock", "recheck", "scan", "append",
                            "connect"}]
  BY DEF Rename, TypeOK
<1>3. /\ \A u \in Tasks \ {t} : phase'[u] = phase[u]
      /\ phase'[t] = IF phase[t] = "remove" THEN "lock" ELSE phase[t]
  BY DEF Rename, TypeOK
<1>4. Rewriting' = Rewriting \ {t}
  BY <1>1 DEF Rewriting, TypeOK, NoCopy
<1>5. NoCopy \in [Hosts -> Seq(Nat)]
  BY DEF NoCopy
<1>6. TypeOK'
  BY <1>1, <1>a, <1>2, <1>5 DEF TypeOK, Copies
<1>7. Copies'
  BY <1>1, <1>a, <1>3, <1>4 DEF Copies, TypeOK, Rewriting
<1>8. Steps'
  BY <1>1, <1>a, <1>3 DEF Steps
<1>9. \A g \in Hosts \ raced' : file'[g] = file[g] \/ file'[g] = <<>>
  BY <1>1, <1>a DEF Copies
<1>10. host[t] \notin raced => file'[host[t]] = <<>>
  BY <1>1, <1>a DEF Copies
<1>11. Cleared'
  <2> SUFFICES ASSUME NEW u \in Tasks, host[u] \notin raced',
                      phase'[u] \in {"scan", "append"} \/ (phase'[u] = "lock" /\ op[u] = "refresh")
               PROVE  file'[host[u]] = <<>>
    BY <1>1 DEF Cleared
  <2>1. CASE u = t
    BY <1>1, <1>a, <1>10, <2>1
  <2>2. CASE u # t
    <3>1. file[host[u]] = <<>>
      BY <1>1, <1>a, <1>3, <2>2 DEF Cleared
    <3>2. QED
      BY <1>9, <3>1 DEF TypeOK
  <2>3. QED
    BY <2>1, <2>2
<1>12. SingleEntry'
  BY <1>1, <1>a, <1>9 DEF SingleEntry, raced
<1>13. KeptInCopies'
  BY <1>1, <1>4 DEF KeptInCopies, Present, Rewriting, TypeOK
<1>14. AcceptedInFile'
  BY <1>1, <1>a DEF AcceptedInFile, Copies
<1>15. QED
  BY <1>a, <1>6, <1>7, <1>8, <1>11, <1>12, <1>13, <1>14

\* The host presents another key.
LEMMA RekeyStep == ASSUME IInv, NEW h \in Hosts, Rekey(h) PROVE IInv'
<1> USE HostKeysAssumption DEF IInv
<1>1. /\ real' \in [Hosts -> 1 .. MaxKeys] /\ \A g \in Hosts : real[g] <= real'[g]
      /\ UNCHANGED <<file, setting, phase, op, host, scanned, copy, lock, kept, past,
                     accepted, sent>>
  <2>1. real \in [Hosts -> 1 .. MaxKeys]
    BY DEF TypeOK
  <2>2. /\ real' = [real EXCEPT ![h] = real[h] + 1] /\ real[h] < MaxKeys
        /\ UNCHANGED <<file, setting, phase, op, host, scanned, copy, lock, kept, past,
                       accepted, sent>>
    BY DEF Rekey, history
  <2>3. real' \in [Hosts -> 1 .. MaxKeys] /\ \A g \in Hosts : real[g] <= real'[g]
    BY ONLY <2>1, <2>2, HostKeysAssumption
  <2>4. QED
    BY <2>2, <2>3
<1>a. UNCHANGED <<raced, refreshed>> /\ OfRefreshes'
  BY <1>1, PastKeeps
<1>2. \A g \in Hosts : real[g] \in Nat /\ real'[g] \in Nat
  <2>1. real \in [Hosts -> 1 .. MaxKeys]
    BY DEF TypeOK
  <2>2. QED
    BY ONLY <1>1, <2>1, HostKeysAssumption
<1>3. \A g \in Hosts : file'[g] \in Seq(1 .. real'[g])
  BY <1>1, <1>2, SeqGrows DEF TypeOK
<1>4. TypeOK'
  BY <1>1, <1>3 DEF TypeOK
<1>5. Rewriting' = Rewriting
  BY <1>1 DEF Rewriting
<1>6. \A u \in Rewriting, g \in Hosts : copy[u][g] \in Seq(1 .. real'[g])
  BY <1>1, <1>2, SeqGrows DEF Copies
<1>7. Copies'
  BY <1>1, <1>a, <1>5, <1>6 DEF Copies
<1>8. Steps'
  BY <1>1, <1>a, <1>2 DEF Steps, TypeOK
<1>9. Cleared' /\ SingleEntry' /\ KeptInCopies' /\ AcceptedInFile'
  BY <1>1, <1>a, <1>5 DEF Cleared, SingleEntry, raced, KeptInCopies, Present, AcceptedInFile
<1>10. QED
  BY <1>a, <1>4, <1>7, <1>8, <1>9

\* The entry is appended: the one place where the file grows.
LEMMA AppendStep == ASSUME IInv, NEW t \in Tasks, AppendEntry(t) PROVE IInv'
<1> USE HostKeysAssumption
<1> DEFINE h == host[t]
           k == scanned[t]
<1>1. /\ phase[t] = "append" /\ lock = t /\ lock' = Nobody
      /\ h \in Hosts /\ k \in 1 .. real[h] /\ real[h] \in 1 .. MaxKeys
      /\ Finish(t) /\ UNCHANGED accepted
  BY DEF AppendEntry, IInv, TypeOK, Steps
<1>2. CASE UNCHANGED <<file, kept, past>>
  BY <1>1, <1>2, FinishMoves DEF Nobody
<1>3. CASE ~UNCHANGED <<file, kept, past>>
  <2>1. /\ file' = [file EXCEPT ![h] = Append(file[h], k)]
        /\ kept' = IF Rewriting = {} THEN kept \cup {h} ELSE kept
        /\ IF Removed(t, h) # {} THEN Note(h, "overlapped") ELSE UNCHANGED past
    BY <1>3 DEF AppendEntry
  <2>a. /\ past' \in [Hosts -> SUBSET Causes] /\ refreshed' = refreshed /\ OfRefreshes'
        /\ raced' = IF Removed(t, h) # {} THEN raced \cup {h} ELSE raced
    <3>1. CASE Removed(t, h) # {}
      <4>1. h \in refreshed
        BY <3>1 DEF Removed, IInv, Steps
      <4>2. QED
        BY <1>1, <2>1, <3>1, <4>1, NoteMarks DEF Causes, IInv
    <3>2. CASE Removed(t, h) = {}
      BY <2>1, <3>2, PastKeeps DEF IInv, TypeOK
    <3>3. QED
      BY <3>1, <3>2
  <2>2. /\ file' \in [Hosts -> Seq(Nat)]
        /\ file'[h] = Append(file[h], k) /\ file'[h] \in Seq(1 .. real[h]) /\ file'[h] # <<>>
        /\ \A g \in Hosts \ {h} : file'[g] = file[g]
    <3>1. file \in [Hosts -> Seq(Nat)] /\ file[h] \in Seq(1 .. real[h])
      BY <1>1 DEF IInv, TypeOK
    <3>2. Append(file[h], k) \in Seq(1 .. real[h]) /\ Append(file[h], k) \in Seq(Nat)
      BY <1>1, <3>1
    <3>3. Append(file[h], k) # <<>>
      <4>1. Len(Append(file[h], k)) = Len(file[h]) + 1 /\ Len(file[h]) \in Nat
        BY <1>1, <3>1
      <4>2. Len(<<>>) = 0
        OBVIOUS
      <4>3. Len(file[h]) + 1 # 0
        BY <4>1
      <4>4. QED
        BY ONLY <4>1, <4>2, <4>3, Zenon
    <3>4. QED
      BY ONLY <1>1, <2>1, <3>1, <3>2, <3>3
  <2>3. PICK x \in {"connect", "idle"}, o \in {"none", "validate"}, j \in 0 .. MaxKeys :
           /\ phase' = [phase EXCEPT ![t] = x] /\ op' = [op EXCEPT ![t] = o]
           /\ scanned' = [scanned EXCEPT ![t] = j]
           /\ x = "idle" => o = "none"
    <3>1. CASE op[t] = "validate"
      <4>1. /\ phase' = [phase EXCEPT ![t] = "connect"] /\ op' = [op EXCEPT ![t] = "validate"]
            /\ scanned' = [scanned EXCEPT ![t] = k] /\ k \in 0 .. MaxKeys
        BY <1>1, <3>1 DEF Finish, Goto, IInv, TypeOK
      <4>2. QED
        BY <4>1
    <3>2. CASE op[t] # "validate"
      <4>1. /\ phase' = [phase EXCEPT ![t] = "idle"] /\ op' = [op EXCEPT ![t] = "none"]
            /\ scanned' = [scanned EXCEPT ![t] = 0] /\ 0 \in 0 .. MaxKeys
        BY <1>1, <3>2 DEF Finish, End, Goto, Invalid
      <4>2. QED
        BY <4>1
    <3>3. QED
      BY <3>1, <3>2
  <2>4. UNCHANGED <<real, setting, host, copy, sent>>
    BY <1>1 DEF Finish, End
  <2>5. Rewriting' = Rewriting
    BY <2>4 DEF Rewriting, NoCopy
  <2>6. TypeOK'
    <3>1. phase' \in [Tasks -> {"idle", "check", "remove", "lock", "recheck", "scan", "append",
                                "connect"}]
      BY <2>3 DEF IInv, TypeOK
    <3>2. op' \in [Tasks -> Ops \cup {"none"}] /\ scanned' \in [Tasks -> 0 .. MaxKeys]
      BY <2>3 DEF IInv, TypeOK, Ops
    <3>3. kept' \subseteq Hosts
      BY <1>1, <2>1 DEF IInv, TypeOK
    <3>4. \A g \in Hosts : file'[g] \in Seq(1 .. real[g])
      BY <2>2 DEF IInv, TypeOK
    <3>5. QED
      BY <1>1, <2>a, <2>2, <2>4, <3>1, <3>2, <3>3, <3>4 DEF IInv, TypeOK, Nobody
  <2>7. Copies'
    <3>1. raced \subseteq raced' /\ \A u \in Rewriting : u \in Tasks
      BY <2>1, <2>a DEF Rewriting
    <3>2. \A u \in Rewriting : phase'[u] # "remove" => phase[u] # "remove"
      BY <1>1, <2>3, <3>1 DEF IInv, TypeOK
    <3>3. QED
      BY <1>1, <2>a, <2>4, <2>5, <3>1, <3>2 DEF IInv, Copies
  <2>8. Steps'
    <3> SUFFICES ASSUME NEW u \in Tasks
                 PROVE  /\ phase'[u] \in {"recheck", "scan", "append"} => lock' = u
                        /\ phase'[u] \in {"recheck", "check", "connect"} => op'[u] # "refresh"
                        /\ phase'[u] = "idle" => op'[u] = "none"
                        /\ phase'[u] = "remove" => op'[u] = "refresh"
                        /\ op'[u] = "refresh" => host[u] \in refreshed
                        /\ phase'[u] = "append" => scanned'[u] \in 1 .. real[host[u]]
      BY <1>1, <2>a, <2>4 DEF Steps
    <3>1. CASE u = t
      BY <2>3, <3>1 DEF IInv, TypeOK
    <3>2. CASE u # t
      <4>1. phase'[u] = phase[u] /\ op'[u] = op[u] /\ scanned'[u] = scanned[u]
        BY <2>3, <3>2 DEF IInv, TypeOK
      <4>2. phase[u] \notin {"recheck", "scan", "append"}
        BY <1>1, <3>2 DEF IInv, Steps
      <4>3. QED
        BY <4>1, <4>2 DEF IInv, Steps
    <3>3. QED
      BY <3>1, <3>2
  <2>9. Cleared'
    <3> SUFFICES ASSUME NEW u \in Tasks, host[u] \notin raced',
                        \/ phase'[u] \in {"scan", "append"}
                        \/ phase'[u] = "lock" /\ op'[u] = "refresh"
                 PROVE  file'[host[u]] = <<>>
      BY <2>4 DEF Cleared
    <3>1. u # t
      BY <2>3 DEF IInv, TypeOK
    <3>2. phase'[u] = phase[u] /\ op'[u] = op[u] /\ host[u] \in Hosts
      BY <2>3, <3>1 DEF IInv, TypeOK
    <3>3. phase[u] = "lock" /\ op[u] = "refresh"
      BY <1>1, <3>1, <3>2 DEF IInv, Steps
    <3>4. host[u] # h
      BY <2>a, <3>1, <3>3 DEF Removed
    <3>5. file[host[u]] = <<>>
      BY <2>a, <3>3 DEF IInv, Cleared
    <3>6. QED
      BY <2>2, <3>2, <3>4, <3>5
  <2>10. h \notin raced' => file[h] = <<>>
    BY <1>1, <2>a DEF IInv, Cleared
  <2>11. SingleEntry'
    <3>1. h \notin raced' => Len(file'[h]) = 1
      BY <1>1, <2>2, <2>10
    <3>2. \A g \in Hosts \ raced : Len(file[g]) <= 1
      BY DEF IInv, SingleEntry, raced
    <3>3. ASSUME NEW g \in Hosts, g \notin raced' PROVE Len(file'[g]) <= 1
      <4>1. g \notin raced
        BY <2>a, <3>3
      <4>2. CASE g = h
        <5>1. h \notin raced'
          BY ONLY <3>3, <4>2, Zenon
        <5>2. Len(file'[h]) = 1
          BY <3>1, <5>1
        <5>3. Len(file'[g]) = 1
          BY ONLY <4>2, <5>2, Zenon
        <5>4. QED
          BY <5>3
      <4>3. CASE g # h
        BY <2>2, <3>2, <4>1, <4>3
      <4>4. QED
        BY <4>2, <4>3
    <3>4. QED
      BY <3>3 DEF SingleEntry, raced
  <2>12. KeptInCopies'
    BY <2>1, <2>2, <2>4, <2>5 DEF IInv, KeptInCopies, Present, TypeOK
  <2>13. AcceptedInFile'
    <3> SUFFICES ASSUME NEW g \in Hosts, g \notin refreshed', g \notin raced'
                 PROVE  accepted'[g] \subseteq Range(file'[g])
      BY DEF AcceptedInFile
    <3>1. accepted'[g] \subseteq Range(file[g])
      BY <1>1, <2>a DEF IInv, AcceptedInFile
    <3>2. CASE g = h
      <4>1. file[h] = <<>>
        BY <2>10, <3>2
      <4>2. Range(file[h]) = {}
        BY <4>1 DEF Range
      <4>3. QED
        BY <3>1, <3>2, <4>2
    <3>3. CASE g # h
      BY <2>2, <3>1, <3>3
    <3>4. QED
      BY <3>2, <3>3
  <2>14. QED
    BY <2>a, <2>6, <2>7, <2>8, <2>9, <2>11, <2>12, <2>13 DEF IInv
<1>4. QED
  BY <1>2, <1>3

LEMMA Invariance == Spec => []IInv
<1>1. IInv /\ [Next]_vars => IInv'
  <2> SUFFICES ASSUME IInv, [Next]_vars PROVE IInv'
    OBVIOUS
  <2>1. ASSUME NEW t \in Tasks, Step(t) PROVE IInv'
    BY <2>1, MoveStep, RemoveStep, RenameStep, AppendStep DEF Step
  <2>2. CASE UNCHANGED vars
    <3>1. UNCHANGED <<raced, refreshed>> /\ OfRefreshes'
      BY <2>2, PastKeeps DEF vars, IInv
    <3>2. QED
      BY <2>2, <3>1 DEF vars, IInv, TypeOK, Copies, Steps, Cleared, SingleEntry, raced,
           KeptInCopies, AcceptedInFile, Rewriting, Present
  <2>3. QED
    BY <2>1, <2>2, BeginStep, RekeyStep DEF Next
<1>2. QED
  BY InitHolds, <1>1, PTL DEF Spec

----------------------------------------------------------------------------

\* Every variable keeps its type, and the file holds only keys its hosts have had
\* (_fetch_and_append validates what it appends).
THEOREM TypeCorrect == Spec => []TypeOK
BY Invariance, PTL DEF IInv

\* Requests that ensure a host at the same time leave one entry; more have one of the
\* four causes of SingleEntry (_fetch_and_append's second look under the lock).
THEOREM OneEntry == Spec => []SingleEntry
BY Invariance, PTL DEF IInv

\* A key added while nobody rewrote the file is not lost to a later rewrite
\* (refresh_host).
THEOREM KeysStay == Spec => []KeysKept
<1>1. IInv => KeysKept
  BY DEF IInv, KeptInCopies, KeysKept
<1>2. QED
  BY Invariance, <1>1, PTL

\* A host is trusted with one key only, until it is refreshed, its entry is overlooked
\* or another host's rewrite takes the entry away (SSHConnector.connect, ensure_host).
THEOREM OneKeyTrusted == Spec => []TrustOnFirstUse
<1>1. ASSUME IInv PROVE TrustOnFirstUse
  <2> SUFFICES ASSUME NEW h \in Hosts, h \notin Marked({"refreshed", "overwritten", "unseen"})
               PROVE  Cardinality(accepted[h]) <= 1
    BY DEF TrustOnFirstUse
  <2>a. h \notin refreshed /\ h \notin raced
    BY <1>1 DEF IInv, OfRefreshes, raced, refreshed, Marked
  <2>1. accepted[h] \subseteq Range(file[h]) /\ Len(file[h]) <= 1 /\ file[h] \in Seq(1 .. real[h])
    BY <1>1, <2>a DEF IInv, AcceptedInFile, SingleEntry, raced, TypeOK
  <2>2. Range(file[h]) \subseteq {file[h][1]}
    BY <2>1 DEF Range
  <2>3. accepted[h] = {} \/ accepted[h] = {file[h][1]}
    BY <2>1, <2>2
  <2>4. CASE accepted[h] = {}
    <3>1. Cardinality(accepted[h]) = 0
      BY ONLY <2>4, FS_EmptySet, Zenon
    <3>2. QED
      BY <3>1
  <2>5. CASE accepted[h] = {file[h][1]}
    <3>1. Cardinality(accepted[h]) = 1
      BY ONLY <2>5, FS_Singleton, Zenon
    <3>2. QED
      BY <3>1
  <2>6. QED
    BY <2>3, <2>4, <2>5
<1>2. QED
  BY Invariance, <1>1, PTL
============================================================================
