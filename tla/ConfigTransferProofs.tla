------------------------ MODULE ConfigTransferProofs ------------------------
(***************************************************************************)
(* Safety of export, preview and import for any tables, names, payloads,   *)
(* page size, number of requests in flight and number of edits.            *)
(*                                                                         *)
(* ImportWhole needs to know where the rows of a request come from: what   *)
(* it knows was in the table while it ran or is its own (Covered), what    *)
(* its phase says it has not done yet (Phases), and that a name is in the  *)
(* table or in one open transaction (Tables).  That the next table to read *)
(* exists or all have been read is a property of a CHOOSE over numbers,    *)
(* which is why the proof needs least elements.                            *)
(***************************************************************************)
EXTENDS ConfigTransfer, FiniteSetTheorems, WellFoundedInduction, TLAPS

----------------------------------------------------------------------------
(* The inductive invariant                                                 *)

Records ==
    [op : Ops \cup {"none"}, data : Payloads \cup {<<>>},
     phase : {"idle", "read", "insert", "commit", "reply", "done"},
     kind : 1 .. Len(Kinds) + 1, got : 0 .. Cardinality(Rows), known : SUBSET Rows,
     item : Nat \ {0}, staged : SUBSET Rows, added : SUBSET Rows,
     heard : {"none", "success", "error", "504"}, seen : SUBSET Rows]

Runs(r) == r.phase \notin {"idle", "done"}

\* What the phase of a request says about its transaction.
Phases(r) ==
    /\ r.phase = "read" => r.kind <= Len(Kinds) /\ r.item = 1
    /\ r.phase \in {"insert", "commit"} => r.op = "import"
    /\ r.phase \notin {"insert", "commit"} => r.staged = {}
    /\ r.phase \notin {"reply", "done"} => r.added = {}
    /\ r.phase = "idle" => r.heard = "none"
    /\ Runs(r) => r.heard \in {"none", "504"}
    /\ r.added # {} => r.op = "import"

\* What a handler has read or inserted so far, and where the rows come from.
Covered(r) ==
    /\ r.item <= Len(r.data) + 1
    /\ r.phase = "insert" => \A i \in 1 .. r.item - 1 : r.data[i] \in r.known
    /\ r.op = "import" /\ r.phase \in {"commit", "reply"} => Range(r.data) \subseteq r.known
    /\ Runs(r) => r.known \subseteq r.seen \cup r.staged \cup r.added

\* ImportWhole, of one request.
Whole(r) ==
    /\ r.heard = "success" /\ r.op = "import" => Range(r.data) \subseteq r.added \cup r.seen
    /\ r.added # {} => Range(r.data) \subseteq r.added \cup r.known

Good(r) == r \in Records /\ Phases(r) /\ Covered(r) /\ Whole(r)

\* The tables: a name is in the table or in one transaction, and a request that
\* runs has noticed what is in the table.
Tables ==
    /\ table \subseteq Rows
    /\ \A s \in Slots : Runs(req[s]) => table \subseteq req[s].seen
    /\ \A s \in Slots : req[s].staged \cap table = {}
    /\ \A s, t \in Slots : s # t => req[s].staged \cap req[t].staged = {}

Counters == sent \in 0 .. MaxRequests /\ edits \in 0 .. MaxEdits

IInv ==
    /\ req \in [Slots -> Records]
    /\ \A s \in Slots : Good(req[s])
    /\ Tables
    /\ Counters

----------------------------------------------------------------------------
(* The operators                                                           *)

\* The order of the natural numbers, as a relation.
LEMMA LessIsWellFounded ==
    \E R : /\ IsWellFoundedOn(R, Nat)
           /\ \A x, y \in Nat : <<x, y>> \in R <=> x < y
<1>1. \A x, y \in Nat : <<x, y>> \in OpToRel(<, Nat) <=> x < y
  BY DEF OpToRel
<1> QED
  BY <1>1, NatLessThanWellFounded, Zenon

\* A set of natural numbers has a least element.
LEMMA LeastElement ==
    ASSUME NEW T, T \subseteq Nat, T # {}
    PROVE  \E x \in T : \A y \in T : x <= y
<1>1. PICK R : /\ IsWellFoundedOn(R, Nat)
               /\ \A x, y \in Nat : <<x, y>> \in R <=> x < y
  BY LessIsWellFounded
<1>2. ASSUME NEW Q, NEW S, IsWellFoundedOn(Q, S), T \subseteq S
      PROVE  \E x \in T : \A y \in T : ~(<<y, x>> \in Q)
  BY <1>2, WFMin
<1>3. PICK x \in T : \A y \in T : ~(<<y, x>> \in R)
  BY <1>1, <1>2
<1>4. ASSUME NEW y \in T PROVE x <= y
  <2>1. x \in Nat /\ y \in Nat
    OBVIOUS
  <2>2. ~(y < x)
    BY <1>1, <1>3, <2>1, Zenon
  <2> QED
    BY <2>1, <2>2
<1> QED
  BY <1>4

\* There are finitely many rows, so the pages end.
LEMMA RowsFinite == IsFiniteSet(Rows) /\ Cardinality(Rows) \in Nat
<1>1. IsFiniteSet(1 .. Len(Kinds))
  BY FS_Interval, TransferAssumption
<1>2. IsFiniteSet(Range(Kinds))
  <2>1. Kinds \in Surjection(1 .. Len(Kinds), Range(Kinds))
    <3>1. DOMAIN Kinds = 1 .. Len(Kinds) /\ Kinds \in [1 .. Len(Kinds) -> Range(Kinds)]
      BY TransferAssumption
    <3>2. \A t \in Range(Kinds) : \E i \in 1 .. Len(Kinds) : Kinds[i] = t
      BY <3>1 DEF Range
    <3> QED
      BY <3>1, <3>2 DEF Surjection
  <2> QED
    BY <1>1, <2>1, FS_Surjection
<1>3. IsFiniteSet(Rows)
  BY <1>2, TransferAssumption, FS_Product DEF Rows
<1> QED
  BY <1>3, FS_CardinalityType

\* Data are sequences of rows.
LEMMA DataRows ==
    ASSUME NEW d \in Payloads \cup {<<>>}
    PROVE  d \in Seq(Rows) /\ Len(d) \in Nat
<1>1. CASE d \in Payloads
  BY <1>1, TransferAssumption DEF Rows
<1>2. CASE d = <<>>
  BY <1>2
<1> QED
  BY <1>1, <1>2

\* NextKind finds a table at or after position k, or the position after the last.
LEMMA NextKindType ==
    ASSUME NEW op, NEW data, NEW k \in Nat \ {0}
    PROVE  /\ NextKind(op, data, k) \in 1 .. Len(Kinds) + 1
           /\ NextKind(op, data, k) \in Nat
<1> DEFINE left == {i \in k .. Len(Kinds) : Reads(op, data, Kinds[i])}
<1>1. Len(Kinds) \in Nat
  BY TransferAssumption
<1>2. CASE left = {}
  BY <1>1, <1>2 DEF NextKind
<1>3. CASE left # {}
  <2>1. left \subseteq Nat
    BY <1>1
  <2>2. \E i \in left : \A j \in left : i <= j
    BY <1>3, <2>1, LeastElement
  <2>3. NextKind(op, data, k) \in left
    BY <1>3, <2>2 DEF NextKind
  <2> QED
    BY <1>1, <2>3
<1> QED
  BY <1>2, <1>3

\* A full page ends within the table, so the offset stays within the rows there are.
LEMMA FullPage ==
    ASSUME IInv, NEW s \in Slots, NEW page, Page(s, page), Cardinality(page) = Batch
    PROVE  req[s].got + Batch \in 0 .. Cardinality(Rows)
<1> DEFINE T == RowsOf(Kinds[req[s].kind], table)
           left == IF Cardinality(T) > req[s].got THEN Cardinality(T) - req[s].got ELSE 0
<1>1. T \in SUBSET Rows
  BY DEF RowsOf, IInv, Tables
<1>2. Cardinality(T) \in Nat /\ Cardinality(T) <= Cardinality(Rows)
  BY <1>1, RowsFinite, FS_Subset, FS_CardinalityType
<1>3. req[s].got \in Nat
  BY RowsFinite DEF IInv, Records
<1>4. left \in Nat /\ Batch \in Nat \ {0}
  BY <1>2, <1>3, TransferAssumption
<1>5. Min({Batch, left}) <= left
  BY <1>4 DEF Min
<1>6. Batch <= left
  BY <1>5 DEF Page
<1> QED
  BY <1>2, <1>3, <1>4, <1>6, RowsFinite

----------------------------------------------------------------------------
(* Steps                                                                   *)

\* A step that replaces one record by a good one, and leaves the table alone.
LEMMA OneRecord ==
    ASSUME IInv, NEW s \in Slots, NEW r, Good(r), req' = [req EXCEPT ![s] = r],
           UNCHANGED <<table, edits>>, sent' \in 0 .. MaxRequests,
           Runs(r) => table \subseteq r.seen,
           r.staged \cap table = {},
           \A t \in Slots \ {s} : r.staged \cap req[t].staged = {}
    PROVE  IInv'
<1>1. req' \in [Slots -> Records]
  BY DEF IInv, Good
<1>2. \A t \in Slots : req'[t] = IF t = s THEN r ELSE req[t]
  BY DEF IInv
<1>3. \A t \in Slots : Good(req'[t])
  BY <1>2 DEF IInv
<1>4. Tables'
  BY <1>2 DEF IInv, Tables
<1>5. Counters'
  BY DEF IInv, Counters
<1> QED
  BY <1>1, <1>3, <1>4, <1>5 DEF IInv

\* The same for a handler that only moves on: no row is inserted or added.
LEMMA MovesOn ==
    ASSUME IInv, NEW s \in Slots, NEW r, Good(r), req' = [req EXCEPT ![s] = r],
           UNCHANGED <<table, sent, edits>>,
           Runs(r) => Runs(req[s]) /\ r.seen = req[s].seen,
           r.staged \subseteq req[s].staged
    PROVE  IInv'
<1>1. sent' \in 0 .. MaxRequests
  BY DEF IInv, Counters
<1>2. Runs(r) => table \subseteq r.seen
  BY DEF IInv, Tables
<1>3. r.staged \cap table = {}
  BY DEF IInv, Tables
<1>4. \A t \in Slots \ {s} : r.staged \cap req[t].staged = {}
  BY DEF IInv, Tables
<1> QED
  BY <1>1, <1>2, <1>3, <1>4, OneRecord

\* A slot without a request.
LEMMA IdleGood == Good(Idle)
<1>1. 1 \in 1 .. Len(Kinds) + 1
  BY TransferAssumption
<1>2. 0 \in 0 .. Cardinality(Rows)
  BY RowsFinite
<1>3. Idle \in Records
  BY <1>1, <1>2 DEF Idle, Records, Ops
<1> QED
  BY <1>3 DEF Good, Idle, Phases, Covered, Whole, Runs

\* No request was made.
LEMMA InitHolds == Init => IInv
<1> SUFFICES ASSUME Init PROVE IInv
  OBVIOUS
<1>1. req \in [Slots -> Records] /\ \A s \in Slots : Good(req[s])
  BY IdleGood DEF Init, Good
<1>2. Tables /\ Counters
  BY TransferAssumption DEF Init, Tables, Counters, Idle, Runs
<1> QED
  BY <1>1, <1>2 DEF IInv

\* A request begins with nothing read, and with the table in sight.
LEMMA ArriveStep ==
    ASSUME IInv, NEW s \in Slots, NEW op \in Ops, NEW data \in Payloads \cup {<<>>},
           Arrive(s, op, data)
    PROVE  IInv'
<1> DEFINE k == NextKind(op, data, 1)
           r == [Idle EXCEPT !.op = op, !.data = data, !.kind = k, !.seen = table,
                     !.phase = IF k > Len(Kinds) THEN AfterReading(op) ELSE "read"]
<1>1. k \in 1 .. Len(Kinds) + 1 /\ Len(Kinds) \in Nat
  BY NextKindType, TransferAssumption
<1>2. data \in Seq(Rows)
  BY DataRows
<1>3. table \subseteq Rows
  BY DEF IInv, Tables
<1> HIDE DEF k
<1>4. r \in Records
  BY <1>1, <1>3, IdleGood DEF Good, Records, Idle, AfterReading, Ops
<1>5. Phases(r) /\ Covered(r) /\ Whole(r)
  BY <1>1, <1>2 DEF Phases, Covered, Whole, Runs, Idle, AfterReading
<1>6. r.staged = {} /\ r.seen = table
  BY DEF Idle
<1>7. req' = [req EXCEPT ![s] = r] /\ UNCHANGED <<table, edits>>
  BY DEF Arrive, Becomes, k
<1>8. sent' \in 0 .. MaxRequests
  BY TransferAssumption DEF Arrive, IInv, Counters
<1> HIDE DEF r
<1> QED
  BY <1>4, <1>5, <1>6, <1>7, <1>8, OneRecord DEF Good

\* _load_all reads rows that are there.
LEMMA LoadStep == ASSUME IInv, NEW s \in Slots, Load(s) PROVE IInv'
<1> DEFINE old == req[s]
           next == NextKind(old.op, old.data, old.kind + 1)
<1>1. PICK page \in SUBSET RowsOf(Kinds[old.kind], table) :
         /\ Page(s, page)
         /\ IF Cardinality(page) = Batch
            THEN Becomes(s, [old EXCEPT !.known = @ \cup page, !.got = @ + Batch])
            ELSE Becomes(s, [old EXCEPT !.known = @ \cup page, !.got = 0, !.kind = next,
                    !.phase = IF next > Len(Kinds) THEN AfterReading(old.op) ELSE "read"])
  BY DEF Load
<1>2. old.phase = "read" /\ UNCHANGED <<table, sent, edits>>
  BY DEF Load
<1>3. Good(old) /\ old \in Records /\ Runs(old)
  BY <1>2 DEF IInv, Good, Runs
<1>4. page \subseteq Rows /\ page \subseteq old.seen
  BY <1>3 DEF IInv, Tables, RowsOf
<1>5. CASE Cardinality(page) = Batch
  <2> DEFINE r == [old EXCEPT !.known = @ \cup page, !.got = @ + Batch]
  <2>1. old.got + Batch \in 0 .. Cardinality(Rows)
    BY <1>1, <1>5, FullPage
  <2> HIDE DEF old
  <2>2. r \in Records
    BY <1>3, <1>4, <2>1 DEF Records
  <2>3. Phases(r) /\ Covered(r) /\ Whole(r) /\ r.seen = old.seen /\ r.staged = old.staged
    BY <1>2, <1>3, <1>4 DEF Good, Records, Phases, Covered, Whole, Runs
  <2>4. req' = [req EXCEPT ![s] = r]
    BY <1>1, <1>5 DEF Becomes
  <2> HIDE DEF r
  <2> USE DEF old
  <2> QED
    BY <1>2, <1>3, <2>2, <2>3, <2>4, MovesOn DEF Good
<1>6. CASE Cardinality(page) # Batch
  <2> DEFINE r == [old EXCEPT !.known = @ \cup page, !.got = 0, !.kind = next,
                      !.phase = IF next > Len(Kinds) THEN AfterReading(old.op) ELSE "read"]
  <2>1. old.kind + 1 \in Nat \ {0} /\ Len(Kinds) \in Nat
    BY <1>3, TransferAssumption DEF Records
  <2>2. next \in 1 .. Len(Kinds) + 1
    BY <2>1, NextKindType
  <2> HIDE DEF old, next
  <2>3. 0 \in 0 .. Cardinality(Rows) /\ AfterReading(old.op) \in {"insert", "reply"}
    BY RowsFinite DEF AfterReading
  <2>4. old.data \in Seq(Rows) /\ old.item \in Nat \ {0}
    BY <1>3, DataRows DEF Records
  <2>5. r \in Records /\ Phases(r) /\ Covered(r) /\ Whole(r)
        /\ r.seen = old.seen /\ r.staged = old.staged
    <3>1. CASE next > Len(Kinds)
      <4>1. r = [old EXCEPT !.known = @ \cup page, !.got = 0, !.kind = next,
                            !.phase = AfterReading(old.op)]
        BY <3>1
      <4>2. r \in Records
        BY <1>3, <1>4, <2>2, <2>3, <4>1 DEF Records
      <4>3. old.item = 1 /\ old.staged = {} /\ old.added = {} /\ old.heard \in {"none", "504"}
        BY <1>2, <1>3 DEF Good, Phases, Runs
      <4>4. 1 <= Len(old.data) + 1 /\ 1 .. 1 - 1 = {}
        BY <2>4
      <4>5. CASE old.op = "import"
        <5>1. r.phase = "insert"
          BY <1>3, <4>1, <4>2, <4>5 DEF AfterReading, Records
        <5> QED
          BY <1>2, <1>3, <1>4, <4>1, <4>2, <4>3, <4>4, <4>5, <5>1
             DEF Good, Records, Phases, Covered, Whole, Runs
      <4>6. CASE old.op # "import"
        <5>1. r.phase = "reply"
          BY <1>3, <4>1, <4>2, <4>6 DEF AfterReading, Records
        <5> QED
          BY <1>2, <1>3, <1>4, <4>1, <4>2, <4>3, <4>4, <4>6, <5>1
             DEF Good, Records, Phases, Covered, Whole, Runs
      <4> QED
        BY <4>5, <4>6
    <3>2. CASE ~(next > Len(Kinds))
      <4>1. r = [old EXCEPT !.known = @ \cup page, !.got = 0, !.kind = next, !.phase = "read"]
        BY <3>2
      <4>2. r \in Records
        BY <1>3, <1>4, <2>2, <2>3, <4>1 DEF Records
      <4>3. next <= Len(Kinds)
        BY <2>1, <2>2, <3>2
      <4> QED
        BY <1>2, <1>3, <1>4, <2>2, <2>4, <4>1, <4>2, <4>3
           DEF Good, Records, Phases, Covered, Whole, Runs
    <3> QED
      BY <3>1, <3>2
  <2>6. req' = [req EXCEPT ![s] = r]
    BY <1>1, <1>6 DEF Becomes
  <2> HIDE DEF r
  <2> USE DEF old
  <2> QED
    BY <1>2, <1>3, <2>5, <2>6, MovesOn DEF Good
<1> QED
  BY <1>5, <1>6

\* The loop over the data, one row at a time; InsertsDone ends it.
LEMMA InsertStep ==
    ASSUME IInv, NEW s \in Slots, SkipRow(s) \/ Insert(s) \/ InsertsDone(s)
    PROVE  IInv'
<1> DEFINE old == req[s]
           c == old.data[old.item]
<1>1. Good(old) /\ old \in Records /\ old.phase = "insert" /\ Runs(old)
      /\ UNCHANGED <<table, sent, edits>>
  BY DEF IInv, Good, Runs, SkipRow, Insert, InsertsDone, Inserting
<1>2. old.data \in Seq(Rows) /\ old.item \in Nat \ {0} /\ Len(old.data) \in Nat
  BY <1>1, DataRows DEF Records
<1>3. CASE SkipRow(s)
  <2> DEFINE r == [old EXCEPT !.item = @ + 1]
  <2>1. old.item <= Len(old.data) /\ c \in old.known /\ req' = [req EXCEPT ![s] = r]
    BY <1>3 DEF SkipRow, Current, Becomes
  <2> HIDE DEF old
  <2>2. r \in Records
    BY <1>1, <1>2 DEF Records
  <2>3. \A i \in 1 .. r.item - 1 : i \in 1 .. old.item - 1 \/ i = old.item
    BY <1>1, <1>2 DEF Records
  <2>4. Phases(r) /\ Whole(r) /\ r.seen = old.seen /\ r.staged = old.staged /\ Runs(r)
    BY <1>1 DEF Good, Records, Phases, Whole, Runs
  <2>5. Covered(r)
    BY <1>1, <1>2, <2>1, <2>3 DEF Good, Records, Covered, Runs
  <2> HIDE DEF r
  <2> USE DEF old
  <2> QED
    BY <1>1, <2>1, <2>2, <2>4, <2>5, MovesOn DEF Good
<1>4. CASE Insert(s)
  <2> DEFINE r == [old EXCEPT !.item = @ + 1, !.staged = @ \cup {c}, !.known = @ \cup {c}]
  <2>1. old.item <= Len(old.data) /\ c \notin table /\ Holders(c) = {}
        /\ req' = [req EXCEPT ![s] = r]
    BY <1>4 DEF Insert, Inserting, Current, Becomes
  <2>2. c \in Rows
    BY <1>2, <2>1
  <2>3. \A t \in Slots : c \notin req[t].staged
    BY <2>1 DEF Holders
  <2>4. /\ table \subseteq old.seen /\ old.staged \cap table = {}
        /\ \A t \in Slots \ {s} : old.staged \cap req[t].staged = {}
    BY <1>1 DEF IInv, Tables
  <2>5. sent' \in 0 .. MaxRequests
    BY <1>1 DEF IInv, Counters
  <2> HIDE DEF old, c
  <2>6. r \in Records
    <3>1. old.staged \cup {c} \in SUBSET Rows /\ old.known \cup {c} \in SUBSET Rows
          /\ old.item + 1 \in Nat \ {0}
      BY <1>1, <2>2 DEF Records
    <3> QED
      BY <1>1, <3>1 DEF Records
  <2>7. \A i \in 1 .. r.item - 1 : i \in 1 .. old.item - 1 \/ i = old.item
    BY <1>1, <1>2 DEF Records
  <2>8. Phases(r) /\ Whole(r) /\ r.seen = old.seen /\ r.staged = old.staged \cup {c} /\ Runs(r)
    BY <1>1 DEF Good, Records, Phases, Whole, Runs
  <2>9. Covered(r)
    BY <1>1, <1>2, <2>1, <2>7 DEF Good, Records, Covered, Runs, c
  <2> HIDE DEF r
  <2>10. r.staged \cap table = {} /\ \A t \in Slots \ {s} : r.staged \cap req[t].staged = {}
    BY <2>1, <2>3, <2>4, <2>8
  <2> QED
    BY <1>1, <2>1, <2>4, <2>5, <2>6, <2>8, <2>9, <2>10, OneRecord DEF Good
<1>5. CASE InsertsDone(s)
  <2> DEFINE r == [old EXCEPT !.phase = "commit"]
  <2>1. old.item > Len(old.data) /\ req' = [req EXCEPT ![s] = r]
    BY <1>5 DEF InsertsDone, Becomes
  <2> HIDE DEF old
  <2>2. r \in Records
    BY <1>1 DEF Records
  <2>3. \A i \in 1 .. Len(old.data) : i \in 1 .. old.item - 1
    BY <1>2, <2>1
  <2>4. Range(old.data) \subseteq old.known
    <3>1. \A i \in 1 .. Len(old.data) : old.data[i] \in old.known
      BY <1>1, <2>3 DEF Good, Covered
    <3>2. DOMAIN old.data = 1 .. Len(old.data)
      BY <1>2
    <3> QED
      BY <3>1, <3>2 DEF Range
  <2>5. Phases(r) /\ Whole(r) /\ Covered(r) /\ r.seen = old.seen /\ r.staged = old.staged
    BY <1>1, <2>4 DEF Good, Records, Phases, Whole, Covered, Runs
  <2> HIDE DEF r
  <2> USE DEF old
  <2> QED
    BY <1>1, <2>1, <2>2, <2>5, MovesOn DEF Good
<1> QED
  BY <1>3, <1>4, <1>5

\* A handler that fails has committed nothing.
LEMMA FailStep ==
    ASSUME IInv, NEW s \in Slots, UniqueViolation(s) \/ DeadlockDetected(s) \/ Broken(s)
    PROVE  IInv'
<1> DEFINE old == req[s]
           r == [Respond(old, "error") EXCEPT !.staged = {}, !.known = {}]
<1>1. Good(old) /\ old \in Records
  BY DEF IInv, Good
<1>2. old.phase \in {"read", "insert", "commit"}
  BY DEF UniqueViolation, DeadlockDetected, Broken, Waits, Inserting
<1>3. req' = [req EXCEPT ![s] = r] /\ UNCHANGED <<table, sent, edits>>
  BY DEF UniqueViolation, DeadlockDetected, Broken, Fail, Becomes
<1> HIDE DEF old
<1>4. r \in Records /\ r.phase = "done" /\ r.staged = {}
  BY <1>1 DEF Records, Respond
<1>5. Phases(r) /\ Covered(r) /\ Whole(r)
  BY <1>1, <1>2 DEF Good, Records, Phases, Whole, Covered, Runs, Respond
<1> HIDE DEF r
<1> USE DEF old
<1> QED
  BY <1>3, <1>4, <1>5, MovesOn DEF Good, Runs

\* The answer, the 504 and the end of a request.
LEMMA AnswerStep ==
    ASSUME IInv, NEW s \in Slots, Reply(s) \/ Timeout(s) \/ Close(s)
    PROVE  IInv'
<1> DEFINE old == req[s]
<1>1. Good(old) /\ old \in Records
  BY DEF IInv, Good
<1>2. CASE Reply(s)
  <2> DEFINE r == Respond(old, "success")
  <2>1. old.phase = "reply" /\ req' = [req EXCEPT ![s] = r] /\ UNCHANGED <<table, sent, edits>>
    BY <1>2 DEF Reply, Becomes
  <2> HIDE DEF old
  <2>2. r \in Records /\ r.phase = "done" /\ r.staged = old.staged
    BY <1>1 DEF Records, Respond
  <2>3. Phases(r) /\ Covered(r) /\ Whole(r)
    BY <1>1, <2>1 DEF Good, Records, Phases, Whole, Covered, Runs, Respond
  <2> HIDE DEF r
  <2> USE DEF old
  <2> QED
    BY <2>1, <2>2, <2>3, MovesOn DEF Good, Runs
<1>3. CASE Timeout(s)
  <2> DEFINE r == [old EXCEPT !.heard = "504"]
  <2>1. Runs(old) /\ req' = [req EXCEPT ![s] = r] /\ UNCHANGED <<table, sent, edits>>
    BY <1>3 DEF Timeout, Becomes, Runs
  <2> HIDE DEF old
  <2>2. r \in Records /\ r.staged = old.staged /\ r.seen = old.seen
    BY <1>1 DEF Records
  <2>3. Phases(r) /\ Covered(r) /\ Whole(r)
    BY <1>1, <2>1 DEF Good, Records, Phases, Whole, Covered, Runs
  <2> HIDE DEF r
  <2> USE DEF old
  <2> QED
    BY <2>1, <2>2, <2>3, MovesOn DEF Good
<1>4. CASE Close(s)
  <2>1. req' = [req EXCEPT ![s] = Idle] /\ UNCHANGED <<table, sent, edits>>
    BY <1>4 DEF Close, Becomes
  <2>2. Idle.staged = {} /\ ~Runs(Idle)
    BY DEF Idle, Runs
  <2> QED
    BY <2>1, <2>2, IdleGood, MovesOn
<1> QED
  BY <1>2, <1>3, <1>4

\* A request that notices more rows stays good.
LEMMA NoticedGood ==
    ASSUME NEW r, Good(r), NEW rows \in SUBSET Rows, NEW q,
           q = [r EXCEPT !.seen = @ \cup rows]
    PROVE  Good(q) /\ q.seen = r.seen \cup rows /\ q.staged = r.staged /\ q.phase = r.phase
<1>1. q \in Records
  BY DEF Good, Records
<1>2. q.seen = r.seen \cup rows /\ q.staged = r.staged /\ q.phase = r.phase
  BY DEF Good, Records
<1>3. Phases(q) /\ Covered(q) /\ Whole(q)
  BY DEF Good, Records, Phases, Covered, Whole, Runs
<1> QED
  BY <1>1, <1>2, <1>3 DEF Good

\* Every request that runs notices the new rows of the table.
LEMMA NoticeStep ==
    ASSUME NEW requests \in [Slots -> Records], \A s \in Slots : Good(requests[s]),
           NEW rows \in SUBSET Rows, req' = Noticed(requests, rows),
           table' \in SUBSET Rows,
           \A s \in Slots : Runs(requests[s]) => table' \subseteq requests[s].seen \cup rows,
           \A s \in Slots : requests[s].staged \cap table' = {},
           \A s, t \in Slots : s # t => requests[s].staged \cap requests[t].staged = {},
           Counters'
    PROVE  IInv'
<1>1. ASSUME NEW s \in Slots
      PROVE  /\ Good(req'[s]) /\ req'[s].staged = requests[s].staged
             /\ Runs(req'[s]) => table' \subseteq req'[s].seen
  <2>1. CASE Runs(requests[s])
    <3>1. req'[s] = [requests[s] EXCEPT !.seen = @ \cup rows]
      BY <2>1 DEF Noticed, Runs
    <3>2. /\ Good(req'[s]) /\ req'[s].seen = requests[s].seen \cup rows
          /\ req'[s].staged = requests[s].staged
      BY <3>1, NoticedGood
    <3> QED
      BY <2>1, <3>2
  <2>2. CASE ~Runs(requests[s])
    <3>1. req'[s] = requests[s]
      BY <2>2 DEF Noticed, Runs
    <3> QED
      BY <2>2, <3>1
  <2> QED
    BY <2>1, <2>2
<1>2. req' \in [Slots -> Records]
  <2>1. req' = [s \in Slots |-> req'[s]]
    BY DEF Noticed
  <2> QED
    BY <1>1, <2>1 DEF Good
<1>3. Tables'
  BY <1>1 DEF Tables
<1> QED
  BY <1>1, <1>2, <1>3 DEF IInv

\* The rows of one transaction enter the table together, whatever its request
\* becomes.
LEMMA RowsEnter ==
    ASSUME IInv, NEW s \in Slots, Runs(req[s]), NEW r, Good(r), r.staged = {},
           r.seen = req[s].seen, table' = table \cup req[s].staged,
           req' = Noticed([req EXCEPT ![s] = r], req[s].staged), UNCHANGED <<sent, edits>>
    PROVE  IInv'
<1> DEFINE rows == req[s].staged
           requests == [req EXCEPT ![s] = r]
<1>1. rows \in SUBSET Rows
  BY DEF IInv, Records
<1>2. requests \in [Slots -> Records] /\ \A t \in Slots : Good(requests[t])
  BY DEF IInv, Good
<1>3. \A t \in Slots : requests[t] = IF t = s THEN r ELSE req[t]
  BY DEF IInv
<1>4. table' \in SUBSET Rows
  BY <1>1 DEF IInv, Tables
<1>5. Counters'
  BY DEF IInv, Counters
<1>6. table \subseteq r.seen
  BY DEF IInv, Tables
<1>7. \A t \in Slots : Runs(requests[t]) => table' \subseteq requests[t].seen \cup rows
  BY <1>3, <1>6 DEF IInv, Tables
<1>8. \A t \in Slots : requests[t].staged \cap table' = {}
  BY <1>3 DEF IInv, Tables
<1>9. \A t, u \in Slots : t # u => requests[t].staged \cap requests[u].staged = {}
  BY <1>3 DEF IInv, Tables
<1> HIDE DEF requests
<1> QED
  BY <1>1, <1>2, <1>4, <1>5, <1>7, <1>8, <1>9, NoticeStep DEF requests

\* A commit, acknowledged or not.
LEMMA CommitStep == ASSUME IInv, NEW s \in Slots, Commit(s) \/ CommitUnheard(s) PROVE IInv'
<1> DEFINE old == req[s]
<1>1. Good(old) /\ old \in Records /\ old.phase = "commit" /\ old.op = "import"
  BY DEF IInv, Good, Commit, CommitUnheard, Phases
<1>2. Runs(req[s])
  BY <1>1 DEF Runs
<1>3. CASE Commit(s)
  <2> DEFINE r == [old EXCEPT !.phase = "reply", !.staged = {}, !.added = old.staged]
  <2>1. /\ table' = table \cup req[s].staged /\ req' = Noticed([req EXCEPT ![s] = r], req[s].staged)
        /\ UNCHANGED <<sent, edits>>
    BY <1>3 DEF Commit
  <2> HIDE DEF old
  <2>2. r \in Records /\ r.staged = {} /\ r.seen = old.seen
    BY <1>1 DEF Records
  <2>3. Phases(r) /\ Covered(r) /\ Whole(r)
    BY <1>1 DEF Good, Records, Phases, Covered, Whole, Runs
  <2> HIDE DEF r
  <2> USE DEF old
  <2> QED
    BY <1>2, <2>1, <2>2, <2>3, RowsEnter DEF Good
<1>4. CASE CommitUnheard(s)
  <2> DEFINE r == [Respond(old, "error") EXCEPT !.staged = {}, !.added = old.staged]
  <2>1. /\ table' = table \cup req[s].staged /\ req' = Noticed([req EXCEPT ![s] = r], req[s].staged)
        /\ UNCHANGED <<sent, edits>>
    BY <1>4 DEF CommitUnheard
  <2> HIDE DEF old
  <2>2. r \in Records /\ r.staged = {} /\ r.seen = old.seen
    BY <1>1 DEF Records, Respond
  <2>3. Phases(r) /\ Covered(r) /\ Whole(r)
    BY <1>1 DEF Good, Records, Phases, Covered, Whole, Runs, Respond
  <2> HIDE DEF r
  <2> USE DEF old
  <2> QED
    BY <1>2, <2>1, <2>2, <2>3, RowsEnter DEF Good
<1> QED
  BY <1>3, <1>4

\* Another endpoint creates a row that no transaction holds, or deletes one.
LEMMA EditStep == ASSUME IInv, NEW row \in Rows, Edit(row) PROVE IInv'
<1>1. table' \in SUBSET Rows /\ req' = Noticed(req, table')
  BY DEF Edit, IInv, Tables
<1>2. \A s \in Slots : req[s].staged \cap table' = {}
  BY DEF Edit, Holders, IInv, Tables
<1>3. Counters'
  BY TransferAssumption DEF Edit, IInv, Counters
<1>4. \A s, t \in Slots : s # t => req[s].staged \cap req[t].staged = {}
  BY DEF IInv, Tables
<1> QED
  BY <1>1, <1>2, <1>3, <1>4, NoticeStep DEF IInv

\* One step per action.
LEMMA Invariance == IInv /\ [Next]_vars => IInv'
<1> SUFFICES ASSUME IInv, [Next]_vars PROVE IInv'
  OBVIOUS
<1>1. CASE UNCHANGED vars
  BY <1>1 DEF vars, IInv, Tables, Counters
<1>2. CASE \E s \in Slots :
            \/ Arrive(s, "export", <<>>)
            \/ \E op \in {"preview", "import"}, data \in Payloads : Arrive(s, op, data)
  BY <1>2, ArriveStep DEF Ops
<1>3. CASE \E s \in Slots : Step(s) \/ Broken(s) \/ CommitUnheard(s) \/ Timeout(s) \/ Close(s)
  BY <1>3, LoadStep, InsertStep, FailStep, AnswerStep, CommitStep DEF Step
<1>4. CASE \E row \in Rows : Edit(row)
  BY <1>4, EditStep
<1> QED
  BY <1>1, <1>2, <1>3, <1>4 DEF Next

----------------------------------------------------------------------------
(* Theorems                                                                *)

\* TypeOK holds in every state: the offset of a reader stays within the rows there
\* can be, the position in the data within its length, and no row is both in a
\* table and in an open transaction (the unique indexes).
THEOREM TypeCorrect == Spec => []TypeOK
<1>1. IInv => TypeOK
  <2> SUFFICES ASSUME IInv PROVE TypeOK
    OBVIOUS
  <2>1. ASSUME NEW s \in Slots PROVE req[s].item \in 1 .. Len(req[s].data) + 1
    <3>1. req[s] \in Records /\ Covered(req[s])
      BY DEF IInv, Good
    <3>2. Len(req[s].data) \in Nat
      BY <3>1, DataRows DEF Records
    <3> QED
      BY <3>1, <3>2 DEF Records, Covered
  <2>2. ASSUME NEW s \in Slots PROVE req[s] \in Records
    BY DEF IInv
  <2> QED
    BY <2>1, <2>2 DEF IInv, Tables, Counters, TypeOK, Records
<1> QED
  BY <1>1, InitHolds, Invariance, PTL DEF Spec

\* An import is all or nothing: a client told of success has every row of its data
\* committed by the import or known to have existed while it ran, and whatever a
\* client is told, the import has committed every row it found missing or none.
THEOREM ImportCorrect == Spec => []ImportWhole
<1>1. IInv => ImportWhole
  BY DEF IInv, Good, Whole, ImportWhole
<1> QED
  BY <1>1, InitHolds, Invariance, PTL DEF Spec
============================================================================
