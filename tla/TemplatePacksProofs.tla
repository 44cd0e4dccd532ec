------------------------ MODULE TemplatePacksProofs ------------------------
(***************************************************************************)
(* Safety of template packs for any contents, number of requests and       *)
(* workers, and for any limits on the assets.                              *)
(*                                                                         *)
(* None of the properties is inductive.  A transaction writes what it      *)
(* planned from a pack and links it loaded several steps before, so the    *)
(* invariant says of each one that was not overtaken that what it loaded   *)
(* is still there (Fresh); a pack on which one that was overtaken wrote is *)
(* in `lapped' and promises less.  Ids are never used again (RowsOK),      *)
(* which is why a link never comes to name the row of another pack.        *)
(***************************************************************************)
EXTENDS TemplatePacks, FiniteSetTheorems, TLAPS

----------------------------------------------------------------------------
(* The inductive invariant                                                 *)

\* The strings; the provers do not know that these two are among them.
Words == STRING \cup {None, "edited"}

Items == [kind : STRING, base : STRING, ok : BOOLEAN]
Assets == [path : STRING, form : {"text", "binary"}, size : Nat]
Texts == [path : STRING, size : Nat, chars : Nat]

PackRows ==
    [home : Nat, version : Words \ {None}, sha : Words, items : Seq(Items),
     assets : SUBSET Texts, uploaded : SUBSET Assets, installed : Words]

Links(p) == {l \in links : l.pack = p}

\* The stored texts of a pack are those of its assets, and an empty file is text.
Archived(row) ==
    /\ row.assets = {StoredText(a) : a \in row.uploaded}
    /\ \A a \in row.uploaded : a.form = "binary" => a.size > 0

\* One pack for each home.
PacksOK ==
    /\ packs \in Seq(PackRows \cup {Gone})
    /\ \A p \in DOMAIN packs :
          packs[p] # Gone => Archived(packs[p]) /\ packs[p].home \in {Local, registry}
    /\ \A p, q \in DOMAIN packs :
          p # q /\ packs[p] # Gone /\ packs[q] # Gone => packs[p].home # packs[q].home

\* Ids are used once, and a row names its pack as long as the pack is there.
RowsOK ==
    /\ \A r \in rows :
          /\ r \in [id : Nat, name : {r.name}, pack : Nat, by : Nat]
          /\ r.id <= made /\ r.by <= Len(packs)
          /\ r.pack = IF Live(r.by) THEN r.by ELSE 0
    /\ \A r, s \in rows : r # s => r.id # s.id /\ r.name # s.name
    /\ links \subseteq [pack : Nat, row : Nat]
    /\ \A l \in links : l.row <= made /\ Live(l.pack)

\* The fields of an open transaction.
TxType(t) ==
    t \in [step : {"idle", "links", "flush", "names", "write", "insert", "fetch", "upsert",
                   "touch"},
           op : {None, "install", "update", "uninstall", "delete", "patch", "create", "sync"},
           mode : {None, "fail", "rename"}, pack : Nat, home : Nat,
           saw : PackRows \cup {Gone}, content : Contents \cup {Gone},
           links : SUBSET [pack : {t.pack}, row : Nat], plan : {t.plan}, behind : BOOLEAN]

\* What its step says about it.
Phase(t) ==
    /\ t.step \in {"links", "flush", "names", "write"} => t.pack # 0 /\ t.saw # Gone
    /\ t.step \in {"insert", "upsert"} => t.content # Gone
    /\ t.step = "write" /\ t.op = "sync" => t.content # Gone
    /\ t.op = "sync" => t.home # 0
    /\ t.op = "install" => t.links = {} /\ t.saw.installed = None
    /\ t.step = "links" => t.op \in {"update", "uninstall", "delete"}
    /\ t.step \in {"flush", "names"} => t.op \in {"install", "update"}
    /\ t.step \in {"fetch", "upsert", "touch"} => t.op = "sync" /\ t.links = {}
    /\ IsFiniteSet(t.plan)

\* One that was not overtaken has loaded the pack as it is, but for its home, and
\* has read the links that are there.
Fresh(t) ==
    t.pack # 0 /\ ~t.behind =>
        /\ Live(t.pack) /\ t.saw # Gone
        /\ t.saw = [packs[t.pack] EXCEPT !.home = t.saw.home]
        /\ t.op \in {"update", "uninstall", "delete"} /\ t.step # "links" =>
              t.links = Links(t.pack)

\* Footprint and StoredWhole, of one pack.
FootprintOf(p) ==
    IF Live(p) THEN packs[p].installed # None <=> Links(p) # {}
    ELSE \A r \in rows : r.by # p

StoredOf(p) ==
    Live(p) /\ packs[p].sha # "edited" =>
        \E c \in Contents : /\ c.sha = packs[p].sha /\ c.items = packs[p].items
                            /\ c.assets = packs[p].uploaded

Histories == \A p \in DOMAIN packs \ lapped : FootprintOf(p) /\ StoredOf(p)

TxOK(t) == TxType(t) /\ Phase(t) /\ t.pack \in 0 .. Len(packs) /\ Fresh(t)

Transactions == tx = [w \in Workers |-> tx[w]] /\ \A w \in Workers : TxOK(tx[w])

Counters ==
    /\ registry \in Nat /\ registries \in Nat /\ registry <= registries
    /\ synced \subseteq {registry} \ {0}
    /\ made \in Nat /\ requests \in 0 .. MaxRequests

IInv ==
    /\ PacksOK /\ RowsOK /\ RowsTracked
    /\ Histories /\ Transactions /\ Counters

----------------------------------------------------------------------------
(* The operators                                                           *)

\* A deleted pack is told apart from every row.
LEMMA GoneIsNoRow == Gone \notin PackRows /\ Gone.home \notin Nat
<1>1. Gone.home = -1
  BY DEF Gone
<1> QED
  BY <1>1 DEF PackRows

\* ... and from every content.
LEMMA ContentIsThere == \A c \in Contents : c # Gone
<1>1. \A c \in Contents : DOMAIN c # DOMAIN Gone
  BY PacksAssumption DEF Gone
<1> QED
  BY <1>1

\* The UPDATE of the ORM, column by column.
LEMMA PutColumns ==
    ASSUME NEW now \in PackRows, NEW saw \in PackRows, NEW new \in PackRows
    PROVE  LET put == Put(now, saw, new) IN
           /\ put \in PackRows
           /\ put.home = IF new.home # saw.home THEN new.home ELSE now.home
           /\ put.version = IF new.version # saw.version THEN new.version ELSE now.version
           /\ put.sha = IF new.sha # saw.sha THEN new.sha ELSE now.sha
           /\ put.items = IF new.items # saw.items THEN new.items ELSE now.items
           /\ put.assets = IF new.assets # saw.assets THEN new.assets ELSE now.assets
           /\ put.uploaded = IF new.uploaded # saw.uploaded THEN new.uploaded ELSE now.uploaded
           /\ put.installed = IF new.installed # saw.installed THEN new.installed
                              ELSE now.installed
  BY DEF Put, PackRows

\* What an upload or a sync stores is a row that can be archived.
LEMMA RowOfContent ==
    ASSUME NEW c \in Contents, NEW home \in Nat
    PROVE  /\ Row(c, home) \in PackRows /\ Archived(Row(c, home))
           /\ Row(c, home).home = home /\ Row(c, home).installed = None
           /\ Row(c, home).version = c.version /\ Row(c, home).sha = c.sha
           /\ Row(c, home).items = c.items /\ Row(c, home).uploaded = c.assets
<1>1. /\ c \in [version : STRING \ {None}, sha : STRING, items : Seq(Items),
                assets : SUBSET Assets]
      /\ \A a \in c.assets : a.form = "binary" => a.size > 0
  BY PacksAssumption DEF None, Items, Assets
<1>2. ASSUME NEW a \in c.assets PROVE StoredText(a) \in Texts
  <2>1. a \in Assets /\ a.size \in Nat /\ a.path \in STRING
    BY <1>1 DEF Assets
  <2>2. 4 * ((a.size + 2) \div 3) \in Nat
    BY <2>1
  <2> QED
    BY <2>1, <2>2 DEF StoredText, Texts
<1>3. {StoredText(a) : a \in c.assets} \in SUBSET Texts
  BY <1>2
<1>4. Row(c, home) \in PackRows
  <2> DEFINE texts == {StoredText(a) : a \in c.assets}
  <2>1. texts \in SUBSET Texts
    BY <1>3
  <2>2. /\ c.version \in STRING \ {None} /\ c.sha \in STRING /\ c.items \in Seq(Items)
        /\ c.assets \in SUBSET Assets
    BY <1>1
  <2>3. Row(c, home) = [home |-> home, version |-> c.version, sha |-> c.sha, items |-> c.items,
                        assets |-> texts, uploaded |-> c.assets, installed |-> None]
    BY DEF Row
  <2> HIDE DEF texts
  <2> QED
    BY <2>1, <2>2, <2>3 DEF PackRows, Words
<1>5. Archived(Row(c, home))
  BY <1>1 DEF Row, Archived
<1> QED
  BY <1>4, <1>5 DEF Row

\* The archive recovers what was stored: base64 is longer than its bytes, unless
\* there are none.
LEMMA DecodesStored ==
    ASSUME NEW a \in Assets, a.form = "binary" => a.size > 0
    PROVE  DecodeStored(StoredText(a)) = a
<1>1. a.size \in Nat /\ a.form \in {"text", "binary"}
  BY DEF Assets
<1>2. a.size > 0 => 4 * ((a.size + 2) \div 3) # a.size
  BY <1>1
<1>3. DecodeStored(StoredText(a)) =
         [path |-> a.path, size |-> a.size, form |-> a.form]
  BY <1>1, <1>2 DEF DecodeStored, StoredText
<1>4. a = [path |-> a.path, form |-> a.form, size |-> a.size]
  BY DEF Assets
<1> QED
  BY <1>3, <1>4

\* A plan has finitely many names.
LEMMA ValidFinite ==
    ASSUME NEW items \in Seq(Items), NEW plan
    PROVE  IsFiniteSet(Valid(items, plan))
<1> DEFINE D == {i \in DOMAIN items : items[i].ok}
           f == [k \in D |-> plan[k]]
<1>1. IsFiniteSet(1 .. Len(items)) /\ D \in SUBSET (1 .. Len(items))
  BY FS_Interval
<1>2. IsFiniteSet(D)
  BY <1>1, FS_Subset
<1>3. f \in Surjection(D, Valid(items, plan))
  BY DEF Surjection, Valid
<1> QED
  BY <1>2, <1>3, FS_Surjection

\* Distinct numbers can be drawn for finitely many names.
LEMMA IdsExist ==
    ASSUME NEW names, IsFiniteSet(names), NEW last \in Nat
    PROVE  \E f \in [names -> last + 1 .. last + Cardinality(names)] :
               \A a, b \in names : a # b => f[a] # f[b]
<1> DEFINE n == Cardinality(names)
<1>1. n \in Nat /\ ExistsBijection(1 .. n, names)
  BY FS_CardinalityType
<1> HIDE DEF n
<1>2. PICK g \in [1 .. n -> names] :
         /\ \A i, j \in 1 .. n : i # j => g[i] # g[j]
         /\ \A a \in names : \E i \in 1 .. n : g[i] = a
  BY <1>1 DEF ExistsBijection, Bijection, Injection, Surjection, IsInjective
<1> DEFINE of(a) == CHOOSE i \in 1 .. n : g[i] = a
           f == [a \in names |-> last + of(a)]
<1>3. \A a \in names : of(a) \in 1 .. n /\ g[of(a)] = a
  BY <1>2
<1> HIDE DEF of
<1>4. \A a \in names : f[a] \in last + 1 .. last + n
  BY <1>1, <1>3
<1>5. \A a, b \in names : a # b => f[a] # f[b]
  BY <1>1, <1>3
<1> QED
  BY <1>4, <1>5 DEF n

IsNewRow(r, p) == r \in [id : Nat, name : {r.name}, pack : {p}, by : {p}]

\* The rows of an installation: one for each name, with ids of their own.
Shape(new, names, last, p) ==
    /\ \A r \in new : /\ IsNewRow(r, p) /\ r.name \in names
                      /\ r.id > last /\ r.id <= last + Cardinality(names)
    /\ \A r, s \in new : r # s => r.id # s.id /\ r.name # s.name
    /\ names # {} <=> new # {}
    /\ IsFiniteSet(new) /\ Cardinality(new) = Cardinality(names)

\* The rows that an installation adds.
LEMMA NewRowsShape ==
    ASSUME NEW names, IsFiniteSet(names), NEW last, last \in Nat, NEW p, p \in Nat
    PROVE  Shape(NewRows(names, last, p), names, last, p)
<1>0. PICK new : new = NewRows(names, last, p)
  OBVIOUS
<1>1. Cardinality(names) \in Nat
  BY FS_CardinalityType
<1> DEFINE T == [names -> last + 1 .. last + Cardinality(names)]
           f == CHOOSE h \in T : \A a, b \in names : a # b => h[a] # h[b]
<1>2. /\ f \in [names -> last + 1 .. last + Cardinality(names)]
      /\ \A a, b \in names : a # b => f[a] # f[b]
      /\ new = {[id |-> f[n], name |-> n, pack |-> p, by |-> p] : n \in names}
  <2>1. \E h \in T : \A a, b \in names : a # b => h[a] # h[b]
    BY IdsExist
  <2>2. f \in T /\ \A a, b \in names : a # b => f[a] # f[b]
    BY <2>1
  <2>3. new = {[id |-> f[n], name |-> n, pack |-> p, by |-> p] : n \in names}
    BY <1>0 DEF NewRows
  <2> QED
    BY <2>2, <2>3
<1> HIDE DEF f
<1>3. \A r \in new : \E n \in names : r = [id |-> f[n], name |-> n, pack |-> p, by |-> p]
  BY <1>2
<1>4. \A n \in names : f[n] \in Nat /\ f[n] > last /\ f[n] <= last + Cardinality(names)
  BY <1>1, <1>2
<1>5. \A r \in new : /\ IsNewRow(r, p)
                     /\ r.id > last /\ r.id <= last + Cardinality(names)
                     /\ r.name \in names
  BY <1>3, <1>4 DEF IsNewRow
<1>6. \A r, s \in new : r # s => r.id # s.id /\ r.name # s.name
  BY <1>2, <1>3
<1> DEFINE g == [n \in names |-> [id |-> f[n], name |-> n, pack |-> p, by |-> p]]
<1>7. g \in Bijection(names, new)
  <2>1. g \in [names -> new] /\ \A r \in new : \E n \in names : g[n] = r
    BY <1>2
  <2>2. \A a, b \in names : g[a] = g[b] => a = b
    OBVIOUS
  <2> QED
    BY <2>1, <2>2 DEF Bijection, Injection, Surjection, IsInjective
<1>8. IsFiniteSet(new) /\ Cardinality(new) = Cardinality(names)
  BY <1>7, FS_Bijection DEF ExistsBijection
<1>9. names # {} <=> new # {}
  BY <1>2
<1> QED
  BY <1>0, <1>5, <1>6, <1>8, <1>9 DEF Shape

\* Histories is the two properties, pack by pack.
LEMMA HistoriesMean == Histories <=> Footprint /\ StoredWhole
<1>1. \A p : Links(p) # {} <=> \E l \in links : l.pack = p
  BY DEF Links
<1> QED
  BY <1>1 DEF Histories, FootprintOf, StoredOf, Footprint, StoredWhole

----------------------------------------------------------------------------
(* Initial states                                                          *)

\* A worker without a transaction.
LEMMA IdleOK == PacksOK => TxOK(Idle)
<1> SUFFICES ASSUME PacksOK PROVE TxOK(Idle)
  OBVIOUS
<1>1. TxType(Idle)
  BY DEF TxType, Idle, None
<1>2. Phase(Idle) /\ Fresh(Idle) /\ Idle.pack \in 0 .. Len(packs)
  BY FS_EmptySet DEF Phase, Fresh, Idle, PacksOK, None
<1> QED
  BY <1>1, <1>2 DEF TxOK

\* Nothing is stored and no request was made.
LEMMA InitHolds == Init => IInv
<1> SUFFICES ASSUME Init PROVE IInv
  OBVIOUS
<1>1. Counters /\ lapped = {} /\ registry = 1
      /\ tx = [w \in Workers |-> Idle] /\ made \in Nat
  <2>1. made \in Nat
    <3>1. CASE made = 0
      BY <3>1
    <3>2. ASSUME NEW c \in Contents, NEW names, names = Valid(c.items, Planned(c.items, {})),
                 rows = NewRows(names, 0, 1), made = Cardinality(rows)
          PROVE  made \in Nat
      <4>1. IsFiniteSet(names)
        BY <3>2, PacksAssumption, ValidFinite DEF Items
      <4>2. IsFiniteSet(rows)
        <5>1. Shape(NewRows(names, 0, 1), names, 0, 1)
          BY <4>1, NewRowsShape
        <5> QED
          BY <3>2, <5>1 DEF Shape
      <4> QED
        BY <3>2, <4>2, FS_CardinalityType
    <3> QED
      BY <3>1, <3>2 DEF Init
  <2> QED
    BY <2>1, PacksAssumption DEF Init, Counters
<1>2. CASE packs = <<>> /\ rows = {} /\ links = {} /\ made = 0
  <2>1. PacksOK /\ RowsOK /\ RowsTracked /\ Footprint /\ StoredWhole
    BY <1>2 DEF PacksOK, RowsOK, RowsTracked, Footprint, StoredWhole
  <2>2. Transactions
    BY <1>1, <2>1, IdleOK DEF Transactions
  <2> QED
    BY <1>1, <2>1, <2>2, HistoriesMean DEF IInv
<1>3. ASSUME NEW c \in Contents, NEW row \in PackRows, packs = <<row>>,
             Archived(row), row.home = Local, row.sha = c.sha, row.items = c.items,
             row.uploaded = c.assets
      PROVE  PacksOK /\ StoredWhole /\ Transactions /\ DOMAIN packs = {1} /\ packs[1] = row
             /\ Live(1) /\ Len(packs) = 1
  <2>1. DOMAIN packs = {1} /\ packs[1] = row /\ row # Gone /\ Len(packs) = 1
    BY <1>3, GoneIsNoRow
  <2>2. PacksOK
    BY <1>3, <2>1 DEF PacksOK
  <2>3. StoredWhole
    BY <1>3, <2>1 DEF StoredWhole
  <2>4. Transactions
    BY <1>1, <2>2, IdleOK DEF Transactions
  <2> QED
    BY <2>1, <2>2, <2>3, <2>4 DEF Live
<1>4. ASSUME NEW c \in Contents, packs = <<Row(c, Local)>>, rows = {}, links = {}, made = 0
      PROVE  IInv
  <2>1. PacksOK /\ StoredWhole /\ Transactions /\ DOMAIN packs = {1}
        /\ packs[1] = Row(c, Local) /\ Live(1)
    BY <1>3, <1>4, RowOfContent DEF Local
  <2>2. RowsOK /\ RowsTracked
    BY <1>4 DEF RowsOK, RowsTracked
  <2>3. Footprint
    BY <1>4, <2>1, RowOfContent DEF Footprint, Local
  <2> QED
    BY <1>1, <2>1, <2>2, <2>3, HistoriesMean DEF IInv
<1>5. ASSUME NEW c \in Contents, NEW names, names = Valid(c.items, Planned(c.items, {})),
             names # {}, packs = <<[Row(c, Local) EXCEPT !.installed = c.version]>>,
             rows = NewRows(names, 0, 1), links = {[pack |-> 1, row |-> r.id] : r \in rows},
             made = Cardinality(rows)
      PROVE  IInv
  <2> DEFINE row == [Row(c, Local) EXCEPT !.installed = c.version]
  <2>1. Row(c, Local) \in PackRows /\ c.version \in STRING \ {None} /\ c.items \in Seq(Items)
    BY RowOfContent, PacksAssumption DEF Local, Items, None
  <2>2. row \in PackRows /\ row.installed = c.version
    BY <2>1 DEF PackRows, Words
  <2>3. /\ Archived(row) /\ row.home = Local /\ row.sha = c.sha /\ row.items = c.items
        /\ row.uploaded = c.assets
    BY <2>1, RowOfContent DEF PackRows, Archived, Local
  <2> HIDE DEF row
  <2>4. PacksOK /\ StoredWhole /\ Transactions /\ DOMAIN packs = {1} /\ packs[1] = row /\ Live(1)
        /\ Len(packs) = 1
    BY <1>3, <1>5, <2>2, <2>3 DEF row
  <2>5. IsFiniteSet(names)
    BY <1>5, <2>1, ValidFinite
  <2>6. /\ \A r \in rows : /\ IsNewRow(r, 1)
                           /\ r.id <= 0 + Cardinality(names)
        /\ \A r, s \in rows : r # s => r.id # s.id /\ r.name # s.name
        /\ rows # {} /\ Cardinality(rows) = Cardinality(names)
    <3>1. Shape(NewRows(names, 0, 1), names, 0, 1)
      BY <2>5, NewRowsShape
    <3> QED
      BY <1>5, <3>1 DEF Shape
  <2>7. RowsOK
    <3>1. ASSUME NEW r \in rows
          PROVE  /\ r \in [id : Nat, name : {r.name}, pack : Nat, by : Nat]
                 /\ r.id <= made /\ r.by = 1 /\ r.pack = 1
      BY <1>1, <1>5, <2>6 DEF IsNewRow
    <3>2. ASSUME NEW l \in links
          PROVE  l \in [pack : Nat, row : Nat] /\ l.row <= made /\ l.pack = 1
      BY <1>5, <3>1
    <3> QED
      BY <2>4, <2>6, <3>1, <3>2 DEF RowsOK
  <2>8. RowsTracked
    BY <1>5, <2>6 DEF RowsTracked, IsNewRow
  <2>9. Footprint
    <3>1. \E l \in links : l.pack = 1
      <4>1. PICK r \in rows : TRUE
        BY <2>6
      <4>2. [pack |-> 1, row |-> r.id] \in links
        BY <1>5, <4>1
      <4> QED
        BY <4>2
    <3> QED
      BY <2>1, <2>2, <2>4, <3>1 DEF Footprint
  <2> QED
    BY <1>1, <2>4, <2>7, <2>8, <2>9, HistoriesMean DEF IInv
<1> QED
  BY <1>2, <1>4, <1>5 DEF Init

----------------------------------------------------------------------------
(* Steps                                                                   *)

\* A step of one transaction that other requests do not see.
LEMMA OneTx ==
    ASSUME IInv, NEW w \in Workers, NEW t, TxOK(t), tx' = [tx EXCEPT ![w] = t],
           UNCHANGED <<tables, lapped>>, requests' \in 0 .. MaxRequests
    PROVE  IInv'
<1>1. UNCHANGED <<registry, registries, synced, packs, rows, links, made, lapped>>
  BY DEF tables
<1>2. PacksOK' /\ RowsOK' /\ RowsTracked' /\ Histories'
  BY <1>1 DEF IInv, PacksOK, RowsOK, RowsTracked, Histories, FootprintOf, StoredOf, Live, Links
<1>3. Counters'
  BY <1>1 DEF IInv, Counters
<1>4. tx' = [v \in Workers |-> tx'[v]] /\ \A v \in Workers : tx'[v] = IF v = w THEN t ELSE tx[v]
  BY DEF IInv, Transactions
<1>5. ASSUME NEW v \in Workers PROVE TxOK(tx[v])' 
  <2>1. TxOK(tx'[v])
    BY <1>4 DEF IInv, Transactions
  <2> QED
    BY <1>1, <2>1 DEF TxOK, Fresh, Live, Links, TxType, Phase
<1> QED
  BY <1>2, <1>3, <1>4, <1>5 DEF IInv, Transactions

\* The end of a transaction, in a sync too.
LEMMA AfterOK == ASSUME IInv, NEW w \in Workers PROVE TxOK(After(w)) /\ After(w).pack = 0
<1>1. PacksOK /\ TxOK(tx[w])
  BY DEF IInv, Transactions
<1>2. CASE tx[w].op # "sync"
  <2>1. After(w) = Idle
    BY <1>2 DEF After
  <2> QED
    BY <1>1, <2>1, IdleOK DEF Idle
<1>3. CASE tx[w].op = "sync"
  <2>1. After(w) = [Idle EXCEPT !.op = "sync", !.home = tx[w].home, !.step = "touch"]
    BY <1>3 DEF After
  <2>2. tx[w].home \in Nat /\ tx[w].home # 0
    BY <1>1, <1>3 DEF TxOK, TxType, Phase
  <2>3. TxType(After(w)) /\ After(w).pack = 0
    <3> DEFINE home == tx[w].home
    <3>1. After(w) = [step |-> "touch", op |-> "sync", mode |-> None, pack |-> 0, home |-> home,
                      saw |-> Gone, content |-> Gone, links |-> {}, plan |-> {},
                      behind |-> FALSE]
      BY <2>1 DEF Idle
    <3> HIDE DEF home
    <3> QED
      BY <2>2, <3>1 DEF TxType, home
  <2>4. Phase(After(w)) /\ Fresh(After(w))
    BY <2>1, <2>2, FS_EmptySet DEF Phase, Fresh, Idle
  <2> QED
    BY <1>1, <2>3, <2>4 DEF TxOK, PacksOK
<1> QED
  BY <1>2, <1>3

\* A rollback leaves the tables alone.
LEMMA RollBackStep == ASSUME IInv, NEW w \in Workers, RollBack(w) PROVE IInv'
<1>1. requests' \in 0 .. MaxRequests
  BY DEF RollBack, IInv, Counters
<1> QED
  BY <1>1, AfterOK, OneTx DEF RollBack

\* A request that only counts.
LEMMA CountOnly ==
    ASSUME IInv, Count, UNCHANGED <<tables, tx, lapped>>
    PROVE  IInv'
<1>1. UNCHANGED <<registry, registries, synced, packs, rows, links, made, lapped, tx>>
  BY DEF tables
<1>2. PacksOK' /\ RowsOK' /\ RowsTracked' /\ Histories' /\ Transactions'
  BY <1>1 DEF IInv, PacksOK, RowsOK, RowsTracked, Histories, FootprintOf, StoredOf, Live,
              Transactions, TxOK, TxType, Phase, Fresh, Links
<1>3. Counters'
  BY <1>1, PacksAssumption DEF IInv, Counters, Count
<1> QED
  BY <1>2, <1>3 DEF IInv

\* The bound on the requests.
LEMMA CountType == ASSUME IInv, Count PROVE requests' \in 0 .. MaxRequests
  BY PacksAssumption DEF IInv, Counters, Count

\* A pack that is there is a row.
LEMMA LiveRow ==
    ASSUME PacksOK, NEW p, Live(p)
    PROVE  /\ packs[p] \in PackRows /\ Archived(packs[p]) /\ packs[p].home \in {Local, registry}
           /\ p \in 1 .. Len(packs) /\ p \in Nat \ {0} /\ packs[p] # Gone
<1>1. p \in 1 .. Len(packs) /\ Len(packs) \in Nat /\ packs[p] \in PackRows \cup {Gone}
  BY DEF PacksOK, Live
<1> QED
  BY <1>1 DEF PacksOK, Live

\* The first step of a request: the transaction has what it loaded.
LEMMA LoadStep ==
    ASSUME IInv, NEW w \in Workers, NEW p, NEW mode \in {None, "fail", "rename"},
           NEW op \in {"install", "update", "uninstall", "delete", "patch"},
           Load(w, op, mode, p)
    PROVE  IInv'
<1>1. CASE tx' = tx
  BY <1>1, CountOnly DEF Load
<1>2. CASE tx' # tx
  <2> DEFINE first == CASE op = "install" -> "names" [] op = "patch" -> "write"
                        [] OTHER -> "links"
             t == [Idle EXCEPT !.step = first, !.op = op, !.mode = mode, !.pack = p,
                               !.saw = packs[p]]
  <2>1. /\ Live(p) /\ (op = "install" => packs[p].installed = None)
        /\ tx' = [tx EXCEPT ![w] = t] /\ UNCHANGED <<tables, lapped>> /\ Count
    BY <1>2 DEF Load
  <2>2. packs[p] \in PackRows /\ p \in 1 .. Len(packs) /\ p \in Nat \ {0} /\ packs[p] # Gone
    BY <2>1, LiveRow DEF IInv
  <2>3. /\ first \in {"links", "names", "write"}
        /\ first = "links" <=> op \in {"update", "uninstall", "delete"}
        /\ first = "names" => op = "install"
    OBVIOUS
  <2> HIDE DEF first
  <2>4. /\ t.step = first /\ t.op = op /\ t.mode = mode /\ t.pack = p /\ t.home = 0
        /\ t.saw = packs[p] /\ t.content = Gone /\ t.links = {} /\ t.plan = {}
        /\ t.behind = FALSE
    BY DEF Idle
  <2>5. TxType(t)
    BY <2>2, <2>3 DEF TxType, Idle
  <2> HIDE DEF t
  <2>6. Phase(t)
    BY <2>1, <2>2, <2>3, <2>4, FS_EmptySet DEF Phase, None
  <2>7. Fresh(t)
    <3>1. packs[p] = [packs[p] EXCEPT !.home = packs[p].home]
      BY <2>2 DEF PackRows
    <3> QED
      BY <2>1, <2>2, <2>3, <2>4, <3>1 DEF Fresh
  <2>8. t.pack \in 0 .. Len(packs)
    BY <2>2, <2>4
  <2> QED
    BY <2>1, <2>5, <2>6, <2>7, <2>8, CountType, OneTx DEF TxOK
<1> QED
  BY <1>1, <1>2

\* _uninstall_in_session reads the links of the pack.
LEMMA ReadLinksStep == ASSUME IInv, NEW w \in Workers, ReadLinks(w) PROVE IInv'
<1> DEFINE old == tx[w]
           t == [old EXCEPT !.links = Links(old.pack),
                            !.step = IF old.op = "update" THEN "flush" ELSE "write"]
<1>1. TxOK(old) /\ old.step = "links" /\ TxType(old)
  BY DEF IInv, Transactions, ReadLinks, TxOK
<1>2. tx' = [tx EXCEPT ![w] = t] /\ UNCHANGED <<tables, lapped, requests>>
  BY DEF ReadLinks, Links, IInv, Transactions
<1>3. Links(old.pack) \in SUBSET [pack : {old.pack}, row : Nat]
  BY DEF Links, IInv, RowsOK
<1>4. old.op \in {"update", "uninstall", "delete"}
  BY <1>1 DEF TxOK, Phase
<1> HIDE DEF old
<1> DEFINE step == IF old.op = "update" THEN "flush" ELSE "write"
<1>5. step \in {"flush", "write"} /\ (step = "flush" => old.op = "update")
  OBVIOUS
<1>6. t = [old EXCEPT !.links = Links(old.pack), !.step = step]
  OBVIOUS
<1> HIDE DEF step, t
<1>7. TxType(t) /\ t.pack = old.pack
  BY <1>1, <1>3, <1>5, <1>6 DEF TxType
<1>8. Phase(t)
  BY <1>1, <1>4, <1>5, <1>6 DEF TxOK, TxType, Phase
<1>9. Fresh(t)
  BY <1>1, <1>5, <1>6 DEF TxOK, TxType, Fresh
<1>10. requests' \in 0 .. MaxRequests
  BY <1>2 DEF IInv, Counters
<1> QED
  BY <1>1, <1>2, <1>7, <1>8, <1>9, <1>10, OneTx DEF TxOK

\* The later statements of a transaction that has read its links, or needs none.
LEMMA GoesOn ==
    ASSUME IInv, NEW w \in Workers, tx[w].step \in {"flush", "names"},
           NEW plan, IsFiniteSet(plan), NEW step \in {"names", "write"},
           tx' = [tx EXCEPT ![w] = [tx[w] EXCEPT !.plan = plan, !.step = step]],
           UNCHANGED <<tables, lapped, requests>>
    PROVE  IInv'
<1> DEFINE old == tx[w]
           t == [old EXCEPT !.plan = plan, !.step = step]
<1>1. TxOK(old) /\ TxType(old) /\ old.step \in {"flush", "names"}
  BY DEF IInv, Transactions, TxOK
<1> HIDE DEF old
<1>2. TxType(t) /\ t.pack = old.pack
  BY <1>1 DEF TxType
<1>3. Phase(t)
  BY <1>1 DEF TxOK, TxType, Phase
<1>4. Fresh(t)
  BY <1>1 DEF TxOK, TxType, Fresh
<1>5. requests' \in 0 .. MaxRequests
  BY DEF IInv, Counters
<1>6. TxOK(t) /\ tx' = [tx EXCEPT ![w] = t]
  BY <1>1, <1>2, <1>3, <1>4 DEF TxOK, old
<1> HIDE DEF t
<1> QED
  BY <1>5, <1>6, OneTx

\* The flush of an update deletes rows and links together.
LEMMA FlushStep == ASSUME IInv, NEW w \in Workers, FlushUninstall(w) PROVE IInv'
<1>1. CASE RollBack(w)
  BY <1>1, RollBackStep
<1>2. CASE ~RollBack(w)
  <2> DEFINE old == tx[w]
             step == IF old.saw.items = <<>> THEN "write" ELSE "names"
  <2>1. old.step = "flush" /\ UNCHANGED <<tables, lapped, requests>>
        /\ tx' = [tx EXCEPT ![w] = [old EXCEPT !.step = step]]
    BY <1>2 DEF FlushUninstall, IInv, Transactions
  <2>2. TxType(old) /\ IsFiniteSet(old.plan)
    BY DEF IInv, Transactions, TxOK, Phase
  <2>3. step \in {"names", "write"}
    OBVIOUS
  <2> HIDE DEF old, step
  <2>4. [old EXCEPT !.step = step] = [old EXCEPT !.plan = old.plan, !.step = step]
    BY <2>2 DEF TxType
  <2> USE DEF old
  <2> QED
    BY <2>1, <2>2, <2>3, <2>4, GoesOn
<1> QED
  BY <1>1, <1>2

\* Reading the names changes nothing.
LEMMA ReadNamesStep == ASSUME IInv, NEW w \in Workers, ReadNames(w) PROVE IInv'
<1> DEFINE old == tx[w]
           plan == Valid(old.saw.items, Planned(old.saw.items, Names(w)))
<1>1. TxType(old) /\ Phase(old) /\ old.step = "names"
  BY DEF IInv, Transactions, TxOK, ReadNames
<1>2. old.saw \in PackRows
  BY <1>1 DEF TxType, Phase
<1>3. IsFiniteSet(plan)
  BY <1>2, ValidFinite DEF PackRows
<1>4. tx' = [tx EXCEPT ![w] = [old EXCEPT !.plan = plan, !.step = "write"]]
      /\ UNCHANGED <<tables, lapped, requests>>
  BY DEF ReadNames, IInv, Transactions
<1> HIDE DEF plan
<1> QED
  BY <1>1, <1>3, <1>4, GoesOn

\* create_pack and sync_registry begin.
LEMMA BeginStep ==
    ASSUME IInv, NEW w \in Workers,
           BeginSync(w) \/ \E home \in {Local, registry}, c \in Contents : CheckDuplicate(w, home, c)
    PROVE  IInv'
<1>1. PacksOK /\ Len(packs) \in Nat /\ registry \in Nat
  BY DEF IInv, PacksOK, Counters
<1>2. CASE BeginSync(w)
  <2> DEFINE t == [Idle EXCEPT !.step = "fetch", !.op = "sync", !.home = registry]
  <2>1. tx' = [tx EXCEPT ![w] = t] /\ Count /\ UNCHANGED <<tables, lapped>> /\ registry # 0
    BY <1>2 DEF BeginSync
  <2>2. TxType(t)
    BY <1>1 DEF TxType, Idle
  <2>3. Phase(t) /\ Fresh(t) /\ t.pack \in 0 .. Len(packs)
    BY <1>1, <2>1, FS_EmptySet DEF Phase, Fresh, Idle
  <2> HIDE DEF t
  <2> QED
    BY <2>1, <2>2, <2>3, CountType, OneTx DEF TxOK
<1>3. ASSUME NEW home \in {Local, registry}, NEW c \in Contents, CheckDuplicate(w, home, c)
      PROVE  IInv'
  <2>1. CASE tx' = tx
    BY <1>3, <2>1, CountOnly DEF CheckDuplicate
  <2>2. CASE tx' # tx
    <3> DEFINE t == [Idle EXCEPT !.step = "insert", !.op = "create", !.home = home,
                                 !.content = c]
    <3>1. tx' = [tx EXCEPT ![w] = t] /\ Count /\ UNCHANGED <<tables, lapped>>
      BY <1>3, <2>2 DEF CheckDuplicate
    <3>2. home \in Nat /\ c # Gone
      BY <1>1, ContentIsThere DEF Local
    <3>3. TxType(t)
      BY <3>2 DEF TxType, Idle
    <3>4. Phase(t) /\ Fresh(t) /\ t.pack \in 0 .. Len(packs)
      BY <1>1, <3>2, FS_EmptySet DEF Phase, Fresh, Idle
    <3> HIDE DEF t
    <3> QED
      BY <3>1, <3>3, <3>4, CountType, OneTx DEF TxOK
  <2> QED
    BY <2>1, <2>2
<1> QED
  BY <1>2, <1>3

\* fetch_packs, with what it finds or without.
LEMMA FetchStep ==
    ASSUME IInv, NEW w \in Workers, Fetch(w) \/ FetchFails(w) \/ FetchNothing(w)
    PROVE  IInv'
<1>1. UNCHANGED <<tables, lapped, requests>> /\ requests' \in 0 .. MaxRequests
  BY DEF Fetch, FetchFails, FetchNothing, IInv, Counters
<1>2. CASE tx' = [tx EXCEPT ![w] = After(w)]
  BY <1>1, <1>2, AfterOK, OneTx
<1>3. CASE tx' = [tx EXCEPT ![w] = Idle]
  BY <1>1, <1>3, IdleOK, OneTx DEF IInv
<1>4. ASSUME NEW c \in Contents, tx[w].step = "fetch",
             tx' = [tx EXCEPT ![w] = [tx[w] EXCEPT !.content = c, !.step = "upsert"]]
      PROVE  IInv'
  <2> DEFINE old == tx[w]
             t == [old EXCEPT !.content = c, !.step = "upsert"]
  <2>1. TxOK(old) /\ TxType(old) /\ old.step = "fetch"
    BY <1>4 DEF IInv, Transactions, TxOK
  <2> HIDE DEF old
  <2>2. c # Gone
    BY ContentIsThere
  <2>3. TxType(t) /\ t.pack = old.pack
    BY <2>1 DEF TxType
  <2>4. Phase(t)
    BY <2>1, <2>2 DEF TxOK, TxType, Phase
  <2>5. Fresh(t)
    BY <2>1 DEF TxOK, TxType, Fresh
  <2>6. TxOK(t) /\ tx' = [tx EXCEPT ![w] = t]
    BY <1>4, <2>1, <2>3, <2>4, <2>5 DEF TxOK, old
  <2> HIDE DEF t
  <2> QED
    BY <1>1, <2>6, OneTx
<1> QED
  BY <1>2, <1>3, <1>4 DEF Fetch, FetchFails, FetchNothing, Close, IInv, Transactions

\* upsert_synced_pack looks for the pack of its registry.
LEMMA FindSyncedStep == ASSUME IInv, NEW w \in Workers, FindSynced(w) PROVE IInv'
<1> DEFINE old == tx[w]
           found == InHome(old.home)
           p == CHOOSE q \in found : TRUE
<1>1. TxOK(old) /\ TxType(old) /\ old.step = "upsert"
      /\ UNCHANGED <<tables, lapped, requests>> /\ requests' \in 0 .. MaxRequests
  BY DEF IInv, Transactions, TxOK, FindSynced, Counters
<1>2. \/ tx' = [tx EXCEPT ![w] = After(w)]
      \/ tx' = [tx EXCEPT ![w] = [old EXCEPT !.step = "insert"]]
      \/ found # {} /\ tx' = [tx EXCEPT ![w] =
                                [old EXCEPT !.step = "write", !.pack = p, !.saw = packs[p]]]
  BY DEF FindSynced, IInv, Transactions
<1>3. CASE tx' = [tx EXCEPT ![w] = After(w)]
  BY <1>1, <1>3, AfterOK, OneTx
<1>4. CASE tx' = [tx EXCEPT ![w] = [old EXCEPT !.step = "insert"]]
  <2> DEFINE t == [old EXCEPT !.step = "insert"]
  <2> HIDE DEF old
  <2>1. TxType(t) /\ t.pack = old.pack
    BY <1>1 DEF TxType
  <2>2. Phase(t) /\ Fresh(t)
    BY <1>1 DEF TxOK, TxType, Phase, Fresh
  <2>3. TxOK(t)
    BY <1>1, <2>1, <2>2 DEF TxOK
  <2> HIDE DEF t
  <2> QED
    BY <1>1, <1>4, <2>3, OneTx DEF t
<1>5. CASE found # {} /\ tx' = [tx EXCEPT ![w] =
                          [old EXCEPT !.step = "write", !.pack = p, !.saw = packs[p]]]
  <2> DEFINE t == [old EXCEPT !.step = "write", !.pack = p, !.saw = packs[p]]
  <2>1. p \in DOMAIN packs /\ packs[p].home = old.home /\ old.home \in Nat
    <3>1. p \in found
      BY <1>5
    <3> QED
      BY <1>1, <3>1 DEF InHome, TxType
  <2>2. Live(p)
    BY <2>1, GoneIsNoRow DEF Live
  <2>3. packs[p] \in PackRows /\ p \in 1 .. Len(packs) /\ p \in Nat \ {0} /\ packs[p] # Gone
    BY <2>2, LiveRow DEF IInv
  <2>4. packs[p] = [packs[p] EXCEPT !.home = packs[p].home]
    BY <2>3 DEF PackRows
  <2>5. old.links = {} /\ old.op = "sync" /\ old.content # Gone
    BY <1>1 DEF TxOK, Phase
  <2> HIDE DEF p, old, found
  <2>6. TxType(t) /\ t.pack = p
    BY <1>1, <2>3, <2>5 DEF TxType
  <2>7. Phase(t)
    BY <1>1, <2>3, <2>5 DEF TxOK, TxType, Phase
  <2>8. Fresh(t)
    BY <1>1, <2>2, <2>3, <2>4, <2>5 DEF TxOK, TxType, Fresh
  <2>9. TxOK(t)
    BY <2>3, <2>6, <2>7, <2>8 DEF TxOK
  <2> HIDE DEF t
  <2> QED
    BY <1>1, <1>5, <2>9, OneTx DEF t
<1> QED
  BY <1>2, <1>3, <1>4, <1>5

----------------------------------------------------------------------------
(* Writes                                                                  *)

\* Only links of p change.
OtherLinksKept(p) == \A l : l.pack # p => (l \in links' <=> l \in links)

\* The others keep what they know of other packs, and are overtaken on this one.
LEMMA OthersBehind ==
    ASSUME IInv, NEW w \in Workers, NEW p \in DOMAIN packs, NEW q,
           tx[w].pack = p, Committed(w, p), packs' = [packs EXCEPT ![p] = q],
           OtherLinksKept(p), PacksOK'
    PROVE  Transactions'
<1>1. Len(packs') = Len(packs) /\ DOMAIN packs' = DOMAIN packs /\ p \in Nat \ {0}
      /\ Len(packs) \in Nat
  BY DEF IInv, PacksOK
<1>2. \A i \in DOMAIN packs : i # p => packs'[i] = packs[i]
  BY DEF IInv, PacksOK
<1>3. tx' = [v \in Workers |-> tx'[v]]
  BY DEF Committed
<1>4. ASSUME NEW t, TxOK(t), t.pack # p PROVE t.pack \in 0 .. Len(packs') /\ (Fresh(t))'
  <2>1. Live(t.pack) => Live(t.pack)' /\ packs'[t.pack] = packs[t.pack]
    BY <1>1, <1>2, <1>4 DEF Live
  <2>2. Links(t.pack)' = Links(t.pack)
    BY <1>4 DEF Links, OtherLinksKept
  <2> QED
    BY <1>1, <1>4, <2>1, <2>2 DEF TxOK, Fresh
<1>5. ASSUME NEW v \in Workers PROVE TxOK(tx[v])'
  <2>1. TxOK(tx[v]) /\ TxType(tx[v])
    BY DEF IInv, Transactions, TxOK
  <2>2. CASE v = w
    <3>1. tx'[v] = After(w) /\ TxOK(After(w)) /\ After(w).pack # p
      BY <1>1, <2>2, AfterOK DEF Committed
    <3> QED
      BY <1>4, <3>1 DEF TxOK, TxType, Phase
  <2>3. CASE v # w /\ tx[v].pack = p
    <3> DEFINE old == tx[v]
               t == [old EXCEPT !.behind = TRUE]
    <3>1. tx'[v] = t
      BY <2>3 DEF Committed
    <3> HIDE DEF old
    <3>2. TxType(t) /\ t.pack = old.pack /\ t.behind
      BY <2>1 DEF TxType, old
    <3>3. Phase(t)
      BY <2>1 DEF TxType, TxOK, Phase, old
    <3>4. old.pack \in 0 .. Len(packs')
      BY <1>1, <2>1 DEF TxOK, old
    <3> HIDE DEF t
    <3> QED
      BY <3>1, <3>2, <3>3, <3>4 DEF TxOK, TxType, Phase, Fresh
  <2>4. CASE v # w /\ tx[v].pack # p
    <3>1. tx'[v] = tx[v]
      BY <2>4 DEF Committed
    <3> QED
      BY <1>4, <2>1, <2>4, <3>1 DEF TxOK, TxType, Phase
  <2> QED
    BY <2>2, <2>3, <2>4
<1> QED
  BY <1>3, <1>5 DEF Transactions

\* A committed write to a pack that is there.
LEMMA WriteStep ==
    ASSUME IInv, NEW w \in Workers, NEW p, Live(p), NEW q,
           tx[w].pack = p, Committed(w, p), packs' = [packs EXCEPT ![p] = q],
           q # Gone => q \in PackRows /\ Archived(q) /\ q.home = packs[p].home,
           OtherLinksKept(p),
           RowsOK', RowsTracked',
           \A r \in rows' : r.by # p => \E s \in rows : s.by = r.by,
           p \notin lapped /\ ~tx[w].behind => FootprintOf(p)' /\ StoredOf(p)',
           UNCHANGED <<registry, registries, synced, requests>>, made' \in Nat
    PROVE  IInv'
<1>1. p \in DOMAIN packs /\ DOMAIN packs' = DOMAIN packs /\ packs'[p] = q
  BY DEF Live, IInv, PacksOK
<1>2. \A i \in DOMAIN packs : i # p => packs'[i] = packs[i]
  BY DEF IInv, PacksOK
<1>3. PacksOK'
  <2>1. packs' \in Seq(PackRows \cup {Gone})
    BY <1>1 DEF IInv, PacksOK
  <2>2. \A i \in DOMAIN packs' :
           packs'[i] # Gone => /\ Archived(packs'[i]) /\ packs'[i].home \in {Local, registry'}
                               /\ packs[i] # Gone /\ packs'[i].home = packs[i].home
    BY <1>1, <1>2 DEF IInv, PacksOK, Live
  <2> QED
    BY <1>1, <2>1, <2>2 DEF IInv, PacksOK, Archived
<1>4. Transactions'
  BY <1>1, <1>3, OthersBehind
<1>5. Counters'
  BY DEF IInv, Counters
<1>6. lapped \subseteq lapped' /\ (p \notin lapped' => ~tx[w].behind)
  BY DEF Committed
<1>7. ASSUME NEW i \in DOMAIN packs' \ lapped' PROVE FootprintOf(i)' /\ StoredOf(i)'
  <2>1. CASE i = p
    BY <1>6, <1>7, <2>1
  <2>2. CASE i # p
    <3>1. FootprintOf(i) /\ StoredOf(i) /\ packs'[i] = packs[i] /\ (Live(i)' <=> Live(i))
      BY <1>1, <1>2, <1>6, <1>7, <2>2 DEF IInv, Histories, Live
    <3>2. Links(i)' = Links(i)
      BY <2>2 DEF Links, OtherLinksKept
    <3> QED
      BY <2>2, <3>1, <3>2 DEF FootprintOf, StoredOf
  <2> QED
    BY <2>1, <2>2
<1> QED
  BY <1>3, <1>4, <1>5, <1>7 DEF IInv, Histories

\* The rows of an earlier installation go with their links, and new ones come with
\* theirs.
Replaces(w, p, new, added) ==
    /\ Live(p) /\ tx[w].pack = p
    /\ Len(packs') = Len(packs) /\ \A i : Live(i)' <=> Live(i)
    /\ rows' = Kept(w) \cup new
    /\ links' = (links \ tx[w].links) \cup added
    /\ \A r \in new : [pack |-> p, row |-> r.id] \in added
    /\ \A l \in added : \E r \in new : l = [pack |-> p, row |-> r.id]
    /\ made' \in Nat /\ made <= made'
    /\ \A r \in new : IsNewRow(r, p) /\ r.id > made /\ r.id <= made' /\ r.name \notin Names(w)
    /\ \A r, s \in new : r # s => r.id # s.id /\ r.name # s.name

\* The tables of rows and links after such a change.
LEMMA RowsReplaced ==
    ASSUME IInv, NEW w \in Workers, NEW p, NEW new, NEW added, Replaces(w, p, new, added)
    PROVE  /\ RowsOK' /\ RowsTracked'
           /\ OtherLinksKept(p)
           /\ \A r \in rows' : r.by # p => \E s \in rows : s.by = r.by
<1> USE DEF Replaces
<1>1. p \in Nat \ {0} /\ p <= Len(packs)
  BY LiveRow DEF IInv, PacksOK
<1>2. made \in Nat /\ RowsOK /\ RowsTracked
  BY DEF IInv, Counters
<1>3. \A l \in tx[w].links : l.pack = p
  BY DEF IInv, Transactions, TxOK, TxType
<1>4. ASSUME NEW r \in Kept(w)
      PROVE  r \in rows /\ r.name \in Names(w) /\ \A l \in tx[w].links : l.row # r.id
  BY DEF Kept, Names
<1>5. ASSUME NEW l \in links'
      PROVE  \/ l \in links /\ l \notin tx[w].links
             \/ \E r \in new : l = [pack |-> p, row |-> r.id]
  OBVIOUS
<1>6. OtherLinksKept(p)
  BY <1>3, <1>5 DEF OtherLinksKept
<1>7. \A r \in rows' : r.by # p => \E s \in rows : s.by = r.by
  BY <1>4 DEF IsNewRow
<1>8. ASSUME NEW r \in rows'
      PROVE  /\ r \in [id : Nat, name : {r.name}, pack : Nat, by : Nat]
             /\ r.id <= made' /\ r.by <= Len(packs')
             /\ r.pack = IF Live(r.by)' THEN r.by ELSE 0
  <2>1. CASE r \in Kept(w)
    BY <1>2, <1>4, <2>1 DEF RowsOK
  <2>2. CASE r \in new
    BY <1>1, <2>2 DEF IsNewRow
  <2> QED
    BY <2>1, <2>2
<1>9. ASSUME NEW r \in rows', NEW s \in rows', r # s PROVE r.id # s.id /\ r.name # s.name
  <2>1. CASE r \in Kept(w) /\ s \in Kept(w)
    BY <1>2, <1>4, <1>9, <2>1 DEF RowsOK
  <2>2. CASE r \in new /\ s \in new
    BY <1>9, <2>2
  <2>3. CASE r \in Kept(w) /\ s \in new
    BY <1>2, <1>4, <2>3 DEF RowsOK, IsNewRow
  <2>4. CASE r \in new /\ s \in Kept(w)
    BY <1>2, <1>4, <2>4 DEF RowsOK, IsNewRow
  <2> QED
    BY <2>1, <2>2, <2>3, <2>4
<1>10. ASSUME NEW l \in links'
       PROVE  l \in [pack : Nat, row : Nat] /\ l.row <= made' /\ Live(l.pack)'
  <2>1. CASE l \in links
    BY <1>2, <2>1 DEF RowsOK
  <2>2. CASE \E r \in new : l = [pack |-> p, row |-> r.id]
    BY <1>1, <2>2 DEF IsNewRow
  <2> QED
    BY <1>5, <2>1, <2>2
<1>11. RowsOK'
  BY <1>8, <1>9, <1>10 DEF RowsOK
<1>12. ASSUME NEW r \in rows', r.pack # 0 PROVE [pack |-> r.pack, row |-> r.id] \in links'
  <2>1. CASE r \in Kept(w)
    <3>1. [pack |-> r.pack, row |-> r.id] \in links
      BY <1>2, <1>4, <1>12, <2>1 DEF RowsTracked
    <3>2. [pack |-> r.pack, row |-> r.id] \notin tx[w].links
      BY <1>4, <2>1
    <3> QED
      BY <3>1, <3>2
  <2>2. CASE r \in new
    <3>1. r.pack = p
      BY <2>2 DEF IsNewRow
    <3> QED
      BY <2>2, <3>1
  <2> QED
    BY <2>1, <2>2
<1>13. ASSUME NEW l \in links', NEW r \in rows', r.id = l.row PROVE r.by = l.pack
  <2>1. CASE l \in links /\ r \in Kept(w)
    BY <1>2, <1>4, <1>13, <2>1 DEF RowsTracked
  <2>2. CASE l \in links /\ r \in new
    BY <1>2, <1>13, <2>2 DEF RowsOK, IsNewRow
  <2>3. ASSUME NEW s \in new, l = [pack |-> p, row |-> s.id]
        PROVE  r.by = l.pack
    <3>1. CASE r \in Kept(w)
      BY <1>2, <1>4, <1>13, <2>3, <3>1 DEF RowsOK, IsNewRow
    <3>2. CASE r \in new
      BY <2>3, <3>2 DEF IsNewRow
    <3> QED
      BY <3>1, <3>2
  <2> QED
    BY <1>5, <2>1, <2>2, <2>3
<1>14. RowsTracked'
  BY <1>12, <1>13 DEF RowsTracked
<1> QED
  BY <1>6, <1>7, <1>11, <1>14

\* What a transaction that was not overtaken knows of its pack.
LEMMA NotOvertaken ==
    ASSUME IInv, NEW w \in Workers, NEW t, t = tx[w], t.pack # 0, ~t.behind,
           t.pack \notin lapped
    PROVE  /\ Live(t.pack) /\ packs[t.pack] \in PackRows /\ t.saw \in PackRows
           /\ t.saw = [packs[t.pack] EXCEPT !.home = t.saw.home]
           /\ FootprintOf(t.pack) /\ StoredOf(t.pack)
           /\ t.op \in {"update", "uninstall", "delete"} /\ t.step # "links" =>
                 t.links = Links(t.pack)
<1>1. TxOK(t)
  BY DEF IInv, Transactions
<1>2. Live(t.pack) /\ t.saw # Gone /\ t.saw \in PackRows \cup {Gone}
      /\ t.saw = [packs[t.pack] EXCEPT !.home = t.saw.home]
  BY <1>1 DEF TxOK, Fresh, TxType
<1>3. packs[t.pack] \in PackRows
  BY <1>2, LiveRow DEF IInv
<1>4. FootprintOf(t.pack) /\ StoredOf(t.pack)
  BY <1>2 DEF IInv, Histories, Live
<1> QED
  BY <1>1, <1>2, <1>3, <1>4 DEF TxOK, Fresh

\* The flushes and the commit of install_pack and update_pack.
LEMMA WriteInstallStep == ASSUME IInv, NEW w \in Workers, WriteInstall(w) PROVE IInv'
<1>1. CASE RollBack(w)
  BY <1>1, RollBackStep
<1>2. CASE ~RollBack(w)
  <2>0. PICK t, p, new : t = tx[w] /\ p = t.pack /\ new = NewRows(t.plan, made, p)
    OBVIOUS
  <2> DEFINE flag == CASE t.plan # {} -> t.saw.version
                       [] t.plan = {} /\ t.op = "update" /\ t.saw.installed # None -> None
                       [] OTHER -> packs[p].installed
             q == [packs[p] EXCEPT !.installed = flag]
  <2>1. /\ t.step = "write" /\ t.op \in {"install", "update"}
        /\ Live(p) /\ t.plan \cap Names(w) = {}
        /\ rows' = Kept(w) \cup new
        /\ links' = (links \ t.links) \cup {[pack |-> p, row |-> r.id] : r \in new}
        /\ made' = made + Cardinality(t.plan)
        /\ packs' = [packs EXCEPT ![p] = q]
        /\ Committed(w, p)
        /\ UNCHANGED <<registry, registries, synced, requests>>
    BY <1>2, <2>0 DEF WriteInstall
  <2>2. TxType(t) /\ Phase(t)
    BY <2>0 DEF IInv, Transactions, TxOK
  <2>3. t.saw \in PackRows /\ IsFiniteSet(t.plan) /\ p \in Nat \ {0}
    BY <2>0, <2>1, <2>2, LiveRow DEF TxType, Phase, IInv
  <2>4. packs[p] \in PackRows /\ packs[p] # Gone /\ Archived(packs[p])
    BY <2>1, LiveRow DEF IInv
  <2>5. made \in Nat /\ Cardinality(t.plan) \in Nat
    BY <2>3, FS_CardinalityType DEF IInv, Counters
  <2>6. flag \in Words
    BY <2>3, <2>4 DEF PackRows, Words
  <2>7. /\ t.plan # {} => flag # None
        /\ t.plan = {} => flag = None \/ flag = packs[p].installed
        /\ t.plan = {} /\ t.op = "update" /\ t.saw.installed # None => flag = None
    BY <2>3 DEF PackRows
  <2> HIDE DEF flag
  <2>8. /\ q \in PackRows /\ Archived(q) /\ q.home = packs[p].home
        /\ q.installed = flag /\ q.sha = packs[p].sha /\ q.items = packs[p].items
        /\ q.uploaded = packs[p].uploaded
    BY <2>4, <2>6 DEF PackRows, Archived
  <2>9. q # Gone
    BY <2>8, GoneIsNoRow
  <2> HIDE DEF q
  <2>10. Len(packs') = Len(packs) /\ packs'[p] = q /\ \A i : Live(i)' <=> Live(i)
    BY <2>1, <2>9 DEF Live, IInv, PacksOK
  <2>11. Shape(new, t.plan, made, p)
    <3>1. p \in Nat
      BY <2>3
    <3> QED
      BY <2>0, <2>3, <2>5, <3>1, NewRowsShape
  <2>12. made' \in Nat /\ made <= made'
    BY <2>1, <2>5
  <2>13. /\ RowsOK' /\ RowsTracked'
         /\ OtherLinksKept(p)
         /\ \A r \in rows' : r.by # p => \E s \in rows : s.by = r.by
    <3> DEFINE added == {[pack |-> p, row |-> r.id] : r \in new}
    <3>1. /\ \A r \in new : [pack |-> p, row |-> r.id] \in added
          /\ \A l \in added : \E r \in new : l = [pack |-> p, row |-> r.id]
      OBVIOUS
    <3>2. /\ \A r \in new :
                IsNewRow(r, p) /\ r.id > made /\ r.id <= made' /\ r.name \notin Names(w)
          /\ \A r, s \in new : r # s => r.id # s.id /\ r.name # s.name
      BY <2>1, <2>11 DEF Shape
    <3>3. /\ Live(p) /\ tx[w].pack = p /\ rows' = Kept(w) \cup new
          /\ links' = (links \ tx[w].links) \cup added
      BY <2>0, <2>1
    <3> HIDE DEF added
    <3>4. Replaces(w, p, new, added)
      BY <2>10, <2>12, <3>1, <3>2, <3>3 DEF Replaces
    <3> QED
      BY <3>4, RowsReplaced
  <2>14. ASSUME p \notin lapped, ~t.behind PROVE FootprintOf(p)' /\ StoredOf(p)'
    <3>1. /\ t.saw = [packs[p] EXCEPT !.home = t.saw.home]
          /\ FootprintOf(p) /\ StoredOf(p)
          /\ t.op = "update" => t.links = Links(p)
      BY <2>0, <2>1, <2>3, <2>14, NotOvertaken
    <3>2. t.saw.installed = packs[p].installed
      BY <2>4, <3>1 DEF PackRows
    <3>3. Links(p)' = {[pack |-> p, row |-> r.id] : r \in new}
      <4>1. Links(p) \ t.links = {}
        <5>1. CASE t.op = "update"
          BY <3>1, <5>1
        <5>2. CASE t.op = "install"
          <6>1. t.saw.installed = None
            BY <2>2, <5>2 DEF Phase
          <6> QED
            BY <2>1, <3>1, <3>2, <6>1 DEF FootprintOf
        <5> QED
          BY <2>1, <5>1, <5>2
      <4> QED
        BY <2>1, <4>1 DEF Links
    <3>4. FootprintOf(p)'
      <4>1. CASE t.plan # {}
        <5>1. PICK r \in new : TRUE
          BY <2>11, <4>1 DEF Shape
        <5>2. [pack |-> p, row |-> r.id] \in Links(p)'
          BY <3>3, <5>1
        <5> QED
          BY <2>1, <2>7, <2>8, <2>10, <4>1, <5>2 DEF FootprintOf
      <4>2. CASE t.plan = {}
        <5>1. Links(p)' = {}
          BY <2>11, <3>3, <4>2 DEF Shape
        <5>2. flag = None
          <6>1. CASE t.op = "update"
            BY <2>7, <3>2, <4>2, <6>1
          <6>2. CASE t.op = "install"
            BY <2>2, <2>7, <3>2, <4>2, <6>2 DEF Phase
          <6> QED
            BY <2>1, <6>1, <6>2
        <5> QED
          BY <2>1, <2>8, <2>10, <5>1, <5>2 DEF FootprintOf
      <4> QED
        BY <4>1, <4>2
    <3>5. StoredOf(p)'
      BY <2>1, <2>8, <2>10, <3>1 DEF StoredOf
    <3> QED
      BY <3>4, <3>5
  <2> QED
    <3>1. p \notin lapped /\ ~tx[w].behind => FootprintOf(p)' /\ StoredOf(p)'
      BY <2>0, <2>14
    <3> QED
      BY <2>0, <2>1, <2>8, <2>12, <2>13, <3>1, WriteStep
<1> QED
  BY <1>1, <1>2

\* Uninstalling takes the rows along.
LEMMA WriteUninstallStep == ASSUME IInv, NEW w \in Workers, WriteUninstall(w) PROVE IInv'
<1>1. CASE RollBack(w)
  BY <1>1, RollBackStep
<1>2. CASE ~RollBack(w)
  <2>0. PICK t, p : t = tx[w] /\ p = t.pack
    OBVIOUS
  <2> DEFINE none == [t.saw EXCEPT !.installed = None]
             q == Put(packs[p], t.saw, none)
  <2>1. /\ t.step = "write" /\ t.op = "uninstall" /\ Live(p)
        /\ rows' = Kept(w) /\ links' = links \ t.links /\ packs' = [packs EXCEPT ![p] = q]
        /\ Committed(w, p)
        /\ UNCHANGED <<registry, registries, synced, made, requests>>
    BY <1>2, <2>0 DEF WriteUninstall
  <2>2. t.saw \in PackRows /\ p # 0
    BY <2>0, <2>1 DEF IInv, Transactions, TxOK, TxType, Phase
  <2>3. packs[p] \in PackRows /\ packs[p] # Gone /\ Archived(packs[p])
    BY <2>1, LiveRow DEF IInv
  <2>4. /\ none \in PackRows /\ none.installed = None /\ none.home = t.saw.home
        /\ none.version = t.saw.version /\ none.sha = t.saw.sha /\ none.items = t.saw.items
        /\ none.assets = t.saw.assets /\ none.uploaded = t.saw.uploaded
    BY <2>2 DEF PackRows, Words
  <2> HIDE DEF none
  <2>5. /\ q \in PackRows /\ q.home = packs[p].home /\ q.sha = packs[p].sha
        /\ q.items = packs[p].items /\ q.assets = packs[p].assets
        /\ q.uploaded = packs[p].uploaded
        /\ q.installed = IF t.saw.installed # None THEN None ELSE packs[p].installed
    BY <2>2, <2>3, <2>4, PutColumns
  <2> HIDE DEF q
  <2>6. q # Gone /\ Archived(q)
    BY <2>3, <2>5, GoneIsNoRow DEF Archived
  <2>7. Len(packs') = Len(packs) /\ packs'[p] = q /\ \A i : Live(i)' <=> Live(i)
    BY <2>1, <2>6 DEF Live, IInv, PacksOK
  <2>8. Replaces(w, p, {}, {})
    BY <2>0, <2>1, <2>7 DEF Replaces, IInv, Counters
  <2>9. /\ RowsOK' /\ RowsTracked' /\ OtherLinksKept(p)
        /\ \A r \in rows' : r.by # p => \E s \in rows : s.by = r.by
    BY <2>8, RowsReplaced
  <2>10. p \notin lapped /\ ~t.behind => FootprintOf(p)' /\ StoredOf(p)'
    <3> SUFFICES ASSUME p \notin lapped, ~t.behind PROVE FootprintOf(p)' /\ StoredOf(p)'
      OBVIOUS
    <3>1. /\ t.saw = [packs[p] EXCEPT !.home = t.saw.home]
          /\ FootprintOf(p) /\ StoredOf(p) /\ t.links = Links(p)
      BY <2>0, <2>1, <2>2, NotOvertaken
    <3>2. t.saw.installed = packs[p].installed
      BY <2>3, <3>1 DEF PackRows
    <3>3. Links(p)' = {} /\ q.installed = None
      BY <2>1, <2>5, <3>1, <3>2 DEF Links
    <3> QED
      BY <2>1, <2>5, <2>7, <3>1, <3>3 DEF FootprintOf, StoredOf
  <2>11. made' \in Nat
    BY <2>1 DEF IInv, Counters
  <2> QED
    BY <2>0, <2>1, <2>5, <2>6, <2>9, <2>10, <2>11, WriteStep
<1> QED
  BY <1>1, <1>2

\* Deleting a pack clears template_pack_id in the rows of it that are left.
LEMMA WriteDeleteStep == ASSUME IInv, NEW w \in Workers, WriteDelete(w) PROVE IInv'
<1>1. CASE RollBack(w)
  BY <1>1, RollBackStep
<1>2. CASE ~RollBack(w)
  <2>0. PICK t, p : t = tx[w] /\ p = t.pack
    OBVIOUS
  <2> DEFINE cleared(r) == IF r.pack = p THEN [r EXCEPT !.pack = 0] ELSE r
  <2>1. /\ t.step = "write" /\ t.op = "delete" /\ Live(p)
        /\ rows' = {cleared(r) : r \in Kept(w)}
        /\ links' = {l \in links : l.pack # p} /\ packs' = [packs EXCEPT ![p] = Gone]
        /\ Committed(w, p)
        /\ UNCHANGED <<registry, registries, synced, made, requests>>
    BY <1>2, <2>0 DEF WriteDelete
  <2>2. p \in Nat \ {0} /\ RowsOK /\ RowsTracked /\ made \in Nat
    BY <2>1, LiveRow DEF IInv, Counters
  <2>3. /\ Len(packs') = Len(packs) /\ ~Live(p)' /\ packs'[p] = Gone
        /\ \A i : i # p => (Live(i)' <=> Live(i))
    BY <2>1 DEF Live, IInv, PacksOK
  <2>4. ASSUME NEW r \in rows
        PROVE  LET s == cleared(r) IN
               /\ s \in [id : Nat, name : {s.name}, pack : Nat, by : Nat]
               /\ s.id = r.id /\ s.name = r.name /\ s.by = r.by
               /\ s.pack = IF r.pack = p THEN 0 ELSE r.pack
    <3>1. r \in [id : Nat, name : {r.name}, pack : Nat, by : Nat]
      BY <2>2 DEF RowsOK
    <3> QED
      BY <3>1
  <2>5. \A s \in rows' : \E r \in rows : s = cleared(r) /\ r \in Kept(w)
    BY <2>1 DEF Kept
  <2> HIDE DEF cleared
  <2>6. ASSUME NEW s \in rows'
        PROVE  /\ s \in [id : Nat, name : {s.name}, pack : Nat, by : Nat]
               /\ s.id <= made' /\ s.by <= Len(packs')
               /\ s.pack = IF Live(s.by)' THEN s.by ELSE 0
    <3>1. PICK r \in rows : s = cleared(r)
      BY <2>5
    <3>2. /\ s \in [id : Nat, name : {s.name}, pack : Nat, by : Nat]
          /\ s.id = r.id /\ s.name = r.name /\ s.by = r.by
          /\ s.pack = IF r.pack = p THEN 0 ELSE r.pack
      BY <2>4, <3>1
    <3>3. r.id <= made /\ r.by <= Len(packs) /\ r.pack = IF Live(r.by) THEN r.by ELSE 0
      BY <2>2 DEF RowsOK
    <3> QED
      BY <2>1, <2>2, <2>3, <3>2, <3>3
  <2>7. ASSUME NEW s \in rows', NEW u \in rows', s # u PROVE s.id # u.id /\ s.name # u.name
    <3>1. PICK r \in rows : s = cleared(r)
      BY <2>5
    <3>2. PICK v \in rows : u = cleared(v)
      BY <2>5
    <3>3. r # v
      BY <2>7, <3>1, <3>2
    <3>4. s.id = r.id /\ s.name = r.name /\ u.id = v.id /\ u.name = v.name
      BY <2>4, <3>1, <3>2
    <3> QED
      BY <2>2, <3>3, <3>4 DEF RowsOK
  <2>8. RowsOK'
    <3>1. \A l \in links' : l \in [pack : Nat, row : Nat] /\ l.row <= made' /\ Live(l.pack)'
      BY <2>1, <2>2, <2>3 DEF RowsOK
    <3> QED
      BY <2>6, <2>7, <3>1 DEF RowsOK
  <2>9. RowsTracked'
    <3>1. ASSUME NEW s \in rows', s.pack # 0
          PROVE  [pack |-> s.pack, row |-> s.id] \in links'
      <4>1. PICK r \in rows : s = cleared(r)
        BY <2>5
      <4>2. s.id = r.id /\ s.pack = r.pack /\ r.pack # p
        BY <2>4, <3>1, <4>1
      <4>3. [pack |-> r.pack, row |-> r.id] \in links
        BY <2>2, <3>1, <4>2 DEF RowsTracked
      <4> QED
        BY <2>1, <4>2, <4>3
    <3>2. ASSUME NEW l \in links', NEW s \in rows', s.id = l.row PROVE s.by = l.pack
      <4>1. PICK r \in rows : s = cleared(r)
        BY <2>5
      <4> QED
        BY <2>1, <2>2, <2>4, <3>2, <4>1 DEF RowsTracked
    <3> QED
      BY <3>1, <3>2 DEF RowsTracked
  <2>10. OtherLinksKept(p)
    BY <2>1 DEF OtherLinksKept
  <2>11. \A s \in rows' : s.by # p => \E r \in rows : r.by = s.by
    BY <2>4, <2>5
  <2>12. p \notin lapped /\ ~t.behind => FootprintOf(p)' /\ StoredOf(p)'
    <3> SUFFICES ASSUME p \notin lapped, ~t.behind PROVE FootprintOf(p)' /\ StoredOf(p)'
      OBVIOUS
    <3>1. t.links = Links(p)
      BY <2>0, <2>1, <2>2, NotOvertaken
    <3>2. ASSUME NEW s \in rows', s.by = p PROVE FALSE
      <4>1. PICK r \in rows : s = cleared(r) /\ r \in Kept(w)
        BY <2>5
      <4>2. r.by = p /\ r.pack = p
        BY <2>1, <2>2, <2>4, <3>2, <4>1 DEF RowsOK
      <4>3. [pack |-> p, row |-> r.id] \in Links(p)
        BY <2>2, <4>2 DEF RowsTracked, Links
      <4> QED
        BY <2>0, <3>1, <4>1, <4>3 DEF Kept
    <3> QED
      BY <2>3, <3>2 DEF FootprintOf, StoredOf
  <2> QED
    BY <2>0, <2>1, <2>2, <2>8, <2>9, <2>10, <2>11, <2>12, WriteStep
<1> QED
  BY <1>1, <1>2

\* A write to the columns of a pack.
LEMMA ColumnStep ==
    ASSUME IInv, NEW w \in Workers, NEW p, Live(p), NEW q, q \in PackRows,
           tx[w].pack = p, Committed(w, p), packs' = [packs EXCEPT ![p] = q],
           Archived(q), q.home = packs[p].home,
           p \notin lapped /\ ~tx[w].behind =>
               /\ q.installed = packs[p].installed
               /\ StoredOf(p)',
           UNCHANGED <<registry, registries, synced, rows, links, made, requests>>
    PROVE  IInv'
<1>1. q # Gone
  BY GoneIsNoRow
<1>2. Len(packs') = Len(packs) /\ packs'[p] = q /\ \A i : Live(i)' <=> Live(i)
  BY <1>1 DEF Live, IInv, PacksOK
<1>3. RowsOK' /\ RowsTracked'
  BY <1>2 DEF IInv, RowsOK, RowsTracked
<1>4. OtherLinksKept(p)
  BY DEF OtherLinksKept
<1>5. p \notin lapped /\ ~tx[w].behind => FootprintOf(p)' /\ StoredOf(p)'
  <2>1. Links(p)' = Links(p)
    BY DEF Links
  <2>2. p \notin lapped => FootprintOf(p)
    BY DEF IInv, Histories, Live
  <2> QED
    BY <1>2, <2>1, <2>2 DEF FootprintOf
<1>6. made' \in Nat
  BY DEF IInv, Counters
<1> QED
  BY <1>1, <1>3, <1>4, <1>5, <1>6, WriteStep

\* patch_pack writes the version or the sha.
LEMMA WritePatchStep == ASSUME IInv, NEW w \in Workers, WritePatch(w) PROVE IInv'
<1>1. CASE RollBack(w)
  BY <1>1, RollBackStep
<1>2. CASE ~RollBack(w)
  <2>0. PICK t, p : t = tx[w] /\ p = t.pack
    OBVIOUS
  <2>1. /\ t.step = "write" /\ Live(p) /\ Committed(w, p)
        /\ UNCHANGED <<registry, registries, synced, rows, links, made, requests>>
        /\ \E f \in {"version", "sha"} :
              packs' = [packs EXCEPT ![p] = Put(packs[p], t.saw, [t.saw EXCEPT ![f] = "edited"])]
    BY <1>2, <2>0 DEF WritePatch
  <2>2. PICK f \in {"version", "sha"} :
           packs' = [packs EXCEPT ![p] = Put(packs[p], t.saw, [t.saw EXCEPT ![f] = "edited"])]
    BY <2>1
  <2> DEFINE new == [t.saw EXCEPT ![f] = "edited"]
             q == Put(packs[p], t.saw, new)
  <2>3. t.saw \in PackRows
    BY <2>0, <2>1 DEF IInv, Transactions, TxOK, TxType, Phase
  <2>4. packs[p] \in PackRows /\ Archived(packs[p])
    BY <2>1, LiveRow DEF IInv
  <2>5. /\ new \in PackRows /\ new.home = t.saw.home /\ new.items = t.saw.items
        /\ new.assets = t.saw.assets /\ new.uploaded = t.saw.uploaded
        /\ new.installed = t.saw.installed
        /\ new.sha = t.saw.sha \/ new.sha = "edited"
    <3>1. CASE f = "version"
      BY <2>3, <3>1 DEF PackRows, Words, None
    <3>2. CASE f = "sha"
      BY <2>3, <3>2 DEF PackRows, Words
    <3> QED
      BY <3>1, <3>2
  <2> HIDE DEF new
  <2>6. /\ q \in PackRows /\ q.home = packs[p].home /\ q.items = packs[p].items
        /\ q.assets = packs[p].assets /\ q.uploaded = packs[p].uploaded
        /\ q.installed = packs[p].installed
        /\ q.sha = packs[p].sha \/ q.sha = "edited"
    BY <2>3, <2>4, <2>5, PutColumns
  <2>7. packs' = [packs EXCEPT ![p] = q]
    BY <2>2 DEF new
  <2> HIDE DEF q
  <2>8. Archived(q)
    BY <2>4, <2>6 DEF Archived
  <2>9. p \notin lapped => StoredOf(p)'
    <3>1. p \notin lapped => StoredOf(p)
      BY <2>1 DEF IInv, Histories, Live
    <3>2. packs'[p] = q
      BY <2>1, <2>7 DEF Live, IInv, PacksOK
    <3> QED
      BY <2>1, <2>6, <3>1, <3>2 DEF StoredOf
  <2> QED
    BY <2>0, <2>1, <2>6, <2>7, <2>8, <2>9, ColumnStep
<1> QED
  BY <1>1, <1>2

\* upsert_synced_pack replaces the content of a pack it has found.
LEMMA UpdateSyncedStep == ASSUME IInv, NEW w \in Workers, UpdateSynced(w) PROVE IInv'
<1>1. CASE RollBack(w)
  BY <1>1, RollBackStep
<1>2. CASE ~RollBack(w)
  <2>0. PICK t, p : t = tx[w] /\ p = t.pack
    OBVIOUS
  <2> DEFINE c == t.content
             row == Row(c, t.saw.home)
             new == [row EXCEPT !.installed = t.saw.installed]
             put == Put(packs[p], t.saw, new)
             q == [put EXCEPT !.assets = new.assets, !.uploaded = new.uploaded]
  <2>1. /\ t.step = "write" /\ t.op = "sync" /\ Live(p) /\ Committed(w, p)
        /\ UNCHANGED <<registry, registries, synced, rows, links, made, requests>>
        /\ packs' = [packs EXCEPT ![p] = q]
    BY <1>2, <2>0 DEF UpdateSynced
  <2>2. t.saw \in PackRows /\ c \in Contents /\ p # 0
    BY <2>0, <2>1 DEF IInv, Transactions, TxOK, TxType, Phase
  <2>3. packs[p] \in PackRows
    BY <2>1, LiveRow DEF IInv
  <2>4. t.saw.home \in Nat /\ t.saw.installed \in Words
    BY <2>2 DEF PackRows
  <2>5. /\ row \in PackRows /\ Archived(row) /\ row.home = t.saw.home /\ row.sha = c.sha
        /\ row.items = c.items /\ row.uploaded = c.assets
    BY <2>2, <2>4, RowOfContent
  <2> HIDE DEF row, c
  <2>6. /\ new \in PackRows /\ Archived(new) /\ new.home = t.saw.home /\ new.sha = c.sha
        /\ new.items = c.items /\ new.uploaded = c.assets /\ new.installed = t.saw.installed
    BY <2>4, <2>5 DEF PackRows, Archived
  <2> HIDE DEF new
  <2>7. /\ put \in PackRows /\ put.home = packs[p].home
        /\ put.sha = IF new.sha # t.saw.sha THEN new.sha ELSE packs[p].sha
        /\ put.items = IF new.items # t.saw.items THEN new.items ELSE packs[p].items
        /\ put.installed = packs[p].installed
    BY <2>2, <2>3, <2>6, PutColumns
  <2> HIDE DEF put
  <2>8. /\ q \in PackRows /\ q.home = packs[p].home /\ q.sha = put.sha /\ q.items = put.items
        /\ q.uploaded = c.assets /\ q.assets = new.assets /\ q.installed = packs[p].installed
    BY <2>6, <2>7 DEF PackRows
  <2> HIDE DEF q
  <2>9. Archived(q)
    BY <2>6, <2>8 DEF Archived
  <2>10. p \notin lapped /\ ~t.behind => StoredOf(p)'
    <3> SUFFICES ASSUME p \notin lapped, ~t.behind PROVE StoredOf(p)'
      OBVIOUS
    <3>1. t.saw = [packs[p] EXCEPT !.home = t.saw.home]
      BY <2>0, <2>2, NotOvertaken
    <3>2. t.saw.sha = packs[p].sha /\ t.saw.items = packs[p].items
      BY <2>3, <3>1 DEF PackRows
    <3>3. q.sha = c.sha /\ q.items = c.items
      BY <2>6, <2>7, <2>8, <3>2
    <3>4. packs'[p] = q
      BY <2>1 DEF Live, IInv, PacksOK
    <3> QED
      BY <2>2, <2>8, <3>3, <3>4 DEF StoredOf
  <2> QED
    BY <2>0, <2>1, <2>8, <2>9, <2>10, ColumnStep
<1> QED
  BY <1>1, <1>2

----------------------------------------------------------------------------
(* New packs, registries and users                                         *)

\* The packs there were change in their home at most.
HomesOnly ==
    /\ Len(packs) <= Len(packs') /\ DOMAIN packs' = 1 .. Len(packs') /\ Len(packs') \in Nat
    /\ \A i \in DOMAIN packs :
          IF packs[i] = Gone THEN packs'[i] = Gone
          ELSE packs'[i] \in PackRows /\ packs'[i] = [packs[i] EXCEPT !.home = packs'[i].home]
    /\ UNCHANGED <<rows, links, made, lapped>>

\* A change of homes alone.
LEMMA HomesStep ==
    ASSUME IInv, HomesOnly
    PROVE  /\ RowsOK' /\ RowsTracked'
           /\ \A i \in DOMAIN packs \ lapped : FootprintOf(i)' /\ StoredOf(i)'
           /\ \A t : TxOK(t) => (TxOK(t))'
<1>1. DOMAIN packs = 1 .. Len(packs) /\ Len(packs) \in Nat /\ DOMAIN packs \subseteq DOMAIN packs'
  BY DEF IInv, PacksOK, HomesOnly
<1>2. \A i \in DOMAIN packs : Live(i)' <=> Live(i)
  BY <1>1, GoneIsNoRow DEF HomesOnly, Live
<1>3. ASSUME NEW i \in DOMAIN packs, Live(i)
      PROVE  /\ packs'[i].sha = packs[i].sha /\ packs'[i].items = packs[i].items
             /\ packs'[i].uploaded = packs[i].uploaded
             /\ packs'[i].installed = packs[i].installed
             /\ \A h : [packs'[i] EXCEPT !.home = h] = [packs[i] EXCEPT !.home = h]
  <2>1. packs[i] \in PackRows /\ packs'[i] = [packs[i] EXCEPT !.home = packs'[i].home]
    BY <1>3, LiveRow DEF IInv, HomesOnly
  <2> QED
    BY <2>1 DEF PackRows
<1>4. RowsOK' /\ RowsTracked'
  <2>1. \A r \in rows : r.by \in Nat /\ r.by <= Len(packs)
    BY DEF IInv, RowsOK
  <2>2. \A r \in rows : Live(r.by)' <=> Live(r.by)
    <3>1. ~Live(0) /\ ~Live(0)'
      BY <1>1 DEF Live, HomesOnly
    <3> QED
      BY <1>1, <1>2, <2>1, <3>1
  <2>3. \A l \in links : Live(l.pack)'
    BY <1>1, <1>2 DEF IInv, RowsOK, Live
  <2>4. \A r \in rows : r.by <= Len(packs')
    BY <1>1, <2>1 DEF HomesOnly
  <2> QED
    BY <2>2, <2>3, <2>4 DEF IInv, RowsOK, RowsTracked, HomesOnly
<1>5. ASSUME NEW i \in DOMAIN packs \ lapped PROVE FootprintOf(i)' /\ StoredOf(i)'
  <2>1. FootprintOf(i) /\ StoredOf(i) /\ Links(i)' = Links(i)
    BY DEF IInv, Histories, Links, HomesOnly
  <2> QED
    BY <1>2, <1>3, <2>1 DEF FootprintOf, StoredOf, HomesOnly
<1>6. ASSUME NEW t, TxOK(t) PROVE (TxOK(t))'
  <2>1. t.pack \in 0 .. Len(packs')
    BY <1>1, <1>6 DEF TxOK, HomesOnly
  <2>2. Links(t.pack)' = Links(t.pack)
    BY DEF Links, HomesOnly
  <2>3. (Fresh(t))'
    <3>1. CASE t.pack # 0 /\ ~t.behind
      <4>1. /\ Live(t.pack) /\ t.saw # Gone /\ t.saw = [packs[t.pack] EXCEPT !.home = t.saw.home]
            /\ t.op \in {"update", "uninstall", "delete"} /\ t.step # "links" =>
                  t.links = Links(t.pack)
        BY <1>6, <3>1 DEF TxOK, Fresh
      <4>2. t.pack \in DOMAIN packs
        BY <4>1 DEF Live
      <4>3. t.saw = [packs'[t.pack] EXCEPT !.home = t.saw.home]
        BY <1>3, <4>1, <4>2
      <4> QED
        BY <1>2, <2>2, <4>1, <4>2, <4>3 DEF Fresh
    <3>2. CASE ~(t.pack # 0 /\ ~t.behind)
      BY <3>2 DEF Fresh
    <3> QED
      BY <3>1, <3>2
  <2> QED
    BY <1>6, <2>1, <2>3 DEF TxOK, TxType, Phase
<1> QED
  BY <1>4, <1>5, <1>6

\* The insert of a new pack: the unique indexes and the foreign key let it pass.
LEMMA InsertPackStep == ASSUME IInv, NEW w \in Workers, InsertPack(w) PROVE IInv'
<1>1. CASE RollBack(w)
  BY <1>1, RollBackStep
<1>2. CASE ~RollBack(w)
  <2>0. PICK n, home, c : n = Len(packs) + 1 /\ home = tx[w].home /\ c = tx[w].content
    OBVIOUS
  <2> DEFINE row == Row(c, home)
  <2>1. /\ tx[w].step = "insert" /\ ~Refuses(home) /\ packs' = Append(packs, row)
        /\ tx' = [tx EXCEPT ![w] = After(w)]
        /\ UNCHANGED <<registry, registries, synced, rows, links, made, lapped, requests>>
    BY <1>2, <2>0 DEF InsertPack
  <2>2. c \in Contents /\ home \in Nat /\ PacksOK
    BY <2>0, <2>1 DEF IInv, Transactions, TxOK, TxType, Phase
  <2>3. home \in {Local, registry} /\ \A p \in DOMAIN packs : packs[p].home # home
    BY <2>1 DEF Refuses, InHome
  <2>4. /\ row \in PackRows /\ Archived(row) /\ row.home = home /\ row.installed = None
        /\ row.sha = c.sha /\ row.items = c.items /\ row.uploaded = c.assets
    BY <2>2, RowOfContent
  <2>5. row # Gone
    BY <2>4, GoneIsNoRow
  <2> HIDE DEF row
  <2>6. /\ Len(packs') = n /\ DOMAIN packs' = 1 .. n /\ n \in Nat \ {0} /\ packs'[n] = row
        /\ DOMAIN packs = 1 .. n - 1 /\ \A i \in DOMAIN packs : packs'[i] = packs[i]
    BY <2>0, <2>1, <2>2 DEF PacksOK
  <2>7. packs' \in Seq(PackRows \cup {Gone})
    BY <2>1, <2>2, <2>4 DEF PacksOK
  <2>8. \A i \in DOMAIN packs' : i = n \/ (i \in DOMAIN packs /\ packs'[i] = packs[i])
    BY <2>6
  <2>9. PacksOK'
    <3>1. \A i \in DOMAIN packs' : packs'[i] # Gone =>
             Archived(packs'[i]) /\ packs'[i].home \in {Local, registry'}
      BY <2>1, <2>2, <2>3, <2>4, <2>6, <2>8 DEF PacksOK
    <3>2. \A i, j \in DOMAIN packs' :
             i # j /\ packs'[i] # Gone /\ packs'[j] # Gone => packs'[i].home # packs'[j].home
      BY <2>2, <2>3, <2>4, <2>6, <2>8 DEF PacksOK
    <3> QED
      BY <2>7, <3>1, <3>2 DEF PacksOK, Archived
  <2>10. HomesOnly
    <3>1. ASSUME NEW i \in DOMAIN packs, packs[i] # Gone
          PROVE  packs[i] \in PackRows /\ packs[i] = [packs[i] EXCEPT !.home = packs[i].home]
      <4>1. packs[i] \in PackRows
        BY <2>2, <3>1 DEF PacksOK
      <4> QED
        BY <4>1 DEF PackRows
    <3>2. Len(packs) <= Len(packs') /\ DOMAIN packs' = 1 .. Len(packs') /\ Len(packs') \in Nat
      BY <2>0, <2>2, <2>6 DEF PacksOK
    <3> QED
      BY <2>1, <2>6, <3>1, <3>2 DEF HomesOnly
  <2>11. /\ RowsOK' /\ RowsTracked'
         /\ \A i \in DOMAIN packs \ lapped : FootprintOf(i)' /\ StoredOf(i)'
         /\ \A t : TxOK(t) => (TxOK(t))'
    BY <2>10, HomesStep
  <2>12. Histories'
    <3>1. Links(n)' = {}
      BY <2>1, <2>6 DEF Links, IInv, RowsOK, Live
    <3>2. FootprintOf(n)' /\ StoredOf(n)'
      BY <2>2, <2>4, <2>5, <2>6, <3>1 DEF FootprintOf, StoredOf, Live
    <3> QED
      BY <2>1, <2>8, <2>11, <3>2 DEF Histories
  <2>13. Transactions'
    <3>1. tx' = [v \in Workers |-> tx'[v]]
          /\ \A v \in Workers : tx'[v] = IF v = w THEN After(w) ELSE tx[v]
      BY <2>1 DEF IInv, Transactions
    <3>2. TxOK(After(w)) /\ \A v \in Workers : TxOK(tx[v])
      BY AfterOK DEF IInv, Transactions
    <3>3. ASSUME NEW v \in Workers PROVE TxOK(tx[v])'
      <4>1. PICK t : t = tx'[v]
        OBVIOUS
      <4>2. (TxOK(t))'
        BY <2>11, <3>1, <3>2, <4>1
      <4> QED
        BY <4>1, <4>2 DEF TxOK, TxType, Phase, Fresh
    <3> QED
      BY <3>1, <3>3 DEF Transactions
  <2>14. Counters'
    BY <2>1 DEF IInv, Counters
  <2> QED
    BY <2>9, <2>11, <2>12, <2>13, <2>14 DEF IInv
<1> QED
  BY <1>1, <1>2

\* The registry goes, and its pack becomes a local one where there was none.
LEMMA DeleteRegistryStep == ASSUME IInv, DeleteRegistry PROVE IInv'
<1>1. /\ registry # 0 /\ (InHome(registry) = {} \/ InHome(Local) = {})
      /\ UNCHANGED <<registries, rows, links, made, tx, lapped>>
      /\ registry' = 0 /\ synced' = synced \ {registry} /\ Count
  BY DEF DeleteRegistry
<1>2. /\ packs' = [p \in DOMAIN packs |->
                    IF packs[p].home = registry THEN [packs[p] EXCEPT !.home = Local] ELSE packs[p]]
      /\ PacksOK /\ DOMAIN packs = 1 .. Len(packs) /\ Len(packs) \in Nat /\ registry \in Nat
  BY DEF DeleteRegistry, IInv, PacksOK, Counters
<1>3. ASSUME NEW i \in DOMAIN packs
      PROVE  IF packs[i] = Gone THEN packs'[i] = Gone
             ELSE /\ packs'[i] \in PackRows /\ packs'[i] # Gone /\ packs'[i].home = Local
                  /\ packs'[i] = [packs[i] EXCEPT !.home = packs'[i].home]
                  /\ Archived(packs'[i])
                  /\ i \in InHome(registry) \cup InHome(Local)
  <2>1. CASE packs[i] = Gone
    BY <1>2, <2>1, GoneIsNoRow
  <2>2. CASE packs[i] # Gone
    <3>1. packs[i] \in PackRows /\ Archived(packs[i]) /\ packs[i].home \in {Local, registry}
      BY <1>2, <2>2 DEF PacksOK
    <3>2. packs'[i] = IF packs[i].home = registry THEN [packs[i] EXCEPT !.home = Local]
                      ELSE packs[i]
      BY <1>2
    <3>3. packs'[i] = [packs[i] EXCEPT !.home = Local]
      <4>1. CASE packs[i].home = registry
        BY <3>2, <4>1
      <4>2. CASE packs[i].home = Local /\ packs[i].home # registry
        BY <3>1, <3>2, <4>2 DEF PackRows
      <4> QED
        BY <3>1, <4>1, <4>2
    <3>4. packs'[i] \in PackRows /\ packs'[i].home = Local
      BY <3>1, <3>3 DEF PackRows, Local
    <3>5. Archived(packs'[i])
      BY <3>1, <3>3 DEF PackRows, Archived
    <3> QED
      BY <2>2, <3>1, <3>3, <3>4, <3>5, GoneIsNoRow DEF InHome
  <2> QED
    BY <2>1, <2>2
<1>4. packs' \in Seq(PackRows \cup {Gone}) /\ Len(packs') = Len(packs)
      /\ DOMAIN packs' = DOMAIN packs
  <2>1. packs' \in [1 .. Len(packs) -> PackRows \cup {Gone}]
    BY <1>2, <1>3
  <2> QED
    BY <1>2, <2>1
<1>5. PacksOK'
  <2>1. \A i \in DOMAIN packs' : packs'[i] # Gone =>
           Archived(packs'[i]) /\ packs'[i].home \in {Local, registry'}
    BY <1>3, <1>4
  <2>2. ASSUME NEW i \in DOMAIN packs', NEW j \in DOMAIN packs', i # j,
               packs'[i] # Gone, packs'[j] # Gone
        PROVE  FALSE
    <3>1. packs[i] # Gone /\ packs[j] # Gone /\ packs[i].home # packs[j].home
      BY <1>2, <1>3, <1>4, <2>2 DEF PacksOK
    <3>2. i \in InHome(registry) \cup InHome(Local) /\ j \in InHome(registry) \cup InHome(Local)
      BY <1>3, <1>4, <3>1
    <3> QED
      BY <1>1, <3>1, <3>2 DEF InHome
  <2> QED
    BY <1>4, <2>1, <2>2 DEF PacksOK, Archived
<1>6. HomesOnly
  BY <1>1, <1>2, <1>3, <1>4 DEF HomesOnly
<1>7. /\ RowsOK' /\ RowsTracked'
      /\ \A i \in DOMAIN packs \ lapped : FootprintOf(i)' /\ StoredOf(i)'
      /\ \A t : TxOK(t) => (TxOK(t))'
  BY <1>6, HomesStep
<1>8. Histories'
  BY <1>1, <1>4, <1>7 DEF Histories
<1>9. Transactions'
  <2>1. ASSUME NEW v \in Workers PROVE TxOK(tx[v])'
    <3>1. PICK t : t = tx[v] /\ t = tx'[v]
      BY <1>1
    <3>2. (TxOK(t))'
      BY <1>7, <3>1 DEF IInv, Transactions
    <3> QED
      BY <3>1, <3>2 DEF TxOK, TxType, Phase, Fresh
  <2> QED
    BY <1>1, <2>1 DEF IInv, Transactions
<1>10. Counters'
  BY <1>1, CountType DEF IInv, Counters
<1> QED
  BY <1>5, <1>7, <1>8, <1>9, <1>10 DEF IInv

\* The transactions know nothing of rows, registries and users.
LEMMA TransactionsKept ==
    ASSUME IInv, UNCHANGED <<packs, links, tx>>
    PROVE  Transactions'
  BY DEF IInv, Transactions, TxOK, TxType, Phase, Fresh, Live, Links

\* The end of a sync.
LEMMA TouchSyncedStep == ASSUME IInv, NEW w \in Workers, TouchSynced(w) PROVE IInv'
<1>1. /\ tx' = [tx EXCEPT ![w] = Idle] /\ tx[w].step = "touch"
      /\ synced' = IF tx[w].home = registry THEN synced \cup {registry} ELSE synced
      /\ UNCHANGED <<registry, registries, packs, rows, links, made, lapped, requests>>
  BY DEF TouchSynced, Close
<1>2. PacksOK' /\ RowsOK' /\ RowsTracked' /\ Histories'
  BY <1>1 DEF IInv, PacksOK, RowsOK, RowsTracked, Histories, FootprintOf, StoredOf, Live, Links
<1>3. Transactions'
  <2>1. TxOK(Idle) /\ \A v \in Workers : TxOK(tx[v])
    BY IdleOK DEF IInv, Transactions
  <2>2. tx' = [v \in Workers |-> tx'[v]]
        /\ \A v \in Workers : tx'[v] = IF v = w THEN Idle ELSE tx[v]
    BY <1>1 DEF IInv, Transactions
  <2>3. ASSUME NEW v \in Workers PROVE TxOK(tx[v])'
    <3>1. TxOK(tx'[v])
      BY <2>1, <2>2
    <3> QED
      BY <1>1, <3>1 DEF TxOK, Fresh, Live, Links, TxType, Phase
  <2> QED
    BY <2>2, <2>3 DEF Transactions
<1>4. Counters'
  <2>1. tx[w].home # 0
    BY <1>1 DEF IInv, Transactions, TxOK, Phase
  <2> QED
    BY <1>1, <2>1 DEF IInv, Counters
<1> QED
  BY <1>2, <1>3, <1>4 DEF IInv

\* A new registry has no packs.
LEMMA CreateRegistryStep == ASSUME IInv, CreateRegistry PROVE IInv'
<1>1. /\ registry = 0 /\ registries' = registries + 1 /\ registry' = registries + 1 /\ Count
      /\ UNCHANGED <<synced, packs, rows, links, made, tx, lapped>>
  BY DEF CreateRegistry
<1>2. PacksOK'
  BY <1>1 DEF IInv, PacksOK, Archived, Local
<1>3. RowsOK' /\ RowsTracked' /\ Histories'
  BY <1>1 DEF IInv, RowsOK, RowsTracked, Histories, FootprintOf, StoredOf, Live, Links
<1>4. Counters'
  BY <1>1, CountType DEF IInv, Counters
<1> QED
  BY <1>1, <1>2, <1>3, <1>4, TransactionsKept DEF IInv

\* A command or script that belongs to no pack.
LEMMA CreateEntityStep == ASSUME IInv, NEW name, CreateEntity(name) PROVE IInv'
<1>1. /\ \A r \in rows : r.name # name
      /\ made' = made + 1
      /\ rows' = rows \cup {[id |-> made + 1, name |-> name, pack |-> 0, by |-> 0]}
      /\ UNCHANGED <<registry, registries, synced, packs, links, tx, lapped>> /\ Count
  BY DEF CreateEntity
<1>2. made \in Nat /\ PacksOK /\ RowsOK /\ RowsTracked /\ Histories /\ ~Live(0) /\ Len(packs) \in Nat
  BY DEF IInv, Counters, Live, PacksOK
<1>3. PICK e : e = [id |-> made + 1, name |-> name, pack |-> 0, by |-> 0]
  OBVIOUS
<1>4. /\ rows' = rows \cup {e} /\ e.id = made + 1 /\ e.name = name /\ e.pack = 0 /\ e.by = 0
      /\ e \in [id : Nat, name : {e.name}, pack : Nat, by : Nat]
  BY <1>1, <1>2, <1>3
<1>5. PacksOK'
  BY <1>1, <1>2 DEF PacksOK, Archived
<1>6. \A i : Live(i)' <=> Live(i)
  BY <1>1 DEF Live
<1>7. RowsOK'
  <2>1. ASSUME NEW r \in rows'
        PROVE  /\ r \in [id : Nat, name : {r.name}, pack : Nat, by : Nat]
               /\ r.id <= made' /\ r.by <= Len(packs')
               /\ r.pack = IF Live(r.by)' THEN r.by ELSE 0
    <3>1. CASE r \in rows
      BY <1>1, <1>2, <1>6, <3>1 DEF RowsOK
    <3>2. CASE r = e
      BY <1>1, <1>2, <1>4, <1>6, <3>2
    <3> QED
      BY <1>4, <3>1, <3>2
  <2>2. \A r, s \in rows' : r # s => r.id # s.id /\ r.name # s.name
    BY <1>1, <1>2, <1>4 DEF RowsOK
  <2>3. \A l \in links' : l \in [pack : Nat, row : Nat] /\ l.row <= made' /\ Live(l.pack)'
    BY <1>1, <1>2, <1>6 DEF RowsOK
  <2> QED
    BY <2>1, <2>2, <2>3 DEF RowsOK
<1>8. RowsTracked'
  BY <1>1, <1>2, <1>4 DEF RowsTracked, RowsOK
<1>9. Histories'
  <2>1. ASSUME NEW i \in DOMAIN packs' \ lapped' PROVE FootprintOf(i)' /\ StoredOf(i)'
    <3>1. i # 0 /\ FootprintOf(i) /\ StoredOf(i) /\ Links(i)' = Links(i)
      BY <1>1, <1>2 DEF Histories, Links, PacksOK
    <3> QED
      BY <1>1, <1>4, <1>6, <3>1 DEF FootprintOf, StoredOf
  <2> QED
    BY <2>1 DEF Histories
<1>10. Counters'
  BY <1>1, CountType DEF IInv, Counters
<1> QED
  BY <1>1, <1>5, <1>7, <1>8, <1>9, <1>10, TransactionsKept DEF IInv

\* One that goes takes its link along.
LEMMA DeleteEntityStep == ASSUME IInv, NEW r \in rows, DeleteEntity(r) PROVE IInv'
<1>1. /\ rows' = rows \ {r} /\ Count
      /\ UNCHANGED <<registry, registries, synced, packs, links, made, tx, lapped>>
  BY DEF DeleteEntity
<1>2. PacksOK' /\ RowsOK' /\ RowsTracked' /\ Histories'
  BY <1>1 DEF IInv, PacksOK, RowsOK, RowsTracked, Histories, FootprintOf, StoredOf, Live, Links
<1>3. Counters'
  BY <1>1, CountType DEF IInv, Counters
<1> QED
  BY <1>1, <1>2, <1>3, TransactionsKept DEF IInv

\* One step per action.
LEMMA Invariance == IInv /\ [Next]_vars => IInv'
<1> SUFFICES ASSUME IInv, [Next]_vars PROVE IInv'
  OBVIOUS
<1>1. CASE UNCHANGED vars
  <2>1. UNCHANGED <<registry, registries, synced, packs, rows, links, made, lapped, tx, requests>>
    BY <1>1 DEF vars, tables
  <2>2. PacksOK' /\ RowsOK' /\ RowsTracked' /\ Histories' /\ Counters'
    BY <2>1 DEF IInv, PacksOK, RowsOK, RowsTracked, Histories, FootprintOf, StoredOf, Live,
                Links, Counters
  <2> QED
    BY <2>1, <2>2, TransactionsKept DEF IInv
<1>2. CASE Users
  BY <1>2, CreateRegistryStep, DeleteRegistryStep, CreateEntityStep, DeleteEntityStep DEF Users
<1>3. ASSUME NEW w \in Workers, Request(w) PROVE IInv'
  <2>1. ASSUME NEW p \in DOMAIN packs, NEW mode \in {"fail", "rename"},
               Load(w, "install", mode, p) \/ Load(w, "update", mode, p)
        PROVE  IInv'
    BY <2>1, LoadStep
  <2>2. ASSUME NEW p \in DOMAIN packs,
               Load(w, "uninstall", None, p) \/ Load(w, "delete", None, p)
                  \/ Load(w, "patch", None, p)
        PROVE  IInv'
    BY <2>2, LoadStep
  <2> QED
    BY <1>3, <2>1, <2>2, BeginStep DEF Request
<1>4. ASSUME NEW w \in Workers, Step(w) PROVE IInv'
  <2>1. CASE ReadLinks(w) \/ FlushUninstall(w) \/ ReadNames(w) \/ NameConflict(w)
    BY <2>1, ReadLinksStep, FlushStep, ReadNamesStep, RollBackStep DEF NameConflict
  <2>2. CASE WriteInstall(w) \/ WriteUninstall(w) \/ WriteDelete(w) \/ WritePatch(w)
    BY <2>2, WriteInstallStep, WriteUninstallStep, WriteDeleteStep, WritePatchStep
  <2>3. CASE InsertPack(w) \/ Fetch(w) \/ FetchFails(w) \/ FetchNothing(w)
    BY <2>3, InsertPackStep, FetchStep
  <2>4. CASE FindSynced(w) \/ UpdateSynced(w) \/ TouchSynced(w)
    BY <2>4, FindSyncedStep, UpdateSyncedStep, TouchSyncedStep
  <2> QED
    BY <1>4, <2>1, <2>2, <2>3, <2>4 DEF Step
<1>5. ASSUME NEW w \in Workers, DatabaseFails(w) PROVE IInv'
  BY <1>5, RollBackStep DEF DatabaseFails
<1> QED
  BY <1>1, <1>2, <1>3, <1>4, <1>5 DEF Next

\* IInv holds in every reachable state.
LEMMA AlwaysIInv == Spec => []IInv
  BY InitHolds, Invariance, PTL DEF Spec

----------------------------------------------------------------------------
(* Theorems                                                                *)

\* The constraints of the tables hold in every state: one pack for each home,
\* names in use once, and links and template_pack_id that lead to a pack that is
\* there.
THEOREM TypeCorrect == Spec => []TypeOK
<1>1. IInv => TypeOK
  <2> SUFFICES ASSUME IInv PROVE TypeOK
    OBVIOUS
  <2>1. \A p \in DOMAIN packs : Live(p) => packs[p].home \in {Local, registry}
    BY DEF IInv, PacksOK, Live
  <2>2. \A p, q \in DOMAIN packs : p # q /\ Live(p) /\ Live(q) => packs[p].home # packs[q].home
    BY DEF IInv, PacksOK, Live
  <2>3. \A r \in rows : r.pack # 0 => Live(r.pack)
    BY DEF IInv, RowsOK
  <2> QED
    BY <2>1, <2>2, <2>3 DEF IInv, RowsOK, Counters, TypeOK
<1> QED
  BY <1>1, AlwaysIInv, PTL

\* Uninstalling can find what a pack made and touches nothing else, whatever
\* install_pack, update_pack, uninstall_pack, delete_pack and the users overlap.
THEOREM TrackingCorrect == Spec => []RowsTracked
<1>1. IInv => RowsTracked
  BY DEF IInv
<1> QED
  BY <1>1, AlwaysIInv, PTL

\* A pack whose transactions did not overtake each other shows as installed exactly
\* while it has links, and leaves no row of its own once it is deleted.
THEOREM FootprintCorrect == Spec => []Footprint
<1>1. IInv => Footprint
  BY HistoriesMean DEF IInv
<1> QED
  BY <1>1, AlwaysIInv, PTL

\* The sha, the items and the assets of a pack come from one upload or one sync,
\* unless a user edited the sha or transactions overtook each other.
THEOREM StorageCorrect == Spec => []StoredWhole
<1>1. IInv => StoredWhole
  BY HistoriesMean DEF IInv
<1> QED
  BY <1>1, AlwaysIInv, PTL

\* The archive of a pack holds the assets that were stored: the decoding that only
\* has the text and its size tells base64 from text.
THEOREM ArchiveCorrect == Spec => []ArchiveFaithful
<1>1. IInv => ArchiveFaithful
  <2> SUFFICES ASSUME IInv, NEW p \in DOMAIN packs, Live(p)
               PROVE  {DecodeStored(s) : s \in packs[p].assets} = packs[p].uploaded
    BY DEF ArchiveFaithful
  <2>1. packs[p] \in PackRows /\ Archived(packs[p])
    BY LiveRow DEF IInv
  <2>2. \A a \in packs[p].uploaded : DecodeStored(StoredText(a)) = a
    BY <2>1, DecodesStored DEF PackRows, Archived
  <2> QED
    BY <2>1, <2>2 DEF Archived
<1> QED
  BY <1>1, AlwaysIInv, PTL
============================================================================
