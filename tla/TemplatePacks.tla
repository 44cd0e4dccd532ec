---------------------------- MODULE TemplatePacks ----------------------------
(* Template packs: creating them, syncing them from a registry, and installing
   their content as commands and scripts.  Every gateway call is one READ COMMITTED
   transaction without explicit locks; the steps of a transaction here are its
   statements that other transactions can fall between.  The ORM writes a column
   only when its new value differs from the one it loaded (see Put), an UPDATE
   locks the row of the pack until the transaction ends, and writes become visible
   at the commit.  All packs here have the same pack_id, in different homes: that
   is where the unique indexes bite.  *)
EXTENDS Integers, Sequences, FiniteSets, FiniteSetsExt

CONSTANTS
    Workers,         \* requests that run at the same time
    Contents,        \* what a pack directory or an upload may hold
    MaxRequests,     \* bound: requests in all
    MaxAssets,       \* MAX_ASSETS_PER_PACK
    MaxAssetBytes,   \* MAX_ASSET_BYTES
    MaxPackBytes     \* MAX_PACK_ASSETS_BYTES

ASSUME PacksAssumption ==
    /\ MaxRequests \in Nat
    /\ MaxAssets \in Nat /\ MaxAssetBytes \in Nat /\ MaxPackBytes \in Nat
    /\ IsFiniteSet(Contents)
    /\ \A c \in Contents :
          /\ c \in [version : STRING \ {"none"}, sha : STRING,
                   items : Seq([kind : STRING, base : STRING, ok : BOOLEAN]),
                   assets : SUBSET [path : STRING, form : {"text", "binary"}, size : Nat]]
          /\ \A a \in c.assets : a.form = "binary" => a.size > 0   \* an empty file is text

None == "none"
Local == 0        \* registry_id IS NULL
Gone == [home |-> -1]

VARIABLES
    registry,   \* id of the registry row, or 0
    registries, \* registries ever made
    synced,     \* registries with a last_synced_at
    packs,      \* rows of template_packs in the order they were made, or Gone
    rows,       \* commands and scripts
    links,      \* template_installations: which pack made which row
    made,       \* commands and scripts ever made
    tx,         \* [Workers -> its open transaction]
    lapped,     \* packs written by a transaction that another one had overtaken
    requests

tables == <<registry, registries, synced, packs, rows, links, made>>
vars == <<tables, tx, lapped, requests>>

Idle == [step |-> "idle", op |-> None, mode |-> None, pack |-> 0, home |-> 0,
         saw |-> Gone, content |-> Gone, links |-> {}, plan |-> {}, behind |-> FALSE]

Live(p) == p \in DOMAIN packs /\ packs[p] # Gone

----------------------------------------------------------------------------
(* Content                                                                 *)

\* _decode_assets: paths of a pack differ, and number and sizes stay within the
\* limits.
AcceptsAssets(c) ==
    /\ Cardinality(c.assets) <= MaxAssets
    /\ \A a \in c.assets : a.size <= MaxAssetBytes
    /\ MapThenSumSet(LAMBDA a : a.size, c.assets) <= MaxPackBytes

\* Mutant: the size column holds the length of the text.
StoredTextLength(a) ==
    LET chars == IF a.form = "text" THEN a.size ELSE 4 * ((a.size + 2) \div 3)
    IN  [path |-> a.path, size |-> chars, chars |-> chars]

\* The text of an asset in its row: as it is, or base64 when it is not UTF-8.
StoredText(a) ==
    [path |-> a.path, size |-> a.size,
     chars |-> IF a.form = "text" THEN a.size ELSE 4 * ((a.size + 2) \div 3)]

\* The bytes the archive recovers: the text, unless its length is not the size.
DecodeStored(s) ==
    [path |-> s.path, size |-> s.size,
     form |-> IF s.chars = s.size THEN "text" ELSE "binary"]

Row(c, home) ==
    [home |-> home, version |-> c.version, sha |-> c.sha, items |-> c.items,
     assets |-> {StoredText(a) : a \in c.assets}, uploaded |-> c.assets,
     installed |-> None]

\* Mutant: None means that a column is left as it is.
PutGiven(now, saw, new) ==
    [f \in DOMAIN now |-> IF new[f] # saw[f] /\ new[f] # None THEN new[f] ELSE now[f]]

\* Mutant: only the metadata is written.
PutMetadata(now, saw, new) ==
    [f \in DOMAIN now |-> IF new[f] # saw[f] /\ f # "items" THEN new[f] ELSE now[f]]

\* An UPDATE by the ORM: the columns that differ from what was loaded.
Put(now, saw, new) ==
    [f \in DOMAIN now |-> IF new[f] # saw[f] THEN new[f] ELSE now[f]]

----------------------------------------------------------------------------
(* Installing: names first, then payloads, then rows and links             *)

\* Mutant: uninstalling removes the links and not the rows.
KeptAll(w) == rows

\* Of the rows a transaction sees: those it has not deleted itself.
Kept(w) == {r \in rows : \A l \in tx[w].links : l.row # r.id}
Names(w) == {r.name : r \in Kept(w)}

UniqueName(item, taken) ==
    LET named(n) == [kind |-> item.kind, base |-> item.base, n |-> n]
    IN  named(Min({n \in 0..Cardinality(taken) : named(n) \notin taken}))

\* The names resolved for the first k items.
Planned(items, taken) ==
    LET plan[k \in 0..Len(items)] ==
            IF k = 0 THEN <<>>
            ELSE Append(plan[k - 1],
                        UniqueName(items[k], taken \cup {plan[k - 1][i] : i \in 1..(k - 1)}))
    IN  plan[Len(items)]

\* Phase 1 of _install_in_session renamed an item.
NameTaken(items, taken) == \E k \in DOMAIN items : Planned(items, taken)[k].n > 0

\* Phase 2: the items whose payload is valid.
Valid(items, plan) == {plan[k] : k \in {i \in DOMAIN items : items[i].ok}}

\* Phase 3: a row for each valid item.
NewRows(names, last, p) ==
    LET id == CHOOSE f \in [names -> last + 1 .. last + Cardinality(names)] :
                  \A a, b \in names : a # b => f[a] # f[b]
    IN  {[id |-> id[n], name |-> n, pack |-> p, by |-> p] : n \in names}

----------------------------------------------------------------------------
(* Transactions                                                            *)

Count == requests < MaxRequests /\ requests' = requests + 1

\* An uninstall inside an update has written the row of its pack.
Locks(v, p) ==
    /\ tx[v].op = "update" /\ tx[v].pack = p
    /\ tx[v].step \in {"names", "write"}

\* Another transaction waits for that lock.
Free(w, p) == \A v \in Workers \ {w} : ~Locks(v, p)

Close(w) == [tx EXCEPT ![w] = Idle]
\* A sync records the item and goes on; any other request ends.
After(w) == IF tx[w].op = "sync" THEN [Idle EXCEPT !.op = "sync", !.home = tx[w].home,
                                                   !.step = "touch"]
            ELSE Idle

\* A write to pack p overtakes the other transactions that have loaded it.
Committed(w, p) ==
    /\ tx' = [v \in Workers |->
                CASE v = w -> After(w)
                  [] v # w /\ tx[v].pack = p -> [tx[v] EXCEPT !.behind = TRUE]
                  [] OTHER -> tx[v]]
    /\ lapped' = IF tx[w].behind THEN lapped \cup {p} ELSE lapped

\* Rolled back: by a conflict, by a constraint, by the database.
RollBack(w) ==
    /\ tx' = [tx EXCEPT ![w] = After(w)]
    /\ UNCHANGED <<tables, lapped, requests>>

\* A pack that is not there or a conflict ends the request in its first step.
Load(w, op, mode, p) ==
    LET refused == \/ ~Live(p)
                   \/ op = "install" /\ (packs[p].installed # None \/ packs[p].items = <<>>)
        first == CASE op = "install" -> "names" [] op = "patch" -> "write" [] OTHER -> "links"
    IN  /\ tx[w].step = "idle"
        /\ Count
        /\ tx' = IF refused THEN tx
                 ELSE [tx EXCEPT ![w] = [Idle EXCEPT !.step = first, !.op = op, !.mode = mode,
                                                     !.pack = p, !.saw = packs[p]]]
        /\ UNCHANGED <<tables, lapped>>

\* _uninstall_in_session, its query.
ReadLinks(w) ==
    /\ tx[w].step = "links"
    /\ tx' = [tx EXCEPT ![w].links = {l \in links : l.pack = tx[w].pack},
                        ![w].step = IF tx[w].op = "update" THEN "flush" ELSE "write"]
    /\ UNCHANGED <<tables, lapped, requests>>

\* _uninstall_in_session inside update_pack: its flush takes the lock.
FlushUninstall(w) ==
    /\ tx[w].step = "flush"
    /\ Free(w, tx[w].pack)
    /\ IF ~Live(tx[w].pack)
       THEN RollBack(w)
       ELSE /\ tx' = [tx EXCEPT ![w].step = IF tx[w].saw.items = <<>> THEN "write" ELSE "names"]
            /\ UNCHANGED <<tables, lapped, requests>>

Conflicts(w) == tx[w].mode = "fail" /\ NameTaken(tx[w].saw.items, Names(w))

ReadNames(w) ==
    /\ tx[w].step = "names"
    /\ ~Conflicts(w)
    /\ tx' = [tx EXCEPT ![w].plan = Valid(tx[w].saw.items, Planned(tx[w].saw.items, Names(w))),
                        ![w].step = "write"]
    /\ UNCHANGED <<tables, lapped, requests>>

\* PackConflictError: nothing of the transaction stays.
NameConflict(w) == tx[w].step = "names" /\ Conflicts(w) /\ RollBack(w)

\* The flushes and the commit of install_pack and update_pack.
WriteInstall(w) ==
    LET t == tx[w]
        new == NewRows(t.plan, made, t.pack)
    IN  /\ t.step = "write" /\ t.op \in {"install", "update"}
        /\ Free(w, t.pack)
        /\ IF ~Live(t.pack) \/ t.plan \cap Names(w) # {}
           THEN RollBack(w)
           ELSE /\ rows' = Kept(w) \cup new
                /\ links' = (links \ t.links) \cup {[pack |-> t.pack, row |-> r.id] : r \in new}
                /\ made' = made + Cardinality(t.plan)
                /\ packs' = [packs EXCEPT ![t.pack].installed =
                                CASE t.plan # {} -> t.saw.version
                                  [] t.plan = {} /\ t.op = "update" /\ t.saw.installed # None -> None
                                  [] OTHER -> @]
                /\ Committed(w, t.pack)
                /\ UNCHANGED <<registry, registries, synced, requests>>

WriteUninstall(w) ==
    LET p == tx[w].pack
    IN  /\ tx[w].step = "write" /\ tx[w].op = "uninstall"
        /\ Free(w, p)
        /\ IF ~Live(p)
           THEN RollBack(w)
           ELSE /\ rows' = Kept(w)
                /\ links' = links \ tx[w].links
                /\ packs' = [packs EXCEPT ![p] =
                                Put(@, tx[w].saw, [tx[w].saw EXCEPT !.installed = None])]
                /\ Committed(w, p)
                /\ UNCHANGED <<registry, registries, synced, made, requests>>

\* The row of the pack cascades to its links and clears template_pack_id.
WriteDelete(w) ==
    LET p == tx[w].pack
    IN  /\ tx[w].step = "write" /\ tx[w].op = "delete"
        /\ Free(w, p)
        /\ IF ~Live(p)
           THEN RollBack(w)
           ELSE /\ rows' = {IF r.pack = p THEN [r EXCEPT !.pack = 0] ELSE r : r \in Kept(w)}
                /\ links' = {l \in links : l.pack # p}
                /\ packs' = [packs EXCEPT ![p] = Gone]
                /\ Committed(w, p)
                /\ UNCHANGED <<registry, registries, synced, made, requests>>

\* patch_pack may change the version and the sha.
WritePatch(w) ==
    LET p == tx[w].pack
    IN  /\ tx[w].step = "write" /\ tx[w].op = "patch"
        /\ Free(w, p)
        /\ IF ~Live(p)
           THEN RollBack(w)
           ELSE /\ \E f \in {"version", "sha"} :
                      packs' = [packs EXCEPT ![p] =
                                   Put(@, tx[w].saw, [tx[w].saw EXCEPT ![f] = "edited"])]
                /\ Committed(w, p)
                /\ UNCHANGED <<registry, registries, synced, rows, links, made, requests>>

----------------------------------------------------------------------------
(* Creating packs and syncing them from a registry                         *)

InHome(home) == {p \in DOMAIN packs : packs[p].home = home}

\* Mutant: no unique index on the pack_id of a home.
RefusesUnknown(home) == home # Local /\ home # registry

\* A home that is not there, or has the pack: the foreign key and the unique indexes.
Refuses(home) == (home # Local /\ home # registry) \/ InHome(home) # {}

\* create_pack up to _duplicate_exists.
CheckDuplicate(w, home, c) ==
    /\ tx[w].step = "idle"
    /\ Count
    /\ tx' = IF ~AcceptsAssets(c) \/ InHome(home) # {} THEN tx
             ELSE [tx EXCEPT ![w] = [Idle EXCEPT !.step = "insert", !.op = "create",
                                                 !.home = home, !.content = c]]
    /\ UNCHANGED <<tables, lapped>>

\* The insert of create_pack and of upsert_synced_pack.
InsertPack(w) ==
    /\ tx[w].step = "insert"
    /\ IF Refuses(tx[w].home)
       THEN RollBack(w)
       ELSE /\ packs' = Append(packs, Row(tx[w].content, tx[w].home))
            /\ tx' = [tx EXCEPT ![w] = After(w)]
            /\ UNCHANGED <<registry, registries, synced, rows, links, made, lapped, requests>>

\* sync_registry: get_registry and get_registry_token.
BeginSync(w) ==
    /\ tx[w].step = "idle"
    /\ Count
    /\ registry # 0
    /\ tx' = [tx EXCEPT ![w] = [Idle EXCEPT !.step = "fetch", !.op = "sync", !.home = registry]]
    /\ UNCHANGED <<tables, lapped>>

\* fetch_packs: any content the repository may hold by then.
Fetch(w) ==
    /\ tx[w].step = "fetch"
    /\ \E c \in Contents :
          tx' = [tx EXCEPT ![w] = IF AcceptsAssets(c) THEN [@ EXCEPT !.content = c, !.step = "upsert"]
                                  ELSE After(w)]
    /\ UNCHANGED <<tables, lapped, requests>>

\* GitHub does not answer, or one manifest cannot be read: the sync ends.
FetchFails(w) ==
    /\ tx[w].step = "fetch"
    /\ tx' = Close(w)
    /\ UNCHANGED <<tables, lapped, requests>>

\* No templates/ directory.
FetchNothing(w) ==
    /\ tx[w].step = "fetch"
    /\ tx' = [tx EXCEPT ![w] = After(w)]
    /\ UNCHANGED <<tables, lapped, requests>>

\* upsert_synced_pack, its query; the same manifest_sha is "unchanged".
FindSynced(w) ==
    LET found == InHome(tx[w].home)
    IN  /\ tx[w].step = "upsert"
        /\ tx' = [tx EXCEPT ![w] =
                    IF found = {} THEN [@ EXCEPT !.step = "insert"]
                    ELSE LET p == CHOOSE q \in found : TRUE
                         IN  IF packs[p].sha = tx[w].content.sha THEN After(w)
                             ELSE [@ EXCEPT !.step = "write", !.pack = p, !.saw = packs[p]]]
        /\ UNCHANGED <<tables, lapped, requests>>

\* The content replaces the columns that differ and all assets; what is installed stays.
UpdateSynced(w) ==
    LET t == tx[w]
        new == [Row(t.content, t.saw.home) EXCEPT !.installed = t.saw.installed]
    IN  /\ t.step = "write" /\ t.op = "sync"
        /\ Free(w, t.pack)
        /\ IF ~Live(t.pack)
           THEN RollBack(w)
           ELSE /\ packs' = [packs EXCEPT ![t.pack] =
                                [Put(@, t.saw, new) EXCEPT !.assets = new.assets,
                                                           !.uploaded = new.uploaded]]
                /\ Committed(w, t.pack)
                /\ UNCHANGED <<registry, registries, synced, rows, links, made, requests>>

\* touch_synced; the registry may be gone by now.
TouchSynced(w) ==
    /\ tx[w].step = "touch"
    /\ synced' = IF tx[w].home = registry THEN synced \cup {registry} ELSE synced
    /\ tx' = Close(w)
    /\ UNCHANGED <<registry, registries, packs, rows, links, made, lapped, requests>>

----------------------------------------------------------------------------
(* Registries, and users who change commands and scripts                   *)

CreateRegistry ==
    /\ Count
    /\ registry = 0
    /\ registries' = registries + 1 /\ registry' = registries + 1
    /\ UNCHANGED <<synced, packs, rows, links, made, tx, lapped>>

\* Its packs become local packs, unless there is a local pack with the pack_id.
DeleteRegistry ==
    /\ Count
    /\ registry # 0
    /\ \A p \in InHome(registry) : \A v \in Workers : ~Locks(v, p)
    /\ InHome(registry) = {} \/ InHome(Local) = {}
    /\ packs' = [p \in DOMAIN packs |->
                    IF packs[p].home = registry THEN [packs[p] EXCEPT !.home = Local] ELSE packs[p]]
    /\ registry' = 0 /\ synced' = synced \ {registry}
    /\ UNCHANGED <<registries, rows, links, made, tx, lapped>>

\* A row a transaction deletes is locked by it, and its name with it.
Held(r) == \E v \in Workers : Locks(v, tx[v].pack) /\ \E l \in tx[v].links : l.row = r.id

CreateEntity(name) ==
    /\ Count
    /\ \A r \in rows : r.name # name
    /\ made' = made + 1
    /\ rows' = rows \cup {[id |-> made + 1, name |-> name, pack |-> 0, by |-> 0]}
    /\ UNCHANGED <<registry, registries, synced, packs, links, tx, lapped>>

DeleteEntity(r) ==
    /\ Count
    /\ ~Held(r)
    /\ rows' = rows \ {r}
    /\ UNCHANGED <<registry, registries, synced, packs, links, made, tx, lapped>>

----------------------------------------------------------------------------
(* Specification                                                           *)

\* The tables after a local pack was created, if it was, and installed, if it was.
Init ==
    /\ registry = 1 /\ registries = 1 /\ synced = {}
    /\ \/ packs = <<>> /\ rows = {} /\ links = {} /\ made = 0
       \/ \E c \in {d \in Contents : AcceptsAssets(d)} :
             \/ packs = <<Row(c, Local)>> /\ rows = {} /\ links = {} /\ made = 0
             \/ LET plan == Planned(c.items, {})
                IN  /\ Valid(c.items, plan) # {}
                    /\ packs = <<[Row(c, Local) EXCEPT !.installed = c.version]>>
                    /\ rows = NewRows(Valid(c.items, plan), 0, 1)
                    /\ links = {[pack |-> 1, row |-> r.id] : r \in rows}
                    /\ made = Cardinality(rows)
    /\ tx = [w \in Workers |-> Idle]
    /\ lapped = {}
    /\ requests = 0

Request(w) ==
    \/ \E p \in DOMAIN packs :
          \/ \E mode \in {"fail", "rename"} : Load(w, "install", mode, p) \/ Load(w, "update", mode, p)
          \/ Load(w, "uninstall", None, p) \/ Load(w, "delete", None, p) \/ Load(w, "patch", None, p)
    \/ \E c \in Contents : \E home \in {Local, registry} : CheckDuplicate(w, home, c)
    \/ BeginSync(w)

Step(w) ==
    \/ ReadLinks(w) \/ FlushUninstall(w) \/ ReadNames(w) \/ NameConflict(w)
    \/ WriteInstall(w) \/ WriteUninstall(w) \/ WriteDelete(w) \/ WritePatch(w)
    \/ InsertPack(w)
    \/ Fetch(w) \/ FetchFails(w) \/ FetchNothing(w) \/ FindSynced(w) \/ UpdateSynced(w) \/ TouchSynced(w)

\* The database ends a transaction: a lost connection, the victim of a deadlock.
DatabaseFails(w) == tx[w].step \notin {"idle", "fetch", "touch"} /\ RollBack(w)

Users ==
    \/ CreateRegistry \/ DeleteRegistry
    \/ \E c \in Contents : \E k \in DOMAIN c.items :
          CreateEntity([kind |-> c.items[k].kind, base |-> c.items[k].base, n |-> 0])
    \/ \E r \in rows : DeleteEntity(r)

Next == Users \/ \E w \in Workers : Request(w) \/ Step(w) \/ DatabaseFails(w)

\* The event loop runs every open request to its end.
Spec == Init /\ [][Next]_vars /\ \A w \in Workers : WF_vars(Step(w))

----------------------------------------------------------------------------
(* Properties                                                              *)

\* The constraints of the tables: one pack for each home, names in use once, and
\* links and template_pack_id that lead to a pack that is there.
TypeOK ==
    /\ \A p, q \in DOMAIN packs : p # q /\ Live(p) /\ Live(q) => packs[p].home # packs[q].home
    /\ \A p \in DOMAIN packs : Live(p) => packs[p].home \in {Local, registry}
    /\ \A r, s \in rows : r # s => r.id # s.id /\ r.name # s.name
    /\ \A l \in links : Live(l.pack)
    /\ \A r \in rows : r.pack # 0 => Live(r.pack)
    /\ synced \subseteq {registry} \ {0}
    /\ made \in Nat /\ requests \in 0..MaxRequests

\* Whatever overlaps, uninstalling can find what a pack made and touches nothing
\* else: a row that names its pack is linked to it, and a link leads to a row the
\* pack made, or to one a user deleted.
RowsTracked ==
    /\ \A r \in rows : r.pack # 0 => [pack |-> r.pack, row |-> r.id] \in links
    /\ \A l \in links, r \in rows : r.id = l.row => r.by = l.pack

\* A pack whose transactions did not overtake each other shows as installed exactly
\* while it has links, and leaves no row of its own once it is deleted.
Footprint ==
    \A p \in DOMAIN packs \ lapped :
        IF Live(p) THEN packs[p].installed # None <=> \E l \in links : l.pack = p
        ELSE \A r \in rows : r.by # p

\* The manifest, the items and the assets of a pack come from one upload or one
\* sync, unless a user edited the sha or transactions overtook each other.
StoredWhole ==
    \A p \in DOMAIN packs \ lapped :
        Live(p) /\ packs[p].sha # "edited" =>
            \E c \in Contents : /\ c.sha = packs[p].sha /\ c.items = packs[p].items
                                /\ c.assets = packs[p].uploaded

\* The archive of a pack holds the assets that were stored, byte for byte.
ArchiveFaithful ==
    \A p \in DOMAIN packs :
        Live(p) => {DecodeStored(s) : s \in packs[p].assets} = packs[p].uploaded

\* The guide, of an update that meets a name in use: "the pack is then left
\* uninstalled".
ConflictUninstalls ==
    [][\A w \in Workers :
         NameConflict(w) /\ tx[w].op = "update" => packs'[tx[w].pack].installed = None]_vars

=============================================================================
