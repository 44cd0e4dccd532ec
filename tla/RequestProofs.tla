--------------------------- MODULE RequestProofs ---------------------------
(***************************************************************************)
(* Safety of a request to the API, for every handler, any number of items  *)
(* and any number of slots; and of access control for any number of        *)
(* clients, replicas, users, tokens and edits.                             *)
(*                                                                         *)
(* The argument about requests has two parts.  The first is about the      *)
(* programs alone: WellFormed says what order of steps, and which guard,   *)
(* the properties need, and every one of the routes is shown to have it.   *)
(* The second is about one item at a time: ItemOK relates its position in  *)
(* a program to its outcome, its traces and its result, whatever the       *)
(* program, and every step preserves it (GoesOn, Fails, Succeeds).  Only   *)
(* the barrier of a batch needs to know of other items.                    *)
(***************************************************************************)
EXTENDS ServiceRequests, AccessControl, SequenceTheorems, TLAPS

----------------------------------------------------------------------------
(* The programs                                                            *)

Remotes == Reads \cup Mutates
Effects == Mutates \cup {"change", "nested"}
Changers == Effects \cup {"stage", "mark", "trust"}

\* A program that changes its node sends it one command.
Once(p) ==
    \A m, n \in 1 .. Len(p) : p[m] \in Mutates /\ p[n] \in Remotes => m = n

\* ... and looks at the command's outcome: at the exit code, or at whether there
\* is one if a lost answer does not end the item.
Confirmed(p) ==
    \A m \in 1 .. Len(p) : p[m] \in Mutates =>
        \E j \in m + 1 .. Len(p) : p[j] = "judge" \/ (p[j] = "strict" /\ p[m] # "keep")

\* An event comes after the command, the check of its exit code if there is one
\* anywhere, the audit event and the history row, and nothing that follows raises.
Announced(p) ==
    \A n \in 1 .. Len(p) : p[n] = "event" =>
        /\ \E m \in 1 .. n - 1 :
              /\ p[m] \in Mutates /\ p[m] # "keep"
              /\ (\E j \in 1 .. Len(p) : p[j] = "strict") =>
                    \E j \in m + 1 .. n - 1 : p[j] = "strict"
        /\ \E k \in 1 .. n - 1 : p[k] = "log"
        /\ (\E k \in 1 .. Len(p) : p[k] = "save") => \E k \in 1 .. n - 1 : p[k] = "save"
        /\ \A j \in n + 1 .. Len(p) : p[j] \in {"judge", "release"}

\* If anything is announced before it happens, everything is.
Audited(p) ==
    (\E n \in 1 .. Len(p) :
        p[n] = "intent" /\ \E m \in n .. Len(p) : p[m] \in Mutates \cup {"change"})
    => \A e \in 1 .. Len(p) : p[e] \in Effects => \E n \in 1 .. e - 1 : p[n] = "intent"

Kinds ==
    {"check", "require", "announce", "intent", "change", "nested", "stage", "mark", "token",
     "read", "write", "exec", "keep", "attempt", "trust", "scratch", "strict", "soft",
     "output", "judge", "log", "logQuiet", "save", "saveQuiet", "event", "barrier",
     "acquire", "release"}

Sound(p) == p \in Seq(Kinds) /\ Once(p) /\ Announced(p) /\ Audited(p)

\* Programs that send no command that changes the node, announce nothing, and ...
Calm(p) == p \in Seq(Kinds \ (Mutates \cup {"event", "intent"}))

\* ... change no row either.
Reading(p) == p \in Seq(Kinds \ (Changers \cup {"event", "intent"}))

Writing == {"write", "superuser", "service"}
Guarded == Writing \cup {"principal", "user"}

\* What the properties need of a route.
WellFormed(r) ==
    /\ Sound(r.program)
    /\ \A n \in 1 .. Len(r.program) : r.program[n] \in Changers => r.guard \in Writing
    /\ \A n \in 1 .. Len(r.program) : r.program[n] = "scratch" => r.guard \in Guarded
    /\ r.guard # "service" => Confirmed(r.program)
    /\ r.wrap = "batch" =>
          /\ Len(r.program) >= 3
          /\ r.program[2] = "intent" /\ r.program[3] = "barrier"
          /\ \A n \in 1 .. 3 : r.program[n] \notin Effects \cup {"judge", "exec", "attempt"}

\* u is s followed by t.
Joins(s, t, u, S) ==
    /\ s \in Seq(S) /\ t \in Seq(S) /\ u \in Seq(S)
    /\ Len(u) = Len(s) + Len(t)
    /\ \A i \in 1 .. Len(s) : u[i] = s[i]
    /\ \A i \in 1 .. Len(t) : u[Len(s) + i] = t[i]

\* Such a u is the concatenation.
LEMMA Join ==
    ASSUME NEW S, NEW s, NEW t, NEW u, Joins(s, t, u, S)
    PROVE  s \o t = u
<1> USE DEF Joins
<1>1. /\ s \o t \in Seq(S) /\ Len(s \o t) = Len(s) + Len(t)
      /\ \A i \in 1 .. Len(s) : (s \o t)[i] = s[i]
      /\ \A i \in 1 .. Len(t) : (s \o t)[Len(s) + i] = t[i]
  BY ConcatProperties
<1>2. ASSUME NEW i \in 1 .. Len(u) PROVE (s \o t)[i] = u[i]
  <2>1. CASE i \in 1 .. Len(s)
    BY <1>1, <2>1
  <2>2. CASE i \notin 1 .. Len(s)
    <3>1. i - Len(s) \in 1 .. Len(t) /\ i = Len(s) + (i - Len(s))
      BY <2>2
    <3> QED
      BY <1>1, <3>1
  <2> QED
    BY <2>1, <2>2
<1> QED
  BY <1>1, <1>2, SeqEqual

\* The steps of an item under a semaphore.
LEMMA SlottedSteps ==
    ASSUME NEW S, NEW p, p \in Seq(S), {"acquire", "release"} \subseteq S
    PROVE  LET q == Slotted(p) IN
           /\ q \in Seq(S) /\ Len(q) = Len(p) + 2
           /\ q[1] = "acquire" /\ q[Len(p) + 2] = "release"
           /\ \A i \in 1 .. Len(p) : q[i + 1] = p[i]
<1> PICK t : t = <<"acquire">> \o p
  OBVIOUS
<1>1. t \in Seq(S) /\ Len(t) = Len(p) + 1 /\ t[1] = "acquire"
      /\ \A i \in 1 .. Len(p) : t[i + 1] = p[i]
  OBVIOUS
<1>2. PICK q : q = t \o <<"release">>
  OBVIOUS
<1>3. /\ q \in Seq(S) /\ Len(q) = Len(t) + 1 /\ q[Len(t) + 1] = "release"
      /\ \A i \in 1 .. Len(t) : q[i] = t[i]
  BY <1>1, <1>2
<1>4. Slotted(p) = q
  BY <1>2 DEF Slotted
<1> QED
  BY <1>1, <1>3, <1>4


\* A slot around an item changes nothing of this.
LEMMA SlottedSound ==
    ASSUME NEW p, Sound(p)
    PROVE  /\ Sound(Slotted(p))
           /\ Confirmed(p) => Confirmed(Slotted(p))
           /\ \A n \in 1 .. Len(Slotted(p)) : Slotted(p)[n] \in Changers =>
                 \E m \in 1 .. Len(p) : p[m] \in Changers
           /\ \A n \in 1 .. Len(Slotted(p)) : Slotted(p)[n] = "scratch" =>
                 \E m \in 1 .. Len(p) : p[m] = "scratch"
<1> PICK q : q = Slotted(p)
  OBVIOUS
<1>1. p \in Seq(Kinds) /\ Len(p) \in Nat
  BY DEF Sound
<1>2. /\ q \in Seq(Kinds) /\ Len(q) = Len(p) + 2
      /\ q[1] = "acquire" /\ q[Len(p) + 2] = "release"
      /\ \A i \in 1 .. Len(p) : q[i + 1] = p[i]
  BY <1>1, SlottedSteps, {"acquire", "release"} \subseteq Kinds DEF Kinds
<1>3. ASSUME NEW n \in 1 .. Len(q), q[n] \notin {"acquire", "release"}
      PROVE  n - 1 \in 1 .. Len(p) /\ q[n] = p[n - 1]
  <2>1. n # 1 /\ n # Len(p) + 2
    BY <1>2, <1>3
  <2>2. n - 1 \in 1 .. Len(p) /\ n = (n - 1) + 1
    BY <1>1, <1>2, <2>1
  <2> QED
    BY <1>2, <2>2
<1>4. Once(q)
  <2> SUFFICES ASSUME NEW m \in 1 .. Len(q), NEW n \in 1 .. Len(q),
                      q[m] \in Mutates, q[n] \in Remotes
               PROVE  m = n
    BY DEF Once
  <2>1. q[m] \notin {"acquire", "release"} /\ q[n] \notin {"acquire", "release"}
    BY DEF Mutates, Remotes, Reads
  <2>2. m - 1 = n - 1
    BY <1>3, <2>1 DEF Sound, Once
  <2> QED
    BY <2>2
<1>5. ASSUME Confirmed(p) PROVE Confirmed(q)
  <2> SUFFICES ASSUME NEW m \in 1 .. Len(q), q[m] \in Mutates
               PROVE  \E j \in m + 1 .. Len(q) :
                         q[j] = "judge" \/ (q[j] = "strict" /\ q[m] # "keep")
    BY DEF Confirmed
  <2>1. m - 1 \in 1 .. Len(p) /\ q[m] = p[m - 1]
    BY <1>3 DEF Mutates
  <2>2. PICK j \in (m - 1) + 1 .. Len(p) :
           p[j] = "judge" \/ (p[j] = "strict" /\ p[m - 1] # "keep")
    BY <1>5, <2>1 DEF Confirmed
  <2>3. j + 1 \in m + 1 .. Len(q) /\ q[j + 1] = p[j]
    BY <1>1, <1>2, <2>1, <2>2
  <2> QED
    BY <2>1, <2>2, <2>3
<1>6. Announced(q)
  <2> SUFFICES ASSUME NEW n \in 1 .. Len(q), q[n] = "event"
               PROVE
        /\ \E m \in 1 .. n - 1 :
              /\ q[m] \in Mutates /\ q[m] # "keep"
              /\ (\E j \in 1 .. Len(q) : q[j] = "strict") =>
                    \E j \in m + 1 .. n - 1 : q[j] = "strict"
        /\ \E k \in 1 .. n - 1 : q[k] = "log"
        /\ (\E k \in 1 .. Len(q) : q[k] = "save") => \E k \in 1 .. n - 1 : q[k] = "save"
        /\ \A j \in n + 1 .. Len(q) : q[j] \in {"judge", "release"}
    BY DEF Announced
  <2>1. PICK a : a = n - 1
    OBVIOUS
  <2>2. a \in 1 .. Len(p) /\ p[a] = "event" /\ n = a + 1
    BY <1>3, <2>1
  <2>3. /\ \E m \in 1 .. a - 1 :
              /\ p[m] \in Mutates /\ p[m] # "keep"
              /\ (\E j \in 1 .. Len(p) : p[j] = "strict") =>
                    \E j \in m + 1 .. a - 1 : p[j] = "strict"
        /\ \E k \in 1 .. a - 1 : p[k] = "log"
        /\ (\E k \in 1 .. Len(p) : p[k] = "save") => \E k \in 1 .. a - 1 : p[k] = "save"
        /\ \A j \in a + 1 .. Len(p) : p[j] \in {"judge", "release"}
    BY <2>2 DEF Sound, Announced
  <2>4. PICK m \in 1 .. a - 1 :
           /\ p[m] \in Mutates /\ p[m] # "keep"
           /\ (\E j \in 1 .. Len(p) : p[j] = "strict") =>
                 \E j \in m + 1 .. a - 1 : p[j] = "strict"
    BY <2>3
  <2>5. m + 1 \in 1 .. n - 1 /\ q[m + 1] = p[m]
    BY <1>1, <1>2, <2>2
  <2>6. ASSUME NEW j \in 1 .. Len(q), q[j] = "strict"
        PROVE  \E i \in (m + 1) + 1 .. n - 1 : q[i] = "strict"
    <3>1. PICK i \in m + 1 .. a - 1 : p[i] = "strict"
      BY <1>3, <2>4, <2>6
    <3>2. i \in 1 .. Len(p) /\ i + 1 \in (m + 1) + 1 .. n - 1
      BY <1>1, <2>2
    <3>3. q[i + 1] = "strict"
      BY <1>2, <3>1, <3>2
    <3> QED
      BY <3>2, <3>3
  <2>7. \E k \in 1 .. n - 1 : q[k] = "log"
    <3>1. PICK k \in 1 .. a - 1 : p[k] = "log"
      BY <2>3
    <3>2. k + 1 \in 1 .. n - 1 /\ q[k + 1] = "log"
      BY <1>1, <1>2, <2>2, <3>1
    <3> QED
      BY <3>2
  <2>8. ASSUME NEW j \in 1 .. Len(q), q[j] = "save"
        PROVE  \E k \in 1 .. n - 1 : q[k] = "save"
    <3>1. PICK k \in 1 .. a - 1 : p[k] = "save"
      BY <1>3, <2>3, <2>8
    <3>2. k \in 1 .. Len(p) /\ k + 1 \in 1 .. n - 1
      BY <1>1, <2>2
    <3>3. q[k + 1] = "save"
      BY <1>2, <3>1, <3>2
    <3> QED
      BY <3>2, <3>3
  <2>9. ASSUME NEW j \in n + 1 .. Len(q) PROVE q[j] \in {"judge", "release"}
    <3>1. CASE j = Len(p) + 2
      BY <1>2, <3>1
    <3>2. CASE j # Len(p) + 2
      <4>1. /\ j - 1 \in a + 1 .. Len(p) /\ j = (j - 1) + 1
            /\ j - 1 \in 1 .. Len(p)
        BY <1>1, <1>2, <2>2, <3>2
      <4>2. q[j] = p[j - 1]
        BY <1>2, <4>1
      <4> QED
        BY <2>3, <4>1, <4>2
    <3> QED
      BY <3>1, <3>2
  <2> QED
    BY <2>4, <2>5, <2>6, <2>7, <2>8, <2>9
<1>7. Audited(q)
  <2> SUFFICES ASSUME NEW n \in 1 .. Len(q), q[n] = "intent",
                      NEW m \in n .. Len(q), q[m] \in Mutates \cup {"change"},
                      NEW e \in 1 .. Len(q), q[e] \in Effects
               PROVE  \E i \in 1 .. e - 1 : q[i] = "intent"
    BY DEF Audited
  <2>1. /\ n - 1 \in 1 .. Len(p) /\ p[n - 1] = "intent"
        /\ m - 1 \in n - 1 .. Len(p) /\ p[m - 1] \in Mutates \cup {"change"}
        /\ e - 1 \in 1 .. Len(p) /\ p[e - 1] \in Effects
    BY <1>1, <1>2, <1>3 DEF Mutates, Effects
  <2>2. PICK i \in 1 .. (e - 1) - 1 : p[i] = "intent"
    BY <2>1 DEF Sound, Audited
  <2>3. i \in 1 .. Len(p) /\ i + 1 \in 1 .. e - 1
    BY <1>1, <2>1
  <2>4. q[i + 1] = "intent"
    BY <1>2, <2>2, <2>3
  <2> QED
    BY <2>3, <2>4
<1>8. ASSUME NEW n \in 1 .. Len(q), q[n] \in Changers
      PROVE  \E m \in 1 .. Len(p) : p[m] \in Changers
  BY <1>3, <1>8 DEF Changers, Effects, Mutates
<1>9. ASSUME NEW n \in 1 .. Len(q), q[n] = "scratch"
      PROVE  \E m \in 1 .. Len(p) : p[m] = "scratch"
  BY <1>3, <1>9
<1> QED
  BY <1>2, <1>4, <1>5, <1>6, <1>7, <1>8, <1>9 DEF Sound

\* A calm program has nothing to confirm.
LEMMA CalmIsSound ==
    ASSUME NEW p, Calm(p)
    PROVE  Sound(p) /\ Confirmed(p)
  BY DEF Calm, Sound, Confirmed, Once, Announced, Audited, Kinds, Effects, Remotes, Reads,
         Mutates

\* A program that only reads is calm, and none of its steps changes anything.
LEMMA ReadingIsCalm ==
    ASSUME NEW p, Reading(p)
    PROVE  Calm(p) /\ \A n \in 1 .. Len(p) : p[n] \notin Changers
<1>1. p \in Seq(Kinds \ (Changers \cup {"event", "intent"}))
  BY DEF Reading
<1>2. Kinds \ (Changers \cup {"event", "intent"}) \subseteq
      Kinds \ (Mutates \cup {"event", "intent"})
  BY DEF Changers, Effects
<1> QED
  BY <1>1, <1>2 DEF Calm

\* The route of an operation, for each kind of operation.
LEMMA RouteWellFormed ==
    ASSUME NEW guard, NEW wrap, NEW p, wrap # "batch", Sound(p),
           guard \in Writing \/ Reading(p),
           guard = "service" \/ Confirmed(p),
           guard \in Guarded \/ \A n \in 1 .. Len(p) : p[n] # "scratch"
    PROVE  WellFormed(Route(guard, wrap, p))
<1> PICK r : r = Route(guard, wrap, p)
  OBVIOUS
<1>1. /\ r.guard = guard /\ r.wrap = wrap
      /\ r.program = IF wrap = "each" THEN Slotted(p) ELSE p
  BY DEF Route
<1>2. \A n \in 1 .. Len(p) : p[n] \in Changers => guard \in Writing
  BY ReadingIsCalm
<1>3. CASE wrap = "each"
  BY <1>1, <1>2, <1>3, SlottedSound DEF WellFormed
<1>4. CASE wrap # "each"
  BY <1>1, <1>2, <1>4 DEF WellFormed
<1> QED
  BY <1>3, <1>4

\* What follows a program that only reads may be another.
LEMMA ReadingTogether ==
    ASSUME NEW s, NEW t, Reading(s), Reading(t)
    PROVE  Reading(s \o t)
  BY DEF Reading

\* The programs of the operations that look something up, and parts of them.
LEMMA ReadingPrograms ==
    /\ Reading(<<"check", "read", "strict", "log">>)
    /\ Reading(<<"check", "read", "strict", "output", "log">>)
    /\ Reading(<<"check", "read", "strict", "output">>)
    /\ Reading(<<"check", "read", "strict">>)
    /\ Reading(<<"check">>)
    /\ Reading(<<"require", "barrier", "check", "read">>)
    /\ Reading(<<"check", "read">>)
    /\ Reading(<<"check", "token">>)
    /\ Reading(<<"token">>)
    /\ Reading(<<"check", "scratch", "read", "strict">>)
    /\ Reading(<<"require", "check", "barrier">>)
    /\ Reading(<<"read", "judge">>)
    /\ Reading(<<"check", "check", "scratch", "attempt">>)
    /\ Reading(<<"check", "check", "attempt">>)
  BY DEF Reading, Kinds, Changers, Effects, Mutates

\* The operations whose handlers have no guard.
OpenOperations ==
    {Auth_login, Auth_refresh_access_token, Auth_logout, Health_check_db}

\* They leave nothing on a node.
LEMMA OpenOperationsOK ==
    \A p \in OpenOperations : \A n \in 1 .. Len(p) : p[n] # "scratch"
  BY DEF OpenOperations, Auth_login, Auth_refresh_access_token, Auth_logout, Health_check_db

\* The operations that look something up.
ReadingOperations ==
    {Container_list_containers, Container_get_container, Container_get_logs,
     Container_get_stats, Container_top_container, Container_get_archive,
     Container_get_port, Container_wait_container, Image_list_images,
     Image_inspect_image, Image_image_history, Resource_list_networks,
     Resource_list_volumes, Resource_inspect_network, Resource_inspect_volume,
     System_info, System_disk_usage, System_version, DockerBulk_bulk_inspect,
     DockerBulk_bulk_logs, DockerBulk_bulk_stats, Compose_list_all_projects,
     Compose_get_project, Compose_ps, Compose_logs, Compose_config, Compose_images,
     Compose_top, Compose_port, Compose_version, Node_get_node,
     Node_get_nodes_cursor, Node_get_all_tags, Exec_validate_credentials_bulk,
     Exec_collect_metrics, Command_get_command, Command_get_all_commands,
     Command_get_all_tags, Script_get_script, Script_get_all_scripts,
     Script_get_all_tags, Lifecycle_retry_command, Lifecycle_retry_script,
     Schedule_get, History_get_batch_history, History_get_command_history,
     History_get_executions, History_get_status_history, Stats_get, Audit_get_logs,
     Audit_export, Search_search, Health_check_db, Favorite_list_favorites,
     Favorite_get_favorite, User_list_users, User_get_user, APIKey_get_api_key,
     APIKey_list_api_keys, Auth_login, Auth_refresh_access_token, Auth_logout,
     Auth_get_current_user, Pack_list_packs, Pack_get_pack_detail,
     Pack_get_assets_tar, Pack_list_installations, Pack_get_stats,
     Registry_list_registries, Registry_get_registry, Config_export_all}

\* They only read.
LEMMA ReadingOperationsOK == \A p \in ReadingOperations : Reading(p)
<1>1. /\ Reading(Compose_run_compose("read")) /\ Reading(<<"check">>)
      /\ Reading(DockerBulk_prepare)
  BY ReadingPrograms DEF Compose_run_compose, DockerBulk_prepare
<1>2. /\ Reading(<<"check">> \o Compose_run_compose("read"))
      /\ Reading(<<"check", "check", "scratch", "attempt">> \o
                 Compose_run_compose("read"))
      /\ Reading(<<"check", "check", "attempt">> \o Compose_run_compose("read"))
      /\ Reading(DockerBulk_prepare \o <<"read", "judge">>)
  BY <1>1, ReadingPrograms, ReadingTogether
<1> QED
  BY <1>2, ReadingPrograms
     DEF ReadingOperations, Container_list_containers, Container_get_container,
         Container_get_logs, Container_get_stats, Container_top_container,
         Container_get_archive, Container_get_port, Container_wait_container,
         Image_list_images, Image_inspect_image, Image_image_history,
         Resource_list_networks, Resource_list_raw, Resource_list_volumes,
         Resource_inspect_network, Resource_inspect_volume, System_info,
         System_disk_usage, System_version, DockerBulk_bulk_inspect,
         DockerBulk_bulk_logs, DockerBulk_bulk_stats, Compose_list_all_projects,
         Compose_get_project, Compose_ps, Compose_logs, Compose_config,
         Compose_images, Compose_top, Compose_port, Compose_version, Node_get_node,
         Node_get_nodes_cursor, Node_get_all_tags, Exec_validate_credentials_bulk,
         Exec_collect_metrics, Command_get_command, Command_get_all_commands,
         Command_get_all_tags, Script_get_script, Script_get_all_scripts,
         Script_get_all_tags, Lifecycle_retry_command, Lifecycle_retry_script,
         Schedule_get, History_get_batch_history, History_get_command_history,
         History_get_executions, History_get_status_history, Stats_get,
         Audit_get_logs, Audit_export, Search_search, Health_check_db,
         Favorite_list_favorites, Favorite_get_favorite, User_list_users,
         User_get_user, APIKey_get_api_key, APIKey_list_api_keys, Auth_login,
         Auth_refresh_access_token, Auth_logout, Auth_get_current_user,
         Pack_list_packs, Pack_get_pack_detail, Pack_get_assets_tar,
         Pack_list_installations, Pack_get_stats, Registry_list_registries,
         Registry_get_registry, Config_export_all

\* The programs of the operations that write rows and announce nothing.
LEMMA CalmPrograms ==
    /\ Calm(<<"check", "change">>)
    /\ Calm(<<"nested">>)
    /\ Calm(<<"change", "log">>)
    /\ Calm(<<"nested", "log">>)
    /\ Calm(<<"check", "log", "change">>)
    /\ Calm(<<"check", "change", "log">>)
    /\ Calm(<<"change">>)
    /\ Calm(<<"stage">>)
    /\ Calm(<<"check", "stage">>)
    /\ Calm(<<"check", "mark">>)
    /\ Calm(<<"check", "nested">>)
    /\ Calm(<<"check", "read", "nested">>)
  BY DEF Calm, Kinds, Mutates

\* The operations that write to the database and announce nothing before.
CalmOperations ==
    {Compose_create_project, Compose_update_project, Compose_delete_project,
     Compose_upsert_project, Node_add_tag, Node_remove_tag, NodeBulk_bulk_delete,
     NodeBulk_bulk_add_tags, NodeBulk_bulk_remove_tags, NodeBulk_bulk_check,
     Exec_refresh_host_key, Command_create_command, Command_update_command,
     Command_delete_command, Command_clone_command, Script_create_script,
     Script_update_script, Script_delete_script, Script_clone_script,
     Lifecycle_cancel_execution, Script_execute_script, Schedule_create_or_update,
     Schedule_delete, Audit_delete_all_logs, Favorite_add_favorite,
     Favorite_update_favorite, Favorite_remove_favorite, User_create_user,
     User_patch_user, User_delete_user, APIKey_create_api_key,
     APIKey_update_api_key, APIKey_revoke_api_key, Pack_create_pack,
     Pack_install_pack, Pack_uninstall_pack, Pack_update_pack, Pack_patch_pack,
     Pack_delete_pack, Registry_create_registry, Registry_delete_registry,
     Registry_patch_registry, Registry_sync_registry, Config_import_config}

\* They are calm.
LEMMA CalmOperationsOK == \A p \in CalmOperations : Calm(p)
  BY CalmPrograms
     DEF CalmOperations, Compose_create_project, Compose_update_project,
         Compose_delete_project, Compose_upsert_project, Node_add_tag,
         Node_remove_tag, NodeBulk_bulk_delete, NodeBulk_bulk_add_tags,
         NodeBulk_bulk_remove_tags, NodeBulk_bulk_check, Exec_refresh_host_key,
         Command_create_command, Command_update_command, Command_delete_command,
         Command_clone_command, Script_create_script, Script_update_script,
         Script_delete_script, Script_clone_script, Lifecycle_cancel_execution,
         Script_execute_script, Schedule_create_or_update, Schedule_delete,
         Audit_delete_all_logs, Favorite_add_favorite, Favorite_update_favorite,
         Favorite_remove_favorite, User_create_user, User_patch_user,
         User_delete_user, APIKey_create_api_key, APIKey_update_api_key,
         APIKey_revoke_api_key, Pack_create_pack, Pack_install_pack,
         Pack_uninstall_pack, Pack_update_pack, Pack_patch_pack, Pack_delete_pack,
         Registry_create_registry, Registry_delete_registry,
         Registry_patch_registry, Registry_sync_registry, Config_import_config

\* The operations that are put together.
LEMMA ComposeWrites ==
    /\ Compose_up = <<"require", "barrier", "check", "scratch", "write", "strict">>
    /\ Compose_verb_bulk = Compose_up
    /\ Compose_down = <<"check", "check", "scratch", "write", "strict">>
    /\ Compose_exec = Compose_down /\ Compose_run = Compose_down
<1>1. Joins(<<"require", "barrier">>, Compose_run_compose("write"),
            <<"require", "barrier", "check", "scratch", "write", "strict">>, Kinds)
  BY DEF Joins, Compose_run_compose, Kinds
<1>2. Joins(<<"check">>, Compose_run_compose("write"),
            <<"check", "check", "scratch", "write", "strict">>, Kinds)
  BY DEF Joins, Compose_run_compose, Kinds
<1> QED
  BY <1>1, <1>2, Join DEF Compose_up, Compose_verb_bulk, Compose_bulk_verb, Compose_down,
     Compose_exec, Compose_run

\* DockerBulkService resolves its targets first.
LEMMA DockerBulkWrites ==
    /\ DockerBulk_bulk_container_action = <<"require", "check", "barrier", "write", "soft">>
    /\ DockerBulk_bulk_pull_image = DockerBulk_bulk_container_action
    /\ DockerBulk_bulk_image_remove = DockerBulk_bulk_container_action
    /\ DockerBulk_bulk_image_build = DockerBulk_bulk_container_action
    /\ DockerBulk_bulk_exec = <<"require", "check", "barrier", "write", "judge">>
<1>1. Joins(DockerBulk_prepare, <<"write", "soft">>,
            <<"require", "check", "barrier", "write", "soft">>, Kinds)
  BY DEF Joins, DockerBulk_prepare, Kinds
<1>2. Joins(DockerBulk_prepare, <<"write", "judge">>,
            <<"require", "check", "barrier", "write", "judge">>, Kinds)
  BY DEF Joins, DockerBulk_prepare, Kinds
<1> QED
  BY <1>1, <1>2, Join DEF DockerBulk_bulk_container_action, DockerBulk_bulk_pull_image,
     DockerBulk_bulk_image_remove, DockerBulk_bulk_image_build, DockerBulk_bulk_exec

\* NodeBulkCommandService.execute.
LEMMA BatchSteps ==
    Exec_execute =
        <<"require", "intent", "barrier", "acquire", "check", "keep", "release", "barrier",
          "save", "barrier", "logQuiet", "judge">>
<1>1. Joins(<<"require", "intent", "barrier">>, Exec_on_single_node,
            <<"require", "intent", "barrier", "acquire", "check", "keep", "release">>, Kinds)
  BY DEF Joins, Exec_on_single_node, Kinds
<1>2. Joins(<<"require", "intent", "barrier", "acquire", "check", "keep", "release">>,
            <<"barrier">>,
            <<"require", "intent", "barrier", "acquire", "check", "keep", "release",
              "barrier">>, Kinds)
  BY DEF Joins, Kinds
<1>3. Joins(<<"require", "intent", "barrier", "acquire", "check", "keep", "release",
              "barrier">>, Exec_save_history,
            <<"require", "intent", "barrier", "acquire", "check", "keep", "release",
              "barrier", "save">>, Kinds)
  BY DEF Joins, Exec_save_history, Kinds
<1>4. Joins(<<"require", "intent", "barrier", "acquire", "check", "keep", "release",
              "barrier", "save">>, <<"barrier", "logQuiet", "judge">>,
            <<"require", "intent", "barrier", "acquire", "check", "keep", "release",
              "barrier", "save", "barrier", "logQuiet", "judge">>, Kinds)
  BY DEF Joins, Kinds
<1> QED
  BY <1>1, <1>2, <1>3, <1>4, Join DEF Exec_execute

\* The programs of the operations that change a node or announce a change, ...
EffectPrograms ==
    {<<"check", "intent", "write", "strict", "output", "log">>,
     <<"check", "intent", "write", "strict", "log", "event">>,
     <<"check", "intent", "exec", "log", "judge">>,
     <<"check", "write", "strict", "log", "event">>,
     <<"check", "intent", "write", "strict", "log">>,
     <<"check", "write", "strict", "log">>,
     <<"check", "intent", "keep", "strict", "log", "judge">>,
     <<"check", "write", "strict">>,
     <<"require", "check", "barrier", "write", "judge">>,
     <<"require", "barrier", "check", "scratch", "write", "strict">>,
     <<"check", "check", "scratch", "write", "strict">>,
     <<"trust", "change", "intent">>,
     <<"check", "trust", "intent", "change", "saveQuiet">>,
     <<"check", "intent", "change">>,
     <<"check", "intent", "announce", "write", "log", "save", "judge">>,
     <<"require", "intent", "barrier", "acquire", "check", "keep", "release",
       "barrier", "save", "barrier", "logQuiet", "judge">>,
     <<"check", "announce", "write", "log", "save", "event", "judge">>}

\* ... and the ones that trust a command that says nothing.
SoftPrograms == {<<"require", "check", "barrier", "write", "soft">>}

\* The order of their steps is sound, one program at a time.
LEMMA EffectProgramsOK ==
    /\ \A p \in EffectPrograms : Sound(p) /\ Confirmed(p)
    /\ \A p \in SoftPrograms : Sound(p)
<1> USE DEF Sound, Confirmed, Kinds, Once, Announced, Audited, Effects, Remotes, Reads, Mutates
<1>1. /\ Sound(<<"check", "intent", "write", "strict", "output", "log">>)
      /\ Confirmed(<<"check", "intent", "write", "strict", "output", "log">>)
  OBVIOUS
<1>2. /\ Sound(<<"check", "intent", "write", "strict", "log", "event">>)
      /\ Confirmed(<<"check", "intent", "write", "strict", "log", "event">>)
  OBVIOUS
<1>3. /\ Sound(<<"check", "intent", "exec", "log", "judge">>)
      /\ Confirmed(<<"check", "intent", "exec", "log", "judge">>)
  OBVIOUS
<1>4. /\ Sound(<<"check", "write", "strict", "log", "event">>)
      /\ Confirmed(<<"check", "write", "strict", "log", "event">>)
  OBVIOUS
<1>5. /\ Sound(<<"check", "intent", "write", "strict", "log">>)
      /\ Confirmed(<<"check", "intent", "write", "strict", "log">>)
  OBVIOUS
<1>6. /\ Sound(<<"check", "write", "strict", "log">>)
      /\ Confirmed(<<"check", "write", "strict", "log">>)
  OBVIOUS
<1>7. /\ Sound(<<"check", "intent", "keep", "strict", "log", "judge">>)
      /\ Confirmed(<<"check", "intent", "keep", "strict", "log", "judge">>)
  OBVIOUS
<1>8. /\ Sound(<<"check", "write", "strict">>)
      /\ Confirmed(<<"check", "write", "strict">>)
  OBVIOUS
<1>9. /\ Sound(<<"require", "check", "barrier", "write", "judge">>)
      /\ Confirmed(<<"require", "check", "barrier", "write", "judge">>)
  OBVIOUS
<1>10. /\ Sound(<<"require", "barrier", "check", "scratch", "write", "strict">>)
       /\ Confirmed(<<"require", "barrier", "check", "scratch", "write",
                   "strict">>)
  OBVIOUS
<1>11. /\ Sound(<<"check", "check", "scratch", "write", "strict">>)
       /\ Confirmed(<<"check", "check", "scratch", "write", "strict">>)
  OBVIOUS
<1>12. /\ Sound(<<"trust", "change", "intent">>)
       /\ Confirmed(<<"trust", "change", "intent">>)
  OBVIOUS
<1>13. /\ Sound(<<"check", "trust", "intent", "change", "saveQuiet">>)
       /\ Confirmed(<<"check", "trust", "intent", "change", "saveQuiet">>)
  OBVIOUS
<1>14. /\ Sound(<<"check", "intent", "change">>)
       /\ Confirmed(<<"check", "intent", "change">>)
  OBVIOUS
<1>15. /\ Sound(<<"check", "intent", "announce", "write", "log", "save", "judge">>)
       /\ Confirmed(<<"check", "intent", "announce", "write", "log", "save", "judge">>)
  OBVIOUS
<1>16. /\ Sound(<<"require", "intent", "barrier", "acquire", "check", "keep", "release",
               "barrier", "save", "barrier", "logQuiet", "judge">>)
       /\ Confirmed(<<"require", "intent", "barrier", "acquire", "check", "keep",
                   "release", "barrier", "save", "barrier", "logQuiet", "judge">>)
  OBVIOUS
<1>17. /\ Sound(<<"check", "announce", "write", "log", "save", "event", "judge">>)
       /\ Confirmed(<<"check", "announce", "write", "log", "save", "event", "judge">>)
  OBVIOUS
<1>18. Sound(<<"require", "check", "barrier", "write", "soft">>)
  OBVIOUS
<1> HIDE DEF Sound, Confirmed
<1> QED
  BY <1>1, <1>2, <1>3, <1>4, <1>5, <1>6, <1>7, <1>8, <1>9, <1>10, <1>11, <1>12,
     <1>13, <1>14, <1>15, <1>16, <1>17, <1>18
     DEF EffectPrograms, SoftPrograms

\* The operations with such programs.
EffectOperations ==
    {Container_create_container, Container_start_container,
     Container_stop_container, Container_restart_container,
     Container_remove_container, Container_exec_command, Container_pause_container,
     Container_unpause_container, Container_rename_container,
     Container_kill_container, Container_update_container, Container_put_archive,
     Image_pull_image, Image_remove_image, Image_tag_image, Image_build_image,
     Image_push_image, Resource_create_network, Resource_remove_network,
     Resource_connect_to_network, Resource_disconnect_from_network,
     Resource_create_volume, Resource_remove_volume, Resource_prune_volumes,
     Resource_prune_networks, System_prune_containers, System_prune_images,
     System_system_prune, Compose_up, Compose_down, Compose_verb_bulk, Compose_exec,
     Compose_run, Node_create_node, Node_update_node, Node_delete_node,
     Exec_node_execute_command, Exec_execute, Exec_command_execute_command}

SoftOperations ==
    {DockerBulk_bulk_container_action, DockerBulk_bulk_exec,
     DockerBulk_bulk_pull_image, DockerBulk_bulk_image_remove,
     DockerBulk_bulk_image_build}

\* So are the operations that run them.
LEMMA EffectOperationsOK ==
    /\ \A p \in EffectOperations : Sound(p) /\ Confirmed(p)
    /\ \A p \in SoftOperations : Sound(p)
  BY EffectProgramsOK, ComposeWrites, DockerBulkWrites, BatchSteps
     DEF EffectOperations, SoftOperations, EffectPrograms, SoftPrograms,
         Container_create_container, Container_start_container,
         Container_lifecycle_action, Container_stop_container,
         Container_restart_container, Container_remove_container,
         Container_exec_command, Container_pause_container,
         Container_unpause_container, Container_rename_container,
         Container_kill_container, Container_update_container,
         Container_put_archive, Image_pull_image, Image_remove_image,
         Image_tag_image, Image_build_image, Image_push_image,
         Resource_create_network, Resource_remove_network,
         Resource_connect_to_network, Resource_disconnect_from_network,
         Resource_create_volume, Resource_remove_volume, Resource_prune_volumes,
         Resource_prune_networks, System_prune_containers, System_prune_images,
         System_system_prune, Node_create_node, Node_update_node, Node_delete_node,
         Exec_node_execute_command, Exec_command_execute_command

----------------------------------------------------------------------------
(* The routes                                                              *)

Served(r) == WellFormed(r) /\ r.wrap # "none"

\* A handler that is guarded as its operation demands.
LEMMA GuardedRoute ==
    ASSUME NEW guard, NEW wrap, NEW p, wrap \notin {"none", "batch"},
           \/ p \in ReadingOperations /\ (guard \in Guarded \/ p \in OpenOperations)
           \/ p \in CalmOperations \cup EffectOperations /\ guard \in Writing
           \/ p \in SoftOperations /\ guard = "service"
    PROVE  Served(Route(guard, wrap, p))
<1>0. Route(guard, wrap, p).wrap = wrap
  BY DEF Route
<1> SUFFICES WellFormed(Route(guard, wrap, p))
  BY <1>0 DEF Served
<1>1. CASE p \in ReadingOperations /\ (guard \in Guarded \/ p \in OpenOperations)
  BY <1>1, ReadingOperationsOK, OpenOperationsOK, ReadingIsCalm, CalmIsSound, RouteWellFormed
<1>2. CASE p \in CalmOperations /\ guard \in Writing
  BY <1>2, CalmOperationsOK, CalmIsSound, RouteWellFormed DEF Writing, Guarded
<1>3. CASE p \in EffectOperations /\ guard \in Writing
  BY <1>3, EffectOperationsOK, RouteWellFormed DEF Writing, Guarded
<1>4. CASE p \in SoftOperations /\ guard = "service"
  BY <1>4, EffectOperationsOK, RouteWellFormed DEF Writing, Guarded
<1> QED
  BY <1>1, <1>2, <1>3, <1>4

\* The two batch handlers write every intent before the first barrier.
LEMMA BatchRoute == Served(Route("write", "batch", Exec_execute))
<1> PICK r : r = Route("write", "batch", Exec_execute)
  OBVIOUS
<1>1. /\ r.guard = "write" /\ r.wrap = "batch"
      /\ r.program =
            <<"require", "intent", "barrier", "acquire", "check", "keep", "release",
              "barrier", "save", "barrier", "logQuiet", "judge">>
  BY BatchSteps DEF Route
<1>2. Sound(r.program) /\ Confirmed(r.program)
  BY <1>1, EffectProgramsOK DEF EffectPrograms
<1>3. PICK p : p = r.program
  OBVIOUS
<1>4. Len(p) = 12 /\ p[1] = "require" /\ p[2] = "intent" /\ p[3] = "barrier"
  BY <1>1, <1>3
<1>5. \A n \in 1 .. 3 : p[n] \in {"require", "intent", "barrier"}
  <2>1. \A n \in 1 .. 3 : n \in {1, 2, 3}
    OBVIOUS
  <2> QED
    BY <1>4, <2>1
<1>6. \A n \in 1 .. 3 : p[n] \notin Effects \cup {"judge", "exec", "attempt"}
  BY <1>5 DEF Effects, Mutates
<1> QED
  BY <1>1, <1>2, <1>3, <1>4, <1>6 DEF Served, WellFormed, Writing, Guarded

\* api_keys.py.
LEMMA AllApiKeyRoutes == \A r \in ApiKeyRoutes : Served(r)
  BY GuardedRoute
     DEF ApiKeyRoutes, api_create_api_key, api_list_api_keys,
         api_bulk_revoke_api_keys, api_get_api_key, api_update_api_key,
         api_revoke_api_key, Guarded, Writing, CalmOperations, ReadingOperations

\* audit.py.
LEMMA AllAuditRoutes == \A r \in AuditRoutes : Served(r)
  BY GuardedRoute
     DEF AuditRoutes, api_list_audit_logs, api_get_audit_log, api_delete_audit_logs,
         api_export_audit, api_get_audit_stats, Guarded, Writing, ReadingOperations,
         CalmOperations

\* commands.py.
LEMMA AllCommandRoutes == \A r \in CommandRoutes : Served(r)
  BY GuardedRoute, BatchRoute
     DEF CommandRoutes, api_bulk_update_commands, api_bulk_delete_commands,
         api_get_command, api_update_command, api_delete_command, api_clone_command,
         api_bulk_executions, api_bulk_raw_executions, api_get_executions_history,
         api_get_executions_by_batch_alias, api_bulk_retry_executions,
         api_bulk_cancel_executions, api_get_command_history,
         api_get_command_executions_by_command, api_list_commands,
         api_bulk_create_commands, api_list_command_tags, api_get_commands_stats,
         api_get_command_stats, Guarded, Writing, CalmOperations, ReadingOperations,
         EffectOperations

\* compose.py.
LEMMA AllComposeRoutes == \A r \in ComposeRoutes : Served(r)
  BY GuardedRoute
     DEF ComposeRoutes, api_compose_pauses, api_compose_unpauses, api_compose_kills,
         api_compose_starts, api_compose_stops, api_compose_restarts,
         api_compose_creates, api_compose_rms, api_compose_pulls, api_compose_pushs,
         api_compose_builds, api_create_project, api_list_projects, api_get_project,
         api_update_project, api_delete_project, api_compose_exec, api_compose_run,
         api_compose_ps, api_compose_logs, api_compose_config, api_compose_images,
         api_compose_top, api_compose_port, api_compose_version, api_compose_up,
         api_compose_down, Guarded, Writing, EffectOperations, CalmOperations,
         ReadingOperations

\* config.py.
LEMMA AllConfigRoutes == \A r \in ConfigRoutes : Served(r)
  BY GuardedRoute
     DEF ConfigRoutes, api_export_config, api_import_config, Guarded, Writing,
         ReadingOperations, CalmOperations

\* docker.py.
LEMMA AllDockerRoutes == \A r \in DockerRoutes : Served(r)
  BY GuardedRoute
     DEF DockerRoutes, api_docker_bulk_executions, api_bulk_inspections,
         api_bulk_logs, api_bulk_stats, api_bulk_unpauses, api_bulk_kills,
         api_bulk_updates, api_prune_containers, api_bulk_starts, api_bulk_stops,
         api_bulk_restarts, api_bulk_removals, api_bulk_pauses,
         api_create_container, api_list_containers, api_get_container,
         api_remove_container, api_rename_container, api_get_logs, api_exec_command,
         api_top_container, api_get_stats, api_get_archive, api_put_archive,
         api_start_container, api_stop_container, api_restart_container,
         api_pause_container, api_unpause_container, api_kill_container,
         api_update_container, api_get_port, api_wait_container, api_list_images,
         api_pull_image, api_build_image, api_image_history, api_inspect_image,
         api_prune_images, api_bulk_pulls, api_bulk_image_removals, api_tag_image,
         api_push_image, api_remove_image, api_push_image_body, api_list_networks,
         api_create_network, api_inspect_network, api_remove_network,
         api_bulk_network_removals, api_prune_networks, api_connect_to_network,
         api_disconnect_from_network, api_system_info, api_system_version,
         api_system_df, api_system_prune, api_list_volumes, api_create_volume,
         api_bulk_volume_removals, api_inspect_volume, api_remove_volume,
         api_prune_volumes, Guarded, Writing, EffectOperations, ReadingOperations

\* favorites.py.
LEMMA AllFavoriteRoutes == \A r \in FavoriteRoutes : Served(r)
  BY GuardedRoute
     DEF FavoriteRoutes, api_list_favorites, api_add_favorite, api_get_favorite,
         api_patch_favorite, api_remove_favorite, Guarded, Writing, ReadingOperations,
         CalmOperations

\* nodes.py.
LEMMA AllNodeRoutes == \A r \in NodeRoutes : Served(r)
  BY GuardedRoute
     DEF NodeRoutes, api_bulk_get_node_metrics, api_credential_validations,
         api_bulk_update_nodes, api_bulk_delete_nodes, api_bulk_check_nodes,
         api_get_node, api_update_node, api_delete_node,
         api_get_node_status_history, api_get_node_history_alias, api_list_nodes,
         api_bulk_create_nodes, api_list_node_tags, Guarded, Writing, ReadingOperations,
         EffectOperations, CalmOperations

\* scripts.py.
LEMMA AllScriptRoutes == \A r \in ScriptRoutes : Served(r)
  BY GuardedRoute
     DEF ScriptRoutes, api_bulk_update_scripts, api_bulk_delete_scripts,
         api_get_script, api_update_script, api_delete_script, api_clone_script,
         api_scripts_bulk_executions, api_get_executions,
         api_get_executions_history_alias, api_get_scheduled_execution_history,
         api_scripts_bulk_retry_executions, api_scripts_bulk_cancel_executions,
         api_list_scripts, api_bulk_create_scripts, api_list_script_tags,
         api_schedule_script, api_get_schedule, api_get_schedule_singular,
         api_unschedule_script, api_get_scripts_stats, api_get_script_stats,
         Guarded, Writing, CalmOperations, ReadingOperations

\* search.py.
LEMMA AllSearchRoutes == \A r \in SearchRoutes : Served(r)
  BY GuardedRoute
     DEF SearchRoutes, api_global_search, Guarded, Writing, ReadingOperations

\* templates.py.
LEMMA AllTemplateRoutes == \A r \in TemplateRoutes : Served(r)
  BY GuardedRoute
     DEF TemplateRoutes, api_install_pack, api_uninstall_pack, api_update_pack,
         api_list_installations, api_get_pack_archive,
         api_get_pack_assets_archive_alias, api_create_pack, api_get_packs_stats,
         api_list_packs, api_get_pack, api_patch_pack, api_delete_pack,
         api_bulk_delete_packs, api_create_registry, api_list_registries,
         api_get_registry, api_patch_registry, api_delete_registry,
         api_sync_registry, Guarded, Writing, CalmOperations, ReadingOperations

\* users.py.
LEMMA AllUserRoutes == \A r \in UserRoutes : Served(r)
  BY GuardedRoute
     DEF UserRoutes, api_get_users, api_create_user, api_get_user, api_patch_user,
         api_delete_user, Guarded, Writing, ReadingOperations, CalmOperations

\* auth.py and health.py.
LEMMA AllOtherRoutes == \A r \in {api_login, api_logout, api_refresh_token,
                              api_get_me, api_readiness_check} : Served(r)
  BY GuardedRoute
     DEF api_login, api_logout, api_refresh_token, api_get_me, api_readiness_check,
         Guarded, Writing, ReadingOperations, OpenOperations

\* The operations without a handler.
LEMMA AllUnroutedCalls == \A r \in UnroutedCalls : Served(r)
  BY GuardedRoute
     DEF UnroutedCalls, Call, Guarded, Writing, SoftOperations, ReadingOperations,
         CalmOperations, EffectOperations

\* All of them.
LEMMA RoutesServed == \A r \in Routes : Served(r)
  BY AllApiKeyRoutes, AllAuditRoutes, AllCommandRoutes, AllComposeRoutes,
     AllConfigRoutes, AllDockerRoutes, AllFavoriteRoutes, AllNodeRoutes,
     AllScriptRoutes, AllSearchRoutes, AllTemplateRoutes, AllUserRoutes,
     AllOtherRoutes, AllUnroutedCalls
     DEF Routes

\* Every route satisfies what the properties need, and so does the empty program.
LEMMA RoutesWellFormed == \A r \in Routes \cup {NoRequest} : WellFormed(r)
<1>1. WellFormed(NoRequest)
  <2>1. /\ NoRequest.guard = "none" /\ NoRequest.wrap = "none"
        /\ NoRequest.program = <<>>
    BY DEF NoRequest
  <2> QED
    BY <2>1 DEF WellFormed, Sound, Once, Announced, Audited, Confirmed
<1> QED
  BY <1>1, RoutesServed DEF Served

----------------------------------------------------------------------------
(* The inductive invariant                                                 *)

Outcomes == {"none", "ok", "failed", "silent", "lost"}

\* What the steps before k have left behind.
Traces(p, k, d) ==
    \A n \in 1 .. k - 1 :
        /\ p[n] = "intent" => "intent" \in d
        /\ p[n] = "log" => "log" \in d
        /\ p[n] = "save" => "row" \in d

\* What is known of the command that changes the node once it has been sent, and
\* once its outcome has been looked at.
Settled(p, k, o, d) ==
    \A m \in 1 .. k - 1 : p[m] \in Mutates =>
        /\ o # "none"
        /\ o = "ok" => "effect" \in d
        /\ o = "lost" => p[m] = "keep"
        /\ \A j \in m + 1 .. k - 1 :
              /\ p[j] = "judge" => o \in {"none", "ok"}
              /\ p[j] = "strict" => o \in {"none", "ok", "lost"}

\* Where the traces come from.  A command whose answer was lost may have had its
\* effect, although the item does not get past it.
Causes(p, k, d, s) ==
    /\ "effect" \in d => \E e \in 1 .. Len(p) : e <= k /\ p[e] \in Effects
    /\ "staged" \in d => \E e \in 1 .. Len(p) : p[e] \in {"stage", "mark"}
    /\ "key" \in d => \E e \in 1 .. Len(p) : p[e] = "trust"
    /\ "scratch" \in d => \E e \in 1 .. Len(p) : p[e] = "scratch"
    /\ "event" \in d => \E n \in 1 .. k - 1 : p[n] = "event"
    /\ "failed" \in d => s = "error" /\ "event" \notin d

\* SuccessIsReal, of one item.
Real(p, o, d, s) ==
    /\ s = "success" /\ Confirmed(p)
    /\ \E n \in 1 .. Len(p) : p[n] \in Mutates
    => o = "ok" /\ "effect" \in d

\* An item at step k of program p, with outcome o, traces d and result s.
ItemOK(p, k, o, d, s) ==
    /\ k \in 1 .. Len(p) + 1 /\ o \in Outcomes /\ d \subseteq Facts
    /\ Traces(p, k, d) /\ Settled(p, k, o, d) /\ Causes(p, k, d, s) /\ Real(p, o, d, s)

Types ==
    /\ req \in Routes \cup {NoRequest}
    /\ who \in Principals
    /\ pc \in [Items -> Nat]
    /\ out \in [Items -> Outcomes]
    /\ did \in [Items -> SUBSET Facts]
    /\ res \in [Items -> {"absent", "none", "success", "error"}]
    /\ free \in Nat
    /\ flushing \subseteq Items
    /\ session \in {"clean", "marked", "flushed", "committed", "lost"}
    /\ answer \in {"none", "done", "error"}

ItemsOK == \A i \in Items : ItemOK(req.program, pc[i], out[i], did[i], res[i])

\* An item inside a flush is at that step.
Flushes ==
    \A i \in flushing :
        /\ res[i] = "none" /\ pc[i] <= Len(req.program)
        /\ req.program[pc[i]] = "log"

\* In a batch, no item passes the first barrier before all have their intents: one
\* that ends before it is answered with an error, and ends the batch.
Batches ==
    req.wrap = "batch" =>
        /\ (\E i \in Items : pc[i] > 3) => \A j \in Items : pc[j] > 2
        /\ answer = "none" => \A j \in Items : res[j] # "none" => pc[j] > 3

Idle ==
    req = NoRequest =>
        /\ \A i \in Items : pc[i] = 1 /\ out[i] = "none" /\ did[i] = {} /\ res[i] = "absent"
        /\ flushing = {} /\ answer = "none"

IInv ==
    /\ Types
    /\ who \in Admitted(req.guard)
    /\ ItemsOK /\ Flushes /\ Batches /\ Idle

----------------------------------------------------------------------------
(* One item                                                                *)

\* A step that takes the item on, from outcome o and traces d to o2 and d2.
Forward(p, k, o, d, o2, d2) ==
    /\ o2 \in Outcomes /\ d \subseteq d2 /\ d2 \subseteq Facts
    /\ p[k] = "intent" => "intent" \in d2
    /\ p[k] = "log" => "log" \in d2
    /\ p[k] = "save" => "row" \in d2
    /\ "effect" \in d2 => "effect" \in d \/ p[k] \in Effects
    /\ "staged" \in d2 => "staged" \in d \/ p[k] \in {"stage", "mark"}
    /\ "key" \in d2 => "key" \in d \/ p[k] = "trust"
    /\ "scratch" \in d2 => "scratch" \in d \/ p[k] = "scratch"
    /\ "event" \in d2 => "event" \in d \/ p[k] = "event"
    /\ "failed" \in d2 => "failed" \in d
    /\ o2 # o => p[k] \in Remotes
    /\ p[k] \in Mutates => /\ o2 # "none"
                           /\ o2 = "ok" => "effect" \in d2
                           /\ o2 = "lost" => p[k] = "keep"
    /\ p[k] = "judge" => o2 \in {"none", "ok"}
    /\ p[k] = "strict" => o2 \in {"none", "ok", "lost"}

\* A step that ends it.
Failing(p, k, o, d, o2, d2) ==
    /\ o2 \in Outcomes /\ d \subseteq d2 /\ d2 \subseteq Facts
    /\ "effect" \in d2 => "effect" \in d \/ p[k] \in Effects
    /\ "staged" \in d2 => "staged" \in d
    /\ d2 \cap {"key", "scratch"} \subseteq d
    /\ "event" \in d2 => "event" \in d
    /\ "failed" \in d2 => p[k] \notin {"judge", "release"}
    /\ o2 # o => p[k] \in Remotes

\* A second command does not come after one that changes the node.
LEMMA OutcomeKept ==
    ASSUME NEW p, NEW k, NEW o, NEW o2, Sound(p), k \in 1 .. Len(p),
           o2 # o => p[k] \in Remotes,
           NEW m \in 1 .. k - 1, p[m] \in Mutates
    PROVE  o2 = o
<1>1. Len(p) \in Nat
  BY DEF Sound
<1>2. m \in 1 .. Len(p) /\ m # k
  BY <1>1
<1> QED
  BY <1>2 DEF Sound, Once

\* An item that goes on stays what ItemOK says.
LEMMA GoesOn ==
    ASSUME NEW p, NEW k, NEW o, NEW d, NEW o2, NEW d2, Sound(p), k \in 1 .. Len(p),
           ItemOK(p, k, o, d, "none"), Forward(p, k, o, d, o2, d2)
    PROVE  ItemOK(p, k + 1, o2, d2, "none")
<1>1. Len(p) \in Nat /\ k \in Nat
  BY DEF Sound
<1>2. \A n \in 1 .. (k + 1) - 1 : n = k \/ n \in 1 .. k - 1
  BY <1>1
<1>3. Traces(p, k + 1, d2)
  BY <1>1, <1>2 DEF ItemOK, Forward, Traces
<1>4. Settled(p, k + 1, o2, d2)
  <2> SUFFICES ASSUME NEW m \in 1 .. (k + 1) - 1, p[m] \in Mutates
               PROVE  /\ o2 # "none"
                      /\ o2 = "ok" => "effect" \in d2
                      /\ o2 = "lost" => p[m] = "keep"
                      /\ \A j \in m + 1 .. (k + 1) - 1 :
                            /\ p[j] = "judge" => o2 \in {"none", "ok"}
                            /\ p[j] = "strict" => o2 \in {"none", "ok", "lost"}
    BY DEF Settled
  <2>1. CASE m = k
    BY <1>1, <2>1 DEF Forward
  <2>2. CASE m \in 1 .. k - 1
    <3>1. o2 = o
      BY <2>2, OutcomeKept DEF Forward
    <3>2. /\ o # "none"
          /\ o = "ok" => "effect" \in d
          /\ o = "lost" => p[m] = "keep"
          /\ \A j \in m + 1 .. k - 1 :
                /\ p[j] = "judge" => o \in {"none", "ok"}
                /\ p[j] = "strict" => o \in {"none", "ok", "lost"}
      BY <2>2 DEF ItemOK, Settled
    <3>3. \A j \in m + 1 .. (k + 1) - 1 : j = k \/ j \in m + 1 .. k - 1
      BY <1>1
    <3>4. ASSUME NEW j \in m + 1 .. (k + 1) - 1
          PROVE  /\ p[j] = "judge" => o2 \in {"none", "ok"}
                 /\ p[j] = "strict" => o2 \in {"none", "ok", "lost"}
      BY <3>1, <3>2, <3>3 DEF Forward
    <3> QED
      BY <3>1, <3>2, <3>4 DEF Forward
  <2> QED
    BY <1>2, <2>1, <2>2
<1>5. Causes(p, k + 1, d2, "none")
  <2>1. "effect" \in d2 => \E e \in 1 .. Len(p) : e <= k + 1 /\ p[e] \in Effects
    BY <1>1 DEF ItemOK, Causes, Forward
  <2>2. /\ "staged" \in d2 => \E e \in 1 .. Len(p) : p[e] \in {"stage", "mark"}
        /\ "key" \in d2 => \E e \in 1 .. Len(p) : p[e] = "trust"
        /\ "scratch" \in d2 => \E e \in 1 .. Len(p) : p[e] = "scratch"
    BY DEF ItemOK, Causes, Forward
  <2>3. "event" \in d2 => \E n \in 1 .. (k + 1) - 1 : p[n] = "event"
    BY <1>1 DEF ItemOK, Causes, Forward
  <2>4. "failed" \notin d2
    BY DEF ItemOK, Causes, Forward
  <2> QED
    BY <2>1, <2>2, <2>3, <2>4 DEF Causes
<1>6. k + 1 \in 1 .. Len(p) + 1
  BY <1>1
<1> QED
  BY <1>3, <1>4, <1>5, <1>6 DEF ItemOK, Forward, Real

\* So does an item that ends with an error.
LEMMA Fails ==
    ASSUME NEW p, NEW k, NEW o, NEW d, NEW o2, NEW d2, Sound(p), k \in 1 .. Len(p),
           ItemOK(p, k, o, d, "none"), Failing(p, k, o, d, o2, d2)
    PROVE  ItemOK(p, k, o2, d2, "error")
<1>1. Len(p) \in Nat /\ k \in Nat
  BY DEF Sound
<1>2. Traces(p, k, d2)
  BY DEF ItemOK, Failing, Traces
<1>3. Settled(p, k, o2, d2)
  <2>1. \A m \in 1 .. k - 1 : p[m] \in Mutates => o2 = o
    BY OutcomeKept DEF Failing
  <2> QED
    BY <2>1 DEF ItemOK, Failing, Settled
<1>4. Causes(p, k, d2, "error")
  <2>1. "effect" \in d2 => \E e \in 1 .. Len(p) : e <= k /\ p[e] \in Effects
    BY <1>1 DEF ItemOK, Causes, Failing
  <2>2. "event" \in d2 => \E n \in 1 .. k - 1 : p[n] = "event"
    BY DEF ItemOK, Causes, Failing
  <2>3. ASSUME "failed" \in d2, "event" \in d2 PROVE FALSE
    <3>1. PICK n \in 1 .. k - 1 : p[n] = "event"
      BY <2>2, <2>3
    <3>2. n \in 1 .. Len(p) /\ k \in n + 1 .. Len(p)
      BY <1>1
    <3>3. p[k] \in {"judge", "release"}
      BY <3>1, <3>2 DEF Sound, Announced
    <3> QED
      BY <2>3, <3>3 DEF Failing
  <2> QED
    BY <2>1, <2>2, <2>3 DEF ItemOK, Causes, Failing
<1> QED
  BY <1>2, <1>3, <1>4 DEF ItemOK, Failing, Real

\* At the end of a program that confirms its command, the command had its effect.
LEMMA Succeeds ==
    ASSUME NEW p, NEW o, NEW d, Sound(p), ItemOK(p, Len(p) + 1, o, d, "none")
    PROVE  ItemOK(p, Len(p) + 1, o, d, "success")
<1>1. Len(p) \in Nat
  BY DEF Sound
<1>2. ASSUME Confirmed(p), NEW m \in 1 .. Len(p), p[m] \in Mutates
      PROVE  o = "ok" /\ "effect" \in d
  <2>1. PICK j \in m + 1 .. Len(p) : p[j] = "judge" \/ (p[j] = "strict" /\ p[m] # "keep")
    BY <1>2 DEF Confirmed
  <2>2. m \in 1 .. (Len(p) + 1) - 1 /\ j \in m + 1 .. (Len(p) + 1) - 1
    BY <1>1
  <2> QED
    BY <1>2, <2>1, <2>2 DEF ItemOK, Settled
<1>3. Real(p, o, d, "success")
  BY <1>2 DEF Real
<1>4. Causes(p, Len(p) + 1, d, "success")
  BY DEF ItemOK, Causes
<1> QED
  BY <1>3, <1>4 DEF ItemOK

\* So had the first of two commands, when it is not one that changes anything.
LEMMA SucceedsEarly ==
    ASSUME NEW p, NEW k, NEW o, NEW d, Sound(p), k \in 1 .. Len(p), p[k] = "attempt",
           ItemOK(p, k, o, d, "none")
    PROVE  ItemOK(p, k, "ok", d, "success")
<1>1. Len(p) \in Nat
  BY DEF Sound
<1>2. \A m \in 1 .. Len(p) : p[m] \notin Mutates
  <2>1. p[k] \in Remotes /\ p[k] \notin Mutates
    BY DEF Remotes, Reads, Mutates
  <2> QED
    BY <2>1 DEF Sound, Once
<1>3. Real(p, "ok", d, "success")
  BY <1>2 DEF Real
<1>4. Causes(p, k, d, "success")
  BY DEF ItemOK, Causes
<1>5. Settled(p, k, "ok", d)
  BY <1>1, <1>2 DEF Settled
<1> QED
  BY <1>3, <1>4, <1>5 DEF ItemOK, Outcomes

----------------------------------------------------------------------------
(* The steps                                                               *)

\* A step of item i leaves the other items alone.
Touches(i) ==
    /\ Types' /\ UNCHANGED <<req, who>>
    /\ flushing' \subseteq flushing \ {i}
    /\ \A j \in Items \ {i} :
          /\ pc'[j] = pc[j] /\ out'[j] = out[j] /\ did'[j] = did[j] /\ res'[j] = res[j]

\* A request runs while an item has no result.
LEMMA Running ==
    ASSUME IInv, NEW i \in Items, res[i] = "none"
    PROVE  req # NoRequest
  BY DEF IInv, Idle

\* What an item has to show for its step.
LEMMA ItemInductive ==
    ASSUME IInv, NEW i \in Items, Touches(i), res[i] = "none",
           ItemOK(req.program, pc'[i], out'[i], did'[i], res'[i]),
           \/ /\ pc'[i] = pc[i] + 1 /\ res'[i] = "none" /\ answer' = answer
              /\ req.wrap = "batch" /\ pc[i] = 3 => \A j \in Items : pc[j] > 2
           \/ /\ pc'[i] = pc[i] /\ answer' \in {answer, "error"}
              /\ req.wrap = "batch" => answer' = "error" \/ pc[i] > 3
    PROVE  IInv'
<1>1. Types' /\ who' \in Admitted(req'.guard)
  BY DEF Touches, IInv
<1>2. ItemsOK'
  <2>1. ASSUME NEW j \in Items
        PROVE  ItemOK(req'.program, pc'[j], out'[j], did'[j], res'[j])
    <3>1. CASE j = i
      BY <3>1 DEF Touches
    <3>2. CASE j # i
      <4>1. ItemOK(req.program, pc[j], out[j], did[j], res[j])
        BY DEF IInv, ItemsOK
      <4> QED
        BY <3>2, <4>1 DEF Touches
    <3> QED
      BY <3>1, <3>2
  <2> QED
    BY <2>1 DEF ItemsOK
<1>3. Flushes'
  <2> SUFFICES ASSUME NEW j \in flushing'
               PROVE  /\ res'[j] = "none" /\ pc'[j] <= Len(req'.program)
                      /\ req'.program[pc'[j]] = "log"
    BY DEF Flushes
  <2>1. j \in flushing /\ j # i /\ j \in Items
    BY DEF Touches, IInv, Types
  <2> QED
    BY <2>1 DEF Touches, IInv, Flushes
<1>4. Batches'
  <2> SUFFICES ASSUME req.wrap = "batch"
               PROVE  /\ (\E j \in Items : pc'[j] > 3) => \A j \in Items : pc'[j] > 2
                      /\ answer' = "none" =>
                            \A j \in Items : res'[j] # "none" => pc'[j] > 3
    BY DEF Batches, Touches
  <2>1. /\ (\E j \in Items : pc[j] > 3) => \A j \in Items : pc[j] > 2
        /\ answer = "none" => \A j \in Items : res[j] # "none" => pc[j] > 3
    BY DEF IInv, Batches
  <2>2. \A j \in Items : pc[j] \in Nat /\ pc'[j] \in Nat
    BY DEF IInv, Touches, Types
  <2>3. \A j \in Items \ {i} : pc'[j] = pc[j] /\ res'[j] = res[j]
    BY DEF Touches
  <2>4. CASE /\ pc'[i] = pc[i] + 1 /\ res'[i] = "none" /\ answer' = answer
             /\ pc[i] = 3 => \A j \in Items : pc[j] > 2
    BY <2>1, <2>2, <2>3, <2>4
  <2>5. CASE /\ pc'[i] = pc[i] /\ answer' \in {answer, "error"}
             /\ answer' = "error" \/ pc[i] > 3
    BY <2>1, <2>2, <2>3, <2>5
  <2> QED
    BY <2>4, <2>5
<1>5. Idle'
  BY Running DEF Idle, Touches
<1> QED
  BY <1>1, <1>2, <1>3, <1>4, <1>5 DEF IInv

\* Where an item is that takes a step of these kinds.
LEMMA AtStep ==
    ASSUME IInv, NEW i \in Items, NEW kinds, At(i, kinds)
    PROVE  /\ Sound(req.program) /\ WellFormed(req)
           /\ res[i] = "none" /\ pc[i] \in 1 .. Len(req.program)
           /\ Step(i) = req.program[pc[i]] /\ Step(i) \in kinds
           /\ ItemOK(req.program, pc[i], out[i], did[i], "none")
           /\ "log" \notin kinds => i \notin flushing
           /\ "barrier" \notin kinds => ~(req.wrap = "batch" /\ pc[i] = 3)
<1>1. WellFormed(req)
  BY RoutesWellFormed DEF IInv, Types
<1>2. ItemOK(req.program, pc[i], out[i], did[i], "none")
  BY DEF At, IInv, ItemsOK
<1>3. Sound(req.program) /\ Len(req.program) \in Nat
  BY <1>1 DEF WellFormed, Sound
<1>4. pc[i] \in 1 .. Len(req.program)
  BY <1>2, <1>3 DEF ItemOK, At
<1>5. "log" \notin kinds => i \notin flushing
  BY DEF At, Step, IInv, Flushes
<1>6. "barrier" \notin kinds => ~(req.wrap = "batch" /\ pc[i] = 3)
  BY <1>1 DEF At, Step, WellFormed
<1> QED
  BY <1>1, <1>2, <1>3, <1>4, <1>5, <1>6 DEF At, Step

\* Advance().
LEMMA AdvanceInductive ==
    ASSUME IInv, NEW i \in Items, NEW facts, facts \subseteq Facts, Advance(i, facts),
           Sound(req.program), res[i] = "none", pc[i] \in 1 .. Len(req.program),
           ItemOK(req.program, pc[i], out[i], did[i], "none"),
           out' \in [Items -> Outcomes], \A j \in Items \ {i} : out'[j] = out[j],
           session' \in {"clean", "marked", "flushed", "committed", "lost"},
           flushing' \subseteq flushing \ {i},
           Forward(req.program, pc[i], out[i], did[i], out'[i], did[i] \cup facts),
           req.wrap = "batch" /\ pc[i] = 3 => \A j \in Items : pc[j] > 2
    PROVE  IInv'
<1>1. /\ pc'[i] = pc[i] + 1 /\ did'[i] = did[i] \cup facts /\ res'[i] = "none"
      /\ answer' = answer
  BY DEF Advance, IInv, Types
<1>2. Types'
  <2>1. pc' \in [Items -> Nat] /\ did' \in [Items -> SUBSET Facts]
    BY DEF Advance, IInv, Types
  <2>2. flushing' \subseteq Items
    BY DEF IInv, Types
  <2> QED
    BY <2>1, <2>2 DEF Advance, IInv, Types
<1>3. Touches(i)
  BY <1>2 DEF Advance, IInv, Types, Touches
<1>4. ItemOK(req.program, pc'[i], out'[i], did'[i], res'[i])
  BY <1>1, GoesOn
<1> QED
  BY <1>1, <1>3, <1>4, ItemInductive

\* End() and what follows it.
LEMMA EndInductive ==
    ASSUME IInv, NEW i \in Items, NEW result, result \in {"success", "error"},
           End(i, result), res[i] = "none",
           out' \in [Items -> Outcomes], \A j \in Items \ {i} : out'[j] = out[j],
           did' \in [Items -> SUBSET Facts], \A j \in Items \ {i} : did'[j] = did[j],
           session' \in {"clean", "marked", "flushed", "committed", "lost"},
           flushing' \subseteq flushing \ {i},
           answer' \in {answer, "error"},
           req.wrap = "batch" => answer' = "error" \/ pc[i] > 3,
           ItemOK(req.program, pc[i], out'[i], did'[i], result)
    PROVE  IInv'
<1>1. pc'[i] = pc[i] /\ res'[i] = result
  BY DEF End, IInv, Types
<1>2. Types'
  <2>1. res' \in [Items -> {"absent", "none", "success", "error"}]
    BY DEF End, IInv, Types
  <2>2. flushing' \subseteq Items /\ free' \in Nat
    BY DEF End, IInv, Types
  <2>3. answer' \in {"none", "done", "error"}
    BY DEF IInv, Types
  <2> QED
    BY <2>1, <2>2, <2>3 DEF End, IInv, Types
<1>3. Touches(i)
  BY <1>2 DEF End, IInv, Types, Touches
<1> QED
  BY <1>1, <1>3, ItemInductive

\* Raise().
LEMMA RaiseInductive ==
    ASSUME IInv, NEW i \in Items, Raise(i),
           Sound(req.program), res[i] = "none", pc[i] \in 1 .. Len(req.program),
           ItemOK(req.program, pc[i], out[i], did[i], "none"),
           req.program[pc[i]] \notin {"judge", "release"},
           UNCHANGED <<out, session>>, flushing' \subseteq flushing \ {i}
    PROVE  IInv'
<1>1. PICK facts \in {{}, {"failed"}} : did' = [did EXCEPT ![i] = @ \cup facts]
  BY DEF Raise
<1>2. /\ did' \in [Items -> SUBSET Facts] /\ \A j \in Items \ {i} : did'[j] = did[j]
      /\ did'[i] = did[i] \cup facts
  BY <1>1 DEF IInv, Types, Facts
<1>3. Failing(req.program, pc[i], out[i], did[i], out'[i], did'[i])
  BY <1>1, <1>2 DEF Failing, IInv, Types
<1>4. ItemOK(req.program, pc[i], out'[i], did'[i], "error")
  BY <1>3, Fails
<1>5. answer' \in {answer, "error"} /\ (req.wrap = "batch" => answer' = "error")
  BY DEF Raise
<1>6. out' \in [Items -> Outcomes] /\ \A j \in Items \ {i} : out'[j] = out[j]
  BY DEF IInv, Types
<1>7. /\ session' \in {"clean", "marked", "flushed", "committed", "lost"}
  BY DEF IInv, Types
<1> QED
  BY <1>2, <1>4, <1>5, <1>6, <1>7, EndInductive DEF Raise

\* A step that leaves the outcome of the command alone.
Plain(i, kinds, facts) ==
    /\ At(i, kinds) /\ Advance(i, facts) /\ UNCHANGED <<out, flushing>>
    /\ kinds \cap (Remotes \cup {"judge", "strict", "barrier", "log"}) = {}
    /\ facts \subseteq Facts \ {"failed"}
    /\ Step(i) = "intent" => "intent" \in facts
    /\ Step(i) = "save" => "row" \in facts
    /\ "effect" \in facts => Step(i) \in Effects
    /\ "staged" \in facts => Step(i) \in {"stage", "mark"}
    /\ "key" \in facts => Step(i) = "trust"
    /\ "scratch" \in facts => Step(i) = "scratch"
    /\ "event" \in facts => Step(i) = "event"
    /\ session' \in {"clean", "marked", "flushed", "committed", "lost"}

\* Plain steps preserve the invariant.
LEMMA PlainInductive ==
    ASSUME IInv, NEW i \in Items, NEW kinds, NEW facts, Plain(i, kinds, facts)
    PROVE  IInv'
<1> USE DEF Plain
<1>1. /\ Sound(req.program) /\ res[i] = "none" /\ pc[i] \in 1 .. Len(req.program)
      /\ Step(i) = req.program[pc[i]] /\ Step(i) \in kinds
      /\ ItemOK(req.program, pc[i], out[i], did[i], "none")
      /\ i \notin flushing /\ ~(req.wrap = "batch" /\ pc[i] = 3)
  BY AtStep
<1>2. out' \in [Items -> Outcomes] /\ out' = out /\ out[i] \in Outcomes
  BY DEF IInv, Types
<1>3. did[i] \subseteq Facts
  BY DEF IInv, Types
<1>4. Forward(req.program, pc[i], out[i], did[i], out'[i], did[i] \cup facts)
  BY <1>1, <1>2, <1>3 DEF Forward, Remotes
<1> QED
  BY <1>1, <1>2, <1>4, AdvanceInductive

\* Validation, intents, database writes, keys, files, history and events.
LEMMA PlainSteps ==
    ASSUME IInv, NEW i \in Items,
           \/ Check(i) \/ Intent(i) \/ Change(i) \/ Stage(i) \/ Trust(i) \/ Scratch(i)
           \/ Quiet(i) \/ Save(i) \/ Publish(i)
    PROVE  IInv'
<1> USE DEF Plain, Facts, Remotes, Reads, Mutates, Effects
<1>0. /\ session \in {"clean", "marked", "flushed", "committed", "lost"}
  BY DEF IInv, Types
<1>1. ASSUME Check(i) PROVE Plain(i, {"check", "require", "announce"}, {})
  BY <1>0, <1>1 DEF Check, At
<1>2. ASSUME Intent(i) PROVE Plain(i, {"intent"}, {"intent"})
  BY <1>0, <1>2 DEF Intent, At
<1>3. ASSUME Change(i)
      PROVE  Plain(i, {"change", "nested", "token"},
                   IF Step(i) = "token" THEN {"token"} ELSE {"effect"})
  BY <1>0, <1>3 DEF Change, At
<1>4. ASSUME Stage(i) PROVE Plain(i, {"stage", "mark"}, {"staged"})
  BY <1>0, <1>4 DEF Stage, At
<1>5. ASSUME Trust(i) PROVE \E facts : Plain(i, {"trust"}, facts)
  BY <1>0, <1>5 DEF Trust, At
<1>6. ASSUME Scratch(i) PROVE \E facts : Plain(i, {"scratch"}, facts)
  BY <1>0, <1>6 DEF Scratch, At
<1>7. ASSUME Quiet(i) PROVE \E facts : Plain(i, {"logQuiet", "saveQuiet"}, facts)
  BY <1>0, <1>7 DEF Quiet, At
<1>8. ASSUME Save(i) PROVE Plain(i, {"save"}, {"row"})
  BY <1>0, <1>8 DEF Save, At
<1>9. ASSUME Publish(i) PROVE Plain(i, {"event"}, {"event"})
  BY <1>0, <1>9 DEF Publish, At
<1> HIDE DEF Plain
<1> QED
  BY <1>1, <1>2, <1>3, <1>4, <1>5, <1>6, <1>7, <1>8, <1>9, PlainInductive

\* What raises.
LEMMA RaisingSteps ==
    ASSUME IInv, NEW i \in Items,
           Refuse(i) \/ WriteFails(i) \/ Rejected(i) \/ LogFails(i)
    PROVE  IInv'
<1>1. ASSUME NEW kinds, At(i, kinds), Raise(i), UNCHANGED <<out, flushing, session>>,
             kinds \cap {"log", "judge", "release"} = {}
      PROVE  IInv'
  <2>1. /\ Sound(req.program) /\ res[i] = "none" /\ pc[i] \in 1 .. Len(req.program)
        /\ Step(i) = req.program[pc[i]] /\ Step(i) \in kinds
        /\ ItemOK(req.program, pc[i], out[i], did[i], "none")
        /\ i \notin flushing
    BY <1>1, AtStep
  <2> QED
    BY <1>1, <2>1, RaiseInductive
<1>2. CASE Refuse(i)
  BY <1>1, <1>2 DEF Refuse
<1>3. CASE WriteFails(i)
  BY <1>1, <1>3 DEF WriteFails
<1>4. CASE Rejected(i)
  BY <1>1, <1>4 DEF Rejected
<1>5. CASE LogFails(i)
  <2>1. /\ res[i] = "none" /\ pc[i] <= Len(req.program) /\ req.program[pc[i]] = "log"
    BY <1>5 DEF LogFails, IInv, Flushes
  <2>2. Sound(req.program) /\ Len(req.program) \in Nat
    BY RoutesWellFormed DEF IInv, Types, WellFormed, Sound
  <2>3. ItemOK(req.program, pc[i], out[i], did[i], "none")
    BY <2>1 DEF IInv, ItemsOK
  <2>4. pc[i] \in 1 .. Len(req.program)
    BY <2>1, <2>2, <2>3 DEF ItemOK
  <2> QED
    BY <1>5, <2>1, <2>2, <2>3, <2>4, RaiseInductive DEF LogFails
<1> QED
  BY <1>2, <1>3, <1>4, <1>5

\* Such a step of a batch comes after its first barrier.
LEMMA BatchEnds ==
    ASSUME WellFormed(req), NEW n, n \in 1 .. Len(req.program), req.wrap = "batch",
           req.program[n] \in Mutates \cup {"judge", "attempt"}
    PROVE  n > 3
<1>1. Len(req.program) \in Nat
  BY DEF WellFormed, Sound
<1>2. ASSUME n \in 1 .. 3 PROVE FALSE
  BY <1>2 DEF WellFormed, Effects
<1> QED
  BY <1>1, <1>2

\* The look at the outcome of a command.
LEMMA JudgingSteps ==
    ASSUME IInv, NEW i \in Items, Judge(i) \/ Judged(i)
    PROVE  IInv'
<1>1. CASE Judge(i)
  <2>1. /\ Sound(req.program) /\ res[i] = "none" /\ pc[i] \in 1 .. Len(req.program)
        /\ Step(i) = req.program[pc[i]] /\ Step(i) \in {"strict", "soft", "judge", "output"}
        /\ ItemOK(req.program, pc[i], out[i], did[i], "none")
        /\ i \notin flushing /\ ~(req.wrap = "batch" /\ pc[i] = 3)
    BY <1>1, AtStep DEF Judge
  <2>2. /\ Step(i) = "judge" => out[i] \in {"none", "ok"}
        /\ Step(i) = "strict" => out[i] \in {"none", "ok", "lost"}
    BY <1>1 DEF Judge, Accepts
  <2>3. Advance(i, {}) /\ UNCHANGED <<out, flushing, session>>
    BY <1>1 DEF Judge
  <2>4. Forward(req.program, pc[i], out[i], did[i], out'[i], did[i] \cup {})
    BY <2>1, <2>2, <2>3 DEF Forward, Remotes, Reads, Mutates, IInv, Types
  <2>5. /\ out' \in [Items -> Outcomes] /\ \A j \in Items \ {i} : out'[j] = out[j]
        /\ session' \in {"clean", "marked", "flushed", "committed", "lost"}
    BY <2>3 DEF IInv, Types
  <2> QED
    BY <2>1, <2>3, <2>4, <2>5, AdvanceInductive
<1>2. CASE Judged(i)
  <2>1. /\ Sound(req.program) /\ WellFormed(req) /\ res[i] = "none"
        /\ pc[i] \in 1 .. Len(req.program)
        /\ Step(i) = req.program[pc[i]] /\ Step(i) = "judge"
        /\ ItemOK(req.program, pc[i], out[i], did[i], "none")
        /\ i \notin flushing
    BY <1>2, AtStep DEF Judged
  <2>2. End(i, "error") /\ UNCHANGED <<out, did, flushing, session, answer>>
    BY <1>2 DEF Judged
  <2>3. Failing(req.program, pc[i], out[i], did[i], out'[i], did'[i])
    BY <2>1, <2>2 DEF Failing, IInv, Types, ItemOK, Causes
  <2>4. ItemOK(req.program, pc[i], out'[i], did'[i], "error")
    BY <2>1, <2>3, Fails
  <2>5. req.wrap = "batch" => pc[i] > 3
    BY <2>1, BatchEnds
  <2>6. /\ out' \in [Items -> Outcomes] /\ \A j \in Items \ {i} : out'[j] = out[j]
        /\ did' \in [Items -> SUBSET Facts] /\ \A j \in Items \ {i} : did'[j] = did[j]
        /\ session' \in {"clean", "marked", "flushed", "committed", "lost"}
    BY <2>2 DEF IInv, Types
  <2> QED
    BY <2>1, <2>2, <2>4, <2>5, <2>6, EndInductive
<1> QED
  BY <1>1, <1>2

\* The savepoint of the outbox.
LEMMA LogSteps ==
    ASSUME IInv, NEW i \in Items, LogBegin(i) \/ LogEnd(i)
    PROVE  IInv'
<1>1. CASE LogBegin(i)
  <2>1. /\ res[i] = "none" /\ pc[i] \in 1 .. Len(req.program)
        /\ Step(i) = req.program[pc[i]] /\ Step(i) = "log"
    BY <1>1, AtStep DEF LogBegin
  <2>2. /\ flushing' = flushing \cup {i}
        /\ UNCHANGED <<req, who, pc, out, did, res, free, session, answer>>
    BY <1>1 DEF LogBegin
  <2>3. Flushes'
    <3>1. Len(req.program) \in Nat
      BY RoutesWellFormed DEF IInv, Types, WellFormed, Sound
    <3>2. pc[i] <= Len(req.program)
      BY <2>1, <3>1
    <3> QED
      BY <2>1, <2>2, <3>2 DEF IInv, Flushes
  <2>4. Idle'
    BY <2>1, <2>2, Running DEF Idle
  <2>5. Types' /\ who' \in Admitted(req'.guard)
    BY <2>2 DEF IInv, Types
  <2>6. ItemsOK' /\ Batches'
    BY <2>2 DEF IInv, ItemsOK, Batches
  <2> QED
    BY <2>3, <2>4, <2>5, <2>6 DEF IInv
<1>2. CASE LogEnd(i)
  <2>1. /\ res[i] = "none" /\ pc[i] <= Len(req.program) /\ req.program[pc[i]] = "log"
    BY <1>2 DEF LogEnd, IInv, Flushes
  <2>2. WellFormed(req) /\ Sound(req.program) /\ Len(req.program) \in Nat
    BY RoutesWellFormed DEF IInv, Types, WellFormed, Sound
  <2>3. ItemOK(req.program, pc[i], out[i], did[i], "none")
    BY <2>1 DEF IInv, ItemsOK
  <2>4. pc[i] \in 1 .. Len(req.program) /\ ~(req.wrap = "batch" /\ pc[i] = 3)
    BY <2>1, <2>2, <2>3 DEF ItemOK, WellFormed
  <2>5. Advance(i, {"log"}) /\ UNCHANGED out /\ flushing' = flushing \ {i}
    BY <1>2 DEF LogEnd
  <2>6. Forward(req.program, pc[i], out[i], did[i], out'[i], did[i] \cup {"log"})
    BY <2>1, <2>5 DEF Forward, Remotes, Reads, Mutates, Facts, IInv, Types
  <2>7. /\ out' \in [Items -> Outcomes] /\ \A j \in Items \ {i} : out'[j] = out[j]
        /\ session' \in {"clean", "marked", "flushed", "committed", "lost"}
    BY <1>2, <2>5 DEF LogEnd, IInv, Types
  <2>8. {"log"} \subseteq Facts
    BY DEF Facts
  <2> QED
    BY <2>1, <2>2, <2>3, <2>4, <2>5, <2>6, <2>7, <2>8, AdvanceInductive
<1> QED
  BY <1>1, <1>2

\* A command on the node that the item survives.
LEMMA RemoteInductive ==
    ASSUME IInv, NEW i \in Items, Remote(i)
    PROVE  IInv'
<1>1. /\ Sound(req.program) /\ res[i] = "none" /\ pc[i] \in 1 .. Len(req.program)
      /\ Step(i) = req.program[pc[i]] /\ Step(i) \in Remotes
      /\ ItemOK(req.program, pc[i], out[i], did[i], "none")
      /\ i \notin flushing /\ ~(req.wrap = "batch" /\ pc[i] = 3)
  BY AtStep DEF Remote, Remotes, Reads, Mutates
<1>2. PICK o \in {"ok", "failed", "silent", "lost"}, effect \in BOOLEAN :
         /\ o = "lost" => Step(i) \in {"keep", "attempt"}
         /\ Step(i) = "attempt" => o # "ok"
         /\ Outcome(i, o, effect)
         /\ Advance(i, IF effect THEN {"effect"} ELSE {})
  BY DEF Remote
<1>3. /\ out' = [out EXCEPT ![i] = o]
      /\ effect => Step(i) \in Mutates
      /\ o = "ok" /\ Step(i) \in Mutates => effect
  BY <1>2 DEF Outcome
<1>4. PICK facts : facts = IF effect THEN {"effect"} ELSE {}
  OBVIOUS
<1>5. facts \subseteq Facts /\ ("effect" \in facts <=> effect) /\ facts \subseteq {"effect"}
  BY <1>4 DEF Facts
<1>6. /\ out' \in [Items -> Outcomes] /\ \A j \in Items \ {i} : out'[j] = out[j]
      /\ out'[i] = o
  BY <1>2, <1>3 DEF IInv, Types, Outcomes
<1>7. /\ session' \in {"clean", "marked", "flushed", "committed", "lost"}
      /\ flushing' \subseteq flushing \ {i}
  BY <1>1 DEF Remote, IInv, Types
<1>8. did[i] \subseteq Facts
  BY DEF IInv, Types
<1>9. Forward(req.program, pc[i], out[i], did[i], out'[i], did[i] \cup facts)
  <2>1. Step(i) \notin {"intent", "log", "save", "judge", "strict"}
    BY <1>1 DEF Remotes, Reads, Mutates
  <2>2. o = "lost" /\ Step(i) \in Mutates => Step(i) = "keep"
    BY <1>2 DEF Mutates
  <2> QED
    BY <1>1, <1>2, <1>3, <1>5, <1>6, <1>8, <2>1, <2>2 DEF Forward, Effects, Outcomes
<1>10. Advance(i, facts)
  BY <1>2, <1>4
<1> QED
  BY <1>1, <1>5, <1>6, <1>7, <1>9, <1>10, AdvanceInductive

\* One that ends it.
LEMMA RemoteLostInductive ==
    ASSUME IInv, NEW i \in Items, RemoteLost(i)
    PROVE  IInv'
<1>1. /\ Sound(req.program) /\ WellFormed(req) /\ res[i] = "none"
      /\ pc[i] \in 1 .. Len(req.program)
      /\ Step(i) = req.program[pc[i]] /\ Step(i) \in {"read", "write", "exec"}
      /\ ItemOK(req.program, pc[i], out[i], did[i], "none")
      /\ i \notin flushing
  BY AtStep DEF RemoteLost
<1>2. PICK effect \in BOOLEAN :
         /\ Outcome(i, "lost", effect)
         /\ \E facts \in {{}, {"failed"}} :
               did' = [did EXCEPT ![i] = did[i] \cup (IF effect THEN {"effect"} ELSE {})
                                                \cup facts]
  BY DEF RemoteLost
<1>3. PICK facts \in {{}, {"failed"}} :
         did' = [did EXCEPT ![i] = did[i] \cup (IF effect THEN {"effect"} ELSE {})
                                          \cup facts]
  BY <1>2
<1>4. out' = [out EXCEPT ![i] = "lost"] /\ (effect => Step(i) \in Mutates)
  BY <1>2 DEF Outcome
<1>5. /\ out' \in [Items -> Outcomes] /\ \A j \in Items \ {i} : out'[j] = out[j]
      /\ out'[i] = "lost"
  BY <1>4 DEF IInv, Types, Outcomes
<1>6. /\ did' \in [Items -> SUBSET Facts] /\ \A j \in Items \ {i} : did'[j] = did[j]
      /\ did'[i] = did[i] \cup (IF effect THEN {"effect"} ELSE {}) \cup facts
  BY <1>3 DEF IInv, Types, Facts
<1>7. Failing(req.program, pc[i], out[i], did[i], out'[i], did'[i])
  <2>1. did[i] \subseteq did'[i] /\ did'[i] \subseteq Facts
    BY <1>6 DEF IInv, Types
  <2>2. /\ "staged" \in did'[i] => "staged" \in did[i]
        /\ did'[i] \cap {"key", "scratch"} \subseteq did[i]
        /\ "event" \in did'[i] => "event" \in did[i]
    BY <1>3, <1>6
  <2>3. "effect" \in did'[i] => "effect" \in did[i] \/ Step(i) \in Effects
    BY <1>3, <1>4, <1>6 DEF Effects
  <2>4. Step(i) \in Remotes /\ Step(i) \notin {"judge", "release"}
    BY <1>1 DEF Remotes, Reads, Mutates
  <2> QED
    BY <1>1, <1>5, <2>1, <2>2, <2>3, <2>4 DEF Failing, Outcomes
<1>8. ItemOK(req.program, pc[i], out'[i], did'[i], "error")
  BY <1>1, <1>7, Fails
<1>9. /\ answer' \in {answer, "error"}
      /\ req.wrap = "batch" => answer' = "error" \/ pc[i] > 3
  <2>1. req.wrap = "batch" /\ Step(i) = "exec" => pc[i] > 3
    BY <1>1, BatchEnds DEF Mutates
  <2> QED
    BY <2>1 DEF RemoteLost
<1>10. /\ session' \in {"clean", "marked", "flushed", "committed", "lost"}
       /\ flushing' \subseteq flushing \ {i}
  BY <1>1 DEF RemoteLost, IInv, Types
<1> QED
  BY <1>1, <1>5, <1>6, <1>8, <1>9, <1>10, EndInductive DEF RemoteLost

\* The first of two commands answers.
LEMMA AttemptInductive ==
    ASSUME IInv, NEW i \in Items, AttemptSucceeds(i)
    PROVE  IInv'
<1>1. /\ Sound(req.program) /\ WellFormed(req) /\ res[i] = "none"
      /\ pc[i] \in 1 .. Len(req.program)
      /\ Step(i) = req.program[pc[i]] /\ Step(i) = "attempt"
      /\ ItemOK(req.program, pc[i], out[i], did[i], "none")
      /\ i \notin flushing
  BY AtStep DEF AttemptSucceeds
<1>2. /\ out' = [out EXCEPT ![i] = "ok"] /\ End(i, "success")
      /\ UNCHANGED <<did, flushing, session, answer>>
  BY DEF AttemptSucceeds, Outcome
<1>3. /\ out' \in [Items -> Outcomes] /\ \A j \in Items \ {i} : out'[j] = out[j]
      /\ out'[i] = "ok"
  BY <1>2 DEF IInv, Types, Outcomes
<1>4. ItemOK(req.program, pc[i], out'[i], did'[i], "success")
  BY <1>1, <1>2, <1>3, SucceedsEarly
<1>5. req.wrap = "batch" => pc[i] > 3
  BY <1>1, BatchEnds
<1>6. /\ did' \in [Items -> SUBSET Facts] /\ \A j \in Items \ {i} : did'[j] = did[j]
      /\ session' \in {"clean", "marked", "flushed", "committed", "lost"}
  BY <1>2 DEF IInv, Types
<1> QED
  BY <1>1, <1>2, <1>3, <1>4, <1>5, <1>6, EndInductive

\* The state without a request.
LEMMA InitIInv == Init => IInv
<1> SUFFICES ASSUME Init PROVE IInv
  OBVIOUS
<1>1. /\ req.guard = "none" /\ req.wrap = "none"
      /\ req.program = <<>> /\ Len(req.program) = 0
  BY DEF Init, NoRequest
<1>2. Types
  BY DEF Init, Types, Principals, Outcomes
<1>3. "nobody" \in Admitted("none")
  BY DEF Admitted, Principals
<1>4. ItemOK(req.program, 1, "none", {}, "absent")
  BY <1>1 DEF ItemOK, Outcomes, Traces, Settled, Causes, Real
<1>5. ItemsOK
  BY <1>4 DEF ItemsOK, Init
<1>6. Flushes /\ Batches /\ Idle
  BY <1>1 DEF Init, Flushes, Batches, Idle
<1> QED
  BY <1>1, <1>2, <1>3, <1>5, <1>6 DEF IInv, Init

\* The barrier, the semaphore and the end of an item.
LEMMA WaitingSteps ==
    ASSUME IInv, NEW i \in Items, Barrier(i) \/ Acquire(i) \/ Release(i) \/ Finish(i)
    PROVE  IInv'
<1>0. /\ session \in {"clean", "marked", "flushed", "committed", "lost"}
      /\ out \in [Items -> Outcomes] /\ did \in [Items -> SUBSET Facts]
      /\ pc \in [Items -> Nat]
      /\ WellFormed(req) /\ Sound(req.program) /\ Len(req.program) \in Nat
  BY RoutesWellFormed DEF IInv, Types, WellFormed, Sound
<1>1. CASE Barrier(i)
  <2>1. /\ res[i] = "none" /\ pc[i] \in 1 .. Len(req.program)
        /\ Step(i) = req.program[pc[i]] /\ Step(i) = "barrier"
        /\ ItemOK(req.program, pc[i], out[i], did[i], "none")
        /\ i \notin flushing
    BY <1>1, AtStep DEF Barrier
  <2>2. Advance(i, {}) /\ UNCHANGED <<out, flushing, session>>
    BY <1>1 DEF Barrier
  <2>3. Forward(req.program, pc[i], out[i], did[i], out'[i], did[i] \cup {})
    BY <1>0, <2>1, <2>2 DEF Forward, Remotes, Reads, Mutates
  <2>4. ASSUME req.wrap = "batch", pc[i] = 3, NEW j \in Items PROVE pc[j] > 2
    <3>1. answer = "none"
      BY <1>1 DEF Barrier, At, MainSteps
    <3>2. res[j] # "none" => pc[j] > 3
      BY <2>4, <3>1 DEF IInv, Batches
    <3>3. res[j] # "none" \/ pc[j] >= 3
      BY <1>1, <2>4 DEF Barrier
    <3> QED
      BY <1>0, <3>2, <3>3
  <2> QED
    BY <1>0, <2>1, <2>2, <2>3, <2>4, AdvanceInductive
<1>2. CASE Acquire(i) \/ Release(i)
  <2>1. /\ res[i] = "none" /\ pc[i] \in 1 .. Len(req.program)
        /\ Step(i) = req.program[pc[i]] /\ Step(i) \in {"acquire", "release"}
        /\ ItemOK(req.program, pc[i], out[i], did[i], "none")
        /\ i \notin flushing /\ ~(req.wrap = "batch" /\ pc[i] = 3)
    BY <1>2, AtStep DEF Acquire, Release
  <2>2. /\ pc' = [pc EXCEPT ![i] = @ + 1]
        /\ UNCHANGED <<req, who, out, did, res, flushing, session, answer>>
        /\ free' \in Nat
    BY <1>2 DEF Acquire, Release, IInv, Types
  <2>3. Forward(req.program, pc[i], out[i], did[i], out'[i], did'[i])
    BY <1>0, <2>1, <2>2 DEF Forward, Remotes, Reads, Mutates
  <2>4. pc'[i] = pc[i] + 1 /\ res'[i] = "none"
    BY <1>0, <2>1, <2>2
  <2>5. Touches(i)
    BY <1>0, <2>1, <2>2 DEF Touches, IInv, Types
  <2>6. ItemOK(req.program, pc'[i], out'[i], did'[i], res'[i])
    BY <1>0, <2>1, <2>3, <2>4, GoesOn
  <2> QED
    BY <2>1, <2>2, <2>4, <2>5, <2>6, ItemInductive
<1>3. CASE Finish(i)
  <2>1. /\ res[i] = "none" /\ pc[i] = Len(req.program) + 1
        /\ res' = [res EXCEPT ![i] = "success"]
        /\ UNCHANGED <<req, who, pc, out, did, free, flushing, session, answer>>
    BY <1>3 DEF Finish
  <2>2. i \notin flushing
    BY <1>0, <2>1 DEF IInv, Flushes
  <2>3. Touches(i)
    BY <1>0, <2>1, <2>2 DEF Touches, IInv, Types
  <2>4. ItemOK(req.program, pc[i], out[i], did[i], "success")
    BY <1>0, <2>1, Succeeds DEF IInv, ItemsOK
  <2>5. req.wrap = "batch" => pc[i] > 3
    BY <1>0, <2>1 DEF WellFormed
  <2>6. res'[i] = "success" /\ pc'[i] = pc[i]
    BY <2>1 DEF IInv, Types
  <2> QED
    BY <2>1, <2>3, <2>4, <2>5, <2>6, ItemInductive
<1> QED
  BY <1>1, <1>2, <1>3

\* Admission: the items start from nothing.
LEMMA AcceptInductive ==
    ASSUME IInv, NEW r \in Routes, NEW p \in Principals, NEW n \in Slots, Accept(r, p, n)
    PROVE  IInv'
<1>1. /\ req' = r /\ who' = p /\ free' = n /\ p \in Admitted(r.guard)
      /\ UNCHANGED <<pc, out, did, flushing, session, answer>>
      /\ \A i \in Items : pc[i] = 1 /\ out[i] = "none" /\ did[i] = {}
      /\ flushing = {} /\ answer = "none"
  BY DEF Accept, IInv, Idle
<1>2. res' = [i \in Items |-> IF r.wrap # "one" \/ i = 1 THEN "none" ELSE "absent"]
  BY DEF Accept
<1>3. Types'
  BY <1>1, <1>2, RequestAssumption DEF IInv, Types
<1>4. WellFormed(r)
  BY RoutesWellFormed
<1>5. ItemsOK'
  <2>1. Len(r.program) \in Nat
    BY <1>4 DEF WellFormed, Sound
  <2>2. ASSUME NEW s, s \in {"none", "absent"} PROVE ItemOK(r.program, 1, "none", {}, s)
    BY <2>1, <2>2 DEF ItemOK, Outcomes, Traces, Settled, Causes, Real
  <2>3. \A i \in Items : res'[i] \in {"none", "absent"}
    BY <1>2
  <2> QED
    BY <1>1, <2>2, <2>3 DEF ItemsOK
<1>6. Flushes'
  BY <1>1 DEF Flushes
<1>7. Batches'
  BY <1>1, <1>2 DEF Batches
<1>8. Idle'
  <2>1. r # NoRequest
    <3>1. r.wrap # "none" /\ NoRequest.wrap = "none"
      BY RoutesServed DEF Served, NoRequest
    <3> QED
      BY <3>1
  <2> QED
    BY <1>1, <2>1 DEF Idle
<1> QED
  BY <1>1, <1>3, <1>5, <1>6, <1>7, <1>8 DEF IInv

\* The answer and the end of the request.
LEMMA RequestInductive ==
    ASSUME IInv, RequestStep
    PROVE  IInv'
<1>1. CASE Answer \/ CommitFails \/ CloseSession
  <2>1. /\ UNCHANGED <<req, who, pc, out, did, res, free, flushing>>
        /\ session' \in {"clean", "marked", "flushed", "committed", "lost"}
        /\ answer' \in {answer, "done", "error"}
        /\ answer' = "none" => answer = "none"
        /\ req # NoRequest
    BY <1>1 DEF Answer, CommitFails, CloseSession, IInv, Types, Idle
  <2>2. Types' /\ who' \in Admitted(req'.guard)
    BY <2>1 DEF IInv, Types
  <2>3. ItemsOK' /\ Flushes' /\ Batches'
    BY <2>1 DEF IInv, ItemsOK, Flushes, Batches
  <2>4. Idle'
    BY <2>1 DEF Idle
  <2> QED
    BY <2>2, <2>3, <2>4 DEF IInv
<1>2. CASE Leave
  <2>1. /\ req' = NoRequest /\ who' = "nobody"
        /\ pc' = [i \in Items |-> 1] /\ out' = [i \in Items |-> "none"]
        /\ did' = [i \in Items |-> {}] /\ res' = [i \in Items |-> "absent"]
        /\ free' = 0 /\ session' = "clean" /\ answer' = "none"
    BY <1>2 DEF Leave
  <2>2. flushing' = {}
    BY <1>2 DEF Leave, IInv, Types, Flushes, Step, MainSteps
  <2>3. Init'
    BY <2>1, <2>2 DEF Init
  <2> QED
    BY <2>3, InitIInv, PTL
<1> QED
  BY <1>1, <1>2 DEF RequestStep

\* IInv holds in every reachable state.
LEMMA Invariance == Spec => []IInv
<1>1. ASSUME IInv, [Next]_vars PROVE IInv'
  <2>1. ASSUME NEW i \in Items, ItemStep(i) PROVE IInv'
    BY <1>1, <2>1, PlainSteps, RaisingSteps, JudgingSteps, LogSteps, RemoteInductive,
       RemoteLostInductive, AttemptInductive, WaitingSteps DEF ItemStep
  <2>2. CASE UNCHANGED vars
    BY <1>1, <2>2 DEF vars, IInv, Types, ItemsOK, Flushes, Batches, Idle
  <2> QED
    BY <1>1, <2>1, <2>2, AcceptInductive, RequestInductive DEF Next
<1> QED
  BY InitIInv, <1>1, PTL DEF Spec

\* What the invariant says of a request.
LEMMA Consequences == IInv => TypeOK /\ OnlyWritersChange /\ SuccessIsReal
<1> SUFFICES ASSUME IInv PROVE TypeOK /\ OnlyWritersChange /\ SuccessIsReal
  OBVIOUS
<1>1. \A i \in Items : ItemOK(req.program, pc[i], out[i], did[i], res[i])
  BY DEF IInv, ItemsOK
<1>2. WellFormed(req) /\ Sound(req.program) /\ Len(req.program) \in Nat
  BY RoutesWellFormed DEF IInv, Types, WellFormed, Sound
<1>3. TypeOK
  BY <1>1 DEF IInv, Types, TypeOK, Outcomes, ItemOK
<1>4. OnlyWritersChange
  <2>1. ASSUME NEW i \in Items, did[i] \cap {"effect", "staged", "key"} # {}
        PROVE  who \in {"writer", "superuser"}
    <3>1. \E e \in 1 .. Len(req.program) : req.program[e] \in Changers
      BY <1>1, <2>1 DEF ItemOK, Causes, Changers
    <3>2. req.guard \in Writing
      BY <1>2, <3>1 DEF WellFormed
    <3> QED
      BY <3>2 DEF IInv, Admitted, Writing
  <2>2. ASSUME NEW i \in Items, "scratch" \in did[i] PROVE who # "nobody"
    <3>1. \E e \in 1 .. Len(req.program) : req.program[e] = "scratch"
      BY <1>1, <2>2 DEF ItemOK, Causes
    <3>2. req.guard \in Guarded
      BY <1>2, <3>1 DEF WellFormed
    <3> QED
      BY <3>2 DEF IInv, Admitted, Writing, Guarded, Principals
  <2> QED
    BY <2>1, <2>2 DEF OnlyWritersChange
<1>5. SuccessIsReal
  <2> SUFFICES ASSUME NEW i \in Items, res[i] = "success", req.guard # "service",
                      NEW k \in Mutates, Promises(k)
               PROVE  out[i] = "ok" /\ "effect" \in did[i]
    BY DEF SuccessIsReal
  <2>1. Confirmed(req.program)
    BY <1>2 DEF WellFormed
  <2>2. \E n \in 1 .. Len(req.program) : req.program[n] \in Mutates
    BY DEF Promises
  <2> QED
    BY <1>1, <2>1, <2>2 DEF ItemOK, Real
<1> QED
  BY <1>3, <1>4, <1>5

\* An effect comes after its intent, and in a batch after all intents.
LEMMA IntentComesFirst == IInv => IntentFirst
<1> SUFFICES ASSUME IInv, AuditedFirst, NEW i \in Items, "effect" \in did[i],
                    NEW j \in Items, j = i \/ req.wrap = "batch"
             PROVE  "intent" \in did[j]
  BY DEF IntentFirst
<1>1. WellFormed(req) /\ Sound(req.program) /\ Len(req.program) \in Nat
  BY RoutesWellFormed DEF IInv, Types, WellFormed, Sound
<1>2. /\ ItemOK(req.program, pc[i], out[i], did[i], res[i])
      /\ ItemOK(req.program, pc[j], out[j], did[j], res[j])
      /\ pc[i] \in Nat /\ pc[j] \in Nat
  BY DEF IInv, ItemsOK, Types
<1>3. PICK e \in 1 .. Len(req.program) : e <= pc[i] /\ req.program[e] \in Effects
  BY <1>2 DEF ItemOK, Causes
<1>4. CASE j = i
  <2>1. PICK n \in 1 .. e - 1 : req.program[n] = "intent"
    BY <1>1, <1>3 DEF Sound, Audited, AuditedFirst
  <2>2. n \in 1 .. pc[i] - 1
    BY <1>2, <1>3
  <2> QED
    BY <1>2, <1>4, <2>1, <2>2 DEF ItemOK, Traces
<1>5. CASE req.wrap = "batch"
  <2>1. e > 3
    <3>1. ASSUME e \in 1 .. 3 PROVE FALSE
      BY <1>1, <1>3, <1>5, <3>1 DEF WellFormed
    <3> QED
      BY <3>1
  <2>2. pc[j] > 2
    BY <1>2, <1>3, <1>5, <2>1 DEF IInv, Batches
  <2>3. 2 \in 1 .. pc[j] - 1 /\ req.program[2] = "intent"
    BY <1>1, <1>2, <1>5, <2>2 DEF WellFormed
  <2> QED
    BY <1>2, <2>3 DEF ItemOK, Traces
<1> QED
  BY <1>4, <1>5

\* An event has its causes behind it.
LEMMA EventsComeLast == IInv => EventsReal
<1> SUFFICES ASSUME IInv, NEW i \in Items, "event" \in did[i]
             PROVE  /\ {"effect", "log"} \subseteq did[i] \/ out[i] # "ok"
                    /\ Promises("strict") => out[i] = "ok"
                    /\ Promises("save") => "row" \in did[i]
                    /\ "failed" \notin did[i]
  BY DEF EventsReal
<1>1. Sound(req.program) /\ Len(req.program) \in Nat
  BY RoutesWellFormed DEF IInv, Types, WellFormed, Sound
<1>2. /\ ItemOK(req.program, pc[i], out[i], did[i], res[i])
      /\ pc[i] \in 1 .. Len(req.program) + 1
  BY DEF IInv, ItemsOK, ItemOK
<1>3. PICK n \in 1 .. pc[i] - 1 : req.program[n] = "event"
  BY <1>2 DEF ItemOK, Causes
<1>4. n \in 1 .. Len(req.program) /\ n \in Nat
  BY <1>1, <1>2
<1>5. PICK m \in 1 .. n - 1 :
         /\ req.program[m] \in Mutates /\ req.program[m] # "keep"
         /\ (\E j \in 1 .. Len(req.program) : req.program[j] = "strict") =>
               \E j \in m + 1 .. n - 1 : req.program[j] = "strict"
  BY <1>1, <1>3, <1>4 DEF Sound, Announced
<1>6. m \in 1 .. pc[i] - 1 /\ n \in m + 1 .. pc[i] - 1
  BY <1>2, <1>4
<1>7. out[i] = "ok" => {"effect", "log"} \subseteq did[i]
  <2>1. PICK k \in 1 .. n - 1 : req.program[k] = "log"
    BY <1>1, <1>3, <1>4 DEF Sound, Announced
  <2>2. k \in 1 .. pc[i] - 1
    BY <1>2, <1>4
  <2>3. "log" \in did[i]
    BY <1>2, <2>1, <2>2 DEF ItemOK, Traces
  <2> QED
    BY <1>2, <1>5, <1>6, <2>3 DEF ItemOK, Settled
<1>8. Promises("strict") => out[i] = "ok"
  <2> SUFFICES ASSUME Promises("strict") PROVE out[i] = "ok"
    OBVIOUS
  <2>1. PICK j \in m + 1 .. n - 1 : req.program[j] = "strict"
    BY <1>5 DEF Promises
  <2>2. j \in m + 1 .. pc[i] - 1
    BY <1>2, <1>4
  <2>3. /\ out[i] # "none" /\ out[i] # "lost"
        /\ out[i] \in {"none", "ok", "lost"}
    BY <1>2, <1>5, <1>6, <2>1, <2>2 DEF ItemOK, Settled
  <2> QED
    BY <2>3
<1>9. Promises("save") => "row" \in did[i]
  <2> SUFFICES ASSUME Promises("save") PROVE "row" \in did[i]
    OBVIOUS
  <2>1. PICK k \in 1 .. n - 1 : req.program[k] = "save"
    BY <1>1, <1>3, <1>4 DEF Sound, Announced, Promises
  <2>2. k \in 1 .. pc[i] - 1
    BY <1>2, <1>4
  <2> QED
    BY <1>2, <2>1, <2>2 DEF ItemOK, Traces
<1>10. "failed" \notin did[i]
  BY <1>2 DEF ItemOK, Causes
<1> QED
  BY <1>7, <1>8, <1>9, <1>10

\* Every variable keeps its type, and every item stays within its program.
THEOREM TypeCorrect == Spec => []TypeOK
  BY Invariance, Consequences, PTL

\* Whatever the handler, only a principal with write access changes a node or a row:
\* the guards of api/v2 fit the services they call.
THEOREM WritersCorrect == Spec => []OnlyWritersChange
  BY Invariance, Consequences, PTL

\* A success that a handler reports stands for a command that ran and exited with 0.
THEOREM SuccessCorrect == Spec => []SuccessIsReal
  BY Invariance, Consequences, PTL

\* log_required has committed the intent before the effect, and in a batch all of
\* them before the first.
THEOREM IntentCorrect == Spec => []IntentFirst
  BY Invariance, IntentComesFirst, PTL

\* An SSE event follows the effect, the audit event and the history row it is about.
THEOREM EventsCorrect == Spec => []EventsReal
  BY Invariance, EventsComeLast, PTL

----------------------------------------------------------------------------
(* Access control.  TokensEndOnce is inductive once every row of           *)
(* refresh_tokens has an owner.  AnswersJustified is about what was true   *)
(* while a request ran: the request has seen all that is true of its user  *)
(* now, and what its earlier steps read is among what it has seen.         *)

\* A row of refresh_tokens belongs to a user that was created.
AccOwned ==
    \A t \in Tokens : token[t] # "none" =>
        owner[t] \in Users /\ user[owner[t]] # "none"

\* A request is about a user that was created, and it has seen all that is true
\* of the user now.
AccUpToDate ==
    \A c \in Clients : phase[c] # "idle" =>
        /\ usr[c] \in Users /\ user[usr[c]] # "none"
        /\ user[usr[c]] = "active" => "active" \in seen[c]
        /\ role[usr[c]] = "super" => "super" \in seen[c]
        /\ phase[c] = "password" /\ "moved" \notin seen[c] =>
              Exists(usr[c]) /\ mail[usr[c]] = addr[c]

\* No two users have the same e-mail.
AccUnique ==
    \A u, v \in Users : Exists(u) /\ Exists(v) /\ mail[u] = mail[v] => u = v

\* What the steps behind it have established for a request.
AccEstablished ==
    \A c \in Clients :
        /\ phase[c] \notin {"idle", "password", "active"} => "active" \in seen[c]
        /\ phase[c] \notin {"idle", "password"} /\ tok[c] = None =>
              proved[c] = usr[c] \/ "moved" \in seen[c]
        /\ phase[c] = "password" => addr[c] \in Mails
        /\ claim[c] = "super" => "super" \in seen[c]
        /\ phase[c] \in {"load", "rotate"} => tok[c] \in Tokens

AccIInv ==
    /\ AccessTypeOK /\ AccOwned /\ AccUpToDate /\ AccUnique /\ AccEstablished
    /\ TokensEndOnce

\* None is no id, and the configured e-mail is one.
LEMMA AccNoneIsNoId == None \notin Users /\ None \notin Tokens /\ InitialMail \in Mails
  BY AccessAssumption DEF AccessAssumption, None, Users, Tokens, Mails, InitialMail

\* Nobody exists and nothing is requested.
LEMMA AccInitHolds == AccessInit => AccIInv
  BY AccNoneIsNoId
     DEF AccessAssumption, AccessInit, AccIInv, AccessTypeOK, AccOwned, AccUpToDate,
         AccUnique, AccEstablished, TokensEndOnce, Claims, Exists

\* A request that ends with an error.
LEMMA AccEndStep ==
    ASSUME AccIInv, NEW c \in Clients, EndRequest(c),
           UNCHANGED <<users, rows, access, boot, edits>>
    PROVE  AccIInv'
  BY AccNoneIsNoId
     DEF AccIInv, AccessTypeOK, AccOwned, AccUpToDate, AccUnique, AccEstablished,
         TokensEndOnce, Claims, users, rows, EndRequest, Exists

\* The beginning, the end and the reads of a request.
LEMMA AccReadStep ==
    ASSUME AccIInv, NEW c \in Clients,
           \/ \E u \in Users : Login(c, u)
           \/ \E t \in Tokens : Refresh(c, t)
           \/ VerifyPassword(c) \/ IsUserActive(c) \/ IsSuperuser(c) \/ GetUser(c)
           \/ ReturnTokens(c)
    PROVE  AccIInv'
<1> USE AccNoneIsNoId
        DEF AccIInv, AccessTypeOK, AccOwned, AccUpToDate, AccUnique, AccEstablished,
            TokensEndOnce, Claims, users, rows,
            EndRequest, Goto, Exists
<1>1. ASSUME NEW u \in Users, Login(c, u) PROVE AccIInv'
  BY <1>1 DEF Login, Begin, UserFacts
<1>2. ASSUME NEW t \in Tokens, Refresh(c, t) PROVE AccIInv'
  BY <1>2 DEF Refresh, Begin, UserFacts
<1>3. CASE IsUserActive(c)
  <2>1. CASE user[usr[c]] = "active"
    <3>1. /\ phase[c] = "active" /\ Goto(c, IF tok[c] = None THEN "sweep" ELSE "load")
          /\ UNCHANGED <<users, rows, access, boot, edits>>
      BY <1>3, <2>1 DEF IsUserActive
    <3>2. QED
      BY <2>1, <3>1
  <2>2. CASE user[usr[c]] # "active"
    BY <1>3, <2>2, AccEndStep DEF IsUserActive
  <2>3. QED
    BY <2>1, <2>2
<1>4. CASE IsSuperuser(c)
  BY <1>4 DEF IsSuperuser
<1>5. CASE GetUser(c)
  <2>1. CASE Exists(usr[c])
    <3>1. /\ phase[c] = "load" /\ claim' = [claim EXCEPT ![c] = role[usr[c]]]
          /\ phase' = [phase EXCEPT ![c] = "rotate"]
          /\ UNCHANGED <<usr, tok, addr, proved, seen, users, rows, access, boot, edits>>
      BY <1>5, <2>1 DEF GetUser
    <3>2. QED
      BY <3>1
  <2>2. CASE ~Exists(usr[c])
    BY <1>5, <2>2, AccEndStep DEF GetUser
  <2>3. QED
    BY <2>1, <2>2
<1>6. CASE ReturnTokens(c)
  BY <1>6 DEF ReturnTokens
<1>7. CASE VerifyPassword(c)
  <2>1. ASSUME NEW u \in Holders(addr[c]), proved' = [proved EXCEPT ![c] = u],
               phase' = [phase EXCEPT ![c] = "active"], phase[c] = "password",
               UNCHANGED <<usr, tok, addr, claim, seen, users, rows, access, boot, edits>>
        PROVE  AccIInv'
    <3>1. u \in Users /\ Exists(u) /\ mail[u] = addr[c]
      BY DEF Holders
    <3>2. u = usr[c] \/ "moved" \in seen[c]
      BY <2>1, <3>1
    <3>3. QED
      BY <2>1, <3>1, <3>2
  <2>2. CASE EndRequest(c)
    BY <1>7, <2>2, AccEndStep DEF VerifyPassword
  <2>3. QED
    BY <1>7, <2>1, <2>2 DEF VerifyPassword
<1>8. QED
  BY <1>1, <1>2, <1>3, <1>4, <1>5, <1>6, <1>7

\* The writes to refresh_tokens.
LEMMA AccTokenStep ==
    ASSUME AccIInv,
           \/ \E c \in Clients : DeleteExpired(c) \/ Create(c) \/ Rotate(c)
           \/ \E t \in Tokens : Logout(t) \/ ExpireToken(t)
    PROVE  AccIInv'
<1> USE AccNoneIsNoId
        DEF AccIInv, AccessTypeOK, AccOwned, AccUpToDate, AccUnique, AccEstablished,
            TokensEndOnce, Claims, users, rows,
            request, EndRequest, Goto, Exists
<1>1. ASSUME NEW c \in Clients, DeleteExpired(c) PROVE AccIInv'
  BY <1>1 DEF DeleteExpired
<1>2. ASSUME NEW c \in Clients, Create(c) PROVE AccIInv'
  <2>1. CASE EndRequest(c) /\ UNCHANGED rows
    BY <1>2, <2>1, AccEndStep DEF Create
  <2>2. ASSUME NEW n \in Tokens, StoreRow(n, usr[c], None),
               token' = [token EXCEPT ![n] = "valid"], Goto(c, "answer"),
               UNCHANGED <<users, access, boot, edits>>, phase[c] = "store"
        PROVE  AccIInv'
    BY <2>2 DEF StoreRow, Fresh
  <2>3. QED
    BY <1>2, <2>1, <2>2 DEF Create
<1>3. ASSUME NEW c \in Clients, Rotate(c) PROVE AccIInv'
  <2>1. CASE EndRequest(c) /\ UNCHANGED rows
    <3>1. UNCHANGED <<users, access, boot, edits>>
      BY <1>3, Zenon DEF Rotate
    <3>2. QED
      BY <2>1, <3>1
  <2>2. CASE ~(EndRequest(c) /\ UNCHANGED rows)
    <3>1. PICK n \in Tokens :
             /\ token[n] = "none" /\ token[tok[c]] = "valid" /\ Exists(usr[c])
             /\ token' = [token EXCEPT ![n] = "valid", ![tok[c]] = "used"]
             /\ owner' = [owner EXCEPT ![n] = usr[c]]
             /\ parent' = [parent EXCEPT ![n] = tok[c]]
             /\ Goto(c, "answer") /\ UNCHANGED <<users, access, boot, edits>>
      BY <1>3, <2>2, Zenon DEF Rotate, StoreRow, Fresh
    <3>2. tok[c] \in Tokens /\ usr[c] \in Users /\ phase[c] = "rotate"
      BY <1>3 DEF Rotate
    <3>3. AccessTypeOK' /\ AccOwned' /\ AccUpToDate' /\ AccUnique' /\ AccEstablished'
      BY <3>1, <3>2
    <3>4. TokensEndOnce'
      BY <3>1, <3>2
    <3>5. QED
      BY <3>3, <3>4
  <2>3. QED
    BY <2>1, <2>2
<1>4. ASSUME NEW t \in Tokens, Logout(t) PROVE AccIInv'
  BY <1>4 DEF Logout
<1>5. ASSUME NEW t \in Tokens, ExpireToken(t) PROVE AccIInv'
  BY <1>5 DEF ExpireToken
<1>6. QED
  BY <1>1, <1>2, <1>3, <1>4, <1>5

\* The administrator's edits, and the startup of the replicas.
LEMMA AccUserStep ==
    ASSUME AccIInv,
           \/ Administration
           \/ \E u \in Users : ExpireAccess(u)
           \/ \E r \in Replicas : BootRead(r) \/ BootCreate(r) \/ Restart(r)
    PROVE  AccIInv'
<1> USE AccNoneIsNoId
        DEF AccIInv, AccessTypeOK, AccOwned, AccUpToDate, AccUnique, AccEstablished,
            TokensEndOnce, Claims, users, rows,
            request, Exists
<1>1. ASSUME NEW u \in Users, NEW claimed \in Claims, NEW m \in Mails,
             CreateUser(u, claimed, m)
      PROVE  AccIInv'
  BY <1>1 DEF CreateUser, Insert, Holders, Fresh, Edit
<1>2. ASSUME NEW u \in Users, NEW status \in {"active", "inactive"},
             NEW claimed \in Claims, NEW m \in Mails,
             PatchUser(u, status, claimed, m)
      PROVE  AccIInv'
  BY <1>2 DEF PatchUser, Holders, Notice, UserFacts, Edit
<1>3. ASSUME NEW u \in Users, DeleteUser(u) PROVE AccIInv'
  BY <1>3 DEF DeleteUser, Notice, UserFacts, Edit
<1>4. ASSUME NEW u \in Users, ExpireAccess(u) PROVE AccIInv'
  BY <1>4 DEF ExpireAccess
<1>5. ASSUME NEW r \in Replicas, BootRead(r) \/ Restart(r) PROVE AccIInv'
  BY <1>5 DEF BootRead, Restart
<1>6. ASSUME NEW r \in Replicas, BootCreate(r) PROVE AccIInv'
  BY <1>6 DEF BootCreate, Insert, Holders, Fresh
<1>7. QED
  BY <1>1, <1>2, <1>3, <1>4, <1>5, <1>6 DEF Administration

\* AccIInv holds in every reachable state.
LEMMA AccInvariance == AccessSpec => []AccIInv
<1>1. AccIInv /\ [AccessNext]_accessVars => AccIInv'
  <2> SUFFICES ASSUME AccIInv, [AccessNext]_accessVars PROVE AccIInv'
    OBVIOUS
  <2>1. CASE AccessNext
    BY <2>1, AccReadStep, AccTokenStep, AccUserStep DEF AccessNext, ClientStep
  <2>2. CASE UNCHANGED accessVars
    BY <2>2 DEF accessVars, AccIInv, AccessTypeOK, AccOwned, AccUpToDate,
       AccUnique, AccEstablished, TokensEndOnce, Exists
  <2>3. QED
    BY <2>1, <2>2
<1>2. QED
  BY AccInitHolds, <1>1, PTL DEF AccessSpec

\* Every variable keeps its type: users, refresh tokens, requests and replicas.
THEOREM AccTypeCorrect == AccessSpec => []AccessTypeOK
  BY AccInvariance, PTL DEF AccIInv

\* However many clients present a refresh token at once, at most one gets another
\* for it, and none gets one for a token that was revoked or swept (rotate).
THEOREM RotationCorrect == AccessSpec => []TokensEndOnce
  BY AccInvariance, PTL DEF AccIInv

\* No answer claims more than was true of the user while the request ran, and a
\* login verified the password of the user it answers for, unless the user's
\* e-mail was taken away meanwhile (login, refresh_access_token).
THEOREM AnswersCorrect == AccessSpec => []AnswersJustified
<1>1. AccIInv => AnswersJustified
  BY DEF AccIInv, AccEstablished, AnswersJustified
<1>2. QED
  BY AccInvariance, <1>1, PTL
============================================================================
