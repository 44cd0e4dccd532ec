------------------------- MODULE ServiceOperations -------------------------
(* What the methods of the application services do, one definition a method.
   A method is the sequence of its steps that can fail, wait or leave a trace;
   ServiceRequests says what a step does:

     check     validate, look up, decrypt: may refuse, changes nothing
     require   the same, before the work is split over items
     intent    log_required: an audit event in a transaction of its own
     change    a row written in a transaction of the writer's own
     nested    an operation that another module of the project models
     stage     rows added and flushed in the session of the request
     mark      a row deleted in the session of the request, not yet flushed
     token     a row of the caller's own refresh tokens
     read, write, exec, keep, attempt    a command on the node: whether it may
               change the node, and what becomes of a lost answer
     scratch   the compose file of a compose command, on the node
     trust     ensure_host: the host's key in known_hosts, best effort
     strict, soft, output, judge    what is made of the command's outcome
     log, logQuiet     an audit event in the session of the request
     save, saveQuiet   a history row in a transaction of its own
     event     an SSE event
     announce  from here on a failure is audited, and published if the method
               publishes events
     barrier, acquire, release    asyncio.gather and asyncio.Semaphore *)
EXTENDS Sequences

\* DockerContainerService.
Container_create_container == <<"check", "intent", "write", "strict", "output", "log">>
Container_list_containers == <<"check", "read", "strict", "log">>
Container_get_container == <<"check", "read", "strict", "output", "log">>
Container_lifecycle_action == <<"check", "intent", "write", "strict", "log", "event">>
Container_start_container == Container_lifecycle_action
Container_stop_container == Container_lifecycle_action
Container_restart_container == Container_lifecycle_action
Container_remove_container == Container_lifecycle_action
Container_get_logs == <<"check", "read", "strict", "log">>
Container_exec_command == <<"check", "intent", "exec", "log", "judge">>
Container_get_stats == <<"check", "read", "strict", "output", "log">>
Container_pause_container == <<"check", "write", "strict", "log", "event">>
Container_unpause_container == <<"check", "write", "strict", "log", "event">>
Container_rename_container == <<"check", "write", "strict", "log", "event">>
Container_top_container == <<"check", "read", "strict", "output">>
Container_kill_container == <<"check", "intent", "write", "strict", "log", "event">>
Container_update_container == <<"check", "intent", "write", "strict", "log">>
Container_get_archive == <<"check", "read", "strict", "log">>
Container_put_archive == <<"check", "write", "strict", "log">>
Container_get_port == <<"check", "read", "strict", "log">>
Container_wait_container == <<"check", "read", "strict", "log">>

\* DockerImageService.
Image_list_images == <<"check", "read", "strict", "log">>
Image_pull_image == <<"check", "intent", "keep", "strict", "log", "judge">>
Image_inspect_image == <<"check", "read", "strict", "output", "log">>
Image_remove_image == <<"check", "intent", "write", "strict", "log">>
Image_tag_image == <<"check", "intent", "write", "strict", "log">>
Image_build_image == <<"check", "intent", "write", "strict", "log">>
Image_push_image == <<"check", "intent", "write", "strict", "log">>
Image_image_history == <<"check", "read", "strict", "log">>

\* DockerResourceService.
Resource_list_raw == <<"check", "read", "strict", "log">>
Resource_list_networks == Resource_list_raw
Resource_list_volumes == Resource_list_raw
Resource_create_network == <<"check", "write", "strict", "log">>
Resource_inspect_network == <<"check", "read", "strict", "output">>
Resource_remove_network == <<"check", "write", "strict", "log">>
Resource_connect_to_network == <<"check", "write", "strict">>
Resource_disconnect_from_network == <<"check", "write", "strict">>
Resource_create_volume == <<"check", "write", "strict", "log">>
Resource_inspect_volume == <<"check", "read", "strict", "output">>
Resource_remove_volume == <<"check", "write", "strict", "log">>
Resource_prune_volumes == <<"check", "write", "strict", "log">>
Resource_prune_networks == <<"check", "write", "strict", "log">>

\* DockerSystemService.
System_info == <<"check", "read", "strict", "output">>
System_disk_usage == <<"check", "read", "strict">>
System_prune_containers == <<"check", "write", "strict", "log">>
System_prune_images == <<"check", "write", "strict", "log">>
System_version == <<"check", "read", "strict", "output">>
System_system_prune == <<"check", "write", "strict", "log">>

\* DockerBulkService: the targets are resolved before any of them is contacted, and
\* no call is audited.
DockerBulk_prepare == <<"require", "check", "barrier">>
DockerBulk_bulk_container_action == DockerBulk_prepare \o <<"write", "soft">>
DockerBulk_bulk_exec == DockerBulk_prepare \o <<"write", "judge">>
DockerBulk_bulk_pull_image == DockerBulk_prepare \o <<"write", "soft">>
DockerBulk_bulk_image_remove == DockerBulk_prepare \o <<"write", "soft">>
DockerBulk_bulk_image_build == DockerBulk_prepare \o <<"write", "soft">>
DockerBulk_bulk_inspect == DockerBulk_prepare \o <<"read", "judge">>
DockerBulk_bulk_logs == DockerBulk_prepare \o <<"read", "judge">>
DockerBulk_bulk_stats == DockerBulk_prepare \o <<"read", "judge">>

\* ComposeService.
Compose_create_project == <<"check", "change">>
Compose_list_all_projects == <<"check">>
Compose_get_project == <<"check">>
Compose_update_project == <<"check", "change">>
Compose_delete_project == <<"check", "change">>
Compose_upsert_project == <<"check", "change">>
Compose_run_compose(kind) == <<"check", "scratch", kind, "strict">>
Compose_bulk_verb == <<"require", "barrier">> \o Compose_run_compose("write")
Compose_up == <<"require", "barrier">> \o Compose_run_compose("write")
Compose_down == <<"check">> \o Compose_run_compose("write")
Compose_verb_bulk == Compose_bulk_verb
Compose_ps == <<"check">> \o Compose_run_compose("read")
Compose_logs == <<"check">> \o Compose_run_compose("read")
Compose_config == <<"check">> \o Compose_run_compose("read")
Compose_images ==
    <<"check", "check", "scratch", "attempt">> \o Compose_run_compose("read")
Compose_top == <<"check">> \o Compose_run_compose("read")
Compose_port == <<"check">> \o Compose_run_compose("read")
Compose_version == <<"check", "check", "attempt">> \o Compose_run_compose("read")
Compose_exec == <<"check">> \o Compose_run_compose("write")
Compose_run == <<"check">> \o Compose_run_compose("write")

\* NodeManagementService; NodeLifecycle details the tags.
Node_get_node == <<"check">>
Node_get_nodes_cursor == <<"check">>
Node_create_node == <<"trust", "change", "intent">>
Node_update_node == <<"check", "trust", "intent", "change", "saveQuiet">>
Node_delete_node == <<"check", "intent", "change">>
Node_get_all_tags == <<"check">>
Node_add_tag == <<"nested">>
Node_remove_tag == <<"nested">>

\* NodeBulkOperationService; NodeLifecycle details bulk_check.
NodeBulk_bulk_delete == <<"change", "log">>
NodeBulk_bulk_add_tags == <<"change", "log">>
NodeBulk_bulk_remove_tags == <<"change", "log">>
NodeBulk_bulk_check == <<"nested", "log">>

\* NodeCommandService, NodeBulkCommandService, CommandExecutionService.
Exec_node_execute_command ==
    <<"check", "intent", "announce", "write", "log", "save", "judge">>
Exec_on_single_node == <<"acquire", "check", "keep", "release">>
Exec_save_history == <<"save">>
Exec_execute ==
    <<"require", "intent", "barrier">> \o Exec_on_single_node \o <<"barrier">>
    \o Exec_save_history \o <<"barrier", "logQuiet", "judge">>
Exec_validate_credentials_bulk == <<"require", "barrier", "check", "read">>
Exec_command_execute_command ==
    <<"check", "announce", "write", "log", "save", "event", "judge">>
Exec_collect_metrics == <<"check", "read">>
Exec_refresh_host_key == <<"check", "change">>

\* CommandManagementService and ScriptManagementService.
Command_get_command == <<"check">>
Command_get_all_commands == <<"check">>
Command_get_all_tags == <<"check">>
Command_create_command == <<"change", "log">>
Command_update_command == <<"change", "log">>
Command_delete_command == <<"check", "log", "change">>
Command_clone_command == <<"check", "change", "log">>
Script_get_script == <<"check">>
Script_get_all_scripts == <<"check">>
Script_get_all_tags == <<"check">>
Script_create_script == <<"change", "log">>
Script_update_script == <<"change", "log">>
Script_delete_script == <<"check", "log", "change">>
Script_clone_script == <<"check", "change", "log">>

\* Executions, histories, statistics.
Lifecycle_retry_command == <<"check">>
Lifecycle_retry_script == <<"check">>
Lifecycle_cancel_execution == <<"nested">>
Script_execute_script == <<"nested">>
Schedule_create_or_update == <<"nested">>
Schedule_get == <<"check">>
Schedule_delete == <<"nested">>
History_get_batch_history == <<"check">>
History_get_command_history == <<"check">>
History_get_executions == <<"check">>
History_get_status_history == <<"check">>
Stats_get == <<"check">>
Audit_get_logs == <<"check">>
Audit_delete_all_logs == <<"change">>
Audit_export == <<"check">>
Search_search == <<"check">>
Health_check_db == <<"check">>

\* Favorites live in the session of the request.
Favorite_list_favorites == <<"check">>
Favorite_add_favorite == <<"stage">>
Favorite_get_favorite == <<"check">>
Favorite_update_favorite == <<"check", "stage">>
Favorite_remove_favorite == <<"check", "mark">>

\* Users, keys and sessions; AccessControl details them.
User_list_users == <<"check">>
User_get_user == <<"check">>
User_create_user == <<"check", "change">>
User_patch_user == <<"check", "change">>
User_delete_user == <<"check", "change">>
APIKey_create_api_key == <<"change">>
APIKey_get_api_key == <<"check">>
APIKey_list_api_keys == <<"check">>
APIKey_update_api_key == <<"change">>
APIKey_revoke_api_key == <<"change">>
Auth_login == <<"check", "token">>
Auth_refresh_access_token == <<"check", "token">>
Auth_logout == <<"token">>
Auth_get_current_user == <<"check">>

\* Templates and configuration; TemplatePacks details them.
Pack_create_pack == <<"check", "nested">>
Pack_list_packs == <<"check">>
Pack_get_pack_detail == <<"check">>
Pack_get_assets_tar == <<"check">>
Pack_install_pack == <<"nested">>
Pack_uninstall_pack == <<"nested">>
Pack_update_pack == <<"nested">>
Pack_list_installations == <<"check">>
Pack_get_stats == <<"check">>
Pack_patch_pack == <<"nested">>
Pack_delete_pack == <<"nested">>
Registry_create_registry == <<"nested">>
Registry_list_registries == <<"check">>
Registry_get_registry == <<"check">>
Registry_delete_registry == <<"nested">>
Registry_patch_registry == <<"nested">>
Registry_sync_registry == <<"check", "read", "nested">>
Config_export_all == <<"check">>
Config_import_config == <<"nested">>

============================================================================
