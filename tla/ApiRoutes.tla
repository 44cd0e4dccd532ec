----------------------------- MODULE ApiRoutes -----------------------------
(* The handlers of api/v2, one definition a handler: the guard FastAPI evaluates
   first, how the handler spreads its items, and the operation it runs for each.

     one      one item; an exception is the error answer
     gather   asyncio.gather over the items, an exception is the item's error
     each     execute_vert_bulk: gather under asyncio.Semaphore
     loop     one item after the other
     batch    NodeBulkCommandService.execute: gather, an exception escapes

   The operations of the services that no handler reaches come last, with the
   guard "service". *)
EXTENDS ServiceOperations

\* execute_vert_bulk holds a slot around each item.
Slotted(program) == <<"acquire">> \o program \o <<"release">>

Route(guard, wrap, program) ==
    [guard |-> guard, wrap |-> wrap,
     program |-> IF wrap = "each" THEN Slotted(program) ELSE program]

\* api/v2/api_keys.py
api_create_api_key == Route("write", "one", APIKey_create_api_key)
api_list_api_keys == Route("principal", "one", APIKey_list_api_keys)
api_bulk_revoke_api_keys == Route("write", "loop", APIKey_revoke_api_key)
api_get_api_key == Route("principal", "one", APIKey_get_api_key)
api_update_api_key == Route("write", "one", APIKey_update_api_key)
api_revoke_api_key == Route("write", "one", APIKey_revoke_api_key)

\* api/v2/audit.py
api_list_audit_logs == Route("principal", "one", Audit_get_logs)
api_get_audit_log == Route("principal", "one", Audit_get_logs)
api_delete_audit_logs == Route("write", "one", Audit_delete_all_logs)
api_export_audit == Route("principal", "one", Audit_export)
api_get_audit_stats == Route("principal", "one", Audit_get_logs)

\* api/v2/auth.py
api_login == Route("none", "one", Auth_login)
api_logout == Route("none", "one", Auth_logout)
api_refresh_token == Route("none", "one", Auth_refresh_access_token)
api_get_me == Route("user", "one", Auth_get_current_user)

\* api/v2/commands.py
api_bulk_update_commands == Route("write", "gather", Command_update_command)
api_bulk_delete_commands == Route("write", "gather", Command_delete_command)
api_get_command == Route("principal", "one", Command_get_command)
api_update_command == Route("write", "one", Command_update_command)
api_delete_command == Route("write", "one", Command_delete_command)
api_clone_command == Route("write", "one", Command_clone_command)
api_bulk_executions == Route("write", "batch", Exec_execute)
api_bulk_raw_executions == Route("write", "batch", Exec_execute)
api_get_executions_history == Route("principal", "one", History_get_batch_history)
api_get_executions_by_batch_alias ==
    Route("principal", "one", History_get_batch_history)
api_bulk_retry_executions == Route("write", "gather", Lifecycle_retry_command)
api_bulk_cancel_executions == Route("write", "gather", Lifecycle_cancel_execution)
api_get_command_history == Route("principal", "one", History_get_command_history)
api_get_command_executions_by_command ==
    Route("principal", "one", History_get_command_history)
api_list_commands == Route("principal", "one", Command_get_all_commands)
api_bulk_create_commands == Route("write", "gather", Command_create_command)
api_list_command_tags == Route("principal", "one", Command_get_all_tags)
api_get_commands_stats == Route("principal", "one", Stats_get)
api_get_command_stats == Route("principal", "one", Stats_get)

\* api/v2/compose.py
api_compose_pauses == Route("write", "gather", Compose_verb_bulk)
api_compose_unpauses == Route("write", "gather", Compose_verb_bulk)
api_compose_kills == Route("write", "gather", Compose_verb_bulk)
api_compose_starts == Route("write", "gather", Compose_verb_bulk)
api_compose_stops == Route("write", "gather", Compose_verb_bulk)
api_compose_restarts == Route("write", "gather", Compose_verb_bulk)
api_compose_creates == Route("write", "gather", Compose_verb_bulk)
api_compose_rms == Route("write", "gather", Compose_verb_bulk)
api_compose_pulls == Route("write", "gather", Compose_verb_bulk)
api_compose_pushs == Route("write", "gather", Compose_verb_bulk)
api_compose_builds == Route("write", "gather", Compose_verb_bulk)
api_create_project == Route("write", "one", Compose_create_project)
api_list_projects == Route("principal", "one", Compose_list_all_projects)
api_get_project == Route("principal", "one", Compose_get_project)
api_update_project == Route("write", "one", Compose_update_project)
api_delete_project == Route("write", "one", Compose_delete_project)
api_compose_exec == Route("write", "one", Compose_exec)
api_compose_run == Route("write", "one", Compose_run)
api_compose_ps == Route("principal", "one", Compose_ps)
api_compose_logs == Route("principal", "one", Compose_logs)
api_compose_config == Route("principal", "one", Compose_config)
api_compose_images == Route("principal", "one", Compose_images)
api_compose_top == Route("principal", "one", Compose_top)
api_compose_port == Route("principal", "one", Compose_port)
api_compose_version == Route("principal", "one", Compose_version)
api_compose_up == Route("write", "gather", Compose_up)
api_compose_down == Route("write", "one", Compose_down)

\* api/v2/config.py
api_export_config == Route("principal", "one", Config_export_all)
api_import_config == Route("write", "one", Config_import_config)

\* api/v2/docker.py
api_docker_bulk_executions == Route("write", "each", Container_exec_command)
api_bulk_inspections == Route("principal", "each", Container_get_container)
api_bulk_logs == Route("principal", "each", Container_get_logs)
api_bulk_stats == Route("principal", "each", Container_get_stats)
api_bulk_unpauses == Route("write", "each", Container_unpause_container)
api_bulk_kills == Route("write", "each", Container_kill_container)
api_bulk_updates == Route("write", "each", Container_update_container)
api_prune_containers == Route("write", "one", System_prune_containers)
api_bulk_starts == Route("write", "each", Container_start_container)
api_bulk_stops == Route("write", "each", Container_stop_container)
api_bulk_restarts == Route("write", "each", Container_restart_container)
api_bulk_removals == Route("write", "each", Container_remove_container)
api_bulk_pauses == Route("write", "each", Container_pause_container)
api_create_container == Route("write", "one", Container_create_container)
api_list_containers == Route("principal", "one", Container_list_containers)
api_get_container == Route("principal", "one", Container_get_container)
api_remove_container == Route("write", "one", Container_remove_container)
api_rename_container == Route("write", "one", Container_rename_container)
api_get_logs == Route("principal", "one", Container_get_logs)
api_exec_command == Route("write", "one", Container_exec_command)
api_top_container == Route("principal", "one", Container_top_container)
api_get_stats == Route("principal", "one", Container_get_stats)
api_get_archive == Route("principal", "one", Container_get_archive)
api_put_archive == Route("write", "one", Container_put_archive)
api_start_container == Route("write", "one", Container_start_container)
api_stop_container == Route("write", "one", Container_stop_container)
api_restart_container == Route("write", "one", Container_restart_container)
api_pause_container == Route("write", "one", Container_pause_container)
api_unpause_container == Route("write", "one", Container_unpause_container)
api_kill_container == Route("write", "one", Container_kill_container)
api_update_container == Route("write", "one", Container_update_container)
api_get_port == Route("principal", "one", Container_get_port)
api_wait_container == Route("principal", "one", Container_wait_container)
api_list_images == Route("principal", "one", Image_list_images)
api_pull_image == Route("write", "one", Image_pull_image)
api_build_image == Route("write", "one", Image_build_image)
api_image_history == Route("principal", "one", Image_image_history)
api_inspect_image == Route("principal", "one", Image_inspect_image)
api_prune_images == Route("write", "one", System_prune_images)
api_bulk_pulls == Route("write", "each", Image_pull_image)
api_bulk_image_removals == Route("write", "each", Image_remove_image)
api_tag_image == Route("write", "one", Image_tag_image)
api_push_image == Route("write", "one", Image_push_image)
api_remove_image == Route("write", "one", Image_remove_image)
api_push_image_body == Route("write", "one", Image_push_image)
api_list_networks == Route("principal", "one", Resource_list_networks)
api_create_network == Route("write", "one", Resource_create_network)
api_inspect_network == Route("principal", "one", Resource_inspect_network)
api_remove_network == Route("write", "one", Resource_remove_network)
api_bulk_network_removals == Route("write", "each", Resource_remove_network)
api_prune_networks == Route("write", "one", Resource_prune_networks)
api_connect_to_network == Route("write", "one", Resource_connect_to_network)
api_disconnect_from_network == Route("write", "one", Resource_disconnect_from_network)
api_system_info == Route("principal", "one", System_info)
api_system_version == Route("principal", "one", System_version)
api_system_df == Route("principal", "one", System_disk_usage)
api_system_prune == Route("write", "one", System_system_prune)
api_list_volumes == Route("principal", "one", Resource_list_volumes)
api_create_volume == Route("write", "one", Resource_create_volume)
api_bulk_volume_removals == Route("write", "each", Resource_remove_volume)
api_inspect_volume == Route("principal", "one", Resource_inspect_volume)
api_remove_volume == Route("write", "one", Resource_remove_volume)
api_prune_volumes == Route("write", "one", Resource_prune_volumes)

\* api/v2/favorites.py
api_list_favorites == Route("principal", "one", Favorite_list_favorites)
api_add_favorite == Route("write", "one", Favorite_add_favorite)
api_get_favorite == Route("principal", "one", Favorite_get_favorite)
api_patch_favorite == Route("write", "one", Favorite_update_favorite)
api_remove_favorite == Route("write", "one", Favorite_remove_favorite)

\* api/v2/health.py
api_readiness_check == Route("none", "one", Health_check_db)

\* api/v2/nodes.py
api_bulk_get_node_metrics == Route("principal", "gather", Exec_collect_metrics)
api_credential_validations == Route("write", "gather", Exec_validate_credentials_bulk)
api_bulk_update_nodes == Route("write", "gather", Node_update_node)
api_bulk_delete_nodes == Route("write", "one", NodeBulk_bulk_delete)
api_bulk_check_nodes == Route("write", "one", NodeBulk_bulk_check)
api_get_node == Route("principal", "one", Node_get_node)
api_update_node == Route("write", "one", Node_update_node)
api_delete_node == Route("write", "one", Node_delete_node)
api_get_node_status_history == Route("principal", "one", History_get_status_history)
api_get_node_history_alias == Route("principal", "one", History_get_status_history)
api_list_nodes == Route("principal", "one", Node_get_nodes_cursor)
api_bulk_create_nodes == Route("write", "gather", Node_create_node)
api_list_node_tags == Route("principal", "one", Node_get_all_tags)

\* api/v2/scripts.py
api_bulk_update_scripts == Route("write", "gather", Script_update_script)
api_bulk_delete_scripts == Route("write", "gather", Script_delete_script)
api_get_script == Route("principal", "one", Script_get_script)
api_update_script == Route("write", "one", Script_update_script)
api_delete_script == Route("write", "one", Script_delete_script)
api_clone_script == Route("write", "one", Script_clone_script)
api_scripts_bulk_executions == Route("write", "gather", Script_execute_script)
api_get_executions == Route("principal", "one", History_get_executions)
api_get_executions_history_alias == Route("principal", "one", History_get_executions)
api_get_scheduled_execution_history == Route("principal", "one", History_get_executions)
api_scripts_bulk_retry_executions == Route("write", "gather", Lifecycle_retry_script)
api_scripts_bulk_cancel_executions ==
    Route("write", "gather", Lifecycle_cancel_execution)
api_list_scripts == Route("principal", "one", Script_get_all_scripts)
api_bulk_create_scripts == Route("write", "gather", Script_create_script)
api_list_script_tags == Route("principal", "one", Script_get_all_tags)
api_schedule_script == Route("write", "one", Schedule_create_or_update)
api_get_schedule == Route("principal", "one", Schedule_get)
api_get_schedule_singular == Route("principal", "one", Schedule_get)
api_unschedule_script == Route("write", "one", Schedule_delete)
api_get_scripts_stats == Route("principal", "one", Stats_get)
api_get_script_stats == Route("principal", "one", Stats_get)

\* api/v2/search.py
api_global_search == Route("principal", "one", Search_search)

\* api/v2/templates.py
api_install_pack == Route("write", "one", Pack_install_pack)
api_uninstall_pack == Route("write", "one", Pack_uninstall_pack)
api_update_pack == Route("write", "one", Pack_update_pack)
api_list_installations == Route("principal", "one", Pack_list_installations)
api_get_pack_archive == Route("principal", "one", Pack_get_assets_tar)
api_get_pack_assets_archive_alias == Route("principal", "one", Pack_get_assets_tar)
api_create_pack == Route("write", "one", Pack_create_pack)
api_get_packs_stats == Route("principal", "one", Pack_get_stats)
api_list_packs == Route("principal", "one", Pack_list_packs)
api_get_pack == Route("principal", "one", Pack_get_pack_detail)
api_patch_pack == Route("write", "one", Pack_patch_pack)
api_delete_pack == Route("write", "one", Pack_delete_pack)
api_bulk_delete_packs == Route("write", "loop", Pack_delete_pack)
api_create_registry == Route("write", "one", Registry_create_registry)
api_list_registries == Route("principal", "one", Registry_list_registries)
api_get_registry == Route("principal", "one", Registry_get_registry)
api_patch_registry == Route("write", "one", Registry_patch_registry)
api_delete_registry == Route("write", "one", Registry_delete_registry)
api_sync_registry == Route("write", "one", Registry_sync_registry)

\* api/v2/users.py
api_get_users == Route("superuser", "one", User_list_users)
api_create_user == Route("superuser", "one", User_create_user)
api_get_user == Route("superuser", "one", User_get_user)
api_patch_user == Route("superuser", "one", User_patch_user)
api_delete_user == Route("superuser", "one", User_delete_user)

----------------------------------------------------------------------------
\* The application: every router that main.py includes; the routes of internal.py
\* exist only with E2E_ENABLED and are left out.
ApiKeyRoutes ==
    {api_create_api_key, api_list_api_keys, api_bulk_revoke_api_keys,
     api_get_api_key, api_update_api_key, api_revoke_api_key}
AuditRoutes ==
    {api_list_audit_logs, api_get_audit_log, api_delete_audit_logs,
     api_export_audit, api_get_audit_stats}
CommandRoutes ==
    {api_bulk_update_commands, api_bulk_delete_commands, api_get_command,
     api_update_command, api_delete_command, api_clone_command, api_bulk_executions,
     api_bulk_raw_executions, api_get_executions_history,
     api_get_executions_by_batch_alias, api_bulk_retry_executions,
     api_bulk_cancel_executions, api_get_command_history,
     api_get_command_executions_by_command, api_list_commands,
     api_bulk_create_commands, api_list_command_tags, api_get_commands_stats,
     api_get_command_stats}
ComposeRoutes ==
    {api_compose_pauses, api_compose_unpauses, api_compose_kills,
     api_compose_starts, api_compose_stops, api_compose_restarts,
     api_compose_creates, api_compose_rms, api_compose_pulls, api_compose_pushs,
     api_compose_builds, api_create_project, api_list_projects, api_get_project,
     api_update_project, api_delete_project, api_compose_exec, api_compose_run,
     api_compose_ps, api_compose_logs, api_compose_config, api_compose_images,
     api_compose_top, api_compose_port, api_compose_version, api_compose_up,
     api_compose_down}
ConfigRoutes ==
    {api_export_config, api_import_config}
DockerRoutes ==
    {api_docker_bulk_executions, api_bulk_inspections, api_bulk_logs,
     api_bulk_stats, api_bulk_unpauses, api_bulk_kills, api_bulk_updates,
     api_prune_containers, api_bulk_starts, api_bulk_stops, api_bulk_restarts,
     api_bulk_removals, api_bulk_pauses, api_create_container, api_list_containers,
     api_get_container, api_remove_container, api_rename_container, api_get_logs,
     api_exec_command, api_top_container, api_get_stats, api_get_archive,
     api_put_archive, api_start_container, api_stop_container,
     api_restart_container, api_pause_container, api_unpause_container,
     api_kill_container, api_update_container, api_get_port, api_wait_container,
     api_list_images, api_pull_image, api_build_image, api_image_history,
     api_inspect_image, api_prune_images, api_bulk_pulls, api_bulk_image_removals,
     api_tag_image, api_push_image, api_remove_image, api_push_image_body,
     api_list_networks, api_create_network, api_inspect_network, api_remove_network,
     api_bulk_network_removals, api_prune_networks, api_connect_to_network,
     api_disconnect_from_network, api_system_info, api_system_version,
     api_system_df, api_system_prune, api_list_volumes, api_create_volume,
     api_bulk_volume_removals, api_inspect_volume, api_remove_volume,
     api_prune_volumes}
FavoriteRoutes ==
    {api_list_favorites, api_add_favorite, api_get_favorite, api_patch_favorite,
     api_remove_favorite}
NodeRoutes ==
    {api_bulk_get_node_metrics, api_credential_validations, api_bulk_update_nodes,
     api_bulk_delete_nodes, api_bulk_check_nodes, api_get_node, api_update_node,
     api_delete_node, api_get_node_status_history, api_get_node_history_alias,
     api_list_nodes, api_bulk_create_nodes, api_list_node_tags}
ScriptRoutes ==
    {api_bulk_update_scripts, api_bulk_delete_scripts, api_get_script,
     api_update_script, api_delete_script, api_clone_script,
     api_scripts_bulk_executions, api_get_executions,
     api_get_executions_history_alias, api_get_scheduled_execution_history,
     api_scripts_bulk_retry_executions, api_scripts_bulk_cancel_executions,
     api_list_scripts, api_bulk_create_scripts, api_list_script_tags,
     api_schedule_script, api_get_schedule, api_get_schedule_singular,
     api_unschedule_script, api_get_scripts_stats, api_get_script_stats}
SearchRoutes ==
    {api_global_search}
TemplateRoutes ==
    {api_install_pack, api_uninstall_pack, api_update_pack, api_list_installations,
     api_get_pack_archive, api_get_pack_assets_archive_alias, api_create_pack,
     api_get_packs_stats, api_list_packs, api_get_pack, api_patch_pack,
     api_delete_pack, api_bulk_delete_packs, api_create_registry,
     api_list_registries, api_get_registry, api_patch_registry, api_delete_registry,
     api_sync_registry}
UserRoutes ==
    {api_get_users, api_create_user, api_get_user, api_patch_user, api_delete_user}

\* Operations of the services without a handler.
Call(wrap, program) == Route("service", wrap, program)
UnroutedCalls ==
    {Call("gather", DockerBulk_bulk_container_action),
     Call("gather", DockerBulk_bulk_exec),
     Call("gather", DockerBulk_bulk_pull_image),
     Call("gather", DockerBulk_bulk_image_remove),
     Call("gather", DockerBulk_bulk_image_build),
     Call("gather", DockerBulk_bulk_inspect),
     Call("gather", DockerBulk_bulk_logs),
     Call("gather", DockerBulk_bulk_stats),
     Call("one", Compose_upsert_project),
     Call("one", Node_add_tag),
     Call("one", Node_remove_tag),
     Call("one", NodeBulk_bulk_add_tags),
     Call("one", NodeBulk_bulk_remove_tags),
     Call("one", Exec_node_execute_command),
     Call("one", Exec_command_execute_command),
     Call("one", Exec_refresh_host_key)}

Routes ==
    {api_login, api_logout, api_refresh_token, api_get_me, api_readiness_check}
    \cup ApiKeyRoutes \cup AuditRoutes \cup CommandRoutes
    \cup ComposeRoutes \cup ConfigRoutes \cup DockerRoutes \cup FavoriteRoutes
    \cup NodeRoutes \cup ScriptRoutes
    \cup SearchRoutes \cup TemplateRoutes \cup UserRoutes \cup UnroutedCalls

============================================================================
