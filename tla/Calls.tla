-------------------------------- MODULE Calls -------------------------------
(* The services of the browser: what each of their functions sends.  A      *)
(* function that turns the answer into a view model, or only renames an     *)
(* error, is the request it makes.                                          *)
EXTENDS Rest

\* Access control.  An administrators-only resource gets no control at all.
ResourceControlService_createResourceControl == Call(ResourceControl, "create")
ResourceControlService_deleteResourceControl == Call(ResourceControl, "remove")
ResourceControlService_updateResourceControl == Call(ResourceControl, "update")
ResourceControlService_applyResourceControl == Opt(ResourceControlService_createResourceControl)
ResourceControlService_applyResourceControlChange ==
  ResourceControlService_deleteResourceControl \cup ResourceControlService_updateResourceControl
  \cup ResourceControlService_createResourceControl

\* Users and teams.  The promise of a new user, or team, with memberships is
\* resolved by the success of the last of them, and by nothing else: the failure
\* of one rejects a promise that nobody looks at.
TeamMembershipService_memberships == Call(TeamMemberships, "query")
TeamMembershipService_createMembership == Call(TeamMemberships, "create")
TeamMembershipService_deleteMembership == Call(TeamMemberships, "remove")
TeamMembershipService_updateMembership == Call(TeamMemberships, "update")
TeamService_teams == Call(Teams, "query")
TeamService_team == Call(Teams, "get")
TeamService_createTeam == Call(Teams, "create") ** Lost(Each(TeamMembershipService_createMembership))
TeamService_deleteTeam == Call(Teams, "remove")
TeamService_updateTeam == Call(Teams, "update")
TeamService_userMemberships == Call(Teams, "queryMemberships")
UserService_users == Call(Users, "query")
UserService_user == Call(Users, "get")
UserService_createUser == Call(Users, "create") ** Lost(Each(TeamMembershipService_createMembership))
UserService_deleteUser == Call(Users, "remove")
UserService_updateUser == Call(Users, "update")
UserService_updateUserPassword == Call(Users, "updatePassword")
UserService_userMemberships == Call(Users, "queryMemberships")
UserService_userLeadingTeams == TeamService_teams || UserService_userMemberships
UserService_initAdministrator == Call(Users, "initAdminUser")
UserService_administratorExists == Call(Users, "checkAdminUser")
ResourceControlService_retrieveOwnershipDetails == Opt(UserService_users) || Opt(TeamService_teams)
ResourceControlService_retrieveUserPermissionsOnResource == Opt(UserService_userMemberships)
AccessService_accesses == UserService_users || TeamService_teams

\* Settings, tags, templates, schedules, webhooks, extensions, status.
SettingsService_settings == Call(Settings, "get")
SettingsService_update == Call(Settings, "update")
SettingsService_publicSettings == Call(Settings, "publicSettings")
SettingsService_checkLDAPConnectivity == Call(Settings, "checkLDAPConnectivity")
TagService_tags == Call(Tags, "query")
TagService_tagNames == Call(Tags, "query")
TagService_createTag == Call(Tags, "create")
TagService_deleteTag == Call(Tags, "remove")
TemplateService_templates == Call(Templates, "query")
TemplateService_template == Call(Templates, "get")
TemplateService_delete == Call(Templates, "remove")
TemplateService_create == Call(Templates, "create")
TemplateService_update == Call(Templates, "update")
ScheduleService_schedule == Call(Schedules, "get")
ScheduleService_schedules == Call(Schedules, "query")
ScheduleService_scriptExecutionTasks == Call(Schedules, "tasks")
ScheduleService_createScheduleFromFileContent == Call(Schedules, "create")
ScheduleService_createScheduleFromFileUpload == Call(UploadSchedule, "file")
ScheduleService_updateSchedule == Call(Schedules, "update")
ScheduleService_deleteSchedule == Call(Schedules, "remove")
ScheduleService_getScriptFile == Call(Schedules, "file")
WebhookService_webhooks == Call(Webhooks, "query")
WebhookService_createServiceWebhook == Call(Webhooks, "create")
WebhookService_deleteWebhook == Call(Webhooks, "remove")
ExtensionService_registerStoridgeExtension == Call(Extensions, "register")
ExtensionService_deregisterStoridgeExtension == Call(Extensions, "deregister")
StatusService_status == Call(Status, "get")
MotdService_motd == Call(Motd, "get")

\* Registries: a repository without a registry of its own is on DockerHub.
DockerHubService_dockerhub == Call(DockerHub, "get")
DockerHubService_update == Call(DockerHub, "update")
RegistryService_registries == Call(Registries, "query")
RegistryService_registry == Call(Registries, "get")
RegistryService_updateAccess == Call(Registries, "updateAccess")
RegistryService_deleteRegistry == Call(Registries, "remove")
RegistryService_updateRegistry == Call(Registries, "update")
RegistryService_createRegistry == Call(Registries, "create")
RegistryService_retrieveRegistryFromRepository == RegistryService_registries \cup DockerHubService_dockerhub

\* Endpoints: the certificates are uploaded before the endpoint is updated.
FileUploadService_uploadTLSFiles ==
  Opt(Call(UploadTLS, "ca")) || Opt(Call(UploadTLS, "cert")) || Opt(Call(UploadTLS, "key"))
EndpointService_endpoint == Call(Endpoints, "get")
EndpointService_endpoints == Call(Endpoints, "query")
EndpointService_snapshotEndpoints == Call(Endpoints, "snapshots")
EndpointService_snapshotEndpoint == Call(Endpoints, "snapshot")
EndpointService_endpointsByGroup == Call(Endpoints, "query")
EndpointService_updateAccess == Call(Endpoints, "updateAccess")
EndpointService_updateEndpoint == FileUploadService_uploadTLSFiles ** Call(Endpoints, "update")
EndpointService_deleteEndpoint == Call(Endpoints, "remove")
EndpointService_createLocalEndpoint == Call(UploadEndpoint, "form")
EndpointService_createRemoteEndpoint == Call(UploadEndpoint, "form")
EndpointService_createAzureEndpoint == Call(UploadEndpoint, "form")
EndpointService_executeJobFromFileUpload == Call(UploadEndpoint, "job")
EndpointService_executeJobFromFileContent == Call(Endpoints, "executeJob")
GroupService_group == Call(EndpointGroups, "get")
GroupService_groups == Call(EndpointGroups, "query")
GroupService_createGroup == Call(EndpointGroups, "create")
GroupService_updateGroup == Call(EndpointGroups, "update")
GroupService_updateAccess == Call(EndpointGroups, "updateAccess")
GroupService_deleteGroup == Call(EndpointGroups, "remove")

\* Containers.  A removal takes the access control away after the container.
ContainerService_container == Call(Container, "get")
ContainerService_containers == Call(Container, "query")
ContainerService_startContainer == Call(Container, "start")
ContainerService_stopContainer == Call(Container, "stop")
ContainerService_restartContainer == Call(Container, "restart")
ContainerService_killContainer == Call(Container, "kill")
ContainerService_pauseContainer == Call(Container, "pause")
ContainerService_resumeContainer == Call(Container, "unpause")
ContainerService_renameContainer == Call(Container, "rename")
ContainerService_updateRestartPolicy == Call(Container, "update")
ContainerService_createContainer == Call(Container, "create")
ContainerService_createAndStartContainer == ContainerService_createContainer ** ContainerService_startContainer
\* When the engine answers with a message the promise is rejected, and the control is
\* deleted all the same.  So it is for a volume.
ContainerService_remove == Unheeded(Call(Container, "remove")) ** Opt(ResourceControlService_deleteResourceControl)
ContainerService_createExec == Call(Container, "exec")
ContainerService_logs == Call(Container, "logs")
ContainerService_containerStats == Call(Container, "stats")
ContainerService_containerTop == Call(Container, "top")
ContainerService_inspect == Call(Container, "inspect")
ExecService_resizeTTY == Call(Exec, "resize")

\* Images.  A pull told to ignore errors resolves whatever comes.
ImageService_image == Call(Image, "get")
ImageService_images == Opt(ContainerService_containers) || Call(Image, "query")
ImageService_history == Call(Image, "history")
ImageService_pushImage == Call(Image, "push")
ImageService_pullImageAndIgnoreErrors == Ignored(Call(Image, "create"))
ImageService_pullImageAndAcknowledgeErrors == Call(Image, "create")
ImageService_tagImage == Call(Image, "tag")
ImageService_downloadImages == Call(Image, "download")
ImageService_uploadImage == Call(UploadToEngine, "load")
ImageService_deleteImage == Call(Image, "remove")
BuildService_buildImageFromUpload == Call(UploadToEngine, "build")
BuildService_buildImageFromURL == Call(Build, "buildImage")
BuildService_buildImageFromDockerfileContent == Call(Build, "buildImageOverride")

\* Networks and volumes.
NetworkService_create == Call(Network, "create")
NetworkService_network == Call(Network, "get")
NetworkService_networks == Call(Network, "query")
NetworkService_remove == Call(Network, "remove")
NetworkService_disconnectContainer == Call(Network, "disconnect")
NetworkService_connectContainer == Call(Network, "connect")
VolumeService_volumes == Call(Volume, "query")
VolumeService_volume == Call(Volume, "get")
VolumeService_getVolumes == Call(Volume, "query")
VolumeService_remove == Unheeded(Call(Volume, "remove")) ** Opt(ResourceControlService_deleteResourceControl)
VolumeService_createVolume == Call(Volume, "create")
VolumeService_createVolumes == Each(VolumeService_createVolume)
VolumeService_createXAutoGeneratedLocalVolumes == Each(VolumeService_createVolume)

\* The cluster.
ServiceService_services == Call(Service, "query")
ServiceService_service == Call(Service, "get")
ServiceService_remove == Call(Service, "remove") ** Opt(ResourceControlService_deleteResourceControl)
ServiceService_update == Call(Service, "update")
ServiceService_logs == Call(Service, "logs")
TaskService_task == Call(Task, "get")
TaskService_tasks == Call(Task, "query")
TaskService_logs == Call(Task, "logs")
NodeService_nodes == Call(Node, "query")
NodeService_node == Call(Node, "get")
NodeService_updateNode == Call(Node, "update")
SecretService_secret == Call(Secret, "get")
SecretService_secrets == Call(Secret, "query")
SecretService_remove == Call(Secret, "remove")
SecretService_create == Call(Secret, "create")
ConfigService_config == Call(Config, "get")
ConfigService_configs == Call(Config, "query")
ConfigService_remove == Call(Config, "remove")
ConfigService_create == Call(Config, "create")
SwarmService_swarm == Call(Swarm, "get")

\* The engine.  The list of plugins is resolved whether or not it was read.
SystemService_plugins == Call(System, "info")
SystemService_info == Call(System, "info")
SystemService_ping == Call(SystemEndpoint, "ping")
SystemService_version == Call(System, "version")
SystemService_events == Call(System, "events")
SystemService_dataUsage == Call(System, "dataUsage")
PluginService_plugins == Ignored(Call(Plugin, "query"))
PluginService_servicePlugins == SystemService_plugins || Opt(PluginService_plugins)

\* Stacks.  A swarm stack needs the identifier of its cluster first.
StackService_stack == Call(Stack, "get")
StackService_getStackFile == Call(Stack, "getStackFile")
StackService_migrateSwarmStack == SwarmService_swarm ** Call(Stack, "migrate")
StackService_migrateComposeStack == Call(Stack, "migrate")
StackService_externalSwarmStacks == ServiceService_services
StackService_externalComposeStacks == ContainerService_containers
StackService_composeStacks == Call(Stack, "query") || Opt(StackService_externalComposeStacks)
StackService_swarmStacks ==
  SwarmService_swarm ** (Call(Stack, "query") || Opt(StackService_externalSwarmStacks))
StackService_stacks == Opt(StackService_composeStacks) || Opt(StackService_swarmStacks)
StackService_remove == Call(Stack, "remove") ** Opt(ResourceControlService_deleteResourceControl)
StackService_updateStack == Call(Stack, "update")
StackService_createComposeStack == Call(UploadStack, "file") \cup Call(Stack, "create")
StackService_createSwarmStack == SwarmService_swarm ** (Call(UploadStack, "file") \cup Call(Stack, "create"))
StackService_duplicateStack == Call(Stack, "create") \cup (SwarmService_swarm ** Call(Stack, "create"))

\* Agents.
AgentService_agents == Call(Agent, "query") \cup Call(AgentVersion1, "query")
AgentService_hostInfo == Naming(Call(Host, "info"))
AgentPingService_ping == Call(AgentPing, "ping")
BrowserService_ls == Call(Browse, "ls")
BrowserService_get == Call(Browse, "get")
BrowserService_delete == Call(Browse, "delete")
BrowserService_rename == Call(Browse, "rename")
BrowserService_upload == Call(Browse, "put")

\* Azure asks each subscription; Storidge is one resource.
AzureService_subscriptions == Call(Subscription, "query")
AzureService_containerInstanceProvider == Each(Call(Provider, "get"))
AzureService_resourceGroups == Each(Call(AzureResourceGroup, "query"))
AzureService_containerGroups == Each(Call(ContainerGroup, "query"))
AzureService_createContainerGroup == Call(ContainerGroup, "create")
AzureService_deleteContainerGroup == Call(Azure, "delete")
LocationService_locations == Call(Location, "query")
StoridgeClusterService_reboot == Call(Storidge, "rebootCluster")
StoridgeClusterService_shutdown == Call(Storidge, "shutdownCluster")
StoridgeClusterService_info == Call(Storidge, "getInfo")
StoridgeClusterService_version == Call(Storidge, "getVersion")
StoridgeClusterService_events == Call(Storidge, "queryEvents")
StoridgeNodeService_nodes == Call(Storidge, "queryNodes")
StoridgeProfileService_create == Call(Storidge, "createProfile")
StoridgeProfileService_update == Call(Storidge, "updateProfile")
StoridgeProfileService_delete == Call(Storidge, "deleteProfile")
StoridgeProfileService_profile == Call(Storidge, "getProfile")
StoridgeProfileService_profiles == Call(Storidge, "queryProfiles")
=============================================================================
