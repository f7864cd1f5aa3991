--------------------------- MODULE PortainerPages ---------------------------
(* The pages about Portainer's own objects: what each handler of their      *)
(* controllers sends, and what it does when the answers are there.          *)
EXTENDS Calls

\* What is said of a swarm stack that could not be created is looked for two errors
\* deep, where only the failure of the stack itself has it.  Of the cluster and of
\* the control the search throws, and nothing is said.
SaidOfStacks(P) ==
  {[i \in DOMAIN p |-> [p[i] EXCEPT !.failure = IF p[i].to = "stack" THEN @ ELSE "unsaid"]] : p \in P}

\* Stacks: the resources of the stack are read once its kind is known.
Stacks_initView == {Load("portainer.stacks", StackService_stacks)}
Stacks_deleteSelectedStacks == {Selection("portainer.stacks", StackService_remove)}
CreateStack_deployStackFreedOnSuccess ==  \* mutant
  {FreedOnly(Form("portainer.newstack",
        (StackService_createSwarmStack \cup StackService_createComposeStack)
        ** ResourceControlService_applyResourceControl, "portainer.stacks"), {"success"})}
CreateStack_deployStack ==
  {Form("portainer.newstack",
        (StackService_createComposeStack ** ResourceControlService_applyResourceControl)
        \cup SaidOfStacks(StackService_createSwarmStack ** ResourceControlService_applyResourceControl),
        "portainer.stacks")}
Stack_retrieveSwarmStackResources ==
  ServiceService_services || TaskService_tasks || Opt(ContainerService_containers) || NodeService_nodes
Stack_retrieveComposeStackResources == ContainerService_containers
Stack_loadStack ==
  {Load("portainer.stacks.stack",
        (StackService_stack || EndpointService_endpoints || GroupService_groups)
        ** (StackService_getStackFile
            || (Stack_retrieveSwarmStackResources \cup Stack_retrieveComposeStackResources)))}
Stack_loadExternalSwarmStack == {Load("portainer.stacks.stack", Stack_retrieveSwarmStackResources)}
Stack_loadExternalComposeStack == {Load("portainer.stacks.stack", Stack_retrieveComposeStackResources)}
Stack_duplicateStack ==
  {Form("portainer.stacks.stack", StackService_duplicateStack, "portainer.stacks")}
Stack_migrateStack ==
  {Form("portainer.stacks.stack",
        StackService_migrateSwarmStack \cup StackService_migrateComposeStack, "portainer.stacks")}
Stack_deleteStack == {Button("portainer.stacks.stack", StackService_remove, "portainer.stacks")}
Stack_deployStack == {Form("portainer.stacks.stack", StackService_updateStack, "reload")}

\* Templates: what a template needs is created in order, the volumes first.
Templates_initView ==
  {Load("portainer.templates",
        TemplateService_templates || VolumeService_getVolumes || NetworkService_networks
        || SettingsService_publicSettings)}
Templates_createContainerFromTemplate ==
  {Form("portainer.templates",
        VolumeService_createXAutoGeneratedLocalVolumes ** ImageService_pullImageAndIgnoreErrors
        ** ContainerService_createAndStartContainer ** ResourceControlService_applyResourceControl,
        "docker.containers")}
Templates_createComposeStackFromTemplate ==
  {Form("portainer.templates", Call(Stack, "create") ** ResourceControlService_applyResourceControl,
        "portainer.stacks")}
Templates_createStackFromTemplate ==
  {Form("portainer.templates",
        SaidOfStacks(SwarmService_swarm ** Call(Stack, "create")
                     ** ResourceControlService_applyResourceControl),
        "portainer.stacks")}
Templates_deleteTemplate == {Button("portainer.templates", TemplateService_delete, "stay")}
CreateTemplate_create == {Form("portainer.templates.new", TemplateService_create, "portainer.templates")}
CreateTemplate_initView ==
  {Load("portainer.templates.new", TemplateService_templates || NetworkService_networks)}
Template_update == {Form("portainer.templates.template", TemplateService_update, "portainer.templates")}
Template_initView ==
  {Load("portainer.templates.template",
        TemplateService_templates || TemplateService_template || NetworkService_networks)}

-----------------------------------------------------------------------------
\* Users and teams; a team's members are added and removed one at a time or all
\* together.
Users_initView ==
  {Load("portainer.users",
        UserService_users || (TeamService_teams \cup UserService_userLeadingTeams)
        || TeamMembershipService_memberships || SettingsService_publicSettings)}
Users_addUser == {Form("portainer.users", UserService_createUser, "reload")}
Users_deleteSelectedUsers == {Selection("portainer.users", UserService_deleteUser)}
User_initView == {Load("portainer.users.user", UserService_user || SettingsService_publicSettings)}
User_updatePermissions == {Button("portainer.users.user", UserService_updateUser, "reload")}
User_updatePassword == {Button("portainer.users.user", UserService_updateUser, "reload")}
User_deleteUser == {Button("portainer.users.user", UserService_deleteUser, "portainer.users")}
Teams_initView ==
  {Load("portainer.teams", UserService_users || (TeamService_teams \cup UserService_userLeadingTeams))}
Teams_addTeam == {Form("portainer.teams", TeamService_createTeam, "reload")}
Teams_deleteSelectedTeams == {Selection("portainer.teams", TeamService_deleteTeam)}
Team_initView ==
  {Load("portainer.teams.team", TeamService_team || UserService_users || TeamService_userMemberships)}
TeamButton(do) == {Button("portainer.teams.team", do, "stay")}
Team_promoteToLeader == TeamButton(TeamMembershipService_updateMembership)
Team_demoteToMember == TeamButton(TeamMembershipService_updateMembership)
Team_addAllUsers == TeamButton(Each(TeamMembershipService_createMembership))
Team_addUser == TeamButton(TeamMembershipService_createMembership)
Team_removeAllUsers == TeamButton(Each(TeamMembershipService_deleteMembership))
Team_removeUser == TeamButton(TeamMembershipService_deleteMembership)
Team_deleteTeam == {Button("portainer.teams.team", TeamService_deleteTeam, "portainer.teams")}

\* Access to an endpoint, a group or a registry, and ownership of a resource.
AccessManagement_updateAccess ==
  {Button("portainer.endpoints.endpoint.access", EndpointService_updateAccess, "stay"),
   Button("portainer.groups.group.access", GroupService_updateAccess, "stay"),
   Button("portainer.registries.registry.access", RegistryService_updateAccess, "stay")}
AccessManagement_initComponent ==
  {Load(at, AccessService_accesses) :
     at \in {"portainer.endpoints.endpoint.access", "portainer.groups.group.access",
             "portainer.registries.registry.access"}}
OwnedPages == {"docker.containers.container", "docker.networks.network", "docker.volumes.volume",
               "docker.services.service", "docker.secrets.secret", "docker.configs.config",
               "portainer.stacks.stack"}
AccessControlPanel_updateOwnership ==
  {Button(at, ResourceControlService_applyResourceControlChange, "reload") : at \in OwnedPages}
AccessControlPanel_initComponent ==
  {Load(at, ResourceControlService_retrieveOwnershipDetails
            ** ResourceControlService_retrieveUserPermissionsOnResource
            ** (Opt(UserService_users) || Opt(TeamService_teams))) : at \in OwnedPages}
AccessControlForm_initComponent ==
  {Load(at, (TeamService_teams || Opt(UserService_users))
            ** Opt(ResourceControlService_retrieveOwnershipDetails)) :
     at \in {"docker.containers.new", "docker.networks.new", "docker.volumes.new", "docker.services.new",
             "docker.secrets.new", "docker.configs.new", "portainer.newstack", "portainer.templates"}}

-----------------------------------------------------------------------------
\* Registries.
Registries_initView ==
  {Load("portainer.registries", RegistryService_registries || DockerHubService_dockerhub)}
Registries_updateDockerHub == {Form("portainer.registries", DockerHubService_update, "stay")}
Registries_deleteSelectedRegistries ==
  {Selection("portainer.registries", RegistryService_deleteRegistry)}
CreateRegistry_addRegistry ==
  {Form("portainer.registries.new", RegistryService_createRegistry, "portainer.registries")}
Registry_updateRegistry ==
  {Form("portainer.registries.registry", RegistryService_updateRegistry, "portainer.registries")}
Registry_initView == {Load("portainer.registries.registry", RegistryService_registry)}
RegistryAccess_initView == {Load("portainer.registries.registry.access", RegistryService_registry)}

\* Endpoints and their groups.  An update of an endpoint frees its button only when
\* it fails: when it works the page is left.
Endpoints_initView == {Load("portainer.endpoints", EndpointService_endpoints || GroupService_groups)}
Endpoints_removeAction == {Selection("portainer.endpoints", EndpointService_deleteEndpoint)}
CreateEndpoint_initView == {Load("portainer.endpoints.new", GroupService_groups || TagService_tagNames)}
CreateEndpoint_addEndpoint ==
  {Form("portainer.endpoints.new", EndpointService_createRemoteEndpoint, "portainer.endpoints")}
CreateEndpoint_createAzureEndpoint ==
  {Form("portainer.endpoints.new", EndpointService_createAzureEndpoint, "portainer.endpoints")}
Endpoint_updateEndpoint ==
  {FreedOnly(Form("portainer.endpoints.endpoint", EndpointService_updateEndpoint, "portainer.endpoints"),
             {"error"})}
Endpoint_initView ==
  {Load("portainer.endpoints.endpoint",
        EndpointService_endpoint || GroupService_groups || TagService_tagNames)}
EndpointAccess_initView ==
  {Load("portainer.endpoints.endpoint.access", EndpointService_endpoint ** GroupService_group)}
Groups_initView == {Load("portainer.groups", GroupService_groups)}
Groups_removeAction == {Selection("portainer.groups", GroupService_deleteGroup)}
CreateGroup_initView ==
  {Load("portainer.groups.new", EndpointService_endpointsByGroup || TagService_tagNames)}
CreateGroup_create == {Form("portainer.groups.new", GroupService_createGroup, "portainer.groups")}
Group_update == {Form("portainer.groups.group", GroupService_updateGroup, "portainer.groups")}
Group_initView ==
  {Load("portainer.groups.group",
        GroupService_group || EndpointService_endpoints || TagService_tagNames)}
GroupAccess_initView == {Load("portainer.groups.group.access", GroupService_group)}

\* Settings, tags and schedules.
Settings_saveApplicationSettings == {Form("portainer.settings", SettingsService_update, "reload")}
Settings_updateSettings == {Button("portainer.settings", SettingsService_update, "reload")}
Settings_initView == {Load("portainer.settings", SettingsService_settings)}
SettingsAuthentication_LDAPConnectivityCheck ==
  {Form("portainer.settings.authentication",
        Opt(FileUploadService_uploadTLSFiles) ** SettingsService_checkLDAPConnectivity, "stay")}
SettingsAuthentication_saveSettings ==
  {Form("portainer.settings.authentication",
        Opt(FileUploadService_uploadTLSFiles) ** SettingsService_update, "stay")}
SettingsAuthentication_initView == {Load("portainer.settings.authentication", SettingsService_settings)}
Tags_initView == {Load("portainer.tags", TagService_tags)}
Tags_removeAction == {Selection("portainer.tags", TagService_deleteTag)}
Tags_createTag == {Button("portainer.tags", TagService_createTag, "reload")}
Schedules_initView == {Load("portainer.schedules", ScheduleService_schedules)}
Schedules_deleteSelectedSchedules == {Selection("portainer.schedules", ScheduleService_deleteSchedule)}
CreateSchedule_initView ==
  {Load("portainer.schedules.new", EndpointService_endpoints || GroupService_groups)}
CreateSchedule_create ==
  {Form("portainer.schedules.new",
        ScheduleService_createScheduleFromFileContent \cup ScheduleService_createScheduleFromFileUpload,
        "portainer.schedules")}
Schedule_update == {Form("portainer.schedules.schedule", ScheduleService_updateSchedule, "portainer.schedules")}
Schedule_initView ==
  {Load("portainer.schedules.schedule",
        ScheduleService_schedule || ScheduleService_getScriptFile
        || ScheduleService_scriptExecutionTasks || EndpointService_endpoints || GroupService_groups)}

\* A script on a host; its page goes back to its parent.
JobForm_executeJob ==
  {Form(job.page, EndpointService_executeJobFromFileContent \cup EndpointService_executeJobFromFileUpload,
        job.parent) :
     job \in {[page |-> "docker.host.job", parent |-> "docker.host"],
              [page |-> "docker.nodes.node.job", parent |-> "docker.nodes.node"]}}

\* The account, and the first start of an installation.
Account_updatePassword == {Button("portainer.account", UserService_updateUserPassword, "reload")}
Account_initView == {Load("portainer.account", SettingsService_publicSettings)}
UpdatePassword_updatePassword ==
  {Silent(Form("portainer.updatePassword", UserService_updateUserPassword, "portainer.home"))}
InitAdmin_createAdminUser ==
  {Silent(Form("portainer.init.admin",
               UserService_initAdministrator ** Call(Auth, "login") ** EndpointService_endpoints, next)) :
     next \in {"portainer.init.endpoint", "portainer.home"}}
InitEndpoint_createEndpoint ==
  {Silent(Form("portainer.init.endpoint", do, "portainer.home")) :
     do \in {EndpointService_createLocalEndpoint, EndpointService_createAzureEndpoint,
             EndpointService_createRemoteEndpoint}}
InformationPanelOffline_triggerSnapshot ==
  {Silent(Button("docker.dashboard", EndpointService_snapshotEndpoint, "reload"))}
InformationPanelOffline_onInit == {Load("docker.dashboard", EndpointService_endpoint)}
Home_initView ==
  {Load("portainer.home", do) : do \in {MotdService_motd, EndpointService_endpoints || GroupService_groups}}
Home_triggerSnapshot == {Button("portainer.home", EndpointService_snapshotEndpoints, "reload")}
Sidebar_initView == {Load("portainer.home", Opt(UserService_userMemberships))}

DeploymentHandlers ==
  Stacks_initView \cup Stacks_deleteSelectedStacks \cup CreateStack_deployStack \cup Stack_loadStack
  \cup Stack_loadExternalSwarmStack \cup Stack_loadExternalComposeStack \cup Stack_duplicateStack
  \cup Stack_migrateStack \cup Stack_deleteStack \cup Stack_deployStack \cup Templates_initView
  \cup Templates_createContainerFromTemplate \cup Templates_createComposeStackFromTemplate
  \cup Templates_createStackFromTemplate \cup Templates_deleteTemplate \cup CreateTemplate_create
  \cup CreateTemplate_initView \cup Template_update \cup Template_initView
PeopleHandlers ==
  Users_initView \cup Users_addUser \cup Users_deleteSelectedUsers \cup User_initView
  \cup User_updatePermissions \cup User_updatePassword \cup User_deleteUser \cup Teams_initView
  \cup Teams_addTeam \cup Teams_deleteSelectedTeams \cup Team_initView \cup Team_promoteToLeader
  \cup Team_demoteToMember \cup Team_addAllUsers \cup Team_addUser \cup Team_removeAllUsers
  \cup Team_removeUser \cup Team_deleteTeam \cup AccessManagement_updateAccess
  \cup AccessManagement_initComponent \cup AccessControlPanel_updateOwnership
  \cup AccessControlPanel_initComponent \cup AccessControlForm_initComponent
  \cup Account_updatePassword \cup Account_initView \cup UpdatePassword_updatePassword
  \cup InitAdmin_createAdminUser \cup Home_initView \cup Home_triggerSnapshot \cup Sidebar_initView
SettingHandlers ==
  Registries_initView \cup Registries_updateDockerHub \cup Registries_deleteSelectedRegistries
  \cup CreateRegistry_addRegistry \cup Registry_updateRegistry \cup Registry_initView
  \cup RegistryAccess_initView \cup Endpoints_initView \cup Endpoints_removeAction
  \cup CreateEndpoint_initView \cup CreateEndpoint_addEndpoint \cup CreateEndpoint_createAzureEndpoint
  \cup Endpoint_updateEndpoint \cup Endpoint_initView \cup EndpointAccess_initView
  \cup Groups_initView \cup Groups_removeAction \cup CreateGroup_initView \cup CreateGroup_create
  \cup Group_update \cup Group_initView \cup GroupAccess_initView \cup Settings_updateSettings
  \cup Settings_saveApplicationSettings
  \cup Settings_initView \cup SettingsAuthentication_LDAPConnectivityCheck
  \cup SettingsAuthentication_saveSettings \cup SettingsAuthentication_initView \cup Tags_initView
  \cup Tags_removeAction \cup Tags_createTag \cup Schedules_initView
  \cup Schedules_deleteSelectedSchedules \cup CreateSchedule_initView \cup CreateSchedule_create
  \cup Schedule_update \cup Schedule_initView \cup JobForm_executeJob \cup InitEndpoint_createEndpoint
  \cup InformationPanelOffline_triggerSnapshot \cup InformationPanelOffline_onInit
=============================================================================
