---------------------------- MODULE ClusterPages ----------------------------
(* The pages about networks, volumes, services, secrets, configs, nodes and *)
(* the engine: what each handler of their controllers sends, and what it    *)
(* does when the answers are there.  The browser of a volume's files and    *)
(* the selector of a node are absent: their injections are one parameter    *)
(* off, so the controllers throw before they send anything.                 *)
EXTENDS Calls

Networks_initView == {Load("docker.networks", NetworkService_networks)}
Networks_removeAction == {OnNode(Selection("docker.networks", NetworkService_remove))}
CreateNetwork_initView == {Load("docker.networks.new", PluginService_servicePlugins)}
CreateNetwork_createNetwork ==
  {OnNode(Form("docker.networks.new",
               NetworkService_create ** ResourceControlService_applyResourceControl, "docker.networks"))}
\* One macvlan network per selected node.  The loop hands every request the same
\* context, which the last round has told to reload: the first success leaves the
\* page, whatever the others are doing.
CreateNetwork_create ==
  {[h EXCEPT !.many = TRUE, !.leaves = "first"] : h \in CreateNetwork_createNetwork}
Network_removeNetwork ==
  {Button("docker.networks.network", NetworkService_remove, "docker.networks")}
Network_containerLeaveNetwork ==
  {Button("docker.networks.network", NetworkService_disconnectContainer, "docker.networks.network")}
Network_initView ==
  {OnNode(Load("docker.networks.network",
               NetworkService_network ** Opt(NotAwaited(ContainerService_containers))))}
NetworkMacvlanForm_initComponent ==
  {Load("docker.networks.new", Opt(NodeService_nodes) || NetworkService_networks)}

Volumes_initView ==
  {Load("docker.volumes", VolumeService_volumes || VolumeService_volumes || Opt(ServiceService_services))}
Volumes_removeAction == {OnNode(Selection("docker.volumes", VolumeService_remove))}
CreateVolume_initView == {Load("docker.volumes.new", PluginService_servicePlugins)}
CreateVolume_create ==
  {OnNode(Form("docker.volumes.new",
               VolumeService_createVolume ** ResourceControlService_applyResourceControl, "docker.volumes"))}
Volume_removeVolume == {Button("docker.volumes.volume", VolumeService_remove, "docker.volumes")}
Volume_initView ==
  {OnNode(Load("docker.volumes.volume", VolumeService_volume ** ContainerService_containers))}

-----------------------------------------------------------------------------
Services_initView ==
  {Load("docker.services",
        ServiceService_services || TaskService_tasks || Opt(ContainerService_containers)
        || NodeService_nodes)}
\* A service goes with its webhook, when it has one.
ServicesActions_scaleAction == {Button("docker.services", ServiceService_update, "reload")}
ServicesActions_removeServices ==
  {Selection("docker.services",
             ServiceService_remove ** WebhookService_webhooks ** Opt(WebhookService_deleteWebhook))}
ServicesActions_forceUpdateServices == {Selection("docker.services", ServiceService_update)}
CreateService_initView ==
  {Load("docker.services.new",
        VolumeService_volumes || NetworkService_networks || Opt(SecretService_secrets)
        || Opt(ConfigService_configs) || NodeService_nodes || SettingsService_publicSettings
        || PluginService_servicePlugins)}
CreateService_createNewService ==
  {Form("docker.services.new",
        Call(Service, "create") ** Opt(WebhookService_createServiceWebhook)
        ** ResourceControlService_applyResourceControl, "docker.services")}

\* The page of one service: see EditService for what it does to the service.
Service_initView ==
  {Load("docker.services.service",
        ServiceService_service
        ** (VolumeService_volumes || TaskService_tasks || Opt(ContainerService_containers)
            || NodeService_nodes || Opt(SecretService_secrets) || Opt(ConfigService_configs)
            || ImageService_images || PluginService_servicePlugins || SettingsService_publicSettings
            || WebhookService_webhooks))}
Service_updateService ==
  {Button("docker.services.service", Call(Service, "update") ** NotAwaited(ServiceService_service), "stay")}
Service_forceUpdateService ==
  {Form("docker.services.service", ServiceService_update ** NotAwaited(ServiceService_service), "stay")}
Service_removeService ==
  {Form("docker.services.service", ServiceService_remove ** Opt(WebhookService_deleteWebhook),
        "docker.services")}
Service_updateWebhook ==
  {Silent(Button("docker.services.service",
                 WebhookService_deleteWebhook \cup WebhookService_createServiceWebhook, "stay"))}
ServiceLogs_startLogPolling == {Load("docker.services.service.logs", ServiceService_logs)}
TaskLogs_startLogPolling == {Load("docker.tasks.task.logs", TaskService_logs)}
ServiceLogs_initView == {Load("docker.services.service.logs", ServiceService_service)}

\* A secret, or a config, is created and then protected.  The form of a config has
\* no flag: its button never waits.
Secrets_initView == {Load("docker.secrets", SecretService_secrets)}
Secrets_removeAction == {Selection("docker.secrets", SecretService_remove)}
CreateSecret_create ==
  {Form("docker.secrets.new",
        SecretService_create ** ResourceControlService_applyResourceControl, "docker.secrets")}
Secret_removeSecret == {Button("docker.secrets.secret", SecretService_remove, "docker.secrets")}
Secret_initView == {Load("docker.secrets.secret", SecretService_secret)}
Configs_initView == {Load("docker.configs", ConfigService_configs)}
Configs_removeAction == {Selection("docker.configs", ConfigService_remove)}
CreateConfig_create ==
  {Button("docker.configs.new",
          ConfigService_create ** ResourceControlService_applyResourceControl, "docker.configs")}
CreateConfig_initView == {Load("docker.configs.new", Opt(ConfigService_config))}
Config_removeConfig == {Button("docker.configs.config", ConfigService_remove, "docker.configs")}
Config_initView == {Load("docker.configs.config", ConfigService_config)}

-----------------------------------------------------------------------------
Task_initView == {Load("docker.tasks.task", TaskService_task ** ServiceService_service)}
TaskLogs_initView == {Load("docker.tasks.task.logs", TaskService_task ** ServiceService_service)}
NodeDetailsView_initView ==
  {Load("docker.nodes.node",
        (NodeService_node || Opt(ContainerService_containers)) ** Opt(NotAwaited(AgentService_hostInfo)))}
SwarmNodeDetailsPanel_saveChanges ==
  {Button("docker.nodes.node", NodeService_updateNode, "docker.nodes.node")}

\* The browser of a host's files.  The page of a node names the node before the
\* component that lists its files is there.
NodeBrowser_onInit == {Load("docker.nodes.node.browse", NodeService_node)}
NodeJob_onInit == {Load("docker.nodes.node.job", NodeService_node)}
HostBrowserView_onInit == {Load("docker.host.browser", SystemService_info)}
HostJob_onInit == {Load("docker.host.job", SystemService_info)}
HostBrowser_getFilesForPath ==
  {OnNode(Load("docker.nodes.node.browse", BrowserService_ls)),
   Load("docker.host.browser", BrowserService_ls)}
FilePages == {"docker.nodes.node.browse", "docker.host.browser"}
HostBrowser_renameFile == {Button(at, BrowserService_rename ** BrowserService_ls, "stay") : at \in FilePages}
HostBrowser_downloadFile == {Load(at, BrowserService_get) : at \in FilePages}
HostBrowser_deleteFile == {Button(at, BrowserService_delete ** BrowserService_ls, "stay") : at \in FilePages}
HostBrowser_onFileSelectedForUpload ==
  {Load(at, BrowserService_upload ** NotAwaited(BrowserService_ls)) : at \in FilePages}

Swarm_initView ==
  {Load("docker.swarm", SystemService_version || SystemService_info || Opt(NodeService_nodes))}
SwarmVisualizer_initView ==
  {Load("docker.swarm.visualizer", NodeService_nodes || ServiceService_services || TaskService_tasks)}
Dashboard_initView ==
  {Load("docker.dashboard",
        ContainerService_containers || ImageService_images || VolumeService_volumes
        || NetworkService_networks || Opt(ServiceService_services) || StackService_stacks
        || SystemService_info || EndpointService_endpoint)}
DashboardClusterAgentInfo_onInit == {Load("docker.dashboard", AgentService_agents)}
Events_initView == {Load("docker.events", SystemService_events)}
HostView_initView ==
  {Load("docker.host",
        (SystemService_version || SystemService_info || Opt(ContainerService_containers))
        ** Opt(AgentService_hostInfo))}
JobsDatatable_purgeAction ==
  {Button(at, Call(Container, "prune"), "reload") : at \in {"docker.host", "docker.nodes.node"}}

StorageHandlers ==
  Networks_initView \cup Networks_removeAction \cup CreateNetwork_initView
  \cup CreateNetwork_createNetwork \cup CreateNetwork_create \cup Network_removeNetwork
  \cup Network_containerLeaveNetwork \cup Network_initView \cup NetworkMacvlanForm_initComponent
  \cup Volumes_initView \cup Volumes_removeAction \cup CreateVolume_initView \cup CreateVolume_create
  \cup Volume_removeVolume \cup Volume_initView
SwarmHandlers ==
  Services_initView \cup ServicesActions_scaleAction \cup ServicesActions_removeServices
  \cup ServicesActions_forceUpdateServices \cup CreateService_initView
  \cup CreateService_createNewService \cup Service_initView \cup Service_updateService
  \cup Service_forceUpdateService \cup Service_removeService \cup Service_updateWebhook
  \cup ServiceLogs_initView \cup ServiceLogs_startLogPolling \cup TaskLogs_startLogPolling
  \cup Secrets_initView
  \cup Secrets_removeAction \cup CreateSecret_create \cup Secret_removeSecret \cup Secret_initView
  \cup Configs_initView \cup Configs_removeAction \cup CreateConfig_create \cup CreateConfig_initView
  \cup Config_removeConfig \cup Config_initView \cup Task_initView \cup TaskLogs_initView
  \cup SwarmNodeDetailsPanel_saveChanges \cup Swarm_initView \cup SwarmVisualizer_initView
EngineHandlers ==
  NodeDetailsView_initView \cup NodeBrowser_onInit \cup NodeJob_onInit \cup HostBrowserView_onInit
  \cup HostJob_onInit \cup HostBrowser_getFilesForPath \cup HostBrowser_renameFile
  \cup HostBrowser_downloadFile \cup HostBrowser_deleteFile
  \cup HostBrowser_onFileSelectedForUpload \cup Dashboard_initView
  \cup DashboardClusterAgentInfo_onInit \cup Events_initView \cup HostView_initView
  \cup JobsDatatable_purgeAction
=============================================================================
