--------------------------- MODULE ExtensionPages ---------------------------
(* The pages about an Azure endpoint and about a Storidge cluster.  The     *)
(* page that creates a container instance injects $rootScope and $q in each *)
(* other's place: it fails once it has the subscriptions, and its button    *)
(* has no resource group to create anything in.                             *)
EXTENDS Calls

AzureContainerInstances_initView ==
  {Load("azure.containerinstances", AzureService_subscriptions ** AzureService_containerGroups)}
AzureContainerInstances_deleteAction ==
  {Selection("azure.containerinstances", AzureService_deleteContainerGroup)}
AzureCreateContainerInstance_initView ==
  {Load("azure.containerinstances.new", AzureService_subscriptions)}
AzureDashboard_initView ==
  {Load("azure.dashboard", AzureService_subscriptions ** AzureService_resourceGroups)}

\* The cluster is said to have rebooted, or shut down, whatever the answer was.
StoridgeCluster_shutdownCluster ==
  {Form("storidge.cluster", Ignored(StoridgeClusterService_shutdown), "docker.dashboard")}
StoridgeCluster_rebootCluster ==
  {Form("storidge.cluster", Ignored(StoridgeClusterService_reboot), "reload")}
StoridgeCluster_initView ==
  {Load("storidge.cluster",
        StoridgeClusterService_info || StoridgeClusterService_version || StoridgeNodeService_nodes)}
StoridgeMonitor_startViewUpdate ==
  {Load("storidge.monitor", StoridgeClusterService_events || StoridgeClusterService_info)}
StoridgeProfiles_initView == {Load("storidge.profiles", StoridgeProfileService_profiles)}
StoridgeProfiles_removeAction == {Selection("storidge.profiles", StoridgeProfileService_delete)}
StoridgeProfiles_create == {Form("storidge.profiles", StoridgeProfileService_create, "reload")}
StoridgeCreateProfile_create ==
  {Form("storidge.profiles.new", StoridgeProfileService_create, "storidge.profiles")}
StoridgeProfile_update ==
  {Form("storidge.profiles.profile", StoridgeProfileService_update, "storidge.profiles")}
StoridgeProfile_deleteProfile ==
  {Form("storidge.profiles.profile", StoridgeProfileService_delete, "storidge.profiles")}
StoridgeProfile_initView == {Load("storidge.profiles.profile", StoridgeProfileService_profile)}
StoridgeProfileSelector_initComponent == {Load("docker.volumes.new", StoridgeProfileService_profiles)}

ExtensionHandlers ==
  AzureContainerInstances_initView \cup AzureContainerInstances_deleteAction
  \cup AzureCreateContainerInstance_initView \cup AzureDashboard_initView
  \cup StoridgeCluster_shutdownCluster \cup StoridgeCluster_rebootCluster \cup StoridgeCluster_initView
  \cup StoridgeMonitor_startViewUpdate \cup StoridgeProfiles_initView
  \cup StoridgeProfiles_removeAction \cup StoridgeProfiles_create \cup StoridgeCreateProfile_create
  \cup StoridgeProfile_update \cup StoridgeProfile_deleteProfile \cup StoridgeProfile_initView
  \cup StoridgeProfileSelector_initComponent
=============================================================================
