------------------------------- MODULE MCFlows ------------------------------
EXTENDS Flows, ContainerPages, ClusterPages, PortainerPages, ExtensionPages

AllHandlers ==
  UNION {ContainerHandlers, ImageHandlers, StorageHandlers, SwarmHandlers, EngineHandlers,
         DeploymentHandlers, PeopleHandlers, SettingHandlers, ExtensionHandlers}
=============================================================================
