------------------------------- MODULE Routes -------------------------------
(* The states of the router that have a page of their own.  The URL of some *)
(* of them carries the name of the node that holds what the page shows.     *)

DockerRoutes1 ==
  {"docker.configs", "docker.configs.config", "docker.configs.new", "docker.containers",
   "docker.containers.container", "docker.containers.container.console", "docker.containers.new",
   "docker.containers.container.inspect", "docker.containers.container.logs",
   "docker.containers.container.stats", "docker.dashboard"}
DockerRoutes2 ==
  {"docker.host", "docker.host.browser", "docker.host.job", "docker.events", "docker.images",
   "docker.images.image", "docker.images.build", "docker.images.import", "docker.networks",
   "docker.networks.network", "docker.networks.new"}
DockerRoutes3 ==
  {"docker.nodes.node", "docker.nodes.node.browse", "docker.nodes.node.job", "docker.secrets",
   "docker.secrets.secret", "docker.secrets.new", "docker.services", "docker.services.service",
   "docker.services.new", "docker.services.service.logs", "docker.swarm", "docker.swarm.visualizer"}
DockerRoutes4 ==
  {"docker.tasks.task", "docker.tasks.task.logs", "docker.volumes", "docker.volumes.volume",
   "docker.volumes.volume.browse", "docker.volumes.new"}
PortainerRoutes1 ==
  {"portainer.about", "portainer.account", "portainer.auth", "portainer.endpoints",
   "portainer.endpoints.endpoint", "portainer.endpoints.new", "portainer.endpoints.endpoint.access",
   "portainer.groups", "portainer.groups.group"}
PortainerRoutes2 ==
  {"portainer.groups.new", "portainer.groups.group.access", "portainer.home", "portainer.init.endpoint",
   "portainer.init.admin", "portainer.registries", "portainer.registries.registry",
   "portainer.registries.new", "portainer.registries.registry.access", "portainer.schedules",
   "portainer.schedules.schedule"}
PortainerRoutes3 ==
  {"portainer.schedules.new", "portainer.settings", "portainer.settings.authentication",
   "portainer.stacks", "portainer.stacks.stack", "portainer.newstack", "portainer.support",
   "portainer.tags", "portainer.updatePassword"}
PortainerRoutes4 ==
  {"portainer.users", "portainer.users.user", "portainer.teams", "portainer.teams.team",
   "portainer.templates", "portainer.templates.template", "portainer.templates.new"}
AzureRoutes == {"azure.containerinstances", "azure.containerinstances.new", "azure.dashboard"}
StoridgeRoutes ==
  {"storidge.profiles", "storidge.profiles.profile", "storidge.profiles.new", "storidge.cluster",
   "storidge.monitor"}

Routes == UNION {DockerRoutes1, DockerRoutes2, DockerRoutes3, DockerRoutes4, PortainerRoutes1,
                 PortainerRoutes2, PortainerRoutes3, PortainerRoutes4, AzureRoutes, StoridgeRoutes}

\* "?nodeName" in its own URL, or in the one of the state it is part of.
NodeRoutes ==
  {"docker.containers.container", "docker.containers.container.console",
   "docker.containers.container.inspect", "docker.containers.container.logs",
   "docker.containers.container.stats", "docker.containers.new", "docker.images.image",
   "docker.networks.network", "docker.volumes.volume", "docker.volumes.volume.browse"}
=============================================================================
