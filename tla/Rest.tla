-------------------------------- MODULE Rest --------------------------------
(* The REST layer of the browser: one $resource per file of the rest/       *)
(* directories, and the uploads.  What counts of a call is whether it reads *)
(* (GET) or changes something, and whether its URL lies under "/docker/".   *)
EXTENDS Plans

\* Under api/endpoints/:endpointId/docker/: the engine's API ...
Container == Rest("container", TRUE, {"query", "get", "inspect", "logs", "stats", "top"},
                  {"create"}, {"start", "stop", "restart", "kill", "pause", "unpause",
                  "rename", "exec", "update", "prune"}, {"remove"})
Image == Rest("image", TRUE, {"query", "get", "search", "history", "inspect", "download"},
              {"create"}, {"insert", "tag", "push"}, {"remove"})
Network == Rest("network", TRUE, {"query", "get"}, {"create"}, {"connect", "disconnect"}, {"remove"})
Volume == Rest("volume", TRUE, {"query", "get"}, {"create"}, {}, {"remove"})
Service == Rest("service", TRUE, {"get", "query", "logs"}, {"create"}, {"update"}, {"remove"})
Task == Rest("task", TRUE, {"get", "query", "logs"}, {}, {}, {})
Node == Rest("node", TRUE, {"query", "get"}, {}, {"update"}, {"remove"})
Secret == Rest("secret", TRUE, {"get", "query"}, {"create"}, {}, {"remove"})
Config == Rest("config", TRUE, {"get", "query"}, {"create"}, {}, {"remove"})
Swarm == Rest("swarm", TRUE, {"get"}, {}, {}, {})
Plugin == Rest("plugin", TRUE, {"query"}, {}, {}, {})
System == Rest("system", TRUE, {"info", "version", "events", "dataUsage"}, {}, {"auth"}, {})
SystemEndpoint == Rest("system", TRUE, {"ping"}, {}, {}, {})
Build == Rest("image", TRUE, {}, {"buildImage", "buildImageOverride"}, {}, {})
Commit == Rest("image", TRUE, {}, {"commitContainer"}, {}, {})
Exec == Rest("container", TRUE, {}, {}, {"resize"}, {})

\* ... and the agent's.
Agent == Rest("agent", TRUE, {"query"}, {}, {}, {})
AgentVersion1 == Rest("agent", TRUE, {"query"}, {}, {}, {})
AgentPing == Rest("agent", TRUE, {"ping"}, {}, {}, {})
Host == Rest("agent", TRUE, {"info"}, {}, {}, {})
Browse == Rest("file", TRUE, {"ls", "get"}, {"put"}, {"rename"}, {"delete"})
BrowseVersion1 == Rest("file", TRUE, {"ls", "get"}, {}, {"rename"}, {"delete"})

\* Under api/endpoints/:endpointId/azure and /extensions/storidge.
Azure == Rest("group", FALSE, {}, {}, {}, {"delete"})
ContainerGroup == Rest("group", FALSE, {"query"}, {"create"}, {}, {})
Location == Rest("azure", FALSE, {"query"}, {}, {}, {})
Provider == Rest("azure", FALSE, {"get"}, {}, {}, {})
AzureResourceGroup == Rest("azure", FALSE, {"query"}, {}, {}, {})
Subscription == Rest("azure", FALSE, {"query"}, {}, {}, {})
Storidge == Rest("storidge", FALSE, {"queryEvents", "getVersion", "getInfo", "queryNodes",
                 "queryProfiles", "getProfile"}, {"createProfile"},
                 {"rebootCluster", "shutdownCluster", "updateProfile"}, {"deleteProfile"})

\* Portainer's own.
Auth == Rest("session", FALSE, {}, {}, {"login"}, {})
DockerHub == Rest("dockerhub", FALSE, {"get"}, {}, {"update"}, {})
Endpoints == Rest("endpoint", FALSE, {"query", "get"}, {},
                  {"update", "updateAccess", "snapshots", "snapshot", "executeJob"}, {"remove"})
Extensions == Rest("extension", FALSE, {}, {}, {"register"}, {"deregister"})
EndpointGroups == Rest("endpointgroup", FALSE, {"query", "get"}, {"create"},
                       {"update", "updateAccess"}, {"remove"})
Motd == Rest("motd", FALSE, {"get"}, {}, {}, {})
Registries == Rest("registry", FALSE, {"query", "get"}, {"create"}, {"update", "updateAccess"}, {"remove"})
ResourceControl == Rest("control", FALSE, {"get"}, {"create"}, {"update"}, {"remove"})
Schedules == Rest("schedule", FALSE, {"query", "get", "file", "tasks"}, {"create"}, {"update"}, {"remove"})
Settings == Rest("settings", FALSE, {"get", "publicSettings"}, {}, {"update", "checkLDAPConnectivity"}, {})
Stack == Rest("stack", FALSE, {"get", "query", "getStackFile"}, {"create"}, {"update", "migrate"}, {"remove"})
Status == Rest("status", FALSE, {"get"}, {}, {}, {})
Tags == Rest("tag", FALSE, {"query"}, {"create"}, {}, {"remove"})
Teams == Rest("team", FALSE, {"query", "get", "queryMemberships"}, {"create"}, {"update"}, {"remove"})
TeamMemberships == Rest("membership", FALSE, {"query"}, {"create"}, {"update"}, {"remove"})
Templates == Rest("template", FALSE, {"query", "get"}, {"create"}, {"update"}, {"remove"})
Users == Rest("user", FALSE, {"query", "get", "queryMemberships", "checkAdminUser"},
              {"create"}, {"update", "updatePassword", "initAdminUser"}, {"remove"})
Webhooks == Rest("webhook", FALSE, {"query"}, {"create"}, {}, {"remove"})

\* Uploads go around the REST layer, to the URLs the service names.
UploadToEngine == Rest("image", TRUE, {}, {"build", "load"}, {}, {})
UploadSchedule == Rest("schedule", FALSE, {}, {"file"}, {}, {})
UploadStack == Rest("stack", FALSE, {}, {"file"}, {}, {})
UploadEndpoint == Rest("endpoint", FALSE, {}, {"form"}, {"job"}, {})
UploadTLS == Rest("tls", FALSE, {}, {}, {"ca", "cert", "key"}, {})
=============================================================================
