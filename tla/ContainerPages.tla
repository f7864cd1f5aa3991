--------------------------- MODULE ContainerPages ---------------------------
(* The pages about containers and images: what each handler of their        *)
(* controllers sends, and what it does when the answers are there.          *)
EXTENDS Calls

Containers_initView == {Load("docker.containers", ContainerService_containers)}

ContainersActions_executeActionOnContainerList ==
  {OnNode(Selection("docker.containers", do)) :
     do \in {ContainerService_startContainer, ContainerService_stopContainer,
             ContainerService_restartContainer, ContainerService_killContainer,
             ContainerService_pauseContainer, ContainerService_resumeContainer}}
ContainersActions_removeSelectedContainers ==
  {OnNode(Selection("docker.containers", ContainerService_remove))}

\* The page of one container; after an action it reads the container again.
Container_update == {OnNode(Load("docker.containers.container", ContainerService_container))}
Container_networks == {Load("docker.containers.container", NetworkService_networks)}
Container_executeContainerAction ==
  {Button("docker.containers.container", do ** NotAwaited(ContainerService_container), "stay") :
     do \in {ContainerService_startContainer, ContainerService_stopContainer,
             ContainerService_restartContainer, ContainerService_killContainer,
             ContainerService_pauseContainer, ContainerService_resumeContainer}}
Container_renameContainer ==
  {Button("docker.containers.container", ContainerService_renameContainer, "stay")}
Container_containerLeaveNetwork ==
  {Form("docker.containers.container", NetworkService_disconnectContainer, "reload")}
Container_containerJoinNetwork ==
  {Form("docker.containers.container", NetworkService_connectContainer, "reload")}
Container_commit ==
  {Button("docker.containers.container",
          Call(Commit, "commitContainer") ** NotAwaited(ContainerService_container), "stay")}
Container_removeContainer ==
  {Button("docker.containers.container", ContainerService_remove, "docker.containers")}
Container_updateRestartPolicy ==
  {Button("docker.containers.container", ContainerService_updateRestartPolicy, "stay")}

\* The container is created again from its own configuration.  The connections to
\* its networks (bound: one) are started and never waited for, and the button is
\* freed only by a failure: success leaves the page.
Container_recreateContainer ==
  LET Pull == Opt(RegistryService_retrieveRegistryFromRepository ** ImageService_pullImageAndIgnoreErrors)
      Replace(stop, start) ==
        Pull ** stop ** ContainerService_renameContainer ** ContainerService_createContainer
        ** NotAwaited(NetworkService_connectContainer) ** start
        ** Opt(ResourceControlService_createResourceControl) ** ContainerService_remove
  IN  {FreedOnly(Form("docker.containers.container", do, "docker.containers"), {"error"}) :
         do \in {Replace(ContainerService_stopContainer, ContainerService_startContainer),
                 Replace(Nothing, Nothing)}}

\* The page that creates one: six independent reads, of which only the first names
\* the node, then the container to copy from and the registry of its image.
CreateContainer_initView ==
  {OnNode(Load("docker.containers.new", Call(Volume, "query")))} \cup
  {Load("docker.containers.new", do) :
     do \in {NetworkService_networks,
             Call(Container, "query") ** Opt(NotAwaited(Call(Container, "get"))),
             SystemService_info, SettingsService_publicSettings, PluginService_servicePlugins}}
CreateContainer_loadFromContainerSpec ==
  {Load("docker.containers.new",
        Call(Container, "get") ** NotAwaited(RegistryService_retrieveRegistryFromRepository))}

\* A new container, when no other has its name: see ReplaceContainer for what
\* happens when one has, and the user says so.  A search that fails is told and
\* passes for one that found nothing; one after which the user declines, or the
\* form turns out invalid, is all there is.  The flag is set after both.
CreateContainer_findCurrentContainer ==
  {OnNode(Load("docker.containers.new", Ignored(Call(Container, "query"))))}
CreateContainer_create ==
  {Late(OnNode(Form("docker.containers.new",
        Ignored(Call(Container, "query")) ** Opt(ImageService_pullImageAndIgnoreErrors)
        ** ContainerService_createAndStartContainer
        ** ResourceControlService_applyResourceControl ** Each(NetworkService_connectContainer),
        "docker.containers")))}

\* A console: an exec instance, and two seconds later the size of its terminal.
ContainerConsole_connect ==
  {Silent(Button("docker.containers.container.console",
                 ContainerService_createExec ** ExecService_resizeTTY, "stay"))}
ContainerConsole_initView ==
  {OnNode(Load("docker.containers.container.console", ContainerService_container ** ImageService_image))}
ContainerInspect_initView ==
  {OnNode(Load("docker.containers.container.inspect", ContainerService_inspect))}
ContainerLogs_initView ==
  {OnNode(Load("docker.containers.container.logs", ContainerService_container))}
ContainerLogs_startLogPolling ==
  {Load("docker.containers.container.logs", ContainerService_logs)}
ContainerStats_initView ==
  {OnNode(Load("docker.containers.container.stats", ContainerService_container))}
ContainerStats_startChartUpdate ==
  {Load("docker.containers.container.stats",
        ContainerService_containerStats || ContainerService_containerTop)}

-----------------------------------------------------------------------------
Images_initView == {Load("docker.images", ImageService_images)}
Images_pullImage ==
  {OnNode(Form("docker.images", ImageService_pullImageAndAcknowledgeErrors, "reload"))}
Images_exportImages == {OnNode(Form("docker.images", ImageService_downloadImages, "stay"))}
Images_removeAction == {OnNode(Selection("docker.images", ImageService_deleteImage))}

Image_initView ==
  {OrElse(OnNode(Load("docker.images.image", ImageService_image || Opt(ImageService_history))),
          "docker.images")}
Image_tagImage == {Button("docker.images.image", ImageService_tagImage, "docker.images.image")}
Image_pushTag ==
  {Button("docker.images.image",
          RegistryService_retrieveRegistryFromRepository ** ImageService_pushImage, "stay")}
Image_pullTag ==
  {Button("docker.images.image",
          RegistryService_retrieveRegistryFromRepository ** ImageService_pullImageAndAcknowledgeErrors,
          "stay")}
Image_removeTag ==
  {Button("docker.images.image", ImageService_deleteImage, next) :
     next \in {"docker.images", "docker.images.image"}}
Image_removeImage == {Button("docker.images.image", ImageService_deleteImage, "docker.images")}
Image_exportImage == {OnNode(Form("docker.images.image", ImageService_downloadImages, "stay"))}
BuildImage_buildImage ==
  {OnNode(Form("docker.images.build",
               BuildService_buildImageFromUpload \cup BuildService_buildImageFromURL
               \cup BuildService_buildImageFromDockerfileContent, "stay"))}
ImportImage_uploadImage ==
  {OnNode(Form("docker.images.import", ImageService_uploadImage, "stay"))}

ContainerHandlers ==
  Containers_initView \cup ContainersActions_executeActionOnContainerList
  \cup ContainersActions_removeSelectedContainers \cup Container_update \cup Container_networks
  \cup Container_executeContainerAction \cup Container_renameContainer
  \cup Container_containerLeaveNetwork \cup Container_containerJoinNetwork \cup Container_commit
  \cup Container_removeContainer \cup Container_updateRestartPolicy \cup Container_recreateContainer
  \cup CreateContainer_initView \cup CreateContainer_loadFromContainerSpec
  \cup CreateContainer_findCurrentContainer \cup CreateContainer_create
  \cup ContainerConsole_connect \cup ContainerConsole_initView \cup ContainerInspect_initView
  \cup ContainerLogs_initView \cup ContainerLogs_startLogPolling \cup ContainerStats_initView
  \cup ContainerStats_startChartUpdate
ImageHandlers ==
  Images_initView \cup Images_pullImage \cup Images_exportImages \cup Images_removeAction
  \cup Image_initView \cup Image_tagImage \cup Image_pushTag \cup Image_pullTag \cup Image_removeTag
  \cup Image_removeImage \cup Image_exportImage \cup BuildImage_buildImage
  \cup ImportImage_uploadImage
=============================================================================
