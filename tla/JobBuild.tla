------------------------------ MODULE JobBuild ------------------------------
(***************************************************************************)
(* Building the pod of a Buildkite job: ParseJob, Build, PatchPodSpec and  *)
(* what they call (scheduler/scheduler.go, imagecheck.go, build_inputs.go, *)
(* resource.go and the Apply methods of package config).  A build is one   *)
(* step; builds follow each other and share the controller configuration,  *)
(* of which PatchPodSpec modifies the podSpecPatch.                        *)
(*                                                                         *)
(* The operators take the configuration (w.cfg, here w) as a parameter and *)
(* are closed forms of the code's loops.                                   *)
(*                                                                         *)
(* Kept of a container: its name, image, pull policy, entrypoint, the      *)
(* BUILDKITE_COMMAND and BUILDKITE_CONTAINER_ID it gets, and its mounts.   *)
(* A command line is the pair of what was given and how it was joined.     *)
(***************************************************************************)
EXTENDS Integers, SequencesExt

CONSTANTS
    Configs,    \* controller configurations
    Patches,    \* the containers of the controller's podSpecPatch
    Jobs,       \* the Buildkite jobs that are built
    Pinned,     \* image references with a digest
    Malformed,  \* image references that do not parse
    ContainerNames,   \* container-0, container-1, ...: as many as are needed
    SidecarNames,     \* sidecar-0, ...
    ImageCheckNames,  \* imagecheck-0, ...
    MaxBuilds,  \* bound on the builds
    NoJob       \* nothing has been built yet

VARIABLES
    cfg,     \* w.cfg, but for the containers of the podSpecPatch
    patch,   \* those of w.cfg.PodSpecPatch, shared by all builds
    job,     \* the job built last
    out,     \* what came of it
    builds   \* number of builds so far

vars == <<cfg, patch, job, out, builds>>

NoCommand == <<>>
StepCommand == <<"step">>
NoId == -1

\* cmp.Or on strings.
Or(a, b) == IF a # "" THEN a ELSE b

Mount(vol, path) == [vol |-> vol, path |-> path]
NoMount == Mount("", "")

\* What the agent image is run as by the containers the scheduler adds.
AgentContainerName == "agent"
CheckoutContainerName == "checkout"
CopyAgentContainerName == "copy-agent"
AgentImage == "agent-image"

-----------------------------------------------------------------------------
(* The data. *)

\* The strings.  The union only names the literals of this module, which the
\* provers do not know to be strings.
Text ==
    STRING \cup
    {"", "step", "buildkite", AgentContainerName, CheckoutContainerName, CopyAgentContainerName,
     AgentImage, "bootstrap", "agent start", "setup", "check", "Always", "IfNotPresent",
     "workspace", "hooks", "more-hooks", "plugins", "signing", "verification",
     "git-credentials-ro", "/workspace", "/workspace/hooks", "/more-hooks",
     "/workspace/plugins", "/buildkite/signing-jwks", "/buildkite/verification-jwks",
     "/buildkite/git-mirrors", "/buildkite/git-credentials-ro"}

VolumeMount == [vol : Text, path : Text]

UserContainer ==
    [name : Text, image : Text, policy : Text, cmd : Text, mounts : Seq(VolumeMount)]

\* A partial container of a podSpecPatch: cmd is its command and args, command
\* the BUILDKITE_COMMAND of its env.  One with several mounts is written as
\* several of the same name, which merge to the same.
PatchContainer ==
    [name : Text, init : BOOLEAN, cmd : Text, command : Seq(Text), image : Text,
     policy : Text, mount : VolumeMount]

\* The ExtraVolumeMounts of the checkout, command and sidecar params, and the
\* volumes of the podSpecPatch, which the controller and the plugin each have.
Configuration ==
    [skip : Text, interposer : Text, pullPolicy : Text, checkPolicy : Text,
     skipChecks : BOOLEAN, unsafe : BOOLEAN, tokens : BOOLEAN, prohibit : BOOLEAN,
     volumes : SUBSET Text, mirrors : Text, creds : BOOLEAN, classes : SUBSET Text,
     defaultClass : Text, checkoutMounts : Seq(VolumeMount), commandMounts : Seq(VolumeMount),
     sidecarMounts : Seq(VolumeMount), patchVolumes : Seq(Text)]

BuildkiteJob ==
    [plugins : Text, token : BOOLEAN, skip : Text, interposer : Text,
     containers : Seq(UserContainer), sidecars : Seq(UserContainer), init : Seq(UserContainer),
     patch : Seq(PatchContainer), image : Text, class : Text, volumes : Seq(Text),
     extraMounts : Seq(VolumeMount), mirrors : Text, creds : BOOLEAN, template : BOOLEAN,
     checkoutMounts : Seq(VolumeMount), commandMounts : Seq(VolumeMount),
     sidecarMounts : Seq(VolumeMount), patchVolumes : Seq(Text)]

Distinct(s) == \A i, k \in DOMAIN s : s[i] = s[k] => i = k

\* The names that containers of the scheduler's own have.
Reserved == {AgentContainerName, CheckoutContainerName, CopyAgentContainerName}

ASSUME JobBuildAssumption ==
    /\ MaxBuilds \in Nat /\ NoJob \notin Jobs
    /\ Configs \subseteq Configuration /\ Jobs \subseteq BuildkiteJob
    /\ Patches \subseteq Seq(PatchContainer)

\* The generated names differ from each other and from the fixed ones, and there
\* is one for each container: an image check for every image of the pod's.
ASSUME NamesAssumption ==
    /\ {ContainerNames, SidecarNames, ImageCheckNames} \subseteq Seq(Text)
    /\ Distinct(ContainerNames) /\ Distinct(SidecarNames) /\ Distinct(ImageCheckNames)
    /\ ToSet(ContainerNames) \cap Reserved = {} /\ ToSet(ImageCheckNames) \cap Reserved = {}
    /\ Len(ContainerNames) >= 1
    /\ \A j \in Jobs : /\ Len(j.containers) <= Len(ContainerNames)
                       /\ Len(j.sidecars) <= Len(SidecarNames)
                       /\ Len(j.containers) + 3 <= Len(ImageCheckNames)

\* The elements of s at the positions I, in the order of s.
Pick(s, I) ==
    [n \in 1..Cardinality(I) |->
        s[CHOOSE i \in I : Cardinality({k \in I : k < i}) = n - 1]]

-----------------------------------------------------------------------------
(* Parsing. *)

\* No plugins, a list that does not parse, or the Kubernetes plugin.
ParseFails(w, j) ==
    \/ w.tokens /\ ~j.token
    \/ j.plugins = "malformed"
    \/ j.plugins = "kubernetes" /\ w.prohibit

HasPlugin(j) == j.plugins = "kubernetes"

\* Without the plugin the job brings nothing but its command, image and tags.
Given(j, field, otherwise) == IF HasPlugin(j) THEN j[field] ELSE otherwise

\* The plugin overrides the default, if set.
skipCheckout(w, j) == Or(Given(j, "skip", ""), w.skip) = "yes"

\* The interposer that joins a container's command and args.
InterposerFor(w, j) == Or(Or(Given(j, "interposer", ""), w.interposer), "buildkite")

Command(w, j, cmd) == <<InterposerFor(w, j), cmd>>

\* An unknown class, or any class when none is configured.
ResourceClassFails(w, j) ==
    LET name == Or(j.class, w.defaultClass) IN name # "" /\ name \notin w.classes

-----------------------------------------------------------------------------
(* Volumes and their mounts. *)

workspaceVolumeMount == Mount("workspace", "/workspace")

volumeMounts(j) == <<workspaceVolumeMount>> \o Given(j, "extraMounts", <<>>)

\* The volumes of the agent config, where they are mounted, and in which order.
configMounts ==
    <<Mount("hooks", "/workspace/hooks"), Mount("more-hooks", "/more-hooks"),
      Mount("plugins", "/workspace/plugins"), Mount("signing", "/buildkite/signing-jwks"),
      Mount("verification", "/buildkite/verification-jwks")>>

ConfigMounts(w, names) ==
    Pick(configMounts, {i \in DOMAIN configMounts : configMounts[i].vol \in names \cap w.volumes})

hooksAndPlugins == {"hooks", "more-hooks", "plugins"}

ApplyVolumesTo(w) ==
    Pick([i \in DOMAIN configMounts |-> configMounts[i].vol],
         {i \in DOMAIN configMounts : configMounts[i].vol \in w.volumes})

ApplyToCommand(w) == ConfigMounts(w, hooksAndPlugins \cup {"signing"})
ApplyToAgentStart(w) == ConfigMounts(w, hooksAndPlugins \cup {"signing", "verification"})
ApplyToCheckout(w) == ConfigMounts(w, hooksAndPlugins)

\* The git mirrors volumes of the controller and of the plugin, if any.
GitMirrors(w, j) ==
    LET mirrors == <<w.mirrors, Given(j, "mirrors", "")>>
    IN Pick(mirrors, {i \in DOMAIN mirrors : mirrors[i] # ""})

\* The plugin's secret supersedes the default.
GitCredsSecret(w, j) == Given(j, "creds", FALSE) \/ w.creds

GitCreds(w, j) == IF GitCredsSecret(w, j) THEN <<"git-credentials-ro">> ELSE <<>>

\* Mutant: the volumes of the checkout container are left out.
VolumesWithoutCheckout(w, j) ==
    Given(j, "volumes", <<>>) \o <<"workspace">> \o ApplyVolumesTo(w)

Volumes(w, j) ==
    Given(j, "volumes", <<>>) \o <<"workspace">> \o ApplyVolumesTo(w)
        \o (IF skipCheckout(w, j) THEN <<>> ELSE GitMirrors(w, j) \o GitCreds(w, j))

MirrorsMount(vol) == IF vol # "" THEN <<Mount(vol, "/buildkite/git-mirrors")>> ELSE <<>>

\* The params of the controller, then those of the plugin, then the credentials.
CheckoutMounts(w, j) ==
    volumeMounts(j) \o ApplyToCheckout(w)
        \o MirrorsMount(w.mirrors) \o w.checkoutMounts
        \o MirrorsMount(Given(j, "mirrors", "")) \o Given(j, "checkoutMounts", <<>>)
        \o [i \in DOMAIN GitCreds(w, j) |-> Mount(GitCreds(w, j)[i], "/buildkite/git-credentials-ro")]

CommandMounts(w, j) ==
    ApplyToCommand(w) \o w.commandMounts \o Given(j, "commandMounts", <<>>)

SidecarMounts(w, j) ==
    w.sidecarMounts \o volumeMounts(j) \o Given(j, "sidecarMounts", <<>>)

\* Drops a mount at a path that an earlier one has.
Deduplicated(mounts) ==
    Pick(mounts, {i \in DOMAIN mounts : \A k \in 1..(i - 1) : mounts[k].path # mounts[i].path})

PrepareVolumeMounts(containers) ==
    [i \in DOMAIN containers |->
        [containers[i] EXCEPT !.mounts = Deduplicated(containers[i].mounts)]]

-----------------------------------------------------------------------------
(* The containers, before any patch. *)

Container(name, image, policy, entry, command, id, mounts) ==
    [name |-> name, image |-> image, policy |-> policy, entry |-> entry,
     command |-> command, id |-> id, mounts |-> mounts]

\* Mutant: the checkout container is always counted.
OneSystemContainer(w, j) == 1

systemContainerCount(w, j) == IF skipCheckout(w, j) THEN 0 ELSE 1

\* The names of the user's containers, or of the default one.
CommandNames(j) ==
    LET given == Given(j, "containers", <<>>)
    IN IF given = <<>> THEN <<ContainerNames[1]>>
       ELSE [i \in DOMAIN given |-> Or(given[i].name, ContainerNames[i])]

SidecarsNamed(j) ==
    LET given == Given(j, "sidecars", <<>>)
    IN [i \in DOMAIN given |-> Or(given[i].name, SidecarNames[i])]

UserInitNames(j) ==
    LET given == Given(j, "init", <<>>) IN [i \in DOMAIN given |-> given[i].name]

podSpecInitNames(j) == UserInitNames(j) \o SidecarsNamed(j)

\* The user's containers run kubernetes-bootstrap with their command in
\* BUILDKITE_COMMAND; without any, a default one runs the step's command.
CommandContainers(w, j) ==
    LET given == Given(j, "containers", <<>>)
    IN IF given = <<>>
       THEN <<Container(CommandNames(j)[1], AgentImage, "", "bootstrap", StepCommand,
                        systemContainerCount(w, j), volumeMounts(j) \o CommandMounts(w, j))>>
       ELSE [i \in DOMAIN given |->
                Container(CommandNames(j)[i], given[i].image, given[i].policy,
                          "bootstrap",
                          IF given[i].cmd # "" THEN Command(w, j, given[i].cmd) ELSE StepCommand,
                          i - 1 + systemContainerCount(w, j),
                          given[i].mounts \o CommandMounts(w, j) \o volumeMounts(j))]

\* Sidecars become init containers that keep running.
SidecarContainers(w, j) ==
    LET given == Given(j, "sidecars", <<>>)
    IN [i \in DOMAIN given |->
           Container(SidecarsNamed(j)[i], given[i].image, given[i].policy,
                     given[i].cmd, NoCommand, NoId, given[i].mounts \o SidecarMounts(w, j))]

\* The init containers of the plugin's podSpec stay as they are.
UserInitContainers(j) ==
    LET given == Given(j, "init", <<>>)
    IN [i \in DOMAIN given |->
           Container(UserInitNames(j)[i], given[i].image, given[i].policy,
                     given[i].cmd, NoCommand, NoId, given[i].mounts)]

defaultPullPolicyForImage(image) == IF image \in Pinned THEN "IfNotPresent" ELSE "Always"

AgentPullPolicy(w) == Or(w.pullPolicy, defaultPullPolicyForImage(AgentImage))

AgentContainer(w, j) ==
    Container(AgentContainerName, AgentImage, AgentPullPolicy(w), "agent start", NoCommand, NoId,
              volumeMounts(j) \o ApplyToAgentStart(w))

createCheckoutContainer(w, j) ==
    Container(CheckoutContainerName, AgentImage, AgentPullPolicy(w), "checkout", NoCommand, 0,
              CheckoutMounts(w, j))

createWorkspaceSetupContainer(w) ==
    Container(CopyAgentContainerName, AgentImage, AgentPullPolicy(w), "setup", NoCommand, NoId,
              <<workspaceVolumeMount>>)

\* BUILDKITE_CONTAINER_COUNT: how many containers the agent waits for.
managedContainerCount(w, j) == Len(CommandContainers(w, j)) + systemContainerCount(w, j)

Unchecked(w, j) ==
    CommandContainers(w, j) \o <<AgentContainer(w, j)>>
        \o (IF skipCheckout(w, j) THEN <<>> ELSE <<createCheckoutContainer(w, j)>>)

-----------------------------------------------------------------------------
(* Image checks. *)

pullPolicyPreference(policy) ==
    CASE policy = "Always" -> 3 [] policy = "IfNotPresent" -> 2
      [] policy = "Never" -> 1 [] OTHER -> 0

\* The policy if there was one container only.
nominalPolicy(w, c) ==
    Or(Or(c.policy, w.checkPolicy), Or(w.pullPolicy, defaultPullPolicyForImage(c.image)))

ownPolicy(w, c) == Or(c.policy, Or(w.pullPolicy, defaultPullPolicyForImage(c.image)))

\* The container need not pull again what its image check pulls.
SettlePolicy(w, c) ==
    [c EXCEPT !.policy = IF nominalPolicy(w, c) = "Always" /\ ownPolicy(w, c) = "Always"
                         THEN "IfNotPresent" ELSE ownPolicy(w, c)]

\* The images to check, each with the strongest policy of its containers.
selectImagesToCheck(w, containers) ==
    LET ofImage(image) == {i \in DOMAIN containers : containers[i].image = image}
    IN [image \in {containers[i].image : i \in DOMAIN containers} |->
           nominalPolicy(w, containers[CHOOSE i \in ofImage(image) : \A k \in ofImage(image) :
               pullPolicyPreference(nominalPolicy(w, containers[i]))
                   >= pullPolicyPreference(nominalPolicy(w, containers[k]))])]

\* Mutant: any init container with the image makes the check superfluous.
CulledByImage(checks, init) ==
    {image \in DOMAIN checks : \E i \in DOMAIN init : init[i].image = image}

\* The checks that an init container with the same or a stronger policy makes
\* superfluous.
cullCheckForExisting(checks, init) ==
    {image \in DOMAIN checks : \E i \in DOMAIN init :
        /\ init[i].image = image
        /\ pullPolicyPreference(init[i].policy) >= pullPolicyPreference(checks[image])}

\* One init container per remaining image, in some order.
makeImageCheckContainers(checks, images) ==
    LET order == SetToSeq(images)
    IN [i \in DOMAIN order |->
           Container(ImageCheckNames[i], order[i], checks[order[i]], "check", NoCommand, NoId,
                     <<workspaceVolumeMount>>)]

\* The init containers of the podSpec when the checks are chosen.
podSpecInitContainers(w, j) == UserInitContainers(j) \o SidecarContainers(w, j)

InitBefore(w, j) == <<createWorkspaceSetupContainer(w)>> \o podSpecInitContainers(w, j)

ImageChecks(w, j) ==
    LET checks == selectImagesToCheck(w, Unchecked(w, j))
    IN IF w.skipChecks THEN <<>>
       ELSE makeImageCheckContainers(checks, DOMAIN checks \ cullCheckForExisting(checks, InitBefore(w, j)))

InvalidRefs(w, j) ==
    \E c \in ToSet(Unchecked(w, j)) \cup ToSet(InitBefore(w, j)) : c.image \in Malformed

\* The pod as it is when the patches come.
Assembled(w, j) ==
    [containers |-> [i \in DOMAIN Unchecked(w, j) |-> SettlePolicy(w, Unchecked(w, j)[i])],
     init |-> <<createWorkspaceSetupContainer(w)>> \o ImageChecks(w, j) \o podSpecInitContainers(w, j),
     volumes |-> Volumes(w, j), count |-> managedContainerCount(w, j)]

-----------------------------------------------------------------------------
(* PatchPodSpec. *)

Named(containers, name) == {i \in DOMAIN containers : containers[i].name = name}

\* The patch sets a command or args that the pod does not have already.
Modifies(pod, p) ==
    LET list == IF p.init THEN pod.init ELSE pod.containers
    IN p.cmd # "" /\ ~\E i \in Named(list, p.name) : list[i].entry = p.cmd

\* Containers added by the scheduler keep their commands.
Refused(w, pod, p) ==
    /\ Modifies(pod, p) /\ ~w.unsafe
    /\ IF p.init THEN p.name = CopyAgentContainerName \/ p.name \in ToSet(ImageCheckNames)
       ELSE p.name \in {AgentContainerName, CheckoutContainerName}

PatchesCommandContainer(pod, p) ==
    /\ Modifies(pod, p) /\ ~p.init
    /\ p.name \notin {AgentContainerName, CheckoutContainerName}
    /\ \E i \in Named(pod.containers, p.name) : pod.containers[i].entry = "bootstrap"

\* Mutant: the command stays in the patch.
KeepCommand(w, j, pod, p) == p

\* A command for a command container moves to BUILDKITE_COMMAND.
MoveCommand(w, j, pod, p) ==
    IF PatchesCommandContainer(pod, p)
    THEN [p EXCEPT !.cmd = "", !.command = Command(w, j, p.cmd)] ELSE p

\* What the loops make of the patch itself before one of them returns an error:
\* the init containers come first.
Rewritten(w, j, pod, ps) ==
    LET refused == {i \in DOMAIN ps : Refused(w, pod, ps[i])}
        reached(i) == \A k \in refused : ~ps[k].init /\ i < k
    IN [i \in DOMAIN ps |-> IF reached(i) THEN MoveCommand(w, j, pod, ps[i]) ELSE ps[i]]

PatchFails(w, pod, ps) == \E i \in DOMAIN ps : Refused(w, pod, ps[i])

\* The patch's containers of that name that set the field, the last of which
\* counts.
Setting(ps, init, name, field, unset) ==
    {k \in DOMAIN ps : ps[k].init = init /\ ps[k].name = name /\ ps[k][field] # unset}

LastSet(ps, init, name, field, unset, otherwise) ==
    LET set == Setting(ps, init, name, field, unset)
    IN IF set = {} THEN otherwise ELSE ps[Max(set)][field]

\* The mounts that the patch gives a container, the last one first.
Mounting(ps, init, name) ==
    LET set == Pick(ps, Setting(ps, init, name, "mount", NoMount))
    IN [i \in DOMAIN set |-> set[Len(set) + 1 - i].mount]

\* A mount of the patch replaces one at its path: in front, it is the one that
\* Deduplicated keeps.
Merge(c, ps, init) ==
    [c EXCEPT !.image   = LastSet(ps, init, c.name, "image", "", @),
              !.policy  = LastSet(ps, init, c.name, "policy", "", @),
              !.entry   = LastSet(ps, init, c.name, "cmd", "", @),
              !.command = LastSet(ps, init, c.name, "command", NoCommand, @),
              !.mounts  = Mounting(ps, init, c.name) \o @]

\* The containers of the patch, the first of each name, that the pod lacks.
Added(containers, ps, init) ==
    {k \in DOMAIN ps : /\ ps[k].init = init /\ Named(containers, ps[k].name) = {}
                       /\ \A l \in 1..(k - 1) : ps[l].init = init => ps[l].name # ps[k].name}

\* The strategic merge by container name; a new name is a new container.
MergeAll(containers, ps, init) ==
    LET added == Pick(ps, Added(containers, ps, init))
        all   == containers \o [i \in DOMAIN added |->
                    Container(added[i].name, "", "", "", NoCommand, NoId, <<>>)]
    IN [i \in DOMAIN all |-> Merge(all[i], ps, init)]

\* The volumes merge by name too.
MergeVolumes(volumes, new) ==
    volumes \o Pick(new, {i \in DOMAIN new : new[i] \notin ToSet(volumes)
                                             /\ \A k \in 1..(i - 1) : new[k] # new[i]})

PatchPodSpec(pod, ps, volumes) ==
    [pod EXCEPT !.containers = MergeAll(@, ps, FALSE), !.init = MergeAll(@, ps, TRUE),
                !.volumes = MergeVolumes(@, volumes)]

-----------------------------------------------------------------------------
(* Build. *)

\* BUILDKITE_IMAGE replaces the image of whatever has a BUILDKITE_COMMAND.
applyCustomImageIfPresent(j, pod) ==
    [pod EXCEPT !.containers = [i \in DOMAIN @ |->
        IF j.image # "" /\ @[i].command # NoCommand THEN [@[i] EXCEPT !.image = j.image] ELSE @[i]]]

\* The loop deletes from the slice it ranges over, and would miss the second of
\* two adjacent containers of that name, which no valid pod has.
RemoveCheckout(w, j, pod) ==
    [pod EXCEPT !.containers =
        Pick(@, {i \in DOMAIN @ : skipCheckout(w, j) => @[i].name # CheckoutContainerName})]

Finish(w, j, pod) ==
    [RemoveCheckout(w, j, pod) EXCEPT !.containers = PrepareVolumeMounts(@),
                                   !.init = PrepareVolumeMounts(@)]

NoPod == [containers |-> <<>>, init |-> <<>>, volumes |-> <<>>, count |-> 0]
Error == [ok |-> FALSE, pod |-> NoPod]

PluginPatch(j) == Given(j, "patch", <<>>)

\* The controller's patch is applied first, then the custom image, then the
\* plugin's patch.
Build(w, j, shared) ==
    LET patched == applyCustomImageIfPresent(j, PatchPodSpec(Assembled(w, j), shared, w.patchVolumes))
        own     == Rewritten(w, j, patched, PluginPatch(j))
    IN IF PatchFails(w, patched, own) THEN Error
       ELSE [ok |-> TRUE,
             pod |-> Finish(w, j, PatchPodSpec(patched, own, Given(j, "patchVolumes", <<>>)))]

BuildFailsEarly(w, j) == ParseFails(w, j) \/ ResourceClassFails(w, j) \/ InvalidRefs(w, j)

\* Without a podSpec of its own the plugin may name a PodTemplate to be fetched.
TemplateFails(j) == Given(j, "template", FALSE)

\* The part of Handle that leads to a Job or to failJob.
Handle(j) ==
    /\ builds < MaxBuilds /\ builds' = builds + 1
    /\ job' = j
    /\ \/ /\ BuildFailsEarly(cfg, j) \/ TemplateFails(j)
          /\ out' = Error /\ UNCHANGED patch
       \/ /\ ~BuildFailsEarly(cfg, j)
          /\ patch' = Rewritten(cfg, j, Assembled(cfg, j), patch)
          /\ out' = IF PatchFails(cfg, Assembled(cfg, j), patch) THEN Error ELSE Build(cfg, j, patch')
    /\ UNCHANGED cfg

Init ==
    /\ cfg \in Configs /\ patch \in Patches
    /\ job = NoJob /\ out = Error /\ builds = 0

Next == \E j \in Jobs : Handle(j)

Spec == Init /\ [][Next]_vars

-----------------------------------------------------------------------------
(* Properties. *)

\* Each of the user's containers has a name of its own, none that the scheduler
\* gives.
ValidNames(j) ==
    LET names == CommandNames(j) \o podSpecInitNames(j)
    IN /\ Distinct(names)
       /\ ToSet(names) \cap (Reserved \cup ToSet(ImageCheckNames)) = {}

Managed == {i \in DOMAIN out.pod.containers : out.pod.containers[i].id # NoId}

\* "The coordinating agent container are expecting those managed containers to
\* connect" (scheduler.go:775): the managed containers of the pod have the IDs
\* that the agent waits for, each once, whichever of controller, plugin and
\* patches decide about the checkout; unless a container of the user's is called
\* checkout.
AgentAwaitsRunning ==
    out.ok /\ CheckoutContainerName \notin ToSet(CommandNames(job)) =>
        /\ {out.pod.containers[i].id : i \in Managed} = 0..(out.pod.count - 1)
        /\ \A i, k \in Managed : out.pod.containers[i].id = out.pod.containers[k].id => i = k

\* The patch's containers that give the named one a command: by command and args
\* other than what it runs anyway, or as BUILDKITE_COMMAND.
Giving(ps, name) ==
    {k \in DOMAIN ps : /\ ~ps[k].init /\ ps[k].name = name
                       /\ ps[k].cmd \notin {"", "bootstrap"} \/ ps[k].command # NoCommand}

\* command is what p gives, joined by some interposer.
Gives(p, command) ==
    IF p.cmd \notin {"", "bootstrap"} THEN Len(command) = 2 /\ command[2] = p.cmd
    ELSE command = p.command

\* The BUILDKITE_COMMAND of the command container with that name and position is
\* the one given for it last: by the plugin's patch, the controller's, or itself.
LastGiven(j, shared, name, n, command) ==
    LET own   == PluginPatch(j)
        given == Given(j, "containers", <<>>)
    IN IF Giving(own, name) # {} THEN Gives(own[Max(Giving(own, name))], command)
       ELSE IF Giving(shared, name) # {} THEN Gives(shared[Max(Giving(shared, name))], command)
       ELSE IF given = <<>> \/ given[n].cmd = "" THEN command = StepCommand
       ELSE Len(command) = 2 /\ command[2] = given[n].cmd

\* No sequence of patches, of this build or left by an earlier one, takes a
\* command container away from the agent ("don't let users mess with them via
\* podSpecPatch", scheduler.go:1075): it runs kubernetes-bootstrap, and the
\* command given for it last is the one in BUILDKITE_COMMAND; the containers the
\* scheduler adds run what they should.
CommandsUnderAgent ==
    [][out'.ok /\ ~cfg.unsafe /\ ValidNames(job') =>
         /\ \A i \in DOMAIN out'.pod.containers :
              LET c == out'.pod.containers[i]
              IN /\ c.name = AgentContainerName => c.entry = "agent start"
                 /\ c.name = CheckoutContainerName => c.entry = "checkout"
                 /\ c.id # NoId /\ c.name # CheckoutContainerName =>
                       /\ c.entry = "bootstrap"
                       /\ LastGiven(job', patch, c.name,
                                    c.id + 1 - systemContainerCount(cfg, job'), c.command)
         /\ \A i \in DOMAIN out'.pod.init :
              LET c == out'.pod.init[i]
              IN /\ c.name = CopyAgentContainerName => c.entry = "setup"
                 /\ c.name \in ToSet(ImageCheckNames) /\ Named(Assembled(cfg, job').init, c.name) # {} =>
                       c.entry = "check"
      ]_vars

\* A container that is to pull its image always, and still has that image after
\* the patches, gets it freshly pulled: by itself, or by an init container that
\* runs before ("there's no need to pull it again later", imagecheck.go:82);
\* unless a patch sets the container's policy, or gives an init container of the
\* pod another image or policy.
AlwaysPulled ==
    LET ps == ToSet(patch) \cup ToSet(PluginPatch(job))
    IN /\ out.ok /\ ~cfg.skipChecks /\ ValidNames(job)
       /\ \A p \in ps : p.init /\ (p.image # "" \/ p.policy # "") =>
                            Named(Assembled(cfg, job).init, p.name) = {}
       => \A b \in ToSet(Unchecked(cfg, job)), c \in ToSet(out.pod.containers) :
             /\ b.name = c.name /\ b.image = c.image /\ ownPolicy(cfg, b) = "Always"
             /\ \A p \in ps : ~p.init /\ p.name = c.name => p.policy = ""
             => \/ c.policy = "Always"
                \/ \E i \in DOMAIN out.pod.init :
                      out.pod.init[i].image = c.image /\ out.pod.init[i].policy = "Always"

\* The mounts that controller and plugin write in their params, for all
\* containers or for those of a kind, and those that a container has itself.
WrittenMounts(w, j) ==
    LET given == ToSet(Given(j, "containers", <<>>)) \cup ToSet(Given(j, "sidecars", <<>>))
                    \cup ToSet(Given(j, "init", <<>>))
    IN ToSet(w.checkoutMounts) \cup ToSet(w.commandMounts) \cup ToSet(w.sidecarMounts)
          \cup ToSet(Given(j, "checkoutMounts", <<>>)) \cup ToSet(Given(j, "commandMounts", <<>>))
          \cup ToSet(Given(j, "sidecarMounts", <<>>)) \cup ToSet(Given(j, "extraMounts", <<>>))
          \cup UNION {ToSet(c.mounts) : c \in given}

\* The volumes that controller, plugin and scheduler may add have different
\* names, and a mount that controller, plugin or patch write is of the
\* workspace, of a volume of the plugin's, or of one that a patch brings.
ValidVolumes(w, j, shared) ==
    LET given   == Given(j, "volumes", <<>>)
        patched == {p.mount : p \in ToSet(shared) \cup ToSet(PluginPatch(j))} \ {NoMount}
    IN /\ Distinct(given \o <<"workspace", "git-credentials-ro">>
                      \o [i \in DOMAIN configMounts |-> configMounts[i].vol] \o GitMirrors(w, j))
       /\ \A m \in WrittenMounts(w, j) \cup patched :
             m.vol \in ToSet(given) \cup {"workspace"} \cup ToSet(w.patchVolumes)
                          \cup ToSet(Given(j, "patchVolumes", <<>>))

\* The patches use no name both for a container and for an init container.
ValidPatches(j, shared) ==
    LET ps == ToSet(shared) \cup ToSet(PluginPatch(j))
    IN /\ \A p, q \in ps : p.name = q.name => p.init = q.init
       /\ \A p \in ps :
             p.name \notin IF p.init THEN ToSet(CommandNames(j)) \cup {"agent", "checkout"}
                           ELSE ToSet(podSpecInitNames(j)) \cup ToSet(ImageCheckNames) \cup {"copy-agent"}

\* Kubernetes accepts the names and mounts of what is built from valid input:
\* container names and volume names are distinct, and in each container every
\* mount has a volume and a path of its own, whatever the podSpec, the params
\* of controller and plugin, the defaults and both patches add.
PodSpecAccepted ==
    LET all == out.pod.init \o out.pod.containers
    IN out.ok /\ ValidNames(job) /\ ValidVolumes(cfg, job, patch) /\ ValidPatches(job, patch) =>
        /\ Distinct([i \in DOMAIN all |-> all[i].name])
        /\ Distinct(out.pod.volumes)
        /\ \A c \in ToSet(all) :
              /\ Distinct([i \in DOMAIN c.mounts |-> c.mounts[i].path])
              /\ \A i \in DOMAIN c.mounts : c.mounts[i].vol \in ToSet(out.pod.volumes)

\* "The plugin overrides the default, if set" (scheduler.go:632): a command is
\* joined by the interposer of the job it runs in.
OwnInterposer ==
    out.ok => \A c \in ToSet(out.pod.containers) :
                 Len(c.command) = 2 => c.command[1] = InterposerFor(cfg, job)
=============================================================================
