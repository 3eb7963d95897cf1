----------------------------- MODULE MCJobBuild -----------------------------
(* Builds of a pod over three families of configurations and jobs: images  *)
(* and pull policies, commands and patches, volumes and mounts.            *)
EXTENDS JobBuild

MCContainerNames == <<"container-0", "container-1">>
MCSidecarNames == <<"sidecar-0">>
MCImageCheckNames == <<"imagecheck-0", "imagecheck-1", "imagecheck-2", "imagecheck-3", "imagecheck-4">>

Config ==
    [skip |-> "", interposer |-> "", pullPolicy |-> "", checkPolicy |-> "", skipChecks |-> FALSE,
     unsafe |-> FALSE, tokens |-> FALSE, prohibit |-> FALSE, volumes |-> {}, mirrors |-> "",
     creds |-> FALSE, classes |-> {"small"}, defaultClass |-> "", checkoutMounts |-> <<>>,
     commandMounts |-> <<>>, sidecarMounts |-> <<>>, patchVolumes |-> <<>>]

MCConfigs ==
    {[Config EXCEPT !.pullPolicy = p, !.checkPolicy = c, !.skipChecks = s] :
        p \in {"", "IfNotPresent", "Always"}, c \in {"", "IfNotPresent"}, s \in BOOLEAN}
    \cup {[Config EXCEPT !.skip = s, !.interposer = i, !.unsafe = u] :
        s \in {"", "yes"}, i \in {"", "vector"}, u \in BOOLEAN}
    \cup {[Config EXCEPT !.volumes = v, !.mirrors = m, !.creds = c] :
        v \in {{"plugins"}, {"hooks", "more-hooks", "signing", "verification"}},
        m \in {"", "mirrors"}, c \in BOOLEAN}
    \cup {[Config EXCEPT !.volumes = {"hooks"}, !.mirrors = "mirrors", !.patchVolumes = <<"shared">>,
                          !.checkoutMounts = <<Mount("shared", x)>>, !.commandMounts = <<Mount("shared", y)>>,
                          !.sidecarMounts = <<Mount("shared", "/workspace")>>] :
        x \in {"/shared", "/buildkite/git-mirrors"}, y \in {"/shared", "/workspace/hooks"}}
    \cup {[Config EXCEPT !.tokens = t, !.prohibit = p, !.defaultClass = d] :
        t, p \in BOOLEAN, d \in {"small", "huge"}}

User(name, image, policy, cmd) ==
    [name |-> name, image |-> image, policy |-> policy, cmd |-> cmd, mounts |-> <<>>]

Job ==
    [plugins |-> "kubernetes", token |-> TRUE, skip |-> "", interposer |-> "", containers |-> <<>>,
     sidecars |-> <<>>, init |-> <<>>, patch |-> <<>>, image |-> "", class |-> "", volumes |-> <<>>,
     extraMounts |-> <<>>, mirrors |-> "", creds |-> FALSE, template |-> FALSE,
     checkoutMounts |-> <<>>, commandMounts |-> <<>>, sidecarMounts |-> <<>>, patchVolumes |-> <<>>]

ImageUsers ==
    {User("", i, p, "") : i \in {"app", "pinned", AgentImage}, p \in {"", "IfNotPresent", "Always"}}

Policies == {"", "IfNotPresent", "Always"}

\* The sidecars and init containers that come with them.
ImageJobs ==
    {[Job EXCEPT !.containers = cs, !.sidecars = sc[1], !.init = sc[2]] :
        cs \in {<<a, b>> : a, b \in ImageUsers} \cup {<<User("", "bad ref", "", "")>>},
        sc \in {<< <<>>, <<>> >>} \cup {<< <<User("", "app", p, "serve")>>, <<>> >> : p \in Policies}
                \cup {<< <<>>, <<User("prepare", "app", p, "fetch")>> >> : p \in Policies}}

P(name, init, cmd, image) ==
    [name |-> name, init |-> init, cmd |-> cmd, command |-> NoCommand, image |-> image,
     policy |-> "", mount |-> NoMount]

\* Patches of a command container, of a new one, of the scheduler's own.
SomePatches ==
    {<<>>, <<P("container-0", FALSE, "patched", ""), P("container-0", FALSE, "bootstrap", "")>>, <<P("extra", FALSE, "serve", "app")>>,
     <<P("container-0", FALSE, "", "app2"), P(AgentContainerName, FALSE, "mine", "")>>,
     <<P(CheckoutContainerName, FALSE, "mine", "")>>,
     <<P(CopyAgentContainerName, TRUE, "mine", "")>>,
     <<[P("container-0", FALSE, "", "") EXCEPT !.policy = "Never"], P("new", TRUE, "fetch", "app")>>}

Mounts(name, init, vol, path) == [P(name, init, "", "") EXCEPT !.mount = Mount(vol, path)]

MCPatches == {<<>>, <<P("container-0", FALSE, "controller", "")>>,
              <<P("container-0", FALSE, "controller", ""), P("extra2", FALSE, "serve", "app")>>}

\* A patch may also set BUILDKITE_COMMAND itself, as a rewritten one does.
MCAllPatches == MCPatches \cup
    {<<[P("container-0", FALSE, "", "") EXCEPT !.command = <<"vector", "earlier">>,
                                               !.mount = Mount("shared", "/workspace/hooks")]>>}

CommandJobs ==
    {[Job EXCEPT !.containers = cs, !.interposer = i, !.patch = p, !.image = m, !.skip = s] :
        cs \in {<<>>, <<User("container-0", "app", "", "run")>>,
                <<User(CheckoutContainerName, "app", "", "run")>>,
                <<User("container-0", "app", "", ""), User("other", "app", "", "run2")>>},
        i \in {"", "vector"}, p \in SomePatches, m \in {"", "app3"}, s \in {"", "yes", "no"}}

VolumeJobs ==
    {[Job EXCEPT !.skip = s, !.mirrors = m, !.creds = c, !.extraMounts = x, !.volumes = <<"mine">>] :
        s \in {"", "yes"}, m \in {"", "mirrors2"}, c \in BOOLEAN,
        x \in {<<>>, <<Mount("mine", "/mine")>>, <<Mount("mine", "/workspace/hooks")>>,
               <<Mount("mine", "/mine"), Mount("mine", "/workspace/plugins")>>}}

\* Mounts of the containers themselves, of the plugin's params and of its patch,
\* at paths that others mount at too.
MountJobs ==
    {[Job EXCEPT !.containers = cs, !.volumes = <<"mine">>, !.extraMounts = <<Mount("mine", "/mine")>>,
                 !.sidecars = <<[User("", "app", "", "serve") EXCEPT !.mounts = <<Mount("mine", "/workspace")>>]>>,
                 !.init = <<[User("prepare", "app", "", "fetch") EXCEPT !.mounts = <<Mount("late", "/late")>>]>>,
                 !.checkoutMounts = <<Mount("late", x)>>, !.commandMounts = <<Mount("mine", y)>>,
                 !.sidecarMounts = <<Mount("late", "/mine")>>, !.patch = p, !.patchVolumes = v] :
        cs \in {<<>>, <<[User("", "app", "", "") EXCEPT !.mounts = <<Mount("workspace", "/mine")>>]>>},
        x \in {"/late", "/workspace"}, y \in {"/shared", "/workspace/hooks"},
        p \in {<<>>, <<Mounts("prepare", TRUE, "late", "/late"), Mounts("prepare", TRUE, "mine", "/late")>>,
               <<Mounts("container-0", FALSE, "mine", "/workspace/hooks"), Mounts("extra", FALSE, "late", "/late")>>,
               <<Mounts(CheckoutContainerName, FALSE, "late", "/buildkite/git-mirrors")>>},
        v \in {<<"late">>, <<"late", "mine", "late">>}}

OtherJobs ==
    {[Job EXCEPT !.plugins = p, !.token = t, !.class = c, !.image = m, !.template = f] :
        p \in {"none", "malformed", "kubernetes"}, t \in BOOLEAN, c \in {"", "small", "huge"},
        m \in {"", "app3"}, f \in BOOLEAN}

MCJobs == ImageJobs \cup CommandJobs \cup VolumeJobs \cup MountJobs \cup OtherJobs

-----------------------------------------------------------------------------
(* The closed forms of MergeAll, MergeVolumes and Deduplicated are what the  *)
(* loops compute, but for the order of the mounts.                            *)

\* One mount of the patch, merged by its path.
MergeMount(mounts, m) ==
    IF m = NoMount THEN mounts
    ELSE IF \E i \in DOMAIN mounts : mounts[i].path = m.path
    THEN LET first == Min({i \in DOMAIN mounts : mounts[i].path = m.path})
         IN [mounts EXCEPT ![first] = m]
    ELSE Append(mounts, m)

MergeOne(cs, p) ==
    IF Named(cs, p.name) = {}
    THEN Append(cs, Container(p.name, p.image, p.policy, p.cmd, p.command, NoId, MergeMount(<<>>, p.mount)))
    ELSE [i \in DOMAIN cs |->
            IF cs[i].name # p.name THEN cs[i]
            ELSE [cs[i] EXCEPT !.image = Or(p.image, @), !.policy = Or(p.policy, @),
                               !.entry = Or(p.cmd, @), !.mounts = MergeMount(@, p.mount),
                               !.command = IF p.command # NoCommand THEN p.command ELSE @]]

DropPath(kept, m) ==
    IF \E i \in DOMAIN kept : kept[i].path = m.path THEN kept ELSE Append(kept, m)

AddVolume(volumes, v) == IF v \in ToSet(volumes) THEN volumes ELSE Append(volumes, v)

SmallMounts == {Mount(v, p) : v \in {"v", "u"}, p \in {"/v", "/u"}}

SmallPatches ==
    {[P(n, i, c, "") EXCEPT !.command = b] :
        n \in {"a", "b"}, i \in BOOLEAN, c \in {"", "x"}, b \in {NoCommand, StepCommand}}
    \cup {Mounts("a", FALSE, m.vol, m.path) : m \in SmallMounts}

SmallPod(mounts) == <<Container("a", "app", "", "run", NoCommand, 0, mounts)>>

\* As it is after PrepareVolumeMounts, the order of the mounts aside.
Prepared(cs) == [i \in DOMAIN cs |-> [cs[i] EXCEPT !.mounts = ToSet(Deduplicated(@))]]

ASSUME MergeIsTheLoop ==
    \A ps \in BoundedSeq(SmallPatches, 3),
       cs \in {<<>>} \cup {SmallPod(ms) : ms \in {<<>>, <<Mount("w", "/v")>>, <<Mount("w", "/v"), Mount("x", "/v")>>}} :
        Prepared(MergeAll(cs, ps, FALSE)) = Prepared(FoldLeft(MergeOne, cs, SelectSeq(ps, LAMBDA p : ~p.init)))

ASSUME MergeVolumesIsTheLoop ==
    \A vs, new \in BoundedSeq({"v", "u", "w"}, 3) :
        Distinct(vs) => MergeVolumes(vs, new) = FoldLeft(AddVolume, vs, new)

ASSUME DeduplicatedIsTheLoop ==
    \A ms \in BoundedSeq(SmallMounts, 4) : Deduplicated(ms) = FoldLeft(DropPath, <<>>, ms)

\* Two jobs that run the same container, with and without an interposer of
\* their own.
SharedJobs == {[Job EXCEPT !.interposer = i] : i \in {"", "vector"}}
=============================================================================
