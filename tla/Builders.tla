------------------------------ MODULE Builders ------------------------------
(***************************************************************************)
(* The builders of Kubernetes objects (src/common/k8stest): containers,    *)
(* volumes, pod templates, deployments, pods and storage classes.          *)
(*                                                                         *)
(* A builder collects errors and an object; every With... call changes one *)
(* of the two, or both.  Maps and slices live in a heap, since some calls  *)
(* copy what they are given, some keep it, some write into what they hold: *)
(* whether two objects share a map is what the properties are about.  Of a *)
(* plain field the model only keeps that it was set.                       *)
(***************************************************************************)
EXTENDS Integers, FiniteSets, Sequences, TLC

CONSTANTS
  Nil,              \* nil
  Parts,            \* which builders a behaviour works with
  MaxBuilderCalls   \* calls in a behaviour

ASSUME MaxBuilderCallsAssumption == MaxBuilderCalls \in Nat

VARIABLES
  using,         \* the builders in use, one of Parts
  bld,           \* the builders: [errs : BOOLEAN, obj : the object]
  heap,          \* maps and slices by address
  built,         \* how the last Build of a builder ended
  tainted,       \* builders that were given a missing argument
  panicked,
  nth            \* calls so far

bvars == <<using, bld, heap, built, tainted, panicked, nth>>

\* Addresses: an empty map or slice, the caller's maps and its slice, and the
\* map or slice that this call makes.
Empty == 0
CallerMaps == {1, 2}
CallerSlices == {3}
Maps == CallerMaps \cup {Empty}
Fresh == 4 + nth

\* A map is a set of entries, and so is a slice with one container: what of it
\* was set in place.
Keys(m) == {e[1] : e \in m}
Override(new, old) == new \cup {e \in old : e[1] \notin Keys(new)}
Bare == {<<"container", 1>>}

-----------------------------------------------------------------------------
(* New builders                                                            *)

EmptyTemplate ==
  [set |-> {}, annotations |-> Nil, labels |-> Nil, nodeSelector |-> Nil,
   tolerations |-> 0, containers |-> << >>, volumes |-> << >>]

NewBuilder(obj) == [errs |-> FALSE, obj |-> obj]
NewContainerBuilder == NewBuilder([set |-> {}, envs |-> Nil])
NewVolumeBuilder == NewBuilder([set |-> {}, sources |-> {}])
NewPodtemplatespecBuilder == NewBuilder(EmptyTemplate)
NewDeploymentBuilder ==
  NewBuilder([set |-> {}, labels |-> Nil, selector |-> Nil, replicas |-> Nil, template |-> EmptyTemplate])
NewPodBuilder ==
  NewBuilder([set |-> {}, labels |-> Nil, tolerations |-> << >>, containers |-> Nil])

\* The provisioner and one replica are set from the start.
NewScBuilder ==
  NewBuilder([set |-> {"provisioner"}, annotations |-> Nil, params |-> [repl |-> 1]])

BuilderNames == {"container", "volume", "template", "deployment", "pod1", "pod2", "sc"}

BuildersInit ==
  /\ bld = [container |-> NewContainerBuilder, volume |-> NewVolumeBuilder,
            template |-> NewPodtemplatespecBuilder, deployment |-> NewDeploymentBuilder,
            pod1 |-> NewPodBuilder, pod2 |-> NewPodBuilder, sc |-> NewScBuilder]
  /\ heap = (Empty :> {}) @@ (1 :> {<<"k1", 1>>}) @@ (2 :> {<<"k1", 2>>, <<"k2", 2>>}) @@ (3 :> Bare)
  /\ built = [n \in BuilderNames |-> "no"]
  /\ tainted = {} /\ panicked = FALSE /\ nth = 0

-----------------------------------------------------------------------------
(* What a call does to the builder it is made on                           *)

\* An error is recorded and the object stays as it is.
Refuse(n) == bld' = [bld EXCEPT ![n].errs = TRUE] /\ UNCHANGED heap

Optional(n, field) == bld' = [bld EXCEPT ![n].obj.set = @ \cup {field}] /\ UNCHANGED heap

Required(n, field, given) == IF given THEN Optional(n, field) ELSE Refuse(n)

\* The map is copied into a new one.
Replace(n, field, m) ==
  /\ heap' = heap @@ (Fresh :> heap[m])
  /\ bld' = [bld EXCEPT ![n].obj[field] = Fresh]

Copy(n, field, m) == IF heap[m] = {} THEN Refuse(n) ELSE Replace(n, field, m)

\* The entries are written into the map the object has, or copied.
Merge(n, field, m) ==
  IF heap[m] = {} \/ bld[n].obj[field] = Nil THEN Copy(n, field, m)
  ELSE heap' = [heap EXCEPT ![bld[n].obj[field]] = Override(heap[m], @)] /\ UNCHANGED bld

\* The map itself is kept.
Keep(n, field, m) ==
  IF heap[m] = {} THEN Refuse(n)
  ELSE bld' = [bld EXCEPT ![n].obj[field] = m] /\ UNCHANGED heap

Built(n) ==
  /\ built' = [built EXCEPT ![n] = IF bld[n].errs THEN "error" ELSE "object"]
  /\ UNCHANGED heap

-----------------------------------------------------------------------------
(* Containers                                                              *)

ContainerBuild == Built("container") /\ UNCHANGED bld
ContainerWithName(given) == Required("container", "name", given)
ContainerWithImage(given) == Required("container", "image", given)
ContainerWithCommandNew(given) == Required("container", "command", given)
ContainerWithArgumentsNew(given) == Required("container", "args", given)
ContainerWithVolumeMountsNew(given) == Required("container", "mounts", given)
ContainerWithVolumeDevices(given) == Required("container", "devices", given)
ContainerWithImagePullPolicy(given) == Required("container", "pullPolicy", given)
ContainerWithPrivilegedSecurityContext(given) == Required("container", "securityContext", given)
ContainerWithResources(given) == Required("container", "resources", given)
ContainerWithResourcesByValue == Optional("container", "resources")
ContainerWithPortsNew(given) == Required("container", "ports", given)
ContainerWithLivenessProbe(given) == Required("container", "livenessProbe", given)
ContainerWithLifeCycle(given) == Required("container", "lifecycle", given)

\* Lists of variables: of them the model keeps the length.
ContainerWithEnvsNew(n) ==
  IF n = 0 THEN Refuse("container")
  ELSE bld' = [bld EXCEPT !["container"].obj.envs = n] /\ UNCHANGED heap

ContainerWithEnvs(n) ==
  IF n = 0 \/ bld["container"].obj.envs = Nil THEN ContainerWithEnvsNew(n)
  ELSE bld' = [bld EXCEPT !["container"].obj.envs = @ + n] /\ UNCHANGED heap

-----------------------------------------------------------------------------
(* Volumes                                                                 *)

\* VolumeSource is replaced as a whole.
SetSource(sources, errs, set) ==
  /\ bld' = [bld EXCEPT !["volume"].obj.sources = sources,
                        !["volume"].errs = @ \/ errs, !["volume"].obj.set = @ \cup set]
  /\ UNCHANGED heap

VolumeWithName(given) == Required("volume", "name", given)
VolumeWithHostDirectory(given) ==
  IF given THEN SetSource({"hostPath"}, FALSE, {}) ELSE Refuse("volume")

\* A mode of 0 is an error, but the source and the name are set all the same.
VolumeWithSecret(given, mode) ==
  IF given THEN SetSource({"secret"}, mode = 0, {"name"}) ELSE Refuse("volume")
VolumeWithConfigMap(given, mode) ==
  IF given THEN SetSource({"configMap"}, mode = 0, {"name"}) ELSE Refuse("volume")
VolumeWithHostPathAndType(path, type) ==
  IF path /\ type THEN SetSource({"hostPath"}, FALSE, {}) ELSE Refuse("volume")
VolumeWithPVCSource(given) ==
  IF given THEN SetSource({"pvc"}, FALSE, {}) ELSE Refuse("volume")

\* One field of the source is set, the others stay.
VolumeWithEmptyDir(given) ==
  IF given THEN SetSource(bld["volume"].obj.sources \cup {"emptyDir"}, FALSE, {}) ELSE Refuse("volume")
VolumeBuild == Built("volume") /\ UNCHANGED bld

-----------------------------------------------------------------------------
(* Pod templates                                                           *)

TemplateWithName(given) == Required("template", "name", given)
TemplateWithNamespace(given) == Required("template", "namespace", given)
TemplateWithServiceAccountName(given) == Required("template", "serviceAccount", given)
TemplateWithAffinity(given) == Required("template", "affinity", given)
TemplateWithPriorityClassName == Optional("template", "priorityClass")
TemplateWithAnnotations(m) == Merge("template", "annotations", m)
TemplateWithAnnotationsNew(m) == Copy("template", "annotations", m)

TemplateWithLabelsNew(m) == Copy("template", "labels", m)
TemplateWithLabels(m) ==
  IF heap[m] = {} \/ bld["template"].obj.labels = Nil THEN TemplateWithLabelsNew(m)
  ELSE Merge("template", "labels", m)
TemplateWithNodeSelector(m) == Merge("template", "nodeSelector", m)

\* The map there is emptied and filled again.
MutTemplateWithNodeSelectorNew(m) ==
  LET a == bld["template"].obj.nodeSelector IN
    IF heap[m] = {} \/ a = Nil THEN Copy("template", "nodeSelector", m)
    ELSE heap' = [heap EXCEPT ![a] = heap[m]] /\ UNCHANGED bld

TemplateWithNodeSelectorNew(m) == Copy("template", "nodeSelector", m)
TemplateWithNodeSelectorByValue(m) == Replace("template", "nodeSelector", m)

\* Of tolerations the model keeps their number.
SetTolerations(n) == bld' = [bld EXCEPT !["template"].obj.tolerations = n] /\ UNCHANGED heap

TemplateWithTolerationsByValue(n) == SetTolerations(bld["template"].obj.tolerations + n)
TemplateWithTolerationsNew(n) == IF n = 0 THEN Refuse("template") ELSE SetTolerations(n)
TemplateWithTolerations(n) ==
  IF n = 0 THEN Refuse("template") ELSE SetTolerations(bld["template"].obj.tolerations + n)

\* A list of builders: n times the container's, or the volume's, and then one
\* that has errors.  The first that fails ends the call, after those before it
\* have been added; a list without builders is nil.
Fails(n, broken, kind) == n = 0 \/ broken \/ bld[kind].errs
Made(n, kind) == IF bld[kind].errs THEN << >> ELSE [i \in 1..n |-> bld[kind].obj]

AddAll(field, n, broken, kind) ==
  /\ bld' = [bld EXCEPT !["template"].errs = @ \/ Fails(n, broken, kind),
                        !["template"].obj[field] = @ \o Made(n, kind)]
  /\ UNCHANGED heap

SetAll(field, n, broken, kind) ==
  IF Fails(n, broken, kind) THEN Refuse("template")
  ELSE bld' = [bld EXCEPT !["template"].obj[field] = Made(n, kind)] /\ UNCHANGED heap

\* The error of a builder is dropped.
MutTemplateWithContainerBuilders(n, broken) ==
  /\ bld' = [bld EXCEPT !["template"].errs = @ \/ n = 0,
                        !["template"].obj.containers = @ \o Made(n, "container")]
  /\ UNCHANGED heap

TemplateWithContainerBuilders(n, broken) == AddAll("containers", n, broken, "container")
TemplateWithContainerBuildersNew(n, broken) == SetAll("containers", n, broken, "container")
TemplateWithVolumeBuilders(n, broken) == AddAll("volumes", n, broken, "volume")
TemplateWithVolumeBuildersNew(n, broken) == SetAll("volumes", n, broken, "volume")
TemplateBuild == Built("template") /\ UNCHANGED bld

-----------------------------------------------------------------------------
(* Deployments                                                             *)

DeploymentWithName(given) == Required("deployment", "name", given)
DeploymentWithNamespace(given) == Required("deployment", "namespace", given)
DeploymentWithLabelsNew(m) == Copy("deployment", "labels", m)
DeploymentWithSelectorMatchLabels(m) == Merge("deployment", "selector", m)
DeploymentWithSelectorMatchLabelsNew(m) == Copy("deployment", "selector", m)

\* The caller's map becomes the template's.
DeploymentWithNodeSelectorNew(m) ==
  IF heap[m] = {} THEN Refuse("deployment")
  ELSE bld' = [bld EXCEPT !["deployment"].obj.template.nodeSelector = m] /\ UNCHANGED heap
DeploymentWithNodeSelector(m) ==
  LET held == bld["deployment"].obj.template.nodeSelector IN
    IF heap[m] = {} \/ held = Nil THEN DeploymentWithNodeSelectorNew(m)
    ELSE heap' = [heap EXCEPT ![held] = Override(heap[m], @)] /\ UNCHANGED bld

\* nil and negative numbers are refused.
DeploymentWithReplicas(n) ==
  IF n = Nil \/ n = -1 THEN Refuse("deployment")
  ELSE bld' = [bld EXCEPT !["deployment"].obj.replicas = n] /\ UNCHANGED heap

\* The template's object is copied, the maps in it are not.
DeploymentWithPodTemplateSpecBuilder(given) ==
  IF ~given \/ bld["template"].errs THEN Refuse("deployment")
  ELSE bld' = [bld EXCEPT !["deployment"].obj.template = bld["template"].obj] /\ UNCHANGED heap
DeploymentBuild == Built("deployment") /\ UNCHANGED bld

-----------------------------------------------------------------------------
(* Pods                                                                    *)

PodWithName(p, given) == Required(p, "name", given)
PodWithNamespace(p, given) == Required(p, "namespace", given)
PodWithNodeName(p, given) == Required(p, "nodeName", given)
PodWithNodeSelectorHostnameNew(p, given) == Required(p, "nodeSelector", given)
PodWithServiceAccountName(p, given) == Required(p, "serviceAccount", given)
PodWithVolumes(p, given) == Required(p, "volumes", given)
PodWithVolume(p) == PodWithVolumes(p, TRUE)
PodWithRestartPolicy(p) == Optional(p, "restartPolicy")
PodWithLabels(p, m) == Keep(p, "labels", m)
PodWithAppLabel(p) ==
  /\ heap' = heap @@ (Fresh :> {<<"app", 1>>})
  /\ bld' = [bld EXCEPT ![p].obj.labels = Fresh]

\* A taint without a value is tolerated if it exists, else if it is equal.
PodWithTolerationsForTaints(p, values) ==
  /\ bld' = [bld EXCEPT ![p].obj.tolerations =
               @ \o [i \in DOMAIN values |-> IF values[i] THEN "Equal" ELSE "Exists"]]
  /\ UNCHANGED heap

\* The slice is the caller's; a single container is put into a new one.
PodWithContainers(p, s) == Keep(p, "containers", s)

PodWithContainer(p) ==
  /\ heap' = heap @@ (Fresh :> Bare)
  /\ bld' = [bld EXCEPT ![p].obj.containers = Fresh]

\* Containers[0] is written in place, in whatever slice that is.
SetFirst(p, field, given) ==
  IF ~given THEN Refuse(p)
  ELSE LET s == bld[p].obj.containers IN
         /\ s # Nil
         /\ heap' = [heap EXCEPT ![s] = @ \cup {<<field, 1>>}]
         /\ UNCHANGED bld

PodWithVolumeMounts(p, given) == SetFirst(p, "mounts", given)
PodWithVolumeDevices(p, given) == SetFirst(p, "devices", given)
PodWithVolumeDeviceOrMount(p, raw) ==
  IF raw THEN PodWithVolumeDevices(p, TRUE) ELSE PodWithVolumeMounts(p, TRUE)

\* Without containers the index is out of range.
PodPanics(p) == bld[p].obj.containers = Nil /\ UNCHANGED <<bld, heap>>

\* The host's network is set on the object whether there are errors or not.
PodBuild(p, hostNetwork) ==
  /\ bld' = IF hostNetwork THEN [bld EXCEPT ![p].obj.set = @ \cup {"hostNetwork"}] ELSE bld
  /\ Built(p)

-----------------------------------------------------------------------------
(* Storage classes                                                         *)

Param(key, v) == bld' = [bld EXCEPT !["sc"].obj.params = (key :> v) @@ @] /\ UNCHANGED heap

ScWithName(given) == Required("sc", "name", given)
ScWithNamespace(given) == Required("sc", "namespace", given)
ScWithProvisioner(given) == Required("sc", "provisioner", given)
ScWithGenerateName == Optional("sc", "generateName")

\* The error does not end the call: an empty map is kept too.
ScWithAnnotations(m) ==
  /\ bld' = [bld EXCEPT !["sc"].errs = @ \/ heap[m] = {}, !["sc"].obj.annotations = m]
  /\ UNCHANGED heap
ScWithReplicas(n) == IF n = 0 THEN Refuse("sc") ELSE Param("repl", n)
ScWithFileSystemType(type) == IF type = "none" THEN UNCHANGED <<bld, heap>> ELSE Param("fsType", type)
ScWithProtocol(proto) == Param("protocol", proto)
ScWithLocal(value) == Param("local", value)
ScWithIOTimeout(n) == Param("ioTimeout", n)
ScWithVolumeBindingMode(given) == IF given THEN Optional("sc", "bindingMode") ELSE UNCHANGED <<bld, heap>>

Has(params, key, v) == key \in DOMAIN params /\ params[key] = v

\* A class for nvmf gets a timeout if none was set.
ScBuild ==
  /\ bld' = IF /\ ~bld["sc"].errs
               /\ Has(bld["sc"].obj.params, "protocol", "nvmf")
               /\ "ioTimeout" \notin DOMAIN bld["sc"].obj.params
            THEN [bld EXCEPT !["sc"].obj.params = ("ioTimeout" :> 30) @@ @] ELSE bld
  /\ Built("sc")

-----------------------------------------------------------------------------
(* Sequences of calls                                                      *)

\* A call on builder n; good: none of its arguments is missing or broken.
With(n, good) ==
  /\ nth < MaxBuilderCalls /\ ~panicked
  /\ nth' = nth + 1
  /\ tainted' = IF good THEN tainted ELSE tainted \cup {n}
  /\ UNCHANGED <<using, built, panicked>>

BuildCall ==
  /\ nth < MaxBuilderCalls /\ ~panicked
  /\ nth' = nth + 1
  /\ UNCHANGED <<using, tainted, panicked>>

ContainerCall ==
  \/ \E given \in BOOLEAN :
       /\ using \in {"container", "deployment"}
       /\ With("container", given) /\ ContainerWithName(given)
  \/ /\ using = "container"
     /\ \E given \in BOOLEAN :
          /\ With("container", given)
          /\ \/ ContainerWithImage(given) \/ ContainerWithCommandNew(given)
             \/ ContainerWithArgumentsNew(given) \/ ContainerWithVolumeMountsNew(given)
             \/ ContainerWithVolumeDevices(given) \/ ContainerWithImagePullPolicy(given)
             \/ ContainerWithPrivilegedSecurityContext(given) \/ ContainerWithResources(given)
             \/ ContainerWithPortsNew(given) \/ ContainerWithLivenessProbe(given)
             \/ ContainerWithLifeCycle(given)
  \/ /\ using = "container"
     /\ \E n \in 0..1 : With("container", n > 0) /\ (ContainerWithEnvsNew(n) \/ ContainerWithEnvs(n))
  \/ using = "container" /\ With("container", TRUE) /\ ContainerWithResourcesByValue
  \/ using = "container" /\ BuildCall /\ ContainerBuild

VolumeCall ==
  \/ \E given \in BOOLEAN :
       /\ using \in {"volume", "deployment"}
       /\ With("volume", given) /\ VolumeWithName(given)
  \/ /\ using = "volume"
     /\ \E given \in BOOLEAN :
          /\ With("volume", given)
          /\ VolumeWithHostDirectory(given) \/ VolumeWithPVCSource(given) \/ VolumeWithEmptyDir(given)
  \/ /\ using = "volume"
     /\ \E given \in BOOLEAN, mode \in 0..1 :
          /\ With("volume", given /\ mode # 0)
          /\ VolumeWithSecret(given, mode) \/ VolumeWithConfigMap(given, mode)
  \/ /\ using = "volume"
     /\ \E path, type \in BOOLEAN :
          With("volume", path /\ type) /\ VolumeWithHostPathAndType(path, type)
  \/ using = "volume" /\ BuildCall /\ VolumeBuild

TemplateCall ==
  /\ using = "deployment"
  /\ \/ \E given \in BOOLEAN :
          /\ With("template", given)
          /\ \/ TemplateWithName(given) \/ TemplateWithNamespace(given)
             \/ TemplateWithServiceAccountName(given) \/ TemplateWithAffinity(given)
     \/ \E m \in Maps :
          /\ With("template", heap[m] # {})
          /\ \/ TemplateWithAnnotations(m) \/ TemplateWithAnnotationsNew(m)
             \/ TemplateWithLabels(m) \/ TemplateWithLabelsNew(m)
             \/ TemplateWithNodeSelector(m) \/ TemplateWithNodeSelectorNew(m)
     \/ \E m \in Maps : With("template", TRUE) /\ TemplateWithNodeSelectorByValue(m)
     \/ \E n \in 0..1 :
          /\ With("template", n > 0)
          /\ TemplateWithTolerations(n) \/ TemplateWithTolerationsNew(n)
     \/ With("template", TRUE) /\ (TemplateWithTolerationsByValue(1) \/ TemplateWithPriorityClassName)
     \/ \E n \in 0..1, broken \in BOOLEAN :
          /\ With("template", n > 0 /\ ~broken /\ "container" \notin tainted)
          /\ TemplateWithContainerBuilders(n, broken) \/ TemplateWithContainerBuildersNew(n, broken)
     \/ \E n \in 0..1, broken \in BOOLEAN :
          /\ With("template", n > 0 /\ ~broken /\ "volume" \notin tainted)
          /\ TemplateWithVolumeBuilders(n, broken) \/ TemplateWithVolumeBuildersNew(n, broken)
     \/ BuildCall /\ TemplateBuild

DeploymentCall ==
  /\ using = "deployment"
  /\ \/ \E given \in BOOLEAN :
          /\ With("deployment", given)
          /\ DeploymentWithName(given) \/ DeploymentWithNamespace(given)
     \/ \E m \in Maps :
          /\ With("deployment", heap[m] # {})
          /\ \/ DeploymentWithLabelsNew(m)
             \/ DeploymentWithSelectorMatchLabels(m) \/ DeploymentWithSelectorMatchLabelsNew(m)
             \/ DeploymentWithNodeSelector(m) \/ DeploymentWithNodeSelectorNew(m)
     \/ \E n \in {Nil, -1, 0, 1} :
          With("deployment", n \notin {Nil, -1}) /\ DeploymentWithReplicas(n)
     \/ \E given \in BOOLEAN :
          /\ With("deployment", given /\ "template" \notin tainted)
          /\ DeploymentWithPodTemplateSpecBuilder(given)
     \/ BuildCall /\ DeploymentBuild

PodCall ==
  /\ using = "pod"
  /\ \E p \in {"pod1", "pod2"} :
       \/ \E given \in BOOLEAN :
            /\ With(p, given)
            /\ \/ PodWithName(p, given) \/ PodWithNamespace(p, given) \/ PodWithNodeName(p, given)
               \/ PodWithNodeSelectorHostnameNew(p, given) \/ PodWithServiceAccountName(p, given)
               \/ PodWithVolumes(p, given)
               \/ PodWithVolumeMounts(p, given) \/ PodWithVolumeDevices(p, given)
       \/ /\ With(p, TRUE)
          /\ \/ PodWithVolume(p) \/ PodWithRestartPolicy(p) \/ PodWithAppLabel(p) \/ PodWithContainer(p)
             \/ \E values \in {<<TRUE>>, <<FALSE>>} : PodWithTolerationsForTaints(p, values)
             \/ \E raw \in BOOLEAN : PodWithVolumeDeviceOrMount(p, raw)
       \/ \E m \in Maps : With(p, heap[m] # {}) /\ PodWithLabels(p, m)
       \/ \E s \in CallerSlices \cup {Empty} : With(p, heap[s] # {}) /\ PodWithContainers(p, s)
       \/ /\ nth < MaxBuilderCalls /\ ~panicked /\ PodPanics(p)
          /\ panicked' = TRUE /\ nth' = nth + 1
          /\ UNCHANGED <<using, built, tainted>>
       \/ \E hostNetwork \in BOOLEAN : BuildCall /\ PodBuild(p, hostNetwork)

ScCall ==
  /\ using = "sc"
  /\ \/ \E given \in BOOLEAN :
          With("sc", given) /\ (ScWithName(given) \/ ScWithNamespace(given) \/ ScWithProvisioner(given))
     \/ \E m \in Maps : With("sc", heap[m] # {}) /\ ScWithAnnotations(m)
     \/ \E n \in 0..2 : With("sc", n # 0) /\ ScWithReplicas(n)
     \/ /\ With("sc", TRUE)
        /\ \/ ScWithGenerateName
           \/ \E type \in {"none", "xfs"} : ScWithFileSystemType(type)
           \/ \E proto \in {"nvmf", "iscsi"} : ScWithProtocol(proto)
           \/ \E value \in BOOLEAN : ScWithLocal(value)
           \/ \E n \in {0, 60} : ScWithIOTimeout(n)
           \/ \E given \in BOOLEAN : ScWithVolumeBindingMode(given)
     \/ BuildCall /\ ScBuild

BuildersNext ==
  ContainerCall \/ VolumeCall \/ TemplateCall \/ DeploymentCall \/ PodCall \/ ScCall

BuildersSpec == using \in Parts /\ BuildersInit /\ [][BuildersNext]_bvars

-----------------------------------------------------------------------------
(* Properties                                                              *)

\* Addresses lead to maps, errors and results are of their kinds, and the
\* number of a deployment's replicas is nil or at least 0.
BuildersTypeOK ==
  /\ nth \in Nat /\ panicked \in BOOLEAN
  /\ tainted \subseteq BuilderNames
  /\ built \in [BuilderNames -> {"no", "error", "object"}]
  /\ \A n \in BuilderNames : bld[n].errs \in BOOLEAN
  /\ bld["deployment"].obj.replicas \in {Nil} \cup Nat
  /\ {bld["template"].obj.labels, bld["template"].obj.nodeSelector,
      bld["deployment"].obj.template.nodeSelector, bld["deployment"].obj.selector,
      bld["pod1"].obj.containers} \subseteq DOMAIN heap \cup {Nil}

\* Build returns an object exactly when nothing was missing in any call on the
\* builder, nor on a container, volume or template builder at the time it was
\* handed over: no later call clears an error, and none gets lost on the way
\* from a container through its template to the deployment.
BuildRefusesTheIncomplete ==
  [][\A n \in BuilderNames : built'[n] # built[n] => (built'[n] = "error") = (n \in tainted)]_bvars

\* A caller's map is changed by no call, but by DeploymentBuilder.WithNodeSelector
\* once WithNodeSelectorNew has been given that map (util_deploy.go:158 does not
\* copy it, unlike every other call that later calls merge into).
CallersMapsKept ==
  [][\A m \in CallerMaps :
       heap'[m] # heap[m] => bld["deployment"].obj.template.nodeSelector = m]_bvars

\* What the maps of an object hold may grow by calls on another builder, since
\* a deployment shares the maps of its template; but they lose no entry, and
\* nothing but maps is shared with a template (a ...New call makes a new map).
OnlyMergesAreShared ==
  [][\A n \in BuilderNames, a \in DOMAIN heap :
       /\ bld'[n] = bld[n] => Keys(heap[a]) \subseteq Keys(heap'[a])
       /\ n = "deployment" /\ bld'["template"] # bld["template"] => bld'[n] = bld[n]]_bvars

\* A volume has one source, or one and an empty directory that was set later.
OneSource == Cardinality(bld["volume"].obj.sources \ {"emptyDir"}) <= 1

\* Two pods share a slice of containers, so that mounts given to the one appear
\* in the other, only if WithContainers got the caller's slice for both.
PodsApart ==
  LET s == bld["pod1"].obj.containers IN
    s # Nil /\ s = bld["pod2"].obj.containers => s \in CallerSlices

\* A storage class for nvmf leaves Build with a timeout, and with the one that
\* was set, if there was one, also when Build is called more than once.
NvmfHasTimeout ==
  [][built'["sc"] = "object" /\ built["sc"] # "object" =>
       LET old == bld["sc"].obj.params  new == bld'["sc"].obj.params IN
         /\ Has(new, "protocol", "nvmf") => "ioTimeout" \in DOMAIN new
         /\ \A k \in DOMAIN old : new[k] = old[k]]_bvars

\* Objects and the maps and slices of the callers stay apart, whatever the
\* order of the calls, but for what the comments above allow.
ObjectsStayApart ==
  CallersMapsKept /\ OnlyMergesAreShared /\ [](BuildersTypeOK /\ OneSource /\ PodsApart) /\ NvmfHasTimeout
=============================================================================
