--------------------------- MODULE ConfigSelector ---------------------------
(***************************************************************************)
(* How the node controller chooses a MIG configuration and which GPUs it   *)
(* takes to be affected (internal/controllers/config_selector.go, getConfig *)
(* and getReconfigGPU of node_controller.go).  Pure operators over the     *)
(* parsed mig-parted file.                                                 *)
(***************************************************************************)
EXTENDS Naturals, Integers, Sequences, FiniteSets

CONSTANTS
    GPUs,        \* device indices of a node
    Slices,      \* MIG slice kinds (1g.5gb, 2g.10gb, ...)
    MigConfigs   \* profile name -> sequence of [devices, migDevices]

ConfigNames == DOMAIN MigConfigs

\* A map indexed with a missing key yields zero.
Cnt(migDevices, slice) == IF slice \in DOMAIN migDevices THEN migDevices[slice] ELSE 0

\* The device configs of a profile that name GPU d.
Naming(name, d) ==
    {i \in DOMAIN MigConfigs[name] : \E j \in DOMAIN MigConfigs[name][i].devices :
                                        MigConfigs[name][i].devices[j] = d}

\* GPU -> its slices, for the GPUs a profile names; the last device config
\* naming a GPU wins.
Layouts ==
    [name \in ConfigNames |->
        [d \in {e \in GPUs : Naming(name, e) # {}} |->
            MigConfigs[name][CHOOSE i \in Naming(name, d) :
                                \A j \in Naming(name, d) : j <= i].migDevices]]

\* A name that is not in the file, such as that of an unlabelled node, has no GPUs.
getConfig(name) == IF name \in ConfigNames THEN Layouts[name] ELSE [d \in {} |-> <<>>]

\* The slices of one kind a configuration gives to a GPU.
SlicesOf(name, d, slice) ==
    IF d \in DOMAIN getConfig(name) THEN Cnt(getConfig(name)[d], slice) ELSE 0

\* Faulty variant: only a shrinking number of slices counts as a change.
getReconfigGPUShrinking(oldName, newName) ==
    {d \in DOMAIN getConfig(newName) :
        \E s \in DOMAIN getConfig(newName)[d] :
            getConfig(newName)[d][s] < SlicesOf(oldName, d, s)}

\* The GPUs that will be reconfigured.  Only the keys of the new configuration
\* are compared: a kind of slice that merely disappears goes unnoticed.
getReconfigGPU(oldName, newName) ==
    {d \in DOMAIN getConfig(newName) :
        \E s \in DOMAIN getConfig(newName)[d] :
            getConfig(newName)[d][s] # SlicesOf(oldName, d, s)}

\* The slices of one kind in a profile: per device config, the number on one
\* device times the length of its device list.
Capacities ==
    [name \in ConfigNames |->
        [slice \in Slices |->
            Cardinality(UNION {{<<i, j, m>> : j \in DOMAIN MigConfigs[name][i].devices,
                                              m \in 1..Cnt(MigConfigs[name][i].migDevices, slice)}
                               : i \in DOMAIN MigConfigs[name]})]]

\* The profiles that hold every requested number of slices.
getBestConfigFilter(request) ==
    {c \in ConfigNames : \A s \in DOMAIN request : Capacities[c][s] >= request[s]}

\* Faulty variant: the pods on a GPU do not count.
getBestConfigScoreFlat(name, podLocation, curConfig) == 0

\* Minus the entries of podLocation, the GPU ids the pods are labelled with,
\* that lie on a GPU to be reconfigured: podLocation is a set of
\* <<pod, position, GPU>>, for a pod is listed once per slice it holds.
getBestConfigScore(name, podLocation, curConfig) ==
    -Cardinality({e \in podLocation : e[3] \in getReconfigGPU(curConfig, name)})

\* The loop over the score map keeps the first maximum it meets, and Go visits
\* a map in any order: any best candidate.  Empty: "Config not found."
getBestConfig(request, podLocation, curConfig) ==
    LET candidates == getBestConfigFilter(request)
    IN  {c \in candidates : \A d \in candidates :
            getBestConfigScore(c, podLocation, curConfig)
                >= getBestConfigScore(d, podLocation, curConfig)}

-----------------------------------------------------------------------------
(* What the deployed file (custom-mig-parted-config.yaml) satisfies and the  *)
(* comparison above relies on.                                               *)

\* The profiles that can serve a request at all.
Profiles == {c \in ConfigNames : \E s \in Slices : Capacities[c][s] > 0}

\* No layout of a GPU is a proper part of another one's layout of the GPU.
NoLayoutContained ==
    \A old \in ConfigNames, new \in Profiles :
        \A d \in DOMAIN getConfig(old) \cap DOMAIN getConfig(new) :
            (\A s \in DOMAIN getConfig(new)[d] : getConfig(new)[d][s] = SlicesOf(old, d, s))
                => \A s \in Slices : SlicesOf(new, d, s) = SlicesOf(old, d, s)

\* A profile leaves no GPU it names without slices.
NoEmptyLayout ==
    \A c \in Profiles : \A d \in DOMAIN getConfig(c) :
        \E s \in DOMAIN getConfig(c)[d] : getConfig(c)[d][s] # 0

\* The counts of slices are naturals.
CountsAreNatural ==
    \A c \in ConfigNames, s \in Slices :
        /\ \A d \in DOMAIN Layouts[c] : Cnt(Layouts[c][d], s) \in Nat
        /\ Capacities[c][s] \in Nat

\* A profile names GPUs of the node, each of them once.
NamedOnce ==
    \A c \in ConfigNames : \A i, k \in DOMAIN MigConfigs[c] :
        \A j \in DOMAIN MigConfigs[c][i].devices, l \in DOMAIN MigConfigs[c][k].devices :
            /\ MigConfigs[c][i].devices[j] \in GPUs
            /\ MigConfigs[c][i].devices[j] = MigConfigs[c][k].devices[l] => i = k /\ j = l

\* The slices named in the file are known kinds.
KnownSlices ==
    \A c \in ConfigNames : \A d \in DOMAIN Layouts[c] : DOMAIN Layouts[c][d] \subseteq Slices
=============================================================================
