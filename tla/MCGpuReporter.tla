---------------------------- MODULE MCGpuReporter ----------------------------
(* Instances of GpuReporter for TLC: the deployed profiles on two GPUs. *)
EXTENDS GpuReporter, TLC

CONSTANTS p1, p2, g1, g2

MCKindOf == (p1 :> 3) @@ (p2 :> 2)

MCGivenTo == (p1 :> {g1, g2}) @@ (p2 :> {g2})

DeviceConfig(mig) == [devices |-> 2, mig |-> mig]

MCMigConfigs ==
    ("profile-0-2-1-0-0" :> <<DeviceConfig((2 :> 2) @@ (3 :> 1))>>) @@
    ("profile-1-3-0-0-0" :> <<DeviceConfig((1 :> 1) @@ (2 :> 3))>>) @@
    ("all-enabled" :> <<[devices |-> 4, mig |-> <<>>]>>)
=============================================================================
