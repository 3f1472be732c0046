--------------------------- MODULE MCReconfigPlan ---------------------------
(* Instances of ReconfigPlan for TLC. *)
EXTENDS ReconfigPlan, TLC

CONSTANTS p1, p2, p3, p4

SliceKinds == {"1g.5gb", "2g.10gb", "3g.20gb"}

Mixed == ("2g.10gb" :> 2) @@ ("3g.20gb" :> 1)
Small == ("1g.5gb" :> 1) @@ ("2g.10gb" :> 3)
NoSlices == [s \in {} |-> 0]
Devices(ds, mig) == [devices |-> ds, migDevices |-> mig]

\* custom-mig-parted-config.yaml, on a node with two GPUs ...
DeployedFile ==
    ("profile-0-2-1-0-0" :> <<Devices(<<1>>, Mixed)>>) @@
    ("profile-1-3-0-0-0" :> <<Devices(<<1>>, Small)>>) @@
    ("all-disabled" :> <<Devices(<<0, 1>>, NoSlices)>>) @@
    ("all-enabled" :> <<Devices(<<0, 1>>, NoSlices)>>)

\* ... with profiles for both GPUs, one of them with two device configs.
ExtendedFile ==
    ("both-mixed" :> <<Devices(<<0, 1>>, Mixed)>>) @@
    ("mixed-small" :> <<Devices(<<0>>, Mixed), Devices(<<1>>, Small)>>) @@
    DeployedFile

KindOf ==
    (p1 :> "2g.10gb") @@ (p2 :> "3g.20gb") @@ (p3 :> "3g.20gb") @@ (p4 :> "1g.5gb")
QuantityOf == [p \in Pods |-> IF p = p1 THEN 3 ELSE 1]
=============================================================================
