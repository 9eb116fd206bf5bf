-------------------------- MODULE MCDeviceSettings --------------------------
(***************************************************************************)
(* Instances of DeviceSettings for TLC.                                    *)
(***************************************************************************)
EXTENDS DeviceSettings

CONSTANTS d1, d2, gpio, meta, typo, a, b

\* A map with a key the agent knows and one it reserves.
Holds(v) == [k \in {gpio, meta} |-> v]

\* The deployments of one device agree.
Wants(port, map) == [d \in Deployment |-> [port |-> port, map |-> map]]

AgreedWishes == {Wants(1, Holds(a)), Wants(2, Holds(a)), Wants(2, Holds(b)),
                 Wants(2, NoMap)}

\* A map with a key that the agent does not know.
MistypedWishes == {Wants(1, [k \in {gpio, typo} |-> a])}
=============================================================================
