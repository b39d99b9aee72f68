------------------------------ MODULE MCAlerts ------------------------------
(***************************************************************************)
(* Alerts on small instances.                                              *)
(***************************************************************************)
EXTENDS Alerts, TLC

CONSTANTS c1, c2

Setting(kind, container, limit, active, channels) ==
    [kind |-> kind, container |-> container, field |-> "value", op |-> "gt",
     limit |-> limit, active |-> active, channels |-> channels]

\* Rules on the host.
HostConfigs == {Setting("system", None, 0, TRUE, {"telegram", "email"})}

HostPayloads == {<<[src |-> Host, val |-> v]>> : v \in {0, 1}}

\* A rule for every container, on both channels; or switched off, for one container and
\* on no channel.
ContainerConfigs ==
    {Setting("docker", None, 0, TRUE, {"telegram", "email"}),
     Setting("docker", c1, 0, FALSE, {})}

ContainerPayloads ==
    {<<[src |-> c1, val |-> v], [src |-> c2, val |-> w]>> : v, w \in {0, 1}}

\* Safety runs only.
Interchangeable ==
    Permutations(Handlers) \cup Permutations(Rules) \cup Permutations(Executions)
=============================================================================
