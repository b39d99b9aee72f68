CONSTANTS
    Rules = {r1}
    Handlers = {h1}
    Executions = {x1}
    Host = Host
    c1 = c1
    c2 = c2
    Containers = {c1, c2}
    Values = {0, 1}
    Configs <- ContainerConfigs
    Payloads <- ContainerPayloads
    Cooldown = 1
    None = None
    MaxTime = 2
    MaxCrashes = 1
    MaxRefusals = 1
SPECIFICATION FairSpec
INVARIANTS CooldownHolds NoticesAccounted
PROPERTIES SettledEventsClose
