CONSTANTS
    Rules = {r1}
    Handlers = {h1}
    Executions = {x1}
    Host = Host
    c1 = c1
    c2 = c2
    Containers = {c1, c2}
    Values = {0, 1}
    Configs <- ContainerConfigs
    Payloads <- ContainerPayloads
    Cooldown = 2
    None = None
    MaxTime = 3
    MaxCrashes = 0
    MaxRefusals = 0
SPECIFICATION Spec
PROPERTIES AppliesToEveryContainer
