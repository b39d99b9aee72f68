CONSTANTS
    Rules = {r1, r2}
    Handlers = {h1, h2}
    Executions = {x1, x2}
    Host = Host
    c1 = c1
    c2 = c2
    Containers = {}
    Values = {0, 1}
    Configs <- HostConfigs
    Payloads <- HostPayloads
    Cooldown = 2
    None = None
    MaxTime = 2
    MaxCrashes = 0
    MaxRefusals = 0
SYMMETRY Interchangeable
SPECIFICATION Spec
INVARIANTS TypeOK EventsHaveRules ClosedOnFresherSample
PROPERTIES KeepsPromise
