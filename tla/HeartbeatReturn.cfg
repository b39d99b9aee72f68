CONSTANTS
    Servers = {s1}
    Requests = {q1}
    Runs = {h1}
    Timeout = 1
    None = None
    MaxTime = 3
    MaxCrashes = 0
SPECIFICATION AgentFairSpec
PROPERTIES ReturnsWhenMetricsResume
