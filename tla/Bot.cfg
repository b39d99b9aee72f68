CONSTANTS
    anna = anna
    boris = boris
    s1 = s1
    s2 = s2
    s3 = s3
    Users = {anna, boris}
    Servers = {s1, s2, s3}
    Owner <- MCOwner
    Linked = anna
    RuleServer = s1
    NoServer = NoServer
    Scenarios <- MCScenarios
    MaxInbox = 2
    MaxFaults = 1
SPECIFICATION FairSpec
INVARIANTS
    TypeOK DeletedAsAsked ToggledAsAsked RulesHaveOwners
PROPERTIES UpdatesAreHandled
