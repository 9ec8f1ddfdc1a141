\* Both agents over the patched runtime: installs, removals, logins, builds and
\* runs by hand, an upgrade, kills.
SPECIFICATION FairSpec
CONSTANTS
    agent = agent
    operator = operator
    Agent = agent
    Operator = operator
    Procs <- Both
    MaxVersion = 2
    MaxCrashes = 2
    MaxOpened = 2
INVARIANTS
    ReportedIsSo
    LaunchedIsPatched
    
PROPERTIES
    InstalledAgentRuns
CHECK_DEADLOCK TRUE
