SPECIFICATION Spec
CONSTANTS
    NoBlock = NoBlock
    OnPath = {}
    Lower <- MCLower
    HostFacts = {"user", "cwd"}
    Dangerous = {"!"}
    Blank = {""}
    Carries <- MCCarries
    MaxMatrixRows = 5
    Invocations <- MCInvocations
INVARIANTS
    ReadyMeansRunnable
    CirclesAreFound
    DangerIsAnsweredFor
    PlanIsExact
    BindingReachesTheCommands
CHECK_DEADLOCK FALSE
