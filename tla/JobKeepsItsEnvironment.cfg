SPECIFICATION Spec
CONSTANTS
    NoBlock = NoBlock
    OnPath = {}
    Lower <- MCLower
    HostFacts = {"user", "cwd"}
    Dangerous = {"!"}
    Blank = {""}
    Carries <- MCCarries
    MaxMatrixRows = 5
    Invocations <- MCInvocations
INVARIANT
    JobKeepsItsEnvironment
CHECK_DEADLOCK FALSE
