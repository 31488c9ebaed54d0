CONSTANTS
    OtherValue = OtherValue
    Unset = Unset
    NoEnvp = NoEnvp
    NoExec = NoExec
    tBinary = tBinary
    tScript = tScript
    tBadScript = tBadScript
    tUnreadable = tUnreadable
    tVanished = tVanished
    tMissing = tMissing
    tNoExec = tNoExec
    tDir = tDir
    tBareFiltered = tBareFiltered
    Targets <- MCTargets
    Kind <- MCKind
    Bare <- MCBare
    Redirect <- MCRedirect
    EnvVars <- MCEnvVars
    AppVars <- MCAppVars
    SpindleValues <- MCValuesOff
    UseLdcs = TRUE
    RemapExec = FALSE
INIT Init
NEXT Next
INVARIANTS TypeOK ExecOutcomeNative SpindleOffHonoured
