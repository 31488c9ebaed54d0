----------------------------- MODULE MCExecEnv -----------------------------
(* One application process of a job launched with Spindle, exec'ing one  *)
(* target of each kind by every wrapper.                                  *)
EXTENDS ExecEnv, TLC

CONSTANTS tBinary, tScript, tBadScript, tUnreadable, tVanished, tMissing,
          tNoExec, tDir, tBareFiltered

MCTargets == {tBinary, tScript, tBadScript, tUnreadable, tVanished, tMissing,
              tNoExec, tDir, tBareFiltered}

MCKind == (tBinary :> "binary") @@ (tScript :> "script") @@ (tBadScript :> "badscript")
          @@ (tUnreadable :> "unreadable") @@ (tVanished :> "vanished")
          @@ (tMissing :> "missing") @@ (tNoExec :> "noexec") @@ (tDir :> "dir")
          @@ (tBareFiltered :> "binary")

\* Only the bare name is looked up on PATH; the filter excludes it too.
MCBare == [t \in MCTargets |-> t = tBareFiltered]
MCRedirect == [t \in MCTargets |-> t # tBareFiltered]

MCEnvVars == SpindleVars \cup BootstrapVars(TRUE) \cup {"LD_LIBRARY_PATH", "SPINDLE_EXEC_TEST"}
MCAppVars == {"SPINDLE", "SPINDLE_EXEC_TEST"}

MCValuesOff  == {"true", "false", "FALSE"}
MCValuesZeroFalse == {"true", "0", "false"}
=============================================================================
