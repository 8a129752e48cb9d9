---------------------------- MODULE MCMobileLoop ----------------------------
(* Small instances of MobileLoop for TLC. *)
EXTENDS MobileLoop

\* The cuts of the clock that leave both of the windows
\* (ResetGap ahead, BackGap behind) in which a cut looks like normal running.
ClearJumps == (ResetGap + 1) .. (Half - BackGap - 1)
=============================================================================
