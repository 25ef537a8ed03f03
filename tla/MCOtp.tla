------------------------------- MODULE MCOtp -------------------------------
(***************************************************************************)
(* Small instances of Otp for TLC: a few windows in the relations that      *)
(* stacking looks at, and per run the operations that interact there.       *)
(***************************************************************************)
EXTENDS Otp, TLC

CONSTANTS main, dialog, other, third, icon

\* Relations between the windows.
NoTransients == [w \in Win |-> None]
DialogOfMain == (dialog :> main) @@ NoTransients
OtherDialogOfMain == (other :> main) @@ NoTransients
TwoDialogsOfMain == (third :> main) @@ DialogOfMain

NoGroups == [w \in Win |-> None]
GroupOfMain == [w \in Win |-> main]

AllNormal == [w \in Win |-> "normal"]
OtherIsDock == (other :> "dock") @@ AllNormal

NoIcons == [i \in {} |-> None]
IconOfMain == icon :> main

\* The configuration: everything starts at OTP_ZERO but for the lists.
DefaultZero == [k \in {"win", "icon"} |-> OTP_ZERO]
NoSwitching == [k \in {"win", "icon"} |-> FALSE]

NoPref == [pri |-> None, switch |-> FALSE]
NoPrefs == {NoPref}
DockPrefs == {NoPref, [pri |-> OTP_ZERO + EWMH_PRI_DOCK, switch |-> FALSE]}
SwitchingPrefs == {NoPref, [pri |-> OTP_ZERO - 1, switch |-> TRUE]}

\* The user's arguments.  A delta of OTP_MAX reaches either end of the range.
Zero == {0}
One == {1}
ZeroAndInvalid == {0, OTP_ZERO + 1}
Extremes == {-OTP_MAX, OTP_MAX}

=============================================================================
