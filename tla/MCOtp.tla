------------------------------- MODULE MCOtp -------------------------------
(***************************************************************************)
(* Otp, and with it Lockout, for TLC.  Calls are alike.                    *)
(***************************************************************************)
EXTENDS Otp, TLC

CallSymmetry == Permutations(Calls)
=============================================================================
