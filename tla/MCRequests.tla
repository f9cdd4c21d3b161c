----------------------------- MODULE MCRequests -----------------------------
(***************************************************************************)
(* Requests for TLC: one route of each kind, and the bodies that the audit *)
(* middleware may sanitize.                                                *)
(***************************************************************************)
EXTENDS Requests

CONSTANTS r1, r2

RequestsModel == {r1, r2}
JobsModel == {"entry", "mail"} \X RequestsModel
OfferedModel == {"registerUser", "updateUser", "adminResetPassword", "lockUser", "createWallet"}
NamesModel == {<<"new", "password">>, <<"email">>}
=============================================================================
