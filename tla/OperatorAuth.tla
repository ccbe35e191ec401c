---------------------------- MODULE OperatorAuth ----------------------------
(***************************************************************************)
(* The bearer token that guards the operator endpoints of the router and   *)
(* the appends of the ledger service (auth.go).  An Authorization header   *)
(* is [scheme, value]; the comparison in constant time is an equality.     *)
(***************************************************************************)
CONSTANT OperatorToken    \* VOSS_OPERATOR_TOKEN; "" when unset

\* Mutant of Authorized: any scheme.
AuthorizedByValue(h) == OperatorToken # "" /\ h.value = OperatorToken

(* OperatorAuth.Authorized: an unset token authorizes no one. *)
Authorized(h) ==
    /\ OperatorToken # ""
    /\ h.scheme = "Bearer"
    /\ h.value = OperatorToken
=============================================================================
