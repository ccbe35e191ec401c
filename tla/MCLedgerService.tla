-------------------------- MODULE MCLedgerService ---------------------------
(* Small instances of the ledger service. *)
EXTENDS LedgerServiceProperties, TLC

MCHeaders == {[scheme |-> "Bearer", value |-> "token"], [scheme |-> "Basic", value |-> "token"]}

(* Goroutines are interchangeable. *)
AppenderSymmetry == Permutations(Appenders)
=============================================================================
