------------------------------- MODULE Ledger -------------------------------
(***************************************************************************)
(* The router's in-memory hash-chained ledger (ledger.go).  Every          *)
(* operation holds the ledger's mutex, so each is one step.  An entry's    *)
(* body is what the writer supplies.                                       *)
(***************************************************************************)
EXTENDS Chain

VARIABLES
    entries,    \* Ledger.entries
    lastHash,   \* Ledger.lastHash
    nextIdx     \* Ledger.nextIdx

ledgerVars == <<entries, lastHash, nextIdx>>

LedgerInit ==
    /\ entries = << >>
    /\ lastHash = Genesis
    /\ nextIdx = 0

\* Mutant of NextEntry: every entry starts a chain of its own.
UnchainedEntry(body) ==
    [index |-> nextIdx, body |-> body, prevHash |-> Genesis, hash |-> hashEntry(nextIdx, body)]

NextEntry(body) ==
    [index |-> nextIdx, body |-> body, prevHash |-> lastHash,
     hash |-> hashEntry(nextIdx, body)]

\* Mutant of AppendEntry: a window of the latest three entries.
AppendToWindow(body) ==
    /\ entries' = Append(IF Len(entries) < 3 THEN entries ELSE Tail(entries), NextEntry(body))
    /\ lastHash' = NextEntry(body).hash
    /\ nextIdx' = nextIdx + 1

AppendEntry(body) ==
    /\ entries' = Append(entries, NextEntry(body))
    /\ lastHash' = NextEntry(body).hash
    /\ nextIdx' = nextIdx + 1

Verify == VerifyExport(entries)

(* GenerateCER certifies the first entry that carries the decision id: its *)
(* position, or 0.                                                         *)
GenerateCER(id) ==
    LET At == {i \in 1..Len(entries) : entries[i].body.id = id}
    IN  IF At = {} THEN 0 ELSE CHOOSE i \in At : \A j \in At : i <= j

-----------------------------------------------------------------------------
(* Faults the code's own tests inject behind the ledger's back: an entry   *)
(* appended without the chain's bookkeeping (chaos_test.go) and an entry   *)
(* whose stored hash is overwritten (ledger_test.go).                      *)

Forge(body) ==
    /\ entries' = Append(entries, [index |-> 0, body |-> body,
                                   prevHash |-> <<"attacker">>, hash |-> <<"">>])
    /\ nextIdx' = nextIdx + 1
    /\ UNCHANGED lastHash

Tamper(i) ==
    /\ i \in 1..Len(entries)
    /\ entries' = [entries EXCEPT ![i].hash = <<"tampered">>]
    /\ UNCHANGED <<lastHash, nextIdx>>
=============================================================================
