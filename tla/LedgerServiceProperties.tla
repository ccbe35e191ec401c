---------------------- MODULE LedgerServiceProperties -----------------------
(***************************************************************************)
(* What the ledger service promises: docs/runbooks/ledger-recovery.md and  *)
(* the acceptance criteria of IMPLEMENTATION_PLAN.md.                      *)
(***************************************************************************)
EXTENDS LedgerService

HashValues == {Genesis, Tampered, << >>} \cup (Nat \X Appenders)

LedgerEntries ==
    [index : Nat, body : Appenders, prevHash : HashValues, hash : HashValues]

FileStates == [status : {"whole", "torn", "absent"}, es : Seq(LedgerEntries)]

(* Every variable of the ledger service stays within its type.             *)
ServiceTypeOK ==
    /\ up \in BOOLEAN
    /\ store \in Seq(LedgerEntries)
    /\ file \in FileStates
    /\ apc \in [Appenders -> AppendPCs]
    /\ entry \in [Appenders -> LedgerEntries]
    /\ copy \in [Appenders -> Seq(LedgerEntries)]
    /\ acked \subseteq LedgerEntries
    /\ overlapped \in BOOLEAN
    /\ behind \in BOOLEAN
    /\ lost \in BOOLEAN
    /\ found \in {"whole", "torn", "absent"}

Damaged(es) == \E i \in DOMAIN es : es[i].hash = Tampered
Gapless(es) == \A i \in DOMAIN es : es[i].index = i - 1

(* As long as clients wait for one append before they send the next, the   *)
(* chain in memory and any ledger.json that parses can be verified after   *)
(* the process exits, wherever it crashed and whichever writes failed.     *)
SerialChain ==
    ~overlapped =>
        \A es \in {store, file.es} : Damaged(es) \/ (VerifyExport(es) /\ Gapless(es))

(* ... and an append that was acknowledged is in the ledger after any      *)
(* restart, unless a write failed, or was cut, before a crash: a failed    *)
(* write is made good by the next one.                                     *)
AcknowledgedKept ==
    up /\ ~overlapped /\ ~lost =>
        \A e \in acked : \E i \in DOMAIN store :
            /\ store[i].index = e.index /\ store[i].body = e.body
            /\ store[i].prevHash = e.prevHash

Broken(f) == f.status = "whole" /\ ~VerifyExport(f.es)

(* "Do not write new entries over a broken chain": a broken ledger.json is *)
(* neither extended nor replaced, across restarts.                         *)
BrokenFileKept ==
    [][Broken(file) /\ ~overlapped' =>
           Broken(file') /\ Len(file'.es) = Len(file.es)]_vars

-----------------------------------------------------------------------------
(* Claims of the repository that the code does not meet; each is refuted   *)
(* by a run of its own.                                                    *)

(* ledger-recovery.md: an append "refuses when the existing chain is       *)
(* invalid".                                                               *)
AppendRefusesBrokenChain == [][Len(store') > Len(store) => VerifyExport(store)]_vars

(* ledger-recovery.md: "recovery is explicit and audited, never an         *)
(* unnoticed overwrite": a file found damaged at start-up is not replaced. *)
DamagedFileIsKept == found = "torn" => file.status # "whole"
=============================================================================
