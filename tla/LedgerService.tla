--------------------------- MODULE LedgerService ----------------------------
(***************************************************************************)
(* The ledger service (VOSS_MODE=ledger: muxLedger and appendLedger in     *)
(* modes.go).  It keeps a chain in memory and a copy of it in ledger.json. *)
(* Despite its name ledgerMu has no lock: every read and write of the      *)
(* store is a step of its own, and the handlers of concurrent /append      *)
(* requests interleave between them.  The process may crash at any point,  *)
(* and os.WriteFile, which truncates the file before it writes, may fail.  *)
(* GET /export and GET /verify only read the store.                        *)
(***************************************************************************)
EXTENDS Chain, OperatorAuth

CONSTANTS
    Appenders,   \* goroutines serving /append, one request each
    Headers      \* the Authorization headers that may be presented

VARIABLES
    up,      \* the process runs
    store,   \* ledgerMu.store
    file,    \* ledger.json: [status, es]; es is what it parses to
    apc,     \* where each /append handler is
    entry,   \* the entry it builds
    copy     \* its private copy of the store: the slice append extends, or
             \* the one it has marshalled

(* History. *)
VARIABLES
    acked,       \* entries answered to their clients
    overlapped,  \* two appends have been in flight at once
    behind,      \* the last write failed or was cut short
    lost,        \* ... and the process then crashed
    found        \* the status of the file at the last start

memoryVars  == <<store, apc, entry, copy>>
historyVars == <<acked, overlapped, behind, lost, found>>
vars == <<up, file, memoryVars, historyVars>>

InFlight == {"verify", "tail", "index", "load", "commit", "marshal", "open",
              "write"}
AppendPCs == InFlight \cup {"idle", "answer", "done", "refused", "turned", "dead"}

(* An empty or cut-off JSON text does not parse. *)
Contents(status, es) == [status |-> status, es |-> es]

Whole(es) == Contents("whole", es)
Torn      == Contents("torn", << >>)
Absent    == Contents("absent", << >>)

(* The body stands for what client t sends and the time of its append,     *)
(* which appendLedger stamps into the entry: no two are equal.             *)
Decoded(t) == [index |-> 0, body |-> t, prevHash |-> << >>, hash |-> << >>]

Init ==
    /\ up = FALSE
    /\ store = << >>
    /\ file = Absent
    /\ apc = [t \in Appenders |-> "idle"]
    /\ entry = [t \in Appenders |-> Decoded(t)]
    /\ copy = [t \in Appenders |-> << >>]
    /\ acked = {}
    /\ overlapped = FALSE
    /\ behind = FALSE
    /\ lost = FALSE
    /\ found = "absent"

-----------------------------------------------------------------------------
(* The process. *)

\* Mutant of Start: the store begins empty.
StartEmpty ==
    /\ ~up
    /\ up' = TRUE
    /\ store' = << >>
    /\ found' = file.status
    /\ UNCHANGED <<file, apc, entry, copy, acked, overlapped, behind, lost>>

(* A file that cannot be read or parsed leaves the store empty. *)
Start ==
    /\ ~up
    /\ up' = TRUE
    /\ store' = IF file.status = "whole" THEN file.es ELSE << >>
    /\ found' = file.status
    /\ UNCHANGED <<file, apc, entry, copy, acked, overlapped, behind, lost>>

(* The memory and the handlers die; a file that is being written is torn. *)
Crash ==
    /\ up
    /\ up' = FALSE
    /\ store' = << >>
    /\ apc' = [t \in Appenders |-> IF apc[t] \in InFlight \cup {"answer"} THEN "dead" ELSE apc[t]]
    /\ lost' = (lost \/ behind \/ \E t \in Appenders : apc[t] = "write")
    /\ behind' = FALSE
    /\ UNCHANGED <<file, entry, copy, acked, overlapped, found>>

Tampered == <<"tampered">>

Damage(es, i) == [es EXCEPT ![i].hash = Tampered]

(* Damage on disk while the service is down, as ledger_test.go inflicts it *)
(* on a chain in memory.                                                   *)
Corrupt ==
    /\ ~up
    /\ \E i \in DOMAIN file.es : file' = Contents(file.status, Damage(file.es, i))
    /\ UNCHANGED <<up, memoryVars, historyVars>>

-----------------------------------------------------------------------------
(* POST /append. *)

Step(t, from, to) ==
    /\ up
    /\ apc[t] = from
    /\ apc' = [apc EXCEPT ![t] = to]

(* Authorization and decoding; the undecodable body is "turned" away too. *)
Arrive(t) ==
    /\ \E h \in Headers, decoded \in BOOLEAN :
          Step(t, "idle", IF Authorized(h) /\ decoded THEN "verify" ELSE "turned")
    /\ overlapped' = (overlapped \/ (apc'[t] = "verify" /\ \E u \in Appenders : apc[u] \in InFlight))
    /\ UNCHANGED <<up, store, file, entry, copy, acked, behind, lost, found>>

\* Mutant of VerifyStore: the chain is not verified.
SkipVerify(t) ==
    /\ Step(t, "verify", "tail")
    /\ UNCHANGED <<up, store, file, entry, copy, historyVars>>

(* "existing chain invalid, refusing append" *)
VerifyStore(t) ==
    /\ Step(t, "verify", IF VerifyExport(store) THEN "tail" ELSE "refused")
    /\ UNCHANGED <<up, store, file, entry, copy, historyVars>>

TailHash == IF store = << >> THEN Genesis ELSE store[Len(store)].hash

\* Mutant of ReadTail: the hash of the first entry.
ReadHead(t) ==
    /\ Step(t, "tail", "index")
    /\ entry' = [entry EXCEPT ![t].prevHash = IF store = << >> THEN Genesis ELSE store[1].hash]
    /\ UNCHANGED <<up, store, file, copy, historyVars>>

ReadTail(t) ==
    /\ Step(t, "tail", "index")
    /\ entry' = [entry EXCEPT ![t].prevHash = TailHash]
    /\ UNCHANGED <<up, store, file, copy, historyVars>>

ledgerHash(index, t) == hashEntry(index, t)

\* Mutant of ReadIndex: the index of the last entry, not of the next.
ReadLastIndex(t) ==
    /\ Step(t, "index", "load")
    /\ entry' = [entry EXCEPT ![t] = [@ EXCEPT !.index = Len(store) - 1,
                                         !.hash = ledgerHash(Len(store) - 1, t)]]
    /\ UNCHANGED <<up, store, file, copy, historyVars>>

ReadIndex(t) ==
    /\ Step(t, "index", "load")
    /\ entry' = [entry EXCEPT ![t] = [@ EXCEPT !.index = Len(store), !.hash = ledgerHash(Len(store), t)]]
    /\ UNCHANGED <<up, store, file, copy, historyVars>>

(* store = append(store, en): the slice is read, extended and stored. *)
LoadSlice(t) ==
    /\ Step(t, "load", "commit")
    /\ copy' = [copy EXCEPT ![t] = store]
    /\ UNCHANGED <<up, store, file, entry, historyVars>>

CommitSlice(t) ==
    /\ Step(t, "commit", "marshal")
    /\ store' = Append(copy[t], entry[t])
    /\ UNCHANGED <<up, file, entry, copy, historyVars>>

(* The store is read once more, to be marshalled. *)
MarshalIndent(t) ==
    /\ Step(t, "marshal", "open")
    /\ copy' = [copy EXCEPT ![t] = store]
    /\ UNCHANGED <<up, store, file, entry, historyVars>>

(* os.WriteFile opens and truncates the file, or fails to. *)
OpenFile(t) ==
    /\ \/ Step(t, "open", "write")  /\ file' = Torn   /\ UNCHANGED behind
       \/ Step(t, "open", "answer") /\ UNCHANGED file /\ behind' = TRUE
    /\ UNCHANGED <<up, store, entry, copy, acked, overlapped, lost, found>>

(* ... and writes it, or fails half-way, as it also may when another       *)
(* handler writes at the same time.  The error is ignored.                 *)
WriteFile(t) ==
    /\ Step(t, "write", "answer")
    /\ \/ file' = Whole(copy[t]) /\ behind' = FALSE
       \/ file' = Torn           /\ behind' = TRUE
    /\ UNCHANGED <<up, store, entry, copy, acked, overlapped, lost, found>>

Acknowledge(t) ==
    /\ Step(t, "answer", "done")
    /\ acked' = acked \cup {entry[t]}
    /\ UNCHANGED <<up, store, file, entry, copy, overlapped, behind, lost, found>>

AppendStep(t) ==
    \/ VerifyStore(t) \/ ReadTail(t)    \/ ReadIndex(t) \/ LoadSlice(t)
    \/ CommitSlice(t) \/ MarshalIndent(t) \/ OpenFile(t) \/ WriteFile(t) \/ Acknowledge(t)

Next ==
    \/ Start \/ Crash \/ Corrupt
    \/ \E t \in Appenders : Arrive(t) \/ AppendStep(t)

Spec == Init /\ [][Next]_vars
=============================================================================
