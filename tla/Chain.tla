------------------------------- MODULE Chain --------------------------------
(***************************************************************************)
(* The hash chain that the router's ledger (ledger.go) and the ledger      *)
(* service (modes.go) both keep: a sequence of entries                     *)
(* [index, body, prevHash, hash].  SHA-256 is modelled as collision-free:  *)
(* the hash of an entry is the tuple of the fields the code marshals, that *)
(* is the entry with neither its hash nor its prevHash.                    *)
(***************************************************************************)
EXTENDS Naturals, Sequences

Genesis == <<"genesis">>

hashEntry(index, body) == <<index, body>>

\* Mutant of VerifyExport: only the newest link.
VerifyNewest(es) == Len(es) < 2 \/ es[Len(es)].prevHash = es[Len(es) - 1].hash

(* VerifyExport compares links only; it never recomputes a hash. *)
VerifyExport(es) ==
    \A i \in 1..Len(es) :
        es[i].prevHash = IF i = 1 THEN Genesis ELSE es[i - 1].hash
=============================================================================
