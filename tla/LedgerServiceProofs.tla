------------------------ MODULE LedgerServiceProofs -------------------------
(***************************************************************************)
(* The ledger service, for any number of appends, crashes and restarts:    *)
(* what SerialChain, AcknowledgedKept and BrokenFileKept say is proved     *)
(* from one inductive invariant, ServiceInv.                               *)
(***************************************************************************)
EXTENDS LedgerServiceProperties, TLAPS

(* The states in which a handler has its entry in the store. *)
Stored == {"marshal", "open", "write", "answer"}

(* A file that does not parse holds nothing. *)
FileShape == file.status # "whole" => file.es = << >>

(* No handler of a dead process, and no write outstanding. *)
DownIsIdle ==
    ~up => ~behind /\ \A t \in Appenders : apc[t] \notin InFlight \cup {"answer"}

Alone ==
    \A t, u \in Appenders : apc[t] \in InFlight /\ apc[u] \in InFlight => t = u

(* What a handler has read is still true. *)
Fresh(t) ==
    /\ apc[t] \in {"index", "load", "commit"} => entry[t].prevHash = TailHash
    /\ apc[t] \in {"load", "commit"} => entry[t].index = Len(store)
    /\ apc[t] \in {"commit", "open", "write"} => copy[t] = store
    /\ apc[t] \in InFlight \ {"verify"} => VerifyExport(store)

Sound(es) == Damaged(es) \/ (VerifyExport(es) /\ Gapless(es))

(* A link to a tampered hash was made after the tampering. *)
Rooted(es) ==
    \A i \in DOMAIN es : es[i].prevHash = Tampered => i > 1 /\ es[i - 1].hash = Tampered

Holds(es, e) ==
    \E i \in DOMAIN es :
        es[i].index = e.index /\ es[i].body = e.body /\ es[i].prevHash = e.prevHash

(* Acknowledged entries, and those about to be, are in es. *)
Keeps(es) ==
    /\ \A e \in acked : Holds(es, e)
    /\ \A t \in Appenders : apc[t] = "answer" => Holds(es, entry[t])

FileKeeps ==
    ~lost /\ ~behind /\ (\A t \in Appenders : apc[t] # "write") => Keeps(file.es)

StoreKeeps ==
    up /\ ~lost =>
        /\ Keeps(store)
        /\ \A t \in Appenders : apc[t] \in Stored => Holds(store, entry[t])

(* A broken file is what the store was loaded from. *)
BrokenIsLoaded == up /\ Broken(file) => store = file.es

SerialInv ==
    /\ Alone
    /\ \A t \in Appenders : Fresh(t)
    /\ Sound(store) /\ Sound(file.es)
    /\ Rooted(store) /\ Rooted(file.es)
    /\ FileKeeps
    /\ StoreKeeps
    /\ BrokenIsLoaded

ServiceInv == ServiceTypeOK /\ FileShape /\ DownIsIdle /\ (~overlapped => SerialInv)

-----------------------------------------------------------------------------
(* Types. *)

(* The values an entry's hash fields receive are hashes.                   *)
LEMMA HashTypes ==
    /\ Genesis \in HashValues /\ Tampered \in HashValues /\ << >> \in HashValues
    /\ \A n \in Nat, t \in Appenders : ledgerHash(n, t) \in HashValues
    /\ ServiceTypeOK => TailHash \in HashValues
<1>1. /\ Genesis \in HashValues /\ Tampered \in HashValues /\ << >> \in HashValues
      /\ \A n \in Nat, t \in Appenders : ledgerHash(n, t) \in HashValues
    BY DEF HashValues, ledgerHash, hashEntry
<1>2. ASSUME ServiceTypeOK PROVE TailHash \in HashValues
    <2>1. store \in Seq(LedgerEntries)
        BY <1>2 DEF ServiceTypeOK
    <2>2. CASE store = << >>
        BY <2>2, <1>1 DEF TailHash
    <2>3. CASE store # << >>
        <3>1. store[Len(store)] \in LedgerEntries
            BY <2>1, <2>3
        <3>2. QED
            BY <2>3, <3>1 DEF TailHash, LedgerEntries
    <2>4. QED
        BY <2>2, <2>3
<1>3. QED
    BY <1>1, <1>2

(* What ledger.json may contain.                                           *)
LEMMA ContentsType ==
    ASSUME NEW status \in {"whole", "torn", "absent"}, NEW es \in Seq(LedgerEntries)
    PROVE  /\ Contents(status, es) \in FileStates
           /\ Contents(status, es).status = status
           /\ Contents(status, es).es = es
    BY DEF Contents, FileStates

(* ... in the forms the service leaves behind.                             *)
LEMMA FileForms ==
    /\ Torn \in FileStates /\ Torn.status = "torn" /\ Torn.es = << >>
    /\ Absent \in FileStates /\ Absent.status = "absent" /\ Absent.es = << >>
    /\ \A es \in Seq(LedgerEntries) :
          Whole(es) \in FileStates /\ Whole(es).status = "whole" /\ Whole(es).es = es
<1>1. << >> \in Seq(LedgerEntries)
    OBVIOUS
<1>2. QED
    BY <1>1, ContentsType DEF Torn, Absent, Whole

(* Reading the tail sets the link of one handler's entry.                  *)
LEMMA LinkEntry ==
    ASSUME NEW f \in [Appenders -> LedgerEntries], NEW t \in Appenders, NEW h \in HashValues,
           NEW g, g = [f EXCEPT ![t].prevHash = h]
    PROVE  /\ g \in [Appenders -> LedgerEntries]
           /\ g[t].prevHash = h /\ g[t].index = f[t].index /\ g[t].body = f[t].body
           /\ \A u \in Appenders : u # t => g[u] = f[u]
    BY DEF LedgerEntries

(* Reading the length sets its index and its hash.                         *)
LEMMA NumberEntry ==
    ASSUME NEW f \in [Appenders -> LedgerEntries], NEW t \in Appenders,
           NEW n \in Nat, NEW h \in HashValues,
           NEW g, g = [f EXCEPT ![t] = [@ EXCEPT !.index = n, !.hash = h]]
    PROVE  /\ g \in [Appenders -> LedgerEntries]
           /\ g[t].prevHash = f[t].prevHash /\ g[t].index = n /\ g[t].body = f[t].body
           /\ \A u \in Appenders : u # t => g[u] = f[u]
<1>1. f[t] \in LedgerEntries
    OBVIOUS
<1>2. [f[t] EXCEPT !.index = n, !.hash = h] \in LedgerEntries
    BY <1>1 DEF LedgerEntries
<1>3. g = [f EXCEPT ![t] = [f[t] EXCEPT !.index = n, !.hash = h]]
    OBVIOUS
<1>4. QED
    BY <1>1, <1>2, <1>3 DEF LedgerEntries

(* es with the hash of entry i replaced. *)
DamagedAt(es, ds, i) ==
    /\ Len(ds) = Len(es) /\ DOMAIN ds = DOMAIN es
    /\ i \in DOMAIN es
    /\ ds[i].hash = Tampered
    /\ \A j \in DOMAIN es :
          /\ ds[j].index = es[j].index /\ ds[j].body = es[j].body
          /\ ds[j].prevHash = es[j].prevHash
          /\ j # i => ds[j].hash = es[j].hash

(* Damage sets the hash of one entry of a chain.                           *)
LEMMA DamageEntry ==
    ASSUME NEW es \in Seq(LedgerEntries), NEW i \in DOMAIN es
    PROVE  Damage(es, i) \in Seq(LedgerEntries) /\ DamagedAt(es, Damage(es, i), i)
<1> DEFINE ds == Damage(es, i)
<1>1. i \in 1..Len(es) /\ DOMAIN es = 1..Len(es) /\ Len(es) \in Nat
    OBVIOUS
<1>2. \A j \in 1..Len(es) : es[j] \in LedgerEntries
    OBVIOUS
<1>3. ASSUME NEW h \in HashValues
      PROVE  [es[i] EXCEPT !.hash = h] \in LedgerEntries /\ [es[i] EXCEPT !.hash = h].hash = h
             /\ [es[i] EXCEPT !.hash = h].index = es[i].index
             /\ [es[i] EXCEPT !.hash = h].body = es[i].body
             /\ [es[i] EXCEPT !.hash = h].prevHash = es[i].prevHash
    BY <1>1, <1>2 DEF LedgerEntries
<1> DEFINE e == [es[i] EXCEPT !.hash = Tampered]
<1>4. e \in LedgerEntries /\ e.hash = Tampered /\ e.index = es[i].index /\ e.body = es[i].body
      /\ e.prevHash = es[i].prevHash
    BY <1>3, HashTypes
<1>5. ds = [es EXCEPT ![i] = e]
    BY DEF Damage
<1> HIDE DEF e, ds
<1>6. ds \in Seq(LedgerEntries) /\ Len(ds) = Len(es) /\ DOMAIN ds = DOMAIN es
    BY <1>1, <1>2, <1>4, <1>5
<1>7. ds[i] = e /\ \A j \in DOMAIN es : j # i => ds[j] = es[j]
    BY <1>1, <1>5
<1>8. DamagedAt(es, ds, i)
    BY <1>1, <1>4, <1>6, <1>7 DEF DamagedAt
<1>9. QED
    BY <1>6, <1>8 DEF ds

(* The initial state is of its type.                                       *)
LEMMA TypeInit == Init => ServiceTypeOK
<1> SUFFICES ASSUME Init PROVE ServiceTypeOK
    OBVIOUS
<1>1. entry \in [Appenders -> LedgerEntries]
    BY HashTypes DEF Init, Decoded, LedgerEntries
<1>2. file \in FileStates
    BY FileForms DEF Init
<1>3. copy \in [Appenders -> Seq(LedgerEntries)]
    BY DEF Init
<1>4. apc \in [Appenders -> AppendPCs]
    BY DEF Init, AppendPCs
<1>5. store \in Seq(LedgerEntries) /\ acked \subseteq LedgerEntries
    BY DEF Init
<1>6. found \in {"whole", "torn", "absent"}
    BY DEF Init
<1>7. QED
    BY <1>1, <1>2, <1>3, <1>4, <1>5, <1>6 DEF Init, ServiceTypeOK

(* A step of one handler stays within the types.                           *)
LEMMA TypeAppend ==
    ASSUME ServiceTypeOK, NEW t \in Appenders, Arrive(t) \/ AppendStep(t)
    PROVE  ServiceTypeOK'
<1>1. CASE Arrive(t)
    BY <1>1 DEF Arrive, Step, ServiceTypeOK, AppendPCs, InFlight
<1>2. CASE VerifyStore(t)
    BY <1>2 DEF VerifyStore, Step, ServiceTypeOK, AppendPCs, InFlight, historyVars
<1>3. CASE ReadTail(t)
    <2>1. entry' \in [Appenders -> LedgerEntries]
        BY <1>3, HashTypes, LinkEntry DEF ReadTail, ServiceTypeOK
    <2>2. apc' \in [Appenders -> AppendPCs]
        BY <1>3 DEF ReadTail, Step, ServiceTypeOK, AppendPCs, InFlight
    <2>3. QED
        BY <1>3, <2>1, <2>2 DEF ReadTail, ServiceTypeOK, historyVars
<1>4. CASE ReadIndex(t)
    <2>1. Len(store) \in Nat /\ ledgerHash(Len(store), t) \in HashValues
        BY HashTypes DEF ServiceTypeOK
    <2>2. entry' \in [Appenders -> LedgerEntries]
        BY <1>4, <2>1, NumberEntry DEF ReadIndex, ServiceTypeOK
    <2>3. apc' \in [Appenders -> AppendPCs]
        BY <1>4 DEF ReadIndex, Step, ServiceTypeOK, AppendPCs, InFlight
    <2>4. QED
        BY <1>4, <2>2, <2>3 DEF ReadIndex, ServiceTypeOK, historyVars
<1>5. CASE LoadSlice(t)
    BY <1>5 DEF LoadSlice, Step, ServiceTypeOK, AppendPCs, InFlight, historyVars
<1>6. CASE CommitSlice(t)
    BY <1>6 DEF CommitSlice, Step, ServiceTypeOK, AppendPCs, InFlight, historyVars
<1>7. CASE OpenFile(t)
    <2>1. file' \in FileStates
        BY <1>7, FileForms DEF OpenFile, ServiceTypeOK
    <2>2. apc' \in [Appenders -> AppendPCs]
        BY <1>7 DEF OpenFile, Step, ServiceTypeOK, AppendPCs, InFlight
    <2>3. QED
        BY <1>7, <2>1, <2>2 DEF OpenFile, ServiceTypeOK
<1>8. CASE WriteFile(t)
    <2>1. file' \in FileStates
        BY <1>8, FileForms DEF WriteFile, ServiceTypeOK
    <2>2. apc' \in [Appenders -> AppendPCs]
        BY <1>8 DEF WriteFile, Step, ServiceTypeOK, AppendPCs, InFlight
    <2>3. QED
        BY <1>8, <2>1, <2>2 DEF WriteFile, ServiceTypeOK
<1>9. CASE Acknowledge(t)
    BY <1>9 DEF Acknowledge, Step, ServiceTypeOK, AppendPCs, InFlight
<1>10. CASE MarshalIndent(t)
    BY <1>10 DEF MarshalIndent, Step, ServiceTypeOK, AppendPCs, InFlight, historyVars
<1>11. QED
    BY <1>1, <1>2, <1>3, <1>4, <1>5, <1>6, <1>7, <1>8, <1>9, <1>10 DEF AppendStep

(* Damage to the file, in full.                                            *)
LEMMA CorruptFile ==
    ASSUME ServiceTypeOK, Corrupt
    PROVE  /\ file' \in FileStates /\ file'.status = file.status
           /\ \E i \in DOMAIN file.es : DamagedAt(file.es, file'.es, i)
<1>1. file.es \in Seq(LedgerEntries) /\ file.status \in {"whole", "torn", "absent"}
    BY DEF ServiceTypeOK, FileStates
<1>2. PICK i \in DOMAIN file.es : file' = Contents(file.status, Damage(file.es, i))
    BY DEF Corrupt
<1>3. Damage(file.es, i) \in Seq(LedgerEntries) /\ DamagedAt(file.es, Damage(file.es, i), i)
    BY <1>1, DamageEntry
<1>4. QED
    BY <1>1, <1>2, <1>3, ContentsType

(* Every step stays within the types.                                      *)
LEMMA TypeNext == ServiceTypeOK /\ [Next]_vars => ServiceTypeOK'
<1> SUFFICES ASSUME ServiceTypeOK, [Next]_vars PROVE ServiceTypeOK'
    OBVIOUS
<1>1. CASE Start
    BY <1>1 DEF Start, ServiceTypeOK, FileStates
<1>2. CASE Crash
    <2>1. apc' \in [Appenders -> AppendPCs]
        BY <1>2 DEF Crash, ServiceTypeOK, AppendPCs
    <2>2. lost' \in BOOLEAN
        BY <1>2 DEF Crash
    <2>3. store' \in Seq(LedgerEntries)
        BY <1>2 DEF Crash
    <2>4. QED
        BY <1>2, <2>1, <2>2, <2>3 DEF Crash, ServiceTypeOK
<1>3. CASE Corrupt
    BY <1>3, CorruptFile DEF Corrupt, ServiceTypeOK, memoryVars, historyVars
<1>4. CASE \E t \in Appenders : Arrive(t) \/ AppendStep(t)
    BY <1>4, TypeAppend
<1>5. CASE UNCHANGED vars
    BY <1>5 DEF vars, memoryVars, historyVars, ServiceTypeOK
<1>6. QED
    BY <1>1, <1>2, <1>3, <1>4, <1>5 DEF Next

(* The ledger service stays within its types.                              *)
THEOREM ServiceTypeCorrect == Spec => []ServiceTypeOK
    BY TypeInit, TypeNext, PTL DEF Spec

-----------------------------------------------------------------------------
(* Chains. *)

ChainTail(es) == IF es = << >> THEN Genesis ELSE es[Len(es)].hash

(* An empty ledger.                                                        *)
LEMMA EmptyChain == VerifyExport(<< >>) /\ Sound(<< >>) /\ Rooted(<< >>)
    BY DEF VerifyExport, Sound, Gapless, Rooted

(* What Append does to a chain, entry by entry.                            *)
LEMMA Appended ==
    ASSUME NEW es \in Seq(LedgerEntries), NEW e \in LedgerEntries
    PROVE  /\ Append(es, e) \in Seq(LedgerEntries)
           /\ Len(es) \in Nat /\ DOMAIN es = 1..Len(es)
           /\ Len(Append(es, e)) = Len(es) + 1
           /\ DOMAIN Append(es, e) = 1..(Len(es) + 1)
           /\ \A i \in 1..Len(es) : Append(es, e)[i] = es[i]
           /\ Append(es, e)[Len(es) + 1] = e
    OBVIOUS

(* An entry that links to the tail and takes the next number extends a     *)
(* chain.                                                                  *)
LEMMA ExtendedChain ==
    ASSUME NEW es \in Seq(LedgerEntries), NEW e \in LedgerEntries,
           VerifyExport(es), Sound(es), Rooted(es),
           e.prevHash = ChainTail(es), e.index = Len(es)
    PROVE  VerifyExport(Append(es, e)) /\ Sound(Append(es, e)) /\ Rooted(Append(es, e))
<1> DEFINE ds == Append(es, e)
<1>1. /\ Len(es) \in Nat /\ DOMAIN es = 1..Len(es) /\ es \in Seq(LedgerEntries)
      /\ Len(ds) = Len(es) + 1 /\ DOMAIN ds = 1..(Len(es) + 1)
      /\ \A i \in 1..Len(es) : ds[i] = es[i]
      /\ ds[Len(es) + 1] = e
    BY Appended
<1>2. es = << >> <=> Len(es) = 0
    BY <1>1
<1> HIDE DEF ds
<1>3. VerifyExport(ds)
    <2> SUFFICES ASSUME NEW i \in 1..(Len(es) + 1)
                 PROVE  ds[i].prevHash = IF i = 1 THEN Genesis ELSE ds[i - 1].hash
        BY <1>1 DEF VerifyExport
    <2>1. CASE i \in 1..Len(es)
        <3>1. es[i].prevHash = IF i = 1 THEN Genesis ELSE es[i - 1].hash
            BY <2>1 DEF VerifyExport
        <3>2. i # 1 => i - 1 \in 1..Len(es)
            BY <1>1, <2>1
        <3>3. QED
            BY <1>1, <2>1, <3>1, <3>2
    <2>2. CASE i = Len(es) + 1
        <3>1. CASE Len(es) = 0
            BY <1>1, <1>2, <2>2, <3>1 DEF ChainTail
        <3>2. CASE Len(es) # 0
            <4>1. Len(es) \in 1..Len(es) /\ i # 1 /\ i - 1 = Len(es)
                BY <1>1, <2>2, <3>2
            <4>2. e.prevHash = es[Len(es)].hash
                BY <1>2, <3>2 DEF ChainTail
            <4>3. QED
                BY <1>1, <2>2, <4>1, <4>2
        <3>3. QED
            BY <3>1, <3>2
    <2>3. QED
        BY <1>1, <2>1, <2>2
<1>4. Sound(ds)
    <2>1. CASE Damaged(es)
        <3>1. PICK i \in 1..Len(es) : es[i].hash = Tampered
            BY <1>1, <2>1 DEF Damaged
        <3>2. i \in DOMAIN ds /\ ds[i].hash = Tampered
            BY <1>1, <3>1
        <3>3. QED
            BY <3>2 DEF Sound, Damaged
    <2>2. CASE Gapless(es)
        BY <1>1, <1>3, <2>2 DEF Sound, Gapless
    <2>3. QED
        BY <2>1, <2>2 DEF Sound
<1>5. Rooted(ds)
    <2> SUFFICES ASSUME NEW i \in 1..(Len(es) + 1), ds[i].prevHash = Tampered
                 PROVE  i > 1 /\ ds[i - 1].hash = Tampered
        BY <1>1 DEF Rooted
    <2>1. ds[i].prevHash = IF i = 1 THEN Genesis ELSE ds[i - 1].hash
        BY <1>1, <1>3 DEF VerifyExport
    <2>2. Genesis # Tampered
        BY DEF Genesis, Tampered
    <2>3. QED
        BY <1>1, <2>1, <2>2
<1>6. QED
    BY <1>3, <1>4, <1>5 DEF ds

(* What is in a chain stays in it when it grows.                           *)
LEMMA ExtendedHolds ==
    ASSUME NEW es \in Seq(LedgerEntries), NEW e \in LedgerEntries
    PROVE  /\ Holds(Append(es, e), e)
           /\ \A d : Holds(es, d) => Holds(Append(es, e), d)
<1> DEFINE ds == Append(es, e)
<1>1. /\ Len(es) \in Nat /\ DOMAIN es = 1..Len(es) /\ DOMAIN ds = 1..(Len(es) + 1)
      /\ \A i \in 1..Len(es) : ds[i] = es[i]
      /\ ds[Len(es) + 1] = e
    BY Appended
<1> HIDE DEF ds
<1>2. Holds(ds, e)
    <2>1. Len(es) + 1 \in DOMAIN ds
        BY <1>1
    <2>2. QED
        BY <1>1, <2>1 DEF Holds
<1>3. ASSUME NEW d, Holds(es, d) PROVE Holds(ds, d)
    <2>1. PICK i \in 1..Len(es) :
              es[i].index = d.index /\ es[i].body = d.body /\ es[i].prevHash = d.prevHash
        BY <1>1, <1>3 DEF Holds
    <2>2. i \in DOMAIN ds /\ ds[i] = es[i]
        BY <1>1
    <2>3. QED
        BY <2>1, <2>2 DEF Holds
<1>4. QED
    BY <1>2, <1>3 DEF ds

(* Damage keeps what a chain holds and never mends a broken one.           *)
LEMMA DamagedChain ==
    ASSUME NEW es \in Seq(LedgerEntries), NEW ds, NEW i, DamagedAt(es, ds, i), Rooted(es)
    PROVE  /\ Sound(ds) /\ Rooted(ds)
           /\ ~VerifyExport(es) => ~VerifyExport(ds)
           /\ \A d : Holds(es, d) => Holds(ds, d)
<1>1. /\ Len(es) \in Nat /\ DOMAIN es = 1..Len(es) /\ Len(ds) = Len(es)
      /\ DOMAIN ds = 1..Len(es) /\ i \in 1..Len(es) /\ ds[i].hash = Tampered
      /\ \A j \in 1..Len(es) :
            /\ ds[j].index = es[j].index /\ ds[j].body = es[j].body
            /\ ds[j].prevHash = es[j].prevHash
            /\ j # i => ds[j].hash = es[j].hash
    BY DEF DamagedAt
<1>2. Sound(ds)
    BY <1>1 DEF Sound, Damaged
<1>3. Rooted(ds)
    <2> SUFFICES ASSUME NEW j \in 1..Len(es), ds[j].prevHash = Tampered
                 PROVE  j > 1 /\ ds[j - 1].hash = Tampered
        BY <1>1 DEF Rooted
    <2>1. j > 1 /\ es[j - 1].hash = Tampered
        BY <1>1 DEF Rooted
    <2>2. j - 1 \in 1..Len(es)
        BY <1>1, <2>1
    <2>3. QED
        BY <1>1, <2>1, <2>2
<1>4. ASSUME ~VerifyExport(es) PROVE ~VerifyExport(ds)
    <2>1. PICK j \in 1..Len(es) : es[j].prevHash # IF j = 1 THEN Genesis ELSE es[j - 1].hash
        BY <1>4 DEF VerifyExport
    <2>2. CASE j = 1
        BY <1>1, <2>1, <2>2 DEF VerifyExport
    <2>3. CASE j # 1
        <3>1. j - 1 \in 1..Len(es) /\ es[j].prevHash # es[j - 1].hash
            BY <1>1, <2>1, <2>3
        <3>2. es[j].prevHash = Tampered => es[j - 1].hash = Tampered
            BY <1>1 DEF Rooted
        <3>3. ds[j].prevHash # ds[j - 1].hash
            BY <1>1, <3>1, <3>2
        <3>4. QED
            BY <1>1, <2>3, <3>3 DEF VerifyExport
    <2>4. QED
        BY <2>2, <2>3
<1>5. ASSUME NEW d, Holds(es, d) PROVE Holds(ds, d)
    BY <1>1, <1>5 DEF Holds
<1>6. QED
    BY <1>2, <1>3, <1>4, <1>5

-----------------------------------------------------------------------------
(* The invariant. *)

(* Nothing is running, and nothing recorded, before the first start.       *)
LEMMA ServiceInit == Init => ServiceInv
<1> SUFFICES ASSUME Init PROVE ServiceInv
    OBVIOUS
<1>1. ServiceTypeOK
    BY TypeInit
<1>2. \A t \in Appenders : apc[t] = "idle"
    BY DEF Init
<1>3. file.es = << >> /\ file.status = "absent"
    BY FileForms DEF Init
<1>4. FileShape /\ DownIsIdle
    BY <1>2, <1>3 DEF Init, FileShape, DownIsIdle, InFlight
<1>5. Alone /\ \A t \in Appenders : Fresh(t)
    BY <1>2 DEF Alone, Fresh, InFlight
<1>6. Sound(store) /\ Sound(file.es) /\ Rooted(store) /\ Rooted(file.es)
    BY <1>3, EmptyChain DEF Init
<1>7. FileKeeps /\ StoreKeeps /\ BrokenIsLoaded
    BY <1>2 DEF Init, FileKeeps, StoreKeeps, BrokenIsLoaded, Keeps
<1>8. QED
    BY <1>1, <1>4, <1>5, <1>6, <1>7 DEF ServiceInv, SerialInv

(* A process that is down has no handlers, and a file that does not parse  *)
(* holds nothing, after every step.                                        *)
LEMMA ShapeNext ==
    ASSUME ServiceInv, Next
    PROVE  FileShape' /\ DownIsIdle'
<1>1. ServiceTypeOK /\ FileShape /\ DownIsIdle
    BY DEF ServiceInv
<1>2. CASE Start
    BY <1>1, <1>2 DEF Start, FileShape, DownIsIdle
<1>3. CASE Crash
    <2>1. \A t \in Appenders : apc'[t] \notin InFlight \cup {"answer"}
        BY <1>3 DEF Crash, InFlight
    <2>2. QED
        BY <1>1, <1>3, <2>1 DEF Crash, FileShape, DownIsIdle
<1>4. CASE Corrupt
    <2>1. file'.status = file.status
        BY <1>1, <1>4, CorruptFile
    <2>2. FileShape'
        <3>1. file.es # << >>
            BY <1>1, <1>4 DEF Corrupt, ServiceTypeOK, FileStates
        <3>2. QED
            BY <1>1, <2>1, <3>1 DEF FileShape
    <2>3. DownIsIdle'
        BY <1>1, <1>4 DEF Corrupt, DownIsIdle, memoryVars, historyVars
    <2>4. QED
        BY <2>2, <2>3
<1>5. CASE \E t \in Appenders : Arrive(t) \/ AppendStep(t)
    <2>1. PICK t \in Appenders : Arrive(t) \/ AppendStep(t)
        BY <1>5
    <2>2. up' /\ up
        BY <2>1 DEF Arrive, AppendStep, Step, VerifyStore, ReadTail, ReadIndex, LoadSlice,
                    CommitSlice, MarshalIndent, OpenFile, WriteFile, Acknowledge
    <2>3. file' = file \/ file' = Torn \/ file' = Whole(copy[t])
        BY <2>1 DEF Arrive, AppendStep, VerifyStore, ReadTail, ReadIndex, LoadSlice,
                    CommitSlice, MarshalIndent, OpenFile, WriteFile, Acknowledge
    <2>4. FileShape'
        BY <1>1, <2>3, FileForms DEF FileShape, ServiceTypeOK
    <2>5. QED
        BY <2>2, <2>4 DEF DownIsIdle
<1>6. QED
    BY <1>2, <1>3, <1>4, <1>5 DEF Next

(* Overlapping appends are never forgotten.                                *)
LEMMA OverlapStays == Next /\ ~overlapped' => ~overlapped
    BY DEF Next, Start, Crash, Corrupt, historyVars, Arrive, AppendStep, VerifyStore, ReadTail,
           ReadIndex, LoadSlice, CommitSlice, MarshalIndent, OpenFile, WriteFile, Acknowledge

(* Steps of a handler that has nothing in the store and puts nothing there *)
(* disturb neither the chains nor what they keep.                          *)
LEMMA QuietStep ==
    ASSUME ServiceTypeOK, SerialInv, NEW t \in Appenders, NEW to \in AppendPCs,
           apc' = [apc EXCEPT ![t] = to], apc[t] \notin Stored, to \notin Stored,
           UNCHANGED <<up, store, file, acked, behind, lost>>,
           \A u \in Appenders : u # t => entry'[u] = entry[u]
    PROVE  /\ Sound(store)' /\ Sound(file.es)' /\ Rooted(store)' /\ Rooted(file.es)'
           /\ FileKeeps' /\ StoreKeeps' /\ BrokenIsLoaded'
<1>1. /\ Sound(store) /\ Sound(file.es) /\ Rooted(store) /\ Rooted(file.es)
      /\ FileKeeps /\ StoreKeeps /\ BrokenIsLoaded
    BY DEF SerialInv
<1>2. apc'[t] = to /\ \A u \in Appenders : u # t => apc'[u] = apc[u]
    BY DEF ServiceTypeOK
<1>3. \A u \in Appenders : apc'[u] \in Stored => u # t /\ apc[u] = apc'[u] /\ entry'[u] = entry[u]
    BY <1>2
<1>4. Sound(store)' /\ Sound(file.es)' /\ Rooted(store)' /\ Rooted(file.es)' /\ BrokenIsLoaded'
    BY <1>1 DEF Sound, Rooted, Damaged, Gapless, VerifyExport, BrokenIsLoaded, Broken
<1>5. ASSUME NEW es, Keeps(es)
      PROVE  /\ \A e \in acked' : Holds(es, e)
             /\ \A u \in Appenders : apc'[u] = "answer" => Holds(es, entry'[u])
    BY <1>3, <1>5 DEF Keeps, Stored
<1>6. FileKeeps'
    <2> SUFFICES ASSUME ~lost', ~behind', \A u \in Appenders : apc'[u] # "write"
                 PROVE  Keeps(file.es)'
        BY DEF FileKeeps
    <2>1. \A u \in Appenders : apc[u] # "write"
        BY <1>2 DEF Stored
    <2>2. Keeps(file.es)
        BY <1>1, <2>1 DEF FileKeeps
    <2>3. QED
        BY <1>5, <2>2 DEF Keeps, Holds
<1>7. StoreKeeps'
    <2> SUFFICES ASSUME up', ~lost'
                 PROVE  /\ Keeps(store)'
                        /\ \A u \in Appenders : apc'[u] \in Stored => Holds(store', entry'[u])
        BY DEF StoreKeeps, Stored, Holds
    <2>1. /\ Keeps(store)
          /\ \A u \in Appenders : apc[u] \in Stored => Holds(store, entry[u])
        BY <1>1 DEF StoreKeeps
    <2>2. Keeps(store)'
        BY <1>5, <2>1 DEF Keeps, Holds
    <2>3. QED
        BY <1>3, <2>1, <2>2
<1>8. QED
    BY <1>4, <1>6, <1>7

(* While one handler is in flight, no other is; it stays the only one.     *)
LEMMA AloneStep ==
    ASSUME ServiceTypeOK, SerialInv, NEW t \in Appenders, NEW to \in AppendPCs,
           apc' = [apc EXCEPT ![t] = to], apc[t] \in InFlight
    PROVE  /\ Alone'
           /\ apc'[t] = to
           /\ \A u \in Appenders : u # t => apc'[u] = apc[u] /\ apc'[u] \notin InFlight
<1>1. Alone
    BY DEF SerialInv
<1>2. apc'[t] = to /\ \A u \in Appenders : u # t => apc'[u] = apc[u]
    BY DEF ServiceTypeOK
<1>3. \A u \in Appenders : u # t => apc'[u] \notin InFlight
    BY <1>1, <1>2 DEF Alone
<1>4. Alone'
    BY <1>3 DEF Alone
<1>5. QED
    BY <1>2, <1>3, <1>4

(* The steps of one append preserve SerialInv, from its arrival ...        *)
LEMMA ArriveSerial ==
    ASSUME ServiceTypeOK, SerialInv, NEW t \in Appenders, Arrive(t), ~overlapped'
    PROVE  SerialInv'
<1>1. PICK to \in {"verify", "turned"} :
          apc[t] = "idle" /\ apc' = [apc EXCEPT ![t] = to]
    BY DEF Arrive, Step
<1>2. to \in AppendPCs /\ to \notin Stored /\ apc[t] \notin Stored
    BY <1>1 DEF AppendPCs, InFlight, Stored
<1>3. apc'[t] = to /\ \A u \in Appenders : u # t => apc'[u] = apc[u]
    BY <1>1 DEF ServiceTypeOK
<1>4. to = "verify" => \A u \in Appenders : apc[u] \notin InFlight
    BY <1>3 DEF Arrive
<1>5. Alone'
    <2>1. Alone
        BY DEF SerialInv
    <2>2. CASE to = "verify"
        BY <1>3, <1>4, <2>2 DEF Alone
    <2>3. CASE to = "turned"
        BY <1>3, <2>1, <2>3 DEF Alone, InFlight
    <2>4. QED
        BY <1>1, <2>2, <2>3
<1>6. ASSUME NEW u \in Appenders PROVE Fresh(u)'
    <2>1. Fresh(u)
        BY DEF SerialInv
    <2>2. CASE u = t
        BY <1>1, <1>3, <2>2 DEF Fresh, InFlight
    <2>3. CASE u # t
        BY <1>3, <2>1, <2>3 DEF Arrive, Fresh, TailHash, VerifyExport
    <2>4. QED
        BY <2>2, <2>3
<1>7. QED
    BY <1>1, <1>2, <1>5, <1>6, QuietStep DEF SerialInv, Arrive

(* ... over the verification of the chain ...                              *)
LEMMA VerifySerial ==
    ASSUME ServiceTypeOK, SerialInv, NEW t \in Appenders, VerifyStore(t)
    PROVE  SerialInv'
<1>1. PICK to \in {"tail", "refused"} :
          /\ apc[t] = "verify" /\ apc' = [apc EXCEPT ![t] = to]
          /\ to = "tail" => VerifyExport(store)
    BY DEF VerifyStore, Step
<1>2. to \in AppendPCs /\ to \notin Stored /\ apc[t] \notin Stored /\ apc[t] \in InFlight
    BY <1>1 DEF AppendPCs, InFlight, Stored
<1>3. /\ Alone' /\ apc'[t] = to
      /\ \A u \in Appenders : u # t => apc'[u] = apc[u] /\ apc'[u] \notin InFlight
    BY <1>1, <1>2, AloneStep
<1>4. ASSUME NEW u \in Appenders PROVE Fresh(u)'
    BY <1>1, <1>3 DEF Fresh, InFlight, VerifyStore, VerifyExport
<1>5. QED
    BY <1>1, <1>2, <1>3, <1>4, QuietStep DEF SerialInv, VerifyStore, historyVars

(* ... the reads of the tail ...                                           *)
LEMMA TailSerial ==
    ASSUME ServiceTypeOK, SerialInv, NEW t \in Appenders, ReadTail(t)
    PROVE  SerialInv'
<1>1. apc[t] = "tail" /\ apc' = [apc EXCEPT ![t] = "index"] /\ store' = store
    BY DEF ReadTail, Step
<1>2. /\ "index" \in AppendPCs /\ "index" \notin Stored
      /\ apc[t] \notin Stored /\ apc[t] \in InFlight
    BY <1>1 DEF AppendPCs, InFlight, Stored
<1>3. /\ Alone' /\ apc'[t] = "index"
      /\ \A u \in Appenders : u # t => apc'[u] = apc[u] /\ apc'[u] \notin InFlight
    BY <1>1, <1>2, AloneStep
<1>4. entry'[t].prevHash = TailHash /\ \A u \in Appenders : u # t => entry'[u] = entry[u]
    BY HashTypes, LinkEntry DEF ReadTail, ServiceTypeOK
<1>5. VerifyExport(store)
    BY <1>1 DEF SerialInv, Fresh, InFlight
<1>6. ASSUME NEW u \in Appenders PROVE Fresh(u)'
    <2>1. CASE u = t
        <3>1. TailHash' = TailHash /\ VerifyExport(store)'
            BY <1>1, <1>5 DEF TailHash, VerifyExport
        <3>2. QED
            BY <1>3, <1>4, <2>1, <3>1 DEF Fresh
    <2>2. CASE u # t
        BY <1>3, <2>2 DEF Fresh, InFlight
    <2>3. QED
        BY <2>1, <2>2
<1>7. QED
    BY <1>1, <1>2, <1>3, <1>4, <1>6, QuietStep DEF SerialInv, ReadTail, historyVars

(* ... of the length ...                                                   *)
LEMMA IndexSerial ==
    ASSUME ServiceTypeOK, SerialInv, NEW t \in Appenders, ReadIndex(t)
    PROVE  SerialInv'
<1>1. apc[t] = "index" /\ apc' = [apc EXCEPT ![t] = "load"] /\ store' = store
    BY DEF ReadIndex, Step
<1>2. /\ "load" \in AppendPCs /\ "load" \notin Stored
      /\ apc[t] \notin Stored /\ apc[t] \in InFlight
    BY <1>1 DEF AppendPCs, InFlight, Stored
<1>3. /\ Alone' /\ apc'[t] = "load"
      /\ \A u \in Appenders : u # t => apc'[u] = apc[u] /\ apc'[u] \notin InFlight
    BY <1>1, <1>2, AloneStep
<1>4. Len(store) \in Nat /\ ledgerHash(Len(store), t) \in HashValues
    BY HashTypes DEF ServiceTypeOK
<1>5. /\ entry'[t].prevHash = entry[t].prevHash /\ entry'[t].index = Len(store)
      /\ \A u \in Appenders : u # t => entry'[u] = entry[u]
    <2> DEFINE n == Len(store)
               h == ledgerHash(n, t)
    <2>1. entry \in [Appenders -> LedgerEntries] /\ n \in Nat /\ h \in HashValues
        BY <1>4 DEF ServiceTypeOK
    <2>2. entry' = [entry EXCEPT ![t] = [@ EXCEPT !.index = n, !.hash = h]]
        BY DEF ReadIndex
    <2> HIDE DEF h, n
    <2>3. /\ entry'[t] = [entry[t] EXCEPT !.index = n, !.hash = h]
          /\ \A u \in Appenders : u # t => entry'[u] = entry[u]
        BY <2>1, <2>2
    <2>4. entry'[t].prevHash = entry[t].prevHash /\ entry'[t].index = n
        BY <2>1, <2>3 DEF LedgerEntries
    <2>5. QED
        BY <2>3, <2>4 DEF n
<1>6. VerifyExport(store) /\ entry[t].prevHash = TailHash
    BY <1>1 DEF SerialInv, Fresh, InFlight
<1>7. ASSUME NEW u \in Appenders PROVE Fresh(u)'
    <2>1. CASE u = t
        <3>1. TailHash' = TailHash /\ VerifyExport(store)' /\ Len(store)' = Len(store)
            BY <1>1, <1>6 DEF TailHash, VerifyExport
        <3>2. QED
            BY <1>3, <1>5, <1>6, <2>1, <3>1 DEF Fresh
    <2>2. CASE u # t
        BY <1>3, <2>2 DEF Fresh, InFlight
    <2>3. QED
        BY <2>1, <2>2
<1>8. QED
    BY <1>1, <1>2, <1>3, <1>5, <1>7, QuietStep DEF SerialInv, ReadIndex, historyVars

(* ... and of the slice ...                                                *)
LEMMA LoadSerial ==
    ASSUME ServiceTypeOK, SerialInv, NEW t \in Appenders, LoadSlice(t)
    PROVE  SerialInv'
<1>1. /\ apc[t] = "load" /\ apc' = [apc EXCEPT ![t] = "commit"]
      /\ store' = store /\ entry' = entry /\ copy'[t] = store
    BY DEF LoadSlice, Step, ServiceTypeOK
<1>2. /\ "commit" \in AppendPCs /\ "commit" \notin Stored
      /\ apc[t] \notin Stored /\ apc[t] \in InFlight
    BY <1>1 DEF AppendPCs, InFlight, Stored
<1>3. /\ Alone' /\ apc'[t] = "commit"
      /\ \A u \in Appenders : u # t => apc'[u] = apc[u] /\ apc'[u] \notin InFlight
    BY <1>1, <1>2, AloneStep
<1>4. VerifyExport(store) /\ entry[t].prevHash = TailHash /\ entry[t].index = Len(store)
    BY <1>1 DEF SerialInv, Fresh, InFlight
<1>5. ASSUME NEW u \in Appenders PROVE Fresh(u)'
    <2>1. CASE u = t
        <3>1. TailHash' = TailHash /\ VerifyExport(store)' /\ Len(store)' = Len(store)
            BY <1>1, <1>4 DEF TailHash, VerifyExport
        <3>2. QED
            BY <1>1, <1>3, <1>4, <2>1, <3>1 DEF Fresh
    <2>2. CASE u # t
        BY <1>3, <2>2 DEF Fresh, InFlight
    <2>3. QED
        BY <2>1, <2>2
<1>6. QED
    BY <1>1, <1>2, <1>3, <1>5, QuietStep DEF SerialInv, LoadSlice, historyVars

(* ... to the store of the extended slice.                                 *)
LEMMA CommitSerial ==
    ASSUME ServiceTypeOK, SerialInv, NEW t \in Appenders, CommitSlice(t)
    PROVE  SerialInv'
<1>1. /\ apc[t] = "commit" /\ apc' = [apc EXCEPT ![t] = "marshal"]
      /\ store' = Append(copy[t], entry[t])
      /\ UNCHANGED <<up, file, entry, acked, behind, lost>>
    BY DEF CommitSlice, Step, historyVars
<1>2. "marshal" \in AppendPCs /\ apc[t] \in InFlight
    BY <1>1 DEF AppendPCs, InFlight
<1>3. /\ Alone' /\ apc'[t] = "marshal"
      /\ \A u \in Appenders : u # t => apc'[u] = apc[u] /\ apc'[u] \notin InFlight
    BY <1>1, <1>2, AloneStep
<1>4. /\ VerifyExport(store) /\ copy[t] = store
      /\ entry[t].prevHash = ChainTail(store) /\ entry[t].index = Len(store)
    BY <1>1 DEF SerialInv, Fresh, InFlight, TailHash, ChainTail
<1>5. store \in Seq(LedgerEntries) /\ entry[t] \in LedgerEntries
    BY DEF ServiceTypeOK
<1>6. VerifyExport(store') /\ Sound(store') /\ Rooted(store')
    BY <1>1, <1>4, <1>5, ExtendedChain DEF SerialInv
<1>7. Holds(store', entry[t]) /\ \A d : Holds(store, d) => Holds(store', d)
    BY <1>1, <1>4, <1>5, ExtendedHolds
<1>8. ASSUME NEW u \in Appenders PROVE Fresh(u)'
    <2>1. CASE u = t
        BY <1>3, <1>6, <2>1 DEF Fresh, VerifyExport
    <2>2. CASE u # t
        BY <1>3, <2>2 DEF Fresh, InFlight
    <2>3. QED
        BY <2>1, <2>2
<1>9. Sound(store)' /\ Rooted(store)'
    BY <1>6 DEF Sound, Damaged, VerifyExport, Gapless, Rooted
<1>10. Sound(file.es)' /\ Rooted(file.es)'
    BY <1>1 DEF SerialInv, Sound, Damaged, VerifyExport, Gapless, Rooted
<1>11. FileKeeps'
    <2> SUFFICES ASSUME ~lost, ~behind, \A u \in Appenders : apc'[u] # "write"
                 PROVE  Keeps(file.es)'
        BY <1>1 DEF FileKeeps
    <2>1. Keeps(file.es)
        BY <1>1, <1>3 DEF SerialInv, FileKeeps
    <2>2. QED
        BY <1>1, <1>3, <2>1 DEF Keeps, Holds
<1>12. StoreKeeps'
    <2> SUFFICES ASSUME up, ~lost
                 PROVE  /\ Keeps(store)'
                        /\ \A u \in Appenders : apc'[u] \in Stored => Holds(store', entry'[u])
        BY <1>1 DEF StoreKeeps, Stored, Holds
    <2>1. /\ Keeps(store)
          /\ \A u \in Appenders : apc[u] \in Stored => Holds(store, entry[u])
        BY DEF SerialInv, StoreKeeps
    <2>2. \A u \in Appenders : apc'[u] \in Stored => Holds(store', entry'[u])
        BY <1>1, <1>3, <1>7, <2>1
    <2>3. \A e \in acked' : Holds(store', e)
        BY <1>1, <1>7, <2>1 DEF Keeps
    <2>4. Keeps(store)'
        BY <2>2, <2>3 DEF Keeps, Stored, Holds
    <2>5. QED
        BY <2>2, <2>4
<1>13. BrokenIsLoaded'
    <2>1. ~(up /\ Broken(file))
        BY <1>4 DEF SerialInv, BrokenIsLoaded, Broken
    <2>2. QED
        BY <1>1, <2>1 DEF BrokenIsLoaded, Broken, VerifyExport
<1>14. QED
    BY <1>3, <1>8, <1>9, <1>10, <1>11, <1>12, <1>13 DEF SerialInv

(* Marshalling reads the store as it was left.                             *)
LEMMA MarshalSerial ==
    ASSUME ServiceTypeOK, SerialInv, NEW t \in Appenders, MarshalIndent(t)
    PROVE  SerialInv'
<1>1. /\ apc[t] = "marshal" /\ apc' = [apc EXCEPT ![t] = "open"] /\ copy'[t] = store
      /\ UNCHANGED <<up, store, file, entry, acked, behind, lost>>
    BY DEF MarshalIndent, Step, ServiceTypeOK, historyVars
<1>2. "open" \in AppendPCs /\ apc[t] \in InFlight
    BY <1>1 DEF AppendPCs, InFlight
<1>3. /\ Alone' /\ apc'[t] = "open"
      /\ \A u \in Appenders : u # t => apc'[u] = apc[u] /\ apc'[u] \notin InFlight
    BY <1>1, <1>2, AloneStep
<1>4. VerifyExport(store)
    BY <1>1 DEF SerialInv, Fresh, InFlight
<1>5. ASSUME NEW u \in Appenders PROVE Fresh(u)'
    <2>1. CASE u = t
        BY <1>1, <1>3, <1>4, <2>1 DEF Fresh, VerifyExport
    <2>2. CASE u # t
        BY <1>3, <2>2 DEF Fresh, InFlight
    <2>3. QED
        BY <2>1, <2>2
<1>6. Sound(store)' /\ Sound(file.es)' /\ Rooted(store)' /\ Rooted(file.es)' /\ BrokenIsLoaded'
    BY <1>1 DEF SerialInv, Sound, Damaged, VerifyExport, Gapless, Rooted, BrokenIsLoaded, Broken
<1>7. FileKeeps'
    <2> SUFFICES ASSUME ~lost, ~behind, \A u \in Appenders : apc'[u] # "write"
                 PROVE  Keeps(file.es)'
        BY <1>1 DEF FileKeeps
    <2>1. Keeps(file.es)
        BY <1>1, <1>3 DEF SerialInv, FileKeeps
    <2>2. QED
        BY <1>1, <1>3, <2>1 DEF Keeps, Holds
<1>8. StoreKeeps'
    <2> SUFFICES ASSUME up, ~lost
                 PROVE  /\ Keeps(store)'
                        /\ \A u \in Appenders : apc'[u] \in Stored => Holds(store', entry'[u])
        BY <1>1 DEF StoreKeeps, Stored, Holds
    <2>1. /\ Keeps(store)
          /\ \A u \in Appenders : apc[u] \in Stored => Holds(store, entry[u])
        BY DEF SerialInv, StoreKeeps
    <2>2. \A u \in Appenders : apc'[u] \in Stored => Holds(store', entry'[u])
        BY <1>1, <1>3, <2>1 DEF Stored
    <2>3. Keeps(store)'
        BY <1>1, <1>3, <2>1 DEF Keeps, Holds
    <2>4. QED
        BY <2>2, <2>3
<1>9. QED
    BY <1>3, <1>5, <1>6, <1>7, <1>8 DEF SerialInv

(* Opening the file for writing, or failing to: until the handler has      *)
(* written it, or because the write failed, nothing is asked of the file.  *)
LEMMA OpenSerial ==
    ASSUME ServiceTypeOK, SerialInv, NEW t \in Appenders, OpenFile(t)
    PROVE  SerialInv'
<1>1. PICK to \in {"write", "answer"} :
          /\ apc[t] = "open" /\ apc' = [apc EXCEPT ![t] = to]
          /\ IF to = "write" THEN file' = Torn ELSE file' = file /\ behind'
    BY DEF OpenFile, Step
<1>2. UNCHANGED <<up, store, entry, acked, lost>> /\ copy' = copy
    BY DEF OpenFile
<1>3. to \in AppendPCs /\ apc[t] \in InFlight
    BY <1>1 DEF AppendPCs, InFlight
<1>4. /\ Alone' /\ apc'[t] = to
      /\ \A u \in Appenders : u # t => apc'[u] = apc[u] /\ apc'[u] \notin InFlight
    BY <1>1, <1>3, AloneStep
<1>5. VerifyExport(store) /\ copy[t] = store
    BY <1>1 DEF SerialInv, Fresh, InFlight
<1>6. ASSUME NEW u \in Appenders PROVE Fresh(u)'
    <2>1. CASE u = t
        BY <1>1, <1>2, <1>4, <1>5, <2>1 DEF Fresh, VerifyExport, InFlight
    <2>2. CASE u # t
        BY <1>4, <2>2 DEF Fresh, InFlight
    <2>3. QED
        BY <2>1, <2>2
<1>7. Sound(store)' /\ Rooted(store)'
    BY <1>2 DEF SerialInv, Sound, Damaged, VerifyExport, Gapless, Rooted
<1>8. file'.es = file.es \/ file'.es = << >>
    BY <1>1, FileForms
<1>9. Sound(file.es)' /\ Rooted(file.es)'
    <2>1. Sound(file'.es) /\ Rooted(file'.es)
        BY <1>8, EmptyChain DEF SerialInv
    <2>2. QED
        BY <2>1 DEF Sound, Damaged, VerifyExport, Gapless, Rooted
<1>10. FileKeeps'
    BY <1>1, <1>4 DEF FileKeeps
<1>11. StoreKeeps'
    <2> SUFFICES ASSUME up, ~lost
                 PROVE  /\ Keeps(store)'
                        /\ \A u \in Appenders : apc'[u] \in Stored => Holds(store', entry'[u])
        BY <1>2 DEF StoreKeeps, Stored, Holds
    <2>1. /\ Keeps(store)
          /\ \A u \in Appenders : apc[u] \in Stored => Holds(store, entry[u])
        BY DEF SerialInv, StoreKeeps
    <2>2. \A u \in Appenders : apc'[u] \in Stored => Holds(store', entry'[u])
        BY <1>1, <1>2, <1>4, <2>1 DEF Stored
    <2>3. Keeps(store)'
        BY <1>2, <2>1, <2>2 DEF Keeps, Stored, Holds
    <2>4. QED
        BY <2>2, <2>3
<1>12. BrokenIsLoaded'
    <2>1. ~(up /\ Broken(file))
        BY <1>5 DEF SerialInv, BrokenIsLoaded, Broken
    <2>2. CASE file' = Torn
        BY <2>2, FileForms DEF BrokenIsLoaded, Broken
    <2>3. CASE file' = file
        BY <1>2, <2>1, <2>3 DEF BrokenIsLoaded, Broken, VerifyExport
    <2>4. QED
        BY <1>1, <2>2, <2>3
<1>13. QED
    BY <1>4, <1>6, <1>7, <1>9, <1>10, <1>11, <1>12 DEF SerialInv

(* Writing it: the file then holds the whole store, or is torn.            *)
LEMMA WriteSerial ==
    ASSUME ServiceTypeOK, SerialInv, up, NEW t \in Appenders, WriteFile(t)
    PROVE  SerialInv'
<1>1. /\ apc[t] = "write" /\ apc' = [apc EXCEPT ![t] = "answer"]
      /\ UNCHANGED <<up, store, entry, acked, lost>>
    BY DEF WriteFile, Step
<1>2. "answer" \in AppendPCs /\ apc[t] \in InFlight
    BY <1>1 DEF AppendPCs, InFlight
<1>3. /\ Alone' /\ apc'[t] = "answer"
      /\ \A u \in Appenders : u # t => apc'[u] = apc[u] /\ apc'[u] \notin InFlight
    BY <1>1, <1>2, AloneStep
<1>4. VerifyExport(store) /\ copy[t] = store /\ store \in Seq(LedgerEntries)
    BY <1>1 DEF SerialInv, Fresh, InFlight, ServiceTypeOK
<1>5. \/ file' = Whole(store) /\ file'.es = store
      \/ file' = Torn /\ file'.es = << >> /\ behind'
    BY <1>4, FileForms DEF WriteFile
<1>6. \A u \in Appenders : Fresh(u)'
    BY <1>3 DEF Fresh, InFlight
<1>7. Sound(store)' /\ Rooted(store)'
    BY <1>1 DEF SerialInv, Sound, Damaged, VerifyExport, Gapless, Rooted
<1>8. Sound(file.es)' /\ Rooted(file.es)'
    <2>1. Sound(file'.es) /\ Rooted(file'.es)
        BY <1>5, EmptyChain DEF SerialInv
    <2>2. QED
        BY <2>1 DEF Sound, Damaged, VerifyExport, Gapless, Rooted
<1>9. up /\ ~lost => Keeps(store)' /\ \A u \in Appenders : apc'[u] \in Stored => Holds(store', entry'[u])
    <2> SUFFICES ASSUME up, ~lost
                 PROVE  /\ Keeps(store)'
                        /\ \A u \in Appenders : apc'[u] \in Stored => Holds(store', entry'[u])
        OBVIOUS
    <2>1. /\ Keeps(store)
          /\ \A u \in Appenders : apc[u] \in Stored => Holds(store, entry[u])
        BY DEF SerialInv, StoreKeeps
    <2>2. \A u \in Appenders : apc'[u] \in Stored => Holds(store', entry'[u])
        BY <1>1, <1>3, <2>1 DEF Stored
    <2>3. Keeps(store)'
        BY <1>1, <2>1, <2>2 DEF Keeps, Stored, Holds
    <2>4. QED
        BY <2>2, <2>3
<1>10. StoreKeeps'
    BY <1>1, <1>9 DEF StoreKeeps, Stored, Holds
<1>11. FileKeeps'
    <2> SUFFICES ASSUME ~lost, ~behind' PROVE Keeps(file.es)'
        BY <1>1 DEF FileKeeps
    <2>1. file'.es = store'
        BY <1>1, <1>5
    <2>2. QED
        BY <1>9, <2>1 DEF Keeps, Holds
<1>12. BrokenIsLoaded'
    <2>1. CASE file' = Whole(store)
        <3>1. VerifyExport(file'.es)
            BY <1>4, <1>5, <2>1, FileForms
        <3>2. QED
            BY <3>1 DEF BrokenIsLoaded, Broken, VerifyExport
    <2>2. CASE file' = Torn
        BY <2>2, FileForms DEF BrokenIsLoaded, Broken
    <2>3. QED
        BY <1>5, <2>1, <2>2
<1>13. QED
    BY <1>3, <1>6, <1>7, <1>8, <1>10, <1>11, <1>12 DEF SerialInv

(* The answer to the client.                                               *)
LEMMA AcknowledgeSerial ==
    ASSUME ServiceTypeOK, SerialInv, NEW t \in Appenders, Acknowledge(t)
    PROVE  SerialInv'
<1>1. /\ apc[t] = "answer" /\ apc' = [apc EXCEPT ![t] = "done"] /\ acked' = acked \cup {entry[t]}
      /\ UNCHANGED <<up, store, file, entry, copy, behind, lost>>
    BY DEF Acknowledge, Step
<1>2. apc'[t] = "done" /\ \A u \in Appenders : u # t => apc'[u] = apc[u]
    BY <1>1 DEF ServiceTypeOK
<1>3. Alone'
    BY <1>2 DEF SerialInv, Alone, InFlight
<1>4. ASSUME NEW u \in Appenders PROVE Fresh(u)'
    <2>1. Fresh(u)
        BY DEF SerialInv
    <2>2. QED
        BY <1>1, <1>2, <2>1 DEF Fresh, InFlight, TailHash, VerifyExport
<1>5. Sound(store)' /\ Sound(file.es)' /\ Rooted(store)' /\ Rooted(file.es)' /\ BrokenIsLoaded'
    BY <1>1 DEF SerialInv, Sound, Damaged, VerifyExport, Gapless, Rooted, BrokenIsLoaded, Broken
<1>6. ASSUME NEW es, Keeps(es)
      PROVE  /\ \A e \in acked' : Holds(es, e)
             /\ \A u \in Appenders : apc'[u] = "answer" => Holds(es, entry'[u])
    BY <1>1, <1>2, <1>6 DEF Keeps
<1>7. FileKeeps'
    <2> SUFFICES ASSUME ~lost, ~behind, \A u \in Appenders : apc'[u] # "write"
                 PROVE  Keeps(file.es)'
        BY <1>1 DEF FileKeeps
    <2>1. Keeps(file.es)
        BY <1>1, <1>2 DEF SerialInv, FileKeeps
    <2>2. QED
        BY <1>1, <1>6, <2>1 DEF Keeps, Holds
<1>8. StoreKeeps'
    <2> SUFFICES ASSUME up, ~lost
                 PROVE  /\ Keeps(store)'
                        /\ \A u \in Appenders : apc'[u] \in Stored => Holds(store', entry'[u])
        BY <1>1 DEF StoreKeeps, Stored, Holds
    <2>1. /\ Keeps(store)
          /\ \A u \in Appenders : apc[u] \in Stored => Holds(store, entry[u])
        BY DEF SerialInv, StoreKeeps
    <2>2. Keeps(store)'
        BY <1>1, <1>6, <2>1 DEF Keeps, Holds
    <2>3. QED
        BY <1>1, <1>2, <2>1, <2>2 DEF Stored
<1>9. QED
    BY <1>3, <1>4, <1>5, <1>7, <1>8 DEF SerialInv

(* A restart loads what the file holds.                                    *)
LEMMA StartSerial ==
    ASSUME ServiceTypeOK, FileShape, DownIsIdle, SerialInv, Start
    PROVE  SerialInv'
<1>1. /\ store' = file.es /\ UNCHANGED <<file, apc, entry, copy, acked, behind, lost>>
      /\ ~behind
      /\ \A t \in Appenders : apc[t] \notin InFlight \cup {"answer"}
    BY DEF Start, FileShape, DownIsIdle
<1>2. Alone' /\ \A t \in Appenders : Fresh(t)'
    BY <1>1 DEF Alone, Fresh, InFlight
<1>3. Sound(store)' /\ Sound(file.es)' /\ Rooted(store)' /\ Rooted(file.es)'
    BY <1>1 DEF SerialInv, Sound, Damaged, VerifyExport, Gapless, Rooted
<1>4. ASSUME ~lost PROVE Keeps(file.es)
    BY <1>1, <1>4 DEF SerialInv, FileKeeps, InFlight
<1>5. FileKeeps'
    BY <1>1, <1>4 DEF FileKeeps, Keeps, Holds
<1>6. StoreKeeps'
    BY <1>1, <1>4 DEF StoreKeeps, Keeps, Holds, Stored, InFlight
<1>7. BrokenIsLoaded'
    BY <1>1 DEF BrokenIsLoaded
<1>8. QED
    BY <1>2, <1>3, <1>5, <1>6, <1>7 DEF SerialInv

(* A crash takes the memory and the handlers.                              *)
LEMMA CrashSerial ==
    ASSUME ServiceTypeOK, SerialInv, Crash
    PROVE  SerialInv'
<1>1. /\ store' = << >> /\ ~up' /\ UNCHANGED <<file, entry, copy, acked>>
      /\ ~lost' => ~lost /\ ~behind /\ \A t \in Appenders : apc[t] # "write"
    BY DEF Crash
<1>2. \A t \in Appenders : apc'[t] \notin InFlight \cup {"answer"}
    BY DEF Crash, InFlight
<1>3. Alone' /\ \A t \in Appenders : Fresh(t)'
    BY <1>2 DEF Alone, Fresh, InFlight
<1>4. Sound(file.es)' /\ Rooted(file.es)'
    BY <1>1 DEF SerialInv, Sound, Damaged, VerifyExport, Gapless, Rooted
<1>5. Sound(store)' /\ Rooted(store)'
    BY <1>1 DEF Sound, Damaged, VerifyExport, Gapless, Rooted
<1>6. FileKeeps'
    BY <1>1, <1>2 DEF SerialInv, FileKeeps, Keeps, Holds
<1>7. StoreKeeps' /\ BrokenIsLoaded'
    BY <1>1 DEF StoreKeeps, BrokenIsLoaded
<1>8. QED
    BY <1>3, <1>4, <1>5, <1>6, <1>7 DEF SerialInv

(* Damage while the service is down.                                       *)
LEMMA CorruptSerial ==
    ASSUME ServiceTypeOK, DownIsIdle, SerialInv, Corrupt
    PROVE  SerialInv'
<1>1. /\ ~up /\ ~up' /\ UNCHANGED <<store, apc, entry, copy, acked, behind, lost>>
      /\ \A t \in Appenders : apc[t] \notin InFlight \cup {"answer"}
    BY DEF Corrupt, memoryVars, historyVars, DownIsIdle
<1>2. file.es \in Seq(LedgerEntries)
    BY DEF ServiceTypeOK, FileStates
<1>3. PICK i \in DOMAIN file.es : DamagedAt(file.es, file'.es, i)
    BY CorruptFile
<1>4. Sound(file'.es) /\ Rooted(file'.es) /\ \A d : Holds(file.es, d) => Holds(file'.es, d)
    BY <1>2, <1>3, DamagedChain DEF SerialInv
<1>5. Sound(file.es)' /\ Rooted(file.es)'
    BY <1>4 DEF Sound, Damaged, VerifyExport, Gapless, Rooted
<1>6. Sound(store)' /\ Rooted(store)'
    BY <1>1 DEF SerialInv, Sound, Damaged, VerifyExport, Gapless, Rooted
<1>7. Alone' /\ \A t \in Appenders : Fresh(t)'
    BY <1>1 DEF Alone, Fresh, InFlight
<1>8. FileKeeps'
    <2> SUFFICES ASSUME ~lost, ~behind, \A t \in Appenders : apc[t] # "write"
                 PROVE  Keeps(file.es)'
        BY <1>1 DEF FileKeeps
    <2>1. \A e \in acked : Holds(file'.es, e)
        BY <1>4 DEF SerialInv, FileKeeps, Keeps
    <2>2. QED
        BY <1>1, <2>1 DEF Keeps, Holds
<1>9. StoreKeeps' /\ BrokenIsLoaded'
    BY <1>1 DEF StoreKeeps, BrokenIsLoaded
<1>10. QED
    BY <1>5, <1>6, <1>7, <1>8, <1>9 DEF SerialInv

(* ServiceInv is inductive.                                                *)
LEMMA ServiceNext == ServiceInv /\ [Next]_vars => ServiceInv'
<1> SUFFICES ASSUME ServiceInv, [Next]_vars PROVE ServiceInv'
    OBVIOUS
<1>1. ServiceTypeOK /\ FileShape /\ DownIsIdle /\ (~overlapped => SerialInv)
    BY DEF ServiceInv
<1>2. CASE Next
    <2>1. ServiceTypeOK' /\ FileShape' /\ DownIsIdle'
        BY <1>1, <1>2, TypeNext, ShapeNext
    <2>2. ASSUME ~overlapped' PROVE SerialInv'
        <3>1. SerialInv
            BY <1>1, <1>2, <2>2, OverlapStays
        <3>2. CASE Start
            BY <1>1, <3>1, <3>2, StartSerial
        <3>3. CASE Crash
            BY <1>1, <3>1, <3>3, CrashSerial
        <3>4. CASE Corrupt
            BY <1>1, <3>1, <3>4, CorruptSerial
        <3>5. CASE \E t \in Appenders : Arrive(t) \/ AppendStep(t)
            <4>1. PICK t \in Appenders : Arrive(t) \/ AppendStep(t)
                BY <3>5
            <4>2. WriteFile(t) => up
                BY DEF WriteFile, Step
            <4>3. QED
                BY <1>1, <2>2, <3>1, <4>1, <4>2, ArriveSerial, VerifySerial, TailSerial,
                   IndexSerial, LoadSerial, CommitSerial, MarshalSerial, OpenSerial, WriteSerial,
                   AcknowledgeSerial DEF AppendStep
        <3>6. QED
            BY <1>2, <3>2, <3>3, <3>4, <3>5 DEF Next
    <2>3. QED
        BY <2>1, <2>2 DEF ServiceInv
<1>3. CASE UNCHANGED vars
    BY <1>1, <1>3 DEF vars, memoryVars, historyVars, ServiceInv, ServiceTypeOK, FileShape,
       DownIsIdle, SerialInv, Alone, Fresh, TailHash, Sound, Damaged, VerifyExport, Gapless,
       Rooted, FileKeeps, StoreKeeps, Keeps, Holds, BrokenIsLoaded, Broken
<1>4. QED
    BY <1>2, <1>3

(* ServiceInv holds in every reachable state.                              *)
LEMMA ServiceInvariant == Spec => []ServiceInv
    BY ServiceInit, ServiceNext, PTL DEF Spec

-----------------------------------------------------------------------------
(* The theorems. *)

(* As long as appends do not overlap, the chain in memory and any          *)
(* ledger.json that parses verify and have no gaps, for any number of      *)
(* appends, crashes, restarts and failed writes.                           *)
THEOREM SerialChainHolds == Spec => []SerialChain
<1>1. ServiceInv => SerialChain
    BY DEF ServiceInv, SerialInv, SerialChain, Sound
<1>2. QED
    BY <1>1, ServiceInvariant, PTL

(* ... and every acknowledged append is in the ledger again after every    *)
(* restart, unless a write failed or was cut just before a crash.          *)
THEOREM AcknowledgedIsKept == Spec => []AcknowledgedKept
<1>1. ServiceInv => AcknowledgedKept
    BY DEF ServiceInv, SerialInv, StoreKeeps, Keeps, Holds, AcknowledgedKept
<1>2. QED
    BY <1>1, ServiceInvariant, PTL

(* ... and a broken ledger.json is neither extended nor replaced.          *)
THEOREM BrokenFileIsKept == Spec => BrokenFileKept
<1> DEFINE P == Broken(file) /\ ~overlapped' => Broken(file') /\ Len(file'.es) = Len(file.es)
<1>1. ASSUME ServiceInv, Next PROVE P
    <2> SUFFICES ASSUME Broken(file), ~overlapped'
                 PROVE  Broken(file') /\ Len(file'.es) = Len(file.es)
        OBVIOUS
    <2>1. SerialInv /\ ServiceTypeOK
        BY <1>1, OverlapStays DEF ServiceInv
    <2>2. CASE Corrupt
        <3>1. file.es \in Seq(LedgerEntries)
            BY <2>1 DEF ServiceTypeOK, FileStates
        <3>2. file'.status = file.status /\ \E i \in DOMAIN file.es : DamagedAt(file.es, file'.es, i)
            BY <2>1, <2>2, CorruptFile
        <3>3. PICK i \in DOMAIN file.es : DamagedAt(file.es, file'.es, i)
            BY <3>2
        <3>4. ~VerifyExport(file'.es)
            BY <2>1, <3>1, <3>3, DamagedChain DEF SerialInv, Broken
        <3>5. Len(file'.es) = Len(file.es)
            BY <3>3 DEF DamagedAt
        <3>6. QED
            BY <3>2, <3>4, <3>5 DEF Broken
    <2>3. CASE \E t \in Appenders : OpenFile(t) \/ WriteFile(t)
        <3>1. PICK t \in Appenders : OpenFile(t) \/ WriteFile(t)
            BY <2>3
        <3>2. up /\ apc[t] \in {"open", "write"}
            BY <3>1 DEF OpenFile, WriteFile, Step
        <3>3. VerifyExport(store)
            BY <2>1, <3>2 DEF SerialInv, Fresh, InFlight
        <3>4. QED
            BY <2>1, <3>2, <3>3 DEF SerialInv, BrokenIsLoaded, Broken
    <2>4. CASE file' = file
        BY <2>4
    <2>5. QED
        BY <1>1, <2>2, <2>3, <2>4 DEF Next, Start, Crash, Arrive, AppendStep, VerifyStore, ReadTail,
           ReadIndex, LoadSlice, CommitSlice, MarshalIndent, Acknowledge, historyVars
<1>2. ServiceInv /\ [Next]_vars => [P]_vars
    BY <1>1
<1>3. QED
    BY <1>2, ServiceInvariant, PTL DEF Spec, BrokenFileKept
=============================================================================
