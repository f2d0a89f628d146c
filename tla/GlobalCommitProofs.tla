-------------------------- MODULE GlobalCommitProofs --------------------------
(***************************************************************************)
(* Proofs about GlobalCommit for any set of transactions and storages, any *)
(* number of failures and crashes, and any behaviour of the callers.       *)
(***************************************************************************)
EXTENDS GlobalCommit, DecisionLogProofs

-------------------------------------------------------------------------------
(* The inductive invariant.                                                *)

Inv == CommitTypeOK /\ Agreement

(* What a step on behalf of another transaction leaves alone of u.         *)
Untouched(u) ==
    /\ state'[u] = state[u] /\ wset'[u] = wset[u] /\ reply'[u] = reply[u]
    /\ part'[u] = part[u] /\ wal'[u] = wal[u] /\ seqOf'[u] = seqOf[u]

(* A transaction a step does not touch keeps its agreement, as the durable *)
(* part of the log only grows.                                             *)
LEMMA Frame ==
    ASSUME CommitTypeOK, NEW u \in Txns, TxnAgrees(u), Untouched(u),
           stable <= stable', stable' \in Nat
    PROVE  TxnAgrees(u)'
<1>1. stable \in Nat /\ seqOf[u] \in Nat
  BY DEF CommitTypeOK, LogTypeOK
<1>2. HandleAgrees(u)'
  BY <1>1 DEF TxnAgrees, HandleAgrees, Untouched, AllIn, Decided
<1>3. ASSUME NEW s \in wset'[u] PROVE WalAgrees(u, s)' /\ LogAgrees(u, s)'
  BY <1>1, <1>3 DEF TxnAgrees, WalAgrees, LogAgrees, Untouched, Decided
<1>4. Enlisted(u)'
  BY Zenon DEF TxnAgrees, Enlisted, Untouched
<1>5. QED
  BY Zenon, <1>2, <1>3, <1>4 DEF TxnAgrees

(* A step of t preserves the invariant when it keeps the types, the log,   *)
(* t's own agreement and everything of the others.                         *)
LEMMA StepOf ==
    ASSUME Inv, NEW t \in Txns, CommitTypeOK', LogInv', stable <= stable',
           TxnAgrees(t)', \A u \in Txns : u # t => Untouched(u)
    PROVE  Inv'
<1>1. stable' \in Nat
  BY DEF CommitTypeOK, LogTypeOK
<1>2. ASSUME NEW u \in Txns PROVE TxnAgrees(u)'
  <2>1. CASE u = t
    BY Zenon, <2>1
  <2>2. CASE u # t
    BY Zenon, <1>1, <2>2, Frame DEF Inv, Agreement
  <2>3. QED
    BY Zenon, <2>1, <2>2
<1>3. QED
  BY Zenon, <1>2 DEF Inv, Agreement

(* Initially everything is empty and agrees.                               *)
LEMMA InitInv == Init => Inv
<1>1. SUFFICES ASSUME Init PROVE Inv
  BY Zenon
<1>2. LogTypeOK /\ LogInv
  BY <1>1 DEF Init, LogInit, LogTypeOK, LogInv
<1>3. CommitTypeOK
  <2>1. snap \in [seq : Nat, vis : [Storages -> SUBSET Txns]]
    BY Zenon, <1>1 DEF Init
  <2>2. state \in [Txns -> TxnStates] /\ wset \in [Txns -> SUBSET Storages]
    BY Zenon, <1>1 DEF Init, TxnStates
  <2>3. /\ part \in [Txns -> [Storages -> PartStates]]
        /\ wal \in [Txns -> [Storages -> WalRecords]]
    BY Zenon, <1>1 DEF Init, PartStates, WalRecords
  <2>4. faults \in 0..MaxFaults /\ crashes \in 0..MaxCrashes
    BY <1>1, BoundsAssumption DEF Init
  <2>5. QED
    BY Zenon, <1>1, <1>2, <2>1, <2>2, <2>3, <2>4 DEF Init, CommitTypeOK
<1>4. ASSUME NEW t \in Txns PROVE TxnAgrees(t)
  <2>1. state[t] = "Idle" /\ wset[t] = {} /\ reply[t] = "none" /\ seqOf[t] = 0
    BY Zenon, <1>1 DEF Init, LogInit
  <2>2. HandleAgrees(t)
    BY <2>1 DEF HandleAgrees, AllIn, Decided
  <2>3. Enlisted(t)
    BY Zenon, <1>1 DEF Init, Enlisted
  <2>4. QED
    BY Zenon, <2>1, <2>2, <2>3 DEF TxnAgrees
<1>5. QED
  BY Zenon, <1>2, <1>3, <1>4 DEF Inv, Agreement

(* What a step on participant s of t leaves alone of t.                    *)
OnlyParticipant(t, s) ==
    /\ state'[t] = state[t] /\ wset'[t] = wset[t] /\ seqOf'[t] = seqOf[t]
    /\ reply'[t] \in {reply[t], "none"}
    /\ \A r \in Storages : r # s => part'[t][r] = part[t][r] /\ wal'[t][r] = wal[t][r]

(* A step on one participant keeps t's agreement if it keeps that          *)
(* participant's, in the states where participants still change.           *)
LEMMA ParticipantAgrees ==
    ASSUME CommitTypeOK, NEW t \in Txns, NEW s \in wset[t], TxnAgrees(t),
           OnlyParticipant(t, s), stable' = stable,
           state[t] \in {"Active", "Preparing", "ApplyingCommit", "RollbackPending"},
           WalAgrees(t, s)', LogAgrees(t, s)'
    PROVE  TxnAgrees(t)'
<1>1. wset[t] \subseteq Storages /\ stable \in Nat /\ seqOf[t] \in Nat
  BY DEF CommitTypeOK, LogTypeOK
<1>2. HandleAgrees(t)'
  BY Zenon, <1>1 DEF TxnAgrees, HandleAgrees, OnlyParticipant, Decided
<1>3. ASSUME NEW r \in wset'[t] PROVE WalAgrees(t, r)' /\ LogAgrees(t, r)'
  <2>1. CASE r = s
    BY Zenon, <2>1
  <2>2. CASE r # s
    BY Zenon, <1>1, <1>3, <2>2 DEF TxnAgrees, WalAgrees, LogAgrees, OnlyParticipant, Decided
  <2>3. QED
    BY Zenon, <2>1, <2>2
<1>4. Enlisted(t)'
  BY Zenon, <1>1 DEF TxnAgrees, Enlisted, OnlyParticipant
<1>5. QED
  BY Zenon, <1>2, <1>3, <1>4 DEF TxnAgrees


-------------------------------------------------------------------------------
(* One lemma per action.                                                   *)

(* Opening a handle preserves the invariant.                               *)
LEMMA BeginInv ==
    ASSUME Inv, NEW t \in Txns, Begin(t)
    PROVE  Inv'
<1> USE DEF Inv, Agreement
<1>1. LogOK' /\ stable <= stable' /\ seqOf' = seqOf
  BY Zenon, FlushLog DEF CommitTypeOK, LogOK, LogStays, Begin
<1>2. CommitTypeOK'
  BY Zenon, <1>1, BoundsAssumption, NoTxnAssumption
  DEF LogOK, CommitTypeOK, Begin, Quiet, SetState, txnVars, storageVars, envVars, TxnStates,
      PartStates, WalRecords, Unfinished
<1>3. TxnAgrees(t)'
  BY <1>1
  DEF CommitTypeOK, LogTypeOK, Begin, Quiet, SetState, txnVars, storageVars, envVars,
      TxnAgrees, HandleAgrees, Enlisted, WalAgrees, LogAgrees, AllIn, Decided,
      Unfinished
<1>4. \A u \in Txns : u # t => Untouched(u)
  BY Zenon, <1>1 DEF CommitTypeOK, Begin, Quiet, SetState, txnVars, storageVars, envVars, Untouched
<1>5. QED
  BY Zenon, <1>1, <1>2, <1>3, <1>4, StepOf DEF LogOK

(* A first write to a storage preserves the invariant.                     *)
LEMMA WriteInv ==
    ASSUME Inv, NEW t \in Txns, NEW s \in Storages, Write(t, s)
    PROVE  Inv'
<1> USE DEF Inv, Agreement
<1>1. LogOK' /\ stable <= stable' /\ seqOf' = seqOf
  BY Zenon, FlushLog DEF CommitTypeOK, LogOK, LogStays, Write
<1>2. CommitTypeOK'
  BY Zenon, <1>1, BoundsAssumption, NoTxnAssumption
  DEF LogOK, CommitTypeOK, Write, Quiet, SetPart, txnVars, storageVars, envVars, TxnStates,
      PartStates, WalRecords, Unfinished
<1>3. TxnAgrees(t)'
  <2>1. /\ state[t] = "Active" /\ state'[t] = "Active" /\ reply'[t] = reply[t]
        /\ s \notin wset[t] /\ wset'[t] = wset[t] \union {s}
        /\ part'[t][s] = "Active" /\ wal' = wal
        /\ \A r \in Storages : r # s => part'[t][r] = part[t][r]
    BY Zenon DEF CommitTypeOK, Write, SetPart
  <2>2. ~Decided(t) /\ ~Decided(t)' /\ wal[t][s] = "none" /\ wset[t] \subseteq Storages
    <3>1. ~Decided(t) /\ wal[t][s] = "none"
      BY Zenon, <2>1 DEF TxnAgrees, HandleAgrees, Enlisted
    <3>2. wset[t] \subseteq Storages
      BY Zenon DEF CommitTypeOK
    <3>3. QED
      BY Zenon, <1>1, <3>1, <3>2 DEF Decided
  <2>3. HandleAgrees(t)'
    BY Zenon, <2>1, <2>2 DEF TxnAgrees, HandleAgrees
  <2>4. ASSUME NEW r \in wset'[t] PROVE WalAgrees(t, r)' /\ LogAgrees(t, r)'
    BY <1>1, <2>1, <2>2, <2>4 DEF TxnAgrees, WalAgrees, LogAgrees, Decided
  <2>5. Enlisted(t)'
    BY Zenon, <2>1 DEF TxnAgrees, Enlisted
  <2>6. QED
    BY Zenon, <2>3, <2>4, <2>5 DEF TxnAgrees
<1>4. \A u \in Txns : u # t => Untouched(u)
  BY Zenon, <1>1 DEF CommitTypeOK, Write, Quiet, SetPart, txnVars, storageVars, envVars, Untouched
<1>5. QED
  BY Zenon, <1>1, <1>2, <1>3, <1>4, StepOf DEF LogOK

(* A failing statement preserves the invariant.                            *)
LEMMA StatementFailsInv ==
    ASSUME Inv, NEW t \in Txns, NEW s \in Storages, StatementFails(t, s)
    PROVE  Inv'
<1> USE DEF Inv, Agreement
<1>1. LogOK' /\ stable <= stable' /\ seqOf' = seqOf
  BY Zenon, FlushLog DEF CommitTypeOK, LogOK, LogStays, StatementFails
<1>2. CommitTypeOK'
  BY <1>1, BoundsAssumption, NoTxnAssumption
  DEF LogOK, CommitTypeOK, StatementFails, Quiet, SetPart, Fault, txnVars, storageVars,
      envVars, TxnStates, PartStates, WalRecords, Unfinished
<1>3. TxnAgrees(t)'
  <2>1. s \in wset[t] /\ state[t] = "Active" /\ stable' = stable
    BY Zenon DEF StatementFails, logVars
  <2>2. /\ OnlyParticipant(t, s) /\ part[t][s] = "Active"
        /\ part'[t][s] = "RollbackRequired" /\ wal'[t][s] = wal[t][s]
    BY Zenon, <1>1 DEF CommitTypeOK, StatementFails, SetPart, txnVars, OnlyParticipant
  <2>3. ~Decided(t) /\ WalAgrees(t, s)
    BY Zenon, <2>1 DEF TxnAgrees, HandleAgrees
  <2>4. WalAgrees(t, s)' /\ LogAgrees(t, s)'
    BY Zenon, <1>1, <2>2, <2>3 DEF WalAgrees, LogAgrees, Decided
  <2>5. QED
    BY Zenon, <2>1, <2>2, <2>4, ParticipantAgrees
<1>4. \A u \in Txns : u # t => Untouched(u)
  BY Zenon, <1>1
  DEF CommitTypeOK, StatementFails, Quiet, SetPart, Fault, txnVars, storageVars, envVars,
      Untouched
<1>5. QED
  BY <1>1, <1>2, <1>3, <1>4, StepOf DEF LogOK

(* Entering commit() preserves the invariant.                              *)
LEMMA StartCommitInv ==
    ASSUME Inv, NEW t \in Txns, StartCommit(t)
    PROVE  Inv'
<1> USE DEF Inv, Agreement
<1>1. LogOK' /\ stable <= stable' /\ seqOf' = seqOf
  BY Zenon, FlushLog DEF CommitTypeOK, LogOK, LogStays, StartCommit
<1>2. CommitTypeOK'
  BY Zenon, <1>1, BoundsAssumption, NoTxnAssumption
  DEF LogOK, CommitTypeOK, StartCommit, Quiet, SetState, txnVars, storageVars, envVars,
      TxnStates, PartStates, WalRecords, Unfinished
<1>3. TxnAgrees(t)'
  <2>1. /\ state[t] \in {"Active", "Preparing"} \union Unfinished
        /\ state'[t] = IF state[t] = "Active" THEN "Preparing" ELSE state[t]
        /\ wset' = wset /\ part' = part /\ wal' = wal /\ reply' = reply
        /\ stable' = stable
    BY Zenon DEF CommitTypeOK, StartCommit, SetState, storageVars, logVars
  <2>2. CASE state[t] = "Active"
    <3>1. HandleAgrees(t)' /\ Enlisted(t)'
      BY <1>1, <2>1, <2>2 DEF TxnAgrees, HandleAgrees, Enlisted, Decided
    <3>2. ASSUME NEW r \in wset'[t] PROVE WalAgrees(t, r)' /\ LogAgrees(t, r)'
      BY Zenon, <1>1, <2>1, <2>2 DEF TxnAgrees, WalAgrees, LogAgrees, Decided
    <3>3. QED
      BY Zenon, <3>1, <3>2 DEF TxnAgrees
  <2>3. CASE state[t] # "Active"
    <3>1. Untouched(t)
      BY Zenon, <1>1, <2>1, <2>3 DEF Untouched
    <3>2. QED
      BY <2>1, <3>1, Frame DEF CommitTypeOK, LogTypeOK
  <2>4. QED
    BY Zenon, <2>2, <2>3
<1>4. \A u \in Txns : u # t => Untouched(u)
  BY Zenon, <1>1
  DEF CommitTypeOK, StartCommit, Quiet, SetState, txnVars, storageVars, envVars, Untouched
<1>5. QED
  BY <1>1, <1>2, <1>3, <1>4, StepOf DEF LogOK

(* Committing nothing preserves the invariant.                             *)
LEMMA CommitReadOnlyInv ==
    ASSUME Inv, NEW t \in Txns, CommitReadOnly(t)
    PROVE  Inv'
<1> USE DEF Inv, Agreement
<1>1. LogOK' /\ stable <= stable' /\ seqOf' = seqOf
  BY Zenon, FlushLog DEF CommitTypeOK, LogOK, LogStays, CommitReadOnly
<1>2. CommitTypeOK'
  BY Zenon, <1>1, BoundsAssumption, NoTxnAssumption
  DEF LogOK, CommitTypeOK, CommitReadOnly, Quiet, SetState, txnVars, storageVars, envVars,
      TxnStates, PartStates, WalRecords, Unfinished
<1>3. TxnAgrees(t)'
  <2>1. /\ state[t] = "Active" /\ state'[t] = "Committed" /\ wset[t] = {}
        /\ wset' = wset /\ part' = part /\ wal' = wal /\ reply' = reply
    BY Zenon DEF CommitTypeOK, CommitReadOnly, SetState, storageVars
  <2>2. HandleAgrees(t) /\ Enlisted(t)
    BY Zenon DEF TxnAgrees
  <2>3. HandleAgrees(t)' /\ Enlisted(t)'
    BY Zenon, <1>1, <2>1, <2>2 DEF HandleAgrees, Enlisted, AllIn, Decided
  <2>4. QED
    BY Zenon, <2>1, <2>3 DEF TxnAgrees
<1>4. \A u \in Txns : u # t => Untouched(u)
  BY Zenon, <1>1
  DEF CommitTypeOK, CommitReadOnly, Quiet, SetState, txnVars, storageVars, envVars, Untouched
<1>5. QED
  BY <1>1, <1>2, <1>3, <1>4, StepOf DEF LogOK

(* A failing read context preserves the invariant.                         *)
LEMMA ReadCommitFailsInv ==
    ASSUME Inv, NEW t \in Txns, ReadCommitFails(t)
    PROVE  Inv'
<1> USE DEF Inv, Agreement
<1>1. LogOK' /\ stable <= stable' /\ seqOf' = seqOf
  BY Zenon, FlushLog DEF CommitTypeOK, LogOK, LogStays, ReadCommitFails
<1>2. CommitTypeOK'
  BY <1>1, BoundsAssumption, NoTxnAssumption
  DEF LogOK, CommitTypeOK, ReadCommitFails, StatusFails, Running, Return, Fault, TxnStates,
      PartStates, WalRecords, Unfinished
<1>3. TxnAgrees(t)'
  <2>1. /\ state[t] = "Preparing" /\ state'[t] = "Preparing" /\ reply'[t] = "none"
        /\ wset' = wset /\ part' = part /\ wal' = wal /\ stable' = stable
    BY Zenon DEF CommitTypeOK, ReadCommitFails, Return, storageVars, logVars
  <2>2. HandleAgrees(t) /\ Enlisted(t)
    BY DEF TxnAgrees
  <2>3. HandleAgrees(t)' /\ Enlisted(t)'
    BY Zenon, <1>1, <2>1, <2>2 DEF HandleAgrees, Enlisted, Decided
  <2>4. ASSUME NEW r \in wset'[t] PROVE WalAgrees(t, r)' /\ LogAgrees(t, r)'
    <3>1. WalAgrees(t, r) /\ LogAgrees(t, r)
      BY Zenon, <2>1, <2>4 DEF TxnAgrees
    <3>2. QED
      BY Zenon, <1>1, <2>1, <3>1 DEF WalAgrees, LogAgrees, Decided
  <2>5. QED
    BY <2>3, <2>4 DEF TxnAgrees
<1>4. \A u \in Txns : u # t => Untouched(u)
  BY Zenon, <1>1
  DEF CommitTypeOK, ReadCommitFails, Running, Return, Fault, txnVars, storageVars, envVars,
      Untouched
<1>5. QED
  BY <1>1, <1>2, <1>3, <1>4, StepOf DEF LogOK

(* A durable Prepare preserves the invariant.                              *)
LEMMA PrepareOkInv ==
    ASSUME Inv, NEW t \in Txns, NEW s \in Storages, PrepareOk(t, s)
    PROVE  Inv'
<1> USE DEF Inv, Agreement
<1>1. LogOK' /\ stable <= stable' /\ seqOf' = seqOf
  BY Zenon, FlushLog DEF CommitTypeOK, LogOK, LogStays, PrepareOk
<1>2. CommitTypeOK'
  BY Zenon, <1>1, BoundsAssumption, NoTxnAssumption
  DEF LogOK, CommitTypeOK, PrepareOk, Running, NextParticipant, SetPart, SetWal, txnVars,
      storageVars, envVars, TxnStates, PartStates, WalRecords, Unfinished
<1>3. TxnAgrees(t)'
  <2>1. s \in wset[t] /\ state[t] = "Preparing" /\ stable' = stable
    BY Zenon DEF PrepareOk, NextParticipant, logVars
  <2>2. OnlyParticipant(t, s) /\ part'[t][s] = "Prepared" /\ wal'[t][s] = "Prepare"
    BY Zenon, <1>1 DEF CommitTypeOK, PrepareOk, SetPart, SetWal, txnVars, OnlyParticipant
  <2>3. WalAgrees(t, s)' /\ LogAgrees(t, s)'
    BY Zenon, <2>2 DEF WalAgrees, LogAgrees
  <2>4. QED
    BY Zenon, <2>1, <2>2, <2>3, ParticipantAgrees
<1>4. \A u \in Txns : u # t => Untouched(u)
  BY Zenon, <1>1
  DEF CommitTypeOK, PrepareOk, Running, NextParticipant, SetPart, SetWal, txnVars,
      storageVars, envVars, Untouched
<1>5. QED
  BY <1>1, <1>2, <1>3, <1>4, StepOf DEF LogOK

(* A failing Prepare preserves the invariant.                              *)
LEMMA PrepareFailsInv ==
    ASSUME Inv, NEW t \in Txns, NEW s \in Storages, PrepareFails(t, s)
    PROVE  Inv'
<1> USE DEF Inv, Agreement
<1>1. LogOK' /\ stable <= stable' /\ seqOf' = seqOf
  BY Zenon, FlushLog DEF CommitTypeOK, LogOK, LogStays, PrepareFails
<1>2. CommitTypeOK'
  <2>1. faults' \in 0..MaxFaults
    BY BoundsAssumption
    DEF CommitTypeOK, PrepareFails, Running, NextParticipant, SetPart, SetState, Fault
  <2>2. /\ part' \in [Txns -> [Storages -> PartStates]]
        /\ wal' \in [Txns -> [Storages -> WalRecords]]
    <3>1. PICK p \in PartStates, w \in WalRecords :
            /\ part' = part \/ part' = [part EXCEPT ![t][s] = p]
            /\ wal' = wal \/ wal' = [wal EXCEPT ![t][s] = w]
      BY
      DEF PrepareFails, Running, NextParticipant, SetPart, SetState, Fault, PartStates,
          WalRecords
    <3>2. part' \in [Txns -> [Storages -> PartStates]]
      <4>1. CASE part' = part
        BY Zenon, <4>1 DEF CommitTypeOK
      <4>2. CASE part' = [part EXCEPT ![t][s] = p]
        BY Zenon, <4>2 DEF CommitTypeOK
      <4>3. QED
        BY Zenon, <3>1, <4>1, <4>2
    <3>3. wal' \in [Txns -> [Storages -> WalRecords]]
      <4>1. CASE wal' = wal
        BY Zenon, <4>1 DEF CommitTypeOK
      <4>2. CASE wal' = [wal EXCEPT ![t][s] = w]
        BY Zenon, <4>2 DEF CommitTypeOK
      <4>3. QED
        BY Zenon, <3>1, <4>1, <4>2
    <3>4. QED
      BY Zenon, <3>2, <3>3
  <2>3. /\ writer' \in [Storages -> Txns \union {NoTxn}]
        /\ blocked' \subseteq Storages /\ poisoned' \subseteq Storages
    BY Zenon DEF CommitTypeOK, PrepareFails, Running, NextParticipant, SetPart, SetState, Fault
  <2>4. /\ state' \in [Txns -> TxnStates] /\ wset' \in [Txns -> SUBSET Storages]
        /\ snap' \in [seq : Nat, vis : [Storages -> SUBSET Txns]]
        /\ caller' \in Txns \union {NoTxn}
        /\ reply' \in [Txns -> {"none", "commit", "abort"}]
        /\ mode' \in {"up", "down", "opening"} /\ crashes' \in 0..MaxCrashes
    BY
    DEF CommitTypeOK, PrepareFails, Running, NextParticipant, SetPart, SetState, Fault,
        txnVars, storageVars, envVars, TxnStates
  <2>5. QED
    BY Zenon, <1>1, <2>1, <2>2, <2>3, <2>4 DEF LogOK, CommitTypeOK
<1>3. TxnAgrees(t)'
  <2>1. /\ s \in wset[t] /\ wset[t] \subseteq Storages
        /\ state[t] = "Preparing" /\ state'[t] = "RollbackPending"
        /\ wset'[t] = wset[t] /\ reply'[t] = reply[t] /\ wal' = wal
        /\ part'[t][s] \in {part[t][s], "Active", "PreparePending"}
        /\ \A r \in Storages : r # s => part'[t][r] = part[t][r]
    BY DEF CommitTypeOK, PrepareFails, NextParticipant, SetPart, SetState
  <2>2. HandleAgrees(t) /\ ~Decided(t) /\ ~Decided(t)'
    BY Zenon, <1>1, <2>1 DEF TxnAgrees, HandleAgrees, Decided
  <2>3. HandleAgrees(t)'
    BY Zenon, <2>1, <2>2 DEF HandleAgrees
  <2>4. ASSUME NEW r \in wset'[t] PROVE WalAgrees(t, r)' /\ LogAgrees(t, r)'
    <3>1. WalAgrees(t, r) /\ LogAgrees(t, r) /\ r \in Storages
      BY Zenon, <2>1, <2>4 DEF TxnAgrees
    <3>2. part'[t][r] \in {part[t][r], "Active", "PreparePending"}
      BY Zenon, <2>1, <3>1
    <3>3. QED
      BY Zenon, <2>1, <2>2, <3>1, <3>2 DEF WalAgrees, LogAgrees
  <2>5. Enlisted(t)'
    BY <2>1 DEF TxnAgrees, Enlisted
  <2>6. QED
    BY <2>3, <2>4, <2>5 DEF TxnAgrees
<1>4. \A u \in Txns : u # t => Untouched(u)
  BY Zenon, <1>1
  DEF CommitTypeOK, PrepareFails, Running, NextParticipant, SetPart, SetState, Fault, txnVars,
      storageVars, envVars, Untouched
<1>5. QED
  BY <1>1, <1>2, <1>3, <1>4, StepOf DEF LogOK

(* A durable Commit of one participant preserves the invariant.            *)
LEMMA ApplyOkInv ==
    ASSUME Inv, NEW t \in Txns, NEW s \in Storages, ApplyOk(t, s)
    PROVE  Inv'
<1> USE DEF Inv, Agreement
<1>1. LogOK' /\ stable <= stable' /\ seqOf' = seqOf
  BY Zenon, FlushLog DEF CommitTypeOK, LogOK, LogStays, ApplyOk
<1>2. CommitTypeOK'
  BY Zenon, <1>1, BoundsAssumption, NoTxnAssumption
  DEF LogOK, CommitTypeOK, ApplyOk, AtApply, Running, NextParticipant, SetPart, SetWal,
      Release, txnVars, storageVars, envVars, TxnStates, PartStates, WalRecords,
      Unfinished
<1>3. TxnAgrees(t)'
  <2>1. s \in wset[t] /\ state[t] = "ApplyingCommit" /\ stable' = stable
    BY Zenon DEF ApplyOk, AtApply, NextParticipant, logVars
  <2>2. OnlyParticipant(t, s) /\ part'[t][s] = "Committed" /\ wal'[t][s] = "Commit"
    BY Zenon, <1>1 DEF CommitTypeOK, ApplyOk, SetPart, SetWal, txnVars, OnlyParticipant
  <2>3. WalAgrees(t, s)'
    BY Zenon, <2>2 DEF WalAgrees
  <2>4. LogAgrees(t, s)'
    BY Zenon, <1>1, <2>1, <2>2 DEF TxnAgrees, HandleAgrees, LogAgrees, Decided
  <2>5. QED
    BY Zenon, <2>1, <2>2, <2>3, <2>4, ParticipantAgrees
<1>4. \A u \in Txns : u # t => Untouched(u)
  BY Zenon, <1>1
  DEF CommitTypeOK, ApplyOk, AtApply, Running, NextParticipant, SetPart, SetWal, Release,
      txnVars, storageVars, envVars, Untouched
<1>5. QED
  BY <1>1, <1>2, <1>3, <1>4, StepOf DEF LogOK

(* A failing Commit of one participant preserves the invariant.            *)
LEMMA ApplyFailsInv ==
    ASSUME Inv, NEW t \in Txns, NEW s \in Storages, ApplyFails(t, s)
    PROVE  Inv'
<1> USE DEF Inv, Agreement
<1>1. LogOK' /\ stable <= stable' /\ seqOf' = seqOf
  BY Zenon, FlushLog DEF CommitTypeOK, LogOK, LogStays, ApplyFails
<1>2. CommitTypeOK'
  <2>1. faults' \in 0..MaxFaults
    BY BoundsAssumption
    DEF CommitTypeOK, ApplyFails, AtApply, Running, NextParticipant, SetPart, SetWal, Release,
        Fault, Return, storageVars
  <2>2. /\ part' \in [Txns -> [Storages -> PartStates]]
        /\ wal' \in [Txns -> [Storages -> WalRecords]]
    <3>1. PICK p \in PartStates, w \in WalRecords :
            /\ part' = part \/ part' = [part EXCEPT ![t][s] = p]
            /\ wal' = wal \/ wal' = [wal EXCEPT ![t][s] = w]
      BY
      DEF ApplyFails, AtApply, Running, NextParticipant, SetPart, SetWal, Release,
          Fault, Return, storageVars, PartStates, WalRecords
    <3>2. part' \in [Txns -> [Storages -> PartStates]]
      <4>1. CASE part' = part
        BY <4>1 DEF CommitTypeOK
      <4>2. CASE part' = [part EXCEPT ![t][s] = p]
        BY <4>2 DEF CommitTypeOK
      <4>3. QED
        BY <3>1, <4>1, <4>2
    <3>3. wal' \in [Txns -> [Storages -> WalRecords]]
      <4>1. CASE wal' = wal
        BY <4>1 DEF CommitTypeOK
      <4>2. CASE wal' = [wal EXCEPT ![t][s] = w]
        BY <4>2 DEF CommitTypeOK
      <4>3. QED
        BY <3>1, <4>1, <4>2
    <3>4. QED
      BY <3>2, <3>3
  <2>3. /\ writer' \in [Storages -> Txns \union {NoTxn}]
        /\ blocked' \subseteq Storages /\ poisoned' \subseteq Storages
    <3>1. /\ blocked' = blocked
          /\ poisoned' = poisoned \/ poisoned' = poisoned \union {s}
          /\ writer' = writer \/ Release(t, s)
      BY Zenon DEF ApplyFails, StatusFails, storageVars
    <3>2. QED
      BY Zenon, <3>1 DEF CommitTypeOK, Release
  <2>4. /\ state' \in [Txns -> TxnStates] /\ wset' \in [Txns -> SUBSET Storages]
        /\ snap' \in [seq : Nat, vis : [Storages -> SUBSET Txns]]
        /\ caller' \in Txns \union {NoTxn}
        /\ reply' \in [Txns -> {"none", "commit", "abort"}]
        /\ mode' \in {"up", "down", "opening"} /\ crashes' \in 0..MaxCrashes
    BY
    DEF CommitTypeOK, ApplyFails, AtApply, Running, NextParticipant, SetPart, SetWal, Release,
        Fault, Return, storageVars, txnVars, storageVars, envVars, TxnStates
  <2>5. QED
    BY <1>1, <2>1, <2>2, <2>3, <2>4 DEF LogOK, CommitTypeOK
<1>3. TxnAgrees(t)'
  <2>1. s \in wset[t] /\ state[t] = "ApplyingCommit" /\ stable' = stable
    BY Zenon DEF ApplyFails, AtApply, NextParticipant, logVars
  <2>2. /\ OnlyParticipant(t, s)
        /\ \/ part'[t][s] = part[t][s] /\ wal'[t][s] = wal[t][s]
           \/ part'[t][s] = "CommitPending" /\ wal'[t][s] \in {wal[t][s], "Commit"}
           \/ part'[t][s] = "Committed" /\ wal'[t][s] = "Commit"
    BY <1>1
    DEF CommitTypeOK, ApplyFails, SetPart, SetWal, Return, storageVars, OnlyParticipant
  <2>3. Decided(t) /\ seqOf[t] <= stable
    BY Zenon, <2>1 DEF TxnAgrees, HandleAgrees
  <2>4. part[t][s] \in {"Prepared", "CommitPending", "Committed"} /\ WalAgrees(t, s)
    BY Zenon, <2>1, <2>3 DEF TxnAgrees, LogAgrees
  <2>5. WalAgrees(t, s)'
    BY Zenon, <2>1, <2>2, <2>4 DEF WalAgrees, OnlyParticipant
  <2>6. LogAgrees(t, s)'
    BY Zenon, <1>1, <2>1, <2>2, <2>3, <2>4 DEF LogAgrees, Decided
  <2>7. QED
    BY Zenon, <2>1, <2>2, <2>5, <2>6, ParticipantAgrees
<1>4. \A u \in Txns : u # t => Untouched(u)
  BY Zenon, <1>1
  DEF CommitTypeOK, ApplyFails, AtApply, Running, NextParticipant, SetPart, SetWal, Release,
      Fault, Return, storageVars, txnVars, storageVars, envVars, Untouched
<1>5. QED
  BY <1>1, <1>2, <1>3, <1>4, StepOf DEF LogOK

(* Entering rollback() preserves the invariant.                            *)
LEMMA StartRollbackInv ==
    ASSUME Inv, NEW t \in Txns, StartRollback(t)
    PROVE  Inv'
<1> USE DEF Inv, Agreement
<1>1. LogOK' /\ stable <= stable' /\ seqOf' = seqOf
  BY Zenon, FlushLog DEF CommitTypeOK, LogOK, LogStays, StartRollback
<1>2. CommitTypeOK'
  BY Zenon, <1>1, BoundsAssumption, NoTxnAssumption
  DEF LogOK, CommitTypeOK, StartRollback, Quiet, SetState, txnVars, storageVars, envVars,
      TxnStates, PartStates, WalRecords, Unfinished
<1>3. TxnAgrees(t)'
  <2>1. /\ state[t] \in {"Active", "Preparing", "RollbackPending"}
        /\ state'[t] = "RollbackPending"
        /\ wset' = wset /\ part' = part /\ wal' = wal /\ reply' = reply
        /\ stable' = stable
    BY Zenon DEF CommitTypeOK, StartRollback, SetState, storageVars, logVars
  <2>2. HandleAgrees(t) /\ Enlisted(t)
    BY DEF TxnAgrees
  <2>3. HandleAgrees(t)' /\ Enlisted(t)'
    BY Zenon, <1>1, <2>1, <2>2 DEF HandleAgrees, Enlisted, Decided
  <2>4. ASSUME NEW r \in wset'[t] PROVE WalAgrees(t, r)' /\ LogAgrees(t, r)'
    <3>1. WalAgrees(t, r) /\ LogAgrees(t, r)
      BY Zenon, <2>1, <2>4 DEF TxnAgrees
    <3>2. QED
      BY Zenon, <1>1, <2>1, <3>1 DEF WalAgrees, LogAgrees, Decided
  <2>5. QED
    BY <2>3, <2>4 DEF TxnAgrees
<1>4. \A u \in Txns : u # t => Untouched(u)
  BY Zenon, <1>1
  DEF CommitTypeOK, StartRollback, Quiet, SetState, txnVars, storageVars, envVars, Untouched
<1>5. QED
  BY <1>1, <1>2, <1>3, <1>4, StepOf DEF LogOK

(* A durable Abort of one participant preserves the invariant.             *)
LEMMA RollbackOkInv ==
    ASSUME Inv, NEW t \in Txns, NEW s \in Storages, RollbackOk(t, s)
    PROVE  Inv'
<1> USE DEF Inv, Agreement
<1>1. LogOK' /\ stable <= stable' /\ seqOf' = seqOf
  BY Zenon, FlushLog DEF CommitTypeOK, LogOK, LogStays, RollbackOk
<1>2. CommitTypeOK'
  BY Zenon, <1>1, BoundsAssumption, NoTxnAssumption
  DEF LogOK, CommitTypeOK, RollbackOk, Running, NextParticipant, SetPart, SetWal, Release,
      txnVars, storageVars, envVars, TxnStates, PartStates, WalRecords, Unfinished
<1>3. TxnAgrees(t)'
  <2>1. s \in wset[t] /\ state[t] = "RollbackPending" /\ stable' = stable
    BY Zenon DEF RollbackOk, NextParticipant, logVars
  <2>2. OnlyParticipant(t, s) /\ part'[t][s] = "RolledBack" /\ wal'[t][s] = "Abort"
    BY Zenon, <1>1 DEF CommitTypeOK, RollbackOk, SetPart, SetWal, txnVars, OnlyParticipant
  <2>3. ~Decided(t) /\ ~Decided(t)'
    BY Zenon, <1>1, <2>1 DEF TxnAgrees, HandleAgrees, Decided
  <2>4. WalAgrees(t, s)' /\ LogAgrees(t, s)'
    BY Zenon, <2>2, <2>3 DEF WalAgrees, LogAgrees
  <2>5. QED
    BY Zenon, <2>1, <2>2, <2>4, ParticipantAgrees
<1>4. \A u \in Txns : u # t => Untouched(u)
  BY Zenon, <1>1
  DEF CommitTypeOK, RollbackOk, Running, NextParticipant, SetPart, SetWal, Release, txnVars,
      storageVars, envVars, Untouched
<1>5. QED
  BY <1>1, <1>2, <1>3, <1>4, StepOf DEF LogOK

(* A failing Abort preserves the invariant.                                *)
LEMMA RollbackFailsInv ==
    ASSUME Inv, NEW t \in Txns, NEW s \in Storages, RollbackFails(t, s)
    PROVE  Inv'
<1> USE DEF Inv, Agreement
<1>1. LogOK' /\ stable <= stable' /\ seqOf' = seqOf
  BY Zenon, FlushLog DEF CommitTypeOK, LogOK, LogStays, RollbackFails
<1>2. CommitTypeOK'
  <2>1. faults' \in 0..MaxFaults
    BY BoundsAssumption
    DEF CommitTypeOK, RollbackFails, Running, NextParticipant, SetPart, SetWal, Release,
        Fault, Return
  <2>2. /\ part' \in [Txns -> [Storages -> PartStates]]
        /\ wal' \in [Txns -> [Storages -> WalRecords]]
    <3>1. PICK p \in PartStates, w \in WalRecords :
            /\ part' = part \/ part' = [part EXCEPT ![t][s] = p]
            /\ wal' = wal \/ wal' = [wal EXCEPT ![t][s] = w]
      BY
      DEF RollbackFails, Running, NextParticipant, SetPart, SetWal, Release, Fault,
          Return, PartStates, WalRecords
    <3>2. part' \in [Txns -> [Storages -> PartStates]]
      <4>1. CASE part' = part
        BY <4>1 DEF CommitTypeOK
      <4>2. CASE part' = [part EXCEPT ![t][s] = p]
        BY <4>2 DEF CommitTypeOK
      <4>3. QED
        BY <3>1, <4>1, <4>2
    <3>3. wal' \in [Txns -> [Storages -> WalRecords]]
      <4>1. CASE wal' = wal
        BY <4>1 DEF CommitTypeOK
      <4>2. CASE wal' = [wal EXCEPT ![t][s] = w]
        BY <4>2 DEF CommitTypeOK
      <4>3. QED
        BY <3>1, <4>1, <4>2
    <3>4. QED
      BY <3>2, <3>3
  <2>3. /\ writer' \in [Storages -> Txns \union {NoTxn}]
        /\ blocked' \subseteq Storages /\ poisoned' \subseteq Storages
    <3>1. /\ blocked' = blocked
          /\ poisoned' = poisoned \/ poisoned' = poisoned \union {s}
          /\ writer' = writer \/ Release(t, s)
      BY Zenon DEF RollbackFails, StatusFails
    <3>2. QED
      BY <3>1 DEF CommitTypeOK, Release
  <2>4. /\ state' \in [Txns -> TxnStates] /\ wset' \in [Txns -> SUBSET Storages]
        /\ snap' \in [seq : Nat, vis : [Storages -> SUBSET Txns]]
        /\ caller' \in Txns \union {NoTxn}
        /\ reply' \in [Txns -> {"none", "commit", "abort"}]
        /\ mode' \in {"up", "down", "opening"} /\ crashes' \in 0..MaxCrashes
    BY
    DEF CommitTypeOK, RollbackFails, Running, NextParticipant, SetPart, SetWal, Release,
        Fault, Return, txnVars, storageVars, envVars, TxnStates
  <2>5. QED
    BY <1>1, <2>1, <2>2, <2>3, <2>4 DEF LogOK, CommitTypeOK
<1>3. TxnAgrees(t)'
  <2>1. s \in wset[t] /\ state[t] = "RollbackPending" /\ stable' = stable
    BY Zenon DEF RollbackFails, NextParticipant, logVars
  <2>2. /\ OnlyParticipant(t, s)
        /\ \/ part'[t][s] = part[t][s] /\ wal'[t][s] = wal[t][s]
           \/ part'[t][s] = "RollbackPending" /\ wal'[t][s] \in {wal[t][s], "Abort"}
           \/ part'[t][s] = "RolledBack" /\ wal'[t][s] = "Abort"
    <3>1. \/ part' = part /\ wal' = wal
          \/ part' = [part EXCEPT ![t][s] = "RollbackPending"] /\ wal' = wal
          \/ /\ part' = [part EXCEPT ![t][s] = "RollbackPending"]
             /\ wal' = [wal EXCEPT ![t][s] = "Abort"]
          \/ /\ part' = [part EXCEPT ![t][s] = "RolledBack"]
             /\ wal' = [wal EXCEPT ![t][s] = "Abort"]
      BY Zenon DEF RollbackFails, SetPart, SetWal
    <3>2. state' = state /\ wset' = wset /\ reply' = [reply EXCEPT ![t] = "none"]
      BY Zenon DEF RollbackFails, Return
    <3>3. CASE part' = part /\ wal' = wal
      BY Zenon, <1>1, <3>2, <3>3 DEF CommitTypeOK, OnlyParticipant
    <3>4. CASE part' = [part EXCEPT ![t][s] = "RollbackPending"] /\ wal' = wal
      BY Zenon, <1>1, <3>2, <3>4 DEF CommitTypeOK, OnlyParticipant
    <3>5. CASE /\ part' = [part EXCEPT ![t][s] = "RollbackPending"]
               /\ wal' = [wal EXCEPT ![t][s] = "Abort"]
      BY Zenon, <1>1, <3>2, <3>5 DEF CommitTypeOK, OnlyParticipant
    <3>6. CASE /\ part' = [part EXCEPT ![t][s] = "RolledBack"]
               /\ wal' = [wal EXCEPT ![t][s] = "Abort"]
      BY Zenon, <1>1, <3>2, <3>6 DEF CommitTypeOK, OnlyParticipant
    <3>7. QED
      BY Zenon, <3>1, <3>3, <3>4, <3>5, <3>6
  <2>3. ~Decided(t) /\ ~Decided(t)' /\ WalAgrees(t, s) /\ LogAgrees(t, s)
    BY Zenon, <1>1, <2>1 DEF TxnAgrees, HandleAgrees, Decided
  <2>4. wal[t][s] # "Commit"
    BY Zenon, <2>3 DEF WalAgrees, LogAgrees
  <2>5. WalAgrees(t, s)' /\ LogAgrees(t, s)'
    BY Zenon, <2>2, <2>3, <2>4 DEF WalAgrees, LogAgrees, OnlyParticipant
  <2>6. QED
    BY Zenon, <2>1, <2>2, <2>5, ParticipantAgrees
<1>4. \A u \in Txns : u # t => Untouched(u)
  BY Zenon, <1>1
  DEF CommitTypeOK, RollbackFails, Running, NextParticipant, SetPart, SetWal, Release, Fault,
      Return, txnVars, storageVars, envVars, Untouched
<1>5. QED
  BY <1>1, <1>2, <1>3, <1>4, StepOf DEF LogOK

(* The end of a rollback preserves the invariant.                          *)
LEMMA RollbackDoneInv ==
    ASSUME Inv, NEW t \in Txns, RollbackDone(t)
    PROVE  Inv'
<1> USE DEF Inv, Agreement
<1>1. LogOK' /\ stable <= stable' /\ seqOf' = seqOf
  BY Zenon, FlushLog DEF CommitTypeOK, LogOK, LogStays, RollbackDone
<1>2. CommitTypeOK'
  BY Zenon, <1>1, BoundsAssumption, NoTxnAssumption
  DEF LogOK, CommitTypeOK, RollbackDone, Running, SetState, Return, txnVars, storageVars,
      envVars, TxnStates, PartStates, WalRecords, Unfinished
<1>3. TxnAgrees(t)'
  <2>1. /\ state[t] = "RollbackPending" /\ AllIn(t, {"RolledBack"})
        /\ state'[t] = "RolledBack" /\ reply'[t] = "abort"
        /\ wset' = wset /\ part' = part /\ wal' = wal /\ stable' = stable
    BY Zenon DEF CommitTypeOK, RollbackDone, SetState, Return, storageVars, logVars
  <2>2. HandleAgrees(t) /\ Enlisted(t)
    BY DEF TxnAgrees
  <2>3. HandleAgrees(t)' /\ Enlisted(t)'
    BY Zenon, <1>1, <2>1, <2>2 DEF HandleAgrees, Enlisted, AllIn, Decided
  <2>4. ASSUME NEW r \in wset'[t] PROVE WalAgrees(t, r)' /\ LogAgrees(t, r)'
    <3>1. WalAgrees(t, r) /\ LogAgrees(t, r)
      BY Zenon, <2>1, <2>4 DEF TxnAgrees
    <3>2. QED
      BY Zenon, <1>1, <2>1, <3>1 DEF WalAgrees, LogAgrees, Decided
  <2>5. QED
    BY <2>3, <2>4 DEF TxnAgrees
<1>4. \A u \in Txns : u # t => Untouched(u)
  BY Zenon, <1>1
  DEF CommitTypeOK, RollbackDone, Running, SetState, Return, txnVars, storageVars, envVars,
      Untouched
<1>5. QED
  BY <1>1, <1>2, <1>3, <1>4, StepOf DEF LogOK

(* Dropping a handle preserves the invariant.                              *)
LEMMA DropHandleInv ==
    ASSUME Inv, NEW t \in Txns, DropHandle(t)
    PROVE  Inv'
<1> USE DEF Inv, Agreement
<1>1. LogOK' /\ stable <= stable' /\ seqOf' = seqOf
  BY Zenon, FlushLog DEF CommitTypeOK, LogOK, LogStays, DropHandle
<1>2. CommitTypeOK'
  BY Zenon, <1>1, BoundsAssumption, NoTxnAssumption
  DEF LogOK, CommitTypeOK, DropHandle, Quiet, SetState, txnVars, storageVars, envVars,
      TxnStates, PartStates, WalRecords, Unfinished
<1>3. TxnAgrees(t)'
  <2>1. /\ state[t] \notin {"Committed", "RolledBack", "Dropped"}
        /\ state'[t] = "Dropped"
        /\ wset' = wset /\ part' = part /\ wal' = wal /\ reply' = reply
        /\ stable' = stable
    BY Zenon DEF CommitTypeOK, DropHandle, SetState, logVars
  <2>2. HandleAgrees(t)'
    BY Zenon, <2>1 DEF TxnAgrees, HandleAgrees
  <2>3. ASSUME NEW r \in wset'[t] PROVE WalAgrees(t, r)' /\ LogAgrees(t, r)'
    BY Zenon, <1>1, <2>1 DEF TxnAgrees, WalAgrees, LogAgrees, Decided
  <2>4. Enlisted(t)'
    BY Zenon, <2>1 DEF TxnAgrees, Enlisted
  <2>5. QED
    BY Zenon, <2>2, <2>3, <2>4 DEF TxnAgrees
<1>4. \A u \in Txns : u # t => Untouched(u)
  BY Zenon, <1>1
  DEF CommitTypeOK, DropHandle, Quiet, SetState, txnVars, storageVars, envVars, Untouched
<1>5. QED
  BY <1>1, <1>2, <1>3, <1>4, StepOf DEF LogOK

(* A durable decision preserves the invariant: every participant is        *)
(* prepared when it is made.                                               *)
LEMMA DecisionOkInv ==
    ASSUME Inv, NEW t \in Txns, DecisionOk(t)
    PROVE  Inv'
<1> USE DEF Inv, Agreement
<1>1. /\ LogOK' /\ Forward(t)
      /\ seqOf'[t] > 0 /\ seqOf'[t] <= stable'
  BY Zenon, DecideLog DEF CommitTypeOK, LogOK, DecisionOk
<1>2. CommitTypeOK'
  BY Zenon, <1>1 DEF LogOK, CommitTypeOK, DecisionOk, SetState, storageVars, envVars, TxnStates
<1>3. /\ state'[t] = "ApplyingCommit" /\ reply' = reply
      /\ wset' = wset /\ part' = part /\ wal' = wal
  BY Zenon DEF CommitTypeOK, DecisionOk, SetState, storageVars
<1>4. AllIn(t, {"Prepared"}) /\ state[t] \in {"Preparing", "DecisionPending"}
  BY Zenon DEF DecisionOk, AtDecision, TxnAgrees, HandleAgrees
<1>5. TxnAgrees(t)'
  <2>1. HandleAgrees(t)'
    BY Zenon, <1>1, <1>3, <1>4 DEF TxnAgrees, HandleAgrees, Decided
  <2>2. ASSUME NEW r \in wset'[t] PROVE WalAgrees(t, r)' /\ LogAgrees(t, r)'
    BY Zenon, <1>3, <1>4, <2>2 DEF TxnAgrees, WalAgrees, LogAgrees, AllIn
  <2>3. Enlisted(t)'
    BY Zenon, <1>3 DEF TxnAgrees, Enlisted
  <2>4. QED
    BY <2>1, <2>2, <2>3 DEF TxnAgrees
<1>6. \A u \in Txns : u # t => Untouched(u)
  BY Zenon, <1>1, <1>3 DEF CommitTypeOK, DecisionOk, SetState, Untouched, Forward
<1>7. QED
  BY Zenon, <1>1, <1>2, <1>5, <1>6, StepOf DEF LogOK, Forward

(* A decision that fails, leaving the record in the file or not.           *)
LEMMA DecisionFailsInv ==
    ASSUME Inv, NEW t \in Txns, DecisionFails(t)
    PROVE  Inv'
<1> USE DEF Inv, Agreement
<1>1. LogOK' /\ Forward(t)
  <2>1. LogOK
    BY Zenon DEF CommitTypeOK, LogOK
  <2>2. CASE DecideUnsynced(t)
    BY Zenon, <2>1, <2>2, DecideLog
  <2>3. CASE DecideFailed
    <3>1. LogOK' /\ stable <= stable' /\ seqOf' = seqOf
      BY Zenon, <2>1, <2>3, FlushLog DEF LogStays
    <3>2. QED
      BY Zenon, <3>1 DEF Forward
  <2>4. QED
    BY Zenon, <2>2, <2>3 DEF DecisionFails
<1>2. CommitTypeOK'
  <2>1. faults' \in 0..MaxFaults
    BY BoundsAssumption DEF CommitTypeOK, DecisionFails, Fault
  <2>2. QED
    BY Zenon, <1>1, <2>1
    DEF LogOK, CommitTypeOK, DecisionFails, SetState, Return, storageVars, TxnStates
<1>3. /\ state'[t] = "DecisionPending" /\ reply'[t] = "none"
      /\ wset' = wset /\ part' = part /\ wal' = wal
  BY Zenon DEF CommitTypeOK, DecisionFails, SetState, Return, storageVars
<1>4. AllIn(t, {"Prepared"})
  BY Zenon DEF DecisionFails, AtDecision, TxnAgrees, HandleAgrees
<1>5. TxnAgrees(t)'
  <2>1. HandleAgrees(t)'
    BY Zenon, <1>3, <1>4 DEF HandleAgrees, AllIn
  <2>2. ASSUME NEW r \in wset'[t] PROVE WalAgrees(t, r)' /\ LogAgrees(t, r)'
    BY Zenon, <1>3, <1>4, <2>2 DEF TxnAgrees, WalAgrees, LogAgrees, AllIn
  <2>3. Enlisted(t)'
    BY Zenon, <1>3 DEF TxnAgrees, Enlisted
  <2>4. QED
    BY <2>1, <2>2, <2>3 DEF TxnAgrees
<1>6. \A u \in Txns : u # t => Untouched(u)
  BY Zenon, <1>1, <1>3 DEF CommitTypeOK, DecisionFails, SetState, Return, Untouched, Forward
<1>7. QED
  BY Zenon, <1>1, <1>2, <1>5, <1>6, StepOf DEF LogOK, Forward

(* The end of a commit: Complete logged or refused.                        *)
LEMMA FinishInv ==
    ASSUME Inv, NEW t \in Txns, FinishOk(t) \/ FinishFails(t)
    PROVE  Inv'
<1> USE DEF Inv, Agreement
<1>1. LogOK' /\ stable <= stable' /\ seqOf' = seqOf
  BY Zenon, FinishLog DEF CommitTypeOK, LogOK, LogStays, FinishLogStep, FinishOk, FinishFails
<1>2. /\ \/ state'[t] = "Committed" /\ reply'[t] = "commit"
         \/ state'[t] = "FinalizePending" /\ reply'[t] = "none"
      /\ wset' = wset /\ part' = part /\ wal' = wal
  BY Zenon DEF CommitTypeOK, FinishOk, FinishFails, SetState, Return, storageVars
<1>3. CommitTypeOK'
  <2>1. faults' \in 0..MaxFaults
    BY BoundsAssumption DEF CommitTypeOK, FinishOk, FinishFails, Fault
  <2>2. snap' \in [seq : Nat, vis : [Storages -> SUBSET Txns]]
    <3>1. CASE FinishFails(t)
      BY Zenon, <3>1 DEF CommitTypeOK, FinishFails
    <3>2. CASE FinishOk(t)
      <4>1. seqOf[t] \in Nat
        BY Zenon DEF CommitTypeOK, LogTypeOK
      <4>2. [s \in Storages |-> IF s \in wset[t] THEN CommittedAt(s) ELSE snap.vis[s]]
               \in [Storages -> SUBSET Txns]
        BY Zenon DEF CommitTypeOK, CommittedAt
      <4>3. QED
        BY Zenon, <3>2, <4>1, <4>2 DEF FinishOk, Publish
    <3>3. QED
      BY Zenon, <3>1, <3>2
  <2>3. /\ state' \in [Txns -> TxnStates] /\ wset' \in [Txns -> SUBSET Storages]
        /\ caller' \in Txns \union {NoTxn}
        /\ reply' \in [Txns -> {"none", "commit", "abort"}]
    <3>1. PICK v \in {"Committed", "FinalizePending"}, r \in {"commit", "none"} :
            /\ state' = [state EXCEPT ![t] = v] /\ wset' = wset
            /\ caller' = NoTxn /\ reply' = [reply EXCEPT ![t] = r]
      BY Zenon DEF FinishOk, FinishFails, SetState, Return
    <3>2. QED
      BY Zenon, <3>1 DEF CommitTypeOK, TxnStates
  <2>4. UNCHANGED <<part, wal, writer, blocked, poisoned, mode, crashes>>
    BY Zenon DEF FinishOk, FinishFails, storageVars
  <2>5. QED
    BY Zenon, <1>1, <2>1, <2>2, <2>3, <2>4 DEF LogOK, CommitTypeOK
<1>4. AllIn(t, {"Committed"}) /\ Decided(t) /\ seqOf[t] <= stable
  BY Zenon DEF FinishOk, FinishFails, AtFinish, TxnAgrees, HandleAgrees
<1>5. TxnAgrees(t)'
  <2>0. seqOf[t] <= stable'
    <3>1. seqOf[t] \in Nat /\ stable \in Nat
      BY DEF CommitTypeOK, LogTypeOK
    <3>2. stable' \in Nat
      BY <1>1 DEF LogOK, LogTypeOK
    <3>3. QED
      BY <1>1, <1>4, <3>1, <3>2
  <2>1. HandleAgrees(t)'
    BY Zenon, <1>1, <1>2, <1>4, <2>0 DEF HandleAgrees, AllIn, Decided
  <2>2. ASSUME NEW r \in wset'[t] PROVE WalAgrees(t, r)' /\ LogAgrees(t, r)'
    BY Zenon, <1>1, <1>2, <1>4, <2>0, <2>2 DEF TxnAgrees, WalAgrees, LogAgrees, AllIn, Decided
  <2>3. Enlisted(t)'
    BY Zenon, <1>2 DEF TxnAgrees, Enlisted
  <2>4. QED
    BY Zenon, <2>1, <2>2, <2>3 DEF TxnAgrees
<1>6. \A u \in Txns : u # t => Untouched(u)
  BY Zenon, <1>1, <1>2 DEF CommitTypeOK, FinishOk, FinishFails, SetState, Return, Untouched
<1>7. QED
  BY Zenon, <1>1, <1>3, <1>5, <1>6, StepOf DEF LogOK

(* A step that touches no transaction preserves the invariant.             *)
LEMMA NoTxnStep ==
    ASSUME Inv, CommitTypeOK', LogInv', stable <= stable', seqOf' = seqOf,
           UNCHANGED <<state, wset, reply, part, wal>>
    PROVE  Inv'
<1>1. stable' \in Nat
  BY DEF CommitTypeOK, LogTypeOK
<1>2. \A u \in Txns : TxnAgrees(u)'
  BY Zenon, <1>1, Frame DEF Inv, Agreement, Untouched
<1>3. QED
  BY Zenon, <1>2 DEF Inv, Agreement

(* What a maintenance call can do, and what it leaves alone.               *)
MaintainEffect ==
    /\ mode = "up" /\ UNCHANGED <<mode, crashes, snap>>
    /\ UNCHANGED txnVars
    /\ UNCHANGED <<part, wal, writer, blocked, poisoned>>
    /\ FlushOk \/ FlushFailed \/ UNCHANGED logVars
    /\ Fault \/ UNCHANGED faults
    /\ \E ss \in SUBSET Storages : recycled' = Recycled(ss)

(* Maintenance recycles WALs and flushes the deferred Completes, no more.  *)
LEMMA MaintainStep ==
    ASSUME Maintain PROVE MaintainEffect
<1>1. ASSUME NEW op, NEW ss \in SUBSET Storages, Visited(op, ss)
      PROVE  mode = "up" /\ \E rs \in SUBSET Storages : recycled' = Recycled(rs)
  BY Zenon, <1>1 DEF Visited, Quiet, Rotated
<1>2. ASSUME NEW op, Maintenance(op) PROVE MaintainEffect
  BY Zenon, <1>1, <1>2 DEF Maintenance, envVars, MaintainEffect
<1>3. ASSUME NEW op, NEW ss \in SUBSET Storages, MaintenanceFails(op, ss) PROVE MaintainEffect
  BY Zenon, <1>1, <1>3 DEF MaintenanceFails, MaintainEffect
<1>4. ASSUME NEW s \in Storages, CompactStorage(s) PROVE MaintainEffect
  BY Zenon, <1>4 DEF CompactStorage, Quiet, envVars, MaintainEffect
<1> QED
  BY Zenon, <1>2, <1>3, <1>4 DEF Maintain

(* Maintenance, which ends with the deferred Completes, and opening the    *)
(* log.                                                                    *)
LEMMA FlushInv ==
    ASSUME Inv, Maintain \/ OpenLog
    PROVE  Inv'
<1> USE DEF Inv, Agreement
<1>1. LogOK' /\ stable <= stable' /\ seqOf' = seqOf
  BY Zenon, FlushLog, MaintainStep DEF CommitTypeOK, LogOK, LogStays, MaintainEffect, OpenLog
<1>2. CommitTypeOK'
  <2>1. faults' \in 0..MaxFaults
    BY MaintainStep, BoundsAssumption DEF CommitTypeOK, MaintainEffect, OpenLog, Fault, envVars
  <2>2. QED
    BY Zenon, <1>1, <2>1, MaintainStep
    DEF LogOK, CommitTypeOK, MaintainEffect, OpenLog, txnVars, storageVars, envVars
<1>3. UNCHANGED <<state, wset, reply, part, wal>>
  BY Zenon, MaintainStep DEF MaintainEffect, OpenLog, txnVars, storageVars
<1>4. QED
  BY Zenon, <1>1, <1>2, <1>3, NoTxnStep DEF LogOK

(* What the process leaves behind agrees, whichever unflushed WAL records  *)
(* and unsynchronized log records happen to survive.                       *)
LEMMA ProcessEndsInv ==
    ASSUME Inv, ProcessEnds, crashes' \in 0..MaxCrashes
    PROVE  Inv'
<1> USE DEF Inv, Agreement
<1>1. /\ LogOK'
      /\ \A t \in Txns : Decided(t)' => Decided(t)
      /\ \A t \in Txns : Decided(t) /\ seqOf[t] <= stable => seqOf'[t] = seqOf[t]
      /\ stable' = stable
  BY Zenon, CrashLog DEF CommitTypeOK, LogOK, ProcessEnds
<1>2. PICK kept \in SUBSET {x \in Txns \X Storages :
                              part[x[1]][x[2]] \in DOMAIN Unflushed} :
        wal' = [t \in Txns |-> [s \in Storages |->
                  IF <<t, s>> \in kept THEN Unflushed[part[t][s]] ELSE wal[t][s]]]
  BY Zenon DEF ProcessEnds
<1>3. ASSUME NEW t \in Txns, NEW s \in Storages
      PROVE  \/ wal'[t][s] = wal[t][s]
             \/ part[t][s] = "PreparePending" /\ wal'[t][s] = "Prepare"
             \/ part[t][s] = "CommitPending" /\ wal'[t][s] = "Commit"
             \/ part[t][s] = "RollbackPending" /\ wal'[t][s] = "Abort"
  <2>1. CASE <<t, s>> \in kept
    <3>1. part[t][s] \in DOMAIN Unflushed
      BY Zenon, <1>2, <2>1
    <3>2. wal'[t][s] = Unflushed[part[t][s]]
      BY Zenon, <1>2, <2>1
    <3>3. part[t][s] \in {"PreparePending", "CommitPending", "RollbackPending"}
      BY Zenon, <3>1 DEF Unflushed
    <3>4. CASE part[t][s] = "PreparePending"
      BY <3>2, <3>4 DEF Unflushed
    <3>5. CASE part[t][s] = "CommitPending"
      BY <3>2, <3>5 DEF Unflushed
    <3>6. CASE part[t][s] = "RollbackPending"
      BY <3>2, <3>6 DEF Unflushed
    <3>7. QED
      BY Zenon, <3>3, <3>4, <3>5, <3>6
  <2>2. CASE <<t, s>> \notin kept
    <3>1. wal'[t][s] = wal[t][s]
      BY Zenon, <1>2, <2>2
    <3>2. QED
      BY Zenon, <3>1
  <2>3. QED
    BY Zenon, <2>1, <2>2
<1>4. /\ wset' = wset /\ reply' = reply
      /\ \A t \in Txns : state'[t] = IF state[t] \in {"Idle", "Committed", "RolledBack"}
                                     THEN state[t] ELSE "Dropped"
      /\ \A t \in Txns, s \in Storages :
           part'[t][s] = IF s \in wset[t] THEN Inspected(wal'[t][s]) ELSE "none"
  BY Zenon DEF ProcessEnds
<1>5. CommitTypeOK'
  <2>1. wal' \in [Txns -> [Storages -> WalRecords]]
    <3>1. ASSUME NEW t \in Txns, NEW s \in Storages
          PROVE  wal'[t][s] \in WalRecords
      <4>1. wal[t][s] \in WalRecords
        BY DEF CommitTypeOK
      <4>2. QED
        BY Zenon, <1>3, <4>1 DEF WalRecords
    <3>2. wal' = [t \in Txns |-> [s \in Storages |-> wal'[t][s]]]
      BY Zenon, <1>2
    <3>3. QED
      BY Zenon, <3>1, <3>2
  <2>2. part' \in [Txns -> [Storages -> PartStates]]
    BY Zenon DEF ProcessEnds, Inspected, PartStates
  <2>3. state' \in [Txns -> TxnStates]
    BY Zenon DEF CommitTypeOK, ProcessEnds, TxnStates
  <2>4. QED
    BY Zenon, <1>1, <2>1, <2>2, <2>3 DEF CommitTypeOK, LogOK, ProcessEnds
<1>6. ASSUME NEW t \in Txns PROVE TxnAgrees(t)'
  <2>0. /\ wset[t] \subseteq Storages
        /\ seqOf[t] \in Nat /\ seqOf'[t] \in Nat
    BY Zenon, <1>5 DEF CommitTypeOK, LogTypeOK
  <2>9. /\ Decided(t)' => Decided(t)
        /\ stable' = stable
        /\ Decided(t) /\ seqOf[t] <= stable => seqOf'[t] = seqOf[t]
    BY Zenon, <1>1
  <2>1. ASSUME NEW s \in wset[t] PROVE WalAgrees(t, s)' /\ LogAgrees(t, s)'
    <3>0. /\ WalAgrees(t, s) /\ LogAgrees(t, s) /\ HandleAgrees(t)
          /\ s \in Storages
      BY Zenon, <2>0, <2>1 DEF TxnAgrees
    <3>1. part'[t][s] = Inspected(wal'[t][s])
      BY Zenon, <1>4, <3>0
    <3>2. Decided(t)' => Decided(t)
      BY Zenon, <2>9
    <3>3. \/ wal'[t][s] = wal[t][s]
          \/ part[t][s] = "PreparePending" /\ wal'[t][s] = "Prepare"
          \/ part[t][s] = "CommitPending" /\ wal'[t][s] = "Commit"
          \/ part[t][s] = "RollbackPending" /\ wal'[t][s] = "Abort"
      BY Zenon, <1>3, <3>0
    <3>4. Decided(t)' => wal'[t][s] \in {"Prepare", "Commit"}
      BY Zenon, <3>0, <3>2, <3>3 DEF LogAgrees, WalAgrees
    <3>5. wal'[t][s] = "Commit" => Decided(t)' /\ seqOf'[t] <= stable'
      <4>1. wal'[t][s] = "Commit" => part[t][s] \in {"CommitPending", "Committed"}
        BY Zenon, <3>0, <3>3 DEF WalAgrees
      <4>2. wal'[t][s] = "Commit" =>
              Decided(t) /\ seqOf'[t] = seqOf[t] /\ seqOf[t] <= stable
        BY Zenon, <2>9, <3>0, <4>1 DEF LogAgrees
      <4>3. QED
        BY Zenon, <2>9, <4>2 DEF Decided
    <3>6. LogAgrees(t, s)'
      BY Zenon, <3>1, <3>2, <3>4, <3>5 DEF LogAgrees, Inspected
    <3>7. state'[t] # "Dropped" => wal'[t][s] \in {"Commit", "Abort"}
      <4>1. state'[t] # "Dropped" => state[t] \in {"Idle", "Committed", "RolledBack"}
        BY Zenon, <1>4
      <4>2. state'[t] # "Dropped" => part[t][s] \in {"Committed", "RolledBack"}
        BY Zenon, <2>1, <3>0, <4>1 DEF HandleAgrees, AllIn
      <4>3. state'[t] # "Dropped" => state[t] # "Dropped"
        BY Zenon, <4>1
      <4>4. QED
        BY Zenon, <3>0, <3>3, <4>2, <4>3 DEF WalAgrees
    <3>8. WalAgrees(t, s)'
      BY Zenon, <3>1, <3>7 DEF WalAgrees, Inspected
    <3>9. QED
      BY Zenon, <3>6, <3>8
  <2>2. HandleAgrees(t)'
    <3>1. CASE state[t] \in {"Idle", "RolledBack"}
      <4>1. state'[t] = state[t] /\ ~Decided(t)'
        <5>1. ~Decided(t)
          BY Zenon, <3>1 DEF TxnAgrees, HandleAgrees
        <5>2. QED
          BY Zenon, <1>4, <2>9, <3>1, <5>1
      <4>2. ASSUME NEW s \in wset[t], state[t] = "RolledBack"
            PROVE  part'[t][s] = "RolledBack"
        <5>1. s \in Storages /\ WalAgrees(t, s) /\ part[t][s] = "RolledBack"
          BY Zenon, <2>0, <4>2 DEF TxnAgrees, HandleAgrees, AllIn
        <5>2. wal'[t][s] = "Abort"
          BY Zenon, <1>3, <4>2, <5>1 DEF WalAgrees
        <5>3. QED
          BY Zenon, <1>4, <5>1, <5>2 DEF Inspected
      <4>3. QED
        BY Zenon, <1>4, <3>1, <4>1, <4>2 DEF TxnAgrees, HandleAgrees, AllIn
    <3>2. CASE state[t] = "Committed"
      <4>1. ASSUME NEW s \in wset[t] PROVE part'[t][s] = "Committed"
        <5>1. s \in Storages /\ WalAgrees(t, s) /\ part[t][s] = "Committed"
          BY Zenon, <2>0, <3>2 DEF TxnAgrees, HandleAgrees, AllIn
        <5>2. wal'[t][s] = "Commit"
          BY Zenon, <1>3, <5>1 DEF WalAgrees
        <5>3. QED
          BY Zenon, <1>4, <5>1, <5>2 DEF Inspected
      <4>2. reply[t] = "commit" => Decided(t)' /\ seqOf'[t] <= stable'
        BY Zenon, <1>1 DEF TxnAgrees, HandleAgrees, Decided
      <4>3. QED
        BY Zenon, <1>4, <3>2, <4>1, <4>2 DEF TxnAgrees, HandleAgrees, AllIn
    <3>3. CASE state[t] \notin {"Idle", "RolledBack", "Committed"}
      BY Zenon, <1>4, <3>3 DEF TxnAgrees, HandleAgrees
    <3>4. QED
      BY Zenon, <3>1, <3>2, <3>3
  <2>3. Enlisted(t)'
    <3>1. ASSUME NEW s \in Storages \ wset[t] PROVE wal'[t][s] = "none"
      <4>1. part[t][s] = "none" /\ wal[t][s] = "none"
        BY Zenon DEF TxnAgrees, Enlisted
      <4>2. QED
        BY Zenon, <1>3, <4>1
    <3>2. QED
      BY Zenon, <1>4, <3>1 DEF Enlisted
  <2>4. QED
    BY Zenon, <1>4, <2>1, <2>2, <2>3 DEF TxnAgrees
<1>7. QED
  BY Zenon, <1>1, <1>5, <1>6 DEF LogOK

(* While the database is being opened every decision of the file is        *)
(* durable, as open() synchronizes the file before anyone acts on it; and  *)
(* no handle outlives the process.                                         *)
Settled ==
    /\ mode = "opening" => stable = last
    /\ mode # "up" =>
         \A t \in Txns : state[t] \in {"Idle", "Committed", "RolledBack", "Dropped"}

(* Resolving a storage from the log.                                       *)
LEMMA ResolveStorageInv ==
    ASSUME Inv, Settled, NEW s \in Storages, ResolveStorage(s)
    PROVE  Inv'
<1> USE DEF Inv, Agreement
<1>1. LogOK' /\ stable' = stable /\ seqOf' = seqOf
  BY Zenon DEF CommitTypeOK, LogOK, LogTypeOK, LogInv, ResolveStorage, logVars
<1>2. /\ state' = state /\ wset' = wset /\ reply' = reply
      /\ \A t \in Txns, r \in Storages : r # s => wal'[t][r] = wal[t][r] /\ part'[t][r]
         = part[t][r]
      /\ \A t \in Txns :
           wal'[t][s] = IF s \in wset[t] /\ wal[t][s] \in {"none", "Prepare"}
                        THEN IF Decided(t) THEN "Commit" ELSE "Abort"
                        ELSE wal[t][s]
      /\ \A t \in Txns :
           part'[t][s] = IF s \in wset[t] THEN Inspected(wal'[t][s]) ELSE part[t][s]
  BY Zenon DEF CommitTypeOK, ResolveStorage, txnVars
<1>3. CommitTypeOK'
  <2>1. wal' \in [Txns -> [Storages -> WalRecords]]
    BY DEF CommitTypeOK, ResolveStorage, WalRecords
  <2>2. part' \in [Txns -> [Storages -> PartStates]]
    BY DEF CommitTypeOK, ResolveStorage, PartStates, Inspected
  <2>3. QED
    BY Zenon, <1>1, <2>1, <2>2 DEF LogOK, CommitTypeOK, ResolveStorage, txnVars, envVars
<1>4. ASSUME NEW t \in Txns PROVE TxnAgrees(t)'
  <2>0. wset[t] \subseteq Storages
    BY Zenon DEF CommitTypeOK
  <2>1. ASSUME NEW r \in wset[t] PROVE WalAgrees(t, r)' /\ LogAgrees(t, r)'
    <3>1. CASE r # s
      <4>1. WalAgrees(t, r) /\ LogAgrees(t, r)
        BY Zenon DEF TxnAgrees
      <4>2. /\ part'[t][r] = part[t][r] /\ wal'[t][r] = wal[t][r]
            /\ state'[t] = state[t] /\ seqOf'[t] = seqOf[t]
        BY Zenon, <1>1, <1>2, <2>0, <3>1
      <4>3. QED
        BY Zenon, <1>1, <4>1, <4>2 DEF WalAgrees, LogAgrees, Decided
    <3>2. CASE r = s
      <4>1. /\ wal[t][s] \in WalRecords
            /\ WalAgrees(t, s) /\ LogAgrees(t, s)
        BY <3>2 DEF CommitTypeOK, TxnAgrees
      <4>2. Decided(t) => wal'[t][s] = "Commit"
        BY Zenon, <1>2, <3>2, <4>1 DEF WalAgrees, LogAgrees
      <4>3. ~Decided(t) => wal'[t][s] = "Abort"
        BY Zenon, <1>2, <3>2, <4>1 DEF WalAgrees, LogAgrees, WalRecords
      <4>4. seqOf[t] <= stable
        BY Zenon DEF LogInv, Settled, ResolveStorage
      <4>5. part'[t][s] = Inspected(wal'[t][s]) /\ (Decided(t)' <=> Decided(t))
        BY Zenon, <1>1, <1>2, <3>2 DEF Decided
      <4>6. QED
        BY Zenon, <1>1, <3>2, <4>2, <4>3, <4>4, <4>5 DEF WalAgrees, LogAgrees, Inspected
    <3>3. QED
      BY Zenon, <3>1, <3>2
  <2>2. state[t] \in {"Idle", "Committed", "RolledBack", "Dropped"}
    BY Zenon DEF Settled, ResolveStorage
  <2>3. ASSUME NEW r \in wset[t], NEW v \in {"Committed", "RolledBack"},
               state[t] # "Dropped", part[t][r] = v
        PROVE  part'[t][r] = v
    BY <1>2, <2>0, <2>3 DEF TxnAgrees, WalAgrees, Inspected
  <2>4. HandleAgrees(t)'
    BY Zenon, <1>1, <1>2, <2>2, <2>3 DEF TxnAgrees, HandleAgrees, AllIn, Decided
  <2>5. Enlisted(t)'
    <3>1. Enlisted(t)
      BY Zenon DEF TxnAgrees
    <3>2. ASSUME NEW r \in Storages \ wset[t]
          PROVE  part'[t][r] = part[t][r] /\ wal'[t][r] = wal[t][r]
      BY Zenon, <1>2
    <3>3. QED
      BY Zenon, <1>2, <3>1, <3>2 DEF Enlisted
  <2>6. wset'[t] = wset[t]
    BY Zenon, <1>2
  <2>7. QED
    BY Zenon, <2>1, <2>4, <2>5, <2>6 DEF TxnAgrees
<1>5. QED
  BY Zenon, <1>1, <1>3, <1>4 DEF LogOK

(* Ending the open completes every decision.                               *)
LEMMA FinishOpenInv ==
    ASSUME Inv, FinishOpen
    PROVE  Inv'
<1> USE DEF Inv, Agreement
<1>1. LogOK' /\ stable <= stable' /\ seqOf' = seqOf
  <2>1. LogTypeOK /\ LogInv
    BY Zenon DEF CommitTypeOK
  <2>2. /\ completed' = last /\ stableC' = last /\ stable' = last
        /\ UNCHANGED <<seqOf, last, pending, authority>>
    BY Zenon DEF FinishOpen, SyncFile
  <2>3. QED
    BY <2>1, <2>2 DEF LogOK, LogTypeOK, LogInv
<1>2. CommitTypeOK'
  <2>1. snap' \in [seq : Nat, vis : [Storages -> SUBSET Txns]]
    <3>1. last \in Nat /\ \A s \in Storages : CommittedAt(s) \subseteq Txns
      BY Zenon DEF CommitTypeOK, LogTypeOK, CommittedAt
    <3>2. snap' = [seq |-> last, vis |-> [s \in Storages |-> CommittedAt(s)]]
      BY Zenon DEF FinishOpen
    <3>3. QED
      BY Zenon, <3>1, <3>2
  <2>2. QED
    BY Zenon, <1>1, <2>1 DEF LogOK, CommitTypeOK, FinishOpen, txnVars, storageVars
<1>3. UNCHANGED <<state, wset, reply, part, wal>>
  BY Zenon DEF FinishOpen, txnVars, storageVars
<1>4. QED
  BY Zenon, <1>1, <1>2, <1>3, NoTxnStep DEF LogOK

(* Every step keeps Settled: transactions run only while the database is   *)
(* up, and a process that ends leaves a settled state.                     *)
LEMMA SettledStep ==
    ASSUME Inv, Settled, Next
    PROVE  Settled'
<1>1. CASE \E t \in Txns : Step(t)
  BY Zenon, <1>1 DEF Settled, Step, Begin, StartCommit, CommitReadOnly, ReadCommitFails,
       DecisionOk, DecisionFails, FinishOk, FinishFails, StartRollback, RollbackDone,
       DropHandle, AtDecision, AtFinish, Running, Quiet, envVars
<1>2. CASE \E t \in Txns, s \in Storages : ParticipantStep(t, s)
  <2>1. PICK t \in Txns, s \in Storages : ParticipantStep(t, s)
    BY Zenon, <1>2
  <2>2. CASE Write(t, s) \/ StatementFails(t, s)
    BY Zenon, <2>2 DEF Settled, Write, StatementFails, Quiet, envVars
  <2>3. CASE PrepareOk(t, s) \/ PrepareFails(t, s)
    BY Zenon, <2>3 DEF Settled, PrepareOk, PrepareFails, Running, envVars
  <2>4. CASE ApplyOk(t, s) \/ ApplyFails(t, s)
    BY Zenon, <2>4 DEF Settled, ApplyOk, ApplyFails, AtApply, Running, envVars
  <2>5. CASE RollbackOk(t, s) \/ RollbackFails(t, s)
    BY Zenon, <2>5 DEF Settled, RollbackOk, RollbackFails, Running, envVars
  <2>6. QED
    BY Zenon, <2>1, <2>2, <2>3, <2>4, <2>5 DEF ParticipantStep
<1>3. CASE Maintain \/ FinishOpen
  BY Zenon, <1>3, MaintainStep DEF Settled, MaintainEffect, FinishOpen
<1>4. CASE OpenLog \/ \E s \in Storages : ResolveStorage(s)
  BY Zenon, <1>4 DEF Settled, OpenLog, LogOpen, SyncFile, ResolveStorage, logVars, txnVars,
       envVars
<1>5. CASE Crash \/ Reopen \/ MaintenanceCrash
  <2>1. ProcessEnds
    BY Zenon, <1>5 DEF Crash, Reopen, MaintenanceCrash
  <2>2. mode' = "down"
    BY Zenon, <2>1 DEF ProcessEnds
  <2>3. \A t \in Txns : state'[t] \in {"Idle", "Committed", "RolledBack", "Dropped"}
    BY Zenon, <2>1 DEF ProcessEnds
  <2>4. QED
    BY Zenon, <2>2, <2>3 DEF Settled
<1>6. QED
  BY Zenon, <1>1, <1>2, <1>3, <1>4, <1>5 DEF Next

-------------------------------------------------------------------------------
(* THEOREMS                                                                *)

IInv == Inv /\ Settled

LEMMA NextInv ==
    ASSUME IInv, [Next]_vars
    PROVE  IInv'
<1>1. Inv /\ Settled
  BY Zenon DEF IInv
<1>2. CASE UNCHANGED vars
  <2>1. CommitTypeOK'
    BY Zenon, <1>1, <1>2
    DEF Inv, CommitTypeOK, LogTypeOK, vars, logVars, txnVars, storageVars, envVars
  <2>2. LogInv' /\ stable' = stable /\ stable \in Nat /\ seqOf' = seqOf
    <3>1. LogInv /\ stable \in Nat
      BY <1>1 DEF Inv, Agreement, CommitTypeOK, LogTypeOK
    <3>2. UNCHANGED logVars
      BY Zenon, <1>2 DEF vars
    <3>3. QED
      BY Zenon, <3>1, <3>2 DEF LogInv, logVars
  <2>3. UNCHANGED <<state, wset, reply, part, wal>>
    BY Zenon, <1>2 DEF vars, txnVars, storageVars
  <2>4. Inv'
    BY <1>1, <2>1, <2>2, <2>3, NoTxnStep
  <2>5. Settled'
    BY Zenon, <1>1, <1>2 DEF Settled, vars, logVars, txnVars, envVars
  <2>6. QED
    BY Zenon, <2>4, <2>5 DEF IInv
<1>3. CASE Next
  <2>1. Settled'
    BY Zenon, <1>1, <1>3, SettledStep
  <2>2. ASSUME NEW t \in Txns, Step(t) PROVE Inv'
    BY Zenon, <1>1, <2>2, BeginInv, StartCommitInv, CommitReadOnlyInv, ReadCommitFailsInv,
       DecisionOkInv, DecisionFailsInv, FinishInv, StartRollbackInv, RollbackDoneInv,
       DropHandleInv
    DEF Step
  <2>3. ASSUME NEW t \in Txns, NEW s \in Storages, ParticipantStep(t, s) PROVE Inv'
    BY Zenon, <1>1, <2>3, WriteInv, StatementFailsInv, PrepareOkInv, PrepareFailsInv,
       ApplyOkInv, ApplyFailsInv,
       RollbackOkInv, RollbackFailsInv
    DEF ParticipantStep
  <2>4. ASSUME Crash \/ Reopen \/ MaintenanceCrash PROVE Inv'
    <3>1. crashes' \in 0..MaxCrashes
      BY <1>1, <2>4, BoundsAssumption DEF Inv, CommitTypeOK, Crash, Reopen, MaintenanceCrash
    <3>2. QED
      BY Zenon, <1>1, <2>4, <3>1, ProcessEndsInv DEF Crash, Reopen, MaintenanceCrash
  <2>5. QED
    BY Zenon, <1>1, <1>3, <2>1, <2>2, <2>3, <2>4, FlushInv, ResolveStorageInv, FinishOpenInv
    DEF Next, IInv
<1>4. QED
  BY Zenon, <1>2, <1>3

(* The inductive invariant holds in every reachable state.                 *)
THEOREM Inductive == Spec => []IInv
<1>1. Init => IInv
  BY Zenon, InitInv DEF IInv, Settled, Init
<1>2. IInv /\ [Next]_vars => IInv'
  BY Zenon, NextInv
<1>3. QED
  BY <1>1, <1>2, PTL DEF Spec

(* Handles, participants, WALs and the coordinator log always agree.       *)
THEOREM AlwaysAgree == Spec => []Agreement
<1>1. IInv => Agreement
  BY Zenon DEF IInv, Inv
<1>2. QED
  BY <1>1, Inductive, PTL

(* The invariant puts the decision before every Commit and keeps every     *)
(* Prepare after it.                                                       *)
LEMMA InvGoverns == Inv => DecisionGoverns
<1> SUFFICES ASSUME Inv, NEW t \in Txns, NEW s \in wset[t]
             PROVE  /\ wal[t][s] = "Commit" => Decided(t) /\ seqOf[t] <= stable
                    /\ Decided(t) => wal[t][s] \in {"Prepare", "Commit"}
  BY Zenon DEF DecisionGoverns
<1>1. WalAgrees(t, s) /\ LogAgrees(t, s)
  BY Zenon DEF Inv, Agreement, TxnAgrees
<1>2. QED
  BY Zenon, <1>1 DEF WalAgrees, LogAgrees

(* The decision record in the coordinator log is the commit point of every *)
(* participant (commit_multi_write, sequenced_commit_decision).            *)
THEOREM CommitPoint == Spec => []DecisionGoverns
<1>1. IInv => DecisionGoverns
  BY Zenon, InvGoverns DEF IInv
<1>2. QED
  BY <1>1, Inductive, PTL

(* Atomic commitment: commit_multi_write, its retries, rollback and        *)
(* recovery never leave one participant committed and another aborted,     *)
(* for any number of transactions, storages, failures and crashes.         *)
THEOREM AtomicCommitment == Spec => []Atomicity
<1>1. DecisionGoverns => Atomicity
  BY Zenon DEF DecisionGoverns, Atomicity
<1>2. QED
  BY <1>1, CommitPoint, PTL

(* What a caller was told, commit or rollback, is what every participant's *)
(* WAL says from then on.                                                  *)
THEOREM AcknowledgedForever == Spec => []AcknowledgedOutcome
<1>1. ASSUME Inv, NEW t \in Txns PROVE
        /\ reply[t] = "commit" =>
             /\ Decided(t)
             /\ \A s \in wset[t] : wal[t][s] = "Commit"
        /\ reply[t] = "abort" =>
             /\ ~Decided(t)
             /\ \A s \in wset[t] : wal[t][s] = "Abort"
  <2>1. HandleAgrees(t) /\ \A s \in wset[t] : WalAgrees(t, s)
    BY Zenon, <1>1 DEF Inv, Agreement, TxnAgrees
  <2>2. QED
    BY Zenon, <2>1 DEF HandleAgrees, WalAgrees, AllIn
<1>2. IInv => AcknowledgedOutcome
  BY Zenon, <1>1 DEF IInv, AcknowledgedOutcome
<1>3. QED
  BY <1>2, Inductive, PTL

(* A durable sequence number is never changed.                             *)
LEMMA SeqStep ==
    ASSUME Inv, Next, NEW u \in Txns, Decided(u), seqOf[u] <= stable
    PROVE  seqOf'[u] = seqOf[u]
<1> USE DEF Inv, CommitTypeOK, LogTypeOK
<1>1. ASSUME NEW t \in Txns, Step(t) PROVE seqOf'[u] = seqOf[u]
  <2>1. CASE DecisionOk(t) \/ DecisionFails(t)
    BY Zenon, <2>1 DEF DecisionOk, DecisionFails, DecideOk, DecideUnsynced, DecideFailed,
         AppendDecision, Decided
  <2>2. CASE FinishOk(t) \/ FinishFails(t)
    BY Zenon, <2>2 DEF FinishOk, FinishFails, DeferOk, DeferLost, CompleteOk, CompleteFailed,
         CompleteRefused, logVars
  <2>3. CASE ~(DecisionOk(t) \/ DecisionFails(t) \/ FinishOk(t) \/ FinishFails(t))
    BY Zenon, <1>1, <2>3 DEF Step, Begin, StartCommit, CommitReadOnly, ReadCommitFails,
         StartRollback, RollbackDone, DropHandle, logVars
  <2>4. QED
    BY Zenon, <2>1, <2>2, <2>3
<1>2. ASSUME NEW t \in Txns, NEW s \in Storages, ParticipantStep(t, s)
      PROVE  seqOf'[u] = seqOf[u]
  BY Zenon, <1>2
  DEF ParticipantStep, Write, StatementFails, PrepareOk, PrepareFails, ApplyOk,
      ApplyFails,
       RollbackOk, RollbackFails, logVars
<1>3. CASE Maintain \/ FinishOpen \/ OpenLog
  BY Zenon, <1>3, MaintainStep DEF MaintainEffect, FinishOpen, OpenLog, FlushOk, FlushFailed,
       LogOpen, DecideFailed, logVars
<1>4. CASE \E s \in Storages : ResolveStorage(s)
  BY Zenon, <1>4 DEF ResolveStorage, logVars
<1>5. CASE Crash \/ Reopen \/ MaintenanceCrash
  <2>1. LogOK /\ LogCrash
    BY Zenon, <1>5 DEF LogOK, Agreement, Crash, Reopen, MaintenanceCrash, ProcessEnds
  <2>2. QED
    BY Zenon, <2>1, CrashLog
<1>6. QED
  BY Zenon, <1>1, <1>2, <1>3, <1>4, <1>5 DEF Next

(* The sequence of a durable decision is the same in every later state:    *)
(* retries of sequenced_commit_decision, crashes and recovery never reuse  *)
(* or withdraw it.                                                         *)
THEOREM SequenceNeverChanges == Spec => SequenceFixed
<1> DEFINE Kept(t) == Decided(t) /\ seqOf[t] <= stable => seqOf'[t] = seqOf[t]
<1>1. IInv /\ [Next]_vars => [\A t \in Txns : Kept(t)]_vars
  BY Zenon, SeqStep DEF IInv
<1>2. QED
  BY <1>1, Inductive, PTL DEF Spec, SequenceFixed
-------------------------------------------------------------------------------
(* WHAT READERS SEE                                                        *)


(* A participant that has committed stays committed: no retry, rollback,   *)
(* lost handle, crash or recovery touches it again.                        *)
LEMMA CommittedStays ==
    ASSUME IInv, Next, NEW u \in Txns, NEW r \in Storages, part[u][r] = "Committed"
    PROVE  part'[u][r] = "Committed"
<1>1. /\ part \in [Txns -> [Storages -> PartStates]] /\ wset \in [Txns -> SUBSET Storages]
      /\ r \in wset[u] /\ TxnAgrees(u) /\ Decided(u)
  <2>1. CommitTypeOK /\ \A t \in Txns : TxnAgrees(t)
    BY Zenon DEF IInv, Inv, Agreement
  <2>2. r \in wset[u]
    BY <2>1 DEF TxnAgrees, Enlisted
  <2>3. Decided(u)
    BY Zenon, <2>1, <2>2 DEF TxnAgrees, LogAgrees
  <2> QED
    BY Zenon, <2>1, <2>2, <2>3 DEF CommitTypeOK
<1>2. wal[u][r] = "Commit" /\ state[u] \notin {"Active", "Preparing", "RollbackPending"}
  BY Zenon, <1>1 DEF TxnAgrees, WalAgrees, HandleAgrees
<1>3. ASSUME NEW t \in Txns, Step(t) PROVE part' = part
  BY Zenon, <1>3 DEF Step, Begin, StartCommit, CommitReadOnly, ReadCommitFails, DecisionOk,
     DecisionFails, FinishOk, FinishFails, StartRollback, RollbackDone, DropHandle, storageVars
<1>4. ASSUME NEW t \in Txns, NEW s \in Storages, NEW p, SetPart(t, s, p),
             t # u \/ s # r \/ p = "Committed"
      PROVE  part'[u][r] = "Committed"
  BY Zenon, <1>1, <1>4 DEF SetPart
<1>5. ASSUME NEW t \in Txns, NEW s \in Storages, ParticipantStep(t, s)
      PROVE  part'[u][r] = "Committed"
  <2>1. CASE Write(t, s)
    BY Zenon, <1>1, <1>4, <2>1 DEF Write
  <2>2. CASE StatementFails(t, s)
    BY <1>2, <1>4, <2>2 DEF StatementFails
  <2>3. CASE PrepareOk(t, s) \/ PrepareFails(t, s)
    <3>1. t # u
      BY <1>2, <2>3 DEF PrepareOk, PrepareFails
    <3> QED
      BY Zenon, <1>4, <2>3, <3>1 DEF PrepareOk, PrepareFails
  <2>4. CASE ApplyOk(t, s)
    BY Zenon, <1>4, <2>4 DEF ApplyOk
  <2>5. CASE ApplyFails(t, s)
    <3>1. t # u \/ s # r
      BY Zenon, <2>5 DEF ApplyFails, AtApply, NextParticipant
    <3>2. part' = part \/ \E p \in {"CommitPending", "Committed"} : SetPart(t, s, p)
      BY Zenon, <2>5 DEF ApplyFails, storageVars
    <3> QED
      BY Zenon, <1>4, <3>1, <3>2
  <2>6. CASE RollbackOk(t, s) \/ RollbackFails(t, s)
    <3>1. t # u
      BY <1>2, <2>6 DEF RollbackOk, RollbackFails
    <3>2. part' = part \/ \E p \in {"RollbackPending", "RolledBack"} : SetPart(t, s, p)
      BY Zenon, <2>6 DEF RollbackOk, RollbackFails
    <3> QED
      BY Zenon, <1>4, <3>1, <3>2
  <2> QED
    BY Zenon, <1>5, <2>1, <2>2, <2>3, <2>4, <2>5, <2>6 DEF ParticipantStep
<1>6. CASE Maintain \/ OpenLog \/ FinishOpen
  BY Zenon, <1>6, MaintainStep DEF MaintainEffect, OpenLog, FinishOpen, storageVars
<1>7. CASE Crash \/ Reopen \/ MaintenanceCrash
  <2>1. ProcessEnds
    BY Zenon, <1>7 DEF Crash, Reopen, MaintenanceCrash
  <2>2. PICK kept \in SUBSET {x \in Txns \X Storages : part[x[1]][x[2]] \in DOMAIN Unflushed} :
           wal' = [t \in Txns |-> [s \in Storages |->
                     IF <<t, s>> \in kept THEN Unflushed[part[t][s]] ELSE wal[t][s]]]
    BY Zenon, <2>1 DEF ProcessEnds
  <2>3. <<u, r>> \notin kept
    <3>1. DOMAIN Unflushed = {"PreparePending", "CommitPending", "RollbackPending"}
      BY DEF Unflushed
    <3>2. SUFFICES ASSUME <<u, r>> \in kept PROVE FALSE
      BY Zenon
    <3>3. part[u][r] \in DOMAIN Unflushed
      BY <2>2, <3>2
    <3> QED
      BY <3>1, <3>3
  <2>4. wal'[u][r] = "Commit"
    BY Zenon, <1>2, <2>2, <2>3
  <2>5. part'[u][r] = Inspected(wal'[u][r])
    BY Zenon, <1>1, <2>1 DEF ProcessEnds
  <2> QED
    BY Zenon, <2>4, <2>5 DEF Inspected
<1>8. ASSUME NEW s \in Storages, ResolveStorage(s) PROVE part'[u][r] = "Committed"
  <2>1. CASE r # s
    BY Zenon, <1>1, <1>8, <2>1 DEF ResolveStorage
  <2>2. CASE r = s
    <3>1. wal \in [Txns -> [Storages -> WalRecords]]
      BY Zenon DEF IInv, Inv, CommitTypeOK
    <3>2. wal'[u][s] = IF s \in wset[u] /\ wal[u][s] \in {"none", "Prepare"}
                       THEN IF Decided(u) THEN "Commit" ELSE "Abort" ELSE wal[u][s]
      BY Zenon, <1>8, <3>1 DEF ResolveStorage
    <3>3. wal'[u][s] = "Commit"
      BY <1>2, <2>2, <3>2
    <3>4. part'[u][s] = Inspected(wal'[u][s])
      BY Zenon, <1>1, <1>8, <2>2 DEF ResolveStorage
    <3> QED
      BY Zenon, <2>2, <3>3, <3>4 DEF Inspected
  <2> QED
    BY Zenon, <2>1, <2>2
<1> QED
  BY Zenon, <1>3, <1>5, <1>6, <1>7, <1>8 DEF Next

(* The published snapshot shows what has committed, and while the database *)
(* is up every transaction whose commit has returned.                      *)
Shown == \A s \in Storages : snap.vis[s] \subseteq CommittedAt(s)
Published ==
    mode = "up" => \A t \in Txns : state[t] = "Committed" => \A s \in wset[t] : t \in snap.vis[s]

SnapInv == IInv /\ Shown /\ Published

(* Only a commit that returns, or the end of an open, publishes a snapshot.*)
LEMMA Publishes ==
    ASSUME Next PROVE UNCHANGED snap \/ FinishOpen \/ \E t \in Txns : FinishOk(t)
<1>1. ASSUME NEW t \in Txns, Step(t) PROVE snap' = snap \/ FinishOk(t)
  BY Zenon, <1>1 DEF Step, Begin, StartCommit, CommitReadOnly, ReadCommitFails, DecisionOk,
     DecisionFails, FinishFails, StartRollback, RollbackDone, DropHandle
<1>2. ASSUME NEW t \in Txns, NEW s \in Storages, ParticipantStep(t, s) PROVE snap' = snap
  BY Zenon, <1>2 DEF ParticipantStep, Write, StatementFails, PrepareOk, PrepareFails, ApplyOk,
     ApplyFails, RollbackOk, RollbackFails
<1>3. CASE Maintain \/ OpenLog \/ Crash \/ Reopen \/ MaintenanceCrash
  BY Zenon, <1>3, MaintainStep
  DEF MaintainEffect, OpenLog, Crash, Reopen, MaintenanceCrash, ProcessEnds
<1>4. CASE \E s \in Storages : ResolveStorage(s)
  BY Zenon, <1>4 DEF ResolveStorage
<1> QED
  BY Zenon, <1>1, <1>2, <1>3, <1>4 DEF Next

(* What a publication shows: all that has committed in the storages the    *)
(* transaction wrote, and what was shown before in the others.             *)
LEMMA PublishedSets ==
    ASSUME IInv, Shown, NEW s \in Storages, FinishOpen \/ \E t \in Txns : FinishOk(t)
    PROVE  /\ part' = part /\ snap.vis[s] \subseteq snap'.vis[s]
           /\ snap'.vis[s] \subseteq CommittedAt(s)
           /\ FinishOpen => snap'.vis[s] = CommittedAt(s)
           /\ \A t \in Txns : FinishOk(t) /\ s \in wset[t] => snap'.vis[s] = CommittedAt(s)
<1>1. CASE FinishOpen
  <2>1. part' = part /\ snap'.vis[s] = CommittedAt(s) /\ mode = "opening"
    BY <1>1 DEF FinishOpen, storageVars
  <2>2. \A t \in Txns : ~FinishOk(t)
    BY <2>1 DEF FinishOk, AtFinish, Running
  <2> QED
    BY Zenon, <2>1, <2>2 DEF Shown
<1>2. ASSUME NEW t \in Txns, FinishOk(t)
      PROVE  /\ part' = part
             /\ snap'.vis[s] = IF s \in wset[t] THEN CommittedAt(s) ELSE snap.vis[s]
  BY <1>2 DEF FinishOk, Publish, storageVars
<1> QED
  BY Zenon, <1>1, <1>2 DEF Shown, FinishOpen, FinishOk, AtFinish, Running

(* The snapshot only grows.                                                *)
LEMMA GrowStep ==
    ASSUME IInv, Shown, Next, NEW s \in Storages PROVE snap.vis[s] \subseteq snap'.vis[s]
BY Zenon, Publishes, PublishedSets

(* A handle becomes Committed only when it has nothing to show or FinishOk *)
(* publishes it; a committed handle writes no more.                        *)
LEMMA BecomesCommitted ==
    ASSUME IInv, Next, NEW u \in Txns, state'[u] = "Committed", mode' = "up"
    PROVE  \/ wset'[u] = {} \/ FinishOk(u)
           \/ FinishOpen /\ state[u] = "Committed"
           \/ mode = "up" /\ state[u] = "Committed" /\ wset'[u] = wset[u]
<1>1. state \in [Txns -> TxnStates] /\ wset \in [Txns -> SUBSET Storages]
  BY Zenon DEF IInv, Inv, CommitTypeOK
<1>2. ASSUME NEW t \in Txns, NEW v, SetState(t, v), t # u \/ v # "Committed"
      PROVE  state[u] = "Committed" /\ t # u
  BY Zenon, <1>1, <1>2 DEF SetState
<1>3. ASSUME NEW t \in Txns, Step(t)
      PROVE  \/ wset'[u] = {} \/ FinishOk(u)
             \/ mode = "up" /\ state[u] = "Committed" /\ wset'[u] = wset[u]
  <2>1. mode = "up" /\ wset' = wset
    BY Zenon, <1>3 DEF Step, Begin, StartCommit, CommitReadOnly, ReadCommitFails, DecisionOk,
       DecisionFails, FinishOk, FinishFails, StartRollback, RollbackDone, DropHandle, Quiet,
       Running, AtDecision, AtFinish
  <2>2. CASE CommitReadOnly(t) \/ FinishOk(t)
    BY Zenon, <1>2, <2>1, <2>2 DEF CommitReadOnly, FinishOk
  <2>3. CASE ReadCommitFails(t)
    BY Zenon, <2>1, <2>3 DEF ReadCommitFails
  <2>4. CASE StartCommit(t)
    <3>1. (IF state[t] = "Active" THEN "Preparing" ELSE state[t]) # "Committed"
      BY <2>4 DEF StartCommit, Unfinished
    <3> QED
      BY Zenon, <1>2, <2>1, <2>4, <3>1 DEF StartCommit
  <2>5. CASE \E v \in {"Active", "ApplyingCommit", "DecisionPending", "FinalizePending",
                       "RollbackPending", "RolledBack", "Dropped"} : SetState(t, v)
    <3>1. PICK v \in {"Active", "ApplyingCommit", "DecisionPending", "FinalizePending",
                      "RollbackPending", "RolledBack", "Dropped"} : SetState(t, v)
      BY Zenon, <2>5
    <3>2. v # "Committed"
      BY <3>1
    <3> QED
      BY Zenon, <1>2, <2>1, <3>1, <3>2
  <2> QED
    BY Zenon, <1>3, <2>2, <2>3, <2>4, <2>5 DEF Step, Begin, DecisionOk, DecisionFails, FinishFails,
       StartRollback, RollbackDone, DropHandle
<1>4. ASSUME NEW t \in Txns, NEW s \in Storages, ParticipantStep(t, s)
      PROVE  mode = "up" /\ state[u] = "Committed" /\ wset'[u] = wset[u]
  <2>1. CASE Write(t, s)
    <3>1. mode = "up" /\ state' = state /\ state[t] = "Active"
      BY Zenon, <2>1 DEF Write, Quiet
    <3>2. t # u
      BY <3>1
    <3> QED
      BY Zenon, <1>1, <2>1, <3>1, <3>2 DEF Write
  <2>2. CASE PrepareFails(t, s)
    <3>1. mode = "up" /\ wset' = wset /\ SetState(t, "RollbackPending")
      BY Zenon, <2>2 DEF PrepareFails, Running
    <3> QED
      BY Zenon, <1>2, <3>1
  <2>3. CASE StatementFails(t, s) \/ PrepareOk(t, s) \/ ApplyOk(t, s) \/ ApplyFails(t, s)
             \/ RollbackOk(t, s) \/ RollbackFails(t, s)
    BY Zenon, <2>3 DEF StatementFails, PrepareOk, ApplyOk, ApplyFails, RollbackOk, RollbackFails,
       AtApply, Quiet, Running, txnVars
  <2> QED
    BY Zenon, <1>4, <2>1, <2>2, <2>3 DEF ParticipantStep
<1>5. CASE Maintain \/ FinishOpen
  BY Zenon, <1>5, MaintainStep DEF MaintainEffect, FinishOpen, txnVars
<1>6. CASE OpenLog \/ Crash \/ Reopen \/ MaintenanceCrash
           \/ \E s \in Storages : ResolveStorage(s)
  <2>1. mode' \in {"down", "opening"}
    BY Zenon, <1>6 DEF OpenLog, Crash, Reopen, MaintenanceCrash, ProcessEnds, ResolveStorage,
       envVars
  <2> QED
    BY <2>1
<1> QED
  BY Zenon, <1>3, <1>4, <1>5, <1>6 DEF Next

(* Every step keeps the snapshot's invariant.                              *)
LEMMA SnapStep ==
    ASSUME SnapInv, [Next]_vars PROVE SnapInv'
<1>1. IInv'
  BY Zenon, NextInv DEF SnapInv
<1>2. CASE UNCHANGED vars
  BY Zenon, <1>1, <1>2 DEF SnapInv, Shown, Published, CommittedAt, vars, txnVars, storageVars, envVars
<1>3. CASE Next
  <2>1. IInv /\ Shown /\ Published
    BY Zenon DEF SnapInv
  <2>2. ASSUME NEW s \in Storages, NEW t \in snap'.vis[s] PROVE t \in CommittedAt(s)'
    <3>1. t \in CommittedAt(s)
      BY Zenon, <1>3, <2>1, <2>2, Publishes, PublishedSets DEF Shown
    <3>2. t \in Txns /\ part[t][s] = "Committed"
      BY Zenon, <3>1 DEF CommittedAt
    <3>3. part'[t][s] = "Committed"
      BY Zenon, <1>3, <2>1, <3>2, CommittedStays
    <3> QED
      BY Zenon, <3>2, <3>3 DEF CommittedAt
  <2>3. ASSUME mode' = "up", NEW t \in Txns, state'[t] = "Committed", NEW s \in wset'[t]
        PROVE  t \in snap'.vis[s]
    <3>1. s \in Storages /\ TxnAgrees(t)' /\ TxnAgrees(t) /\ wset[t] \subseteq Storages
      BY Zenon, <1>1, <2>1 DEF IInv, Inv, Agreement, CommitTypeOK
    <3>2. part'[t][s] = "Committed"
      BY Zenon, <2>3, <3>1 DEF TxnAgrees, HandleAgrees, AllIn
    <3>3. CASE FinishOk(t) \/ FinishOpen
      <4>1. wset' = wset /\ part' = part
        BY Zenon, <3>3 DEF FinishOk, FinishOpen, txnVars, storageVars
      <4>2. snap'.vis[s] = CommittedAt(s)
        BY Zenon, <2>1, <3>1, <3>3, <4>1, PublishedSets
      <4> QED
        BY Zenon, <3>2, <4>1, <4>2 DEF CommittedAt
    <3>4. CASE mode = "up" /\ state[t] = "Committed" /\ wset'[t] = wset[t]
      BY Zenon, <1>3, <2>1, <3>1, <3>4, GrowStep DEF Published
    <3> QED
      BY Zenon, <1>3, <2>1, <2>3, <3>3, <3>4, BecomesCommitted
  <2> QED
    BY Zenon, <1>1, <2>2, <2>3 DEF SnapInv, Shown, Published
<1> QED
  BY Zenon, <1>2, <1>3

(* The snapshot's invariant holds in every reachable state.                *)
THEOREM SnapshotInductive == Spec => []SnapInv
<1>1. Init => SnapInv
  <2>1. SUFFICES ASSUME Init PROVE SnapInv
    BY Zenon
  <2>2. IInv
    BY Zenon, <2>1, InitInv DEF IInv, Settled, Init
  <2>3. \A s \in Storages : snap.vis[s] = {}
    BY <2>1 DEF Init
  <2>4. \A t \in Txns : wset[t] = {}
    BY Zenon, <2>1 DEF Init
  <2> QED
    BY Zenon, <2>2, <2>3, <2>4 DEF SnapInv, Shown, Published
<1>2. SnapInv /\ [Next]_vars => SnapInv'
  BY Zenon, SnapStep
<1> QED
  BY <1>1, <1>2, PTL DEF Spec

(* While the database is up, a commit that has returned is visible in all  *)
(* the storages it wrote, and what a snapshot shows is durably decided.    *)
THEOREM SnapshotSettled == Spec => []SnapshotShowsSettled
<1>1. SnapInv => SnapshotShowsSettled
  <2>1. ASSUME SnapInv, NEW t \in Txns, NEW s \in wset[t], t \in snap.vis[s]
        PROVE  Decided(t) /\ seqOf[t] <= stable
    <3>1. s \in Storages /\ TxnAgrees(t)
      BY Zenon, <2>1 DEF SnapInv, IInv, Inv, Agreement, CommitTypeOK
    <3>2. part[t][s] = "Committed"
      BY Zenon, <2>1, <3>1 DEF SnapInv, Shown, CommittedAt
    <3> QED
      BY Zenon, <3>1, <3>2 DEF TxnAgrees, LogAgrees
  <2> QED
    BY Zenon, <2>1 DEF SnapInv, Published, SnapshotShowsSettled
<1> QED
  BY <1>1, SnapshotInductive, PTL

(* A published transaction is never taken away from readers.               *)
THEOREM SnapshotNeverShrinks == Spec => SnapshotGrows
<1> DEFINE Grown == \A s \in Storages : snap.vis[s] \subseteq snap'.vis[s]
<1>1. SnapInv /\ [Next]_vars => [Grown]_vars
  BY Zenon, GrowStep DEF SnapInv
<1> QED
  BY <1>1, SnapshotInductive, PTL DEF Spec, SnapshotGrows

-------------------------------------------------------------------------------
(* RECYCLED WALS AND THE NEXT OPEN                                         *)

RecycledOK == recycled \in [Storages -> SUBSET Txns] /\ RecycledCommitted

(* A WAL is recycled by maintenance, by a write to an LSM, or not at all.  *)
LEMMA Recycling ==
    ASSUME Next
    PROVE  recycled' = recycled \/ \E ss \in SUBSET Storages : recycled' = Recycled(ss)
<1>1. ASSUME NEW t \in Txns, Step(t) PROVE recycled' = recycled
  BY Zenon, <1>1 DEF Step, Begin, StartCommit, CommitReadOnly, ReadCommitFails, DecisionOk,
     DecisionFails, FinishOk, FinishFails, StartRollback, RollbackDone, DropHandle, storageVars
<1>2. ASSUME NEW t \in Txns, NEW s \in Storages, ParticipantStep(t, s)
      PROVE  recycled' = recycled \/ recycled' = Recycled({s} \intersect Lsm)
  BY Zenon, <1>2 DEF ParticipantStep, Write, StatementFails, PrepareOk, PrepareFails, ApplyOk,
     ApplyFails, RollbackOk, RollbackFails
<1>3. ASSUME NEW s \in Storages PROVE {s} \intersect Lsm \in SUBSET Storages
  BY Zenon
<1>4. CASE OpenLog \/ FinishOpen \/ Crash \/ Reopen
  BY Zenon, <1>4 DEF OpenLog, FinishOpen, Crash, Reopen, storageVars
<1>5. CASE MaintenanceCrash
  <2>1. PICK op \in {"flush", "checkpoint"}, ss \in SUBSET Storages : Visited(op, ss)
    BY Zenon, <1>5 DEF MaintenanceCrash
  <2> QED
    BY Zenon, <2>1 DEF Visited, Rotated
<1>6. CASE \E s \in Storages : ResolveStorage(s)
  BY Zenon, <1>6 DEF ResolveStorage
<1> QED
  BY Zenon, <1>1, <1>2, <1>3, <1>4, <1>5, <1>6, MaintainStep DEF Next, MaintainEffect

(* Every step keeps the recycled transactions among the committed ones.    *)
LEMMA RecycledStep ==
    ASSUME IInv, RecycledOK, [Next]_vars
    PROVE  RecycledOK'
<1>1. CASE UNCHANGED vars
  BY Zenon, <1>1 DEF RecycledOK, RecycledCommitted, CommittedAt, vars, storageVars
<1>2. CASE Next
  <2>1. \A s \in Storages : CommittedAt(s) \subseteq Txns
    BY Zenon DEF CommittedAt
  <2>2. recycled' \in [Storages -> SUBSET Txns]
    BY Zenon, <1>2, <2>1, Recycling DEF RecycledOK, Recycled
  <2>3. ASSUME NEW s \in Storages, NEW t \in recycled'[s] PROVE t \in CommittedAt(s)'
    <3>1. t \in CommittedAt(s)
      BY Zenon, <1>2, <2>3, Recycling DEF RecycledOK, RecycledCommitted, Recycled
    <3>2. t \in Txns /\ part[t][s] = "Committed"
      BY Zenon, <3>1 DEF CommittedAt
    <3>3. part'[t][s] = "Committed"
      BY Zenon, <1>2, <3>2, CommittedStays
    <3> QED
      BY Zenon, <3>2, <3>3 DEF CommittedAt
  <2> QED
    BY Zenon, <2>2, <2>3 DEF RecycledOK, RecycledCommitted
<1> QED
  BY Zenon, <1>1, <1>2

(* Until the database is open, contexts are what the WAL inspection found. *)
AsInspected ==
    mode # "up" => \A t \in Txns : \A s \in wset[t] : part[t][s] = Inspected(wal[t][s])

(* Opening keeps the contexts in step with the WALs it extends.            *)
LEMMA InspectedStep ==
    ASSUME IInv, AsInspected, [Next]_vars
    PROVE  AsInspected'
<1>1. CASE UNCHANGED vars
  BY Zenon, <1>1 DEF AsInspected, vars, txnVars, storageVars, envVars
<1>2. ASSUME NEW t \in Txns, Step(t) PROVE mode' = "up"
  BY Zenon, <1>2 DEF Step, Begin, StartCommit, CommitReadOnly, ReadCommitFails, DecisionOk,
     DecisionFails, FinishOk, FinishFails, StartRollback, RollbackDone, DropHandle, Quiet,
     Running, AtDecision, AtFinish, envVars
<1>3. ASSUME NEW t \in Txns, NEW s \in Storages, ParticipantStep(t, s) PROVE mode' = "up"
  BY Zenon, <1>3 DEF ParticipantStep, Write, StatementFails, PrepareOk, PrepareFails, ApplyOk,
     ApplyFails, RollbackOk, RollbackFails, AtApply, Quiet, Running, envVars
<1>4. Maintain => mode' = "up"
  BY Zenon, MaintainStep DEF MaintainEffect
<1>5. FinishOpen => mode' = "up"
  BY Zenon DEF FinishOpen
<1>6. CASE OpenLog
  BY Zenon, <1>6 DEF OpenLog, AsInspected, txnVars, storageVars
<1>7. CASE Crash \/ Reopen \/ MaintenanceCrash
  <2>1. ProcessEnds
    BY Zenon, <1>7 DEF Crash, Reopen, MaintenanceCrash
  <2>2. wset \in [Txns -> SUBSET Storages] /\ wset' = wset
    BY Zenon, <2>1 DEF IInv, Inv, CommitTypeOK, ProcessEnds
  <2>3. part' = [t \in Txns |-> [s \in Storages |->
                  IF s \in wset[t] THEN Inspected(wal'[t][s]) ELSE "none"]]
    BY Zenon, <2>1 DEF ProcessEnds
  <2> QED
    BY Zenon, <2>2, <2>3 DEF AsInspected
<1>8. CASE \E s \in Storages : ResolveStorage(s)
  <2>1. PICK s \in Storages : ResolveStorage(s)
    BY Zenon, <1>8
  <2>2. mode = "opening" /\ wset' = wset /\ wset \in [Txns -> SUBSET Storages]
    BY Zenon, <2>1 DEF ResolveStorage, txnVars, IInv, Inv, CommitTypeOK
  <2>3. ASSUME NEW t \in Txns, NEW r \in wset[t] PROVE part'[t][r] = Inspected(wal'[t][r])
    <3>1. r \in Storages /\ part[t][r] = Inspected(wal[t][r])
      <4>1. r \in Storages
        BY Zenon, <2>2
      <4>2. mode # "up"
        BY <2>2
      <4> QED
        BY Zenon, <4>1, <4>2 DEF AsInspected
    <3>2. /\ part \in [Txns -> [Storages -> PartStates]]
          /\ wal \in [Txns -> [Storages -> WalRecords]]
      BY Zenon DEF IInv, Inv, CommitTypeOK
    <3>3. CASE r # s
      <4>1. part'[t][r] = part[t][r]
        BY <2>1, <3>2, <3>3 DEF ResolveStorage
      <4>2. wal'[t][r] = wal[t][r]
        BY <2>1, <3>2, <3>3 DEF ResolveStorage
      <4> QED
        BY Zenon, <3>1, <4>1, <4>2
    <3>4. CASE r = s
      BY <2>1, <3>1, <3>2, <3>4 DEF ResolveStorage
    <3> QED
      BY Zenon, <3>3, <3>4
  <2> QED
    BY Zenon, <2>2, <2>3 DEF AsInspected
<1> QED
  BY Zenon, <1>1, <1>2, <1>3, <1>4, <1>5, <1>6, <1>7, <1>8 DEF Next, AsInspected

(* Only committed transactions ever leave a WAL, and an open works on what *)
(* the inspection of the WALs found.                                       *)
THEOREM RecycledInductive == Spec => [](IInv /\ RecycledOK /\ AsInspected)
<1>1. Init => RecycledOK /\ AsInspected
  BY Zenon DEF Init, RecycledOK, RecycledCommitted, AsInspected
<1>2. IInv /\ RecycledOK /\ AsInspected /\ [Next]_vars => RecycledOK' /\ AsInspected'
  BY Zenon, RecycledStep, InspectedStep
<1> QED
  BY <1>1, <1>2, Inductive, PTL DEF Spec

(* Every variable of the commit protocol keeps its type.                   *)
THEOREM TypeCorrect == Spec => []TypeOK
<1>1. IInv /\ RecycledOK => TypeOK
  BY Zenon DEF IInv, Inv, RecycledOK, TypeOK
<1> QED
  BY <1>1, RecycledInductive, PTL

(* An open refuses what a crash left for one reason only, for any number   *)
(* of transactions, storages, failures and crashes: checkpoint(), flush(), *)
(* compact() or a write to an LSM recycled the WAL of a participant before *)
(* the Complete of its decision was synchronized.  The participant that    *)
(* validate_coordinator_recovery then misses is durably committed, and no  *)
(* participant ever contradicts the coordinator log.                       *)
THEOREM OnlyRecyclingRefuses == Spec => []RefusalIsRecycling
<1>1. ASSUME Inv, NEW t \in Txns, NEW s \in Storages PROVE ~Contradicts(t, s)
  <2>1. SUFFICES ASSUME s \in wset[t] PROVE Contradicts(t, s) => FALSE
    BY Zenon DEF Contradicts
  <2>2. LogAgrees(t, s)
    BY Zenon, <1>1, <2>1 DEF Inv, Agreement, TxnAgrees
  <2> QED
    BY <2>2 DEF LogAgrees, Contradicts
<1>2. ASSUME Inv, RecycledOK, NEW t \in Txns, NEW s \in Storages, MissingParticipant(t, s)
      PROVE  wal[t][s] = "Commit" /\ seqOf[t] > stableC
  <2>1. part[t][s] = "Committed"
    BY Zenon, <1>2 DEF MissingParticipant, RecycledOK, RecycledCommitted, CommittedAt
  <2>2. s \in wset[t] /\ TxnAgrees(t)
    BY Zenon, <1>2 DEF MissingParticipant, Inv, Agreement
  <2>3. wal[t][s] = "Commit"
    BY Zenon, <2>1, <2>2 DEF TxnAgrees, WalAgrees
  <2>4. seqOf[t] \in Nat /\ completed \in Nat /\ stableC \in 0..completed
    BY <1>2 DEF Inv, CommitTypeOK, LogTypeOK
  <2> QED
    BY <1>2, <2>3, <2>4 DEF MissingParticipant
<1>3. IInv /\ RecycledOK => RefusalIsRecycling
  BY Zenon, <1>1, <1>2 DEF IInv, RefusalIsRecycling
<1> QED
  BY <1>3, RecycledInductive, PTL

(* The end of an open gives every durable decision its effect, and shows   *)
(* nothing else (FinishOpen after ResolveStorage of every storage).        *)
THEOREM OpenGivesEffect == Spec => OpenSettlesDecisions
<1> DEFINE Opened == mode = "opening" /\ mode' = "up" =>
              \A t \in Txns : \A s \in wset[t] :
                  (Decided(t) <=> t \in snap'.vis[s]) /\ (Decided(t) => wal[t][s] = "Commit")
<1>1. ASSUME IInv, Next, mode = "opening", mode' = "up" PROVE FinishOpen
  <2>1. ASSUME NEW t \in Txns, Step(t) PROVE mode = "up"
    BY Zenon, <2>1 DEF Step, Begin, StartCommit, CommitReadOnly, ReadCommitFails, DecisionOk,
       DecisionFails, FinishOk, FinishFails, StartRollback, RollbackDone, DropHandle, Quiet,
       Running, AtDecision, AtFinish
  <2>2. ASSUME NEW t \in Txns, NEW s \in Storages, ParticipantStep(t, s) PROVE mode = "up"
    BY Zenon, <2>2 DEF ParticipantStep, Write, StatementFails, PrepareOk, PrepareFails, ApplyOk,
       ApplyFails, RollbackOk, RollbackFails, AtApply, Quiet, Running
  <2>3. Maintain => mode = "up"
    BY Zenon, MaintainStep DEF MaintainEffect
  <2>4. ASSUME OpenLog \/ Crash \/ Reopen \/ MaintenanceCrash
               \/ \E s \in Storages : ResolveStorage(s)
        PROVE  mode' \in {"opening", "down"}
    BY Zenon, <1>1, <2>4 DEF OpenLog, Crash, Reopen, MaintenanceCrash, ProcessEnds,
       ResolveStorage, envVars
  <2>5. mode # "up" /\ mode' \notin {"opening", "down"}
    BY <1>1
  <2> QED
    BY Zenon, <1>1, <2>1, <2>2, <2>3, <2>4, <2>5 DEF Next
<1>2. ASSUME IInv, AsInspected, FinishOpen, NEW t \in Txns, NEW s \in wset[t]
      PROVE  (Decided(t) <=> t \in snap'.vis[s]) /\ (Decided(t) => wal[t][s] = "Commit")
  <2>1. s \in Storages /\ TxnAgrees(t)
    BY Zenon, <1>2 DEF IInv, Inv, Agreement, CommitTypeOK
  <2>2. snap'.vis[s] = CommittedAt(s)
    BY <1>2, <2>1 DEF FinishOpen
  <2>3. wal[t][s] \in {"Commit", "Abort"}
    BY Zenon, <1>2 DEF FinishOpen
  <2>4. WalAgrees(t, s) /\ LogAgrees(t, s)
    BY Zenon, <2>1 DEF TxnAgrees
  <2>5. Decided(t) => part[t][s] = "Committed" /\ wal[t][s] = "Commit"
    <3>1. part[t][s] = Inspected(wal[t][s])
      BY Zenon, <1>2, <2>1 DEF AsInspected, FinishOpen
    <3> QED
      BY <2>3, <2>4, <3>1 DEF WalAgrees, LogAgrees, Inspected
  <2>6. part[t][s] = "Committed" => Decided(t)
    BY Zenon, <2>4 DEF LogAgrees
  <2> QED
    BY Zenon, <2>2, <2>5, <2>6 DEF CommittedAt
<1>3. IInv /\ AsInspected /\ [Next]_vars => [Opened]_vars
  BY Zenon, <1>1, <1>2
<1> QED
  BY <1>3, RecycledInductive, PTL DEF Spec, OpenSettlesDecisions
===============================================================================
