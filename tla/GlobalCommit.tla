----------------------------- MODULE GlobalCommit -----------------------------
(***************************************************************************)
(* The commit path of a database transaction in global-visibility mode     *)
(* (netbadb-core transaction.rs, commit_multi_write and its callees) over  *)
(* the durable coordinator log of module DecisionLog.                      *)
(*                                                                         *)
(* Every storage a transaction writes is a participant with a WAL of its   *)
(* own.  commit() prepares the participants in storage order, makes one    *)
(* decision durable, applies it participant by participant, logs Complete  *)
(* and publishes the database snapshot.  The engine is single-threaded: a  *)
(* call runs to its return, but every write or sync in it can fail, which  *)
(* ends the call with an error and leaves the transaction for a retry, and *)
(* the process can die between any two of its steps.                       *)
(*                                                                         *)
(*   state[t]     TransactionState of t's handle ("Dropped": handle gone)  *)
(*   wset[t]      write_participants                                       *)
(*   part[t][s]   state of t's participant context in storage s            *)
(*   wal[t][s]    strongest record of t that became durable in the WAL of s *)
(*   recycled[s]  committed transactions whose records the WAL of s no     *)
(*                longer holds, their effect being in its data files       *)
(*   writer[s]    WriterState of s: the transaction holding the lease      *)
(*   blocked      storages whose WriterState is RecoveryRequired           *)
(*   poisoned     storages whose transaction-status writer failed          *)
(*   snap         PublishedVisibility: seq and, per storage, the           *)
(*                transactions at or below the published boundary          *)
(*   caller       the transaction whose commit() or rollback() is running  *)
(*   reply[t]     what the last finished call told the client              *)
(*   mode         "up", "down" (crashed) or "opening" (log validated)      *)
(***************************************************************************)
EXTENDS DecisionLog

CONSTANTS
    Storages,       \* StorageIds, ordered as the code orders them
    Lsm,            \* the storages that are LSM trees; the others are heaps
    Structural,     \* transactions with pending index DDL
    NoTxn,
    MaxFaults,      \* bound on failing reads, writes and syncs
    MaxCrashes      \* bound on process deaths

ASSUME StoragesAssumption == Storages \subseteq Nat /\ Lsm \subseteq Storages
ASSUME StructuralAssumption == Structural \subseteq Txns
ASSUME NoTxnAssumption == NoTxn \notin Txns
ASSUME BoundsAssumption == MaxFaults \in Nat /\ MaxCrashes \in Nat

VARIABLES state, wset, part, wal, recycled, writer, blocked, poisoned, snap, caller,
          reply, mode, faults, crashes

txnVars == <<state, wset, caller, reply>>
storageVars == <<part, wal, recycled, writer, blocked, poisoned>>
envVars == <<mode, faults, crashes>>
vars == <<logVars, txnVars, storageVars, snap, envVars>>

TxnStates == {"Idle", "Active", "Preparing",
              "DecisionPending", "ApplyingCommit", "FinalizePending",
              "Committed", "RollbackPending", "RolledBack", "Dropped"}
PartStates == {"none", "Active", "RollbackRequired", "PreparePending", "Prepared",
               "CommitPending", "Committed", "RollbackPending", "RolledBack"}
WalRecords == {"none", "Prepare", "Commit", "Abort"}

(* A commit that has been decided, or may have been, and is not finished.  *)
Unfinished == {"DecisionPending", "ApplyingCommit", "FinalizePending"}

CommitTypeOK ==
    /\ LogTypeOK
    /\ state \in [Txns -> TxnStates]
    /\ wset \in [Txns -> SUBSET Storages]
    /\ part \in [Txns -> [Storages -> PartStates]]
    /\ wal \in [Txns -> [Storages -> WalRecords]]
    /\ writer \in [Storages -> Txns \union {NoTxn}]
    /\ blocked \subseteq Storages
    /\ poisoned \subseteq Storages
    /\ snap \in [seq : Nat, vis : [Storages -> SUBSET Txns]]
    /\ caller \in Txns \union {NoTxn}
    /\ reply \in [Txns -> {"none", "commit", "abort"}]
    /\ mode \in {"up", "down", "opening"}
    /\ faults \in 0..MaxFaults
    /\ crashes \in 0..MaxCrashes

TypeOK == CommitTypeOK /\ recycled \in [Storages -> SUBSET Txns]

Init ==
    /\ LogInit
    /\ state = [t \in Txns |-> "Idle"]
    /\ wset = [t \in Txns |-> {}]
    /\ part = [t \in Txns |-> [s \in Storages |-> "none"]]
    /\ wal = [t \in Txns |-> [s \in Storages |-> "none"]]
    /\ recycled = [s \in Storages |-> {}]
    /\ writer = [s \in Storages |-> NoTxn]
    /\ blocked = {} /\ poisoned = {}
    /\ snap = [seq |-> 0, vis |-> [s \in Storages |-> {}]]
    /\ caller = NoTxn
    /\ reply = [t \in Txns |-> "none"]
    /\ mode = "up"
    /\ faults = 0 /\ crashes = 0

(* The first write participant, in storage order, not yet in one of done.  *)
NextParticipant(t, s, done) ==
    /\ s \in wset[t] /\ part[t][s] \notin done
    /\ \A r \in wset[t] : r < s => part[t][r] \in done

AllIn(t, done) == \A s \in wset[t] : part[t][s] \in done

(* Transactions at or below the current boundary of s: Transaction Status  *)
(* records them as committed.                                              *)
CommittedAt(s) == {t \in Txns : part[t][s] = "Committed"}

Fault == faults < MaxFaults /\ faults' = faults + 1

Quiet == mode = "up" /\ caller = NoTxn

Running(t) == mode = "up" /\ caller = t

Return(t, r) ==
    /\ caller' = NoTxn
    /\ reply' = [reply EXCEPT ![t] = r]

(* release_writer                                                          *)
Release(t, s) == writer' = [writer EXCEPT ![s] = IF @ = t THEN NoTxn ELSE @]

(* A failing append to the transaction-status file of s is truncated away, *)
(* and poisons the storage when the truncation fails too.                  *)
StatusFails(s) == poisoned' \in {poisoned, poisoned \union {s}}

SetPart(t, s, p) == part' = [part EXCEPT ![t][s] = p]
SetWal(t, s, w) == wal' = [wal EXCEPT ![t][s] = w]
SetState(t, v) == state' = [state EXCEPT ![t] = v]

-------------------------------------------------------------------------------
(* begin, write_context and a failing statement.                           *)

Begin(t) ==
    /\ Quiet
    /\ state[t] = "Idle"
    /\ SetState(t, "Active")
    /\ UNCHANGED <<logVars, wset, caller, reply, storageVars, snap, envVars>>

(* The WAL of s starts a new generation: what was committed in s lives in  *)
(* its data files, and nothing is carried over.                            *)
Recycled(ss) ==
    [s \in Storages |-> IF s \in ss THEN CommittedAt(s) ELSE recycled[s]]

(* write_context enlists s, the storage write takes the lease.  An LSM     *)
(* whose MemTable has grown past its threshold is flushed first            *)
(* (acquire_writer).                                                       *)
Write(t, s) ==
    /\ Quiet
    /\ state[t] = "Active" /\ s \notin wset[t]
    /\ writer[s] = NoTxn /\ s \notin blocked \union poisoned
    /\ wset' = [wset EXCEPT ![t] = @ \union {s}]
    /\ SetPart(t, s, "Active")
    /\ writer' = [writer EXCEPT ![s] = t]
    /\ recycled' \in {recycled, Recycled({s} \intersect Lsm)}
    /\ UNCHANGED <<logVars, state, caller, reply, wal, blocked, poisoned, snap,
                   envVars>>

(* require_rollback: a statement that failed halfway bars the participant  *)
(* from preparing; the handle stays Active.                                *)
StatementFails(t, s) ==
    /\ Quiet /\ Fault
    /\ state[t] = "Active" /\ s \in wset[t] /\ part[t][s] = "Active"
    /\ SetPart(t, s, "RollbackRequired")
    /\ UNCHANGED <<logVars, txnVars, wal, recycled, writer, blocked, poisoned, snap, mode,
                   crashes>>

-------------------------------------------------------------------------------
(* commit() and commit_multi_write().                                      *)

StartCommit(t) ==
    /\ Quiet
    /\ state[t] \in {"Active", "Preparing"} \union Unfinished
    /\ wset[t] # {}
    /\ caller' = t
    /\ SetState(t, IF state[t] = "Active" THEN "Preparing" ELSE state[t])
    /\ UNCHANGED <<logVars, wset, reply, storageVars, snap, envVars>>

(* A transaction that wrote nothing has nothing to decide.                 *)
CommitReadOnly(t) ==
    /\ Quiet
    /\ state[t] = "Active" /\ wset[t] = {}
    /\ SetState(t, "Committed")
    /\ UNCHANGED <<logVars, wset, caller, reply, storageVars, snap, envVars>>

(* The read contexts are committed before the first prepare.  When that    *)
(* fails the call returns and the handle stays Preparing.                  *)
ReadCommitFails(t) ==
    /\ Running(t) /\ Fault
    /\ state[t] = "Preparing" /\ AllIn(t, {"Active", "RollbackRequired"})
    /\ UNCHANGED poisoned \/ \E s \in Storages \ wset[t] : StatusFails(s)
    /\ Return(t, "none")
    /\ UNCHANGED <<logVars, state, wset, part, wal, recycled, writer, blocked, snap, mode,
                   crashes>>

PrepareOk(t, s) ==
    /\ Running(t)
    /\ state[t] = "Preparing" /\ NextParticipant(t, s, {"Prepared"})
    /\ s \notin poisoned /\ part[t][s] # "RollbackRequired"
    /\ SetPart(t, s, "Prepared")
    /\ SetWal(t, s, "Prepare")
    /\ UNCHANGED <<logVars, txnVars, recycled, writer, blocked, poisoned, snap, envVars>>

(* The append fails (the participant stays Active) or the flush does; the  *)
(* call goes on with rollback_before_decision.                             *)
PrepareFails(t, s) ==
    /\ Running(t)
    /\ state[t] = "Preparing" /\ NextParticipant(t, s, {"Prepared"})
    /\ IF s \in poisoned \/ part[t][s] = "RollbackRequired"
         THEN UNCHANGED <<part, faults>>
         ELSE Fault /\ \E p \in {"Active", "PreparePending"} : SetPart(t, s, p)
    /\ SetState(t, "RollbackPending")
    /\ UNCHANGED <<logVars, wset, caller, reply, wal, recycled, writer, blocked, poisoned,
                   snap, mode, crashes>>

AtDecision(t) ==
    /\ Running(t)
    /\ \/ state[t] = "DecisionPending"
       \/ state[t] = "Preparing" /\ AllIn(t, {"Prepared"})

(* Faulty: participants are told to commit before the decision is synced.  *)
DecisionOk_Unsynced(t) ==
    /\ AtDecision(t)
    /\ DecideOk(t) \/ DecideUnsynced(t)
    /\ SetState(t, "ApplyingCommit")
    /\ UNCHANGED <<wset, caller, reply, storageVars, snap, envVars>>

DecisionOk(t) ==
    /\ AtDecision(t)
    /\ DecideOk(t)
    /\ SetState(t, "ApplyingCommit")
    /\ UNCHANGED <<wset, caller, reply, storageVars, snap, envVars>>

DecisionFails(t) ==
    /\ AtDecision(t) /\ (IF Held THEN Fault ELSE UNCHANGED faults)
    /\ DecideUnsynced(t) \/ DecideFailed
    /\ SetState(t, "DecisionPending")
    /\ Return(t, "none")
    /\ UNCHANGED <<wset, storageVars, snap, mode, crashes>>

AtApply(t, s) ==
    /\ Running(t)
    /\ state[t] = "ApplyingCommit" /\ NextParticipant(t, s, {"Committed"})

ApplyOk(t, s) ==
    /\ AtApply(t, s)
    /\ s \notin poisoned
    /\ SetPart(t, s, "Committed")
    /\ SetWal(t, s, "Commit")
    /\ Release(t, s)
    /\ UNCHANGED <<logVars, txnVars, recycled, blocked, poisoned, snap, envVars>>

(* commit_prepared fails before or after the Commit record is appended,    *)
(* after it is durable but before the status file records it, or only in   *)
(* publishing the change batch.                                            *)
ApplyFails(t, s) ==
    /\ AtApply(t, s)
    /\ IF s \in poisoned THEN UNCHANGED <<faults, part, wal, writer, blocked, poisoned>>
       ELSE /\ Fault
            /\ UNCHANGED blocked
            /\ \/ UNCHANGED <<part, wal, writer, poisoned>>
               \/ /\ SetPart(t, s, "CommitPending")
                  /\ UNCHANGED <<wal, writer, poisoned>>
               \/ /\ SetPart(t, s, "CommitPending")
                  /\ SetWal(t, s, "Commit")
                  /\ StatusFails(s)
                  /\ UNCHANGED writer
               \/ /\ SetPart(t, s, "Committed")
                  /\ SetWal(t, s, "Commit")
                  /\ Release(t, s)
                  /\ UNCHANGED poisoned
    /\ Return(t, "none")
    /\ UNCHANGED <<logVars, state, wset, recycled, snap, mode, crashes>>

(* Faulty: one applied participant is taken for all of them.               *)
AtFinish_AnyApplied(t) ==
    /\ Running(t)
    /\ \/ state[t] = "FinalizePending"
       \/ state[t] = "ApplyingCommit" /\ \E s \in wset[t] : part[t][s] = "Committed"

AtFinish(t) ==
    /\ Running(t)
    /\ \/ state[t] = "FinalizePending"
       \/ state[t] = "ApplyingCommit" /\ AllIn(t, {"Committed"})

(* Faulty: the sequence is published with the boundaries of before.        *)
Publish_StaleBoundaries(t) == snap' = [snap EXCEPT !.seq = seqOf[t]]

(* publish_committed_boundaries: each write participant reports the        *)
(* boundary its storage has now, which every later commit in that storage  *)
(* is part of; publish_boundaries stores them under this sequence.         *)
Publish(t) ==
    snap' = [seq |-> seqOf[t],
             vis |-> [s \in Storages |->
                        IF s \in wset[t] THEN CommittedAt(s) ELSE snap.vis[s]]]

FinishOk(t) ==
    /\ AtFinish(t)
    /\ IF t \in Structural THEN CompleteOk(t) ELSE DeferOk(t)
    /\ IF completed' < seqOf[t] THEN Fault ELSE UNCHANGED faults
    /\ Publish(t)
    /\ SetState(t, "Committed")
    /\ Return(t, "commit")
    /\ UNCHANGED <<wset, storageVars, mode, crashes>>

FinishFails(t) ==
    /\ AtFinish(t)
    /\ \/ CompleteRefused(t) /\ UNCHANGED faults
       \/ /\ IF Held THEN Fault ELSE UNCHANGED faults
          /\ IF t \in Structural THEN CompleteFailed(t) ELSE DeferLost(t)
    /\ SetState(t, "FinalizePending")
    /\ Return(t, "none")
    /\ UNCHANGED <<wset, storageVars, snap, mode, crashes>>

-------------------------------------------------------------------------------
(* rollback() and rollback_before_decision().                              *)

(* Faulty: rollback is accepted while a decision may be durable.           *)
StartRollback_DecisionPending(t) ==
    /\ Quiet
    /\ state[t] \in {"Active", "Preparing", "RollbackPending", "DecisionPending"}
    /\ caller' = t
    /\ SetState(t, "RollbackPending")
    /\ UNCHANGED <<logVars, wset, reply, storageVars, snap, envVars>>

StartRollback(t) ==
    /\ Quiet
    /\ state[t] \in {"Active", "Preparing", "RollbackPending"}
    /\ caller' = t
    /\ SetState(t, "RollbackPending")
    /\ UNCHANGED <<logVars, wset, reply, storageVars, snap, envVars>>

RollbackOk(t, s) ==
    /\ Running(t)
    /\ state[t] = "RollbackPending" /\ NextParticipant(t, s, {"RolledBack"})
    /\ s \notin poisoned
    /\ SetPart(t, s, "RolledBack")
    /\ SetWal(t, s, "Abort")
    /\ Release(t, s)
    /\ UNCHANGED <<logVars, txnVars, recycled, blocked, poisoned, snap, envVars>>

(* rollback_internal fails before the Abort record is appended, before it  *)
(* is durable, with the Abort durable while undoing or in the status file, *)
(* or only in abandoning the change batch.                                 *)
RollbackFails(t, s) ==
    /\ Running(t)
    /\ state[t] = "RollbackPending" /\ NextParticipant(t, s, {"RolledBack"})
    /\ IF s \in poisoned THEN UNCHANGED <<faults, part, wal, writer, poisoned>>
       ELSE /\ Fault
            /\ \/ UNCHANGED <<part, wal, writer, poisoned>>
               \/ /\ SetPart(t, s, "RollbackPending")
                  /\ \/ UNCHANGED <<wal, poisoned>>
                     \/ SetWal(t, s, "Abort") /\ StatusFails(s)
                  /\ UNCHANGED writer
               \/ /\ SetPart(t, s, "RolledBack")
                  /\ SetWal(t, s, "Abort")
                  /\ Release(t, s)
                  /\ UNCHANGED poisoned
    /\ Return(t, "none")
    /\ UNCHANGED <<logVars, state, wset, recycled, blocked, snap, mode, crashes>>

RollbackDone(t) ==
    /\ Running(t)
    /\ state[t] = "RollbackPending" /\ AllIn(t, {"RolledBack"})
    /\ SetState(t, "RolledBack")
    /\ Return(t, "abort")
    /\ UNCHANGED <<logVars, wset, storageVars, snap, envVars>>

-------------------------------------------------------------------------------
(* Losing a handle, losing the process, and opening the database again.    *)

(* Dropping a context that still holds the lease leaves RecoveryRequired.  *)
DropHandle(t) ==
    /\ Quiet
    /\ state[t] \notin {"Idle", "Committed", "RolledBack", "Dropped"}
    /\ SetState(t, "Dropped")
    /\ blocked' = blocked \union {s \in Storages : writer[s] = t}
    /\ writer' = [s \in Storages |-> IF writer[s] = t THEN NoTxn ELSE writer[s]]
    /\ UNCHANGED <<logVars, wset, caller, reply, part, wal, recycled, poisoned,
                   snap, envVars>>

(* An appended record whose flush had not returned: a crash may find it    *)
(* durable or not.                                                         *)
Unflushed == [PreparePending |-> "Prepare", CommitPending |-> "Commit",
              RollbackPending |-> "Abort"]

(* How the WAL inspection classifies a participant before recovery; a      *)
(* transaction with no Prepare is a loser that recovery undoes.  A rollback *)
(* whose Abort is durable is classified RolledBack here; without its       *)
(* RollbackComplete the code calls it Prepared and aborts it again.        *)
Inspected(w) ==
    CASE w = "Prepare" -> "Prepared"
      [] w = "Commit"  -> "Committed"
      [] OTHER         -> "RolledBack"

ProcessEnds ==
    /\ mode' = "down"
    /\ LogCrash
    /\ \E kept \in SUBSET {x \in Txns \X Storages :
                             part[x[1]][x[2]] \in DOMAIN Unflushed} :
          wal' = [t \in Txns |-> [s \in Storages |->
                    IF <<t, s>> \in kept THEN Unflushed[part[t][s]] ELSE wal[t][s]]]
    /\ part' = [t \in Txns |-> [s \in Storages |->
                  IF s \in wset[t] THEN Inspected(wal'[t][s]) ELSE "none"]]
    /\ state' = [t \in Txns |->
                  IF state[t] \in {"Idle", "Committed", "RolledBack"} THEN state[t]
                  ELSE "Dropped"]
    /\ writer' = [s \in Storages |-> NoTxn]
    /\ blocked' = {} /\ poisoned' = {}
    /\ caller' = NoTxn
    /\ UNCHANGED <<wset, reply, snap, faults>>

Crash ==
    /\ mode # "down" /\ crashes < MaxCrashes
    /\ crashes' = crashes + 1
    /\ ProcessEnds
    /\ UNCHANGED recycled

(* The log handle was given up, a storage needs recovery, or a transaction *)
(* is decided and nobody holds its handle: only reopening the database     *)
(* resolves these.                                                         *)
NeedsReopen ==
    \/ ~Held
    \/ blocked \union poisoned # {}
    \/ \E t \in Txns : /\ state[t] = "Dropped" /\ Decided(t)
                       /\ \E s \in wset[t] : t \notin snap.vis[s]

Reopen ==
    /\ mode = "up" /\ NeedsReopen
    /\ ProcessEnds
    /\ UNCHANGED <<recycled, crashes>>

(* validate_coordinator_recovery: every participant of a decision without  *)
(* a Complete must still be found in the WAL of its storage.               *)
MissingParticipant(t, s) ==
    /\ Decided(t) /\ seqOf[t] > completed
    /\ s \in wset[t] /\ t \in recycled[s]

(* resolution_for_recovery_prepared: no participant may contradict the log. *)
Contradicts(t, s) ==
    /\ s \in wset[t]
    /\ part[t][s] = (IF Decided(t) THEN "RolledBack" ELSE "Committed")

RecoveryAccepts ==
    \A t \in Txns, s \in Storages : ~MissingParticipant(t, s) /\ ~Contradicts(t, s)

OpenLog ==
    /\ mode = "down"
    /\ RecoveryAccepts
    /\ LogOpen
    /\ mode' = "opening"
    /\ UNCHANGED <<txnVars, storageVars, snap, faults, crashes>>

(* Faulty: a prepared participant is presumed aborted without the log.     *)
ResolveStorage_PresumesAbort(s) ==
    /\ mode = "opening"
    /\ \E t \in Txns : s \in wset[t] /\ wal[t][s] \in {"none", "Prepare"}
    /\ wal' = [t \in Txns |-> [wal[t] EXCEPT ![s] =
                 IF s \in wset[t] /\ @ \in {"none", "Prepare"} THEN "Abort" ELSE @]]
    /\ part' = [t \in Txns |-> [part[t] EXCEPT ![s] =
                 IF s \in wset[t] THEN Inspected(wal'[t][s]) ELSE @]]
    /\ UNCHANGED <<logVars, txnVars, recycled, writer, blocked, poisoned, snap, envVars>>

(* Opening storage s resolves its prepared transactions from the log and   *)
(* undoes its losers.                                                      *)
ResolveStorage(s) ==
    /\ mode = "opening"
    /\ \E t \in Txns : s \in wset[t] /\ wal[t][s] \in {"none", "Prepare"}
    /\ wal' = [t \in Txns |-> [wal[t] EXCEPT ![s] =
                 IF s \in wset[t] /\ @ \in {"none", "Prepare"}
                 THEN IF Decided(t) THEN "Commit" ELSE "Abort"
                 ELSE @]]
    /\ part' = [t \in Txns |-> [part[t] EXCEPT ![s] =
                 IF s \in wset[t] THEN Inspected(wal'[t][s]) ELSE @]]
    /\ UNCHANGED <<logVars, txnVars, recycled, writer, blocked, poisoned, snap, envVars>>

(* Faulty: the recovered snapshot leaves out what no caller was told of.   *)
FinishOpen_ReportedOnly ==
    /\ mode = "opening"
    /\ \A t \in Txns : \A s \in wset[t] : wal[t][s] \in {"Commit", "Abort"}
    /\ mode' = "up"
    /\ completed' = last
    /\ snap' = [seq |-> last, vis |-> [s \in Storages |->
                 {t \in CommittedAt(s) : state[t] = "Committed"}]]
    /\ UNCHANGED <<seqOf, last, pending, authority, txnVars, storageVars, faults,
                   crashes>>
    /\ SyncFile

(* Complete every incomplete decision in order, synchronizing each, then   *)
(* publish the recovered snapshot.                                         *)
FinishOpen ==
    /\ mode = "opening"
    /\ \A t \in Txns : \A s \in wset[t] : wal[t][s] \in {"Commit", "Abort"}
    /\ mode' = "up"
    /\ completed' = last
    /\ snap' = [seq |-> last, vis |-> [s \in Storages |-> CommittedAt(s)]]
    /\ UNCHANGED <<seqOf, last, pending, authority, txnVars, storageVars, faults,
                   crashes>>
    /\ SyncFile

-------------------------------------------------------------------------------
(* Maintenance of the whole database, flush() and checkpoint(), and of one *)
(* storage.                                                                *)

(* ensure_checkpoint_safe and ensure_maintenance_safe, as far as writers   *)
(* go; a read context of an open transaction is refused as well.           *)
Quiescent(s) == s \notin blocked \union poisoned /\ writer[s] = NoTxn

OpenTxn(t) == state[t] \notin {"Idle", "Committed", "RolledBack", "Dropped"}

(* The storages whose WAL the call recycles: a heap only in checkpoint().  *)
Rotated(op, ss) == IF op = "flush" THEN ss \intersect Lsm ELSE ss

(* The call visits the storages in order and has been through those of ss. *)
Visited(op, ss) ==
    /\ Quiet
    /\ \A s \in ss, r \in Storages : r < s => r \in ss
    /\ \A s \in Rotated(op, ss) : Quiescent(s)
    /\ recycled' = Recycled(Rotated(op, ss))

Maintenance(op) ==
    /\ Visited(op, Storages)
    /\ FlushOk \/ (pending = {} /\ UNCHANGED logVars)
    /\ UNCHANGED <<txnVars, part, wal, writer, blocked, poisoned, snap, envVars>>

(* Storage s refuses the call.                                             *)
Refuses(op, s) ==
    s \in Rotated(op, {s}) /\ (~Quiescent(s) \/ \E t \in Txns : OpenTxn(t))

(* The next storage refuses, or an I/O of the call fails: the deferred     *)
(* Completes are not reached, or it is they that fail.                     *)
MaintenanceFails(op, ss) ==
    /\ Visited(op, ss)
    /\ \/ /\ ss = Storages /\ Fault
          /\ FlushFailed
       \/ /\ ss # Storages
          /\ \/ Fault
             \/ /\ \E s \in Storages \ ss :
                      Refuses(op, s) /\ \A r \in Storages \ ss : s <= r
                /\ UNCHANGED faults
          /\ UNCHANGED logVars
    /\ UNCHANGED <<txnVars, part, wal, writer, blocked, poisoned, snap, mode, crashes>>

(* The process dies with the call on its way through the storages.         *)
MaintenanceCrash ==
    /\ \E op \in {"flush", "checkpoint"}, ss \in SUBSET Storages : Visited(op, ss)
    /\ crashes < MaxCrashes
    /\ crashes' = crashes + 1
    /\ ProcessEnds

(* compact() and compact_full() of an LSM table flush its MemTable;        *)
(* adopt_historical_btree_orphans and reclaim_retired_index_tail of a heap *)
(* checkpoint it when no transaction is open.  None of them touches the    *)
(* coordinator log.                                                        *)
CompactStorage(s) ==
    /\ Quiet /\ Quiescent(s)
    /\ s \in Lsm \/ \A t \in Txns : ~OpenTxn(t)
    /\ recycled' = Recycled({s})
    /\ UNCHANGED <<logVars, txnVars, part, wal, writer, blocked, poisoned, snap, envVars>>

Maintain ==
    \/ \E op \in {"flush", "checkpoint"} :
          Maintenance(op) \/ \E ss \in SUBSET Storages : MaintenanceFails(op, ss)
    \/ \E s \in Storages : CompactStorage(s)

Step(t) ==
    \/ Begin(t)
    \/ StartCommit(t) \/ CommitReadOnly(t) \/ ReadCommitFails(t)
    \/ DecisionOk(t) \/ DecisionFails(t)
    \/ FinishOk(t) \/ FinishFails(t)
    \/ StartRollback(t) \/ RollbackDone(t)
    \/ DropHandle(t)

ParticipantStep(t, s) ==
    \/ Write(t, s) \/ StatementFails(t, s)
    \/ PrepareOk(t, s) \/ PrepareFails(t, s)
    \/ ApplyOk(t, s) \/ ApplyFails(t, s)
    \/ RollbackOk(t, s) \/ RollbackFails(t, s)

Next ==
    \/ \E t \in Txns : Step(t)
    \/ \E t \in Txns, s \in Storages : ParticipantStep(t, s)
    \/ Maintain
    \/ Crash \/ Reopen \/ MaintenanceCrash
    \/ OpenLog
    \/ \E s \in Storages : ResolveStorage(s)
    \/ FinishOpen

Spec == Init /\ [][Next]_vars

-------------------------------------------------------------------------------
(* PROPERTIES *)

(* Atomic commitment across storages: no two participants of a transaction *)
(* ever hold opposite durable outcomes, through failures, retries, dropped *)
(* handles, crashes and recovery.                                          *)
Atomicity ==
    \A t \in Txns : \A r, s \in wset[t] :
        ~(wal[t][r] = "Commit" /\ wal[t][s] = "Abort")

(* The decision record is the commit point: a participant's Commit record  *)
(* is durable only when the decision is, and once a decision is in the     *)
(* file, synchronized or not, no participant loses its Prepare.            *)
DecisionGoverns ==
    \A t \in Txns : \A s \in wset[t] :
        /\ wal[t][s] = "Commit" => Decided(t) /\ seqOf[t] <= stable
        /\ Decided(t) => wal[t][s] \in {"Prepare", "Commit"}

(* A commit acknowledged to the client is never lost and an acknowledged   *)
(* rollback never comes back: their records are durable in every storage.  *)
AcknowledgedOutcome ==
    \A t \in Txns :
        /\ reply[t] = "commit" =>
             /\ Decided(t)
             /\ \A s \in wset[t] : wal[t][s] = "Commit"
        /\ reply[t] = "abort" =>
             /\ ~Decided(t)
             /\ \A s \in wset[t] : wal[t][s] = "Abort"

(* Whatever a crash leaves behind, the next open accepts it.               *)
RecoveryNeverRefuses == mode = "down" => RecoveryAccepts

(* Opening refuses the files for one reason only.  No participant ever     *)
(* contradicts the coordinator log; a participant that                     *)
(* validate_coordinator_recovery misses is one that committed durably and  *)
(* whose WAL was recycled before the Complete of its decision was synced.  *)
RefusalIsRecycling ==
    mode = "down" =>
        \A t \in Txns, s \in Storages :
            /\ ~Contradicts(t, s)
            /\ MissingParticipant(t, s) => wal[t][s] = "Commit" /\ seqOf[t] > stableC

(***************************************************************************)
(* The inductive invariant behind the four properties above: what a        *)
(* participant's state says about its WAL and about the log, and what the  *)
(* state of the transaction's handle adds.                                 *)
(***************************************************************************)
WalAgrees(t, s) ==
    /\ part[t][s] = "Prepared" => wal[t][s] = "Prepare"
    /\ part[t][s] = "Committed" => wal[t][s] = "Commit"
    /\ part[t][s] = "CommitPending" => wal[t][s] \in {"Prepare", "Commit"}
    /\ wal[t][s] = "Commit" => part[t][s] \in {"CommitPending", "Committed"}
    /\ part[t][s] = "RolledBack" /\ state[t] # "Dropped" => wal[t][s] = "Abort"

LogAgrees(t, s) ==
    /\ Decided(t) => part[t][s] \in {"Prepared", "CommitPending", "Committed"}
    /\ part[t][s] \in {"CommitPending", "Committed"} =>
         Decided(t) /\ seqOf[t] <= stable

HandleAgrees(t) ==
    /\ state[t] = "Idle" => wset[t] = {}
    /\ state[t] \in {"Idle", "Active", "Preparing", "RollbackPending", "RolledBack"} =>
         ~Decided(t)
    /\ state[t] = "DecisionPending" => AllIn(t, {"Prepared"})
    /\ state[t] \in {"ApplyingCommit", "FinalizePending"} =>
         Decided(t) /\ seqOf[t] <= stable
    /\ state[t] \in {"FinalizePending", "Committed"} => AllIn(t, {"Committed"})
    /\ state[t] = "RolledBack" => AllIn(t, {"RolledBack"})
    /\ reply[t] = "commit" =>
         state[t] = "Committed" /\ Decided(t) /\ seqOf[t] <= stable
    /\ reply[t] = "abort" => state[t] = "RolledBack"

(* Nothing is recorded where t has not written.                            *)
Enlisted(t) ==
    \A s \in Storages \ wset[t] : part[t][s] = "none" /\ wal[t][s] = "none"

TxnAgrees(t) ==
    /\ HandleAgrees(t)
    /\ Enlisted(t)
    /\ \A s \in wset[t] : WalAgrees(t, s) /\ LogAgrees(t, s)

(* Handles, participants, WALs and the coordinator log agree.              *)
Agreement == LogInv /\ \A t \in Txns : TxnAgrees(t)

(* Only what is committed in a storage has left its WAL.                   *)
RecycledCommitted == \A s \in Storages : recycled[s] \subseteq CommittedAt(s)

(* What readers see of settled transactions, however commits overlap: from *)
(* the moment commit() returns success, publish_committed_boundaries has   *)
(* made the transaction visible in every storage it wrote, and no snapshot *)
(* ever shows one whose decision is not in the log.                        *)
SnapshotShowsSettled ==
    mode = "up" => \A t \in Txns : \A s \in wset[t] :
        /\ state[t] = "Committed" => t \in snap.vis[s]
        /\ t \in snap.vis[s] => Decided(t) /\ seqOf[t] <= stable

(* A published transaction stays published: neither a publication that     *)
(* overtakes another, which may lower the sequence, nor a restart takes it *)
(* away from readers of any storage.                                       *)
SnapshotGrows == [][\A s \in Storages : snap.vis[s] \subseteq snap'.vis[s]]_vars

(* A transaction that some storage has committed is one the published      *)
(* snapshot will show: the sequence number it was given is never reused or *)
(* withdrawn.                                                              *)
SequenceFixed ==
    [][\A t \in Txns : Decided(t) /\ seqOf[t] <= stable => seqOf'[t] = seqOf[t]]_vars

(* Opening gives every durable decision its effect: whatever Completes,    *)
(* handles and publications the last process lost, once the database is    *)
(* open again each decided transaction is committed and visible in every   *)
(* storage it wrote, and nothing else is.                                  *)
OpenSettlesDecisions ==
    [][mode = "opening" /\ mode' = "up" =>
          \A t \in Txns : \A s \in wset[t] :
              (Decided(t) <=> t \in snap'.vis[s]) /\ (Decided(t) => wal[t][s] = "Commit")]_vars

(* A statement never sees one participant of a transaction before its      *)
(* commit and another after it.                                            *)
SnapshotUntorn ==
    \A t \in Txns : \A r, s \in wset[t] :
        t \in snap.vis[r] => t \in snap.vis[s]
===============================================================================
