------------------------------ MODULE LsmStorage ------------------------------
(***************************************************************************)
(* One LSM storage (netbadb-lsm engine.rs): the write-ahead log with its   *)
(* generations, the memtable, the SSTables and the manifest that says      *)
(* which files count, under commits, two-phase and group commits, flush,   *)
(* compaction, failures of single file operations, crashes and reopening.  *)
(*                                                                         *)
(* The manifest is replaced by renaming a synced candidate over it and     *)
(* syncing the directory.  Between the two a power failure keeps either:   *)
(* disk is the set of manifests that may be found.  A power failure keeps  *)
(* a prefix of a log that contains its synced records; the end of the      *)
(* process alone keeps everything.                                         *)
(*                                                                         *)
(*   phase        open, down (not open) or recovering (inside open)        *)
(*   man, disk    the installed manifest, and what a power failure may     *)
(*                leave; a manifest names the log generation, the SSTables,*)
(*                the next SSTable id and the end of the reserved commit   *)
(*                sequences                                                *)
(*   wal[g]       log generation g, sst[i] SSTable i, for files that exist *)
(*   mem          the memtable: a set of versions of keys                  *)
(*   resEnd       manifest.commit_reservation_end as held in memory        *)
(*   st, batch, seq  transaction handles: state, mutations, commit sequence*)
(*   parked       Runtime.parked_prepared                                  *)
(*   recovery     Runtime.recovery_required, or a poisoned log             *)
(*   view         an open read view, with the rows it is to show (history) *)
(*   decided      the coordinator's commit decisions                       *)
(*   applied      (history) the transactions that took effect, in order    *)
(***************************************************************************)
EXTENDS Naturals, Sequences, FiniteSets, SequencesExt, FiniteSetsExt

CONSTANTS
    MaxKey,          \* physical keys are 1..MaxKey
    Batches,         \* the mutations a transaction may make: functions from keys to kinds
    MaxTxn, MaxSeq, MaxSst, MaxGen,
    Reservation,     \* ALLOCATOR_RESERVATION
    FlushThreshold,  \* entries in the memtable that make a writer flush first
    L0Trigger,       \* L0_COMPACTION_TRIGGER
    MaxLevel,        \* LSM_MAX_LEVELS - 1
    MaxWork,         \* transactions, failed file operations and stops, together
    MaxFaults

ASSUME LsmAssumption ==
    /\ {MaxKey, MaxTxn, MaxSeq, MaxSst, MaxGen, Reservation} \subseteq Nat \ {0}
    /\ {FlushThreshold, L0Trigger, MaxLevel} \subseteq Nat \ {0}
    /\ {MaxWork, MaxFaults} \subseteq Nat
    /\ \A b \in Batches : DOMAIN b \in (SUBSET (1..MaxKey)) \ {{}} /\ b \in [DOMAIN b -> {"Put", "Tombstone"}]

VARIABLES phase, man, disk, wal, sst, mem, resEnd, nextSeq, visible, writer, st, batch, seq,
          parked, recovery, view, decided, applied, stops, faults

treeVars == <<man, disk, sst, mem, resEnd>>
txnVars == <<writer, st, batch, seq, parked>>
histVars == <<decided, applied>>
vars == <<phase, treeVars, wal, nextSeq, visible, txnVars, recovery, view, histVars, stops,
          faults>>

Keys == 1..MaxKey
Txns == 1..MaxTxn
None == 0
NoView == [open |-> FALSE, seq |-> 0, rows |-> {}]

States == {"New", "Active", "CommitPending", "PreparePending", "Prepared", "ParkedPreparePending",
           "ParkedPrepared", "RollbackPending", "Committed", "RolledBack", "Lost"}
InDoubt == {"CommitPending", "PreparePending", "Prepared", "ParkedPreparePending",
            "ParkedPrepared", "RollbackPending"}
Entry == [key : Keys, seq : 1..MaxSeq, txn : Txns, kind : {"Put", "Tombstone"}]
Manifest == [wal : 1..MaxGen, ssts : SUBSET (1..MaxSst), next : 1..(MaxSst + 1),
             res : 1..(MaxSeq + Reservation)]
Record == [type : {"Batch", "Prepare", "Commit", "Abort"}, txn : Txns, seq : 0..MaxSeq]

Rec(type, t, c) == [type |-> type, txn |-> t, seq |-> c]
Log == Range(wal[man.wal].recs)
LogMax == Max({0} \union {r.seq : r \in Log})

TypeOK ==
    /\ phase \in {"open", "down", "recovering"}
    /\ man \in Manifest /\ disk \subseteq Manifest /\ man \in disk
    /\ \A g \in DOMAIN wal : g \in 1..MaxGen /\ wal[g].synced \in 0..Len(wal[g].recs)
                             /\ Range(wal[g].recs) \subseteq Record
    /\ \A i \in DOMAIN sst : i \in 1..MaxSst /\ sst[i].level \in 0..MaxLevel
                             /\ sst[i].entries \subseteq Entry /\ sst[i].entries # {}
    /\ mem \subseteq Entry /\ resEnd \in 1..(MaxSeq + Reservation)
    /\ nextSeq \in 1..(MaxSeq + Reservation + 1) /\ visible \in 0..MaxSeq
    /\ writer \in {None} \union {t \in Txns : st[t] \in {"Active"} \union InDoubt}
    /\ st \in [Txns -> States] /\ seq \in [Txns -> 0..MaxSeq]
    /\ \A t \in Txns : st[t] \notin {"New", "RolledBack"} => batch[t] \in Batches
    /\ \A i \in 1..Len(parked) : st[parked[i]] \in InDoubt \ {"PreparePending", "Prepared"}
    /\ recovery \in BOOLEAN /\ decided \subseteq Txns
    /\ IsInjective(applied) /\ Range(applied) \subseteq Txns
    /\ stops \in 0..MaxWork /\ faults \in 0..MaxFaults

(* create_with_storage_id                                                  *)
Init ==
    /\ phase = "open"
    /\ man = [wal |-> 1, ssts |-> {}, next |-> 1, res |-> Reservation + 1]
    /\ disk = {man}
    /\ wal = [g \in {1} |-> [recs |-> <<>>, synced |-> 0]] /\ sst = [i \in {} |-> {}]
    /\ mem = {} /\ resEnd = man.res /\ nextSeq = 1 /\ visible = 0 /\ writer = None
    /\ st = [t \in Txns |-> "New"] /\ batch = [t \in Txns |-> <<>>] /\ seq = [t \in Txns |-> 0]
    /\ parked = <<>> /\ recovery = FALSE /\ view = NoView
    /\ decided = {} /\ applied = <<>> /\ stops = 0 /\ faults = 0

MayWork == Cardinality({t \in Txns : st[t] # "New"}) + stops + faults < MaxWork
Fault == MayWork /\ faults < MaxFaults /\ faults' = faults + 1
FaultUnless(ok) == IF ok THEN UNCHANGED faults ELSE Fault

(* ensure_recovery_not_required                                            *)
Usable == phase = "open" /\ ~recovery

-------------------------------------------------------------------------------
(* Reading.                                                                *)

Entries == mem \union UNION {sst[i].entries : i \in man.ssts}

(* VisibleCommittedCursor over the merged runs: the newest version of a    *)
(* key at or below the horizon, unless it is a tombstone.                  *)
Scan(c) ==
    LET past == {e \in Entries : e.seq <= c}
        newest == {x \in past : \A y \in past : y.key = x.key => y.seq <= x.seq} IN
    {<<e.key, e.txn>> : e \in {x \in newest : x.kind = "Put"}}

(* What the transactions that took effect leave, in the order they did.    *)
Replay ==
    {<<k, t>> \in Keys \X Txns :
        \E i \in 1..Len(applied) :
            /\ applied[i] = t /\ k \in DOMAIN batch[t] /\ batch[t][k] = "Put"
            /\ \A j \in (i + 1)..Len(applied) : k \notin DOMAIN batch[applied[j]]}

(* read_view                                                               *)
ReadView ==
    /\ phase = "open" /\ ~view.open
    /\ view' = [open |-> TRUE, seq |-> visible, rows |-> Replay]
    /\ UNCHANGED <<phase, treeVars, wal, nextSeq, visible, txnVars, recovery, histVars, stops,
                   faults>>

DropView ==
    /\ view.open /\ view' = NoView
    /\ UNCHANGED <<phase, treeVars, wal, nextSeq, visible, txnVars, recovery, histVars, stops,
                   faults>>

-------------------------------------------------------------------------------
(* Publishing a manifest.                                                  *)

(* publish_manifest with the files written for it, and what its callers do *)
(* with the outcome: done, and obsolete files are removed; kept, where the *)
(* removal failed; unsynced, renamed and the directory not synced; leftover*)
(* not renamed, and new files remain (a failed clean-up also requires      *)
(* recovery).  A publication undone completely changes nothing.            *)
Publish(m, newSst, newWal, out) ==
    \/ /\ out = "done" /\ man' = m /\ disk' = {m}
       /\ sst' = Restrict(newSst, m.ssts) /\ wal' = Restrict(newWal, {m.wal})
       /\ UNCHANGED <<recovery, faults>>
    \/ /\ out = "kept" /\ man' = m /\ disk' = {m} /\ sst' = newSst /\ wal' = newWal
       /\ Fault /\ UNCHANGED recovery
    \/ /\ out = "unsynced" /\ man' = m /\ disk' = disk \union {m} /\ sst' = newSst /\ wal' = newWal
       /\ Fault /\ recovery' = TRUE
    \/ /\ out = "leftover" /\ sst' = newSst /\ wal' = newWal
       /\ Fault /\ recovery' \in {recovery, TRUE} /\ UNCHANGED <<man, disk>>

(* flush_memtable: the memtable becomes an SSTable of level 0, and a new   *)
(* log generation replaces the one it was recovered from.  A log file left *)
(* by an earlier failure makes the creation fail.                          *)
FlushMemtable(out) ==
    LET id == man.next
        g == man.wal + 1 IN
    /\ mem # {} /\ id <= MaxSst /\ g <= MaxGen
    /\ g \in DOMAIN wal => out = "leftover"
    /\ Publish([wal |-> g, ssts |-> man.ssts \union {id}, next |-> id + 1, res |-> resEnd],
               (id :> [level |-> 0, entries |-> mem]) @@ sst,
               wal @@ (g :> [recs |-> <<>>, synced |-> 0]), out)
    /\ mem' = IF out = "leftover" THEN mem ELSE {}
    /\ UNCHANGED resEnd

(* maintenance_safety_blocker                                              *)
MaintenanceSafe ==
    /\ Usable /\ writer = None /\ ~view.open
    /\ \A t \in Txns : st[t] \notin {"Active"} \union InDoubt

Flush(out) ==
    /\ MaintenanceSafe /\ FlushMemtable(out)
    /\ UNCHANGED <<phase, nextSeq, visible, txnVars, view, histVars, stops>>

-------------------------------------------------------------------------------
(* Compaction.                                                             *)

AtLevel(l) == {i \in man.ssts : sst[i].level = l}
Lo(I) == Min({e.key : e \in UNION {sst[i].entries : i \in I}})
Hi(I) == Max({e.key : e \in UNION {sst[i].entries : i \in I}})

(* ranges_overlap of input_range(I) and SSTable j                          *)
Overlap(I, j) == Lo(I) <= Hi({j}) /\ Lo({j}) <= Hi(I)

(* The leftmost SSTable of an overflowing level with everything of it and  *)
(* of the next level that overlaps, transitively.                          *)
Spill(l) ==
    LET pool == AtLevel(l) \union AtLevel(l + 1)
        source == CHOOSE i \in AtLevel(l) : \A j \in AtLevel(l) : Lo({i}) <= Lo({j})
        closed == {S \in SUBSET pool : source \in S /\ \A j \in pool : Overlap(S, j) => j \in S} IN
    CHOOSE S \in closed : \A T \in closed : S \subseteq T

(* pick_compaction; whether a level exceeds level_target_bytes is open.    *)
Plans ==
    IF Cardinality(AtLevel(0)) >= L0Trigger
    THEN {[level |-> 1,
           inputs |-> AtLevel(0) \union {j \in AtLevel(1) : Overlap(AtLevel(0), j)}]}
    ELSE {[level |-> l + 1, inputs |-> Spill(l)] : l \in {k \in 1..(MaxLevel - 1) : AtLevel(k) # {}}}

(* for_each_compaction_entry                                               *)
Merged(I, gc) ==
    LET all == UNION {sst[i].entries : i \in I} IN
    IF gc THEN {x \in all : x.kind = "Put" /\ \A y \in all : y.key = x.key => y.seq <= x.seq}
          ELSE all

(* execute_compaction; write_compaction_outputs splits the outputs at a    *)
(* key boundary.                                                           *)
ExecuteCompaction(plan, gc, out) ==
    \E k \in Keys :
        LET all == Merged(plan.inputs, gc)
            parts == SelectSeq(<<{e \in all : e.key <= k}, {e \in all : e.key > k}>>,
                               LAMBDA E : E # {})
            ids == man.next..(man.next + Len(parts) - 1) IN
        /\ man.next + Len(parts) - 1 <= MaxSst
        /\ k \in {e.key : e \in all} \union {MaxKey}
        /\ Publish([man EXCEPT !.ssts = (@ \ plan.inputs) \union ids, !.next = @ + Len(parts),
                               !.res = resEnd],
                   [i \in ids |-> [level |-> plan.level, entries |-> parts[i - man.next + 1]]] @@ sst,
                   wal, out)
        /\ UNCHANGED <<phase, mem, resEnd, nextSeq, visible, txnVars, view, histVars, stops>>

(* compact_one; compact flushes and repeats it.                            *)
CompactOne(out) ==
    /\ MaintenanceSafe /\ mem = {}
    /\ \E plan \in Plans : ExecuteCompaction(plan, FALSE, out)

(* compact_full, after its flush                                           *)
CompactFull(out) ==
    /\ MaintenanceSafe /\ mem = {} /\ man.ssts # {}
    /\ ExecuteCompaction([level |-> MaxLevel, inputs |-> man.ssts], TRUE, out)

-------------------------------------------------------------------------------
(* Transactions.                                                           *)

(* The coordinator: no other writer runs while a group has parked members. *)
GroupBarrier == parked = <<>>

(* A group takes members until its decision.                               *)
GroupOpen == Range(parked) \intersect decided = {}

(* A writer may change the visible rows and new ones, not what a parked    *)
(* transaction changed (validate_handle, ensure_no_prepared_write_conflict)*)
MayWrite(b) ==
    /\ \A k \in DOMAIN b : b[k] = "Tombstone" => \E t \in Txns : <<k, t>> \in Scan(visible)
    /\ \A i \in 1..Len(parked) : DOMAIN b \intersect DOMAIN batch[parked[i]] = {}

(* insert_in, update_in and delete_in of one transaction: acquire_writer   *)
(* flushes a full memtable first, whoever is parked.                       *)
Write(t, b) ==
    /\ Usable /\ writer = None /\ GroupOpen
    /\ MayWork /\ st[t] = "New" /\ \A u \in 1..(t - 1) : st[u] # "New"
    /\ MayWrite(b)
    /\ \/ Cardinality(mem) < FlushThreshold /\ UNCHANGED <<treeVars, wal, recovery, faults>>
       \/ Cardinality(mem) >= FlushThreshold /\ FlushMemtable("done")
    /\ writer' = t /\ st' = [st EXCEPT ![t] = "Active"] /\ batch' = [batch EXCEPT ![t] = b]
    /\ UNCHANGED <<phase, nextSeq, visible, seq, parked, view, histVars, stops>>

(* acquire_writer whose flush reports an error                             *)
WriteFails(out) ==
    /\ Usable /\ writer = None /\ GroupOpen /\ out # "done"
    /\ \E t \in Txns : st[t] = "New"
    /\ Cardinality(mem) >= FlushThreshold /\ FlushMemtable(out)
    /\ UNCHANGED <<phase, nextSeq, visible, txnVars, view, histVars, stops>>

(* reserve_if_needed for a transaction about to allocate its sequence      *)
Reserve(synced) ==
    LET m == [man EXCEPT !.res = nextSeq + Reservation] IN
    /\ Usable /\ nextSeq >= resEnd /\ nextSeq <= MaxSeq
    /\ \E t \in Txns : st[t] \in {"Active", "Prepared", "ParkedPrepared"}
    /\ man' = m /\ resEnd' = m.res
    /\ IF synced THEN disk' = {m} /\ UNCHANGED recovery
                 ELSE disk' = disk \union {m} /\ recovery' = TRUE
    /\ FaultUnless(synced)
    /\ UNCHANGED <<phase, sst, mem, wal, nextSeq, visible, txnVars, view, histVars, stops>>

MayAllocate == nextSeq < resEnd /\ nextSeq <= MaxSeq

Logged(rs) == [wal EXCEPT ![man.wal].recs = @ \o rs]

(* The log after ensure_{commit,prepare,abort}_record and a sync.          *)
Ensured(r) ==
    LET rs == wal[man.wal].recs \o (IF r \in Log THEN <<>> ELSE <<r>>) IN
    [wal EXCEPT ![man.wal] = [recs |-> rs, synced |-> Len(rs)]]

Apply(t, c) == {[key |-> k, seq |-> c, txn |-> t, kind |-> batch[t][k]] : k \in DOMAIN batch[t]}

(* Mutant: an ordinary writer commits while group members are parked.      *)
CommitAppend_DuringGroup(t, n) ==
    /\ Usable /\ writer = t /\ st[t] = "Active" /\ MayAllocate
    /\ nextSeq' = nextSeq + 1
    /\ wal' = Logged(<<Rec("Batch", t, 0), Rec("Commit", t, nextSeq)>>)
    /\ st' = [st EXCEPT ![t] = "CommitPending"] /\ seq' = [seq EXCEPT ![t] = nextSeq]
    /\ FaultUnless(n = 2)
    /\ UNCHANGED <<phase, treeVars, visible, writer, batch, parked, recovery, view, histVars,
                   stops>>

(* commit up to its sync; n of its two records are appended.               *)
CommitAppend(t, n) ==
    /\ Usable /\ writer = t /\ st[t] = "Active" /\ GroupBarrier /\ MayAllocate
    /\ nextSeq' = nextSeq + 1
    /\ IF n = 0 THEN UNCHANGED <<wal, st, seq>>
       ELSE /\ wal' = Logged(SubSeq(<<Rec("Batch", t, 0), Rec("Commit", t, nextSeq)>>, 1, n))
            /\ st' = [st EXCEPT ![t] = "CommitPending"] /\ seq' = [seq EXCEPT ![t] = nextSeq]
    /\ FaultUnless(n = 2)
    /\ UNCHANGED <<phase, treeVars, visible, writer, batch, parked, recovery, view, histVars,
                   stops>>

(* commit_prepared of an unparked transaction, up to its sync              *)
CommitPrepared(t, ok) ==
    /\ Usable /\ writer = t /\ st[t] = "Prepared" /\ GroupBarrier /\ t \in decided /\ MayAllocate
    /\ nextSeq' = nextSeq + 1
    /\ wal' = Logged(IF ok THEN <<Rec("Commit", t, nextSeq)>> ELSE <<>>)
    /\ st' = [st EXCEPT ![t] = "CommitPending"] /\ seq' = [seq EXCEPT ![t] = nextSeq]
    /\ FaultUnless(ok)
    /\ UNCHANGED <<phase, treeVars, visible, writer, batch, parked, recovery, view, histVars,
                   stops>>

(* The rest of commit and commit_prepared, or a retry of either.           *)
FinishCommit(t) ==
    /\ Usable /\ writer = t /\ st[t] = "CommitPending"
    /\ wal' = Ensured(Rec("Commit", t, seq[t]))
    /\ mem' = mem \union Apply(t, seq[t]) /\ visible' = Max({visible, seq[t]})
    /\ applied' = Append(applied, t)
    /\ st' = [st EXCEPT ![t] = "Committed"] /\ writer' = None /\ seq' = [seq EXCEPT ![t] = 0]
    /\ UNCHANGED <<phase, man, disk, sst, resEnd, nextSeq, batch, parked, recovery, view,
                   decided, stops, faults>>

(* prepare and stage_group_prepare up to the sync or the parking           *)
PrepareAppend(t, n) ==
    /\ Usable /\ writer = t /\ st[t] = "Active"
    /\ wal' = Logged(SubSeq(<<Rec("Batch", t, 0), Rec("Prepare", t, 0)>>, 1, n))
    /\ st' = [st EXCEPT ![t] = "PreparePending"]
    /\ FaultUnless(n = 2)
    /\ UNCHANGED <<phase, treeVars, nextSeq, visible, writer, batch, seq, parked, recovery, view,
                   histVars, stops>>

PrepareSync(t) ==
    /\ Usable /\ writer = t /\ st[t] = "PreparePending"
    /\ wal' = Ensured(Rec("Prepare", t, 0))
    /\ st' = [st EXCEPT ![t] = "Prepared"]
    /\ UNCHANGED <<phase, treeVars, nextSeq, visible, writer, batch, seq, parked, recovery, view,
                   histVars, stops, faults>>

(* stage_group_prepare: parked without a sync                              *)
StageGroupPrepare(t) ==
    /\ Usable /\ writer = t /\ st[t] = "PreparePending"
    /\ wal' = IF Rec("Prepare", t, 0) \in Log THEN wal ELSE Logged(<<Rec("Prepare", t, 0)>>)
    /\ st' = [st EXCEPT ![t] = "ParkedPreparePending"]
    /\ parked' = Append(parked, t) /\ writer' = None
    /\ UNCHANGED <<phase, treeVars, nextSeq, visible, batch, seq, recovery, view, histVars,
                   stops, faults>>

ParkPrepared(t) ==
    /\ phase = "open" /\ writer = t /\ st[t] = "Prepared" /\ t \notin decided
    /\ st' = [st EXCEPT ![t] = "ParkedPrepared"]
    /\ parked' = Append(parked, t) /\ writer' = None
    /\ UNCHANGED <<phase, treeVars, wal, nextSeq, visible, batch, seq, recovery, view, histVars,
                   stops, faults>>

(* durabilize_group_prepare_batch                                          *)
DurabilizePrepares ==
    /\ Usable /\ parked # <<>>
    /\ \A i \in 1..Len(parked) : st[parked[i]] \in {"ParkedPreparePending", "ParkedPrepared"}
    /\ wal' = [wal EXCEPT ![man.wal].synced = Len(wal[man.wal].recs)]
    /\ st' = [t \in Txns |-> IF t \in Range(parked) THEN "ParkedPrepared" ELSE st[t]]
    /\ UNCHANGED <<phase, treeVars, nextSeq, visible, writer, batch, seq, parked, recovery, view,
                   histVars, stops, faults>>

(* The coordinator's decision on one transaction, or on a whole group.     *)
Decide ==
    /\ \/ \E t \in Txns : /\ st[t] = "Prepared" /\ GroupBarrier /\ t \notin decided
                          /\ decided' = decided \union {t}
       \/ /\ ~GroupBarrier /\ GroupOpen /\ writer = None
          /\ \A i \in 1..Len(parked) : st[parked[i]] = "ParkedPrepared"
          /\ decided' = decided \union Range(parked)
    /\ UNCHANGED <<phase, treeVars, wal, nextSeq, visible, txnVars, recovery, view, applied,
                   stops, faults>>

-------------------------------------------------------------------------------
(* commit_prepared_batch_authoritative: the commit record of the next      *)
(* participant, which may fail to be appended                              *)
BatchAppend(ok) ==
    /\ Usable /\ ~GroupBarrier /\ Range(parked) \subseteq decided
    /\ LET rest == SelectSeq(parked, LAMBDA u : Rec("Commit", u, seq[u]) \notin Log)
           t == rest[1] IN
       /\ rest # <<>>
       /\ \/ /\ st[t] = "ParkedPrepared" /\ MayAllocate
             /\ st' = [st EXCEPT ![t] = "CommitPending"] /\ seq' = [seq EXCEPT ![t] = nextSeq]
             /\ nextSeq' = nextSeq + 1
             /\ wal' = Logged(IF ok THEN <<Rec("Commit", t, nextSeq)>> ELSE <<>>)
          \/ /\ st[t] = "CommitPending" /\ ok
             /\ wal' = Logged(<<Rec("Commit", t, seq[t])>>)
             /\ UNCHANGED <<st, seq, nextSeq>>
    /\ FaultUnless(ok)
    /\ UNCHANGED <<phase, treeVars, visible, writer, batch, parked, recovery, view, histVars,
                   stops>>

(* Its sync, the application of every participant and the end of the batch *)
(* (commit_prepared_batch, or finalize_group_changes_batch).               *)
BatchSync ==
    /\ Usable /\ ~GroupBarrier
    /\ \A i \in 1..Len(parked) : /\ st[parked[i]] = "CommitPending"
                                 /\ Rec("Commit", parked[i], seq[parked[i]]) \in Log
    /\ wal' = [wal EXCEPT ![man.wal].synced = Len(wal[man.wal].recs)]
    /\ mem' = mem \union UNION {Apply(t, seq[t]) : t \in Range(parked)}
    /\ visible' = Max({visible} \union {seq[t] : t \in Range(parked)})
    /\ applied' = applied \o parked
    /\ st' = [t \in Txns |-> IF t \in Range(parked) THEN "Committed" ELSE st[t]]
    /\ parked' = <<>> /\ seq' = [t \in Txns |-> IF t \in Range(parked) THEN 0 ELSE seq[t]]
    /\ UNCHANGED <<phase, man, disk, sst, resEnd, nextSeq, writer, batch, recovery, view,
                   decided, stops, faults>>

(* rollback_prepared may start for the writer, or for the last parked.     *)
MayRollBack(t) ==
    /\ Usable /\ t \notin decided
    /\ \/ writer = t /\ st[t] \in {"PreparePending", "Prepared", "RollbackPending"}
       \/ /\ writer = None /\ ~GroupBarrier /\ Last(parked) = t
          /\ st[t] \in {"ParkedPreparePending", "ParkedPrepared"}

(* rollback_prepared, or a retry of it                                     *)
RollbackPrepared(t) ==
    /\ MayRollBack(t)
    /\ wal' = Ensured(Rec("Abort", t, 0))
    /\ st' = [st EXCEPT ![t] = "RolledBack"] /\ writer' = None
    /\ parked' = IF ~GroupBarrier /\ Last(parked) = t THEN Front(parked) ELSE parked
    /\ UNCHANGED <<phase, treeVars, nextSeq, visible, batch, seq, recovery, view, histVars,
                   stops, faults>>

(* rollback_prepared whose append (n = 0) or sync fails                    *)
RollbackFails(t, n) ==
    /\ MayRollBack(t) /\ st[t] # "RollbackPending" /\ Fault
    /\ writer' = t /\ st' = [st EXCEPT ![t] = "RollbackPending"]
    /\ wal' = Logged(SubSeq(<<Rec("Abort", t, 0)>>, 1, n))
    /\ UNCHANGED <<phase, treeVars, nextSeq, visible, batch, seq, parked, recovery, view, histVars,
                   stops>>

(* rollback, and the drop of an active handle                              *)
Rollback(t) ==
    /\ phase = "open" /\ writer = t /\ st[t] = "Active"
    /\ st' = [st EXCEPT ![t] = "RolledBack"] /\ writer' = None /\ batch' = [batch EXCEPT ![t] = <<>>]
    /\ UNCHANGED <<phase, treeVars, wal, nextSeq, visible, seq, parked, recovery, view,
                   histVars, stops, faults>>

(* The drop of a handle in doubt, and an append that could not be undone,  *)
(* require recovery.                                                       *)
DropHandle ==
    /\ Usable /\ \E t \in Txns : st[t] \in InDoubt
    /\ recovery' = TRUE /\ Fault
    /\ UNCHANGED <<phase, treeVars, wal, nextSeq, visible, txnVars, view, histVars, stops>>

-------------------------------------------------------------------------------
(* Closing, crashing and opening.                                          *)

Down ==
    /\ MayWork /\ stops' = stops + 1
    /\ phase' = "down" /\ mem' = {} /\ resEnd' = 1 /\ nextSeq' = 1 /\ visible' = 0
    /\ writer' = None /\ parked' = <<>> /\ recovery' = FALSE /\ view' = NoView
    /\ st' = [t \in Txns |-> IF st[t] \in {"Active"} \union InDoubt THEN "Lost" ELSE st[t]]
    /\ seq' = [t \in Txns |-> 0] /\ UNCHANGED <<batch, histVars, faults>>

(* close, after its flush                                                  *)
Close ==
    /\ MaintenanceSafe /\ mem = {}
    /\ wal' = [wal EXCEPT ![man.wal].synced = Len(wal[man.wal].recs)]
    /\ Down /\ UNCHANGED <<man, disk, sst>>

(* The process ends, and the operating system has all it wrote; or power   *)
(* fails, which settles what was not synced.                               *)
Crash ==
    /\ \/ phase # "down" /\ UNCHANGED <<man, disk, wal>>
       \/ \E m \in disk :
            /\ m.wal \in DOMAIN wal /\ man' = m /\ disk' = {m}
            /\ \E n \in wal[m.wal].synced..Len(wal[m.wal].recs) :
                  wal' = [wal EXCEPT ![m.wal] = [recs |-> SubSeq(@.recs, 1, n), synced |-> n]]
    /\ Down /\ UNCHANGED sst

(* analyze_wal                                                             *)
AnalyzeWal(recs) ==
    \A i \in 1..Len(recs) :
        LET before == {recs[j] : j \in 1..(i - 1)}
            has(type) == \E r \in before : r.type = type /\ r.txn = recs[i].txn IN
        /\ ~has("Abort") /\ ~has("Commit") /\ ~has(recs[i].type)
        /\ recs[i].type \in {"Prepare", "Commit"} => has("Batch")
        /\ recs[i].type = "Commit" => \A r \in before : r.type = "Commit" => r.seq # recs[i].seq

(* validate_manifest_sstable_layout                                        *)
Layout(ssts) ==
    \A i, j \in ssts : i # j /\ sst[i].level = sst[j].level /\ sst[i].level > 0 => ~Overlap({i}, j)

CanOpen(m) ==
    /\ m.ssts \subseteq DOMAIN sst /\ Layout(m.ssts)
    /\ m.wal \in DOMAIN wal /\ AnalyzeWal(wal[m.wal].recs)

(* Mutant: obsolete files are removed before the manifest is pinned.       *)
Recover_Unpinned ==
    /\ phase = "down" /\ CanOpen(man)
    /\ phase' = "recovering"
    /\ wal' = (man.wal :> [recs |-> wal[man.wal].recs, synced |-> Len(wal[man.wal].recs)])
    /\ sst' = Restrict(sst, man.ssts)
    /\ UNCHANGED <<man, disk, mem, resEnd, nextSeq, visible, txnVars, recovery, view, histVars,
                   stops, faults>>

(* open_with_ownership: the log is synced and the manifest pinned before   *)
(* the files it does not name are removed.                                 *)
Recover ==
    /\ phase = "down" /\ CanOpen(man)
    /\ phase' = "recovering" /\ disk' = {man}
    /\ wal' = (man.wal :> [recs |-> wal[man.wal].recs, synced |-> Len(wal[man.wal].recs)])
    /\ sst' = Restrict(sst, man.ssts)
    /\ UNCHANGED <<man, mem, resEnd, nextSeq, visible, txnVars, recovery, view, histVars, stops,
                   faults>>

Unresolved == {r.txn : r \in {x \in Log : x.type = "Prepare"}}
              \ {r.txn : r \in {x \in Log : x.type \in {"Commit", "Abort"}}}

(* allocate_recovery_commit                                                *)
RecoveryCommit == IF LogMax = 0 THEN man.res ELSE LogMax + 1

(* The next prepared transaction is resolved by the coordinator's decision.*)
ResolveOne ==
    /\ phase = "recovering" /\ Unresolved # {}
    /\ LET t == Min(Unresolved) IN
       \/ t \in decided /\ RecoveryCommit <= MaxSeq
          /\ wal' = Ensured(Rec("Commit", t, RecoveryCommit))
       \/ t \notin decided /\ wal' = Ensured(Rec("Abort", t, 0))
    /\ UNCHANGED <<phase, treeVars, nextSeq, visible, txnVars, recovery, view, histVars, stops,
                   faults>>

(* Mutant: the reservation in the manifest is taken for the next sequence. *)
FinishOpen_Reserved ==
    LET commits == SelectSeq(wal[man.wal].recs, LAMBDA r : r.type = "Commit")
        found == UNION {Apply(r.txn, r.seq) : r \in Range(commits)}
        top == Max({0} \union {e.seq : e \in found \union Entries})
        fresh == SelectSeq(commits, LAMBDA r : r.txn \notin Range(applied)) IN
    /\ phase = "recovering" /\ Unresolved = {} /\ phase' = "open"
    /\ mem' = found /\ visible' = top
    /\ resEnd' = man.res /\ nextSeq' = resEnd'
    /\ applied' = applied \o [i \in 1..Len(fresh) |-> fresh[i].txn]
    /\ UNCHANGED <<man, disk, sst, wal, txnVars, recovery, view, decided, stops, faults>>

(* The memtable is rebuilt from the log; sequences start after everything  *)
(* reserved or found.                                                      *)
FinishOpen ==
    LET commits == SelectSeq(wal[man.wal].recs, LAMBDA r : r.type = "Commit")
        found == UNION {Apply(r.txn, r.seq) : r \in Range(commits)}
        top == Max({0} \union {e.seq : e \in found \union Entries})
        fresh == SelectSeq(commits, LAMBDA r : r.txn \notin Range(applied)) IN
    /\ phase = "recovering" /\ Unresolved = {} /\ phase' = "open"
    /\ mem' = found /\ visible' = top
    /\ resEnd' = Max({man.res, top + 1}) /\ nextSeq' = resEnd'
    /\ applied' = applied \o [i \in 1..Len(fresh) |-> fresh[i].txn]
    /\ UNCHANGED <<man, disk, sst, wal, txnVars, recovery, view, decided, stops, faults>>

Outcomes == {"done", "kept", "unsynced", "leftover"}
Next ==
    \/ ReadView \/ DropView \/ Decide \/ DurabilizePrepares \/ BatchSync \/ DropHandle
    \/ Close \/ Crash \/ Recover \/ ResolveOne \/ FinishOpen
    \/ \E out \in Outcomes : Flush(out) \/ CompactOne(out) \/ CompactFull(out) \/ WriteFails(out)
    \/ \E ok \in BOOLEAN : Reserve(ok) \/ BatchAppend(ok)
    \/ \E t \in Txns :
        \/ \E b \in Batches : Write(t, b)
        \/ \E n \in 0..2 : CommitAppend(t, n)
        \/ \E n \in 1..2 : PrepareAppend(t, n)
        \/ \E ok \in BOOLEAN : CommitPrepared(t, ok)
        \/ \E n \in 0..1 : RollbackFails(t, n)
        \/ FinishCommit(t) \/ PrepareSync(t) \/ StageGroupPrepare(t) \/ ParkPrepared(t)
        \/ RollbackPrepared(t) \/ Rollback(t)

Spec == Init /\ [][Next]_vars

-------------------------------------------------------------------------------
(* Properties.                                                             *)

(* Whatever was flushed, compacted, lost or recovered, a scan shows what   *)
(* the transactions that took effect leave when replayed in the order they *)
(* did, and an open read view keeps showing what it did when it was opened *)
(* (commit, flush_memtable, execute_compaction and open_with_ownership).   *)
ReadExact ==
    phase = "open" => /\ Scan(visible) = Replay
                      /\ view.open => Scan(view.seq) = view.rows

(* A transaction the coordinator decided to commit and that has not taken  *)
(* effect is found prepared by whatever open follows: every manifest that  *)
(* may be found names a log with its synced mutations and Prepare          *)
(* (acquire_writer's flush, prepare and the group barrier).                *)
PreparedSurvives ==
    \A t \in decided \ Range(applied), m \in disk :
        /\ m.wal \in DOMAIN wal
        /\ LET kept == Range(SubSeq(wal[m.wal].recs, 1, wal[m.wal].synced)) IN
           /\ {Rec("Batch", t, 0), Rec("Prepare", t, 0)} \subseteq kept
           /\ \A r \in Range(wal[m.wal].recs) : r.txn = t => r.type # "Abort"

(* Open accepts every state a crash can leave: each manifest that may be   *)
(* found names files that exist, levels without overlap and a log that     *)
(* analyze_wal accepts (publish_manifest, cleanup_orphans and the retries).*)
OpenNeverRefuses == \A m \in disk : CanOpen(m)

===============================================================================
