--------------------------- MODULE CoordinatorLog ---------------------------
(***************************************************************************)
(* The coordinator log of coordinator_log.rs, record by record: what its   *)
(* methods append and synchronize, what a scan of the file accepts, the    *)
(* steps of compact() and the files a crash can leave behind.  It is       *)
(* checked to implement DecisionLog, on which GlobalCommit rests.          *)
(*                                                                         *)
(* A record is kept without its bytes, checksum and participant list.  A   *)
(* decision of one transaction and a group decision are the same record    *)
(* with one or more members.  A record whose write was cut short is Torn.  *)
(***************************************************************************)
EXTENDS Integers, Sequences, FiniteSets, SequencesExt, FiniteSetsExt

CONSTANTS MaxTxn,       \* DatabaseTxnIds are 1..MaxTxn
          MaxFaults,    \* bound on failing I/O operations
          MaxCrashes    \* bound on crashes

ASSUME BoundsAssumption ==
    MaxTxn \in Nat \ {0} /\ MaxFaults \in Nat /\ MaxCrashes \in Nat

Txns == 1..MaxTxn

VARIABLES
    file,       \* the records of the file that the log's path names
    synced,     \* how many of them are known to be durable
    shadow,     \* files the path may name instead after a power loss
    next,       \* compact's temporary file: "none", "written" or "synced"
    mem,        \* in memory: global_visibility, decisions and checkpoint
    pending,    \* pending_complete_checkpoints
    handle,     \* "held", or "lost" once self.file is None
    running,    \* the process is alive and the log was opened
    compacting, \* where compact() is, "idle" when it is not running
    live,       \* transactions with an outstanding DatabaseTransaction
    inDoubt,    \* transactions some storage holds as prepared and unresolved
    nextId,     \* next_transaction_id
    granted,    \* history: the sequence each transaction was decided with
    view,       \* the numbers of the abstract log, a function of the rest
    faults, crashes

disk == <<file, synced, shadow>>
log  == <<mem, pending, handle>>
txns == <<live, inDoubt, nextId>>
vars == <<file, synced, shadow, next, mem, pending, handle, running,
          compacting, live, inDoubt, nextId, granted, view, faults, crashes>>

-----------------------------------------------------------------------------
(* Records, and the state a scan builds from them.                         *)

Enable           == [kind |-> "GlobalEnable"]
Decision(ms, g)  == [kind |-> "Decision", members |-> ms, first |-> g]
Complete(t, g)   == [kind |-> "Complete", txn |-> t, seq |-> g]
Checkpoint(g, h) == [kind |-> "Checkpoint", seq |-> g, high |-> h]
Torn(r)          == [kind |-> "Torn", of |-> r.kind]

NoCheckpoint == [seq |-> 0, high |-> 0]

EmptyScan == [ok |-> TRUE, tail |-> FALSE, global |-> FALSE,
              decisions |-> <<>>, checkpoint |-> NoCheckpoint]

Sequences(m) == {m.decisions[t].seq : t \in DOMAIN m.decisions}

(* last_sequenced_decision, next_commit_seq - 1                            *)
LastDecision(m) ==
    IF Sequences(m) = {} THEN m.checkpoint.seq ELSE Max(Sequences(m))

(* published_commit_seq                                                    *)
Published(m) ==
    Max({m.checkpoint.seq} \union
        {m.decisions[t].seq : t \in {u \in DOMAIN m.decisions : m.decisions[u].complete}})

(* database_txn_id_high_water                                              *)
HighWater(m) == Max({m.checkpoint.high} \union DOMAIN m.decisions)

(* The check of validate_sequenced_complete and of the scan.               *)
Gap(m, g) ==
    \E t \in DOMAIN m.decisions :
        m.decisions[t].seq < g /\ ~m.decisions[t].complete

Insert(m, ms, g) ==
    LET members == [t \in Range(ms) |->
                       [seq |-> g - 1 + (CHOOSE i \in DOMAIN ms : ms[i] = t),
                        complete |-> FALSE]]
    IN  [m EXCEPT !.decisions = members @@ @]

SetComplete(m, t) == [m EXCEPT !.decisions[t].complete = TRUE]

-----------------------------------------------------------------------------
(***************************************************************************)
(* apply_decoded_record and the tail rule of scan_file: an incomplete last *)
(* record is dropped, unless it is a checkpoint; a record after an         *)
(* incomplete one is corruption.                                           *)
(***************************************************************************)
Accepts(m, r) ==
    /\ m.ok /\ ~m.tail
    /\ CASE r.kind = "GlobalEnable" -> m.checkpoint = NoCheckpoint
         [] r.kind = "Checkpoint" ->
              /\ m.global /\ m.checkpoint = NoCheckpoint /\ DOMAIN m.decisions = {}
              /\ r.seq # 0 /\ r.high # 0
         [] r.kind = "Decision" ->
              /\ m.global
              /\ r.first = LastDecision(m) + 1
              /\ \A t \in Range(r.members) :
                    t > m.checkpoint.high /\ t \notin DOMAIN m.decisions
         [] r.kind = "Complete" ->
              /\ m.global
              /\ r.txn \in DOMAIN m.decisions
              /\ m.decisions[r.txn].seq = r.seq
              /\ ~Gap(m, r.seq)
         [] r.kind = "Torn" -> r.of # "Checkpoint"

Apply(m, r) ==
    CASE ~Accepts(m, r) -> [m EXCEPT !.ok = FALSE]
      [] r.kind = "GlobalEnable" -> [m EXCEPT !.global = TRUE]
      [] r.kind = "Checkpoint" -> [m EXCEPT !.checkpoint = [seq |-> r.seq, high |-> r.high]]
      [] r.kind = "Decision" -> Insert(m, r.members, r.first)
      [] r.kind = "Complete" -> SetComplete(m, r.txn)
      [] r.kind = "Torn" -> [m EXCEPT !.tail = TRUE]

Scan(f) ==
    LET upTo[i \in 0..Len(f)] == IF i = 0 THEN EmptyScan ELSE Apply(upTo[i - 1], f[i])
    IN  upTo[Len(f)]

(***************************************************************************)
(* What a crash can leave at the log's path: the durable records, any      *)
(* number of the later ones, possibly the beginning of one more; or, while *)
(* a rename is not yet durable, the file it replaced.                      *)
(***************************************************************************)
CutFiles(f, n) ==
    UNION {{SubSeq(f, 1, k)} \union
           (IF k < Len(f) /\ f[k + 1].kind # "Torn"
            THEN {Append(SubSeq(f, 1, k), Torn(f[k + 1]))} ELSE {}) : k \in n..Len(f)}

Survivors == CutFiles(file, synced) \union shadow

-----------------------------------------------------------------------------
(***************************************************************************)
(* What the abstract log says of this state: the last decision and the     *)
(* last Complete, known and durable.                                       *)
(***************************************************************************)
ViewOf(f, n, old, m, up) ==
    LET durable == {Scan(d) : d \in {SubSeq(f, 1, n)} \union old}
        known   == IF up THEN m ELSE Scan(f)
    IN  [last      |-> LastDecision(known),
         stable    |-> Min({LastDecision(d) : d \in durable}),
         completed |-> Published(known),
         stableC   |-> Min({Published(d) : d \in durable})]

View == ViewOf(file, synced, shadow, mem, running)

-----------------------------------------------------------------------------
Init ==
    /\ file = <<>> /\ synced = 0 /\ shadow = {} /\ next = "none"
    /\ mem = EmptyScan /\ pending = {} /\ handle = "held"
    /\ running = TRUE /\ compacting = "idle"
    /\ live = {} /\ inDoubt = {} /\ nextId = 1
    /\ granted = [t \in Txns |-> 0]
    /\ faults = 0 /\ crashes = 0
    /\ view = View

Idle == running /\ compacting = "idle"
Held == handle = "held"

Fault == faults < MaxFaults /\ faults' = faults + 1
NoFault == UNCHANGED faults

SyncFile == synced' = Len(file')

(* append_record fails: the partial record is truncated away, or that      *)
(* fails too and the handle is given up.  The records rs went in before.   *)
AppendFails(rs, r) ==
    \/ file' = file \o rs /\ UNCHANGED handle
    \/ file' = file \o rs \o <<Torn(r)>> /\ handle' = "lost"

(***************************************************************************)
(* enable_global_visibility: the record is in the file, but the mode only  *)
(* in memory once the sync succeeded.                                      *)
(***************************************************************************)
EnableGlobal ==
    /\ Idle /\ Held /\ ~mem.global
    /\ \/ /\ NoFault
          /\ file' = Append(file, Enable)
          /\ SyncFile
          /\ mem' = [mem EXCEPT !.global = TRUE]
          /\ UNCHANGED handle
       \/ /\ Fault
          /\ \/ file' = Append(file, Enable) /\ UNCHANGED handle
             \/ AppendFails(<<>>, Enable)
          /\ UNCHANGED <<synced, mem>>
    /\ UNCHANGED <<shadow, next, pending, running, compacting, txns, granted, crashes>>

(* append_missing_pending_completes: the Completes still to be appended.   *)
Missing ==
    LET ts == {t \in DOMAIN mem.decisions :
                  mem.decisions[t].seq \in pending /\ ~mem.decisions[t].complete}
        order == SetToSortSeq(ts, LAMBDA t, u : mem.decisions[t].seq < mem.decisions[u].seq)
    IN  [i \in DOMAIN order |-> Complete(order[i], mem.decisions[order[i]].seq)]

WithMissing(rs) == FoldLeft(LAMBDA m, r : SetComplete(m, r.txn), mem, rs)

(* A retry of the same decision, whose members have consecutive sequences. *)
Existing(ms) ==
    /\ Range(ms) \subseteq DOMAIN mem.decisions
    /\ \A i \in DOMAIN ms :
          mem.decisions[ms[i]].seq = mem.decisions[ms[1]].seq + i - 1

(* sequenced_commit_decision refuses an identifier at or below the         *)
(* checkpoint's high water.                                                *)
Regressed(ms) == \E t \in Range(ms) : t <= mem.checkpoint.high

(***************************************************************************)
(* sequenced_commit_decision and sequenced_group_commit_decision.  The     *)
(* caller decides only transactions whose participants are all prepared.   *)
(***************************************************************************)
Decide(ms) ==
    LET g   == LastDecision(mem) + 1
        new == ~Existing(ms)
        rs  == IF new THEN Append(Missing, Decision(ms, g)) ELSE Missing
    IN  /\ Idle /\ mem.global /\ Range(ms) \subseteq live \intersect inDoubt
        /\ ~Regressed(ms)
        /\ new => Range(ms) \intersect DOMAIN mem.decisions = {}
        /\ \/ /\ Held
              /\ file' = file \o rs
              /\ mem' = IF new THEN Insert(WithMissing(Missing), ms, g)
                               ELSE WithMissing(Missing)
              /\ granted' = IF new THEN [t \in Txns |-> IF t \in Range(ms)
                                                        THEN mem'.decisions[t].seq
                                                        ELSE granted[t]]
                                   ELSE granted
              /\ \/ NoFault /\ SyncFile /\ pending' = {}
                 \/ Fault /\ UNCHANGED <<synced, pending>>
              /\ UNCHANGED handle
           \/ /\ Held /\ Fault
              /\ \E k \in DOMAIN rs :
                    /\ AppendFails(SubSeq(rs, 1, k - 1), rs[k])
                    /\ mem' = WithMissing(SubSeq(rs, 1, k - 1))
              /\ UNCHANGED <<synced, pending, granted>>
        /\ UNCHANGED <<shadow, next, running, compacting, txns, crashes>>

-----------------------------------------------------------------------------
(***************************************************************************)
(* The caller completes a decided transaction once every participant has   *)
(* committed it.                                                           *)
(***************************************************************************)
Completable(t) ==
    /\ Idle /\ t \in DOMAIN mem.decisions \ inDoubt
    /\ mem.decisions[t].complete \/ ~Gap(mem, mem.decisions[t].seq)

(* defer_complete_sequenced                                                *)
DeferComplete(t) ==
    LET g == mem.decisions[t].seq IN
    /\ Completable(t)
    /\ pending' = pending \union {g}
    /\ \/ /\ mem.decisions[t].complete \/ ~Held
          /\ NoFault /\ UNCHANGED <<file, mem, handle>>
       \/ /\ ~mem.decisions[t].complete /\ Held
          /\ \/ /\ NoFault
                /\ file' = Append(file, Complete(t, g))
                /\ mem' = SetComplete(mem, t)
                /\ UNCHANGED handle
             \/ Fault /\ AppendFails(<<>>, Complete(t, g)) /\ UNCHANGED mem
    /\ UNCHANGED <<synced, shadow, next, running, compacting, txns, granted, crashes>>

(* complete_sequenced                                                      *)
CompleteSequenced(t) ==
    LET g    == mem.decisions[t].seq
        done == mem.decisions[t].complete
    IN  /\ Completable(t) /\ Held
        /\ \/ /\ file' = IF done THEN file ELSE Append(file, Complete(t, g))
              /\ mem' = SetComplete(mem, t)
              /\ \/ NoFault /\ SyncFile /\ pending' = {}
                 \/ /\ Fault /\ UNCHANGED synced
                    /\ pending' = IF done THEN pending ELSE pending \union {g}
              /\ UNCHANGED handle
           \/ /\ ~done /\ Fault
              /\ AppendFails(<<>>, Complete(t, g))
              /\ UNCHANGED <<mem, synced, pending>>
        /\ UNCHANGED <<shadow, next, running, compacting, txns, granted, crashes>>

(* flush_complete_checkpoints, and what it leaves when it fails.           *)
Flush ==
    /\ Held /\ pending # {}
    /\ \/ /\ file' = file \o Missing
          /\ mem' = WithMissing(Missing)
          /\ \/ NoFault /\ SyncFile /\ pending' = {}
             \/ Fault /\ UNCHANGED <<synced, pending>>
          /\ UNCHANGED handle
       \/ /\ Fault
          /\ \E k \in DOMAIN Missing :
                /\ AppendFails(SubSeq(Missing, 1, k - 1), Missing[k])
                /\ mem' = WithMissing(SubSeq(Missing, 1, k - 1))
          /\ UNCHANGED <<synced, pending>>

FlushCheckpoints ==
    /\ Idle /\ Flush
    /\ UNCHANGED <<shadow, next, running, compacting, txns, granted, crashes>>

-----------------------------------------------------------------------------
(***************************************************************************)
(* compact(), one action per step at which it can fail or the process can  *)
(* die.  Database::compact_coordinator_log calls it only without           *)
(* outstanding transactions and with every storage resolved.               *)
(***************************************************************************)
(* Faulty: outstanding transactions are not counted.                       *)
Quiescent_IgnoresHandles == inDoubt = {}

Quiescent == live = {} /\ inDoubt = {}

CompactBegin ==
    /\ Idle /\ Held /\ mem.global /\ Quiescent
    /\ \/ /\ pending = {} /\ compacting' = "flushed"
          /\ NoFault /\ UNCHANGED <<file, synced, log>>
       \/ /\ Flush
          /\ compacting' = IF pending' = {} THEN "flushed" ELSE "idle"
    /\ UNCHANGED <<shadow, next, running, txns, granted, crashes>>

Compactable ==
    /\ DOMAIN mem.decisions # {}
    /\ \A t \in DOMAIN mem.decisions : mem.decisions[t].complete

(* An incomplete decision refuses the compaction; without decisions there  *)
(* is nothing to do.                                                       *)
CompactRefused ==
    /\ compacting = "flushed" /\ ~Compactable
    /\ compacting' = "idle"
    /\ UNCHANGED <<disk, next, log, running, txns, granted, faults, crashes>>

(* The temporary file is written; a failure leaves an orphan behind.       *)
CompactWrite ==
    /\ compacting = "flushed" /\ Compactable
    /\ \/ NoFault /\ next' = "written" /\ compacting' = "written"
       \/ Fault /\ next' \in {"none", "written"} /\ compacting' = "idle"
    /\ UNCHANGED <<disk, log, running, txns, granted, crashes>>

(* Faulty: the temporary file is not synchronized before the rename.       *)
CompactSync_Skipped ==
    /\ compacting = "written"
    /\ compacting' = "synced"
    /\ UNCHANGED <<disk, next, log, running, txns, granted, faults, crashes>>

CompactSync ==
    /\ compacting = "written"
    /\ \/ NoFault /\ next' = "synced" /\ compacting' = "synced"
       \/ Fault /\ UNCHANGED next /\ compacting' = "idle"
    /\ UNCHANGED <<disk, log, running, txns, granted, crashes>>

CompactRelease ==
    /\ compacting = "synced"
    /\ handle' = "lost" /\ compacting' = "released"
    /\ UNCHANGED <<disk, next, mem, pending, running, txns, granted, faults, crashes>>

Replacement == <<Enable, Checkpoint(Published(mem), HighWater(mem))>>

(* The rename replaces the file; after a failure the old one is reopened.  *)
CompactRename ==
    /\ compacting = "released"
    /\ \/ /\ NoFault
          /\ file' = Replacement
          /\ synced' = IF next = "synced" THEN Len(file') ELSE 0
          /\ shadow' = CutFiles(file, synced)
          /\ next' = "none"
          /\ compacting' = "renamed"
          /\ UNCHANGED handle
       \/ /\ Fault
          /\ handle' \in {"held", "lost"}
          /\ compacting' = "idle"
          /\ UNCHANGED <<disk, next>>
    /\ UNCHANGED <<mem, pending, running, txns, granted, crashes>>

(* Faulty: the directory is not synchronized.                              *)
CompactSyncDirectory_Skipped ==
    /\ compacting = "renamed"
    /\ compacting' = "durable"
    /\ UNCHANGED <<disk, next, log, running, txns, granted, faults, crashes>>

(* After a failed directory sync either file may come back: the handle     *)
(* stays lost.                                                             *)
CompactSyncDirectory ==
    /\ compacting = "renamed"
    /\ \/ NoFault /\ shadow' = {} /\ compacting' = "durable"
       \/ Fault /\ UNCHANGED shadow /\ compacting' = "idle"
    /\ UNCHANGED <<file, synced, next, log, running, txns, granted, crashes>>

CompactReopen ==
    /\ compacting = "durable"
    /\ compacting' = "idle"
    /\ \/ NoFault /\ mem' = Scan(file) /\ handle' = "held"
       \/ Fault /\ UNCHANGED <<mem, handle>>
    /\ UNCHANGED <<disk, next, pending, running, txns, granted, crashes>>

-----------------------------------------------------------------------------
(* The transactions that use the log.                                      *)

BeginTransaction(t) ==
    /\ Idle /\ t = nextId
    /\ nextId' = nextId + 1
    /\ live' = live \union {t}
    /\ UNCHANGED <<disk, next, log, running, compacting, inDoubt, granted, faults, crashes>>

PrepareParticipants(t) ==
    /\ Idle /\ t \in live \ inDoubt /\ granted[t] = 0
    /\ inDoubt' = inDoubt \union {t}
    /\ UNCHANGED <<disk, next, log, running, compacting, live, nextId, granted, faults, crashes>>

(* After a durable decision the participants commit; without a decision    *)
(* they may roll back, and the transaction is over.                        *)
CommitParticipants(t) ==
    /\ Idle /\ t \in live \intersect inDoubt
    /\ t \in DOMAIN Scan(SubSeq(file, 1, synced)).decisions
    /\ inDoubt' = inDoubt \ {t}
    /\ UNCHANGED <<disk, next, log, running, compacting, live, nextId, granted, faults, crashes>>

RollbackParticipants(t) ==
    /\ Idle /\ t \in live \intersect inDoubt /\ granted[t] = 0
    /\ inDoubt' = inDoubt \ {t} /\ live' = live \ {t}
    /\ UNCHANGED <<disk, next, log, running, compacting, nextId, granted, faults, crashes>>

(* The handle finishes or is dropped, in whatever state.                   *)
DropTransaction(t) ==
    /\ Idle /\ t \in live
    /\ live' = live \ {t}
    /\ UNCHANGED <<disk, next, log, running, compacting, inDoubt, nextId, granted, faults, crashes>>

-----------------------------------------------------------------------------
(***************************************************************************)
(* The process or the machine stops, also in the middle of compact().      *)
(***************************************************************************)
Crash ==
    /\ crashes < MaxCrashes /\ crashes' = crashes + 1
    /\ \/ file' \in CutFiles(file, synced) /\ UNCHANGED <<synced, shadow>>
       \/ file' \in shadow /\ synced' = Len(file') /\ shadow' = {}
    /\ mem' = EmptyScan /\ pending' = {} /\ handle' = "lost"
    /\ running' = FALSE /\ compacting' = "idle"
    /\ live' = {}
    /\ granted' = [t \in Txns |-> IF granted[t] <= LastDecision(Scan(file'))
                                  THEN granted[t] ELSE 0]
    /\ UNCHANGED <<next, inDoubt, nextId, faults>>

(* resolution_for_recovery_prepared: a prepared transaction at or below    *)
(* the high water whose decision is gone cannot be resolved.               *)
Resolvable(m, ts) ==
    \A t \in ts : t \in DOMAIN m.decisions \/ t > m.checkpoint.high

(***************************************************************************)
(* open() within Database::open: the torn tail is truncated, the file and  *)
(* its directory are synchronized, every prepared transaction is resolved  *)
(* and the next identifier lies above every known one.                     *)
(***************************************************************************)
Open ==
    LET found == Scan(file) IN
    /\ ~running /\ found.ok /\ Resolvable(found, inDoubt)
    /\ file' = IF found.tail THEN Front(file) ELSE file
    /\ SyncFile /\ shadow' = {}
    /\ mem' = [found EXCEPT !.tail = FALSE]
    /\ handle' = "held" /\ running' = TRUE
    /\ inDoubt' = {}
    /\ nextId' \in {n \in 1..nextId : \A t \in inDoubt \union {HighWater(found)} : n > t}
    /\ UNCHANGED <<next, pending, compacting, live, granted, faults, crashes>>

-----------------------------------------------------------------------------
(* Groups have at most two members.                                        *)
Orders == {<<t>> : t \in Txns} \union {ms \in Txns \X Txns : ms[1] # ms[2]}

Step ==
    \/ EnableGlobal
    \/ \E ms \in Orders : Decide(ms)
    \/ \E t \in Txns : DeferComplete(t) \/ CompleteSequenced(t)
    \/ FlushCheckpoints
    \/ CompactBegin \/ CompactRefused \/ CompactWrite \/ CompactSync
    \/ CompactRelease \/ CompactRename \/ CompactSyncDirectory \/ CompactReopen
    \/ \E t \in Txns :
          \/ BeginTransaction(t) \/ PrepareParticipants(t)
          \/ CommitParticipants(t) \/ RollbackParticipants(t) \/ DropTransaction(t)
    \/ Crash \/ Open

Next == Step /\ view' = ViewOf(file', synced', shadow', mem', running')

Spec == Init /\ [][Next]_vars

-----------------------------------------------------------------------------
(* Type correctness.                                                       *)
TypeOK ==
    /\ file \in Seq([kind : {"GlobalEnable"}]
                    \union [kind : {"Decision"}, members : Orders, first : 1..MaxTxn]
                    \union [kind : {"Complete"}, txn : Txns, seq : 1..MaxTxn]
                    \union [kind : {"Checkpoint"}, seq : 1..MaxTxn, high : Txns]
                    \union [kind : {"Torn"}, of : {"GlobalEnable", "Decision", "Complete", "Checkpoint"}])
    /\ synced \in 0..Len(file)
    /\ next \in {"none", "written", "synced"}
    /\ DOMAIN mem.decisions \subseteq Txns
    /\ pending \subseteq 1..MaxTxn
    /\ handle \in {"held", "lost"} /\ running \in BOOLEAN
    /\ compacting \in {"idle", "flushed", "written", "synced", "released", "renamed", "durable"}
    /\ live \subseteq 1..(nextId - 1) /\ inDoubt \subseteq 1..(nextId - 1)
    /\ granted \in [Txns -> 0..MaxTxn]

(***************************************************************************)
(* Whatever a crash leaves at the log's path, before, during and after a   *)
(* compaction, scan_file accepts: the database can be opened again.        *)
(***************************************************************************)
EveryCrashScans == \A f \in Survivors : Scan(f).ok

(***************************************************************************)
(* While the log holds its file, its memory is what a scan of the file     *)
(* would build; the checks of the methods and of the scan agree.           *)
(***************************************************************************)
MemoryMatchesFile ==
    Idle /\ Held =>
        LET found == Scan(file) IN
        /\ found.ok /\ ~found.tail
        /\ found.decisions = mem.decisions
        /\ found.checkpoint = mem.checkpoint
        /\ mem.global => found.global

(***************************************************************************)
(* A compaction never takes the decision away from a transaction that may  *)
(* still need it: after any crash recovery can resolve every prepared      *)
(* transaction, and no running transaction is refused its decision.        *)
(***************************************************************************)
CheckpointSparesUnresolved ==
    /\ \A f \in Survivors : Resolvable(Scan(f), inDoubt)
    /\ \A t \in live : granted[t] = 0 => t > mem.checkpoint.high

-----------------------------------------------------------------------------
(* The abstract log.  Sequences of compacted decisions come from history.  *)
Abstract == INSTANCE DecisionLog WITH
    seqOf     <- granted,
    last      <- view.last,
    stable    <- view.stable,
    completed <- view.completed,
    stableC   <- view.stableC,
    pending   <- pending,
    authority <- handle

(***************************************************************************)
(* The record-level log implements the abstract one: no decision that was  *)
(* synchronized is lost or renumbered, by a crash or by a compaction.      *)
(***************************************************************************)
ImplementsDecisionLog == Abstract!LogSpec
=============================================================================
