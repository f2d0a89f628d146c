---------------------------- MODULE HeapRecovery ----------------------------
(***************************************************************************)
(* Write-ahead logging and startup recovery of one heap (netbadb-heap:     *)
(* wal.rs, buffer.rs, recovery.rs, transaction.rs, the open, flush and     *)
(* checkpoint of heap.rs, and the status file of txn_status.rs).           *)
(*                                                                         *)
(* The log keeps whole page images and there are no compensation records:  *)
(* recovery repeats the history of every transaction that is not marked    *)
(* RollbackComplete, then puts back the before images of the losers in     *)
(* descending LSN order, and only then marks them.  Transactions of a      *)
(* group park after their Prepare and hand the writer on, so several       *)
(* unresolved transactions can lie on top of each other.                   *)
(*                                                                         *)
(*   log      every record ever appended; the LSN is the index             *)
(*   synced   durable_lsn                                                  *)
(*   current  the header of the generation file in use                     *)
(*   slots    the headers of the generation files on disk (root, alternate)*)
(*   poisoned WalManager.poisoned                                          *)
(*   file     the data file as the process sees it, page by page           *)
(*   maybe    what a power loss may leave of the data file: its state at   *)
(*            the last sync and after every write since                    *)
(*   frames   the dirty frames of the buffer pool                          *)
(*   state, undoAt   of a Transaction: its state and its place in undo     *)
(*   writer, parked  TransactionRuntime.writer and parked_prepared         *)
(*   nextTxn  TransactionManager.next_txn_id                               *)
(*   status   the transaction status file                                  *)
(*   decided  external: the prepared transactions whose commit decision    *)
(*            the coordinator log holds                                    *)
(*   result, acked   history: the pages as each transaction left them, and *)
(*            the Commit records reported to callers                       *)
(*                                                                         *)
(* A page image is named by the record that produced it; era, the number   *)
(* of crashes before it, tells apart two records that got the same LSN     *)
(* because the first was lost.  Pages are written whole (torn pages fail   *)
(* their checksum and are not modelled), a crash keeps a prefix of the     *)
(* unsynced writes of a file, and an incomplete last record is cut off.    *)
(* PageAllocationTransition and PageGenerationReservation records belong   *)
(* to index page reuse, which is not modelled.                             *)
(***************************************************************************)
EXTENDS Integers, Sequences, FiniteSets, SequencesExt

CONSTANTS
    MaxTxn, MaxLsn, MaxPages, MaxCrashes, MaxFaults, MaxCheckpoints,
    MaxWrites,        \* page records of one transaction
    MaxOpen           \* transactions open at once, besides the parked ones

ASSUME HeapAssumption ==
    /\ {MaxTxn, MaxLsn, MaxPages, MaxCrashes, MaxFaults, MaxCheckpoints, MaxWrites,
        MaxOpen} \subseteq Nat
    /\ MaxTxn > 0 /\ MaxPages > 0

VARIABLES log, synced, current, slots, poisoned, file, maybe, frames,
          state, undoAt, writer, parked, nextTxn, status, decided,
          mode, result, acked, faults, crashes

walVars == <<log, synced, current, slots, poisoned>>
pageVars == <<file, maybe, frames>>
txnVars == <<state, undoAt, writer, parked, nextTxn>>
history == <<result, acked>>
envVars == <<faults, crashes>>
vars == <<walVars, pageVars, txnVars, status, decided, mode, history, envVars>>

Txns == 1..MaxTxn
Idle == 0              \* WriterState::Idle
Required == -1         \* WriterState::RecoveryRequired

(* Page images: the one page of a new heap, and the allocator's zero page. *)
Created == [lsn |-> 0, txn |-> 0, era |-> 0]
Zero == [lsn |-> 0, txn |-> 0, era |-> -1]
After(l, r) == [lsn |-> l, txn |-> r.txn, era |-> r.era]

Entry(t, k) == [txn |-> t, kind |-> k, page |-> 0, before |-> Zero, era |-> crashes]
PageUpdate(t, p, b) == [txn |-> t, kind |-> "PageUpdate", page |-> p, before |-> b, era |-> crashes]

Settled == {"none", "Committed", "RolledBack", "Dropped"}
ParkedStates == {"ParkedPreparePending", "ParkedPrepared"}
States == Settled \union ParkedStates \union
            {"Active", "RollbackRequired", "CommitPending", "RollbackPending", "RollbackComplete"}

Last0(S) == IF S = {} THEN 0 ELSE CHOOSE x \in S : \A y \in S : y <= x

Retained == (current.base + 1)..Len(log)
Of(t) == {l \in Retained : log[l].txn = t}
Wrote(t) == {l \in Of(t) : log[l].kind = "PageUpdate"}
Added(t) == {log[l].page : l \in {m \in Wrote(t) : log[m].before = Zero}}
Has(t, k) == \E l \in Of(t) : log[l].kind = k

View == [p \in DOMAIN file |-> IF p \in DOMAIN frames THEN frames[p] ELSE file[p]]

Without(f, p) == [q \in DOMAIN f \ {p} |-> f[q]]
With(f, p, i) == [q \in DOMAIN f \union {p} |-> IF q = p THEN i ELSE f[q]]

Up == mode = "up"
Healthy == Up /\ ~poisoned
Room == Len(log) < MaxLsn
Live == {t \in Txns : state[t] \notin Settled}

FirstHeader == [generation |-> 1, base |-> 0, nextTxn |-> 1]

Init ==
    /\ log = <<>> /\ synced = 0 /\ current = FirstHeader /\ slots = {FirstHeader}
    /\ poisoned = FALSE
    /\ file = <<Created>> /\ maybe = {<<Created>>} /\ frames = <<>>
    /\ state = [t \in Txns |-> "none"] /\ undoAt = [t \in Txns |-> 0]
    /\ writer = Idle /\ parked = <<>> /\ nextTxn = 1
    /\ status = [t \in Txns |-> "none"] /\ decided = {}
    /\ mode = "up" /\ result = [t \in Txns |-> <<>>] /\ acked = {}
    /\ faults = 0 /\ crashes = 0

-----------------------------------------------------------------------------
(* The log and the buffer pool.                                            *)

AppendRecords(rs) == log' = log \o rs

(* flush_through: sync_data makes everything written durable.              *)
FlushThrough(l) == synced' = IF synced >= l THEN synced ELSE Len(log)

(* Mutant: the page is written first, its log later.                       *)
FlushFrame_PageFirst(p) ==
    /\ Healthy /\ p \in DOMAIN frames
    /\ file' = [file EXCEPT ![p] = frames[p]]
    /\ maybe' = maybe \union {file'}
    /\ frames' = Without(frames, p)
    /\ UNCHANGED <<walVars, txnVars, status, decided, mode, history, envVars>>

(* flush_frame, reached by eviction and by flush: the log is durable       *)
(* through the page's LSN before the page is written.                      *)
FlushFrame(p) ==
    /\ Healthy /\ p \in DOMAIN frames
    /\ FlushThrough(frames[p].lsn)
    /\ file' = [file EXCEPT ![p] = frames[p]]
    /\ maybe' = maybe \union {file'}
    /\ frames' = Without(frames, p)
    /\ UNCHANGED <<log, current, slots, poisoned, txnVars, status, decided, mode, history, envVars>>

(* flush: the log, every dirty frame, and a sync of the data file.         *)
Flush ==
    /\ Healthy
    /\ synced' = Len(log)
    /\ file' = View /\ maybe' = {View} /\ frames' = <<>>
    /\ UNCHANGED <<log, current, slots, poisoned, txnVars, status, decided, mode, history, envVars>>

-----------------------------------------------------------------------------
(* Transactions.                                                           *)

BeginTransaction ==
    /\ Healthy /\ Room /\ nextTxn <= MaxTxn
    /\ Cardinality(Live \ Range(parked)) < MaxOpen
    /\ AppendRecords(<<Entry(nextTxn, "Begin")>>)
    /\ state' = [state EXCEPT ![nextTxn] = "Active"]
    /\ result' = [result EXCEPT ![nextTxn] = <<>>]
    /\ nextTxn' = nextTxn + 1
    /\ UNCHANGED <<synced, current, slots, poisoned, pageVars, undoAt, writer, parked, status,
                   decided, mode, acked, envVars>>

(* acquire_writer; a group whose decision is taken is resolved before the  *)
(* database admits another writer (active_group of netbadb-core).          *)
AcquireWriter(t) ==
    /\ Healthy /\ Room /\ state[t] = "Active" /\ writer \in {Idle, t}
    /\ Cardinality(Wrote(t)) < MaxWrites
    /\ Range(parked) \intersect decided = {}
    /\ writer' = t

(* A change of an existing page: log_page_update, then the dirty frame.    *)
UpdatePage(t, p) ==
    /\ AcquireWriter(t) /\ p \in DOMAIN file
    /\ LET r == PageUpdate(t, p, View[p]) IN
         /\ AppendRecords(<<r>>)
         /\ frames' = With(frames, p, After(Len(log) + 1, r))
         /\ result' = [result EXCEPT ![t] = [View EXCEPT ![p] = After(Len(log) + 1, r)]]
    /\ UNCHANGED <<synced, current, slots, poisoned, file, maybe, state, undoAt, parked, nextTxn,
                   status, decided, mode, acked, envVars>>

(* A new page: the record is durable before the file grows by a zero page. *)
AllocatePage(t) ==
    /\ AcquireWriter(t) /\ Len(file) < MaxPages
    /\ LET p == Len(file) + 1
           r == PageUpdate(t, p, Zero)
           i == After(Len(log) + 1, r) IN
         /\ AppendRecords(<<r>>)
         /\ synced' = Len(log) + 1
         /\ file' = Append(file, Zero)
         /\ maybe' = maybe \union {file'}
         /\ frames' = With(frames, p, i)
         /\ result' = [result EXCEPT ![t] = Append(View, i)]
    /\ UNCHANGED <<current, slots, poisoned, state, undoAt, parked, nextTxn, status, decided,
                   mode, acked, envVars>>

(* The file could not grow after the record was logged: the transaction    *)
(* can only roll back.                                                     *)
AllocatePageFails(t) ==
    /\ AcquireWriter(t) /\ Len(file) < MaxPages
    /\ faults < MaxFaults /\ faults' = faults + 1
    /\ AppendRecords(<<PageUpdate(t, Len(file) + 1, Zero)>>)
    /\ synced' = Len(log) + 1
    /\ state' = [state EXCEPT ![t] = "RollbackRequired"]
    /\ UNCHANGED <<current, slots, poisoned, pageVars, undoAt, parked, nextTxn, status, decided,
                   mode, history, crashes>>

(* commit of a writer that is not prepared.  While a group is parked the   *)
(* database admits only its members, which stage a Prepare instead.  (What *)
(* the commit of a reader does to the deque is in module GroupCommit.)     *)
Commit(t) ==
    /\ Healthy /\ Room /\ state[t] = "Active" /\ writer = t /\ parked = <<>>
    /\ AppendRecords(<<Entry(t, "Commit")>>)
    /\ state' = [state EXCEPT ![t] = "CommitPending"]
    /\ UNCHANGED <<synced, current, slots, poisoned, pageVars, undoAt, writer, parked, nextTxn,
                   status, decided, mode, history, envVars>>

(* finish_commit: the Commit record is durable before the status file says *)
(* so, and that before the writer is released and the caller is told.      *)
FinishCommit(t) ==
    /\ Healthy /\ state[t] = "CommitPending"
    /\ LET l == Last0(Of(t)) IN
         /\ FlushThrough(l)
         /\ acked' = acked \union {After(l, log[l])}
    /\ status' = [status EXCEPT ![t] = "Committed"]
    /\ state' = [state EXCEPT ![t] = "Committed"]
    /\ writer' = IF writer = t THEN Idle ELSE writer
    /\ parked' = IF parked = <<>> THEN parked ELSE Tail(parked)
    /\ UNCHANGED <<log, current, slots, poisoned, pageVars, undoAt, nextTxn, decided, mode, result,
                   envVars>>

(* stage_group_prepare: the writer is handed on before the Prepare is      *)
(* durable.                                                                *)
StageGroupPrepare(t) ==
    /\ Healthy /\ Room /\ state[t] = "Active" /\ writer = t
    /\ AppendRecords(<<Entry(t, "Prepare")>>)
    /\ parked' = Append(parked, t)
    /\ writer' = Idle
    /\ state' = [state EXCEPT ![t] = "ParkedPreparePending"]
    /\ UNCHANGED <<synced, current, slots, poisoned, pageVars, undoAt, nextTxn, status, decided,
                   mode, history, envVars>>

(* The prepare barrier of a group.                                         *)
PrepareBarrier ==
    /\ Healthy /\ \E t \in Txns : state[t] = "ParkedPreparePending"
    /\ synced' = Len(log)
    /\ state' = [t \in Txns |-> IF state[t] = "ParkedPreparePending"
                                  THEN "ParkedPrepared" ELSE state[t]]
    /\ UNCHANGED <<log, current, slots, poisoned, pageVars, undoAt, writer, parked, nextTxn,
                   status, decided, mode, history, envVars>>

(* External: the coordinator decides a whole group once every member is    *)
(* durably prepared.                                                       *)
Decide ==
    /\ Up /\ parked # <<>> /\ writer = Idle
    /\ \A t \in Range(parked) : state[t] = "ParkedPrepared"
    /\ decided' = decided \union Range(parked)
    /\ UNCHANGED <<walVars, pageVars, txnVars, status, mode, history, envVars>>

(* commit_prepared: members are committed from the front.                  *)
CommitPrepared(t) ==
    /\ Healthy /\ state[t] = "ParkedPrepared" /\ t \in decided
    /\ writer = Idle /\ t = Head(parked)
    /\ AppendRecords(<<Entry(t, "Commit")>>)
    /\ writer' = t
    /\ state' = [state EXCEPT ![t] = "CommitPending"]
    /\ UNCHANGED <<synced, current, slots, poisoned, pageVars, undoAt, parked, nextTxn, status,
                   decided, mode, history, envVars>>

-----------------------------------------------------------------------------
(* Rollback: Abort is durable before the first undo, every undo is synced, *)
(* and all of them before RollbackComplete.                                *)

(* Members of a group are rolled back from the back.                       *)
ResolvableAbort(t) == writer = Idle /\ t = Last(parked) /\ t \notin decided

Rollback(t) ==
    /\ Healthy
    /\ \/ state[t] \in {"Active", "RollbackRequired"} /\ writer' = writer
       \/ state[t] \in ParkedStates /\ ResolvableAbort(t) /\ writer' = t
    /\ AppendRecords(<<Entry(t, "Abort")>>)
    /\ undoAt' = [undoAt EXCEPT ![t] = Last0(Of(t))]
    /\ state' = [state EXCEPT ![t] = "RollbackPending"]
    /\ UNCHANGED <<synced, current, slots, poisoned, pageVars, parked, nextTxn, status, decided,
                   mode, history, envVars>>

ToUndo(t) == {l \in Wrote(t) : l <= undoAt[t]}

(* undo_page_update: the before image goes through the frame to the file;  *)
(* a page the transaction added is cut off the end of the file.            *)
UndoPageUpdate(p, b) ==
    IF b # Zero
      THEN /\ p \in DOMAIN file
           /\ file' = [file EXCEPT ![p] = b]
           /\ frames' = Without(frames, p)
           /\ maybe' = {file'}
      ELSE /\ p >= Len(file)
           /\ file' = IF p = Len(file) THEN Front(file) ELSE file
           /\ frames' = Without(frames, p)
           /\ maybe' = IF p > Len(file) + 1 THEN maybe ELSE {file'}

UndoRecord(t) ==
    /\ Healthy /\ state[t] = "RollbackPending" /\ ToUndo(t) # {}
    /\ LET l == Last0(ToUndo(t)) IN
         /\ FlushThrough(Last0(Of(t)))
         /\ UndoPageUpdate(log[l].page, log[l].before)
         /\ undoAt' = [undoAt EXCEPT ![t] = l - 1]
    /\ UNCHANGED <<log, current, slots, poisoned, state, writer, parked, nextTxn, status, decided,
                   mode, history, envVars>>

AppendRollbackComplete(t) ==
    /\ Healthy /\ state[t] = "RollbackPending" /\ ToUndo(t) = {}
    /\ FlushThrough(Last0(Of(t)))
    /\ AppendRecords(<<Entry(t, "RollbackComplete")>>)
    /\ state' = [state EXCEPT ![t] = "RollbackComplete"]
    /\ UNCHANGED <<current, slots, poisoned, pageVars, undoAt, writer, parked, nextTxn, status,
                   decided, mode, history, envVars>>

FinishRollback(t) ==
    /\ Healthy /\ state[t] = "RollbackComplete"
    /\ FlushThrough(Last0(Of(t)))
    /\ status' = [status EXCEPT ![t] = "Aborted"]
    /\ state' = [state EXCEPT ![t] = "RolledBack"]
    /\ writer' = IF writer = t THEN Idle ELSE writer
    /\ parked' = SelectSeq(parked, LAMBDA u : u # t)
    /\ UNCHANGED <<log, current, slots, poisoned, pageVars, undoAt, nextTxn, decided, mode, history,
                   envVars>>

(* Drop of a handle: an unfinished transaction with effects blocks every   *)
(* writer until the heap is reopened.                                      *)
NeedsRecovery(t) ==
    \/ t \in Range(parked)
    \/ writer = t /\ (state[t] # "Active" \/ Wrote(t) # {})

DropTransaction(t) ==
    /\ Up /\ t \in Live
    /\ faults < MaxFaults /\ faults' = faults + 1
    /\ writer' = CASE NeedsRecovery(t) -> Required
                   [] writer = t -> Idle
                   [] OTHER -> writer
    /\ state' = [state EXCEPT ![t] = "Dropped"]
    /\ UNCHANGED <<walVars, pageVars, undoAt, parked, nextTxn, status, decided, mode, history,
                   crashes>>

-----------------------------------------------------------------------------
(* checkpoint: with no transaction open, everything is flushed and synced  *)
(* and the log continues in a new generation file.                         *)

CheckpointSafe == writer = Idle /\ Live = {}

NewHeader ==
    [generation |-> current.generation + 1, base |-> Len(log), nextTxn |-> nextTxn]

(* The part of checkpoint and rotate up to the synced header of the new    *)
(* generation.  An occupied slot is GenerationConflict, after the flush.   *)
Checkpoint ==
    /\ Healthy /\ CheckpointSafe /\ current.generation <= MaxCheckpoints
    /\ slots = {current}
    /\ synced' = Len(log)
    /\ file' = View /\ maybe' = {View} /\ frames' = <<>>
    /\ slots' = slots \union {NewHeader}
    /\ mode' = "rotating"
    /\ UNCHANGED <<log, current, poisoned, txnVars, status, decided, history, envVars>>

(* The rest of rotate: the switch in memory, then the old file goes.       *)
SwitchGeneration ==
    /\ mode = "rotating"
    /\ current' = NewHeader
    /\ slots' = {NewHeader}
    /\ mode' = "up"
    /\ UNCHANGED <<log, synced, poisoned, pageVars, txnVars, status, decided, history, envVars>>

(* Mutant: the log stays in use after a failed rotation.                   *)
RotateFails_StaysHealthy ==
    /\ mode = "rotating" /\ faults < MaxFaults /\ faults' = faults + 1
    /\ current' = current /\ slots' \in {slots, {current}}
    /\ mode' = "up"
    /\ UNCHANGED <<log, synced, poisoned, pageVars, txnVars, status, decided, history, crashes>>

(* An error on the way poisons the log: before the switch the new file may *)
(* or may not be there, after it the old one may be.                       *)
RotateFails ==
    /\ mode = "rotating" /\ faults < MaxFaults /\ faults' = faults + 1
    /\ \/ current' = current /\ slots' \in {slots, {current}}
       \/ current' = NewHeader /\ slots' \in {slots, {NewHeader}}
    /\ poisoned' = TRUE
    /\ mode' = "up"
    /\ UNCHANGED <<log, synced, pageVars, txnVars, status, decided, history, crashes>>

-----------------------------------------------------------------------------
(* Crash and reopen.                                                       *)

Newest(hs) == CHOOSE h \in hs : \A g \in hs : g.generation <= h.generation

(* The process ends, or the power fails: of the unsynced log a prefix is   *)
(* left, of the data file any state since its last sync.  Records in a     *)
(* generation other than the newest are not read again.                    *)
Crash ==
    /\ crashes < MaxCrashes /\ crashes' = crashes + 1
    /\ mode' = "down"
    /\ \E n \in synced..Len(log) :
         log' = SubSeq(log, 1, IF current = Newest(slots) THEN n ELSE Newest(slots).base)
    /\ file' \in maybe
    /\ frames' = <<>>
    /\ state' = [t \in Txns |-> IF state[t] \in {"Committed", "RolledBack"}
                                  THEN state[t] ELSE "none"]
    /\ undoAt' = [t \in Txns |-> 0]
    /\ writer' = Idle /\ parked' = <<>>
    /\ UNCHANGED <<synced, current, slots, poisoned, maybe, nextTxn, status, decided, history,
                   faults>>

(* open_selected: the newest valid generation is taken and synced, then    *)
(* the superseded one is removed.                                          *)
OpenWal ==
    /\ mode = "down"
    /\ current' = Newest(slots) /\ slots' = {Newest(slots)}
    /\ synced' = Len(log) /\ poisoned' = FALSE
    /\ maybe' = {file}
    /\ mode' = "opened"
    /\ UNCHANGED <<log, file, frames, txnVars, status, decided, history, envVars>>

(* Analysis.                                                               *)
Seen == {log[l].txn : l \in Retained}
Winners == {t \in Seen : Has(t, "Commit")}
Undone == {t \in Seen : Has(t, "RollbackComplete")}
Losers == Seen \ (Winners \union Undone)
Unresolved == {t \in Losers : Has(t, "Prepare")}

Ascending(S) == SelectSeq([l \in 1..Len(log) |-> l], LAMBDA l : l \in S)

(* Transactions in the order of their last records.                        *)
ByLastLsn(S) ==
    LET lasts == Ascending({Last0(Of(t)) : t \in S}) IN [i \in DOMAIN lasts |-> log[lasts[i]].txn]

(* apply_prepared_resolutions, with the decisions the coordinator holds.   *)
(* The records are durable before recovery goes on (FlushThrough below).   *)
ApplyPreparedResolutions ==
    /\ mode = "opened"
    /\ \A t \in Unresolved \intersect decided : ~Has(t, "Abort")
    /\ LET commits == ByLastLsn(Unresolved \intersect decided) IN
         AppendRecords([i \in DOMAIN commits |-> Entry(commits[i], "Commit")])
    /\ mode' = "resolved"
    /\ UNCHANGED <<synced, current, slots, poisoned, pageVars, txnVars, status, decided, history,
                   envVars>>

UpdatesOf(S) == {l \in Retained : log[l].kind = "PageUpdate" /\ log[l].txn \in S}

(* The records repeated, oldest first, and the records undone, newest      *)
(* first.                                                                  *)
RedoOrder == Ascending(UpdatesOf(Winners \union Losers))
(* Mutant: before images are put back oldest first.                        *)
UndoOrder_OldestFirst == Ascending(UpdatesOf(Losers))

UndoOrder == Reverse(Ascending(UpdatesOf(Losers)))

(* validate_no_winner_depends_on_loser.                                    *)
NoWinnerDependsOnLoser ==
    \A l \in UpdatesOf(Losers), w \in UpdatesOf(Winners) :
        log[l].page = log[w].page => w < l

(* Mutant: a record for the page after the last counts as a gap.           *)
RedoCount_NoGrowth(n, l) == IF n = -1 \/ log[l].page > n THEN -1 ELSE n

(* validate_page_topology: the page count during redo and undo, -1 once a  *)
(* record would leave a gap or remove a page that is not the last.         *)
RedoCount(n, l) ==
    CASE n = -1 \/ log[l].page > n + 1 -> -1
      [] log[l].page = n + 1 -> n + 1
      [] OTHER -> n

UndoCount(n, l) ==
    CASE n = -1 -> -1
      [] log[l].before # Zero -> n
      [] OTHER -> IF log[l].page = n THEN n - 1 ELSE -1

PageTopology ==
    FoldLeft(UndoCount, FoldLeft(RedoCount, Len(file), RedoOrder), UndoOrder) # -1

(* validate_rolled_back_page_topology: the pages a completed rollback had  *)
(* added are consecutive, and start where the file ends or before.         *)
RolledBackPageTopology ==
    \A t \in Undone :
        /\ Added(t) # {} => \E p \in Added(t) : p <= Len(file) + 1
        /\ \A l \in Wrote(t) : log[l].page <= Len(file) \/ log[l].page \in Added(t)

(* The redo and the undo of one record on the data file.                   *)
Redo(pages, l) ==
    LET r == log[l] IN
    CASE r.page = Len(pages) + 1 -> Append(pages, After(l, r))
      [] pages[r.page] # Zero /\ pages[r.page].lsn >= l -> pages
      [] OTHER -> [pages EXCEPT ![r.page] = After(l, r)]

Undo(pages, l) ==
    LET r == log[l] IN
    CASE r.before # Zero -> [pages EXCEPT ![r.page] = r.before]
      [] r.page = Len(pages) -> Front(pages)
      [] OTHER -> pages

RecoveryAccepts ==
    /\ NoWinnerDependsOnLoser
    /\ PageTopology
    /\ RolledBackPageTopology

(* Every state of the data file on the way through redo and undo.          *)
Passed ==
    LET step(acc, x) ==
            LET pages == IF x[1] = "redo" THEN Redo(acc.pages, x[2]) ELSE Undo(acc.pages, x[2]) IN
            [pages |-> pages, passed |-> acc.passed \union {pages}]
        work == [i \in DOMAIN RedoOrder |-> <<"redo", RedoOrder[i]>>]
                  \o [i \in DOMAIN UndoOrder |-> <<"undo", UndoOrder[i]>>] IN
    FoldLeft(step, [pages |-> file, passed |-> {file}], work)

(* recover_inner from the validation to the last undo.                     *)
RecoverPages ==
    /\ mode = "resolved"
    /\ RecoveryAccepts
    /\ synced' = Len(log)
    /\ file' = Passed.pages
    /\ maybe' = maybe \union Passed.passed
    /\ mode' = "undone"
    /\ UNCHANGED <<log, current, slots, poisoned, frames, txnVars, status, decided, history,
                   envVars>>

(* The rest of recover_inner: with the data file synced, each loser gets   *)
(* its Abort, unless it has one, and its RollbackComplete, oldest first.   *)
(* Nothing is synced before the last of them, so a crash can keep some.    *)
Completion(t) ==
    (IF log[Last0(Of(t))].kind = "Abort" THEN <<>> ELSE <<Entry(t, "Abort")>>)
      \o <<Entry(t, "RollbackComplete")>>

CompletionOrder == ByLastLsn(Losers)

CompleteLosers ==
    /\ mode = "undone"
    /\ maybe' = {file}
    /\ AppendRecords(FlattenSeq([i \in DOMAIN CompletionOrder |-> Completion(CompletionOrder[i])]))
    /\ mode' = "completed"
    /\ UNCHANGED <<synced, current, slots, poisoned, file, frames, txnVars, status, decided, history,
                   envVars>>

(* Mutant: only rollbacks are carried over to the status file.             *)
Reconciled_OnlyRollbacks(t) == IF t \in Undone THEN "Aborted" ELSE status[t]

(* The status file does not contradict the log (record, insert_status).    *)
Reconciled(t) ==
    CASE t \in Winners -> "Committed"
      [] t \in Undone -> "Aborted"
      [] OTHER -> status[t]

StatusAgrees == \A t \in Txns : status[t] \in {"none", Reconciled(t)}

(* The end of open_internal: the status file is brought up to the log, and *)
(* transaction ids continue after the header's and the log's.              *)
OpenHeap ==
    /\ mode = "completed" /\ StatusAgrees
    /\ synced' = Len(log)
    /\ status' = [t \in Txns |-> Reconciled(t)]
    /\ nextTxn' = Last0({current.nextTxn} \union {t + 1 : t \in Seen})
    /\ mode' = "up"
    /\ UNCHANGED <<log, current, slots, poisoned, pageVars, state, undoAt, writer, parked, decided,
                   history, envVars>>

-----------------------------------------------------------------------------
TransactionStep(t) ==
    \/ \E p \in 1..MaxPages : UpdatePage(t, p)
    \/ AllocatePage(t) \/ AllocatePageFails(t)
    \/ Commit(t) \/ FinishCommit(t)
    \/ StageGroupPrepare(t) \/ CommitPrepared(t)
    \/ Rollback(t) \/ UndoRecord(t) \/ AppendRollbackComplete(t) \/ FinishRollback(t)
    \/ DropTransaction(t)

Recovery == OpenWal \/ ApplyPreparedResolutions \/ RecoverPages \/ CompleteLosers \/ OpenHeap

Next ==
    \/ BeginTransaction
    \/ \E t \in Txns : TransactionStep(t)
    \/ PrepareBarrier \/ Decide
    \/ \E p \in 1..MaxPages : FlushFrame(p)
    \/ Flush
    \/ Checkpoint \/ SwitchGeneration \/ RotateFails
    \/ Crash
    \/ Recovery

Spec == Init /\ [][Next]_vars

-----------------------------------------------------------------------------
Images == [lsn : Nat, txn : 0..MaxTxn, era : -1..MaxCrashes]
Headers == [generation : 1..(MaxCheckpoints + 1), base : Nat, nextTxn : 1..(MaxTxn + 1)]

(* Types of the state; the two slots hold at most two generations.         *)
TypeOK ==
    /\ \A l \in DOMAIN log : log[l].txn \in Txns /\ log[l].page \in 0..MaxPages
                               /\ log[l].before \in Images
    /\ synced \in Nat /\ current \in Headers /\ poisoned \in BOOLEAN
    /\ slots \subseteq Headers /\ Cardinality(slots) \in {1, 2}
    /\ \A pages \in maybe \union {file} : Len(pages) \in 1..MaxPages /\ Range(pages) \subseteq Images
    /\ DOMAIN frames \subseteq DOMAIN file
    /\ state \in [Txns -> States] /\ writer \in Txns \union {Idle, Required}
    /\ Range(parked) \subseteq Txns /\ decided \subseteq Txns
    /\ status \in [Txns -> {"none", "Committed", "Aborted"}]

(* The pages as the last committed writer left them.                       *)
CommittedPages ==
    LET commits == {l \in DOMAIN log : log[l].kind = "Commit" /\ result[log[l].txn] # <<>>} IN
    IF commits = {} THEN <<Created>> ELSE result[log[Last0(commits)].txn]

(* Wherever the log has them: the page records and the completion of t.    *)
Updates(t) == {l \in DOMAIN log : log[l].txn = t /\ log[l].kind = "PageUpdate"}
CompletedAt(t) == {l \in DOMAIN log : log[l].txn = t /\ log[l].kind = "RollbackComplete"}

(* u changed a page on top of a change of t that was not yet resolved, as  *)
(* members of a group do, and a crash fell between the completion of t and *)
(* the later one of u.                                                     *)
Parted(t, u) ==
    \E i \in CompletedAt(t), j \in CompletedAt(u), a \in Updates(t), b \in Updates(u) :
        /\ a < b /\ b < i /\ i < j
        /\ log[a].page = log[b].page
        /\ log[i].era < log[j].era

(* Whenever no transaction is open, after a commit, a rollback, a          *)
(* checkpoint or any number of interrupted recoveries, the pages are       *)
(* exactly those of the committed transactions.  The one exception the     *)
(* code has: when a crash keeps the completion of a loser and not that of  *)
(* a younger one on the same page, the next recovery puts back the before  *)
(* image of the younger one, which is the page of the older.               *)
PagesAreCommitted ==
    Up /\ Live = {} /\ writer = Idle /\ (\A t, u \in Txns : ~Parted(t, u)) => View = CommittedPages

(* A commit that was reported is never lost: its Commit record survives    *)
(* every crash, interrupted checkpoint and failed rotation.                *)
ReportedCommitsSurvive ==
    \A a \in acked : a.lsn \in DOMAIN log /\ log[a.lsn].kind = "Commit" /\ After(a.lsn, log[a.lsn]) = a

(* u wrote at or past a page that t had added and not yet committed or     *)
(* given back: both were members of one group.                             *)
BuiltOn(t, u) ==
    \E a \in Updates(t), b \in Updates(u) :
        /\ log[a].before = Zero /\ a < b /\ log[a].page <= log[b].page
        /\ \A l \in a..b : log[l].txn = t => log[l].kind \notin {"Commit", "RollbackComplete"}

(* Startup recovery accepts every log and data file the heap itself left   *)
(* behind: it never meets PreparedCommitAfterAbort or ConflictingStatus,   *)
(* and PageGap, NonTrailingPageRemoval and CommittedUpdateDependsOnLoser   *)
(* only where two members of a rolled back group share the end of the      *)
(* file, one having built on pages the other had added.                    *)
RefusalIsGroupGrowth ==
    /\ mode = "opened" => \A t \in Unresolved \intersect decided : ~Has(t, "Abort")
    /\ mode = "resolved" /\ ~RecoveryAccepts =>
         \E t, u \in Seen \ Winners : t # u /\ {t, u} \intersect Undone # {} /\ BuiltOn(t, u)
    /\ mode = "completed" => StatusAgrees

(* A reader that meets a tuple can always look up who wrote it: the        *)
(* transaction behind every page image is open, or the status file has its *)
(* outcome (otherwise status returns UnknownTransaction).                  *)
WritersAreKnown ==
    Up => \A p \in DOMAIN file :
              LET t == View[p].txn IN t = 0 \/ t \in Live \/ status[t] # "none" \/ writer = Required

(* No page image that a crash could leave behind is ahead of the durable   *)
(* log (the write-ahead rule of flush_frame, through rotation and undo).   *)
WriteAhead ==
    Up => \A pages \in maybe : \A p \in DOMAIN pages :
              LET i == pages[p] IN
              i.lsn > 0 => i.lsn \in 1..synced /\ After(i.lsn, log[i.lsn]) = i
=============================================================================
