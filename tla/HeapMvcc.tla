------------------------------- MODULE HeapMvcc -------------------------------
(***************************************************************************)
(* Row versions, read views and vacuum of one heap storage (netbadb-heap   *)
(* mvcc.rs, txn_status.rs, heap.rs, transaction.rs), read through the      *)
(* snapshots that netbadb-core's transaction.rs opens.                     *)
(*                                                                         *)
(* UPDATE and DELETE expire a version by writing xmax into its header and  *)
(* remove nothing.  A read view names a commit sequence and pins it in the *)
(* status store; vacuum removes the versions that were expired at or below *)
(* the oldest pinned sequence, with their index entries.                   *)
(*                                                                         *)
(*   header[r]    TupleHeader of row version r, live: the versions in the  *)
(*                heap; a RowId is never reused, its slot generation counts*)
(*   entries      versions with an entry in the registered indexes         *)
(*   status[t]    TxnStatusManager: Active, Aborted or Committed(sequence) *)
(*   command[t]   statements begun; command_id is at least 1               *)
(*   failed       transactions in RollbackRequired                         *)
(*   pins         TxnStatusManager.snapshots, with the holder of each pin  *)
(*   views[w]     the open ReadViews                                       *)
(*   writer, undo the writer lease, and the pages as they were when it was *)
(*                taken, which is what physical rollback restores          *)
(*   global       the database publishes global snapshots; published is    *)
(*                the boundary of this storage in the published one, and   *)
(*                applied says that a commit here is not yet part of it    *)
(*   committed[c], pend  (history) the rows that the commits up to c have  *)
(*                left, and the rows the writer has inserted and deleted   *)
(*                with the commands it used                                *)
(*   first[t]     (history) where a Repeatable Read t has read first       *)
(*   restamped    (history) the versions whose committed xmax a later write *)
(*                has overwritten                                          *)
(***************************************************************************)
EXTENDS Naturals, FiniteSets

CONSTANTS
    Rows, ViewIds,
    Loaded,         \* the rows a first transaction has inserted and committed
    Modes,          \* possible values of global
    MaxTxn,         \* identifiers; the last one is left for vacuum
    MaxCommand, MaxSeq,
    MaxOpen         \* transactions open at one time

ASSUME MvccAssumption ==
    /\ Loaded \subseteq Rows
    /\ Modes \subseteq BOOLEAN
    /\ MaxTxn \in Nat \ {0} /\ MaxCommand \in Nat \ {0} /\ MaxSeq \in Nat \ {0}
    /\ MaxOpen \in Nat

VARIABLES header, live, entries, status, level, command, failed, pins, views,
          writer, undo, maxSeq, nextTxn, global, published, applied,
          committed, pend, first, restamped

heapVars == <<header, live, entries>>
txnVars == <<status, level, command, failed, nextTxn>>
snapVars == <<pins, views>>
leaseVars == <<writer, undo>>
dbVars == <<global, published, applied>>
vars == <<heapVars, txnVars, snapVars, leaseVars, maxSeq, dbVars, committed, pend, first,
          restamped>>

Txns == 1..MaxTxn
None == 0                        \* no transaction, no command
Seqs == 0..MaxSeq
Active == [kind |-> "Active", seq |-> 0]
Aborted == [kind |-> "Aborted", seq |-> 0]
Unknown == [kind |-> "Unknown", seq |-> 0]
Committed(c) == [kind |-> "Committed", seq |-> c]
Statuses == [kind : {"Active", "Aborted", "Unknown", "Committed"}, seq : Seqs]
Blank == [xmin |-> None, cmin |-> None, xmax |-> None, cmax |-> None]
Headers == [xmin : 0..MaxTxn, cmin : 0..MaxCommand, xmax : 0..MaxTxn, cmax : 0..MaxCommand]
Closed == [own |-> None, csn |-> 0, cmd |-> 0, open |-> FALSE]
Views == [own : 0..MaxTxn, csn : Seqs, cmd : 0..MaxCommand, open : BOOLEAN]
Holders == ({"view"} \X ViewIds) \union ({"rr", "db"} \X Txns)

CommittedBy(t, c) == status[t].kind = "Committed" /\ status[t].seq <= c

(* is_visible                                                              *)
Inserted(h, v) ==
    IF h.xmin = v.own THEN h.cmin <= v.cmd ELSE CommittedBy(h.xmin, v.csn)
Expired(h, v) ==
    /\ h.xmax # None
    /\ IF h.xmax = v.own THEN h.cmax <= v.cmd ELSE CommittedBy(h.xmax, v.csn)
IsVisible(h, v) == Inserted(h, v) /\ ~Expired(h, v)

(* The rows a view sees: scans and index lookups recheck every candidate.  *)
Seen(v) == {r \in live : IsVisible(header[r], v)}

OpenViews == {w \in ViewIds : views[w].open}

TypeOK ==
    /\ header \in [Rows -> Headers] /\ live \subseteq Rows /\ entries \subseteq Rows
    /\ status \in [Txns -> Statuses] /\ level \in [Txns -> {"RC", "RR"}]
    /\ command \in [Txns -> 0..MaxCommand] /\ failed \subseteq Txns
    /\ first \in [Txns -> Seqs] /\ restamped \subseteq Rows
    /\ pins \subseteq Holders \X Seqs /\ views \in [ViewIds -> Views]
    /\ writer \in {None} \union {t \in Txns : status[t] = Active}
    /\ undo \in [header : [Rows -> Headers], live : SUBSET Rows, entries : SUBSET Rows]
    /\ maxSeq \in Seqs /\ nextTxn \in 1..(MaxTxn + 1)
    /\ global \in BOOLEAN /\ published \in 0..maxSeq /\ applied \in BOOLEAN
    /\ committed \in [0..maxSeq -> SUBSET Rows]
    /\ pend \in [ins : SUBSET (Rows \X (0..MaxCommand)), del : SUBSET (Rows \X (0..MaxCommand))]

NoPend == [ins |-> {}, del |-> {}]

NoUndo == [header |-> [r \in Rows |-> Blank], live |-> {}, entries |-> {}]

(* The heap after the load has been committed and published.               *)
Init ==
    /\ header = [r \in Rows |-> IF r \in Loaded THEN [Blank EXCEPT !.xmin = 1, !.cmin = 1]
                                ELSE Blank]
    /\ live = Loaded /\ entries = Loaded
    /\ status = [t \in Txns |-> IF t = 1 THEN Committed(1) ELSE Unknown]
    /\ level = [t \in Txns |-> "RC"] /\ command = [t \in Txns |-> 0] /\ failed = {}
    /\ pins = {} /\ views = [w \in ViewIds |-> Closed]
    /\ writer = None /\ undo = NoUndo
    /\ maxSeq = 1 /\ nextTxn = 2
    /\ global \in Modes /\ published = 1 /\ applied = FALSE
    /\ committed = [c \in 0..1 |-> IF c = 1 THEN Loaded ELSE {}] /\ pend = NoPend
    /\ first = [t \in Txns |-> 0] /\ restamped = {}

-------------------------------------------------------------------------------
(* Transactions and statements.                                            *)

Begin(l) ==
    /\ nextTxn < MaxTxn
    /\ Cardinality({t \in Txns : status[t] = Active}) < MaxOpen
    /\ status' = [status EXCEPT ![nextTxn] = Active]
    /\ level' = [level EXCEPT ![nextTxn] = l]
    /\ nextTxn' = nextTxn + 1
    /\ UNCHANGED <<heapVars, command, failed, snapVars, leaseVars, maxSeq, dbVars, committed, pend,
                   first, restamped>>

Running(t) == status[t] = Active /\ t \notin failed

PinnedAt(h) == {p[2] : p \in {q \in pins : q[1] = h}}
Pin(h, c) == pins \union {<<h, c>>}

(* Where a statement of t reads: the published boundary, which Repeatable  *)
(* Read pins with its first statement, or, without global snapshots, the   *)
(* newest commit, which Repeatable Read pins likewise.                     *)
PinName == IF global THEN "db" ELSE "rr"
Newest == IF global THEN published ELSE maxSeq
StatementSeq(t) ==
    IF level[t] = "RR" /\ PinnedAt(<<PinName, t>>) # {}
    THEN CHOOSE c \in PinnedAt(<<PinName, t>>) : TRUE
    ELSE Newest

InStatement(t) == \E w \in OpenViews : views[w].own = t

OpenView(w, t, c, k) ==
    views' = [views EXCEPT ![w] = [own |-> t, csn |-> c, cmd |-> k, open |-> TRUE]]

(* Faulty: Repeatable Read does not keep its boundary pinned.              *)
StatementPins_ViewOnly(w, t, c) == Pin(<<"view", w>>, c)

StatementPins(w, t, c) ==
    Pin(<<"view", w>>, c) \union (IF level[t] = "RR" THEN {<<<<PinName, t>>, c>>} ELSE {})

(* begin_read_view, begin_statement_at, begin_statement.  The view lives   *)
(* as long as the statement, and t runs one statement at a time.           *)
BeginStatement(t, w) ==
    LET c == StatementSeq(t) IN
    /\ Running(t) /\ ~views[w].open /\ ~InStatement(t)
    /\ command[t] < MaxCommand
    /\ command' = [command EXCEPT ![t] = @ + 1]
    /\ OpenView(w, t, c, command[t] + 1)
    /\ pins' = StatementPins(w, t, c)
    /\ first' = [first EXCEPT ![t] = IF @ = 0 /\ level[t] = "RR" THEN c ELSE @]
    /\ UNCHANGED <<heapVars, status, level, failed, nextTxn, leaseVars, maxSeq, dbVars,
                   committed, pend, restamped>>

(* A read outside a transaction.                                           *)
ReadView(w) ==
    /\ ~views[w].open
    /\ OpenView(w, None, Newest, 1)
    /\ pins' = Pin(<<"view", w>>, Newest)
    /\ UNCHANGED <<heapVars, txnVars, leaseVars, maxSeq, dbVars, committed, pend, first,
                   restamped>>

Unpin(w) == pins \ {<<<<"view", w>>, views[w].csn>>}

DropView(w) ==
    /\ views[w].open
    /\ views' = [views EXCEPT ![w] = Closed]
    /\ pins' = Unpin(w)
    /\ UNCHANGED <<heapVars, txnVars, leaseVars, maxSeq, dbVars, committed, pend, first,
                   restamped>>

-------------------------------------------------------------------------------
(* Writing.                                                                *)

CommandId(t) == IF command[t] = 0 THEN 1 ELSE command[t]

(* acquire_writer: the lease is taken with the first write.                *)
Acquire(t) ==
    /\ writer \in {None, t}
    /\ writer' = t
    /\ undo' = IF writer = t THEN undo
               ELSE [header |-> header, live |-> live, entries |-> entries]

InsertedBy(t) == [xmin |-> t, cmin |-> CommandId(t), xmax |-> None, cmax |-> None]
Expire(h, t) == [h EXCEPT !.xmax = t, !.cmax = CommandId(t)]

(* A RowId that was never issued.                                          *)
Fresh(r) == header[r] = Blank

Logged(ins, del, t) ==
    pend' = [ins |-> pend.ins \union (ins \X {CommandId(t)}),
             del |-> pend.del \union (del \X {CommandId(t)})]

(* An index insert that fails after the heap page is written leaves the    *)
(* transaction in RollbackRequired.                                        *)
Indexed(t, r, ok) ==
    IF ok THEN entries' = entries \union {r} /\ UNCHANGED failed
    ELSE failed' = failed \union {t} /\ UNCHANGED entries

(* insert_in                                                               *)
Insert(t, r, ok) ==
    /\ Running(t) /\ Fresh(r) /\ Acquire(t)
    /\ header' = [header EXCEPT ![r] = InsertedBy(t)]
    /\ live' = live \union {r} /\ Indexed(t, r, ok)
    /\ Logged({r}, {}, t)
    /\ UNCHANGED <<status, level, command, nextTxn, snapVars, maxSeq, dbVars, committed, first,
                   restamped>>

(* current_read_view: the state a write is checked against is the newest   *)
(* commit, also where statements read at a published boundary.             *)
WriteSeq(t) ==
    IF level[t] = "RR" /\ PinnedAt(<<"rr", t>>) # {}
    THEN CHOOSE c \in PinnedAt(<<"rr", t>>) : TRUE
    ELSE maxSeq
WriteView(t) == [own |-> t, csn |-> WriteSeq(t), cmd |-> CommandId(t), open |-> TRUE]
WritePins(t) == pins \union (IF level[t] = "RR" THEN {<<<<"rr", t>>, WriteSeq(t)>>} ELSE {})

Found(t, r) == \E w \in OpenViews : views[w].own = t /\ r \in Seen(views[w])

(* A row that the running statement of t has found, checked again before   *)
(* it is changed.  Nothing compares its xmax with the commits made since   *)
(* the view of the write: a Repeatable Read transaction may expire a       *)
(* version that somebody else has expired after its snapshot.              *)
Target(t, r) == Found(t, r) /\ IsVisible(header[r], WriteView(t))

Restamped(r) == restamped' = IF header[r].xmax = None THEN restamped ELSE restamped \union {r}

(* update_in                                                               *)
Update(t, r, new, ok) ==
    /\ Running(t) /\ Target(t, r) /\ Fresh(new) /\ Acquire(t)
    /\ header' = [header EXCEPT ![r] = Expire(@, t), ![new] = InsertedBy(t)]
    /\ live' = live \union {new} /\ Indexed(t, new, ok)
    /\ pins' = WritePins(t)
    /\ Logged({new}, {r}, t) /\ Restamped(r)
    /\ UNCHANGED <<status, level, command, nextTxn, views, maxSeq, dbVars, committed, first>>

(* delete_in                                                               *)
Delete(t, r) ==
    /\ Running(t) /\ Target(t, r) /\ Acquire(t)
    /\ header' = [header EXCEPT ![r] = Expire(@, t)]
    /\ UNCHANGED <<live, entries>>
    /\ pins' = WritePins(t)
    /\ Logged({}, {r}, t) /\ Restamped(r)
    /\ UNCHANGED <<txnVars, views, maxSeq, dbVars, committed, first>>

(* RowNotFound or WriterBusy: the view of the write stays pinned.          *)
WriteRefused(t, r) ==
    /\ Running(t) /\ Found(t, r)
    /\ ~IsVisible(header[r], WriteView(t)) \/ writer \notin {None, t}
    /\ pins' = WritePins(t)
    /\ UNCHANGED <<heapVars, txnVars, views, leaseVars, maxSeq, dbVars, committed, pend, first,
                   restamped>>

-------------------------------------------------------------------------------
(* The end of a transaction.                                               *)

Unregistered(t) == {p \in pins : p[1] \notin {<<"rr", t>>, <<"db", t>>}}

(* The handle is gone.                                                     *)
Forget(t) ==
    /\ level' = [level EXCEPT ![t] = "RC"] /\ command' = [command EXCEPT ![t] = 0]
    /\ first' = [first EXCEPT ![t] = 0]

Overlay(rows, k) ==
    (rows \union {x[1] : x \in {y \in pend.ins : y[2] <= k}})
        \ {x[1] : x \in {y \in pend.del : y[2] <= k}}

Extend(rows) == [c \in 0..(maxSeq + 1) |-> IF c <= maxSeq THEN committed[c] ELSE rows]

(* finish_commit: the commit record is durable and the status file has the *)
(* sequence, which is the newest.  Statements have ended.                  *)
Commit(t) ==
    /\ Running(t) /\ ~InStatement(t) /\ maxSeq < MaxSeq
    /\ status' = [status EXCEPT ![t] = Committed(maxSeq + 1)]
    /\ maxSeq' = maxSeq + 1
    /\ pins' = Unregistered(t) /\ Forget(t)
    /\ IF writer = t
       THEN /\ writer' = None /\ undo' = NoUndo /\ applied' = global
            /\ committed' = Extend(Overlay(committed[maxSeq], MaxCommand))
            /\ pend' = NoPend
       ELSE /\ committed' = Extend(committed[maxSeq])
            /\ UNCHANGED <<leaseVars, applied, pend>>
    /\ UNCHANGED <<heapVars, failed, nextTxn, views, global, published, restamped>>

(* publish_committed_boundaries                                            *)
Publish ==
    /\ global /\ applied
    /\ published' = maxSeq /\ applied' = FALSE
    /\ UNCHANGED <<heapVars, txnVars, snapVars, leaseVars, maxSeq, global, committed, pend, first,
                   restamped>>

(* rollback: physical undo of everything the lease covered.                *)
Rollback(t) ==
    /\ status[t] = Active /\ ~InStatement(t)
    /\ status' = [status EXCEPT ![t] = Aborted]
    /\ failed' = failed \ {t}
    /\ pins' = Unregistered(t) /\ Forget(t)
    /\ IF writer = t
       THEN /\ writer' = None /\ undo' = NoUndo /\ pend' = NoPend
            /\ header' = undo.header /\ live' = undo.live /\ entries' = undo.entries
       ELSE UNCHANGED <<leaseVars, pend, heapVars>>
    /\ UNCHANGED <<nextTxn, views, maxSeq, dbVars, committed, restamped>>

-------------------------------------------------------------------------------
(* Vacuum.                                                                 *)

(* Faulty: every commit is below the horizon.                              *)
Horizon_Newest == maxSeq

(* oldest_snapshot, or maximum_commit_seq without pins                     *)
Horizon ==
    IF pins = {} THEN maxSeq
    ELSE CHOOSE c \in {p[2] : p \in pins} : \A p \in pins : c <= p[2]

(* is_dead_before                                                          *)
IsDead(h) ==
    \/ status[h.xmin] = Aborted
    \/ /\ status[h.xmin].kind = "Committed"
       /\ h.xmax # None /\ CommittedBy(h.xmax, Horizon)

Dead == {r \in live : IsDead(header[r])}

(* Faulty: the entries of versions above the horizon go as well.           *)
Swept_Replaced == {r \in entries : header[r].xmax = None}

Swept == entries \ Dead

VacuumReady ==
    /\ Dead # {} /\ nextTxn <= MaxTxn
    /\ nextTxn' = nextTxn + 1

(* vacuum: a transaction of its own, which only removes.                   *)
Vacuum ==
    /\ VacuumReady /\ writer = None /\ maxSeq < MaxSeq
    /\ live' = live \ Dead /\ entries' = Swept
    /\ status' = [status EXCEPT ![nextTxn] = Committed(maxSeq + 1)]
    /\ maxSeq' = maxSeq + 1
    /\ committed' = Extend(committed[maxSeq])
    /\ UNCHANGED <<header, level, command, failed, snapVars, leaseVars, dbVars, pend, first,
                   restamped>>

(* WriterBusy, or an error that rolls the whole vacuum back.               *)
VacuumFails ==
    /\ VacuumReady
    /\ status' = [status EXCEPT ![nextTxn] = Aborted]
    /\ UNCHANGED <<heapVars, level, command, failed, snapVars, leaseVars, maxSeq, dbVars,
                   committed, pend, first, restamped>>

-------------------------------------------------------------------------------
Next ==
    \/ \E l \in {"RC", "RR"} : Begin(l)
    \/ \E t \in Txns, w \in ViewIds : BeginStatement(t, w)
    \/ \E w \in ViewIds : ReadView(w) \/ DropView(w)
    \/ \E t \in Txns, r \in Rows, ok \in BOOLEAN : Insert(t, r, ok)
    \/ \E t \in Txns, r, new \in Rows, ok \in BOOLEAN : Update(t, r, new, ok)
    \/ \E t \in Txns, r \in Rows : Delete(t, r) \/ WriteRefused(t, r)
    \/ \E t \in Txns : Commit(t) \/ Rollback(t)
    \/ Publish
    \/ Vacuum \/ VacuumFails

Spec == Init /\ [][Next]_vars

-------------------------------------------------------------------------------
(* PROPERTIES *)

(* What the view w should show.                                            *)
Expected(w) ==
    IF views[w].own = writer /\ writer # None
    THEN Overlay(committed[views[w].csn], views[w].cmd)
    ELSE committed[views[w].csn]

(* Vacuum removed r although it was expired after c: with published        *)
(* snapshots the horizon runs ahead of the boundary that is about to be    *)
(* read, which nothing has pinned yet.                                     *)
Overtaken(r, c) ==
    /\ global /\ r \notin live
    /\ header[r].xmax # None /\ ~CommittedBy(header[r].xmax, c)

(* Snapshot isolation of reads: for as long as a view is open it shows     *)
(* exactly the rows that the commits up to its sequence have left, with    *)
(* the changes its own transaction made up to this command; whatever       *)
(* commits, rolls back or is vacuumed in the meantime.  Two kinds of row   *)
(* are left out, because the code does not keep them right: the versions   *)
(* a second writer has expired again, and those vacuum had already removed *)
(* when a published boundary below them was opened.                        *)
ViewExact ==
    \A w \in OpenViews : \A r \in Rows \ restamped :
        ~Overtaken(r, views[w].csn) => (r \in Seen(views[w]) <=> r \in Expected(w))

(* Vacuum takes no row from a reader: what an open view sees stays in the  *)
(* heap, with its index entry, through every step but the rollback of the  *)
(* transaction that inserted it.                                           *)
SeenStays ==
    [][\A w \in OpenViews : \A r \in Seen(views[w]) :
         status'[header[r].xmin] # Aborted => r \in live' /\ (r \in entries => r \in entries')]_vars

(* Index lookups find what scans find: every row an open view sees has its *)
(* entry, except in a transaction that can only roll back, and no entry    *)
(* is left of a version that was removed.                                  *)
IndexCoversViews ==
    /\ \A w \in OpenViews : views[w].own \notin failed => Seen(views[w]) \subseteq entries
    /\ entries \subseteq live

(* All statements of a Repeatable Read transaction read where its first    *)
(* one did, whatever has been committed, published and vacuumed between    *)
(* them.                                                                   *)
RepeatableSnapshot ==
    \A w \in OpenViews :
        views[w].own # None /\ level[views[w].own] = "RR" => views[w].csn = first[views[w].own]
===============================================================================
