----------------------------- MODULE ChangeStream -----------------------------
(***************************************************************************)
(* The change log of one heap table (netbadb-change-stream, NBCL) beside   *)
(* the transactions that feed it, over crashes that lose unsynced writes.  *)
(*                                                                         *)
(* A committing transaction first makes a Prepared record of its changes   *)
(* durable in the log, then its Commit record in the WAL, and then appends *)
(* a Finalize marker to the log and promotes the batch in memory.  Members *)
(* of a commit group stage their records, share one sync and are promoted  *)
(* together.  Opening the log decides every record by the outcome of its   *)
(* physical transaction.                                                   *)
(*                                                                         *)
(*   tx[i]        the transaction of physical TxnId i                      *)
(*   body[i]      what it changes (0: no transaction of that id yet)       *)
(*   dtx[i]       its DatabaseTxnId when it is a group member, else 0      *)
(*   walDurable   highest TxnId whose Begin is durable in the WAL          *)
(*   parked       the group members in prepare order                       *)
(*   data         bodies of the committed transactions, in commit order    *)
(*   file, synced the log behind the handle, and its durable length        *)
(*   other        the log that a rewrite in progress is putting in place   *)
(*   named        the logs that failed rewrites may have left in place of  *)
(*                file: the process goes on with a file that the directory *)
(*                may no longer name                                       *)
(*   guard        the generation in the guard file (0: no guard)           *)
(*   st, gen, hdr, batches, unresolved, durable, pending, nextSeq          *)
(*                State and its fields; durable: prepared_durable,         *)
(*                pending: pending_finalize_checkpoints                    *)
(*   pin          the retention pin a reader holds                         *)
(*   call         the operation that has not returned                      *)
(*   applied      the transactions it has committed                        *)
(*   origins      history: Len(data) when a generation was issued          *)
(*   told         history: the bodies the generation has published         *)
(*   stray        history: the records of transactions whose Begin a crash *)
(*                lost; the next transaction gets the same TxnId           *)
(*   lost         history: the bodies recorded only in a file that a crash *)
(*                proved the directory not to name                         *)
(***************************************************************************)
EXTENDS Naturals, Sequences, FiniteSets, FiniteSetsExt, SequencesExt

CONSTANTS
    MaxTxns,        \* bound on transactions begun
    MaxGen,         \* bound on stream generations
    MaxTroubles     \* bound on failing writes, syncs and renames and on
                    \* process deaths, together

ASSUME BoundsAssumption ==
    {MaxTxns, MaxGen, MaxTroubles} \subseteq Nat

VARIABLES tx, body, dtx, nextTxn, begun, walDurable, parked, data,
          file, synced, other, named, guard,
          st, gen, hdr, batches, unresolved, durable, pending, nextSeq,
          pin, call, applied, mode, faults, crashes, origins, told, stray, lost

txnVars == <<tx, body, dtx, nextTxn, begun, walDurable, parked, data>>
diskVars == <<file, synced, other, named, guard>>
memVars == <<st, gen, hdr, batches, unresolved, durable, pending, nextSeq>>
envVars == <<mode, faults, crashes>>
callVars == <<call, applied>>
ghostVars == <<origins, told, stray, lost>>
vars == <<txnVars, diskVars, memVars, pin, callVars, envVars, ghostVars>>

Ids == 1..MaxTxns
NoFile == [active |-> FALSE, gen |-> 0, earliest |-> 0, current |-> 0,
           next |-> 1, recs |-> <<>>]
NoPin == [gen |-> 0, frontier |-> 0]

Prep(i, s, f) == [k |-> "prep", txn |-> i, dtx |-> dtx[i], seq |-> s, after |-> f,
                  body |-> body[i]]
Fin(i) == [k |-> "fin", txn |-> i]

Records == [k : {"prep"}, txn : Ids, dtx : 0..MaxTxns, seq : 1..MaxTxns,
            after : 1..MaxTxns, body : 1..MaxTxns]
Images == [active : BOOLEAN, gen : 0..MaxGen, earliest : 0..MaxTxns,
           current : 0..MaxTxns, next : 1..(MaxTxns + 1),
           recs : Seq(Records \union [k : {"fin"}, txn : Ids])]

TypeOK ==
    /\ tx \in [Ids -> {"none", "reading", "writing", "staged", "prepared",
                       "committed", "aborted"}]
    /\ body \in [Ids -> 0..MaxTxns] /\ dtx \in [Ids -> 0..MaxTxns]
    /\ nextTxn \in 1..(MaxTxns + 1) /\ begun \in 0..MaxTxns
    /\ walDurable \in 0..MaxTxns
    /\ parked \in Seq(Ids) /\ data \in Seq(1..MaxTxns)
    /\ file \in Images /\ synced \in 0..Len(file.recs)
    /\ other \in Images /\ guard \in 0..MaxGen
    /\ st \in {"Disabled", "Enabled", "Unavailable"} /\ gen \in 0..MaxGen
    /\ hdr \in [earliest : 0..MaxTxns, current : 0..MaxTxns]
    /\ batches \in Seq(Records) /\ unresolved \subseteq Records
    /\ durable \subseteq Ids /\ pending \subseteq 1..MaxTxns
    /\ nextSeq \in 1..(MaxTxns + 1)
    /\ pin \in [gen : 0..MaxGen, frontier : 0..MaxTxns]
    /\ call \in {"none", "apply", "abort", "enable", "disable", "gc"}
    /\ mode \in {"up", "down"}
    /\ faults \in Nat /\ crashes \in Nat /\ faults + crashes <= MaxTroubles
    /\ DOMAIN origins \subseteq 1..MaxGen
    /\ \A g \in DOMAIN origins : origins[g] \in 0..MaxTxns
    /\ named \subseteq Images /\ applied \subseteq Ids
    /\ told \in Seq(1..MaxTxns) /\ stray \subseteq Records /\ lost \subseteq 1..MaxTxns

Init ==
    /\ tx = [i \in Ids |-> "none"]
    /\ body = [i \in Ids |-> 0] /\ dtx = [i \in Ids |-> 0]
    /\ nextTxn = 1 /\ begun = 0 /\ walDurable = 0
    /\ parked = <<>> /\ data = <<>>
    /\ file = NoFile /\ synced = 0 /\ other = NoFile /\ named = {} /\ guard = 0
    /\ st = "Disabled" /\ gen = 0 /\ hdr = [earliest |-> 0, current |-> 0]
    /\ batches = <<>> /\ unresolved = {} /\ durable = {} /\ pending = {}
    /\ nextSeq = 1
    /\ pin = NoPin /\ call = "none" /\ applied = {}
    /\ mode = "up" /\ faults = 0 /\ crashes = 0
    /\ origins = <<>> /\ told = <<>> /\ stray = {} /\ lost = {}

Fault == faults + crashes < MaxTroubles /\ faults' = faults + 1
Ready == mode = "up" /\ call = "none"

(* ensure_checkpoint_safe: no writer and no outstanding transaction.       *)
Quiescent ==
    /\ Ready
    /\ \A i \in Ids : tx[i] \in {"none", "committed", "aborted"}

(* effective_current                                                       *)
Current(h, b) == IF b = <<>> THEN h.current ELSE Last(b).after

ChainTail == CHOOSE r \in unresolved : \A q \in unresolved : q.seq <= r.seq
RecordOf(i) == CHOOSE r \in unresolved : r.txn = i
Staged(i) == \E r \in unresolved : r.txn = i

NewRecord_FromFrontier(i) == Prep(i, nextSeq, 1 + Current(hdr, batches))

(* The record stage_prepare_enabled appends: it continues the chain of     *)
(* reservations, or the committed frontier when there is none.             *)
NewRecord(i) ==
    Prep(i, nextSeq,
         1 + IF unresolved # {} THEN ChainTail.after ELSE Current(hdr, batches))

(* sync_log also checkpoints every Finalize marker written before it.      *)
SyncLog == synced' = Len(file'.recs) /\ pending' = {}

(* poison_after_io_error                                                   *)
Poison ==
    /\ st' = "Unavailable"
    /\ batches' = <<>> /\ unresolved' = {} /\ durable' = {} /\ pending' = {}
    /\ UNCHANGED <<gen, hdr, nextSeq>>

-------------------------------------------------------------------------------
(* Transactions.                                                           *)

NoOther == \A i \in Ids : tx[i] \notin {"reading", "writing"}

(* begin: the id is one more than the highest the WAL knows, its Begin     *)
(* record is appended and not synced.  After a crash that lost a Begin the *)
(* id is given out again; the log may still hold the first owner's record. *)
Begin(phase, d) ==
    /\ Ready /\ NoOther /\ \A i \in Ids : tx[i] # "prepared"
    /\ begun < MaxTxns /\ nextTxn \in Ids
    /\ tx' = [tx EXCEPT ![nextTxn] = phase]
    /\ body' = [body EXCEPT ![nextTxn] = begun + 1]
    /\ dtx' = [dtx EXCEPT ![nextTxn] = d]
    /\ begun' = begun + 1 /\ nextTxn' = nextTxn + 1
    /\ UNCHANGED <<walDurable, parked, data, diskVars, memVars, pin, callVars, envVars,
                   ghostVars>>

(* A read-only context: its commit writes no change record.                *)
BeginReader == parked = <<>> /\ Begin("reading", 0)

(* ensure_mutation_available                                               *)
BeginWriter == st # "Unavailable" /\ parked = <<>> /\ Begin("writing", 0)

BeginMember == st # "Unavailable" /\ Begin("writing", begun + 1)

EndReader(i) ==
    /\ Ready /\ tx[i] = "reading"
    /\ tx' = [tx EXCEPT ![i] = "committed"]
    /\ walDurable' = nextTxn - 1
    /\ UNCHANGED <<body, dtx, nextTxn, begun, parked, data, diskVars, memVars, pin,
                   callVars, envVars, ghostVars>>

(* stage_prepare_enabled on an enabled log: a transaction already staged   *)
(* keeps its record.                                                       *)
Stage(i) ==
    IF Staged(i) THEN UNCHANGED <<file, unresolved, nextSeq>>
    ELSE /\ file' = [file EXCEPT !.recs = Append(@, NewRecord(i))]
         /\ unresolved' = unresolved \union {NewRecord(i)}
         /\ nextSeq' = nextSeq + 1

(* durabilize_prepared_batch refuses a record of another DatabaseTxnId.    *)
Identified(i) == Staged(i) => RecordOf(i).dtx = dtx[i]

(* commit() of a single writer up to the WAL: prepare stages and syncs.    *)
PrepareOk(i) ==
    /\ Ready /\ tx[i] = "writing" /\ dtx[i] = 0 /\ st # "Unavailable"
    /\ tx' = [tx EXCEPT ![i] = "prepared"]
    /\ IF st = "Disabled" THEN UNCHANGED <<file, synced, unresolved, durable, pending, nextSeq>>
       ELSE /\ Identified(i)
            /\ Stage(i)
            /\ durable' = durable \union {i}
            /\ IF i \in durable THEN UNCHANGED <<synced, pending>> ELSE SyncLog
    /\ UNCHANGED <<body, dtx, nextTxn, begun, walDurable, parked, data, other, named, guard,
                   st, gen, hdr, batches, pin, callVars, envVars, ghostVars>>

(* The append or the sync fails: the log is given up, the record may be in *)
(* the file.  The writer is left to roll back.                             *)
PrepareFails(i) ==
    /\ Ready /\ tx[i] = "writing" /\ st = "Enabled" /\ Fault
    /\ file' \in {file} \union
                 IF Staged(i) THEN {} ELSE {[file EXCEPT !.recs = Append(@, NewRecord(i))]}
    /\ Poison
    /\ UNCHANGED <<txnVars, synced, other, named, guard, pin, callVars, mode, crashes, ghostVars>>

(* stage_group_prepare: the record is appended, the member parked and the  *)
(* writer lease released.                                                  *)
StageMember(i) ==
    /\ Ready /\ tx[i] = "writing" /\ dtx[i] # 0 /\ st # "Unavailable"
    /\ tx' = [tx EXCEPT ![i] = "staged"]
    /\ parked' = Append(parked, i)
    /\ IF st = "Disabled" THEN UNCHANGED <<file, unresolved, nextSeq>> ELSE Stage(i)
    /\ UNCHANGED <<body, dtx, nextTxn, begun, walDurable, data, synced, other, named, guard,
                   st, gen, hdr, batches, durable, pending, pin, callVars, envVars,
                   ghostVars>>

(* durabilize_group_prepared_batch: the members are exactly the oldest     *)
(* reservations, in order.                                                 *)
ExactPrefix ==
    LET order == SetToSortSeq(unresolved, LAMBDA p, q : p.seq < q.seq)
    IN  /\ Len(order) >= Len(parked)
        /\ \A n \in DOMAIN parked : /\ order[n].txn = parked[n]
                                    /\ order[n].dtx = dtx[parked[n]]

MembersParked ==
    /\ Ready /\ parked # <<>> /\ NoOther
    /\ \A n \in DOMAIN parked : tx[parked[n]] = "staged"

DurabilizeMembers ==
    /\ MembersParked
    /\ st = "Enabled" /\ ExactPrefix
    /\ ~(ToSet(parked) \subseteq durable)
    /\ durable' = durable \union ToSet(parked)
    /\ UNCHANGED file /\ SyncLog
    /\ UNCHANGED <<txnVars, other, named, guard, st, gen, hdr, batches, unresolved, nextSeq,
                   pin, callVars, envVars, ghostVars>>

(* durabilize_group_prepare_batch: the Prepare records of the WAL, after   *)
(* those of the log.                                                       *)
PrepareMembers ==
    /\ MembersParked
    /\ st = "Enabled" => ToSet(parked) \subseteq durable
    /\ st # "Unavailable"
    /\ tx' = [i \in Ids |-> IF i \in ToSet(parked) THEN "prepared" ELSE tx[i]]
    /\ walDurable' = nextTxn - 1
    /\ UNCHANGED <<body, dtx, nextTxn, begun, parked, data, diskVars, memVars, pin,
                   callVars, envVars, ghostVars>>

(* A sync of the log outside any transaction's prepare: the group's, or    *)
(* checkpoint_pending_finalizes.                                           *)
CheckpointFinalizes ==
    /\ Ready /\ st = "Enabled" /\ pending # {}
    /\ UNCHANGED file /\ SyncLog
    /\ UNCHANGED <<txnVars, other, named, guard, st, gen, hdr, batches, unresolved, durable,
                   nextSeq, pin, callVars, envVars, ghostVars>>

SyncFails ==
    /\ Ready /\ st = "Enabled" /\ Fault
    /\ \/ pending # {}
       \/ MembersParked /\ ~(ToSet(parked) \subseteq durable)
    /\ Poison
    /\ UNCHANGED <<txnVars, diskVars, pin, callVars, mode, crashes, ghostVars>>

(* The next transaction the decision commits: a single writer, or the      *)
(* front of the parked queue.                                              *)
NextToCommit(i) ==
    /\ tx[i] = "prepared"
    /\ parked # <<>> => Head(parked) = i
    /\ \A j \in Ids : tx[j] # "staged"

(* finish_commit: the Commit record is synced and the status recorded.     *)
CommitTxn(i) ==
    /\ NextToCommit(i)
    /\ tx' = [tx EXCEPT ![i] = "committed"]
    /\ data' = Append(data, body[i])
    /\ walDurable' = nextTxn - 1
    /\ parked' = IF parked = <<>> THEN parked ELSE Tail(parked)
    /\ call' = "apply" /\ applied' = applied \union {i}
    /\ UNCHANGED <<body, dtx, nextTxn, begun>>

Commit(i) ==
    /\ mode = "up" /\ call \in {"none", "apply"}
    /\ CommitTxn(i)
    /\ UNCHANGED <<diskVars, memVars, pin, envVars, ghostVars>>

(* The batches a finishing commit publishes, in change order.              *)
Candidates ==
    SetToSortSeq({r \in unresolved : r.txn \in applied},
                 LAMBDA p, q : p.seq < q.seq)

AtFinalize == mode = "up" /\ call = "apply" /\ \A i \in Ids : tx[i] # "prepared"

Publishable ==
    /\ st = "Enabled" /\ Candidates # <<>>
    /\ Candidates[1].after = Current(hdr, batches) + 1
    /\ \A n \in 2..Len(Candidates) : Candidates[n].after = Candidates[n - 1].after + 1
    /\ \A n \in DOMAIN Candidates : Candidates[n].txn \in durable

Markers(c) == [n \in DOMAIN c |-> Fin(c[n].txn)]
BodiesOf(c) == [n \in DOMAIN c |-> c[n].body]
Returned == call' = "none" /\ applied' = {}

(* finalize_batch: markers, a sync unless the group is pipelined, and the  *)
(* promotion of the batches.                                               *)
Finalize(immediate) ==
    /\ AtFinalize /\ Publishable
    /\ immediate \/ \A n \in DOMAIN Candidates : Candidates[n].dtx # 0
    /\ file' = [file EXCEPT !.recs = @ \o Markers(Candidates)]
    /\ batches' = batches \o Candidates
    /\ unresolved' = unresolved \ ToSet(Candidates)
    /\ IF immediate THEN SyncLog
       ELSE /\ pending' = pending \union {Candidates[n].seq : n \in DOMAIN Candidates}
            /\ UNCHANGED synced
    /\ durable' = durable \ {Candidates[n].txn : n \in DOMAIN Candidates}
    /\ told' = told \o BodiesOf(Candidates)
    /\ Returned
    /\ UNCHANGED <<txnVars, other, named, guard, st, gen, hdr, nextSeq, pin, envVars,
                   origins, stray, lost>>

FinalizeFails ==
    /\ AtFinalize /\ Publishable /\ Fault
    /\ \E n \in 0..Len(Candidates) :
          file' = [file EXCEPT !.recs = @ \o SubSeq(Markers(Candidates), 1, n)]
    /\ Poison
    /\ Returned
    /\ UNCHANGED <<txnVars, synced, other, named, guard, pin, mode, crashes, ghostVars>>

(* Nothing was prepared, the log is unavailable, or the chain does not     *)
(* continue the committed frontier: the commit stands, nothing is          *)
(* published.                                                              *)
FinalizeSkips ==
    /\ AtFinalize /\ ~Publishable
    /\ Returned
    /\ UNCHANGED <<txnVars, diskVars, memVars, pin, envVars, ghostVars>>

(* rollback: the Abort is durable, then abandon() drops the reservation,   *)
(* which it only does for the tail of the chain.  The record stays in the  *)
(* file.                                                                   *)
Rollback(i) ==
    /\ Ready
    /\ \/ tx[i] \in {"writing", "reading"}
       \/ /\ tx[i] \in {"staged", "prepared"} /\ NoOther
          /\ parked # <<>> => Last(parked) = i
    /\ tx' = [tx EXCEPT ![i] = "aborted"]
    /\ walDurable' = nextTxn - 1
    /\ parked' = IF i \in ToSet(parked) THEN Front(parked) ELSE parked
    /\ IF st = "Enabled" /\ Staged(i) /\ ChainTail.txn = i
         THEN unresolved' = unresolved \ {RecordOf(i)} /\ durable' = durable \ {i}
         ELSE UNCHANGED <<unresolved, durable>>
    /\ UNCHANGED <<body, dtx, nextTxn, begun, data, diskVars, st, gen, hdr, batches,
                   pending, nextSeq, pin, callVars, envVars, ghostVars>>

-------------------------------------------------------------------------------
(* enable, disable and gc_through: each renames a rewritten file over the  *)
(* log, syncs the directory, and then updates the guard.                   *)

EmptyLog(active, g) ==
    [active |-> active, gen |-> g, earliest |-> 0, current |-> 0, next |-> 1,
     recs |-> <<>>]

Retained_KeepsEarliest(f) ==
    LET kept == SelectSeq(batches, LAMBDA b : b.after > f)
    IN  [active |-> TRUE, gen |-> gen, earliest |-> hdr.earliest,
         current |-> Current(hdr, batches), next |-> nextSeq,
         recs |-> FlattenSeq([n \in DOMAIN kept |-> <<kept[n], Fin(kept[n].txn)>>])]

(* rewrite_retained: header and batches above f, each with its marker.     *)
Retained(f) ==
    LET kept == SelectSeq(batches, LAMBDA b : b.after > f)
    IN  [active |-> TRUE, gen |-> gen, earliest |-> f,
         current |-> Current(hdr, batches), next |-> nextSeq,
         recs |-> FlattenSeq([n \in DOMAIN kept |-> <<kept[n], Fin(kept[n].txn)>>])]

StartRewrite(op, image) ==
    /\ other' = image /\ call' = op
    /\ UNCHANGED <<txnVars, file, synced, named, guard, memVars, pin, applied, envVars,
                   ghostVars>>

EnableRewrite ==
    /\ Quiescent /\ st # "Enabled" /\ gen < MaxGen
    /\ StartRewrite("enable", EmptyLog(TRUE, gen + 1))

DisableRewrite_ForgetsGeneration ==
    /\ Quiescent /\ st # "Disabled"
    /\ StartRewrite("disable", EmptyLog(FALSE, 0))

DisableRewrite ==
    /\ Quiescent /\ st # "Disabled"
    /\ StartRewrite("disable", EmptyLog(FALSE, gen))

(* gc_through refuses unresolved and unsynced records, pinned history and  *)
(* a frontier outside the retained range.                                  *)
Reclaimable(f) ==
    /\ st = "Enabled" /\ unresolved = {} /\ pending = {}
    /\ pin.gen = gen => f <= pin.frontier
    /\ f > hdr.earliest /\ f <= Current(hdr, batches)

GcRewrite(f) ==
    /\ Quiescent /\ Reclaimable(f)
    /\ StartRewrite("gc", Retained(f))

Replaced ==
    /\ file' = other /\ synced' = Len(other.recs) /\ other' = NoFile /\ named' = {}
    /\ Returned

EnableDone ==
    /\ mode = "up" /\ call = "enable"
    /\ Replaced
    /\ guard' = other.gen
    /\ st' = "Enabled" /\ gen' = other.gen /\ hdr' = [earliest |-> 0, current |-> 0]
    /\ batches' = <<>> /\ unresolved' = {} /\ durable' = {} /\ pending' = {}
    /\ nextSeq' = 1
    /\ origins' = [g \in DOMAIN origins \union {gen'} |->
                     IF g = gen' THEN Len(data) ELSE origins[g]]
    /\ told' = <<>> /\ stray' = {}
    /\ UNCHANGED <<txnVars, pin, envVars, lost>>

(* The guard is removed last; a failure to remove it is only reported.     *)
DisableDone ==
    /\ mode = "up" /\ call = "disable"
    /\ Replaced
    /\ \/ guard' = 0 /\ UNCHANGED faults
       \/ UNCHANGED guard /\ Fault
    /\ st' = "Disabled" /\ hdr' = [earliest |-> 0, current |-> 0]
    /\ batches' = <<>> /\ unresolved' = {} /\ durable' = {} /\ pending' = {}
    /\ nextSeq' = 1
    /\ stray' = {}
    /\ UNCHANGED <<txnVars, gen, pin, mode, crashes, origins, told, lost>>

GcDone ==
    /\ mode = "up" /\ call = "gc"
    /\ Replaced
    /\ guard' = gen
    /\ hdr' = [earliest |-> other.earliest, current |-> other.current]
    /\ batches' = SelectSeq(batches, LAMBDA b : b.after > other.earliest)
    /\ UNCHANGED <<txnVars, st, gen, unresolved, durable, pending, nextSeq, pin,
                   envVars, ghostVars>>

(* The rewrite fails before the rename (the old file stays), or at the     *)
(* directory sync, the reopening or the guard, with the new file already   *)
(* named.  enable() gives the log up.  disable() and gc_through() return   *)
(* the error with the log still enabled on the old file, to which every    *)
(* later record goes, whether the directory names it or not.               *)
RewriteFails ==
    /\ mode = "up" /\ call \in {"enable", "disable", "gc"} /\ Fault
    /\ other' = NoFile /\ Returned
    /\ named' \in {named, named \union {other}}
    /\ guard' \in {guard} \union IF named' # named /\ call # "disable"
                                 THEN {other.gen} ELSE {}
    /\ IF call = "enable" THEN st' = "Unavailable" /\ gen' = other.gen
       ELSE UNCHANGED <<st, gen>>
    /\ UNCHANGED <<txnVars, file, synced, hdr, batches, unresolved, durable, pending,
                   nextSeq, pin, mode, crashes, ghostVars>>

-------------------------------------------------------------------------------
(* Retention pins.                                                         *)

InRange(f) == f >= hdr.earliest /\ f <= Current(hdr, batches)

AcquirePin(f) ==
    /\ Ready /\ st = "Enabled" /\ pin = NoPin /\ InRange(f)
    /\ pin' = [gen |-> gen, frontier |-> f]
    /\ UNCHANGED <<txnVars, diskVars, memVars, callVars, envVars, ghostVars>>

AdvancePin(f) ==
    /\ Ready /\ st = "Enabled" /\ pin.gen = gen
    /\ f > pin.frontier /\ InRange(f)
    /\ pin' = [pin EXCEPT !.frontier = f]
    /\ UNCHANGED <<txnVars, diskVars, memVars, callVars, envVars, ghostVars>>

ReleasePin ==
    /\ Ready /\ pin # NoPin
    /\ pin' = NoPin
    /\ UNCHANGED <<txnVars, diskVars, memVars, callVars, envVars, ghostVars>>

-------------------------------------------------------------------------------
(* Losing the process, and opening the table again.                        *)

Prepared(f) == {r \in ToSet(f.recs) : r.k = "prep"}

(* Unsynced writes survive as a prefix of each file, unsynced renames      *)
(* either way.  Transactions whose Begin is gone never existed; one that   *)
(* had not prepared is undone; a prepared one waits for the decision.      *)
Crash ==
    /\ mode = "up" /\ faults + crashes < MaxTroubles
    /\ crashes' = crashes + 1 /\ mode' = "down"
    /\ \/ /\ \E n \in synced..Len(file.recs) :
               /\ file' = [file EXCEPT !.recs = SubSeq(@, 1, n)]
               /\ synced' = n
               /\ UNCHANGED <<told, lost>>
       \/ \E image \in (named \union {other}) \ {NoFile} :
               /\ file' = image /\ synced' = Len(image.recs)
               /\ IF image.active /\ image.gen \in DOMAIN origins
                    THEN /\ told' = SubSeq(told, 1, image.current)
                         /\ lost' = lost \union {r.body : r \in {q \in Prepared(file) : q.seq >= image.next}}
                    ELSE UNCHANGED <<told, lost>>
    /\ other' = NoFile /\ named' = {}
    /\ \E kept \in walDurable..(nextTxn - 1) :
          /\ nextTxn' = kept + 1 /\ walDurable' = kept
          /\ tx' = [i \in Ids |->
                      IF i > kept THEN "none"
                      ELSE IF tx[i] \in {"reading", "writing", "staged"} THEN "aborted" ELSE tx[i]]
          /\ body' = [i \in Ids |-> IF i > kept THEN 0 ELSE body[i]]
          /\ dtx' = [i \in Ids |-> IF i > kept THEN 0 ELSE dtx[i]]
          /\ parked' = SelectSeq(parked, LAMBDA i : tx'[i] = "prepared")
          /\ stray' = stray \union {r \in Prepared(file') : r.txn > kept}
    /\ pin' = NoPin
    /\ UNCHANGED <<begun, data, guard, memVars, callVars, faults, origins>>

(* Recovery applies the coordinator's decision, or finds the single        *)
(* writer's Commit record; a group is decided as a whole.                  *)
ResolveCommit(i) ==
    /\ mode = "down" /\ call # "abort"
    /\ CommitTxn(i)
    /\ UNCHANGED <<diskVars, memVars, pin, envVars, ghostVars>>

ResolveAbort(i) ==
    /\ mode = "down" /\ call # "apply"
    /\ NextToCommit(i)
    /\ tx' = [tx EXCEPT ![i] = "aborted"]
    /\ parked' = IF parked = <<>> THEN parked ELSE Tail(parked)
    /\ walDurable' = nextTxn - 1
    /\ call' = "abort"
    /\ UNCHANGED <<body, dtx, nextTxn, begun, data, diskVars, memVars, pin, applied,
                   envVars, ghostVars>>

Loaded == SelectSeq(file.recs, LAMBDA r : r.k = "prep")
Finalized(i) == \E n \in DOMAIN file.recs : file.recs[n] = Fin(i)

(* load_file and the outcome callback: a marker, else the transaction.     *)
Outcome(i) ==
    IF Finalized(i) THEN "committed"
    ELSE IF tx[i] \in {"committed", "aborted"} THEN tx[i] ELSE "unresolved"

Recovered ==
    SetToSortSeq({r \in ToSet(Loaded) : Outcome(r.txn) = "committed"},
                 LAMBDA p, q : p.seq < q.seq)

(* validate_committed_chain and the header checks of build_enabled_state.  *)
ChainValid ==
    /\ \A m, n \in DOMAIN Loaded : Loaded[m].txn = Loaded[n].txn => m = n
    /\ \A n \in DOMAIN Recovered : Recovered[n].after = file.earliest + n
    /\ Recovered = <<>> => file.earliest = file.current
    /\ Current([current |-> file.current], Recovered) >= file.current

GuardValid == guard \in {0, file.gen}

Unrepaired == SelectSeq(Loaded, LAMBDA r : Outcome(r.txn) = "committed" /\ ~Finalized(r.txn))

Opened(s, g) == st' = s /\ gen' = g /\ mode' = "up" /\ Returned

Closed ==
    /\ hdr' = [earliest |-> 0, current |-> 0]
    /\ batches' = <<>> /\ unresolved' = {} /\ durable' = {} /\ pending' = {}
    /\ nextSeq' = 1

(* open: the guard must name the same generation, the markers that were    *)
(* lost are written again and synced, and the log is enabled.              *)
OpenEnabled ==
    /\ mode = "down" /\ \A i \in Ids : tx[i] # "prepared"
    /\ file.active /\ GuardValid /\ ChainValid
    /\ Opened("Enabled", file.gen)
    /\ guard' = file.gen
    /\ file' = [file EXCEPT !.recs = @ \o Markers(Unrepaired)]
    /\ synced' = Len(file'.recs)
    /\ hdr' = [earliest |-> file.earliest, current |-> file.current]
    /\ batches' = Recovered
    /\ unresolved' = {r \in ToSet(Loaded) : Outcome(r.txn) = "unresolved"}
    /\ durable' = {r.txn : r \in unresolved'}
    /\ pending' = {}
    /\ nextSeq' = Max({file.next} \union {r.seq + 1 : r \in ToSet(Loaded)})
    /\ origins' = [g \in DOMAIN origins \union {file.gen} |->
                     IF g \in DOMAIN origins THEN origins[g] ELSE Len(data)]
    /\ IF file.gen \in DOMAIN origins
         THEN told' = SubSeq(told, 1, file.earliest) \o BodiesOf(Recovered) /\ UNCHANGED stray
         ELSE told' = <<>> /\ stray' = {}
    /\ UNCHANGED <<txnVars, other, named, pin, faults, crashes, lost>>

OpenDisabled ==
    /\ mode = "down" /\ \A i \in Ids : tx[i] # "prepared"
    /\ ~file.active
    /\ Opened("Disabled", file.gen) /\ Closed
    /\ guard' = 0
    /\ stray' = {}
    /\ UNCHANGED <<txnVars, file, synced, other, named, pin, faults, crashes, origins, told, lost>>

(* The identities disagree, the chain is broken, or the guard or a marker  *)
(* cannot be written.  What was written before the failure stays.          *)
OpenUnavailable ==
    /\ mode = "down" /\ \A i \in Ids : tx[i] # "prepared"
    /\ file.active
    /\ IF GuardValid /\ ChainValid THEN Fault ELSE UNCHANGED faults
    /\ \E n \in 0..(IF GuardValid THEN Len(Unrepaired) ELSE 0) :
          /\ file' = [file EXCEPT !.recs = @ \o SubSeq(Markers(Unrepaired), 1, n)]
          /\ guard' \in IF n > 0 THEN {file.gen} ELSE {guard} \union
                          IF GuardValid THEN {file.gen} ELSE {}
    /\ Opened("Unavailable", file.gen) /\ Closed
    /\ UNCHANGED <<txnVars, synced, other, named, pin, crashes, ghostVars>>

Next ==
    \/ BeginReader \/ BeginWriter \/ BeginMember
    \/ \E i \in Ids : \/ EndReader(i) \/ PrepareOk(i) \/ PrepareFails(i)
                      \/ StageMember(i) \/ Commit(i) \/ Rollback(i)
                      \/ ResolveCommit(i) \/ ResolveAbort(i)
    \/ DurabilizeMembers \/ PrepareMembers \/ CheckpointFinalizes \/ SyncFails
    \/ \E now \in BOOLEAN : Finalize(now)
    \/ FinalizeFails \/ FinalizeSkips
    \/ EnableRewrite \/ DisableRewrite
    \/ \E f \in Ids : GcRewrite(f) \/ AdvancePin(f)
    \/ \E f \in 0..MaxTxns : AcquirePin(f)
    \/ EnableDone \/ DisableDone \/ GcDone \/ RewriteFails
    \/ ReleasePin
    \/ Crash \/ OpenEnabled \/ OpenDisabled \/ OpenUnavailable

Spec == Init /\ [][Next]_vars

-------------------------------------------------------------------------------
(* Properties.                                                             *)

Frontier == Current(hdr, batches)

(* The committed changes since the stream was enabled, but for those that  *)
(* are still waiting in unresolved and those that the log does not have:   *)
(* recorded in an unnamed file (lost), or committed under the TxnId of a   *)
(* stray record, which was kept in place of their own.                     *)
Due ==
    LET hidden == lost \union {body[r.txn] : r \in stray} \union {r.body : r \in unresolved}
    IN  SelectSeq(SubSeq(data, origins[gen] + 1, Len(data)), LAMBDA b : b \notin hidden)

Own == SelectSeq(BodiesOf(batches), LAMBDA b : \A r \in stray : b # r.body)

(* The log is the committed history: batches are numbered without a gap    *)
(* from the reclaimed frontier, and they are the changes that were         *)
(* committed, in commit order, none missing and none twice.  The only      *)
(* foreign batches are stray records, the only missing changes those of    *)
(* Due's comment; and where there is no stray record, no committed change  *)
(* waits once its call has returned.                                       *)
HistoryExact ==
    mode = "up" /\ st = "Enabled" =>
        /\ \A n \in DOMAIN batches : batches[n].after = hdr.earliest + n
        /\ IsSuffix(Own, Due)
        /\ Len(Due) - Len(Own) \in (hdr.earliest - Cardinality(stray))..hdr.earliest
        /\ call = "none" /\ stray = {} => \A r \in unresolved : tx[r.txn] # "committed"

(* Whenever the log of the current generation is found when the table is   *)
(* opened, and opening does not fail on I/O, the stream is enabled again   *)
(* with everything it had published.  It can only become unavailable, and  *)
(* then because of a stray record.                                         *)
ReopenKeepsStream ==
    [][mode = "down" /\ mode' = "up" /\ st = "Enabled" /\ faults' = faults
         /\ file.active /\ file.gen = gen
       => \/ st' = "Enabled" /\ gen' = gen /\ Frontier' >= Len(told)
          \/ st' = "Unavailable" /\ stray # {}]_vars

(* What a reader can see of the stream, in the terms of ChangeHistory.     *)
Readable == mode = "up" /\ st = "Enabled"

History == INSTANCE ChangeHistory
    WITH Bodies <- 1..MaxTxns, Gens <- 1..MaxGen,
         hStatus <- IF Readable THEN "on"
                    ELSE IF mode = "up" /\ st = "Disabled" THEN "off" ELSE "lost",
         hGen <- IF DOMAIN origins = {} THEN 0 ELSE Max(DOMAIN origins),
         hLog <- told,
         hEarliest <- IF Readable THEN hdr.earliest ELSE 0,
         hRisk <- named # {}

(* The log implements the abstract history, an append-only sequence per    *)
(* generation: across every crash and failure a position never changes its *)
(* content, no change is published twice, and no generation number stands  *)
(* for two histories.  History is only ever lost by a crash that follows a *)
(* failed rewrite (hRisk).                                                 *)
ImplementsHistory == History!HSpec
===============================================================================
