----------------------------- MODULE GroupCommit -----------------------------
(***************************************************************************)
(* Explicit group commit (netbadb-core lib.rs, begin_group_commit to       *)
(* abort_group_tail, with the group methods of transaction.rs and of the   *)
(* heap's transaction.rs) over the coordinator log of module DecisionLog.  *)
(*                                                                         *)
(* Members are written one after the other, each parked with its write     *)
(* participants prepared (or, in batched mode, staged).  commit_group      *)
(* makes all prepares durable storage by storage, decides every member     *)
(* with one record, commits the participants storage by storage, logs one  *)
(* Complete per member and publishes the last sequence.  Each storage      *)
(* keeps its parked participants in a deque: commits leave at the head,    *)
(* rollbacks at the tail.                                                  *)
(*                                                                         *)
(*   group       group.members, in parking order                           *)
(*   active      active_group is some                                      *)
(*   prepare     group.prepare_mode                                        *)
(*   finalize    the barrier mode of the group: "Batched", the change-     *)
(*               stream batches of a storage are finalized together and    *)
(*               their failure is retried (BatchedBarriers), or            *)
(*               "PerMember", one after the other                          *)
(*   barrier     group.prepare_barrier_started                             *)
(*   durable     keys of group.storage_prepare_batches                     *)
(*   authoritative  keys of group.storage_commit_batches                   *)
(*   sequences   Len(group.commit_sequences), 0 while it is None           *)
(*   resolving   group.resolving_member                                    *)
(*   chain[s]    parked_prepared of storage s                              *)
(*   call, pos   the running call and the member it is at                  *)
(*   records     the member sets of the group decision records written     *)
(*   recycled[s] committed participants whose records the WAL of s no      *)
(*               longer holds, a checkpoint having rotated it              *)
(*   acked       history: the members whose group commit_group reported    *)
(*               as committed, and those abort_group or abort_group_tail   *)
(*               reported as aborted                                       *)
(* state, wset, part, wal, poisoned, snap and mode are as in GlobalCommit. *)
(*                                                                         *)
(* The storages are heaps.  An LSM storage takes a participant out of the  *)
(* deque only when it is its own entry (engine.rs, finish_terminal).       *)
(***************************************************************************)
EXTENDS DecisionLog

CONSTANTS
    Storages,      \* StorageIds, ordered as the code orders them
    NoTxn,
    Readers,       \* storages that other transactions read and commit on while
                   \* a group is active
    StatusFaults,  \* the status file can fail while a batch is committed
    LateAbort,     \* callers abort although a decision may have been written
    MaxFaults, MaxCrashes

ASSUME GroupAssumption ==
    /\ Storages \subseteq Nat /\ NoTxn \notin Txns /\ Readers \subseteq Storages
    /\ {StatusFaults, LateAbort} \subseteq BOOLEAN
    /\ MaxFaults \in Nat /\ MaxCrashes \in Nat

VARIABLES group, active, prepare, barrier, durable, authoritative, sequences,
          resolving, finalize, call, pos, records, acked,
          state, wset, part, wal, recycled, chain, poisoned, snap, mode, faults, crashes

groupVars == <<group, active, prepare, barrier, durable, authoritative, sequences, resolving>>
callVars == <<call, pos>>
history == <<records, acked>>
txnVars == <<state, wset>>
storageVars == <<part, wal, chain, poisoned>>
envVars == <<mode, faults, crashes>>
vars == <<logVars, groupVars, finalize, callVars, history, txnVars, storageVars, recycled,
          snap, envVars>>

Parked == {"ParkedPreparePending", "ParkedPrepared"}
Pending == {"PreparePending", "CommitPending", "RollbackPending"}
PartStates == {"none", "Active", "ChangeFinalizePending", "Committed", "RolledBack", "Prepared"}
                 \union Parked \union Pending
TxnStates == {"none", "Active", "Preparing", "RollbackPending", "ApplyingCommit",
              "FinalizePending", "Committed", "RolledBack", "Dropped"} \union Parked

InGroup == Members(group)
Known == sequences > 0
GroupStorages == UNION {wset[t] : t \in InGroup}

(* The members of the group that write s, and their order.                 *)
WritersOf(s) == {t \in InGroup : s \in wset[t]}
MembersOf(s) == SelectSeq(group, LAMBDA t : s \in wset[t])

IsPrefixOf(p, q) == Len(p) <= Len(q) /\ p = SubSeq(q, 1, Len(p))

CommittedAt(s) == {t \in Txns : part[t][s] = "Committed"}

Fault == faults < MaxFaults /\ faults' = faults + 1
Quiet == mode = "up" /\ call = "none"
Running(c) == mode = "up" /\ call = c
Return == call' = "none" /\ pos' = 0
Call(c, i) == call' = c /\ pos' = i

(* p[t] for the participants t of ts in s, the others unchanged.           *)
SetParts(ts, s, p) ==
    part' = [t \in Txns |-> IF t \in ts THEN [part[t] EXCEPT ![s] = p] ELSE part[t]]
SetWals(ts, s, w) ==
    wal' = [t \in Txns |-> IF t \in ts THEN [wal[t] EXCEPT ![s] = w] ELSE wal[t]]
SetStates(ts, v) == state' = [t \in Txns |-> IF t \in ts THEN v ELSE state[t]]

(* A failed append to the status file is truncated away; the storage is    *)
(* poisoned when that fails too.                                           *)
StatusFails(s) == poisoned' \in {poisoned, poisoned \union {s}}

NoGroup ==
    /\ group' = <<>> /\ active' = FALSE /\ prepare' = "none" /\ barrier' = FALSE
    /\ durable' = {} /\ authoritative' = {} /\ sequences' = 0 /\ resolving' = NoTxn

GroupTypeOK ==
    /\ group \in Seq(Txns) /\ \A i, j \in DOMAIN group : group[i] = group[j] => i = j
    /\ prepare \in {"none", "Durable", "Batched"}
    /\ active \in BOOLEAN /\ barrier \in BOOLEAN /\ sequences \in Nat
    /\ durable \subseteq Storages /\ authoritative \subseteq Storages
    /\ resolving \in Txns \union {NoTxn}

CallTypeOK ==
    /\ call \in {"none", "resolve", "prepare", "decide", "apply", "complete", "abort", "tail"}
    /\ pos \in 0..(Len(group) + 1)

TxnTypeOK ==
    /\ state \in [Txns -> TxnStates]
    /\ wset \in [Txns -> SUBSET Storages]
    /\ records \subseteq SUBSET Txns
    /\ acked \in [commit : SUBSET Txns, abort : SUBSET Txns]

StorageTypeOK ==
    /\ part \in [Txns -> [Storages -> PartStates]]
    /\ wal \in [Txns -> [Storages -> {"none", "Prepare", "Commit", "Abort"}]]
    /\ chain \in [Storages -> Seq(Txns)]
    /\ poisoned \subseteq Storages

EnvTypeOK ==
    /\ snap \in [seq : Nat, vis : [Storages -> SUBSET Txns]]
    /\ mode \in {"up", "down"}
    /\ faults \in 0..MaxFaults /\ crashes \in 0..MaxCrashes

CommitTypeOK ==
    LogTypeOK /\ GroupTypeOK /\ CallTypeOK /\ TxnTypeOK /\ StorageTypeOK /\ EnvTypeOK

BarrierMode == {"Batched", "PerMember"}

TypeOK ==
    /\ CommitTypeOK
    /\ finalize \in BarrierMode
    /\ recycled \in [Storages -> SUBSET Txns]

Init ==
    /\ LogInit
    /\ finalize = "PerMember" /\ recycled = [s \in Storages |-> {}]
    /\ group = <<>> /\ active = FALSE /\ prepare = "none" /\ barrier = FALSE
    /\ durable = {} /\ authoritative = {} /\ sequences = 0 /\ resolving = NoTxn
    /\ call = "none" /\ pos = 0 /\ records = {}
    /\ acked = [commit |-> {}, abort |-> {}]
    /\ state = [t \in Txns |-> "none"] /\ wset = [t \in Txns |-> {}]
    /\ part = [t \in Txns |-> [s \in Storages |-> "none"]]
    /\ wal = [t \in Txns |-> [s \in Storages |-> "none"]]
    /\ chain = [s \in Storages |-> <<>>] /\ poisoned = {}
    /\ snap = [seq |-> 0, vis |-> [s \in Storages |-> {}]]
    /\ mode = "up" /\ faults = 0 /\ crashes = 0

------------------------------------------------------------------------------
(* Building the group.                                                     *)

(* begin_group_commit_internal: no other group and no outstanding handle.  *)
BeginGroup ==
    /\ Quiet /\ ~active
    /\ \A t \in Txns : state[t] \in {"none", "Committed", "RolledBack", "Dropped"}
    /\ active' = TRUE
    /\ UNCHANGED <<logVars, group, prepare, barrier, durable, authoritative, sequences,
                   resolving, callVars, history, txnVars, storageVars, snap, envVars>>

(* The writer lease of s: parked participants have given it back.          *)
WriterFree(s) ==
    \A t \in Txns : part[t][s] \notin {"Active", "PreparePending", "RollbackPending"}

(* begin_group_member and the member's writes, in the storages of w.       *)
BeginMember(t, w) ==
    /\ Quiet /\ active
    /\ resolving = NoTxn /\ ~barrier /\ ~Known
    /\ state[t] = "none"
    /\ \A s \in w : s \notin poisoned /\ WriterFree(s)
    /\ SetStates({t}, "Active")
    /\ wset' = [wset EXCEPT ![t] = w]
    /\ part' = [part EXCEPT ![t] = [s \in Storages |-> IF s \in w THEN "Active" ELSE "none"]]
    /\ UNCHANGED <<logVars, groupVars, callVars, history, wal, chain, poisoned, snap, envVars>>

(* The checks of park_group_member_with_mode.  Batched finalization goes   *)
(* with batched prepares (begin_group_commit_with_options).                *)
Parkable(t, m) ==
    /\ Quiet /\ active
    /\ resolving = NoTxn /\ ~barrier /\ prepare \in {"none", m}
    /\ m = "Durable" => finalize = "PerMember"
    /\ state[t] = "Active"

ParkedAs(m) == IF m = "Durable" THEN "ParkedPrepared" ELSE "ParkedPreparePending"

(* Participants ss of t are parked: prepared, and durably so in "Durable"  *)
(* mode, and appended to the deques; those of failed are left in state p.  *)
ParkAt(t, m, ss, failed, p) ==
    /\ part' = [part EXCEPT ![t] = [s \in Storages |->
                  IF s \in ss THEN ParkedAs(m) ELSE IF s \in failed THEN p ELSE @[s]]]
    /\ wal' = [wal EXCEPT ![t] = [s \in Storages |->
                  IF s \in ss /\ m = "Durable" THEN "Prepare" ELSE @[s]]]
    /\ chain' = [s \in Storages |-> IF s \in ss THEN Append(chain[s], t) ELSE chain[s]]

(* prepare_and_park_group_member and stage_and_park_group_member.          *)
ParkOk(t, m) ==
    /\ Parkable(t, m)
    /\ wset[t] \intersect poisoned = {}
    /\ ParkAt(t, m, wset[t], {}, "Active")
    /\ SetStates({t}, ParkedAs(m))
    /\ group' = Append(group, t) /\ prepare' = m
    /\ UNCHANGED <<logVars, active, barrier, durable, authoritative, sequences, resolving,
                   callVars, history, wset, poisoned, snap, envVars>>

(* Storage s fails after the storages before it were parked; the call goes *)
(* on with resolve_failed_group_member.                                    *)
ParkFails(t, m, s) ==
    LET before == {r \in wset[t] : r < s} IN
    /\ Parkable(t, m) /\ s \in wset[t]
    /\ before \intersect poisoned = {}
    /\ IF s \in poisoned
         THEN ParkAt(t, m, before, {}, "Active") /\ UNCHANGED faults
         ELSE Fault /\ \E p \in {"Active", "PreparePending"} : ParkAt(t, m, before, {s}, p)
    /\ SetStates({t}, "RollbackPending")
    /\ resolving' = t
    /\ Call("resolve", 0)
    /\ UNCHANGED <<logVars, group, active, prepare, barrier, durable, authoritative, sequences,
                   history, wset, poisoned, snap, mode, crashes>>

(* Committing the member's read participants fails before the first park:  *)
(* the call returns without cleaning up.                                   *)
ParkReadFails(t, m) ==
    /\ Parkable(t, m) /\ Fault
    /\ SetStates({t}, "Preparing")
    /\ resolving' = t
    /\ UNCHANGED <<logVars, group, active, prepare, barrier, durable, authoritative, sequences,
                   callVars, history, wset, storageVars, snap, mode, crashes>>

(* resolve_group_member_prepare, also the first step of abort_group.       *)
StartResolve ==
    /\ Quiet /\ active /\ resolving # NoTxn
    /\ SetStates({resolving}, "RollbackPending")
    /\ Call("resolve", 0)
    /\ UNCHANGED <<logVars, groupVars, history, wset, storageVars, snap, envVars>>

ResolveDone ==
    /\ Running("resolve")
    /\ \A s \in wset[resolving] : part[resolving][s] = "RolledBack"
    /\ SetStates({resolving}, "RolledBack")
    /\ resolving' = NoTxn
    /\ Return
    /\ UNCHANGED <<logVars, group, active, prepare, barrier, durable, authoritative, sequences,
                   history, wset, storageVars, snap, envVars>>

------------------------------------------------------------------------------
(* Rolling participants back.                                              *)

(* abort_group and abort_group_tail start at the last member.              *)
Undecided == \A t \in InGroup : ~Decided(t)

StartAbort ==
    /\ Quiet /\ active /\ resolving = NoTxn /\ ~Known
    /\ LateAbort \/ Undecided
    /\ Call("abort", Len(group))
    /\ UNCHANGED <<logVars, groupVars, history, txnVars, storageVars, snap, envVars>>

StartAbortTail ==
    /\ Quiet /\ active /\ resolving = NoTxn /\ ~Known
    /\ group # <<>>
    /\ LateAbort \/ ~Decided(group[Len(group)])
    /\ Call("tail", Len(group))
    /\ UNCHANGED <<logVars, groupVars, history, txnVars, storageVars, snap, envVars>>

InAbort == mode = "up" /\ call \in {"abort", "tail"} /\ pos > 0

(* abort_parked_group_member takes a parked member or one whose rollback   *)
(* failed; a member already rolled back refuses the call.                  *)
AbortMember ==
    /\ InAbort /\ state[group[pos]] \in Parked
    /\ SetStates({group[pos]}, "RollbackPending")
    /\ UNCHANGED <<logVars, groupVars, callVars, history, wset, storageVars, snap, envVars>>

AbortRefused ==
    /\ InAbort /\ state[group[pos]] = "RolledBack"
    /\ Return
    /\ UNCHANGED <<logVars, groupVars, history, txnVars, storageVars, snap, envVars>>

(* The member being rolled back, and the order of its participants:        *)
(* ascending in an abort, descending in a resolve.                         *)
Target == IF call = "resolve" THEN resolving ELSE group[pos]

AtRollback(s) ==
    /\ (Running("resolve") \/ InAbort)
    /\ state[Target] = "RollbackPending"
    /\ s \in wset[Target] /\ part[Target][s] # "RolledBack"
    /\ \A r \in wset[Target] : (IF call = "resolve" THEN r > s ELSE r < s)
                                  => part[Target][r] = "RolledBack"

(* acquire_parked_resolution(abort): only the tail of the deque, and only  *)
(* while the writer lease is free.                                         *)
Resolvable(t, s) ==
    /\ s \notin poisoned
    /\ part[t][s] \in Parked =>
         /\ chain[s] # <<>> /\ chain[s][Len(chain[s])] = t
         /\ WriterFree(s)

(* finish_rollback pops the tail when the deque holds the participant.     *)
LeaveTail(t, s) ==
    chain' = [chain EXCEPT ![s] = IF t \in Members(@) THEN SubSeq(@, 1, Len(@) - 1) ELSE @]

(* Faulty: the participant is released before its Abort is durable.        *)
RollbackOk_Unflushed(s) ==
    /\ AtRollback(s) /\ Resolvable(Target, s)
    /\ SetParts({Target}, s, "RolledBack")
    /\ LeaveTail(Target, s)
    /\ UNCHANGED <<logVars, groupVars, callVars, history, txnVars, wal, poisoned, snap, envVars>>

RollbackOk(s) ==
    /\ AtRollback(s) /\ Resolvable(Target, s)
    /\ SetParts({Target}, s, "RolledBack")
    /\ SetWals({Target}, s, "Abort")
    /\ LeaveTail(Target, s)
    /\ UNCHANGED <<logVars, groupVars, callVars, history, txnVars, poisoned, snap, envVars>>

(* rollback_internal fails before the Abort is appended, before it is      *)
(* durable, while undoing or in the status file, or only in abandoning the *)
(* change batch.                                                           *)
RollbackFails(s) ==
    /\ AtRollback(s)
    /\ IF ~Resolvable(Target, s) THEN UNCHANGED <<faults, storageVars>>
       ELSE /\ Fault
            /\ \/ UNCHANGED storageVars
               \/ /\ SetParts({Target}, s, "RollbackPending")
                  /\ \/ UNCHANGED <<wal, poisoned>>
                     \/ SetWals({Target}, s, "Abort") /\ StatusFails(s)
                  /\ UNCHANGED chain
               \/ /\ SetParts({Target}, s, "RolledBack")
                  /\ SetWals({Target}, s, "Abort")
                  /\ LeaveTail(Target, s)
                  /\ UNCHANGED poisoned
    /\ Return
    /\ UNCHANGED <<logVars, groupVars, history, txnVars, snap, mode, crashes>>

AbortMemberDone ==
    /\ InAbort /\ state[group[pos]] = "RollbackPending"
    /\ \A s \in wset[group[pos]] : part[group[pos]][s] = "RolledBack"
    /\ SetStates({group[pos]}, "RolledBack")
    /\ IF call = "abort"
         THEN Call("abort", pos - 1) /\ UNCHANGED <<group, durable, acked>>
         ELSE /\ Return
              /\ group' = SubSeq(group, 1, pos - 1)
              /\ durable' = {}
              /\ acked' = [acked EXCEPT !.abort = @ \union {group[pos]}]
    /\ UNCHANGED <<logVars, active, prepare, barrier, authoritative, sequences, resolving,
                   records, wset, storageVars, snap, envVars>>

AbortDone ==
    /\ Running("abort") /\ pos = 0
    /\ acked' = [acked EXCEPT !.abort = @ \union InGroup]
    /\ NoGroup
    /\ Return
    /\ UNCHANGED <<logVars, records, txnVars, storageVars, snap, envVars>>

(* A member that was never parked is rolled back by its owner.             *)
RollbackUnparked(t) ==
    /\ Quiet
    /\ state[t] = "Active" /\ wset[t] \intersect poisoned = {}
    /\ SetStates({t}, "RolledBack")
    /\ part' = [part EXCEPT ![t] = [s \in Storages |->
                                      IF s \in wset[t] THEN "RolledBack" ELSE "none"]]
    /\ wal' = [wal EXCEPT ![t] = [s \in Storages |-> IF s \in wset[t] THEN "Abort" ELSE "none"]]
    /\ UNCHANGED <<logVars, groupVars, callVars, history, wset, chain, poisoned, snap, envVars>>

------------------------------------------------------------------------------
(* commit_group.                                                           *)

(* The members that the known sequences are paired with.                   *)
Numbered == Members(SubSeq(group, 1, sequences))

(* A group whose members are all parked, or one that is decided.           *)
StartCommit ==
    /\ Quiet /\ active /\ resolving = NoTxn /\ group # <<>>
    /\ Known \/ \A t \in InGroup : state[t] \in Parked
    /\ Call(IF Known THEN "apply" ELSE IF prepare = "Batched" THEN "prepare" ELSE "decide", 1)
    /\ barrier' = (barrier \/ (~Known /\ prepare = "Batched"))
    /\ SetStates({t \in Numbered : state[t] # "Committed"}, "ApplyingCommit")
    /\ UNCHANGED <<logVars, group, active, prepare, durable, authoritative, sequences, resolving,
                   history, wset, storageVars, snap, envVars>>

(* The first storage, in order, of those not yet in done.                  *)
FirstOutside(s, done) ==
    /\ s \in GroupStorages \ done
    /\ \A r \in GroupStorages \ done : s <= r

AtBarrier(s) == Running("prepare") /\ FirstOutside(s, durable)

BarrierReady(s) == s \notin poisoned /\ IsPrefixOf(MembersOf(s), chain[s])

(* Faulty: the barrier counts as done without the flush.                   *)
BarrierOk_NoFlush(s) ==
    /\ AtBarrier(s) /\ BarrierReady(s)
    /\ SetParts(WritersOf(s), s, "ParkedPrepared")
    /\ durable' = durable \union {s}
    /\ UNCHANGED <<logVars, group, active, prepare, barrier, authoritative, sequences, resolving,
                   callVars, history, txnVars, wal, chain, poisoned, snap, envVars>>

(* durabilize_group_prepare_batch, after the change-stream barrier.        *)
BarrierOk(s) ==
    /\ AtBarrier(s) /\ BarrierReady(s)
    /\ SetParts(WritersOf(s), s, "ParkedPrepared")
    /\ SetWals(WritersOf(s), s, "Prepare")
    /\ durable' = durable \union {s}
    /\ UNCHANGED <<logVars, group, active, prepare, barrier, authoritative, sequences, resolving,
                   callVars, history, txnVars, chain, poisoned, snap, envVars>>

BarrierFails(s) ==
    /\ AtBarrier(s)
    /\ IF BarrierReady(s) THEN Fault ELSE UNCHANGED faults
    /\ Return
    /\ UNCHANGED <<logVars, groupVars, history, txnVars, storageVars, snap, mode, crashes>>

(* finish_group_prepare_barrier                                            *)
BarrierDone ==
    /\ Running("prepare") /\ GroupStorages \subseteq durable
    /\ SetStates(InGroup, "ParkedPrepared")
    /\ Call("decide", 1)
    /\ UNCHANGED <<logVars, groupVars, history, wset, storageVars, snap, envVars>>

(* A new decision is one record for all members.                           *)
Record == records' = IF SameGroup(group) THEN records ELSE records \union {InGroup}

(* Faulty: the group goes on after an append whose sync failed.            *)
GroupDecisionOk_Unsynced ==
    /\ Running("decide")
    /\ GroupDecideOk(group) \/ GroupDecideUnsynced(group)
    /\ Record
    /\ sequences' = Len(group)
    /\ SetStates(InGroup, "ApplyingCommit")
    /\ Call("apply", 1)
    /\ UNCHANGED <<group, active, prepare, barrier, durable, authoritative, resolving,
                   acked, wset, storageVars, snap, envVars>>

GroupDecisionOk ==
    /\ Running("decide")
    /\ GroupDecideOk(group)
    /\ Record
    /\ sequences' = Len(group)
    /\ SetStates(InGroup, "ApplyingCommit")
    /\ Call("apply", 1)
    /\ UNCHANGED <<group, active, prepare, barrier, durable, authoritative, resolving,
                   acked, wset, storageVars, snap, envVars>>

Conflicting == ~SameGroup(group) /\ \E t \in InGroup : Decided(t)

GroupDecisionFails ==
    /\ Running("decide")
    /\ \/ /\ Conflicting
          /\ UNCHANGED <<logVars, faults, records>>
       \/ /\ ~Conflicting
          /\ IF Held THEN Fault ELSE UNCHANGED faults
          /\ \/ GroupDecideUnsynced(group) /\ Record
             \/ DecideFailed /\ UNCHANGED records
    /\ Return
    /\ UNCHANGED <<groupVars, acked, txnVars, storageVars, snap, mode, crashes>>

(* The participants of s that are not committed yet, their member order,   *)
(* and the first k of them.                                                *)
Waiting(s) == {t \in WritersOf(s) : part[t][s] # "Committed"}
ToApply(s) == SelectSeq(MembersOf(s), LAMBDA t : part[t][s] # "Committed")
FirstWaiting(s, k) == {t \in Waiting(s) : \E i \in 1..k : ToApply(s)[i] = t}

Applied == {s \in GroupStorages : Waiting(s) = {}}

AtApply(s) == Running("apply") /\ FirstOutside(s, Applied)

(* The validation of commit_prepared_batch_authoritative.                  *)
BatchReady(s) ==
    /\ IsPrefixOf(ToApply(s), chain[s])
    /\ \A t \in Waiting(s) : part[t][s] \in {"ParkedPrepared", "CommitPending"}

OnlyFinalize(s) == finalize = "Batched" /\ s \in authoritative

(* group_write_participant_mut takes members that are being applied only.  *)
ApplyReady(s) ==
    /\ s \notin poisoned
    /\ \A t \in WritersOf(s) : state[t] \in {"ApplyingCommit", "Committed"}
    /\ OnlyFinalize(s) \/ BatchReady(s)

(* The first k of the waiting participants are in state p, the rest in q.  *)
Split(s, k, p, q) ==
    part' = [t \in Txns |->
               IF t \in Waiting(s)
               THEN [part[t] EXCEPT ![s] = IF t \in FirstWaiting(s, k) THEN p ELSE q]
               ELSE part[t]]

(* The k participants that are durably committed leave at the head.        *)
LeaveHead(s, k) ==
    chain' = [chain EXCEPT ![s] = IF k \in 0..Len(@) THEN SubSeq(@, k + 1, Len(@)) ELSE <<>>]

(* storage_commit_batches remembers what only needs finalizing.            *)
MarkAuthoritative(s) ==
    authoritative' = IF finalize = "Batched" THEN authoritative \union {s} ELSE authoritative

CommitBatch(s) ==
    IF OnlyFinalize(s) THEN UNCHANGED <<wal, chain, authoritative>>
    ELSE /\ SetWals(Waiting(s), s, "Commit")
         /\ LeaveHead(s, Len(ToApply(s)))
         /\ MarkAuthoritative(s)

(* The batch is committed with one flush, then its changes are finalized.  *)
ApplyOk(s) ==
    /\ AtApply(s) /\ ApplyReady(s)
    /\ SetParts(Waiting(s), s, "Committed")
    /\ CommitBatch(s)
    /\ UNCHANGED <<logVars, group, active, prepare, barrier, durable, sequences, resolving,
                   callVars, history, txnVars, poisoned, snap, envVars>>

(* The flush fails with some Commits appended; the status file fails, the  *)
(* Commits being durable; or finalizing the changes fails, for all members *)
(* at once or after some.                                                  *)
ApplyFails(s) ==
    LET n == Len(ToApply(s))
        one == finalize = "PerMember"
    IN
    /\ AtApply(s)
    /\ IF ~ApplyReady(s) THEN UNCHANGED <<faults, storageVars, authoritative>>
       ELSE /\ Fault
            /\ \/ /\ ~OnlyFinalize(s)
                  /\ \E k \in 0..n : SetParts(FirstWaiting(s, k), s, "CommitPending")
                  /\ UNCHANGED <<wal, chain, poisoned, authoritative>>
               \/ /\ StatusFaults /\ ~OnlyFinalize(s)
                  /\ SetWals(Waiting(s), s, "Commit")
                  /\ StatusFails(s)
                  /\ \E k \in 0..(n - 1) :
                        Split(s, k, "ChangeFinalizePending", "CommitPending") /\ LeaveHead(s, k)
                  /\ UNCHANGED authoritative
               \/ /\ CommitBatch(s)
                  /\ \E k \in (IF one THEN 0..(n - 1) ELSE {0}) :
                        Split(s, k, "Committed", "ChangeFinalizePending")
                  /\ UNCHANGED poisoned
    /\ Return
    /\ UNCHANGED <<logVars, group, active, prepare, barrier, durable, sequences, resolving,
                   history, txnVars, snap, mode, crashes>>

(* finish_group_participant_apply                                          *)
ApplyDone ==
    /\ Running("apply") /\ GroupStorages = Applied
    /\ SetStates({t \in InGroup : state[t] # "Committed"}, "FinalizePending")
    /\ Call("complete", 1)
    /\ UNCHANGED <<logVars, groupVars, history, wset, storageVars, snap, envVars>>

AtComplete == Running("complete") /\ pos \in DOMAIN group

(* finish_group_complete                                                   *)
CompleteMember ==
    /\ AtComplete
    /\ IF state[group[pos]] = "Committed" THEN UNCHANGED <<logVars, faults>>
       ELSE /\ DeferOk(group[pos])
            /\ IF completed' < seqOf[group[pos]] THEN Fault ELSE UNCHANGED faults
    /\ SetStates({group[pos]}, "Committed")
    /\ Call("complete", pos + 1)
    /\ UNCHANGED <<groupVars, history, wset, storageVars, snap, mode, crashes>>

CompleteFails ==
    /\ AtComplete /\ state[group[pos]] # "Committed"
    /\ \/ CompleteRefused(group[pos]) /\ UNCHANGED faults
       \/ /\ IF Held THEN Fault ELSE UNCHANGED faults
          /\ DeferLost(group[pos])
    /\ Return
    /\ UNCHANGED <<groupVars, history, txnVars, storageVars, snap, mode, crashes>>

(* Faulty: the snapshot is published with the first member's sequence.     *)
PublishGroup_First ==
    /\ Running("complete") /\ pos > Len(group)
    /\ snap' = [seq |-> seqOf[group[1]], vis |-> [s \in Storages |-> CommittedAt(s)]]
    /\ acked' = [acked EXCEPT !.commit = @ \union InGroup]
    /\ NoGroup
    /\ Return
    /\ UNCHANGED <<logVars, records, txnVars, storageVars, envVars>>

(* One publication for the whole group, with the current boundary of every *)
(* storage.                                                                *)
PublishGroup ==
    /\ Running("complete") /\ pos > Len(group)
    /\ snap' = [seq |-> seqOf[group[Len(group)]], vis |-> [s \in Storages |-> CommittedAt(s)]]
    /\ acked' = [acked EXCEPT !.commit = @ \union InGroup]
    /\ NoGroup
    /\ Return
    /\ UNCHANGED <<logVars, records, txnVars, storageVars, envVars>>

------------------------------------------------------------------------------
(* The rest of the engine.                                                 *)

(* A transaction that only read s commits: finish_commit pops the head of  *)
(* the deque whoever it belongs to, and then reports the mismatch.  Its    *)
(* status record may also be the one that poisons s.                       *)
ReaderCommits(s) ==
    /\ Quiet /\ s \in Readers /\ s \notin poisoned
    /\ \/ /\ chain[s] # <<>>
          /\ chain' = [chain EXCEPT ![s] = Tail(@)]
          /\ UNCHANGED <<poisoned, faults>>
       \/ /\ Fault /\ StatusFails(s)
          /\ UNCHANGED chain
    /\ UNCHANGED <<logVars, groupVars, callVars, history, txnVars, part, wal, snap, mode, crashes>>

(* ensure_checkpoint_safe: no unresolved participant; a reader with an     *)
(* open context is refused as well.                                        *)
Settled(p) == p \in {"none", "ChangeFinalizePending", "Committed", "RolledBack", "Prepared"}

CheckpointSafe(s) == s \notin poisoned /\ \A t \in Txns : Settled(part[t][s])

(* The WALs of ss start a new generation; what was committed in them lives *)
(* in the data files.                                                      *)
Recycled(ss) ==
    [s \in Storages |-> IF s \in ss THEN {t \in Txns : wal[t][s] = "Commit"} ELSE recycled[s]]

(* checkpoint() rotates the WALs in storage order and is through with ss.  *)
Rotated(ss) ==
    /\ Quiet
    /\ \A s \in ss, r \in Storages : r < s => r \in ss
    /\ \A s \in ss : CheckpointSafe(s)
    /\ recycled' = Recycled(ss)

(* The deferred Completes come last.                                       *)
FlushCompletes ==
    /\ \/ FlushOk /\ UNCHANGED faults
       \/ FlushFailed /\ Fault
    /\ UNCHANGED <<groupVars, callVars, history, txnVars, storageVars, snap, mode, crashes>>

Checkpoint == Rotated(Storages) /\ FlushCompletes

(* The next storage refuses, or its checkpoint fails: the deferred         *)
(* Completes are not reached.                                              *)
CheckpointStops(ss) ==
    /\ Rotated(ss) /\ ss # Storages
    /\ \/ Fault
       \/ /\ \E s \in Storages \ ss :
                /\ \A r \in Storages \ ss : s <= r
                /\ ~CheckpointSafe(s) \/ s \in Readers
          /\ UNCHANGED faults
    /\ UNCHANGED <<logVars, groupVars, callVars, history, txnVars, storageVars, snap, mode,
                   crashes>>

(* flush(), outside a group: a heap keeps its WAL.                         *)
Flush ==
    /\ Quiet /\ ~active
    /\ FlushCompletes
    /\ UNCHANGED recycled

(* An appended record whose flush had not returned may survive a crash.    *)
Unflushed == [PreparePending |-> "Prepare", ParkedPreparePending |-> "Prepare",
              CommitPending |-> "Commit", RollbackPending |-> "Abort"]

Inspected(w) ==
    CASE w = "Prepare" -> "Prepared"
      [] w = "Commit"  -> "Committed"
      [] OTHER         -> "RolledBack"

(* A torn record is no record: a group record survives with all of its     *)
(* members or with none.                                                   *)
RecordsWhole ==
    \A c \in records : \A t, u \in c : seqOf'[t] > 0 /\ Decided(u) => seqOf'[u] > 0

ProcessEnds ==
    /\ mode' = "down"
    /\ LogCrash /\ RecordsWhole
    /\ \E kept \in SUBSET {x \in Txns \X Storages :
                             part[x[1]][x[2]] \in DOMAIN Unflushed} :
          wal' = [t \in Txns |-> [s \in Storages |->
                    IF <<t, s>> \in kept THEN Unflushed[part[t][s]] ELSE wal[t][s]]]
    /\ part' = [t \in Txns |-> [s \in Storages |->
                  IF s \in wset[t] THEN Inspected(wal'[t][s]) ELSE "none"]]
    /\ SetStates({t \in Txns : state[t] \notin {"none", "Committed", "RolledBack"}}, "Dropped")
    /\ chain' = [s \in Storages |-> <<>>] /\ poisoned' = {}
    /\ NoGroup
    /\ Return
    /\ UNCHANGED <<history, wset, snap, faults>>

Crash ==
    /\ mode = "up" /\ crashes < MaxCrashes
    /\ crashes' = crashes + 1
    /\ ProcessEnds

(* The process dies with checkpoint() on its way through the storages.     *)
CheckpointCrash ==
    /\ \E ss \in SUBSET Storages : Rotated(ss)
    /\ Crash

(* A decided group whose every retry is refused: part of a batch has left  *)
(* the deque, a reader has popped its head, or a member was parked late.   *)
Wedged(s) == Known /\ s \in GroupStorages \ Applied /\ ~ApplyReady(s)

(* The log handle was given up or a storage refuses every call: only       *)
(* reopening the database helps.                                           *)
Reopen ==
    /\ Quiet /\ (~Held \/ poisoned # {} \/ \E s \in Storages : Wedged(s))
    /\ ProcessEnds
    /\ UNCHANGED crashes

(* validate_coordinator_recovery: every participant of a decision without  *)
(* a Complete must be found in the WAL of its storage, and none may        *)
(* contradict the log.                                                     *)
MissingParticipant(t, s) ==
    /\ Decided(t) /\ seqOf[t] > completed
    /\ s \in wset[t] /\ t \in recycled[s]

Contradicts(t, s) ==
    /\ s \in wset[t]
    /\ part[t][s] = (IF Decided(t) THEN "RolledBack" ELSE "Committed")

RecoveryAccepts ==
    \A t \in Txns, s \in Storages : ~MissingParticipant(t, s) /\ ~Contradicts(t, s)

(* Faulty: only the first member of a group record is committed.           *)
Recovered_FirstMember(t) ==
    Decided(t) /\ \A u \in Txns : Decided(u) => seqOf[t] <= seqOf[u]

(* resolution_for_recovery_prepared                                        *)
Recovered(t) == Decided(t)

(* Opening: the log is validated against the storages, which then resolve  *)
(* every prepared participant from it; every decision is completed and the *)
(* recovered snapshot published.  GlobalCommit has these as single steps,  *)
(* with crashes between them.                                              *)
Recover ==
    /\ mode = "down" /\ RecoveryAccepts
    /\ wal' = [t \in Txns |-> [s \in Storages |->
                 IF s \in wset[t] /\ wal[t][s] \in {"none", "Prepare"}
                 THEN IF Recovered(t) THEN "Commit" ELSE "Abort"
                 ELSE wal[t][s]]]
    /\ part' = [t \in Txns |-> [s \in Storages |->
                  IF s \in wset[t] THEN Inspected(wal'[t][s]) ELSE "none"]]
    /\ snap' = [seq |-> last,
                vis |-> [s \in Storages |-> {t \in Txns : part'[t][s] = "Committed"}]]
    /\ mode' = "up"
    /\ authority' = "held" /\ completed' = last
    /\ UNCHANGED <<seqOf, last, pending>>
    /\ SyncFile
    /\ UNCHANGED <<groupVars, callVars, history, txnVars, chain, poisoned, faults, crashes>>

------------------------------------------------------------------------------
PrepareMode == {"Durable", "Batched"}

CallStep ==
    \/ ResolveDone \/ AbortMember \/ AbortRefused \/ AbortMemberDone \/ AbortDone
    \/ BarrierDone \/ GroupDecisionOk \/ GroupDecisionFails
    \/ ApplyDone \/ CompleteMember \/ CompleteFails \/ PublishGroup
    \/ \E s \in Storages :
          \/ RollbackOk(s) \/ RollbackFails(s)
          \/ BarrierOk(s) \/ BarrierFails(s)
          \/ ApplyOk(s) \/ ApplyFails(s)

Step ==
    \/ \E t \in Txns, w \in (SUBSET Storages) \ {{}} : BeginMember(t, w)
    \/ \E t \in Txns, m \in PrepareMode : ParkOk(t, m) \/ ParkReadFails(t, m)
    \/ \E t \in Txns, m \in PrepareMode, s \in Storages : ParkFails(t, m, s)
    \/ \E t \in Txns : RollbackUnparked(t)
    \/ StartResolve \/ StartAbort \/ StartAbortTail \/ StartCommit
    \/ CallStep
    \/ \E s \in Storages : ReaderCommits(s)
    \/ Crash \/ Reopen \/ Recover

Maintain ==
    Checkpoint \/ Flush \/ CheckpointCrash \/ \E ss \in SUBSET Storages : CheckpointStops(ss)

Next ==
    \/ BeginGroup /\ finalize' \in BarrierMode /\ UNCHANGED recycled
    \/ Step /\ UNCHANGED <<finalize, recycled>>
    \/ Maintain /\ UNCHANGED finalize

Spec == Init /\ [][Next]_vars

------------------------------------------------------------------------------
(* PROPERTIES *)

(* The group is one transaction to the outside: no participant of one      *)
(* member is durably committed while one of another is durably aborted.    *)
GroupAtomicity ==
    \A c \in records : \A t, u \in c : \A r \in wset[t], s \in wset[u] :
        ~(wal[t][r] = "Commit" /\ wal[u][s] = "Abort")

(* The group record is the commit point: a Commit is durable only after    *)
(* the record is, and from the append on every participant keeps its       *)
(* durable Prepare, which is what makes recovery accept the log.           *)
GroupDecisionGoverns ==
    \A t \in Txns : \A s \in wset[t] :
        /\ wal[t][s] = "Commit" => Decided(t) /\ seqOf[t] <= stable
        /\ Decided(t) => wal[t][s] \in {"Prepare", "Commit"}

(* Opening after a crash anywhere in a group refuses the files for one     *)
(* reason only: checkpoint() rotated the WAL of a committed participant    *)
(* before the deferred Complete of its member was synchronized.  No        *)
(* participant ever contradicts the coordinator log.                       *)
RefusalIsRecycling ==
    mode = "down" =>
        \A t \in Txns, s \in Storages :
            /\ ~Contradicts(t, s)
            /\ MissingParticipant(t, s) => wal[t][s] = "Commit" /\ seqOf[t] > stableC

(* Readers see all of a group or nothing of it, and a published sequence   *)
(* says which.                                                             *)
GroupVisibleWhole ==
    \A t \in Txns : \A s \in wset[t] :
        t \in snap.vis[s] <=> (Decided(t) /\ seqOf[t] <= snap.seq)

(* What commit_group, abort_group and abort_group_tail report is final.    *)
ReportedOutcome ==
    /\ \A t \in acked.commit : \A s \in wset[t] : wal[t][s] = "Commit"
    /\ \A t \in acked.abort : \A s \in wset[t] : wal[t][s] = "Abort"

(* No member is rolled back once the log may hold its decision.            *)
NoRollbackOnceDecided == \A t \in Txns : state[t] = "RolledBack" => ~Decided(t)
==============================================================================
