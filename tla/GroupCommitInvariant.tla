------------------------ MODULE GroupCommitInvariant ------------------------
(***************************************************************************)
(* The inductive invariant of GroupCommit, and one lemma per action that   *)
(* collects, prepares, aborts, completes or publishes a group.             *)
(* GroupCommitProofs has the actions that decide, apply, crash and         *)
(* recover, and the theorems.                                              *)
(***************************************************************************)
EXTENDS GroupCommit, DecisionLogProofs

-------------------------------------------------------------------------------
(* The inductive invariant.                                                *)

(* Every participant of t is in a state of ps.                             *)
AllIn(t, ps) == \A s \in wset[t] : part[t][s] \in ps

Applying == {"ApplyingCommit", "FinalizePending", "Committed"}
MemberStates == Parked \union {"RollbackPending", "RolledBack"} \union Applying
Unlogged == {"none", "Active", "Preparing", "RollbackPending", "RolledBack"}

(* A participant's state tells which record its WAL holds.                 *)
WalAgrees(t, s) ==
    /\ part[t][s] \in {"Active", "PreparePending", "ParkedPreparePending"} => wal[t][s] = "none"
    /\ part[t][s] \in {"ParkedPrepared", "Prepared"} => wal[t][s] = "Prepare"
    /\ part[t][s] = "CommitPending" => wal[t][s] \in {"Prepare", "Commit"}
    /\ part[t][s] \in {"ChangeFinalizePending", "Committed"} => wal[t][s] = "Commit"
    /\ part[t][s] = "RollbackPending" => wal[t][s] # "Commit"
    /\ part[t][s] = "RolledBack" =>
         wal[t][s] = "Abort" \/ (wal[t][s] = "none" /\ state[t] = "Dropped")
    /\ part[t][s] # "none"

(* A decided participant is prepared or further; one that went further     *)
(* belongs to a durable decision.                                          *)
LogAgrees(t, s) ==
    /\ Decided(t) => part[t][s] \in {"ParkedPrepared", "Prepared", "CommitPending",
                                     "ChangeFinalizePending", "Committed"}
    /\ part[t][s] \in {"CommitPending", "ChangeFinalizePending", "Committed"} =>
         Decided(t) /\ seqOf[t] <= stable

(* What the handle of t says about the log and about its participants.     *)
HandleAgrees(t) ==
    /\ state[t] = "none" <=> wset[t] = {}
    /\ state[t] \in Unlogged => ~Decided(t)
    /\ state[t] \in Applying => Decided(t) /\ seqOf[t] <= stable
    /\ state[t] = "Active" => AllIn(t, {"Active"})
    /\ state[t] \in Parked => AllIn(t, Parked)
    /\ state[t] = "ParkedPrepared" => AllIn(t, {"ParkedPrepared"})
    /\ state[t] \in {"FinalizePending", "Committed"} => AllIn(t, {"Committed"})
    /\ state[t] = "RolledBack" => AllIn(t, {"RolledBack"})
    /\ mode = "down" => state[t] \in {"none", "Committed", "RolledBack", "Dropped"}

TxnAgrees(t) ==
    /\ HandleAgrees(t)
    /\ \A s \in wset[t] : WalAgrees(t, s) /\ LogAgrees(t, s)
    /\ \A s \in Storages \ wset[t] : part[t][s] = "none" /\ wal[t][s] = "none"

(* The group and its members.  The members with a known sequence are a     *)
(* prefix and are being applied; storages past the barrier hold durable    *)
(* Prepares of every member still parked; storages past the commit hold    *)
(* the Commit of every member being applied.                               *)
GroupAgrees ==
    /\ \A t \in InGroup : state[t] \in MemberStates
    /\ group # <<>> => prepare # "none"
    /\ prepare = "Durable" => \A t \in InGroup : state[t] # "ParkedPreparePending"
    /\ sequences <= Len(group)
    /\ \A i \in 1..sequences : state[group[i]] \in Applying
    /\ \A s \in durable : \A t \in WritersOf(s) :
         state[t] \in Parked => part[t][s] = "ParkedPrepared"
    /\ durable # {} => barrier
    /\ \A s \in authoritative : \A t \in WritersOf(s) :
         state[t] \in Applying => wal[t][s] = "Commit"
    /\ authoritative # {} => Known
    /\ resolving # NoTxn => state[resolving] \in {"Preparing", "RollbackPending"}

(* The order of decisions: only members of the group are decided after a   *)
(* member of the group, and the known sequences end with the last one.     *)
OrderAgrees ==
    /\ \A t \in InGroup, u \in Txns :
         Decided(t) /\ seqOf[u] > seqOf[t] => u \in InGroup
    /\ \A i \in 1..sequences : seqOf[group[i]] <= seqOf[group[sequences]]
    /\ Known => \A i \in DOMAIN group : i > sequences => ~Decided(group[i])

(* How far the running call has come.                                      *)
CallAgrees ==
    /\ resolving # NoTxn => call \in {"none", "resolve"}
    /\ call = "resolve" => resolving # NoTxn
    /\ call = "prepare" => barrier /\ \A t \in InGroup : state[t] \in Parked
    /\ call = "decide" => \A t \in InGroup : state[t] = "ParkedPrepared"
    /\ call \in {"prepare", "decide"} => group # <<>>
    /\ call \in {"prepare", "decide", "abort", "tail"} => ~Known
    /\ call \in {"apply", "complete"} => Known
    /\ call = "complete" => \A i \in DOMAIN group :
         /\ state[group[i]] \in {"FinalizePending", "Committed"}
         /\ i < pos => state[group[i]] = "Committed"
    /\ call = "abort" => \A i \in DOMAIN group :
         ~Decided(group[i]) /\ (i > pos => state[group[i]] = "RolledBack")
    /\ call \in {"abort", "tail"} => pos <= Len(group)
    /\ call = "tail" => pos > 0 /\ pos = Len(group) /\ ~Decided(group[pos])
    /\ mode = "down" => call = "none" /\ group = <<>> /\ resolving = NoTxn

(* Group records and reports.                                              *)
HistoryAgrees ==
    /\ \A c \in records : \A t \in c : Decided(t) \/ state[t] = "Dropped"
    /\ \A c \in records : \A t, u \in c : Decided(t) => Decided(u)
    /\ \A t \in acked.commit : state[t] = "Committed"
    /\ \A t \in acked.abort : state[t] = "RolledBack"

(* What readers see.                                                       *)
SnapAgrees ==
    /\ snap.seq <= stable
    /\ mode = "up" => \A t \in Txns : Decided(t) /\ t \notin InGroup => AllIn(t, {"Committed"})
    /\ \A s \in Storages : \A t \in snap.vis[s] : s \in wset[t]
    /\ GroupVisibleWhole

Rest ==
    /\ \A t \in Txns : TxnAgrees(t)
    /\ GroupAgrees /\ OrderAgrees /\ HistoryAgrees /\ SnapAgrees

Inv == CommitTypeOK /\ LogInv /\ Rest /\ CallAgrees

-------------------------------------------------------------------------------
(* What a step that does not concern it leaves of each part.               *)

Untouched(u) ==
    /\ state'[u] = state[u] /\ wset'[u] = wset[u]
    /\ part'[u] = part[u] /\ wal'[u] = wal[u] /\ seqOf'[u] = seqOf[u]

(* The members of the group are transactions, at positions 1 to its length. *)
LEMMA MembersTyped ==
    ASSUME GroupTypeOK
    PROVE  /\ Len(group) \in Nat /\ DOMAIN group = 1..Len(group)
           /\ \A i \in DOMAIN group : group[i] \in Txns /\ group[i] \in InGroup
           /\ \A t \in InGroup : t \in Txns /\ \E i \in DOMAIN group : group[i] = t
<1>1. /\ Len(group) \in Nat /\ DOMAIN group = 1..Len(group)
      /\ \A i \in DOMAIN group : group[i] \in Txns
  BY DEF GroupTypeOK
<1>2. QED
  BY Zenon, <1>1 DEF InGroup, Members

(* The same group has the same members.                                    *)
LEMMA SameMembers ==
    ASSUME group' = group
    PROVE  InGroup' = InGroup
BY DEF InGroup, Members

(* A transaction that a step does not touch keeps its agreement, as the    *)
(* durable part of the log only grows.                                     *)
LEMMA TxnFrame ==
    ASSUME Inv, NEW u \in Txns, Untouched(u), stable <= stable', stable' \in Nat, mode' = mode
    PROVE  TxnAgrees(u)'
<1>1. stable \in Nat /\ seqOf[u] \in Nat
  BY DEF Inv, CommitTypeOK, LogTypeOK
<1>2. TxnAgrees(u)
  BY Zenon DEF Inv, Rest
<1>3. Decided(u)' <=> Decided(u)
  BY Zenon DEF Decided, Untouched
<1>4. seqOf[u] <= stable => seqOf'[u] <= stable'
  BY <1>1 DEF Untouched
<1>5. HandleAgrees(u)'
  BY Zenon, <1>2, <1>3, <1>4 DEF TxnAgrees, HandleAgrees, Untouched, AllIn
<1>6. ASSUME NEW s \in wset'[u] PROVE WalAgrees(u, s)' /\ LogAgrees(u, s)'
  BY Zenon, <1>2, <1>3, <1>4, <1>6 DEF TxnAgrees, WalAgrees, LogAgrees, Untouched
<1>7. QED
  BY Zenon, <1>2, <1>5, <1>6 DEF TxnAgrees, Untouched

(* Final states are final, so records and reports stay as they were.       *)
LEMMA HistoryFrame ==
    ASSUME HistoryAgrees, CommitTypeOK, UNCHANGED history,
           \A t \in Txns : Decided(t)' <=> Decided(t),
           \A t \in Txns : state[t] \in {"Dropped", "Committed", "RolledBack"}
                             => state'[t] = state[t]
    PROVE  HistoryAgrees'
<1>1. \A c \in records : \A t \in c : t \in Txns
  BY Zenon DEF CommitTypeOK, TxnTypeOK
<1>2. \A t \in acked.commit \union acked.abort : t \in Txns
  BY DEF CommitTypeOK, TxnTypeOK
<1>3. records' = records /\ acked' = acked
  BY Zenon DEF history
<1>4. /\ \A c \in records' : \A t \in c : Decided(t)' \/ state'[t] = "Dropped"
      /\ \A c \in records' : \A t, u \in c : Decided(t)' => Decided(u)'
  BY Zenon, <1>1, <1>3 DEF HistoryAgrees
<1>5. /\ \A t \in acked'.commit : state'[t] = "Committed"
      /\ \A t \in acked'.abort : state'[t] = "RolledBack"
  BY Zenon, <1>2, <1>3 DEF HistoryAgrees
<1>6. QED
  BY Zenon, <1>4, <1>5 DEF HistoryAgrees

(* A step that publishes nothing keeps what readers see, when the          *)
(* transactions outside the group keep their participants.                 *)
LEMMA SnapFrame ==
    ASSUME SnapAgrees, CommitTypeOK, seqOf' = seqOf, wset' = wset, snap' = snap, mode' = mode,
           stable <= stable', stable' \in Nat,
           \A t \in Txns : Decided(t) /\ t \notin InGroup' => t \notin InGroup /\ part'[t] = part[t]
    PROVE  SnapAgrees'
<1>1. snap'.seq <= stable'
  <2>1. snap.seq \in Nat /\ stable \in Nat
    BY DEF CommitTypeOK, EnvTypeOK, LogTypeOK
  <2>2. QED
    BY <2>1 DEF SnapAgrees
<1>2. mode' = "up" => \A t \in Txns : Decided(t)' /\ t \notin InGroup' => AllIn(t, {"Committed"})'
  BY Zenon DEF SnapAgrees, AllIn, Decided
<1>3. QED
  BY Zenon, <1>1, <1>2 DEF SnapAgrees, GroupVisibleWhole, Decided

(* The order of decisions is kept with the sequences and the members.      *)
LEMMA OrderFrame ==
    ASSUME OrderAgrees, seqOf' = seqOf, group' = group, sequences' = sequences
    PROVE  OrderAgrees'
<1>1. InGroup' = InGroup
  BY Zenon, SameMembers
<1>2. QED
  BY Zenon, <1>1 DEF OrderAgrees, Decided, Known

-------------------------------------------------------------------------------
(* Steps that only do bookkeeping.                                         *)

Bookkeeping ==
    /\ LogStays
    /\ UNCHANGED <<state, wset, part, wal, group, prepare, durable, authoritative, sequences,
                   resolving, records, acked, snap, mode>>
    /\ barrier => barrier'

(* They keep everything but what is said of the running call.              *)
LEMMA BookkeepingKeeps ==
    ASSUME Inv, Bookkeeping
    PROVE  Rest' /\ LogInv' /\ LogTypeOK'
<1>1. LogInv' /\ LogTypeOK' /\ stable <= stable' /\ stable' \in Nat /\ seqOf' = seqOf
  <2>1. LogInv' /\ LogTypeOK' /\ stable <= stable' /\ seqOf' = seqOf
    BY Zenon DEF Bookkeeping, LogStays, LogOK
  <2>2. QED
    BY <2>1 DEF LogTypeOK
<1>2. ASSUME NEW t \in Txns PROVE TxnAgrees(t)'
  BY Zenon, <1>1, TxnFrame DEF Bookkeeping, Untouched
<1>3. GroupAgrees'
  <2>1. InGroup' = InGroup
    BY Zenon, SameMembers DEF Bookkeeping
  <2>2. GroupAgrees
    BY Zenon DEF Inv, Rest
  <2>3. QED
    BY Zenon, <2>1, <2>2 DEF Bookkeeping, GroupAgrees, WritersOf, Known
<1>4. OrderAgrees'
  BY Zenon, <1>1, OrderFrame DEF Bookkeeping, Inv, Rest
<1>5. HistoryAgrees'
  BY Zenon, <1>1, HistoryFrame DEF Bookkeeping, Inv, Rest, history, Decided
<1>6. SnapAgrees'
  BY Zenon, <1>1, SnapFrame, SameMembers DEF Bookkeeping, Inv, Rest
<1>7. QED
  BY Zenon, <1>1, <1>2, <1>3, <1>4, <1>5, <1>6 DEF Rest

-------------------------------------------------------------------------------
(* Steps of one undecided transaction.                                     *)

OneTxn(t) ==
    /\ LogStays
    /\ UNCHANGED <<group, prepare, durable, authoritative, sequences, records, acked, snap, mode>>
    /\ barrier => barrier'
    /\ \A u \in Txns : u # t => Untouched(u)

(* They keep everything but what is said of the running call, when the     *)
(* transaction agrees with its participants afterwards and does not come   *)
(* back from a rollback.                                                   *)
LEMMA OneTxnKeeps ==
    ASSUME Inv, NEW t \in Txns, OneTxn(t), TxnAgrees(t)', TxnTypeOK', ~Decided(t),
           state[t] \in {"none", "Active", "Preparing", "RollbackPending"} \union Parked,
           wset'[t] = wset[t] \/ state[t] = "none",
           t \in InGroup => state'[t] \in {"RollbackPending", "RolledBack"},
           resolving' \in {resolving, t, NoTxn},
           resolving' = t => state'[t] \in {"Preparing", "RollbackPending"},
           t # NoTxn
    PROVE  Rest' /\ LogInv' /\ LogTypeOK'
<1>1. LogInv' /\ LogTypeOK' /\ stable <= stable' /\ stable' \in Nat /\ seqOf' = seqOf
  <2>1. LogInv' /\ LogTypeOK' /\ stable <= stable' /\ seqOf' = seqOf
    BY Zenon DEF OneTxn, LogStays, LogOK
  <2>2. QED
    BY <2>1 DEF LogTypeOK
<1>2. ASSUME NEW u \in Txns PROVE TxnAgrees(u)'
  <2>1. CASE u = t
    BY Zenon, <2>1
  <2>2. CASE u # t
    BY Zenon, <1>1, <2>2, TxnFrame DEF OneTxn
  <2>3. QED
    BY Zenon, <2>1, <2>2
<1>3. GroupAgrees'
  <2>1. InGroup' = InGroup /\ \A u \in InGroup : u \in Txns
    BY Zenon, SameMembers, MembersTyped DEF OneTxn, Inv, CommitTypeOK
  <2>0. GroupAgrees
    BY Zenon DEF Inv, Rest
  <2>2. ASSUME NEW u \in InGroup PROVE state'[u] \in MemberStates
    BY Zenon, <2>1 DEF Inv, Rest, GroupAgrees, MemberStates, OneTxn, Untouched
  <2>3. ASSUME prepare' = "Durable", NEW u \in InGroup'
        PROVE  state'[u] # "ParkedPreparePending"
    <3>1. CASE u = t
      BY Zenon, <2>1, <2>3, <3>1
    <3>2. CASE u # t
      <4>1. u \in InGroup /\ prepare = "Durable" /\ state'[u] = state[u]
        BY Zenon, <2>1, <2>3, <3>2 DEF OneTxn, Untouched
      <4>2. QED
        BY Zenon, <2>0, <4>1 DEF GroupAgrees
    <3>3. QED
      BY Zenon, <3>1, <3>2
  <2>4. ASSUME NEW i \in 1..sequences PROVE state'[group[i]] \in Applying
    <3>1. state[group[i]] \in Applying /\ group[i] \in Txns
      BY DEF Inv, Rest, GroupAgrees, CommitTypeOK, GroupTypeOK
    <3>2. group[i] # t
      BY Zenon, <3>1 DEF Applying, Parked
    <3>3. QED
      BY Zenon, <3>1, <3>2 DEF OneTxn, Untouched
  <2>5. ASSUME NEW s \in durable, NEW u \in WritersOf(s)', state'[u] \in Parked
        PROVE  part'[u][s] = "ParkedPrepared"
    <3>1. u \in InGroup /\ u # t
      BY Zenon, <2>1, <2>5 DEF WritersOf, Parked
    <3>2. Untouched(u) /\ u \in WritersOf(s)
      BY Zenon, <2>1, <2>5, <3>1 DEF OneTxn, Untouched, WritersOf
    <3>3. QED
      BY Zenon, <2>0, <2>5, <3>2 DEF GroupAgrees, Untouched
  <2>6. ASSUME NEW s \in authoritative, NEW u \in WritersOf(s)', state'[u] \in Applying
        PROVE  wal'[u][s] = "Commit"
    <3>1. u \in InGroup /\ u # t
      BY Zenon, <2>1, <2>6 DEF WritersOf, Applying
    <3>2. Untouched(u) /\ u \in WritersOf(s)
      BY Zenon, <2>1, <2>6, <3>1 DEF OneTxn, Untouched, WritersOf
    <3>3. QED
      BY Zenon, <2>0, <2>6, <3>2 DEF GroupAgrees, Untouched
  <2>7. resolving' # NoTxn => state'[resolving'] \in {"Preparing", "RollbackPending"}
    <3>1. CASE resolving' = t \/ resolving' = NoTxn
      BY Zenon, <3>1
    <3>2. CASE resolving' = resolving /\ resolving # t /\ resolving # NoTxn
      <4>1. resolving \in Txns
        BY Zenon, <3>2 DEF Inv, CommitTypeOK, GroupTypeOK
      <4>2. QED
        BY Zenon, <3>2, <4>1 DEF Inv, Rest, GroupAgrees, OneTxn, Untouched
    <3>3. QED
      BY Zenon, <3>1, <3>2
  <2>8. /\ group' # <<>> => prepare' # "none"
        /\ sequences' <= Len(group') /\ (durable' # {} => barrier')
        /\ (authoritative' # {} => Known')
    BY Zenon DEF Inv, Rest, GroupAgrees, OneTxn, Known
  <2>9. QED
    BY Zenon, <2>1, <2>2, <2>3, <2>4, <2>5, <2>6, <2>7, <2>8 DEF GroupAgrees, OneTxn
<1>4. OrderAgrees'
  BY Zenon, <1>1, OrderFrame DEF OneTxn, Inv, Rest
<1>5. HistoryAgrees'
  <2>1. ASSUME NEW u \in Txns, state[u] \in {"Dropped", "Committed", "RolledBack"}
        PROVE  state'[u] = state[u]
    BY Zenon, <2>1 DEF OneTxn, Untouched, Parked
  <2>2. QED
    BY Zenon, <1>1, <2>1, HistoryFrame DEF OneTxn, Inv, Rest, history, Decided
<1>6. SnapAgrees'
  <2>1. InGroup' = InGroup
    BY Zenon, SameMembers DEF OneTxn
  <2>2. snap' = snap /\ mode' = mode
    BY Zenon DEF OneTxn
  <2>3. snap'.seq <= stable'
    <3>1. snap.seq \in Nat /\ stable \in Nat
      BY DEF Inv, CommitTypeOK, EnvTypeOK, LogTypeOK
    <3>2. QED
      BY <1>1, <2>2, <3>1 DEF Inv, Rest, SnapAgrees
  <2>4. ASSUME mode' = "up", NEW u \in Txns, Decided(u)', u \notin InGroup'
        PROVE  AllIn(u, {"Committed"})'
    <3>1. Decided(u) /\ u # t
      BY Zenon, <1>1, <2>4 DEF Decided
    <3>2. QED
      BY Zenon, <2>1, <2>2, <2>4, <3>1
      DEF Inv, Rest, SnapAgrees, AllIn, OneTxn, Untouched
  <2>5. ASSUME NEW s \in Storages PROVE t \notin snap.vis[s]
    BY Zenon DEF Inv, Rest, SnapAgrees, GroupVisibleWhole
  <2>6. ASSUME NEW s \in Storages, NEW u \in snap'.vis[s] PROVE s \in wset'[u]
    <3>1. u \in Txns
      BY <2>2, <2>6 DEF Inv, CommitTypeOK, EnvTypeOK
    <3>2. u # t
      BY Zenon, <2>2, <2>5, <2>6
    <3>3. QED
      BY Zenon, <2>2, <2>6, <3>1, <3>2 DEF Inv, Rest, SnapAgrees, OneTxn, Untouched
  <2>7. ASSUME NEW u \in Txns, NEW s \in wset'[u]
        PROVE  u \in snap'.vis[s] <=> (Decided(u)' /\ seqOf'[u] <= snap'.seq)
    <3>1. CASE u = t
      <4>1. s \in Storages
        BY Zenon, <2>7, <3>1 DEF TxnTypeOK
      <4>2. QED
        BY Zenon, <1>1, <2>2, <2>5, <3>1, <4>1 DEF Decided
    <3>2. CASE u # t
      BY Zenon, <1>1, <2>2, <2>7, <3>2
      DEF Inv, Rest, SnapAgrees, GroupVisibleWhole, OneTxn, Untouched, Decided
    <3>3. QED
      BY Zenon, <3>1, <3>2
  <2>8. QED
    BY Zenon, <2>3, <2>4, <2>6, <2>7 DEF SnapAgrees, GroupVisibleWhole
<1>7. QED
  BY Zenon, <1>1, <1>2, <1>3, <1>4, <1>5, <1>6 DEF Rest

-------------------------------------------------------------------------------
(* Types of what a step leaves alone, and of a call that returns.          *)

(* Variables that do not change keep their types.                          *)
LEMMA TypeFrame ==
    ASSUME CommitTypeOK
    PROVE  /\ UNCHANGED groupVars => GroupTypeOK'
           /\ UNCHANGED <<call, pos, group>> => CallTypeOK'
           /\ UNCHANGED <<txnVars, history>> => TxnTypeOK'
           /\ UNCHANGED storageVars => StorageTypeOK'
           /\ UNCHANGED <<snap, mode, crashes>> /\ (UNCHANGED faults \/ Fault) => EnvTypeOK'
           /\ UNCHANGED <<snap, envVars>> => EnvTypeOK'
<1>1. UNCHANGED groupVars => GroupTypeOK'
  BY Zenon DEF CommitTypeOK, GroupTypeOK, groupVars
<1>2. UNCHANGED <<call, pos, group>> => CallTypeOK'
  BY Zenon DEF CommitTypeOK, CallTypeOK
<1>3. UNCHANGED <<txnVars, history>> => TxnTypeOK'
  BY Zenon DEF CommitTypeOK, TxnTypeOK, txnVars, history
<1>4. UNCHANGED storageVars => StorageTypeOK'
  BY Zenon DEF CommitTypeOK, StorageTypeOK, storageVars
<1>5. Fault => faults' \in 0..MaxFaults
  BY GroupAssumption DEF CommitTypeOK, EnvTypeOK, Fault
<1>6. UNCHANGED <<snap, mode, crashes>> /\ (UNCHANGED faults \/ Fault) => EnvTypeOK'
  BY Zenon, <1>5 DEF CommitTypeOK, EnvTypeOK
<1>7. UNCHANGED <<snap, envVars>> => EnvTypeOK'
  BY Zenon DEF CommitTypeOK, EnvTypeOK, envVars
<1>8. QED
  BY Zenon, <1>1, <1>2, <1>3, <1>4, <1>6, <1>7

(* A call that returns leaves nothing to say of it.                        *)
LEMMA CallReturns ==
    ASSUME call' = "none", mode' = "up"
    PROVE  CallAgrees'
BY Zenon DEF CallAgrees

(* Its position is back at the start.                                      *)
LEMMA ReturnTyped ==
    ASSUME GroupTypeOK', Return
    PROVE  CallTypeOK'
<1>1. Len(group') \in Nat
  BY DEF GroupTypeOK
<1>2. QED
  BY <1>1 DEF CallTypeOK, Return

-------------------------------------------------------------------------------
(* The bookkeeping actions.                                                *)

(* Starting a group preserves the invariant.                               *)
LEMMA BeginGroupInv ==
    ASSUME Inv, BeginGroup
    PROVE  Inv'
<1>1. CommitTypeOK /\ LogOK
  BY Zenon DEF Inv, CommitTypeOK, LogOK
<1>2. Bookkeeping
  BY Zenon, <1>1, FlushLog DEF BeginGroup, Bookkeeping, txnVars, storageVars, history, envVars
<1>3. Rest' /\ LogInv' /\ LogTypeOK'
  BY Zenon, <1>2, BookkeepingKeeps
<1>4. GroupTypeOK'
  BY Zenon, <1>1 DEF BeginGroup, CommitTypeOK, GroupTypeOK
<1>5. CallTypeOK' /\ TxnTypeOK' /\ StorageTypeOK' /\ EnvTypeOK'
  BY Zenon, <1>1, TypeFrame DEF BeginGroup, callVars
<1>6. CallAgrees'
  BY Zenon, CallReturns DEF BeginGroup, Quiet, callVars, envVars
<1>7. QED
  BY Zenon, <1>3, <1>4, <1>5, <1>6 DEF Inv, CommitTypeOK

(* Starting an abort of an undecided group preserves the invariant.        *)
LEMMA StartAbortInv ==
    ASSUME Inv, ~LateAbort, StartAbort
    PROVE  Inv'
<1>1. CommitTypeOK /\ LogOK
  BY Zenon DEF Inv, CommitTypeOK, LogOK
<1>2. Bookkeeping
  BY Zenon, <1>1, FlushLog
  DEF StartAbort, Bookkeeping, groupVars, txnVars, storageVars, history, envVars
<1>3. Rest' /\ LogInv' /\ LogTypeOK'
  BY Zenon, <1>2, BookkeepingKeeps
<1>4. GroupTypeOK' /\ TxnTypeOK' /\ StorageTypeOK' /\ EnvTypeOK'
  BY Zenon, <1>1, TypeFrame DEF StartAbort
<1>5. group' = group /\ seqOf' = seqOf /\ state' = state /\ sequences' = sequences
  BY Zenon, <1>2 DEF Bookkeeping, LogStays
<1>6. /\ Len(group) \in Nat /\ DOMAIN group = 1..Len(group)
      /\ \A i \in DOMAIN group : group[i] \in InGroup
  BY Zenon, <1>1, MembersTyped DEF CommitTypeOK
<1>7. call' = "abort" /\ pos' = Len(group)
  BY Zenon DEF StartAbort, Call
<1>8. CallTypeOK'
  BY <1>5, <1>6, <1>7 DEF CallTypeOK
<1>9. CallAgrees'
  <2>1. ASSUME NEW i \in DOMAIN group' PROVE ~Decided(group[i])'
    BY Zenon, <1>5, <1>6, <2>1 DEF StartAbort, Undecided, Decided
  <2>2. ASSUME NEW i \in DOMAIN group' PROVE ~(i > pos')
    BY <1>5, <1>6, <1>7, <2>2
  <2>3. pos' <= Len(group')
    BY <1>5, <1>6, <1>7
  <2>4. ~Known' /\ resolving' = NoTxn /\ mode' = "up"
    BY Zenon, <1>2, <1>5 DEF StartAbort, Known, Bookkeeping, Quiet
  <2>5. QED
    BY Zenon, <1>5, <1>7, <2>1, <2>2, <2>3, <2>4 DEF CallAgrees, Decided
<1>10. QED
  BY Zenon, <1>3, <1>4, <1>8, <1>9 DEF Inv, CommitTypeOK

(* Starting an abort of an undecided last member preserves the invariant.  *)
LEMMA StartAbortTailInv ==
    ASSUME Inv, ~LateAbort, StartAbortTail
    PROVE  Inv'
<1>1. CommitTypeOK /\ LogOK
  BY Zenon DEF Inv, CommitTypeOK, LogOK
<1>2. Bookkeeping
  BY Zenon, <1>1, FlushLog
  DEF StartAbortTail, Bookkeeping, groupVars, txnVars, storageVars, history, envVars
<1>3. Rest' /\ LogInv' /\ LogTypeOK'
  BY Zenon, <1>2, BookkeepingKeeps
<1>4. GroupTypeOK' /\ TxnTypeOK' /\ StorageTypeOK' /\ EnvTypeOK'
  BY Zenon, <1>1, TypeFrame DEF StartAbortTail
<1>5. group' = group /\ seqOf' = seqOf /\ state' = state /\ sequences' = sequences
  BY Zenon, <1>2 DEF Bookkeeping, LogStays
<1>6. Len(group) \in Nat /\ Len(group) > 0
  BY <1>1 DEF CommitTypeOK, GroupTypeOK, StartAbortTail
<1>7. call' = "tail" /\ pos' = Len(group)
  BY Zenon DEF StartAbortTail, Call
<1>8. CallTypeOK'
  BY <1>5, <1>6, <1>7 DEF CallTypeOK
<1>9. CallAgrees'
  <2>1. ~Decided(group[pos])'
    BY Zenon, <1>5, <1>7 DEF StartAbortTail, Decided
  <2>2. pos' <= Len(group') /\ pos' > 0 /\ pos' = Len(group')
    BY <1>5, <1>6, <1>7
  <2>3. ~Known' /\ resolving' = NoTxn /\ mode' = "up"
    BY Zenon, <1>2, <1>5 DEF StartAbortTail, Known, Bookkeeping, Quiet
  <2>4. QED
    BY Zenon, <1>5, <1>7, <2>1, <2>2, <2>3 DEF CallAgrees
<1>10. QED
  BY Zenon, <1>3, <1>4, <1>8, <1>9 DEF Inv, CommitTypeOK

(* A step of bookkeeping after which no call runs preserves the invariant. *)
LEMMA BookkeepingReturns ==
    ASSUME Inv, Bookkeeping, mode' = "up", call' = "none", CommitTypeOK'
    PROVE  Inv'
BY Zenon, BookkeepingKeeps, CallReturns DEF Inv

(* An abort that finds a member rolled back already preserves it.          *)
LEMMA AbortRefusedInv ==
    ASSUME Inv, AbortRefused
    PROVE  Inv'
<1>1. CommitTypeOK /\ LogOK
  BY Zenon DEF Inv, CommitTypeOK, LogOK
<1>2. Bookkeeping
  BY Zenon, <1>1, FlushLog
  DEF AbortRefused, Bookkeeping, groupVars, txnVars, storageVars, history, envVars
<1>3. GroupTypeOK' /\ TxnTypeOK' /\ StorageTypeOK' /\ EnvTypeOK'
  BY Zenon, <1>1, TypeFrame DEF AbortRefused
<1>4. CallTypeOK'
  BY Zenon, <1>3, ReturnTyped DEF AbortRefused
<1>5. CommitTypeOK'
  BY Zenon, <1>2, <1>3, <1>4 DEF CommitTypeOK, Bookkeeping, LogStays, LogOK
<1>6. QED
  BY Zenon, <1>2, <1>5, BookkeepingReturns DEF AbortRefused, Return, InAbort, envVars

(* A failed prepare barrier preserves the invariant.                       *)
LEMMA BarrierFailsInv ==
    ASSUME Inv, NEW s \in Storages, BarrierFails(s)
    PROVE  Inv'
<1>1. CommitTypeOK /\ LogOK
  BY Zenon DEF Inv, CommitTypeOK, LogOK
<1>2. Bookkeeping
  BY Zenon, <1>1, FlushLog
  DEF BarrierFails, Bookkeeping, groupVars, txnVars, storageVars, history
<1>3. GroupTypeOK' /\ TxnTypeOK' /\ StorageTypeOK' /\ EnvTypeOK'
  BY Zenon, <1>1, TypeFrame DEF BarrierFails
<1>4. CallTypeOK'
  BY Zenon, <1>3, ReturnTyped DEF BarrierFails
<1>5. CommitTypeOK'
  BY Zenon, <1>2, <1>3, <1>4 DEF CommitTypeOK, Bookkeeping, LogStays, LogOK
<1>6. QED
  BY Zenon, <1>2, <1>5, BookkeepingReturns DEF BarrierFails, Return, AtBarrier, Running

(* A Complete that is refused, or loses the log, preserves the invariant.  *)
LEMMA CompleteFailsInv ==
    ASSUME Inv, CompleteFails
    PROVE  Inv'
<1>1. CommitTypeOK /\ LogOK
  BY Zenon DEF Inv, CommitTypeOK, LogOK
<1>2. group[pos] \in Txns /\ FinishLogStep(group[pos])
  BY Zenon, <1>1, MembersTyped DEF CompleteFails, AtComplete, CommitTypeOK, FinishLogStep
<1>3. Bookkeeping
  BY Zenon, <1>1, <1>2, FinishLog
  DEF CompleteFails, Bookkeeping, groupVars, txnVars, storageVars, history
<1>4. GroupTypeOK' /\ TxnTypeOK' /\ StorageTypeOK' /\ EnvTypeOK'
  BY Zenon, <1>1, TypeFrame DEF CompleteFails
<1>5. CallTypeOK'
  BY Zenon, <1>4, ReturnTyped DEF CompleteFails
<1>6. CommitTypeOK'
  BY Zenon, <1>3, <1>4, <1>5 DEF CommitTypeOK, Bookkeeping, LogStays, LogOK
<1>7. QED
  BY Zenon, <1>3, <1>6, BookkeepingReturns DEF CompleteFails, Return, AtComplete, Running

(* Another transaction's read commit preserves the invariant.              *)
LEMMA ReaderCommitsInv ==
    ASSUME Inv, NEW s \in Storages, ReaderCommits(s)
    PROVE  Inv'
<1>1. CommitTypeOK /\ LogOK
  BY Zenon DEF Inv, CommitTypeOK, LogOK
<1>2. Bookkeeping
  BY Zenon, <1>1, FlushLog
  DEF ReaderCommits, Bookkeeping, groupVars, txnVars, history
<1>3. GroupTypeOK' /\ TxnTypeOK' /\ CallTypeOK' /\ EnvTypeOK'
  BY Zenon, <1>1, TypeFrame DEF ReaderCommits, callVars, groupVars
<1>4. StorageTypeOK'
  <2>1. chain' \in [Storages -> Seq(Txns)]
    <3>1. chain \in [Storages -> Seq(Txns)] /\ chain[s] \in Seq(Txns)
      BY Zenon, <1>1 DEF CommitTypeOK, StorageTypeOK
    <3>2. chain[s] # <<>> => Tail(chain[s]) \in Seq(Txns)
      BY <3>1
    <3>3. QED
      BY Zenon, <3>1, <3>2 DEF ReaderCommits
  <2>2. poisoned' \subseteq Storages
    BY Zenon, <1>1 DEF ReaderCommits, CommitTypeOK, StorageTypeOK, StatusFails
  <2>3. QED
    BY Zenon, <1>1, <2>1, <2>2 DEF ReaderCommits, CommitTypeOK, StorageTypeOK
<1>5. CommitTypeOK'
  BY Zenon, <1>2, <1>3, <1>4 DEF CommitTypeOK, Bookkeeping, LogStays, LogOK
<1>6. QED
  BY Zenon, <1>2, <1>5, BookkeepingReturns DEF ReaderCommits, Quiet, callVars

(* Syncing the deferred Completes, or stopping before, preserves the       *)
(* invariant.                                                              *)
LEMMA MaintainInv ==
    ASSUME Inv, Checkpoint \/ Flush \/ \E ss \in SUBSET Storages : CheckpointStops(ss)
    PROVE  Inv'
<1> DEFINE Frame == /\ Quiet
                    /\ Fault \/ UNCHANGED faults
                    /\ UNCHANGED <<groupVars, callVars, history, txnVars, storageVars, snap, mode,
                                   crashes>>
<1>1. CommitTypeOK /\ LogOK
  BY Zenon DEF Inv, CommitTypeOK, LogOK
<1>2. Frame /\ (FlushOk \/ FlushFailed \/ UNCHANGED logVars)
  BY Zenon DEF Checkpoint, Flush, CheckpointStops, Rotated, FlushCompletes
<1>3. Bookkeeping
  BY Zenon, <1>1, <1>2, FlushLog DEF Bookkeeping, groupVars, txnVars, storageVars, history
<1>4. GroupTypeOK' /\ CallTypeOK' /\ TxnTypeOK' /\ StorageTypeOK' /\ EnvTypeOK'
  BY Zenon, <1>1, <1>2, TypeFrame DEF callVars, groupVars
<1>5. CommitTypeOK'
  BY Zenon, <1>3, <1>4 DEF CommitTypeOK, Bookkeeping, LogStays, LogOK
<1>6. QED
  BY Zenon, <1>2, <1>3, <1>5, BookkeepingReturns DEF Quiet, callVars

-------------------------------------------------------------------------------
(* The actions of one undecided transaction.                               *)

(* What is said of the running call is kept with what it is about.         *)
LEMMA CallFrame ==
    ASSUME CallAgrees,
           UNCHANGED <<call, pos, group, state, seqOf, resolving, sequences, mode, barrier>>
    PROVE  CallAgrees'
<1>1. InGroup' = InGroup
  BY Zenon, SameMembers
<1>2. QED
  BY Zenon, <1>1 DEF CallAgrees, Known, Decided

(* Beginning a member preserves the invariant.                             *)
LEMMA BeginMemberInv ==
    ASSUME Inv, NEW t \in Txns, NEW w \in (SUBSET Storages) \ {{}}, BeginMember(t, w)
    PROVE  Inv'
<1>1. CommitTypeOK /\ LogOK /\ TxnAgrees(t) /\ GroupAgrees /\ t # NoTxn
  BY Zenon, GroupAssumption DEF Inv, CommitTypeOK, LogOK, Rest
<1>2. /\ state[t] = "none" /\ state'[t] = "Active" /\ wset'[t] = w /\ wal' = wal
      /\ part'[t] = [s \in Storages |-> IF s \in w THEN "Active" ELSE "none"]
      /\ \A u \in Txns : u # t => state'[u] = state[u] /\ wset'[u] = wset[u] /\ part'[u] = part[u]
  BY Zenon, <1>1 DEF BeginMember, SetStates, CommitTypeOK, TxnTypeOK, StorageTypeOK
<1>3. LogStays
  BY Zenon, <1>1, FlushLog DEF BeginMember
<1>4. OneTxn(t)
  BY Zenon, <1>2, <1>3
  DEF OneTxn, BeginMember, Untouched, groupVars, history, envVars, LogStays
<1>5. wset[t] = {} /\ ~Decided(t) /\ \A s \in Storages : wal[t][s] = "none"
  BY Zenon, <1>1, <1>2 DEF TxnAgrees, HandleAgrees, Unlogged
<1>6. TxnAgrees(t)'
  <2>1. ~Decided(t)'
    BY Zenon, <1>3, <1>5 DEF LogStays, Decided
  <2>2. \A s \in w : part'[t][s] = "Active" /\ wal'[t][s] = "none"
    BY Zenon, <1>2, <1>5
  <2>3. mode' = "up"
    BY Zenon DEF BeginMember, Quiet, envVars
  <2>4. HandleAgrees(t)'
    <3>1. w # {}
      BY Zenon
    <3>2. QED
      BY Zenon, <1>2, <2>1, <2>2, <2>3, <3>1 DEF HandleAgrees, AllIn, Applying, Parked
  <2>5. ASSUME NEW s \in wset'[t] PROVE WalAgrees(t, s)' /\ LogAgrees(t, s)'
    BY Zenon, <1>2, <2>1, <2>2, <2>5 DEF WalAgrees, LogAgrees
  <2>6. QED
    BY Zenon, <1>2, <1>5, <2>4, <2>5 DEF TxnAgrees
<1>7. GroupTypeOK' /\ CallTypeOK' /\ EnvTypeOK'
  BY Zenon, <1>1, TypeFrame DEF BeginMember, callVars, groupVars
<1>8. TxnTypeOK'
  BY Zenon, <1>1 DEF BeginMember, SetStates, CommitTypeOK, TxnTypeOK, TxnStates, history
<1>9. StorageTypeOK'
  BY Zenon, <1>1 DEF BeginMember, CommitTypeOK, StorageTypeOK, PartStates
<1>10. t \notin InGroup
  BY Zenon, <1>1, <1>2 DEF GroupAgrees, MemberStates, Applying, Parked
<1>11. resolving' = NoTxn
  BY Zenon DEF BeginMember, groupVars
<1>12. Rest' /\ LogInv' /\ LogTypeOK'
  BY Zenon, <1>1, <1>2, <1>4, <1>5, <1>6, <1>8, <1>10, <1>11, OneTxnKeeps
<1>13. CallAgrees'
  BY Zenon, CallReturns DEF BeginMember, Quiet, callVars, envVars
<1>14. QED
  BY Zenon, <1>7, <1>8, <1>9, <1>12, <1>13 DEF Inv, CommitTypeOK

(* Rolling an unparked member back preserves the invariant.                *)
LEMMA RollbackUnparkedInv ==
    ASSUME Inv, NEW t \in Txns, RollbackUnparked(t)
    PROVE  Inv'
<1>1. CommitTypeOK /\ LogOK /\ TxnAgrees(t) /\ GroupAgrees /\ t # NoTxn
  BY Zenon, GroupAssumption DEF Inv, CommitTypeOK, LogOK, Rest
<1>2. /\ state[t] = "Active" /\ state'[t] = "RolledBack" /\ wset' = wset
      /\ part'[t] = [s \in Storages |-> IF s \in wset[t] THEN "RolledBack" ELSE "none"]
      /\ wal'[t] = [s \in Storages |-> IF s \in wset[t] THEN "Abort" ELSE "none"]
      /\ \A u \in Txns : u # t => state'[u] = state[u] /\ wal'[u] = wal[u] /\ part'[u] = part[u]
  BY Zenon, <1>1 DEF RollbackUnparked, SetStates, CommitTypeOK, TxnTypeOK, StorageTypeOK
<1>3. LogStays
  BY Zenon, <1>1, FlushLog DEF RollbackUnparked
<1>4. OneTxn(t)
  BY Zenon, <1>2, <1>3
  DEF OneTxn, RollbackUnparked, Untouched, groupVars, history, envVars, LogStays
<1>5. ~Decided(t) /\ wset[t] # {} /\ wset[t] \subseteq Storages
  BY Zenon, <1>1, <1>2 DEF TxnAgrees, HandleAgrees, Unlogged, CommitTypeOK, TxnTypeOK
<1>6. TxnAgrees(t)'
  <2>1. ~Decided(t)'
    BY Zenon, <1>3, <1>5 DEF LogStays, Decided
  <2>2. \A s \in wset[t] : part'[t][s] = "RolledBack" /\ wal'[t][s] = "Abort"
    BY Zenon, <1>2, <1>5
  <2>3. mode' = "up"
    BY Zenon DEF RollbackUnparked, Quiet, envVars
  <2>4. HandleAgrees(t)'
    BY Zenon, <1>2, <1>5, <2>1, <2>2, <2>3 DEF HandleAgrees, AllIn, Applying, Parked
  <2>5. ASSUME NEW s \in wset'[t] PROVE WalAgrees(t, s)' /\ LogAgrees(t, s)'
    BY Zenon, <1>2, <2>1, <2>2, <2>5 DEF WalAgrees, LogAgrees
  <2>6. QED
    BY Zenon, <1>2, <2>4, <2>5 DEF TxnAgrees
<1>7. GroupTypeOK' /\ CallTypeOK' /\ EnvTypeOK'
  BY Zenon, <1>1, TypeFrame DEF RollbackUnparked, callVars, groupVars
<1>8. TxnTypeOK'
  BY Zenon, <1>1 DEF RollbackUnparked, SetStates, CommitTypeOK, TxnTypeOK, TxnStates, history
<1>9. StorageTypeOK'
  BY Zenon, <1>1 DEF RollbackUnparked, CommitTypeOK, StorageTypeOK, PartStates
<1>10. t \notin InGroup
  BY Zenon, <1>1, <1>2 DEF GroupAgrees, MemberStates, Applying, Parked
<1>11. resolving' = resolving /\ resolving # t
  BY Zenon, <1>1, <1>2 DEF RollbackUnparked, groupVars, GroupAgrees
<1>12. Rest' /\ LogInv' /\ LogTypeOK'
  BY Zenon, <1>1, <1>2, <1>4, <1>5, <1>6, <1>8, <1>10, <1>11, OneTxnKeeps
<1>13. CallAgrees'
  BY Zenon, CallReturns DEF RollbackUnparked, Quiet, callVars, envVars
<1>14. QED
  BY Zenon, <1>7, <1>8, <1>9, <1>12, <1>13 DEF Inv, CommitTypeOK

(* A park that fails in the read participants preserves the invariant.     *)
LEMMA ParkReadFailsInv ==
    ASSUME Inv, NEW t \in Txns, NEW m \in PrepareMode, ParkReadFails(t, m)
    PROVE  Inv'
<1>1. CommitTypeOK /\ LogOK /\ TxnAgrees(t) /\ GroupAgrees /\ t # NoTxn
  BY Zenon, GroupAssumption DEF Inv, CommitTypeOK, LogOK, Rest
<1>2. /\ state[t] = "Active" /\ state'[t] = "Preparing" /\ wset' = wset
      /\ part' = part /\ wal' = wal
      /\ \A u \in Txns : u # t => state'[u] = state[u]
  BY Zenon, <1>1 DEF ParkReadFails, Parkable, SetStates, CommitTypeOK, TxnTypeOK, storageVars
<1>3. LogStays
  BY Zenon, <1>1, FlushLog DEF ParkReadFails
<1>4. OneTxn(t)
  BY Zenon, <1>2, <1>3 DEF OneTxn, ParkReadFails, Untouched, history, LogStays
<1>5. ~Decided(t) /\ wset[t] # {}
  BY Zenon, <1>1, <1>2 DEF TxnAgrees, HandleAgrees, Unlogged
<1>6. TxnAgrees(t)'
  <2>1. ~Decided(t)'
    BY Zenon, <1>3, <1>5 DEF LogStays, Decided
  <2>2. \A s \in wset[t] : part[t][s] = "Active" /\ wal[t][s] = "none"
    BY Zenon, <1>1, <1>2 DEF TxnAgrees, HandleAgrees, AllIn, WalAgrees
  <2>3. mode' = "up"
    BY Zenon DEF ParkReadFails, Parkable, Quiet
  <2>4. HandleAgrees(t)'
    BY Zenon, <1>2, <1>5, <2>1, <2>3 DEF HandleAgrees, Applying, Parked
  <2>5. ASSUME NEW s \in wset'[t] PROVE WalAgrees(t, s)' /\ LogAgrees(t, s)'
    BY Zenon, <1>2, <2>1, <2>2, <2>5 DEF WalAgrees, LogAgrees
  <2>6. QED
    BY Zenon, <1>1, <1>2, <2>4, <2>5 DEF TxnAgrees
<1>7. CallTypeOK' /\ EnvTypeOK' /\ StorageTypeOK'
  BY Zenon, <1>1, TypeFrame DEF ParkReadFails, callVars
<1>8. TxnTypeOK'
  BY Zenon, <1>1 DEF ParkReadFails, SetStates, CommitTypeOK, TxnTypeOK, TxnStates, history
<1>9. GroupTypeOK'
  BY Zenon, <1>1 DEF ParkReadFails, CommitTypeOK, GroupTypeOK
<1>10. t \notin InGroup
  BY Zenon, <1>1, <1>2 DEF GroupAgrees, MemberStates, Applying, Parked
<1>11. resolving' = t
  BY Zenon DEF ParkReadFails
<1>12. Rest' /\ LogInv' /\ LogTypeOK'
  BY Zenon, <1>1, <1>2, <1>4, <1>5, <1>6, <1>8, <1>10, <1>11, OneTxnKeeps
<1>13. CallAgrees'
  BY Zenon, CallReturns DEF ParkReadFails, Parkable, Quiet, callVars
<1>14. QED
  BY Zenon, <1>7, <1>8, <1>9, <1>12, <1>13 DEF Inv, CommitTypeOK

(* A park that fails in storage s preserves the invariant.                 *)
LEMMA ParkFailsInv ==
    ASSUME Inv, NEW t \in Txns, NEW m \in PrepareMode, NEW s \in Storages, ParkFails(t, m, s)
    PROVE  Inv'
<1>1. CommitTypeOK /\ LogOK /\ TxnAgrees(t) /\ GroupAgrees /\ t # NoTxn
  BY Zenon, GroupAssumption DEF Inv, CommitTypeOK, LogOK, Rest
<1>2. /\ state[t] = "Active" /\ state'[t] = "RollbackPending" /\ wset' = wset
      /\ \A u \in Txns : u # t => state'[u] = state[u]
  BY Zenon, <1>1 DEF ParkFails, Parkable, SetStates, CommitTypeOK, TxnTypeOK
<1>3. PICK ss \in SUBSET wset[t], failed \in SUBSET {s}, p \in {"Active", "PreparePending"} :
        ParkAt(t, m, ss, failed, p)
  <2>1. {r \in wset[t] : r < s} \in SUBSET wset[t]
    BY Zenon
  <2>2. QED
    BY Zenon, <2>1 DEF ParkFails
<1>4. \A u \in Txns : u # t => part'[u] = part[u] /\ wal'[u] = wal[u]
  BY Zenon, <1>1, <1>3 DEF ParkAt, CommitTypeOK, StorageTypeOK
<1>5. ASSUME NEW r \in Storages
      PROVE  /\ part'[t][r] = IF r \in ss THEN ParkedAs(m)
                              ELSE IF r \in failed THEN p ELSE part[t][r]
             /\ wal'[t][r] = IF r \in ss /\ m = "Durable" THEN "Prepare" ELSE wal[t][r]
  BY Zenon, <1>1, <1>3 DEF ParkAt, CommitTypeOK, StorageTypeOK
<1>6. LogStays
  BY Zenon, <1>1, FlushLog DEF ParkFails
<1>7. OneTxn(t)
  BY Zenon, <1>2, <1>4, <1>6 DEF OneTxn, ParkFails, Untouched, history, LogStays
<1>8. ~Decided(t) /\ wset[t] # {} /\ wset[t] \subseteq Storages /\ s \in wset[t]
  BY Zenon, <1>1, <1>2 DEF TxnAgrees, HandleAgrees, Unlogged, CommitTypeOK, TxnTypeOK, ParkFails
<1>9. TxnAgrees(t)'
  <2>1. ~Decided(t)'
    BY Zenon, <1>6, <1>8 DEF LogStays, Decided
  <2>2. \A r \in wset[t] : part[t][r] = "Active" /\ wal[t][r] = "none"
    BY Zenon, <1>1, <1>2 DEF TxnAgrees, HandleAgrees, AllIn, WalAgrees
  <2>3. mode' = "up"
    BY Zenon DEF ParkFails, Parkable, Quiet
  <2>4. HandleAgrees(t)'
    BY Zenon, <1>2, <1>8, <2>1, <2>3 DEF HandleAgrees, Applying, Parked
  <2>5. ASSUME NEW r \in wset[t]
        PROVE  \/ part'[t][r] = "ParkedPrepared" /\ wal'[t][r] = "Prepare"
               \/ part'[t][r] = "ParkedPreparePending" /\ wal'[t][r] = "none"
               \/ part'[t][r] \in {"Active", "PreparePending"} /\ wal'[t][r] = "none"
    BY Zenon, <1>5, <1>8, <2>2 DEF ParkedAs
  <2>6. ASSUME NEW r \in wset'[t] PROVE WalAgrees(t, r)' /\ LogAgrees(t, r)'
    BY Zenon, <1>2, <2>1, <2>5, <2>6 DEF WalAgrees, LogAgrees
  <2>7. ASSUME NEW r \in Storages \ wset[t] PROVE part'[t][r] = "none" /\ wal'[t][r] = "none"
    BY Zenon, <1>1, <1>5, <1>8 DEF TxnAgrees
  <2>8. QED
    BY Zenon, <1>2, <2>4, <2>6, <2>7 DEF TxnAgrees
<1>10. GroupTypeOK'
  BY Zenon, <1>1 DEF ParkFails, CommitTypeOK, GroupTypeOK
<1>11. TxnTypeOK'
  BY Zenon, <1>1 DEF ParkFails, SetStates, CommitTypeOK, TxnTypeOK, TxnStates, history
<1>12. CallTypeOK'
  <2>1. Len(group') \in Nat /\ call' = "resolve" /\ pos' = 0
    BY <1>10 DEF GroupTypeOK, ParkFails, Call
  <2>2. QED
    BY <2>1 DEF CallTypeOK
<1>13. StorageTypeOK'
  <2>1. ParkedAs(m) \in PartStates /\ p \in PartStates
    BY Zenon DEF ParkedAs, PartStates, Parked, Pending
  <2>2. \A r \in Storages : part'[t][r] \in PartStates
    BY Zenon, <1>1, <1>5, <2>1 DEF CommitTypeOK, StorageTypeOK
  <2>3. \A r \in Storages : chain[r] \in Seq(Txns) /\ Append(chain[r], t) \in Seq(Txns)
    <3>1. \A r \in Storages : chain[r] \in Seq(Txns)
      BY Zenon, <1>1 DEF CommitTypeOK, StorageTypeOK
    <3>2. QED
      BY <3>1
  <2>4. chain' \in [Storages -> Seq(Txns)]
    BY Zenon, <1>3, <2>3 DEF ParkAt
  <2>5. part' \in [Txns -> [Storages -> PartStates]]
    BY Zenon, <1>1, <1>3, <2>1 DEF ParkAt, CommitTypeOK, StorageTypeOK
  <2>6. wal' \in [Txns -> [Storages -> {"none", "Prepare", "Commit", "Abort"}]]
    BY Zenon, <1>1, <1>3 DEF ParkAt, CommitTypeOK, StorageTypeOK
  <2>7. QED
    BY Zenon, <1>1, <2>4, <2>5, <2>6 DEF StorageTypeOK, CommitTypeOK, ParkFails
<1>14. EnvTypeOK'
  BY Zenon, <1>1, TypeFrame DEF ParkFails
<1>15. t \notin InGroup
  BY Zenon, <1>1, <1>2 DEF GroupAgrees, MemberStates, Applying, Parked
<1>16. resolving' = t
  BY Zenon DEF ParkFails
<1>17. Rest' /\ LogInv' /\ LogTypeOK'
  BY Zenon, <1>1, <1>2, <1>7, <1>8, <1>9, <1>11, <1>15, <1>16, OneTxnKeeps
<1>18. CallAgrees'
  BY Zenon, <1>1, <1>16 DEF CallAgrees, ParkFails, Parkable, Quiet, Call
<1>19. QED
  BY Zenon, <1>10, <1>11, <1>12, <1>13, <1>14, <1>17, <1>18 DEF Inv, CommitTypeOK

(* Calling the resolution of a failed member preserves the invariant.      *)
LEMMA StartResolveInv ==
    ASSUME Inv, StartResolve
    PROVE  Inv'
<1>0. resolving \in Txns /\ resolving # NoTxn
  BY Zenon DEF Inv, CommitTypeOK, StartResolve, GroupTypeOK
<1>t. PICK t \in Txns : t = resolving
  BY Zenon, <1>0
<1>1. CommitTypeOK /\ LogOK /\ GroupAgrees /\ t # NoTxn
  BY Zenon, <1>0, <1>t DEF Inv, CommitTypeOK, LogOK, Rest
<1>2. TxnAgrees(t) /\ state[t] \in {"Preparing", "RollbackPending"}
  BY Zenon, <1>1, <1>t DEF Inv, Rest, GroupAgrees
<1>3. /\ state'[t] = "RollbackPending" /\ wset' = wset /\ part' = part /\ wal' = wal
      /\ \A u \in Txns : u # t => state'[u] = state[u]
  BY Zenon, <1>1, <1>t DEF StartResolve, SetStates, CommitTypeOK, TxnTypeOK, storageVars
<1>4. LogStays
  BY Zenon, <1>1, FlushLog DEF StartResolve
<1>5. OneTxn(t)
  BY Zenon, <1>3, <1>4 DEF OneTxn, StartResolve, Untouched, history, LogStays, groupVars, envVars
<1>6. ~Decided(t) /\ wset[t] # {}
  BY Zenon, <1>2 DEF TxnAgrees, HandleAgrees, Unlogged
<1>7. TxnAgrees(t)'
  <2>1. ~Decided(t)'
    BY Zenon, <1>4, <1>6 DEF LogStays, Decided
  <2>2. mode' = "up"
    BY Zenon DEF StartResolve, Quiet, envVars
  <2>3. HandleAgrees(t)'
    BY Zenon, <1>3, <1>6, <2>1, <2>2 DEF HandleAgrees, Applying, Parked
  <2>4. ASSUME NEW s \in wset'[t] PROVE WalAgrees(t, s)' /\ LogAgrees(t, s)'
    <3>1. WalAgrees(t, s) /\ LogAgrees(t, s)
      BY Zenon, <1>2, <1>3 DEF TxnAgrees
    <3>2. QED
      BY Zenon, <1>2, <1>3, <1>6, <2>1, <3>1 DEF WalAgrees, LogAgrees
  <2>5. QED
    BY Zenon, <1>2, <1>3, <2>3, <2>4 DEF TxnAgrees
<1>8. GroupTypeOK' /\ EnvTypeOK' /\ StorageTypeOK'
  BY Zenon, <1>1, TypeFrame DEF StartResolve
<1>9. TxnTypeOK'
  BY Zenon, <1>1 DEF StartResolve, SetStates, CommitTypeOK, TxnTypeOK, TxnStates, history
<1>10. CallTypeOK'
  <2>1. Len(group') \in Nat /\ call' = "resolve" /\ pos' = 0
    BY <1>8 DEF GroupTypeOK, StartResolve, Call
  <2>2. QED
    BY <2>1 DEF CallTypeOK
<1>11. resolving' = t
  BY Zenon, <1>t DEF StartResolve, groupVars
<1>12. Rest' /\ LogInv' /\ LogTypeOK'
  BY Zenon, <1>1, <1>2, <1>3, <1>5, <1>6, <1>7, <1>9, <1>11, OneTxnKeeps
<1>13. CallAgrees'
  BY Zenon, <1>1, <1>11 DEF CallAgrees, StartResolve, Quiet, Call, envVars
<1>14. QED
  BY Zenon, <1>8, <1>9, <1>10, <1>12, <1>13 DEF Inv, CommitTypeOK

(* A resolution that is complete preserves the invariant.                  *)
LEMMA ResolveDoneInv ==
    ASSUME Inv, ResolveDone
    PROVE  Inv'
<1>0. resolving \in Txns /\ resolving # NoTxn
  BY Zenon DEF Inv, CommitTypeOK, ResolveDone, GroupTypeOK, CallAgrees, Running
<1>t. PICK t \in Txns : t = resolving
  BY Zenon, <1>0
<1>1. CommitTypeOK /\ LogOK /\ GroupAgrees /\ t # NoTxn
  BY Zenon, <1>0, <1>t DEF Inv, CommitTypeOK, LogOK, Rest
<1>2. TxnAgrees(t) /\ state[t] \in {"Preparing", "RollbackPending"}
  BY Zenon, <1>1, <1>t DEF Inv, Rest, GroupAgrees
<1>3. /\ state'[t] = "RolledBack" /\ wset' = wset /\ part' = part /\ wal' = wal
      /\ \A s \in wset[t] : part[t][s] = "RolledBack"
      /\ \A u \in Txns : u # t => state'[u] = state[u]
  BY Zenon, <1>1, <1>t DEF ResolveDone, SetStates, CommitTypeOK, TxnTypeOK, storageVars
<1>4. LogStays
  BY Zenon, <1>1, FlushLog DEF ResolveDone
<1>5. OneTxn(t)
  BY Zenon, <1>3, <1>4 DEF OneTxn, ResolveDone, Untouched, history, LogStays, envVars
<1>6. ~Decided(t) /\ wset[t] # {}
  BY Zenon, <1>2 DEF TxnAgrees, HandleAgrees, Unlogged
<1>7. TxnAgrees(t)'
  <2>1. ~Decided(t)'
    BY Zenon, <1>4, <1>6 DEF LogStays, Decided
  <2>2. mode' = "up"
    BY Zenon DEF ResolveDone, Running, envVars
  <2>3. HandleAgrees(t)'
    BY Zenon, <1>3, <1>6, <2>1, <2>2 DEF HandleAgrees, AllIn, Applying, Parked
  <2>4. ASSUME NEW s \in wset'[t] PROVE WalAgrees(t, s)' /\ LogAgrees(t, s)'
    <3>1. WalAgrees(t, s) /\ LogAgrees(t, s)
      BY Zenon, <1>2, <1>3 DEF TxnAgrees
    <3>2. QED
      BY Zenon, <1>2, <1>3, <1>6, <2>1, <3>1 DEF WalAgrees, LogAgrees
  <2>5. QED
    BY Zenon, <1>2, <1>3, <2>3, <2>4 DEF TxnAgrees
<1>8. GroupTypeOK'
  BY Zenon, <1>1 DEF ResolveDone, CommitTypeOK, GroupTypeOK
<1>9. TxnTypeOK'
  BY Zenon, <1>1 DEF ResolveDone, SetStates, CommitTypeOK, TxnTypeOK, TxnStates, history
<1>10. CallTypeOK' /\ EnvTypeOK' /\ StorageTypeOK'
  BY Zenon, <1>1, <1>8, TypeFrame, ReturnTyped DEF ResolveDone
<1>11. resolving' = NoTxn
  BY Zenon DEF ResolveDone
<1>12. Rest' /\ LogInv' /\ LogTypeOK'
  BY Zenon, <1>1, <1>2, <1>3, <1>5, <1>6, <1>7, <1>9, <1>11, OneTxnKeeps
<1>13. CallAgrees'
  BY Zenon, CallReturns DEF ResolveDone, Running, Return, envVars
<1>14. QED
  BY Zenon, <1>8, <1>9, <1>10, <1>12, <1>13 DEF Inv, CommitTypeOK

-------------------------------------------------------------------------------
(* Rolling members back.                                                   *)

(* The member an abort is at is an undecided member.                       *)
LEMMA AbortTarget ==
    ASSUME Inv, InAbort
    PROVE  /\ pos \in DOMAIN group /\ group[pos] \in Txns /\ group[pos] \in InGroup
           /\ ~Decided(group[pos]) /\ resolving = NoTxn /\ ~Known
<1>1. pos \in DOMAIN group
  <2>1. pos \in Nat /\ Len(group) \in Nat /\ DOMAIN group = 1..Len(group)
    BY DEF Inv, CommitTypeOK, CallTypeOK, GroupTypeOK
  <2>2. pos > 0 /\ pos <= Len(group)
    BY Zenon DEF InAbort, Inv, CallAgrees
  <2>3. QED
    BY <2>1, <2>2
<1>2. group[pos] \in Txns /\ group[pos] \in InGroup
  BY Zenon, <1>1, MembersTyped DEF Inv, CommitTypeOK
<1>3. ~Decided(group[pos]) /\ resolving = NoTxn /\ ~Known
  BY Zenon, <1>1 DEF InAbort, Inv, CallAgrees
<1>4. QED
  BY Zenon, <1>1, <1>2, <1>3

(* Beginning the rollback of a parked member preserves the invariant.      *)
LEMMA AbortMemberInv ==
    ASSUME Inv, AbortMember
    PROVE  Inv'
<1>0. /\ pos \in DOMAIN group /\ group[pos] \in Txns /\ group[pos] \in InGroup
      /\ ~Decided(group[pos]) /\ resolving = NoTxn
  BY Zenon, AbortTarget DEF AbortMember
<1>t. PICK t \in Txns : t = group[pos]
  BY Zenon, <1>0
<1>1. CommitTypeOK /\ LogOK /\ GroupAgrees /\ CallAgrees /\ TxnAgrees(t) /\ t # NoTxn
  BY Zenon, GroupAssumption DEF Inv, CommitTypeOK, LogOK, Rest
<1>2. /\ state[t] \in Parked /\ state'[t] = "RollbackPending"
      /\ wset' = wset /\ part' = part /\ wal' = wal
      /\ \A u \in Txns : u # t => state'[u] = state[u]
  BY Zenon, <1>1, <1>t DEF AbortMember, SetStates, CommitTypeOK, TxnTypeOK, storageVars
<1>3. LogStays
  BY Zenon, <1>1, FlushLog DEF AbortMember
<1>4. OneTxn(t)
  BY Zenon, <1>2, <1>3 DEF OneTxn, AbortMember, Untouched, history, LogStays, groupVars, envVars
<1>5. ~Decided(t) /\ ~Decided(t)' /\ wset[t] # {}
  BY Zenon, <1>0, <1>1, <1>2, <1>3, <1>t
  DEF TxnAgrees, HandleAgrees, LogStays, Decided, Parked
<1>6. TxnAgrees(t)'
  <2>1. mode' = "up"
    BY Zenon DEF AbortMember, InAbort, envVars
  <2>2. HandleAgrees(t)'
    BY Zenon, <1>2, <1>5, <2>1 DEF HandleAgrees, Applying, Parked
  <2>3. ASSUME NEW s \in wset'[t] PROVE WalAgrees(t, s)' /\ LogAgrees(t, s)'
    <3>1. WalAgrees(t, s) /\ LogAgrees(t, s) /\ part[t][s] \in Parked
      BY Zenon, <1>1, <1>2, <2>3 DEF TxnAgrees, HandleAgrees, AllIn
    <3>2. QED
      BY Zenon, <1>2, <1>5, <3>1 DEF WalAgrees, LogAgrees, Parked
  <2>4. QED
    BY Zenon, <1>1, <1>2, <2>2, <2>3 DEF TxnAgrees
<1>7. GroupTypeOK' /\ CallTypeOK' /\ EnvTypeOK' /\ StorageTypeOK'
  BY Zenon, <1>1, TypeFrame DEF AbortMember, callVars, groupVars
<1>8. TxnTypeOK'
  BY Zenon, <1>1 DEF AbortMember, SetStates, CommitTypeOK, TxnTypeOK, TxnStates, history
<1>9. resolving' = resolving /\ resolving # t
  BY Zenon, <1>0, <1>1 DEF AbortMember, groupVars
<1>10. Rest' /\ LogInv' /\ LogTypeOK'
  BY Zenon, <1>1, <1>2, <1>4, <1>5, <1>6, <1>8, <1>9, OneTxnKeeps
<1>11. CallAgrees'
  <2>1. /\ call' = call /\ call \in {"abort", "tail"} /\ pos' = pos /\ group' = group
        /\ sequences' = sequences /\ seqOf' = seqOf /\ resolving' = NoTxn /\ mode' = "up"
    BY Zenon, <1>0, <1>3, <1>9
    DEF AbortMember, InAbort, callVars, groupVars, LogStays, envVars
  <2>2. ASSUME call = "abort", NEW i \in DOMAIN group
        PROVE  ~Decided(group[i])' /\ (i > pos => state'[group[i]] = "RolledBack")
    <3>1. ~Decided(group[i]) /\ (i > pos => state[group[i]] = "RolledBack")
      BY Zenon, <1>1, <2>2 DEF CallAgrees
    <3>2. group[i] \in Txns /\ (i > pos => group[i] # t)
      BY Zenon, <1>1, <1>2, <3>1, MembersTyped DEF CommitTypeOK, Parked
    <3>3. QED
      BY Zenon, <1>2, <2>1, <3>1, <3>2 DEF Decided
  <2>3. QED
    BY Zenon, <1>1, <2>1, <2>2 DEF CallAgrees, Known, Decided
<1>12. QED
  BY Zenon, <1>7, <1>8, <1>10, <1>11 DEF Inv, CommitTypeOK

(* What rolling back participant s of t may do.                            *)
RollbackStep(t, s) ==
    /\ \A u \in Txns : u # t => part'[u] = part[u] /\ wal'[u] = wal[u]
    /\ \A r \in Storages : r # s => part'[t][r] = part[t][r] /\ wal'[t][r] = wal[t][r]
    /\ \/ part'[t][s] = part[t][s] /\ wal'[t][s] = wal[t][s]
       \/ part'[t][s] = "RollbackPending" /\ wal'[t][s] \in {wal[t][s], "Abort"}
       \/ part'[t][s] = "RolledBack" /\ wal'[t][s] = "Abort"

(* It keeps everything but what is said of the running call.               *)
LEMMA RollbackKeeps ==
    ASSUME Inv, NEW t \in Txns, NEW s \in wset[t], RollbackStep(t, s),
           state[t] = "RollbackPending", mode = "up",
           UNCHANGED <<logVars, groupVars, history, txnVars, snap, mode>>
    PROVE  Rest' /\ LogInv' /\ LogTypeOK'
<1>1. CommitTypeOK /\ LogOK /\ TxnAgrees(t) /\ t # NoTxn
  BY Zenon, GroupAssumption DEF Inv, CommitTypeOK, LogOK, Rest
<1>2. LogStays
  BY Zenon, <1>1, FlushLog
<1>3. state' = state /\ wset' = wset /\ resolving' = resolving /\ seqOf' = seqOf
  BY Zenon, <1>2 DEF txnVars, groupVars, LogStays
<1>4. OneTxn(t)
  BY Zenon, <1>2, <1>3 DEF OneTxn, Untouched, RollbackStep, groupVars, history
<1>5. ~Decided(t) /\ ~Decided(t)' /\ wset[t] # {} /\ wset[t] \subseteq Storages
  BY Zenon, <1>1, <1>3 DEF TxnAgrees, HandleAgrees, Unlogged, Decided, CommitTypeOK, TxnTypeOK
<1>6. HandleAgrees(t)'
  BY Zenon, <1>3, <1>5 DEF HandleAgrees, Applying, Parked
<1>7. ASSUME NEW r \in wset'[t] PROVE WalAgrees(t, r)' /\ LogAgrees(t, r)'
  <2>1. WalAgrees(t, r) /\ LogAgrees(t, r) /\ r \in Storages
    BY Zenon, <1>1, <1>3, <1>5, <1>7 DEF TxnAgrees
  <2>2. CASE part'[t][r] = part[t][r] /\ wal'[t][r] = wal[t][r]
    BY Zenon, <1>3, <1>5, <2>1, <2>2 DEF WalAgrees, LogAgrees
  <2>3. CASE r = s /\ part'[t][s] = "RollbackPending" /\ wal'[t][s] \in {wal[t][s], "Abort"}
    <3>1. part[t][s] \notin {"ChangeFinalizePending", "Committed", "CommitPending"}
      BY Zenon, <1>5, <2>1, <2>3 DEF LogAgrees
    <3>2. part[t][s] \in PartStates
      BY Zenon, <1>1, <2>1, <2>3 DEF CommitTypeOK, StorageTypeOK
    <3>3. wal[t][s] # "Commit"
      BY Zenon, <2>1, <2>3, <3>1, <3>2 DEF WalAgrees, PartStates, Parked, Pending
    <3>4. QED
      BY Zenon, <1>5, <2>3, <3>3 DEF WalAgrees, LogAgrees
  <2>4. CASE r = s /\ part'[t][s] = "RolledBack" /\ wal'[t][s] = "Abort"
    BY Zenon, <1>5, <2>4 DEF WalAgrees, LogAgrees
  <2>5. QED
    BY Zenon, <2>1, <2>2, <2>3, <2>4 DEF RollbackStep
<1>8. TxnAgrees(t)'
  BY Zenon, <1>1, <1>3, <1>6, <1>7 DEF TxnAgrees, RollbackStep
<1>9. TxnTypeOK'
  BY Zenon, <1>1, TypeFrame
<1>10. t \in InGroup => state'[t] \in {"RollbackPending", "RolledBack"}
  BY Zenon, <1>3
<1>11. QED
  BY Zenon, <1>1, <1>3, <1>4, <1>5, <1>8, <1>9, <1>10, OneTxnKeeps

(* The member being rolled back is a transaction waiting for it.           *)
LEMMA TargetTyped ==
    ASSUME Inv, NEW s \in Storages, AtRollback(s)
    PROVE  /\ Target \in Txns /\ state[Target] = "RollbackPending" /\ s \in wset[Target]
           /\ mode = "up"
<1>1. CASE Running("resolve")
  <2>1. Target = resolving /\ resolving \in Txns
    BY Zenon, <1>1 DEF Target, Running, Inv, CallAgrees, CommitTypeOK, GroupTypeOK
  <2>2. QED
    BY Zenon, <1>1, <2>1 DEF AtRollback, Running
<1>2. CASE InAbort
  <2>1. Target = group[pos] /\ group[pos] \in Txns
    BY Zenon, <1>2, AbortTarget DEF Target, InAbort
  <2>2. QED
    BY Zenon, <1>2, <2>1 DEF AtRollback, InAbort
<1>3. QED
  BY Zenon, <1>1, <1>2 DEF AtRollback

(* Taking a participant off the deque leaves a deque.                      *)
LEMMA LeaveTailTyped ==
    ASSUME CommitTypeOK, NEW s \in Storages, NEW t, LeaveTail(t, s)
    PROVE  chain' \in [Storages -> Seq(Txns)]
<1>1. chain \in [Storages -> Seq(Txns)] /\ chain[s] \in Seq(Txns)
  BY Zenon DEF CommitTypeOK, StorageTypeOK
<1>2. t \in Members(chain[s]) => Len(chain[s]) \in Nat /\ Len(chain[s]) > 0
  BY <1>1 DEF Members
<1>3. t \in Members(chain[s]) => SubSeq(chain[s], 1, Len(chain[s]) - 1) \in Seq(Txns)
  BY <1>1, <1>2
<1>4. QED
  BY Zenon, <1>1, <1>3 DEF LeaveTail

(* Setting one participant of t, in part or in wal.                        *)
LEMMA SetPartsOne ==
    ASSUME CommitTypeOK, NEW t \in Txns, NEW s \in Storages, NEW p \in PartStates, SetParts({t}, s, p)
    PROVE  /\ part' \in [Txns -> [Storages -> PartStates]]
           /\ part'[t][s] = p
           /\ \A r \in Storages : r # s => part'[t][r] = part[t][r]
           /\ \A u \in Txns : u # t => part'[u] = part[u]
BY Zenon DEF CommitTypeOK, StorageTypeOK, SetParts

(* The same for the WAL.                                                   *)
LEMMA SetWalsOne ==
    ASSUME CommitTypeOK, NEW t \in Txns, NEW s \in Storages, SetWals({t}, s, "Abort")
    PROVE  /\ wal' \in [Txns -> [Storages -> {"none", "Prepare", "Commit", "Abort"}]]
           /\ wal'[t][s] = "Abort"
           /\ \A r \in Storages : r # s => wal'[t][r] = wal[t][r]
           /\ \A u \in Txns : u # t => wal'[u] = wal[u]
BY Zenon DEF CommitTypeOK, StorageTypeOK, SetWals

(* Both together roll the participant back.                                *)
LEMMA RolledBackStep ==
    ASSUME CommitTypeOK, NEW t \in Txns, NEW s \in Storages,
           SetParts({t}, s, "RolledBack"), SetWals({t}, s, "Abort")
    PROVE  /\ RollbackStep(t, s)
           /\ part' \in [Txns -> [Storages -> PartStates]]
           /\ wal' \in [Txns -> [Storages -> {"none", "Prepare", "Commit", "Abort"}]]
<1>1. "RolledBack" \in PartStates
  BY Zenon DEF PartStates
<1>2. /\ part' \in [Txns -> [Storages -> PartStates]]
      /\ part'[t][s] = "RolledBack"
      /\ \A r \in Storages : r # s => part'[t][r] = part[t][r]
      /\ \A u \in Txns : u # t => part'[u] = part[u]
  BY Zenon, <1>1, SetPartsOne
<1>3. /\ wal' \in [Txns -> [Storages -> {"none", "Prepare", "Commit", "Abort"}]]
      /\ wal'[t][s] = "Abort"
      /\ \A r \in Storages : r # s => wal'[t][r] = wal[t][r]
      /\ \A u \in Txns : u # t => wal'[u] = wal[u]
  BY Zenon, SetWalsOne
<1>4. QED
  BY Zenon, <1>2, <1>3 DEF RollbackStep

(* A rollback of one participant preserves the invariant.                  *)
LEMMA RollbackOkInv ==
    ASSUME Inv, NEW s \in Storages, RollbackOk(s)
    PROVE  Inv'
<1>0. Target \in Txns /\ state[Target] = "RollbackPending" /\ s \in wset[Target] /\ mode = "up"
  BY Zenon, TargetTyped DEF RollbackOk
<1>t. PICK t \in Txns : t = Target
  BY Zenon, <1>0
<1>1. CommitTypeOK /\ "RolledBack" \in PartStates
  BY Zenon DEF Inv, PartStates
<1>2. SetParts({t}, s, "RolledBack") /\ SetWals({t}, s, "Abort") /\ LeaveTail(t, s)
  BY Zenon, <1>t DEF RollbackOk
<1>3. RollbackStep(t, s)
  BY Zenon, <1>1, <1>2, RolledBackStep
<1>4. Rest' /\ LogInv' /\ LogTypeOK'
  BY Zenon, <1>0, <1>3, <1>t, RollbackKeeps DEF RollbackOk, envVars
<1>5. GroupTypeOK' /\ CallTypeOK' /\ EnvTypeOK' /\ TxnTypeOK'
  BY Zenon, <1>1, TypeFrame DEF RollbackOk, callVars, groupVars
<1>6. StorageTypeOK'
  BY Zenon, <1>1, <1>2, RolledBackStep, LeaveTailTyped DEF StorageTypeOK, CommitTypeOK, RollbackOk
<1>7. CallAgrees'
  BY Zenon, CallFrame DEF Inv, RollbackOk, callVars, groupVars, txnVars, logVars, envVars
<1>8. QED
  BY Zenon, <1>4, <1>5, <1>6, <1>7 DEF Inv, CommitTypeOK

(* A rollback that fails somewhere preserves the invariant.                *)
LEMMA RollbackFailsInv ==
    ASSUME Inv, NEW s \in Storages, RollbackFails(s)
    PROVE  Inv'
<1>0. Target \in Txns /\ state[Target] = "RollbackPending" /\ s \in wset[Target] /\ mode = "up"
  BY Zenon, TargetTyped DEF RollbackFails
<1>t. PICK t \in Txns : t = Target
  BY Zenon, <1>0
<1>1. CommitTypeOK /\ {"RolledBack", "RollbackPending"} \subseteq PartStates
  BY Zenon DEF Inv, PartStates, Pending
<1>2. \/ UNCHANGED storageVars
      \/ /\ SetParts({t}, s, "RollbackPending")
         /\ \/ UNCHANGED <<wal, poisoned>>
            \/ SetWals({t}, s, "Abort") /\ StatusFails(s)
         /\ UNCHANGED chain
      \/ /\ SetParts({t}, s, "RolledBack")
         /\ SetWals({t}, s, "Abort")
         /\ LeaveTail(t, s)
         /\ UNCHANGED poisoned
  BY Zenon, <1>t DEF RollbackFails
<1>3. RollbackStep(t, s) /\ StorageTypeOK'
  <2>1. CASE UNCHANGED storageVars
    BY Zenon, <1>1, <2>1, TypeFrame DEF RollbackStep, storageVars
  <2>2. CASE /\ SetParts({t}, s, "RollbackPending")
             /\ \/ UNCHANGED <<wal, poisoned>>
                \/ SetWals({t}, s, "Abort") /\ StatusFails(s)
             /\ UNCHANGED chain
    <3>1. poisoned' \subseteq Storages
      BY Zenon, <1>1, <2>2 DEF StatusFails, CommitTypeOK, StorageTypeOK
    <3>2. /\ part' \in [Txns -> [Storages -> PartStates]]
          /\ part'[t][s] = "RollbackPending"
          /\ \A r \in Storages : r # s => part'[t][r] = part[t][r]
          /\ \A u \in Txns : u # t => part'[u] = part[u]
      BY Zenon, <1>1, <2>2, SetPartsOne
    <3>3. /\ wal' \in [Txns -> [Storages -> {"none", "Prepare", "Commit", "Abort"}]]
          /\ wal'[t][s] \in {wal[t][s], "Abort"}
          /\ \A r \in Storages : r # s => wal'[t][r] = wal[t][r]
          /\ \A u \in Txns : u # t => wal'[u] = wal[u]
      <4>1. CASE UNCHANGED wal
        BY Zenon, <1>1, <4>1 DEF CommitTypeOK, StorageTypeOK
      <4>2. CASE SetWals({t}, s, "Abort")
        BY Zenon, <1>1, <4>2, SetWalsOne
      <4>3. QED
        BY Zenon, <2>2, <4>1, <4>2
    <3>4. QED
      BY Zenon, <1>1, <2>2, <3>1, <3>2, <3>3 DEF RollbackStep, StorageTypeOK, CommitTypeOK
  <2>3. CASE /\ SetParts({t}, s, "RolledBack")
             /\ SetWals({t}, s, "Abort")
             /\ LeaveTail(t, s)
             /\ UNCHANGED poisoned
    BY Zenon, <1>1, <2>3, RolledBackStep, LeaveTailTyped DEF StorageTypeOK, CommitTypeOK
  <2>4. QED
    BY Zenon, <1>2, <2>1, <2>2, <2>3
<1>4. Rest' /\ LogInv' /\ LogTypeOK'
  BY Zenon, <1>0, <1>3, <1>t, RollbackKeeps DEF RollbackFails
<1>5. GroupTypeOK' /\ EnvTypeOK' /\ TxnTypeOK'
  <2>1. UNCHANGED faults \/ Fault
    BY Zenon DEF RollbackFails
  <2>2. QED
    BY Zenon, <1>1, <2>1, TypeFrame DEF RollbackFails
<1>6. CallTypeOK'
  BY Zenon, <1>5, ReturnTyped DEF RollbackFails
<1>7. CallAgrees'
  BY Zenon, <1>0, CallReturns DEF RollbackFails, Return
<1>8. QED
  BY Zenon, <1>3, <1>4, <1>5, <1>6, <1>7 DEF Inv, CommitTypeOK

(* A group without its last member.                                        *)
LEMMA ShorterGroup ==
    ASSUME GroupTypeOK, NEW n \in DOMAIN group, n = Len(group), group' = SubSeq(group, 1, n - 1)
    PROVE  /\ group' \in Seq(Txns) /\ Len(group') = n - 1
           /\ \A i \in DOMAIN group' : i \in DOMAIN group /\ group'[i] = group[i]
           /\ \A i, j \in DOMAIN group' : group'[i] = group'[j] => i = j
           /\ \A t \in InGroup' : t \in InGroup
           /\ \A t \in InGroup : t = group[n] \/ t \in InGroup'
<1>1. group \in Seq(Txns) /\ Len(group) \in Nat /\ n \in 1..Len(group)
  BY DEF GroupTypeOK
<1>2. /\ group' \in Seq(Txns) /\ Len(group') = n - 1 /\ DOMAIN group' = 1..(n - 1)
      /\ \A i \in 1..(n - 1) : group'[i] = group[i]
  BY <1>1
<1>3. DOMAIN group = 1..n /\ n \in Nat
  BY <1>1
<1>4. \A i \in DOMAIN group' : i \in DOMAIN group /\ group'[i] = group[i]
  BY <1>2, <1>3
<1>5. \A i \in DOMAIN group : i = n \/ i \in DOMAIN group'
  BY <1>2, <1>3
<1>6. \A i, j \in DOMAIN group' : group'[i] = group'[j] => i = j
  BY Zenon, <1>4 DEF GroupTypeOK
<1>7. \A t \in InGroup' : t \in InGroup
  BY Zenon, <1>4 DEF InGroup, Members
<1>8. \A t \in InGroup : t = group[n] \/ t \in InGroup'
  BY Zenon, <1>4, <1>5 DEF InGroup, Members
<1>9. QED
  BY Zenon, <1>2, <1>4, <1>6, <1>7, <1>8

(* No group: nothing to say of its members.                                *)
LEMMA EmptyGroup ==
    ASSUME NoGroup
    PROVE  /\ GroupTypeOK' /\ GroupAgrees' /\ OrderAgrees' /\ InGroup' = {} /\ group' = <<>>
<1>1. /\ group' = <<>> /\ durable' = {} /\ authoritative' = {} /\ sequences' = 0
      /\ resolving' = NoTxn /\ prepare' = "none" /\ active' = FALSE /\ barrier' = FALSE
  BY Zenon DEF NoGroup
<1>2. group' \in Seq(Txns) /\ DOMAIN group' = {} /\ Len(group') = 0
  BY <1>1
<1>3. InGroup' = {}
  BY Zenon, <1>2 DEF InGroup, Members
<1>4. 1..sequences' = {} /\ ~Known' /\ sequences' <= Len(group') /\ sequences' \in Nat
  BY <1>1, <1>2 DEF Known
<1>5. GroupTypeOK'
  BY Zenon, <1>1, <1>2, <1>4 DEF GroupTypeOK
<1>6. GroupAgrees'
  BY Zenon, <1>1, <1>3, <1>4 DEF GroupAgrees, WritersOf
<1>7. OrderAgrees'
  BY Zenon, <1>2, <1>3, <1>4 DEF OrderAgrees
<1>8. QED
  BY Zenon, <1>1, <1>3, <1>5, <1>6, <1>7

(* A member that is rolled back whole, in abort_group, preserves the       *)
(* invariant.                                                              *)
LEMMA AbortMemberDoneInv ==
    ASSUME Inv, AbortMemberDone, call = "abort"
    PROVE  Inv'
<1>0. /\ pos \in DOMAIN group /\ group[pos] \in Txns /\ group[pos] \in InGroup
      /\ ~Decided(group[pos]) /\ resolving = NoTxn /\ ~Known
  BY Zenon, AbortTarget DEF AbortMemberDone
<1>t. PICK t \in Txns : t = group[pos]
  BY Zenon, <1>0
<1>1. CommitTypeOK /\ LogOK /\ GroupAgrees /\ CallAgrees /\ TxnAgrees(t) /\ t # NoTxn
  BY Zenon, GroupAssumption DEF Inv, CommitTypeOK, LogOK, Rest
<1>2. /\ state[t] = "RollbackPending" /\ state'[t] = "RolledBack"
      /\ \A s \in wset[t] : part[t][s] = "RolledBack"
      /\ wset' = wset /\ part' = part /\ wal' = wal
      /\ \A u \in Txns : u # t => state'[u] = state[u]
  BY Zenon, <1>1, <1>t DEF AbortMemberDone, SetStates, CommitTypeOK, TxnTypeOK, storageVars
<1>3. LogStays
  BY Zenon, <1>1, FlushLog DEF AbortMemberDone
<1>4. /\ group' = group /\ durable' = durable /\ acked' = acked
      /\ call' = "abort" /\ pos' = pos - 1 /\ resolving' = NoTxn
  BY Zenon, <1>0 DEF AbortMemberDone, Call
<1>5. OneTxn(t)
  BY Zenon, <1>2, <1>3, <1>4 DEF OneTxn, AbortMemberDone, Untouched, LogStays, envVars
<1>6. ~Decided(t) /\ ~Decided(t)' /\ wset[t] # {}
  BY Zenon, <1>0, <1>1, <1>2, <1>3, <1>t DEF TxnAgrees, HandleAgrees, LogStays, Decided
<1>7. TxnAgrees(t)'
  <2>1. mode' = "up"
    BY Zenon DEF AbortMemberDone, InAbort, envVars
  <2>2. HandleAgrees(t)'
    BY Zenon, <1>2, <1>6, <2>1 DEF HandleAgrees, AllIn, Applying, Parked
  <2>3. ASSUME NEW s \in wset'[t] PROVE WalAgrees(t, s)' /\ LogAgrees(t, s)'
    <3>1. WalAgrees(t, s) /\ LogAgrees(t, s) /\ part[t][s] = "RolledBack"
      BY Zenon, <1>1, <1>2, <2>3 DEF TxnAgrees
    <3>2. QED
      BY Zenon, <1>2, <1>6, <3>1 DEF WalAgrees, LogAgrees
  <2>4. QED
    BY Zenon, <1>1, <1>2, <2>2, <2>3 DEF TxnAgrees
<1>8. GroupTypeOK'
  BY Zenon, <1>1, <1>4 DEF AbortMemberDone, CommitTypeOK, GroupTypeOK
<1>9. EnvTypeOK' /\ StorageTypeOK'
  BY Zenon, <1>1, TypeFrame DEF AbortMemberDone
<1>10. TxnTypeOK'
  BY Zenon, <1>1, <1>4 DEF AbortMemberDone, SetStates, CommitTypeOK, TxnTypeOK, TxnStates
<1>11. /\ pos \in 1..Len(group) /\ Len(group) \in Nat /\ DOMAIN group = 1..Len(group)
       /\ \A i \in DOMAIN group : i > pos' => i > pos \/ i = pos
  BY <1>0, <1>1, <1>4 DEF CommitTypeOK, GroupTypeOK
<1>12. CallTypeOK' /\ pos' <= Len(group')
  BY <1>4, <1>11 DEF CallTypeOK
<1>13. Rest' /\ LogInv' /\ LogTypeOK'
  BY Zenon, <1>1, <1>2, <1>4, <1>5, <1>6, <1>7, <1>10, OneTxnKeeps
<1>14. CallAgrees'
  <2>1. sequences' = sequences /\ seqOf' = seqOf /\ mode' = "up"
    BY Zenon, <1>3 DEF AbortMemberDone, InAbort, LogStays, envVars
  <2>2. ASSUME NEW i \in DOMAIN group
        PROVE  ~Decided(group[i])' /\ (i > pos' => state'[group[i]] = "RolledBack")
    <3>1. ~Decided(group[i]) /\ (i > pos => state[group[i]] = "RolledBack")
      BY Zenon, <1>1 DEF CallAgrees
    <3>2. group[i] \in Txns
      BY Zenon, <1>1, MembersTyped DEF CommitTypeOK
    <3>3. QED
      BY Zenon, <1>t, <1>2, <1>4, <1>11, <2>1, <3>1, <3>2 DEF Decided
  <2>3. QED
    BY Zenon, <1>0, <1>4, <1>12, <2>1, <2>2 DEF CallAgrees, Known, Decided
<1>15. QED
  BY Zenon, <1>8, <1>9, <1>10, <1>12, <1>13, <1>14 DEF Inv, CommitTypeOK

-------------------------------------------------------------------------------
(* Leaving the group.                                                      *)

(* A member that is rolled back whole, in abort_group_tail, preserves the  *)
(* invariant.                                                              *)
LEMMA AbortTailDoneInv ==
    ASSUME Inv, AbortMemberDone, call = "tail"
    PROVE  Inv'
<1>0. /\ pos \in DOMAIN group /\ group[pos] \in Txns /\ group[pos] \in InGroup
      /\ ~Decided(group[pos]) /\ resolving = NoTxn /\ ~Known
  BY Zenon, AbortTarget DEF AbortMemberDone
<1>t. PICK t \in Txns : t = group[pos]
  BY Zenon, <1>0
<1>1. /\ CommitTypeOK /\ LogOK /\ GroupAgrees /\ OrderAgrees /\ HistoryAgrees /\ SnapAgrees /\ CallAgrees
      /\ TxnAgrees(t)
  BY Zenon DEF Inv, CommitTypeOK, LogOK, Rest
<1>2. /\ state[t] = "RollbackPending" /\ state'[t] = "RolledBack"
      /\ \A s \in wset[t] : part[t][s] = "RolledBack"
      /\ wset' = wset /\ part' = part /\ wal' = wal
      /\ \A u \in Txns : u # t => state'[u] = state[u]
  BY Zenon, <1>1, <1>t DEF AbortMemberDone, SetStates, CommitTypeOK, TxnTypeOK, storageVars
<1>3. LogStays /\ LogTypeOK' /\ LogInv' /\ seqOf' = seqOf /\ stable <= stable'
  BY Zenon, <1>1, FlushLog DEF AbortMemberDone, LogStays, LogOK
<1>4. /\ group' = SubSeq(group, 1, pos - 1) /\ durable' = {} /\ Return
      /\ acked' = [acked EXCEPT !.abort = @ \union {t}] /\ records' = records
      /\ prepare' = prepare /\ authoritative' = authoritative /\ sequences' = sequences
      /\ resolving' = NoTxn /\ snap' = snap /\ mode' = mode /\ mode = "up"
  BY Zenon, <1>0, <1>t DEF AbortMemberDone, envVars, InAbort
<1>5. pos = Len(group)
  BY Zenon, <1>1 DEF CallAgrees
<1>6. /\ group' \in Seq(Txns) /\ Len(group') = pos - 1
      /\ \A i \in DOMAIN group' : i \in DOMAIN group /\ group'[i] = group[i]
      /\ \A i, j \in DOMAIN group' : group'[i] = group'[j] => i = j
      /\ \A u \in InGroup' : u \in InGroup
      /\ \A u \in InGroup : u = group[pos] \/ u \in InGroup'
  BY Zenon, <1>0, <1>1, <1>4, <1>5, ShorterGroup DEF CommitTypeOK
<1>7. GroupTypeOK'
  BY Zenon, <1>1, <1>4, <1>6 DEF AbortMemberDone, CommitTypeOK, GroupTypeOK
<1>8. CallTypeOK' /\ EnvTypeOK' /\ StorageTypeOK' /\ CallAgrees'
  BY Zenon, <1>1, <1>4, <1>7, TypeFrame, ReturnTyped, CallReturns DEF AbortMemberDone, Return
<1>9. TxnTypeOK'
  <2>1. acked' \in [commit : SUBSET Txns, abort : SUBSET Txns]
    BY <1>1, <1>4 DEF CommitTypeOK, TxnTypeOK
  <2>2. QED
    BY Zenon, <1>1, <1>4, <2>1 DEF AbortMemberDone, SetStates, CommitTypeOK, TxnTypeOK, TxnStates
<1>10. ~Decided(t) /\ ~Decided(t)' /\ wset[t] # {}
  BY Zenon, <1>0, <1>1, <1>2, <1>3, <1>t DEF TxnAgrees, HandleAgrees, Decided
<1>11. ASSUME NEW u \in Txns PROVE TxnAgrees(u)'
  <2>1. CASE u # t
    <3>1. stable' \in Nat
      BY <1>3 DEF LogTypeOK
    <3>2. QED
      BY Zenon, <1>2, <1>3, <1>4, <2>1, <3>1, TxnFrame DEF Untouched
  <2>2. CASE u = t
    <3>1. HandleAgrees(t)'
      BY Zenon, <1>2, <1>4, <1>10 DEF HandleAgrees, AllIn, Applying, Parked
    <3>2. ASSUME NEW s \in wset'[t] PROVE WalAgrees(t, s)' /\ LogAgrees(t, s)'
      <4>1. WalAgrees(t, s) /\ LogAgrees(t, s) /\ part[t][s] = "RolledBack"
        BY Zenon, <1>1, <1>2, <3>2 DEF TxnAgrees
      <4>2. QED
        BY Zenon, <1>2, <1>10, <4>1 DEF WalAgrees, LogAgrees
    <3>3. QED
      BY Zenon, <1>1, <1>2, <2>2, <3>1, <3>2 DEF TxnAgrees
  <2>3. QED
    BY Zenon, <2>1, <2>2
<1>12. /\ sequences = 0 /\ sequences' = 0 /\ 1..sequences' = {} /\ ~Known'
       /\ sequences' <= Len(group')
  <2>1. sequences = 0 /\ pos \in Nat /\ pos > 0
    BY <1>0, <1>1, <1>5 DEF CommitTypeOK, GroupTypeOK, Known
  <2>2. QED
    BY <1>4, <1>6, <2>1 DEF Known
<1>13. \A u \in InGroup' : u \in InGroup /\ u \in Txns /\ state'[u] \in {state[u], "RolledBack"}
  BY Zenon, <1>1, <1>2, <1>6, MembersTyped DEF CommitTypeOK
<1>14. GroupAgrees'
  <2>1. \A u \in InGroup' : state'[u] \in MemberStates
    BY Zenon, <1>1, <1>13 DEF GroupAgrees, MemberStates
  <2>2. group' # <<>> => prepare' # "none"
    <3>1. group # <<>>
      BY <1>0, <1>1 DEF CommitTypeOK, GroupTypeOK
    <3>2. QED
      BY Zenon, <1>1, <1>4, <3>1 DEF GroupAgrees
  <2>3. prepare' = "Durable" => \A u \in InGroup' : state'[u] # "ParkedPreparePending"
    BY Zenon, <1>1, <1>4, <1>13 DEF GroupAgrees
  <2>4. authoritative' = {}
    BY Zenon, <1>0, <1>1, <1>4 DEF GroupAgrees
  <2>5. QED
    BY Zenon, <1>4, <1>12, <2>1, <2>2, <2>3, <2>4 DEF GroupAgrees
<1>15. OrderAgrees'
  <2>1. ASSUME NEW u \in InGroup', NEW v \in Txns, Decided(u)', seqOf'[v] > seqOf'[u]
        PROVE  v \in InGroup'
    <3>1. v \in InGroup
      BY Zenon, <1>1, <1>3, <1>13, <2>1 DEF OrderAgrees, Decided
    <3>2. v # t
      <4>1. seqOf[t] \in Nat /\ seqOf[u] \in Nat
        BY <1>1, <1>13 DEF CommitTypeOK, LogTypeOK
      <4>2. QED
        BY <1>3, <1>10, <2>1, <4>1 DEF Decided
    <3>3. QED
      BY Zenon, <1>t, <1>6, <3>1, <3>2
  <2>2. QED
    BY Zenon, <1>12, <2>1 DEF OrderAgrees
<1>16. HistoryAgrees'
  <2>1. \A u \in Txns : state[u] \in {"Dropped", "Committed", "RolledBack"} => state'[u] = state[u]
    BY Zenon, <1>2
  <2>2. acked'.commit = acked.commit /\ acked'.abort = acked.abort \union {t}
    BY <1>1, <1>4 DEF CommitTypeOK, TxnTypeOK
  <2>3. /\ \A u \in acked.commit : u \in Txns
        /\ \A u \in acked.abort : u \in Txns
        /\ \A c \in records : \A u \in c : u \in Txns
    BY <1>1 DEF CommitTypeOK, TxnTypeOK
  <2>4. /\ \A u \in acked'.commit : state'[u] = "Committed"
        /\ \A u \in acked'.abort : state'[u] = "RolledBack"
    <3>1. /\ \A u \in acked.commit : state[u] = "Committed"
          /\ \A u \in acked.abort : state[u] = "RolledBack"
      BY Zenon, <1>1 DEF HistoryAgrees
    <3>2. /\ \A u \in acked.commit : state'[u] = "Committed"
          /\ \A u \in acked.abort : state'[u] = "RolledBack"
      BY <2>1, <2>3, <3>1
    <3>3. QED
      BY Zenon, <1>2, <2>2, <3>2
  <2>5. /\ \A c \in records' : \A u \in c : Decided(u)' \/ state'[u] = "Dropped"
        /\ \A c \in records' : \A u, v \in c : Decided(u)' => Decided(v)'
    BY Zenon, <1>1, <1>3, <1>4, <2>1, <2>3 DEF HistoryAgrees, Decided
  <2>6. QED
    BY Zenon, <2>4, <2>5 DEF HistoryAgrees
<1>17. SnapAgrees'
  <2>1. stable' \in Nat
    BY <1>3 DEF LogTypeOK
  <2>2. \A u \in Txns : Decided(u) /\ u \notin InGroup' => u \notin InGroup /\ part'[u] = part[u]
    BY Zenon, <1>0, <1>2, <1>6
  <2>3. QED
    BY Zenon, <1>1, <1>2, <1>3, <1>4, <2>1, <2>2, SnapFrame
<1>18. QED
  BY Zenon, <1>3, <1>7, <1>8, <1>9, <1>11, <1>14, <1>15, <1>16, <1>17 DEF Inv, CommitTypeOK, Rest

(* The end of abort_group preserves the invariant.                         *)
LEMMA AbortDoneInv ==
    ASSUME Inv, AbortDone
    PROVE  Inv'
<1>1. CommitTypeOK /\ LogOK /\ HistoryAgrees /\ SnapAgrees /\ CallAgrees
  BY Zenon DEF Inv, CommitTypeOK, LogOK, Rest
<1>2. /\ call = "abort" /\ pos = 0 /\ mode = "up" /\ NoGroup /\ Return
      /\ acked' = [acked EXCEPT !.abort = @ \union InGroup] /\ records' = records
      /\ state' = state /\ wset' = wset /\ part' = part /\ wal' = wal
      /\ snap' = snap /\ mode' = mode
  BY Zenon DEF AbortDone, Running, txnVars, storageVars, envVars
<1>3. LogTypeOK' /\ LogInv' /\ seqOf' = seqOf /\ stable <= stable' /\ stable' \in Nat
  <2>1. LogTypeOK' /\ LogInv' /\ seqOf' = seqOf /\ stable <= stable'
    BY Zenon, <1>1, FlushLog DEF AbortDone, LogStays, LogOK
  <2>2. QED
    BY <2>1 DEF LogTypeOK
<1>4. GroupTypeOK' /\ GroupAgrees' /\ OrderAgrees' /\ InGroup' = {}
  BY Zenon, <1>2, EmptyGroup
<1>5. CallTypeOK' /\ EnvTypeOK' /\ StorageTypeOK' /\ CallAgrees'
  BY Zenon, <1>1, <1>2, <1>4, TypeFrame, ReturnTyped, CallReturns DEF AbortDone, Return
<1>6. ASSUME NEW t \in InGroup PROVE t \in Txns /\ ~Decided(t) /\ state[t] = "RolledBack"
  <2>1. PICK i \in DOMAIN group : t = group[i] /\ t \in Txns
    BY Zenon, <1>1, <1>6, MembersTyped DEF CommitTypeOK
  <2>2. i > pos
    BY <1>1, <1>2 DEF CommitTypeOK, GroupTypeOK
  <2>3. QED
    BY Zenon, <1>1, <1>2, <2>1, <2>2 DEF CallAgrees
<1>7. acked'.commit = acked.commit /\ acked'.abort = acked.abort \union InGroup
  BY <1>1, <1>2 DEF CommitTypeOK, TxnTypeOK
<1>8. TxnTypeOK'
  <2>1. acked' \in [commit : SUBSET Txns, abort : SUBSET Txns]
    <3>1. InGroup \subseteq Txns
      BY Zenon, <1>6
    <3>2. QED
      BY <1>1, <1>2, <3>1 DEF CommitTypeOK, TxnTypeOK
  <2>2. QED
    BY Zenon, <1>1, <1>2, <2>1 DEF CommitTypeOK, TxnTypeOK
<1>9. ASSUME NEW t \in Txns PROVE TxnAgrees(t)'
  BY Zenon, <1>2, <1>3, TxnFrame DEF Untouched
<1>10. HistoryAgrees'
  BY Zenon, <1>1, <1>2, <1>3, <1>6, <1>7 DEF HistoryAgrees, Decided
<1>11. SnapAgrees'
  BY Zenon, <1>1, <1>2, <1>3, <1>4, <1>6, SnapFrame
<1>12. QED
  BY Zenon, <1>3, <1>4, <1>5, <1>8, <1>9, <1>10, <1>11 DEF Inv, CommitTypeOK, Rest

-------------------------------------------------------------------------------
(* Parking a member.                                                       *)

(* A group with one more member.                                           *)
LEMMA LongerGroup ==
    ASSUME GroupTypeOK, NEW t \in Txns, t \notin InGroup, group' = Append(group, t)
    PROVE  /\ group' \in Seq(Txns) /\ Len(group') = Len(group) + 1 /\ group' # <<>>
           /\ \A i \in DOMAIN group : i \in DOMAIN group' /\ group'[i] = group[i]
           /\ \A i \in DOMAIN group' : i \in DOMAIN group \/ group'[i] = t
           /\ \A i, j \in DOMAIN group' : group'[i] = group'[j] => i = j
           /\ \A u \in InGroup' : u \in InGroup \/ u = t
           /\ \A u \in InGroup : u \in InGroup'
<1>1. group \in Seq(Txns) /\ Len(group) \in Nat /\ DOMAIN group = 1..Len(group)
  BY DEF GroupTypeOK
<1>2. /\ group' \in Seq(Txns) /\ Len(group') = Len(group) + 1
      /\ DOMAIN group' = 1..(Len(group) + 1)
      /\ \A i \in 1..Len(group) : group'[i] = group[i]
      /\ group'[Len(group) + 1] = t
  BY <1>1
<1>3. group' # <<>>
  BY <1>1, <1>2
<1>4. /\ \A i \in DOMAIN group : i \in DOMAIN group' /\ group'[i] = group[i]
      /\ \A i \in DOMAIN group' : i \in DOMAIN group \/ i = Len(group) + 1
  BY <1>1, <1>2
<1>5. \A i \in DOMAIN group : group[i] # t
  BY Zenon DEF InGroup, Members
<1>6. ASSUME NEW i \in DOMAIN group', NEW j \in DOMAIN group', group'[i] = group'[j] PROVE i = j
  BY Zenon, <1>2, <1>4, <1>5, <1>6 DEF GroupTypeOK
<1>7. /\ \A u \in InGroup' : u \in InGroup \/ u = t
      /\ \A u \in InGroup : u \in InGroup'
  BY Zenon, <1>2, <1>4 DEF InGroup, Members
<1>8. QED
  BY Zenon, <1>2, <1>3, <1>4, <1>6, <1>7

(* Parking a member with all of its participants preserves the invariant.  *)
LEMMA ParkOkInv ==
    ASSUME Inv, NEW t \in Txns, NEW m \in PrepareMode, ParkOk(t, m)
    PROVE  Inv'
<1>1. /\ CommitTypeOK /\ LogOK /\ TxnAgrees(t) /\ t # NoTxn
      /\ GroupAgrees /\ OrderAgrees /\ HistoryAgrees /\ SnapAgrees
  BY Zenon, GroupAssumption DEF Inv, CommitTypeOK, LogOK, Rest
<1>2. /\ state[t] = "Active" /\ state'[t] = ParkedAs(m) /\ wset' = wset
      /\ \A u \in Txns : u # t => state'[u] = state[u]
  BY Zenon, <1>1 DEF ParkOk, Parkable, SetStates, CommitTypeOK, TxnTypeOK
<1>3. /\ \A u \in Txns : u # t => part'[u] = part[u] /\ wal'[u] = wal[u]
      /\ \A r \in Storages :
           /\ part'[t][r] = IF r \in wset[t] THEN ParkedAs(m) ELSE part[t][r]
           /\ wal'[t][r] = IF r \in wset[t] /\ m = "Durable" THEN "Prepare" ELSE wal[t][r]
  BY Zenon, <1>1 DEF ParkOk, ParkAt, CommitTypeOK, StorageTypeOK
<1>4. /\ ParkedAs(m) \in Parked /\ (m = "Durable" <=> ParkedAs(m) = "ParkedPrepared")
      /\ m \in {"Durable", "Batched"}
  BY Zenon DEF ParkedAs, Parked, PrepareMode
<1>5. LogTypeOK' /\ LogInv' /\ seqOf' = seqOf /\ stable <= stable' /\ stable' \in Nat
  <2>1. LogTypeOK' /\ LogInv' /\ seqOf' = seqOf /\ stable <= stable'
    BY Zenon, <1>1, FlushLog DEF ParkOk, LogStays, LogOK
  <2>2. QED
    BY <2>1 DEF LogTypeOK
<1>6. ~Decided(t) /\ ~Decided(t)' /\ wset[t] # {} /\ wset[t] \subseteq Storages
  BY Zenon, <1>1, <1>2, <1>5 DEF TxnAgrees, HandleAgrees, Unlogged, CommitTypeOK, TxnTypeOK, Decided
<1>7. mode = "up" /\ mode' = mode /\ call' = "none" /\ call = "none" /\ pos' = pos
  BY Zenon DEF ParkOk, Parkable, Quiet, envVars, callVars
<1>8. ASSUME NEW u \in Txns PROVE TxnAgrees(u)'
  <2>1. CASE u # t
    BY Zenon, <1>2, <1>3, <1>5, <1>7, <2>1, TxnFrame DEF Untouched
  <2>2. CASE u = t
    <3>1. \A r \in wset[t] : part[t][r] = "Active" /\ wal[t][r] = "none"
      BY Zenon, <1>1, <1>2 DEF TxnAgrees, HandleAgrees, AllIn, WalAgrees
    <3>2. \A r \in wset[t] : /\ part'[t][r] = ParkedAs(m)
                             /\ wal'[t][r] = IF m = "Durable" THEN "Prepare" ELSE "none"
      BY Zenon, <1>3, <1>6, <3>1
    <3>3. HandleAgrees(t)'
      BY Zenon, <1>2, <1>4, <1>6, <1>7, <3>2 DEF HandleAgrees, AllIn, Parked, Unlogged, Applying
    <3>4. ASSUME NEW r \in wset'[t] PROVE WalAgrees(t, r)' /\ LogAgrees(t, r)'
      <4>1. \/ part'[t][r] = "ParkedPrepared" /\ wal'[t][r] = "Prepare"
            \/ part'[t][r] = "ParkedPreparePending" /\ wal'[t][r] = "none"
        BY Zenon, <1>2, <1>4, <3>2, <3>4 DEF Parked
      <4>2. QED
        BY Zenon, <1>6, <4>1 DEF WalAgrees, LogAgrees
    <3>5. ASSUME NEW r \in Storages \ wset[t] PROVE part'[t][r] = "none" /\ wal'[t][r] = "none"
      BY Zenon, <1>1, <1>3 DEF TxnAgrees
    <3>6. QED
      BY Zenon, <1>2, <2>2, <3>3, <3>4, <3>5 DEF TxnAgrees
  <2>3. QED
    BY Zenon, <2>1, <2>2
<1>9. t \notin InGroup
  BY Zenon, <1>1, <1>2 DEF GroupAgrees, MemberStates, Applying, Parked
<1>10. /\ group' \in Seq(Txns) /\ Len(group') = Len(group) + 1 /\ group' # <<>>
       /\ \A i \in DOMAIN group : i \in DOMAIN group' /\ group'[i] = group[i]
       /\ \A i \in DOMAIN group' : i \in DOMAIN group \/ group'[i] = t
       /\ \A i, j \in DOMAIN group' : group'[i] = group'[j] => i = j
       /\ \A u \in InGroup' : u \in InGroup \/ u = t
       /\ \A u \in InGroup : u \in InGroup'
  BY Zenon, <1>1, <1>9, LongerGroup DEF ParkOk, CommitTypeOK
<1>11. /\ prepare' = m /\ prepare \in {"none", m} /\ ~barrier /\ barrier' = barrier
       /\ durable' = durable /\ authoritative' = authoritative /\ sequences' = sequences
       /\ resolving' = NoTxn /\ active' = active /\ snap' = snap /\ history' = history
  BY Zenon DEF ParkOk, Parkable, history
<1>12. GroupTypeOK'
  BY Zenon, <1>1, <1>4, <1>10, <1>11 DEF CommitTypeOK, GroupTypeOK
<1>13. /\ Len(group) \in Nat /\ DOMAIN group = 1..Len(group) /\ sequences \in Nat
       /\ sequences <= Len(group)
  BY <1>1 DEF CommitTypeOK, GroupTypeOK, GroupAgrees
<1>14. CallTypeOK'
  <2>1. pos \in 0..(Len(group) + 1) /\ call \in {"none"}
    BY Zenon, <1>1, <1>7 DEF CommitTypeOK, CallTypeOK
  <2>2. pos' \in 0..(Len(group') + 1)
    BY <1>7, <1>10, <1>13, <2>1
  <2>3. QED
    BY Zenon, <1>7, <2>2 DEF CallTypeOK
<1>15. TxnTypeOK'
  BY Zenon, <1>1, <1>4 DEF ParkOk, SetStates, CommitTypeOK, TxnTypeOK, TxnStates, history
<1>16. StorageTypeOK'
  <2>1. ParkedAs(m) \in PartStates /\ "Active" \in PartStates
    BY Zenon, <1>4 DEF PartStates
  <2>2. \A r \in Storages : chain[r] \in Seq(Txns) /\ Append(chain[r], t) \in Seq(Txns)
    <3>1. \A r \in Storages : chain[r] \in Seq(Txns)
      BY Zenon, <1>1 DEF CommitTypeOK, StorageTypeOK
    <3>2. QED
      BY <3>1
  <2>3. chain' \in [Storages -> Seq(Txns)]
    BY Zenon, <2>2 DEF ParkOk, ParkAt
  <2>4. part' \in [Txns -> [Storages -> PartStates]]
    BY Zenon, <1>1, <2>1 DEF ParkOk, ParkAt, CommitTypeOK, StorageTypeOK
  <2>5. wal' \in [Txns -> [Storages -> {"none", "Prepare", "Commit", "Abort"}]]
    BY Zenon, <1>1 DEF ParkOk, ParkAt, CommitTypeOK, StorageTypeOK
  <2>6. QED
    BY Zenon, <1>1, <2>3, <2>4, <2>5 DEF StorageTypeOK, CommitTypeOK, ParkOk
<1>17. EnvTypeOK'
  BY Zenon, <1>1, TypeFrame DEF ParkOk
<1>18. \A u \in InGroup : u \in Txns /\ u # t
  BY Zenon, <1>1, <1>9, MembersTyped DEF CommitTypeOK
<1>19. \A i \in 1..sequences : i \in DOMAIN group /\ group'[i] = group[i] /\ group[i] \in InGroup
  <2>1. \A i \in 1..sequences : i \in DOMAIN group
    BY <1>13
  <2>2. QED
    BY Zenon, <1>1, <1>10, <2>1, MembersTyped DEF CommitTypeOK
<1>20. GroupAgrees'
  <2>0. \A u \in InGroup : state'[u] = state[u] /\ wal'[u] = wal[u]
    BY Zenon, <1>2, <1>3, <1>18
  <2>1. ASSUME NEW u \in InGroup' PROVE state'[u] \in MemberStates
    <3>1. CASE u = t
      BY Zenon, <1>2, <1>4, <3>1 DEF MemberStates
    <3>2. CASE u \in InGroup
      BY Zenon, <1>1, <2>0, <3>2 DEF GroupAgrees
    <3>3. QED
      BY Zenon, <1>10, <2>1, <3>1, <3>2
  <2>2. ASSUME prepare' = "Durable", NEW u \in InGroup' PROVE state'[u] # "ParkedPreparePending"
    <3>1. CASE u = t
      BY Zenon, <1>2, <1>4, <1>11, <2>2, <3>1
    <3>2. CASE u # t
      <4>1. u \in InGroup /\ group # <<>>
        <5>1. u \in InGroup
          BY Zenon, <1>10, <2>2, <3>2
        <5>2. DOMAIN group # {}
          BY Zenon, <1>1, <5>1, MembersTyped DEF CommitTypeOK
        <5>3. QED
          BY <5>1, <5>2
      <4>2. prepare = "Durable"
        BY Zenon, <1>1, <1>11, <2>2, <4>1 DEF GroupAgrees
      <4>3. QED
        BY Zenon, <1>1, <1>2, <1>18, <4>1, <4>2 DEF GroupAgrees
    <3>3. QED
      BY Zenon, <3>1, <3>2
  <2>3. sequences' <= Len(group')
    BY <1>10, <1>11, <1>13
  <2>4. \A i \in 1..sequences' : state'[group'[i]] \in Applying
    BY Zenon, <1>1, <1>11, <1>19, <2>0 DEF GroupAgrees
  <2>5. durable' = {}
    BY Zenon, <1>1, <1>11 DEF GroupAgrees
  <2>6. ASSUME NEW s \in authoritative', NEW u \in WritersOf(s)', state'[u] \in Applying
        PROVE  wal'[u][s] = "Commit"
    <3>1. u \in InGroup' /\ s \in wset[u] /\ u # t
      BY Zenon, <1>2, <1>4, <2>6 DEF WritersOf, Applying, Parked
    <3>2. u \in WritersOf(s) /\ u \in InGroup /\ state[u] \in Applying /\ s \in authoritative
      BY Zenon, <1>10, <1>11, <2>0, <2>6, <3>1 DEF WritersOf
    <3>3. wal[u][s] = "Commit"
      BY Zenon, <1>1, <3>2 DEF GroupAgrees
    <3>4. QED
      BY Zenon, <2>0, <3>2, <3>3
  <2>7. authoritative' # {} => Known'
    BY Zenon, <1>1, <1>11 DEF GroupAgrees, Known
  <2>8. prepare' # "none"
    BY Zenon, <1>4, <1>11
  <2>9. QED
    BY Zenon, <1>11, <2>1, <2>2, <2>3, <2>4, <2>5, <2>6, <2>7, <2>8 DEF GroupAgrees
<1>21. OrderAgrees'
  <2>1. ASSUME NEW u \in InGroup', NEW v \in Txns, Decided(u)', seqOf'[v] > seqOf'[u]
        PROVE  v \in InGroup'
    BY Zenon, <1>1, <1>5, <1>6, <1>10, <2>1 DEF OrderAgrees, Decided
  <2>2. \A i \in 1..sequences' : seqOf'[group'[i]] <= seqOf'[group'[sequences']]
    <3>1. CASE sequences = 0
      BY <1>11, <3>1
    <3>2. CASE sequences > 0
      <4>1. sequences \in 1..sequences
        BY <1>13, <3>2
      <4>2. QED
        BY Zenon, <1>1, <1>5, <1>11, <1>19, <4>1 DEF OrderAgrees
    <3>3. QED
      BY <1>13, <3>1, <3>2
  <2>3. ASSUME Known', NEW i \in DOMAIN group', i > sequences' PROVE ~Decided(group[i])'
    <3>1. CASE group'[i] = t
      BY Zenon, <1>6, <3>1 DEF Decided
    <3>2. CASE i \in DOMAIN group
      <4>1. ~Decided(group[i]) /\ group'[i] = group[i]
        BY Zenon, <1>1, <1>10, <1>11, <2>3, <3>2 DEF OrderAgrees, Known
      <4>2. QED
        BY Zenon, <1>5, <4>1 DEF Decided
    <3>3. QED
      BY Zenon, <1>10, <3>1, <3>2
  <2>4. QED
    BY Zenon, <2>1, <2>2, <2>3 DEF OrderAgrees
<1>22. HistoryAgrees'
  <2>1. \A u \in Txns : state[u] \in {"Dropped", "Committed", "RolledBack"} => state'[u] = state[u]
    BY Zenon, <1>2
  <2>2. QED
    BY Zenon, <1>1, <1>5, <1>11, <2>1, HistoryFrame DEF Decided
<1>23. SnapAgrees'
  <2>1. \A u \in Txns : Decided(u) /\ u \notin InGroup' => u \notin InGroup /\ part'[u] = part[u]
    BY Zenon, <1>3, <1>6, <1>10
  <2>2. QED
    BY Zenon, <1>1, <1>2, <1>5, <1>7, <1>11, <2>1, SnapFrame
<1>24. CallAgrees'
  BY Zenon, <1>7, CallReturns
<1>25. QED
  BY Zenon, <1>5, <1>8, <1>12, <1>14, <1>15, <1>16, <1>17, <1>20, <1>21, <1>22, <1>23, <1>24
  DEF Inv, CommitTypeOK, Rest

-------------------------------------------------------------------------------
(* Publishing the group.                                                   *)

(* Once every member is committed, the last member's sequence is the       *)
(* highest one.                                                            *)
LEMMA LastIsHighest ==
    ASSUME Inv, Known, \A i \in DOMAIN group : Decided(group[i])
    PROVE  /\ Len(group) \in DOMAIN group
           /\ \A u \in Txns : seqOf[u] <= seqOf[group[Len(group)]]
<1>1. CommitTypeOK /\ GroupAgrees /\ OrderAgrees
  BY Zenon DEF Inv, Rest
<1>2. /\ Len(group) \in Nat /\ DOMAIN group = 1..Len(group) /\ sequences \in Nat
      /\ sequences > 0 /\ sequences <= Len(group)
  BY <1>1 DEF CommitTypeOK, GroupTypeOK, GroupAgrees, Known
<1>3. Len(group) \in DOMAIN group /\ (sequences = Len(group) \/ Len(group) > sequences)
  <2>1. Len(group) \in 1..Len(group)
    BY <1>2
  <2>2. Len(group) \in DOMAIN group
    BY Zenon, <1>2, <2>1
  <2>3. sequences = Len(group) \/ Len(group) > sequences
    <3>1. \A m, n \in Nat : m <= n => m = n \/ n > m
      OBVIOUS
    <3>2. QED
      BY Zenon, <1>2, <3>1
  <2>4. QED
    BY Zenon, <2>2, <2>3
<1>4. sequences = Len(group)
  BY Zenon, <1>1, <1>3 DEF OrderAgrees
<1>5. ASSUME NEW u \in Txns, seqOf[u] > seqOf[group[Len(group)]] PROVE FALSE
  <2>1. u \in InGroup
    BY Zenon, <1>1, <1>3, <1>5, MembersTyped DEF OrderAgrees, CommitTypeOK
  <2>2. PICK i \in DOMAIN group : u = group[i]
    BY Zenon, <1>1, <2>1, MembersTyped DEF CommitTypeOK
  <2>3. i \in 1..sequences
    BY <1>2, <1>4
  <2>4. seqOf[u] <= seqOf[group[Len(group)]]
    BY Zenon, <1>1, <1>4, <2>2, <2>3 DEF OrderAgrees
  <2>5. seqOf[u] \in Nat /\ seqOf[group[Len(group)]] \in Nat
    <3>1. group[Len(group)] \in Txns
      BY Zenon, <1>1, <1>3, MembersTyped DEF CommitTypeOK
    <3>2. QED
      BY <1>1, <3>1 DEF CommitTypeOK, LogTypeOK
  <2>6. QED
    BY <1>5, <2>4, <2>5
<1>6. \A u \in Txns : seqOf[u] \in Nat
  BY <1>1 DEF CommitTypeOK, LogTypeOK
<1>7. group[Len(group)] \in Txns
  BY Zenon, <1>1, <1>3, MembersTyped DEF CommitTypeOK
<1>8. QED
  BY <1>3, <1>5, <1>6, <1>7

(* Publishing the group preserves the invariant: the snapshot shows        *)
(* exactly the decisions up to its sequence.                               *)
LEMMA PublishGroupInv ==
    ASSUME Inv, PublishGroup
    PROVE  Inv'
<1>1. /\ CommitTypeOK /\ LogOK /\ HistoryAgrees /\ SnapAgrees /\ CallAgrees
      /\ \A t \in Txns : TxnAgrees(t)
  BY Zenon DEF Inv, CommitTypeOK, LogOK, Rest
<1>2. /\ call = "complete" /\ mode = "up" /\ mode' = mode /\ NoGroup /\ Return
      /\ acked' = [acked EXCEPT !.commit = @ \union InGroup] /\ records' = records
      /\ state' = state /\ wset' = wset /\ part' = part /\ wal' = wal
      /\ snap' = [seq |-> seqOf[group[Len(group)]], vis |-> [s \in Storages |-> CommittedAt(s)]]
  BY Zenon DEF PublishGroup, Running, txnVars, storageVars, envVars
<1>3. LogTypeOK' /\ LogInv' /\ seqOf' = seqOf /\ stable <= stable' /\ stable' \in Nat
  <2>1. LogTypeOK' /\ LogInv' /\ seqOf' = seqOf /\ stable <= stable'
    BY Zenon, <1>1, FlushLog DEF PublishGroup, LogStays, LogOK
  <2>2. QED
    BY <2>1 DEF LogTypeOK
<1>4. GroupTypeOK' /\ GroupAgrees' /\ OrderAgrees' /\ InGroup' = {}
  BY Zenon, <1>2, EmptyGroup
<1>5. CallTypeOK' /\ StorageTypeOK' /\ CallAgrees'
  BY Zenon, <1>1, <1>2, <1>4, TypeFrame, ReturnTyped, CallReturns DEF PublishGroup, Return
<1>6. ASSUME NEW i \in DOMAIN group PROVE state[group[i]] = "Committed" /\ group[i] \in Txns
  <2>1. i < pos
    BY <1>1 DEF CommitTypeOK, GroupTypeOK, CallTypeOK, PublishGroup
  <2>2. QED
    BY Zenon, <1>1, <1>2, <2>1, MembersTyped DEF CallAgrees, CommitTypeOK
<1>7. \A t \in InGroup : state[t] = "Committed" /\ t \in Txns
  BY Zenon, <1>1, <1>6, MembersTyped DEF CommitTypeOK
<1>8. ASSUME NEW t \in Txns, state[t] = "Committed"
      PROVE  Decided(t) /\ seqOf[t] <= stable /\ AllIn(t, {"Committed"})
  BY Zenon, <1>1, <1>8 DEF TxnAgrees, HandleAgrees, Applying
<1>9. \A i \in DOMAIN group : Decided(group[i])
  BY Zenon, <1>6, <1>8
<1>10. Known
  BY Zenon, <1>1, <1>2 DEF CallAgrees
<1>11. PICK g \in Txns : g = group[Len(group)] /\ state[g] = "Committed"
  BY Zenon, <1>6, <1>9, <1>10, LastIsHighest
<1>12. \A u \in Txns : seqOf[u] <= seqOf[g]
  BY Zenon, <1>9, <1>10, <1>11, LastIsHighest
<1>13. snap'.seq = seqOf[g] /\ \A s \in Storages : snap'.vis[s] = CommittedAt(s)
  BY <1>2, <1>11
<1>14. EnvTypeOK'
  <2>1. seqOf[g] \in Nat /\ \A s \in Storages : CommittedAt(s) \in SUBSET Txns
    BY <1>1 DEF CommitTypeOK, LogTypeOK, CommittedAt
  <2>2. snap' \in [seq : Nat, vis : [Storages -> SUBSET Txns]]
    BY <1>2, <1>11, <2>1
  <2>3. QED
    BY Zenon, <1>1, <1>2, <2>2 DEF EnvTypeOK, CommitTypeOK, PublishGroup, envVars
<1>15. acked'.abort = acked.abort /\ acked'.commit = acked.commit \union InGroup
  BY <1>1, <1>2 DEF CommitTypeOK, TxnTypeOK
<1>16. TxnTypeOK'
  <2>1. acked' \in [commit : SUBSET Txns, abort : SUBSET Txns]
    <3>1. InGroup \subseteq Txns
      BY Zenon, <1>7
    <3>2. QED
      BY <1>1, <1>2, <3>1 DEF CommitTypeOK, TxnTypeOK
  <2>2. QED
    BY Zenon, <1>1, <1>2, <2>1 DEF CommitTypeOK, TxnTypeOK
<1>17. ASSUME NEW t \in Txns PROVE TxnAgrees(t)'
  BY Zenon, <1>2, <1>3, TxnFrame DEF Untouched
<1>18. HistoryAgrees'
  BY Zenon, <1>1, <1>2, <1>3, <1>7, <1>15 DEF HistoryAgrees, Decided
<1>19. SnapAgrees'
  <2>1. snap'.seq <= stable'
    <3>1. seqOf[g] \in Nat /\ stable \in Nat /\ seqOf[g] <= stable
      BY <1>1, <1>8, <1>11 DEF CommitTypeOK, LogTypeOK
    <3>2. QED
      BY <1>3, <1>13, <3>1
  <2>2. ASSUME NEW t \in Txns, Decided(t) PROVE AllIn(t, {"Committed"})
    BY Zenon, <1>1, <1>2, <1>7, <1>8, <2>2 DEF SnapAgrees
  <2>3. \A t \in Txns : Decided(t)' => AllIn(t, {"Committed"})'
    BY Zenon, <1>2, <1>3, <2>2 DEF AllIn, Decided
  <2>4. ASSUME NEW s \in Storages, NEW t \in snap'.vis[s] PROVE s \in wset'[t]
    <3>1. t \in Txns /\ part[t][s] = "Committed"
      BY Zenon, <1>13, <2>4 DEF CommittedAt
    <3>2. QED
      BY Zenon, <1>1, <1>2, <3>1 DEF TxnAgrees
  <2>5. ASSUME NEW t \in Txns, NEW s \in wset'[t]
        PROVE  t \in snap'.vis[s] <=> (Decided(t)' /\ seqOf'[t] <= snap'.seq)
    <3>1. s \in Storages /\ s \in wset[t]
      BY Zenon, <1>1, <1>2, <2>5 DEF CommitTypeOK, TxnTypeOK
    <3>2. t \in snap'.vis[s] <=> part[t][s] = "Committed"
      BY Zenon, <1>13, <3>1 DEF CommittedAt
    <3>3. part[t][s] = "Committed" => Decided(t)
      BY Zenon, <1>1, <3>1 DEF TxnAgrees, LogAgrees
    <3>4. Decided(t) => part[t][s] = "Committed"
      BY Zenon, <2>2, <3>1 DEF AllIn
    <3>5. QED
      BY Zenon, <1>3, <1>12, <1>13, <3>2, <3>3, <3>4 DEF Decided
  <2>6. QED
    BY Zenon, <2>1, <2>3, <2>4, <2>5 DEF SnapAgrees, GroupVisibleWhole
<1>20. QED
  BY Zenon, <1>3, <1>4, <1>5, <1>14, <1>16, <1>17, <1>18, <1>19 DEF Inv, CommitTypeOK, Rest

-------------------------------------------------------------------------------
(* Steps that only move members of the group on.                           *)

MovesOn(u) ==
    \/ state'[u] = state[u]
    \/ /\ u \in InGroup /\ state'[u] \in Applying
       /\ Decided(u) /\ seqOf[u] <= stable
       /\ state[u] \notin {"Dropped", "Committed", "RolledBack"}
       /\ AllIn(u, {"Committed"}) \/ (state[u] \in Applying /\ state'[u] = "ApplyingCommit")
    \/ /\ u \in InGroup /\ state[u] \in Parked
       /\ state'[u] = "ParkedPrepared" /\ AllIn(u, {"ParkedPrepared"})

MemberStep ==
    /\ LogStays
    /\ UNCHANGED <<group, prepare, durable, authoritative, sequences, resolving, records, acked,
                   snap, wset, part, wal, mode>>
    /\ mode = "up" /\ resolving = NoTxn
    /\ barrier => barrier'
    /\ \A u \in Txns : MovesOn(u)

(* They keep everything but what is said of the running call.              *)
LEMMA MemberStepKeeps ==
    ASSUME Inv, MemberStep
    PROVE  Rest' /\ LogInv' /\ LogTypeOK'
<1>1. LogInv' /\ LogTypeOK' /\ stable <= stable' /\ stable' \in Nat /\ seqOf' = seqOf
  <2>1. LogInv' /\ LogTypeOK' /\ stable <= stable' /\ seqOf' = seqOf
    BY Zenon DEF MemberStep, LogStays, LogOK
  <2>2. QED
    BY <2>1 DEF LogTypeOK
<1>2. InGroup' = InGroup /\ \A u \in InGroup : u \in Txns /\ state[u] \in MemberStates
  BY Zenon, SameMembers, MembersTyped DEF MemberStep, Inv, CommitTypeOK, Rest, GroupAgrees
<1>3. ASSUME NEW u \in Txns PROVE TxnAgrees(u)'
  <2>1. CASE state'[u] = state[u]
    BY Zenon, <1>1, <2>1, TxnFrame DEF Untouched, MemberStep
  <2>2. CASE state'[u] # state[u]
    <3>0. TxnAgrees(u) /\ MovesOn(u)
      BY Zenon DEF Inv, Rest, MemberStep
    <3>1. /\ u \in InGroup /\ state[u] \in MemberStates
          /\ state'[u] \in Applying \union {"ParkedPrepared"}
      BY Zenon, <1>2, <2>2, <3>0 DEF MovesOn
    <3>2. /\ part' = part /\ wal' = wal /\ wset' = wset /\ mode' = "up"
          /\ (Decided(u)' <=> Decided(u))
      BY Zenon, <1>1 DEF MemberStep, Decided
    <3>3. seqOf[u] <= stable => seqOf'[u] <= stable'
      BY <1>1 DEF Inv, CommitTypeOK, LogTypeOK
    <3>4. ASSUME NEW s \in wset'[u] PROVE WalAgrees(u, s)' /\ LogAgrees(u, s)'
      <4>1. WalAgrees(u, s) /\ LogAgrees(u, s)
        BY Zenon, <3>0, <3>2, <3>4 DEF TxnAgrees
      <4>2. state[u] # "Dropped"
        BY Zenon, <3>1 DEF MemberStates, Parked, Applying
      <4>3. QED
        BY Zenon, <3>2, <3>3, <4>1, <4>2 DEF WalAgrees, LogAgrees
    <3>5. HandleAgrees(u)'
      <4>1. wset'[u] # {} /\ state'[u] # "none" /\ state'[u] \notin Unlogged
        <5>1. state[u] # "none"
          BY Zenon, <3>1 DEF MemberStates, Parked, Applying
        <5>2. QED
          BY Zenon, <3>0, <3>1, <3>2, <5>1 DEF TxnAgrees, HandleAgrees, Applying, Unlogged
      <4>2. CASE state'[u] \in Applying
        <5>0. Decided(u)' /\ seqOf'[u] <= stable'
          BY Zenon, <2>2, <3>0, <3>2, <3>3, <4>2 DEF MovesOn, Applying, Parked
        <5>1. state'[u] \in {"FinalizePending", "Committed"} => AllIn(u, {"Committed"})'
          BY Zenon, <2>2, <3>0, <3>2, <4>2 DEF MovesOn, Applying, AllIn
        <5>2. state'[u] \notin Parked /\ state'[u] # "RolledBack" /\ state'[u] # "Active"
          BY Zenon, <4>2 DEF Applying, Parked
        <5>3. QED
          BY Zenon, <3>2, <4>1, <5>0, <5>1, <5>2 DEF HandleAgrees, Parked
      <4>3. CASE state'[u] = "ParkedPrepared"
        <5>1. AllIn(u, {"ParkedPrepared"})
          BY Zenon, <2>2, <3>0, <4>3 DEF MovesOn, Applying
        <5>2. AllIn(u, {"ParkedPrepared"})' /\ AllIn(u, Parked)'
          BY Zenon, <3>2, <5>1 DEF AllIn, Parked
        <5>3. QED
          BY Zenon, <3>2, <4>1, <4>3, <5>2 DEF HandleAgrees, Applying
      <4>4. QED
        BY Zenon, <3>1, <4>2, <4>3
    <3>6. QED
      BY Zenon, <3>0, <3>2, <3>4, <3>5 DEF TxnAgrees
  <2>3. QED
    BY Zenon, <2>1, <2>2
<1>4. GroupAgrees'
  <2>0. GroupAgrees
    BY Zenon DEF Inv, Rest
  <2>1. /\ group' = group /\ prepare' = prepare /\ durable' = durable
        /\ authoritative' = authoritative /\ sequences' = sequences /\ wset' = wset
        /\ part' = part /\ wal' = wal /\ resolving' = NoTxn
    BY Zenon DEF MemberStep
  <2>2. ASSUME NEW u \in InGroup PROVE state'[u] \in MemberStates
    BY Zenon, <1>2 DEF MemberStep, MovesOn, MemberStates, Parked
  <2>3. ASSUME NEW u \in InGroup, prepare = "Durable" PROVE state'[u] # "ParkedPreparePending"
    <3>1. state[u] # "ParkedPreparePending" /\ MovesOn(u)
      BY Zenon, <1>2, <2>0, <2>3 DEF GroupAgrees, MemberStep
    <3>2. QED
      BY Zenon, <3>1 DEF MovesOn, Applying
  <2>4. ASSUME NEW i \in 1..sequences PROVE state'[group[i]] \in Applying
    <3>1. state[group[i]] \in Applying /\ group[i] \in Txns
      BY <2>0 DEF Inv, GroupAgrees, CommitTypeOK, GroupTypeOK
    <3>2. QED
      BY Zenon, <3>1 DEF MemberStep, MovesOn, Applying, Parked
  <2>5. ASSUME NEW s \in durable, NEW u \in WritersOf(s), state'[u] \in Parked
        PROVE  part[u][s] = "ParkedPrepared"
    <3>1. u \in InGroup /\ u \in Txns
      BY Zenon, <1>2, <2>5 DEF WritersOf
    <3>2. state[u] \in Parked
      BY Zenon, <2>5, <3>1 DEF MemberStep, MovesOn, Applying, Parked
    <3>3. QED
      BY Zenon, <2>0, <2>5, <3>2 DEF GroupAgrees
  <2>6. ASSUME NEW s \in authoritative, NEW u \in WritersOf(s), state'[u] \in Applying
        PROVE  wal[u][s] = "Commit"
    <3>1. u \in InGroup /\ u \in Txns /\ s \in wset[u]
      BY Zenon, <1>2, <2>6 DEF WritersOf
    <3>2. state[u] \in Applying \/ AllIn(u, {"Committed"})
      BY Zenon, <2>6, <3>1 DEF MemberStep, MovesOn, Applying
    <3>3. AllIn(u, {"Committed"}) => wal[u][s] = "Commit"
      BY Zenon, <3>1 DEF Inv, Rest, TxnAgrees, WalAgrees, AllIn
    <3>4. QED
      BY Zenon, <2>0, <2>6, <3>2, <3>3 DEF GroupAgrees
  <2>7. \A s : WritersOf(s)' = WritersOf(s)
    BY Zenon, <1>2, <2>1 DEF WritersOf
  <2>8. durable' # {} => barrier'
    BY Zenon, <2>0, <2>1 DEF GroupAgrees, MemberStep
  <2>9. authoritative' # {} => Known'
    BY Zenon, <2>0, <2>1 DEF GroupAgrees, Known
  <2>10. QED
    BY Zenon, <1>2, <2>0, <2>1, <2>2, <2>3, <2>4, <2>5, <2>6, <2>7, <2>8, <2>9 DEF GroupAgrees
<1>5. OrderAgrees'
  BY Zenon, <1>1, OrderFrame DEF MemberStep, Inv, Rest
<1>6. HistoryAgrees'
  <2>1. ASSUME NEW u \in Txns, state[u] \in {"Dropped", "Committed", "RolledBack"}
        PROVE  state'[u] = state[u]
    BY Zenon, <2>1 DEF MemberStep, MovesOn, Parked
  <2>2. QED
    BY Zenon, <1>1, <2>1, HistoryFrame DEF MemberStep, Inv, Rest, history, Decided
<1>7. SnapAgrees'
  BY Zenon, <1>1, <1>2, SnapFrame DEF MemberStep, Inv, Rest
<1>8. QED
  BY Zenon, <1>1, <1>3, <1>4, <1>5, <1>6, <1>7 DEF Rest

(* SetStates by its effect.                                                *)
LEMMA StatesSet ==
    ASSUME CommitTypeOK, NEW ts, NEW v \in TxnStates, SetStates(ts, v)
    PROVE  /\ state' \in [Txns -> TxnStates]
           /\ \A u \in Txns : u \in ts => state'[u] = v
           /\ \A u \in Txns : u \notin ts => state'[u] = state[u]
BY Zenon DEF CommitTypeOK, TxnTypeOK, SetStates

(* Starting or retrying a commit preserves the invariant: only members of  *)
(* a decided group are applied at once.                                    *)
LEMMA StartCommitInv ==
    ASSUME Inv, StartCommit
    PROVE  Inv'
<1>1. CommitTypeOK /\ LogOK /\ GroupAgrees /\ GroupTypeOK /\ "ApplyingCommit" \in TxnStates
  BY Zenon DEF Inv, CommitTypeOK, LogOK, Rest, TxnStates
<1>2. /\ mode = "up" /\ mode' = "up" /\ resolving = NoTxn /\ group # <<>> /\ group' = group
      /\ wset' = wset /\ records' = records /\ acked' = acked /\ resolving' = NoTxn
      /\ sequences' = sequences
      /\ call' = (IF Known THEN "apply" ELSE IF prepare = "Batched" THEN "prepare" ELSE "decide")
      /\ pos' = 1 /\ barrier' = (barrier \/ (~Known /\ prepare = "Batched"))
  BY Zenon DEF StartCommit, Quiet, Call, envVars, history
<1>3. /\ \A u \in Txns : u \in Numbered /\ state[u] # "Committed" => state'[u] = "ApplyingCommit"
      /\ \A u \in Txns : ~(u \in Numbered /\ state[u] # "Committed") => state'[u] = state[u]
      /\ state' \in [Txns -> TxnStates]
  BY Zenon, <1>1 DEF StartCommit, SetStates, CommitTypeOK, TxnTypeOK
<1>4. ASSUME NEW u \in Numbered PROVE \E i \in 1..sequences : i \in DOMAIN group /\ group[i] = u
  <2>1. sequences \in Nat /\ sequences <= Len(group) /\ group \in Seq(Txns)
    BY Zenon, <1>1 DEF GroupTypeOK, GroupAgrees
  <2>2. PICK i \in DOMAIN SubSeq(group, 1, sequences) : u = SubSeq(group, 1, sequences)[i]
    BY Zenon DEF Numbered, Members
  <2>3. i \in 1..sequences /\ i \in DOMAIN group /\ SubSeq(group, 1, sequences)[i] = group[i]
    BY <2>1, <2>2
  <2>4. QED
    BY Zenon, <2>2, <2>3
<1>5. ASSUME NEW u \in Numbered PROVE u \in InGroup /\ u \in Txns /\ state[u] \in Applying
  <2>1. PICK i \in 1..sequences : i \in DOMAIN group /\ group[i] = u
    BY Zenon, <1>4, <1>5
  <2>2. QED
    BY Zenon, <1>1, <2>1, MembersTyped DEF GroupAgrees
<1>6. ~Known => Numbered = {}
  <2>1. ASSUME ~Known PROVE 1..sequences = {}
    BY <1>1, <2>1 DEF Known, GroupTypeOK
  <2>2. QED
    BY Zenon, <1>4, <2>1
<1>7. ASSUME NEW u \in Txns PROVE MovesOn(u)
  <2>1. CASE u \in Numbered /\ state[u] # "Committed"
    <3>1. state[u] \in Applying /\ u \in InGroup /\ state'[u] = "ApplyingCommit"
      BY Zenon, <1>3, <1>5, <2>1
    <3>2. Decided(u) /\ seqOf[u] <= stable
      BY Zenon, <3>1 DEF Inv, Rest, TxnAgrees, HandleAgrees
    <3>3. state'[u] \in Applying /\ state[u] \notin {"Dropped", "Committed", "RolledBack"}
      BY Zenon, <2>1, <3>1 DEF Applying
    <3>4. QED
      BY Zenon, <3>1, <3>2, <3>3 DEF MovesOn
  <2>2. CASE ~(u \in Numbered /\ state[u] # "Committed")
    BY Zenon, <1>3, <2>2 DEF MovesOn
  <2>3. QED
    BY Zenon, <2>1, <2>2
<1>8. MemberStep
  <2>1. LogStays
    BY Zenon, <1>1, FlushLog DEF StartCommit
  <2>2. QED
    BY Zenon, <1>2, <1>7, <2>1 DEF MemberStep, StartCommit, storageVars
<1>9. Rest' /\ LogInv' /\ LogTypeOK'
  BY Zenon, <1>8, MemberStepKeeps
<1>10. StorageTypeOK' /\ EnvTypeOK'
  BY Zenon, <1>1, TypeFrame DEF StartCommit
<1>11. TxnTypeOK'
  BY Zenon, <1>1, <1>2, <1>3 DEF CommitTypeOK, TxnTypeOK
<1>12. GroupTypeOK'
  BY Zenon, <1>1, <1>2 DEF StartCommit, GroupTypeOK
<1>13. CallTypeOK'
  <2>1. Len(group) \in Nat
    BY Zenon, <1>1, MembersTyped
  <2>2. pos' \in 0..(Len(group') + 1)
    BY <1>2, <2>1
  <2>3. QED
    BY Zenon, <1>2, <2>2 DEF CallTypeOK
<1>14. CallAgrees'
  <2>1. CASE Known
    <3>1. call' = "apply" /\ Known'
      BY Zenon, <1>2, <2>1 DEF Known
    <3>2. QED
      BY Zenon, <1>2, <3>1 DEF CallAgrees
  <2>2. CASE ~Known
    <3>1. InGroup' = InGroup /\ \A u \in InGroup : u \in Txns /\ state[u] \in Parked
      BY Zenon, <1>1, <1>2, <2>2, SameMembers, MembersTyped DEF StartCommit
    <3>2. \A u \in InGroup : state'[u] = state[u]
      BY Zenon, <1>3, <1>6, <2>2, <3>1
    <3>3. ~Known'
      BY Zenon, <1>2, <2>2 DEF Known
    <3>4. CASE prepare = "Batched"
      <4>1. call' = "prepare" /\ barrier'
        BY Zenon, <1>2, <2>2, <3>4
      <4>2. QED
        BY Zenon, <1>2, <3>1, <3>2, <3>3, <4>1 DEF CallAgrees
    <3>5. CASE prepare # "Batched"
      <4>1. call' = "decide"
        BY Zenon, <1>2, <2>2, <3>5
      <4>2. prepare = "Durable"
        BY Zenon, <1>1, <1>2, <3>5 DEF GroupAgrees, GroupTypeOK
      <4>3. \A u \in InGroup : state'[u] = "ParkedPrepared"
        BY Zenon, <1>1, <3>1, <3>2, <4>2 DEF GroupAgrees, Parked
      <4>4. QED
        BY Zenon, <1>2, <3>1, <3>3, <4>1, <4>3 DEF CallAgrees
    <3>6. QED
      BY Zenon, <3>4, <3>5
  <2>3. QED
    BY Zenon, <2>1, <2>2
<1>15. QED
  BY Zenon, <1>9, <1>10, <1>11, <1>12, <1>13, <1>14 DEF Inv, CommitTypeOK

(* Passing the barrier preserves it: every participant of every member is  *)
(* durably prepared.                                                       *)
LEMMA BarrierDoneInv ==
    ASSUME Inv, BarrierDone
    PROVE  Inv'
<1>1. /\ CommitTypeOK /\ LogOK /\ GroupAgrees /\ GroupTypeOK /\ CallAgrees
      /\ "ParkedPrepared" \in TxnStates
  BY Zenon DEF Inv, CommitTypeOK, LogOK, Rest, TxnStates, Parked
<1>2. /\ mode = "up" /\ mode' = "up" /\ call = "prepare" /\ GroupStorages \subseteq durable
      /\ group' = group /\ wset' = wset /\ records' = records /\ acked' = acked
      /\ resolving' = resolving /\ sequences' = sequences /\ call' = "decide" /\ pos' = 1
      /\ barrier' = barrier /\ SetStates(InGroup, "ParkedPrepared")
  BY Zenon DEF BarrierDone, Running, Call, envVars, history, groupVars
<1>3. /\ resolving = NoTxn /\ group # <<>> /\ ~Known
      /\ \A u \in InGroup : state[u] \in Parked
  BY Zenon, <1>1, <1>2 DEF CallAgrees
<1>4. /\ \A u \in Txns : u \in InGroup => state'[u] = "ParkedPrepared"
      /\ \A u \in Txns : u \notin InGroup => state'[u] = state[u]
      /\ state' \in [Txns -> TxnStates]
  BY Zenon, <1>1, <1>2, StatesSet
<1>5. ASSUME NEW u \in Txns, u \in InGroup PROVE AllIn(u, {"ParkedPrepared"})
  <2>1. ASSUME NEW s \in wset[u] PROVE part[u][s] = "ParkedPrepared"
    <3>1. u \in WritersOf(s) /\ s \in durable
      BY Zenon, <1>2, <1>5, <2>1 DEF WritersOf, GroupStorages
    <3>2. QED
      BY Zenon, <1>1, <1>3, <1>5, <3>1 DEF GroupAgrees
  <2>2. QED
    BY Zenon, <2>1 DEF AllIn
<1>6. ASSUME NEW u \in Txns PROVE MovesOn(u)
  BY Zenon, <1>3, <1>4, <1>5 DEF MovesOn
<1>7. MemberStep
  <2>1. LogStays
    BY Zenon, <1>1, FlushLog DEF BarrierDone
  <2>2. UNCHANGED <<group, prepare, durable, authoritative, sequences, resolving, records,
                       acked, snap, wset, part, wal, mode>>
    BY Zenon DEF BarrierDone, storageVars, groupVars, history, envVars
  <2>3. QED
    BY Zenon, <1>2, <1>3, <1>6, <2>1, <2>2 DEF MemberStep
<1>8. Rest' /\ LogInv' /\ LogTypeOK'
  BY Zenon, <1>7, MemberStepKeeps
<1>9. GroupTypeOK' /\ StorageTypeOK' /\ EnvTypeOK'
  BY Zenon, <1>1, TypeFrame DEF BarrierDone
<1>10. TxnTypeOK'
  BY Zenon, <1>1, <1>2, <1>4 DEF CommitTypeOK, TxnTypeOK
<1>11. CallTypeOK'
  <2>1. Len(group) \in Nat
    BY Zenon, <1>1, MembersTyped
  <2>2. pos' \in 0..(Len(group') + 1)
    BY <1>2, <2>1
  <2>3. QED
    BY Zenon, <1>2, <2>2 DEF CallTypeOK
<1>12. CallAgrees'
  <2>1. InGroup' = InGroup /\ \A u \in InGroup : u \in Txns
    BY Zenon, <1>1, <1>2, SameMembers, MembersTyped
  <2>2. QED
    BY Zenon, <1>2, <1>3, <1>4, <2>1 DEF CallAgrees, Known
<1>13. QED
  BY Zenon, <1>8, <1>9, <1>10, <1>11, <1>12 DEF Inv, CommitTypeOK

(* Finishing the participants preserves it: each member is committed in    *)
(* every storage it wrote.                                                 *)
LEMMA ApplyDoneInv ==
    ASSUME Inv, ApplyDone
    PROVE  Inv'
<1>1. /\ CommitTypeOK /\ LogOK /\ GroupAgrees /\ GroupTypeOK /\ CallAgrees
      /\ "FinalizePending" \in TxnStates
  BY Zenon DEF Inv, CommitTypeOK, LogOK, Rest, TxnStates
<1>2. /\ mode = "up" /\ mode' = "up" /\ call = "apply" /\ GroupStorages = Applied
      /\ group' = group /\ wset' = wset /\ records' = records /\ acked' = acked
      /\ resolving' = resolving /\ sequences' = sequences /\ call' = "complete" /\ pos' = 1
      /\ barrier' = barrier
      /\ SetStates({t \in InGroup : state[t] # "Committed"}, "FinalizePending")
  BY Zenon DEF ApplyDone, Running, Call, envVars, history, groupVars
<1>3. resolving = NoTxn /\ Known
  BY Zenon, <1>1, <1>2 DEF CallAgrees
<1>4. /\ \A u \in Txns : u \in InGroup /\ state[u] # "Committed" => state'[u] = "FinalizePending"
      /\ \A u \in Txns : ~(u \in InGroup /\ state[u] # "Committed") => state'[u] = state[u]
      /\ state' \in [Txns -> TxnStates]
  BY Zenon, <1>1, <1>2 DEF SetStates, CommitTypeOK, TxnTypeOK
<1>5. ASSUME NEW u \in Txns, u \in InGroup
      PROVE  /\ AllIn(u, {"Committed"}) /\ Decided(u) /\ seqOf[u] <= stable
             /\ state[u] \notin {"Dropped", "RolledBack"}
  <2>0. TxnAgrees(u) /\ state[u] \in MemberStates
    BY Zenon, <1>1, <1>5 DEF Inv, Rest, GroupAgrees
  <2>1. ASSUME NEW s \in wset[u] PROVE part[u][s] = "Committed"
    <3>1. u \in WritersOf(s) /\ s \in Applied
      BY Zenon, <1>2, <1>5, <2>1 DEF WritersOf, GroupStorages
    <3>2. QED
      BY Zenon, <3>1 DEF Applied, Waiting
  <2>2. state[u] # "none" /\ state[u] # "Dropped"
    BY Zenon, <2>0 DEF MemberStates, Parked, Applying
  <2>3. PICK s \in wset[u] : TRUE
    BY Zenon, <2>0, <2>2 DEF TxnAgrees, HandleAgrees
  <2>4. Decided(u) /\ seqOf[u] <= stable
    BY Zenon, <2>0, <2>1, <2>3 DEF TxnAgrees, LogAgrees
  <2>5. state[u] # "RolledBack"
    BY Zenon, <2>0, <2>4 DEF TxnAgrees, HandleAgrees, Unlogged
  <2>6. QED
    BY Zenon, <2>1, <2>2, <2>4, <2>5 DEF AllIn
<1>6. ASSUME NEW u \in Txns PROVE MovesOn(u)
  BY Zenon, <1>4, <1>5 DEF MovesOn, Applying
<1>7. MemberStep
  <2>1. LogStays
    BY Zenon, <1>1, FlushLog DEF ApplyDone
  <2>2. UNCHANGED <<group, prepare, durable, authoritative, sequences, resolving, records,
                       acked, snap, wset, part, wal, mode>>
    BY Zenon DEF ApplyDone, storageVars, groupVars, history, envVars
  <2>3. QED
    BY Zenon, <1>2, <1>3, <1>6, <2>1, <2>2 DEF MemberStep
<1>8. Rest' /\ LogInv' /\ LogTypeOK'
  BY Zenon, <1>7, MemberStepKeeps
<1>9. GroupTypeOK' /\ StorageTypeOK' /\ EnvTypeOK'
  BY Zenon, <1>1, TypeFrame DEF ApplyDone
<1>10. TxnTypeOK'
  BY Zenon, <1>1, <1>2, <1>4 DEF CommitTypeOK, TxnTypeOK
<1>11. CallTypeOK'
  <2>1. Len(group) \in Nat
    BY Zenon, <1>1, MembersTyped
  <2>2. pos' \in 0..(Len(group') + 1)
    BY <1>2, <2>1
  <2>3. QED
    BY Zenon, <1>2, <2>2 DEF CallTypeOK
<1>12. CallAgrees'
  <2>1. ASSUME NEW i \in DOMAIN group'
        PROVE  state'[group'[i]] \in {"FinalizePending", "Committed"} /\ ~(i < pos')
    <3>1. group[i] \in Txns /\ group[i] \in InGroup
      BY Zenon, <1>1, <1>2, <2>1, MembersTyped
    <3>2. i \in 1..Len(group)
      BY Zenon, <1>1, <1>2, <2>1, MembersTyped
    <3>3. ~(i < 1)
      BY <3>2
    <3>4. QED
      BY Zenon, <1>2, <1>4, <3>1, <3>3
  <2>2. QED
    BY Zenon, <1>2, <1>3, <2>1 DEF CallAgrees, Known
<1>13. QED
  BY Zenon, <1>8, <1>9, <1>10, <1>11, <1>12 DEF Inv, CommitTypeOK

(* Completing a member preserves it.                                       *)
LEMMA CompleteMemberInv ==
    ASSUME Inv, CompleteMember
    PROVE  Inv'
<1>1. /\ CommitTypeOK /\ LogOK /\ GroupAgrees /\ GroupTypeOK /\ CallAgrees
      /\ "Committed" \in TxnStates
  BY Zenon DEF Inv, CommitTypeOK, LogOK, Rest, TxnStates
<1>2. /\ mode = "up" /\ mode' = "up" /\ call = "complete" /\ pos \in DOMAIN group
      /\ group' = group /\ wset' = wset /\ records' = records /\ acked' = acked
      /\ resolving' = resolving /\ sequences' = sequences /\ call' = "complete"
      /\ pos' = pos + 1 /\ barrier' = barrier
      /\ SetStates({group[pos]}, "Committed")
  BY Zenon DEF CompleteMember, AtComplete, Running, Call, history, groupVars
<1>t. PICK t \in Txns : t = group[pos] /\ t \in InGroup
  BY Zenon, <1>1, <1>2, MembersTyped
<1>3. /\ resolving = NoTxn /\ Known /\ state[t] \in {"FinalizePending", "Committed"}
      /\ \A i \in DOMAIN group : /\ state[group[i]] \in {"FinalizePending", "Committed"}
                                 /\ i < pos => state[group[i]] = "Committed"
  BY Zenon, <1>1, <1>2, <1>t DEF CallAgrees
<1>4. /\ state'[t] = "Committed" /\ \A u \in Txns : u # t => state'[u] = state[u]
      /\ state' \in [Txns -> TxnStates]
  BY Zenon, <1>1, <1>2, <1>t DEF SetStates, CommitTypeOK, TxnTypeOK
<1>5. ASSUME NEW u \in Txns PROVE MovesOn(u)
  <2>1. CASE state'[u] = state[u]
    BY Zenon, <2>1 DEF MovesOn
  <2>2. CASE state'[u] # state[u]
    <3>1. u = t /\ state[t] = "FinalizePending"
      BY Zenon, <1>3, <1>4, <2>2
    <3>2. Decided(t) /\ seqOf[t] <= stable /\ AllIn(t, {"Committed"})
      BY Zenon, <3>1 DEF Inv, Rest, TxnAgrees, HandleAgrees, Applying
    <3>3. QED
      BY Zenon, <1>4, <1>t, <3>1, <3>2 DEF MovesOn, Applying
  <2>3. QED
    BY Zenon, <2>1, <2>2
<1>6. LogStays /\ (UNCHANGED faults \/ Fault)
  <2>1. CASE state[t] = "Committed"
    BY Zenon, <1>1, <1>t, <2>1, FlushLog DEF CompleteMember
  <2>2. CASE state[t] # "Committed"
    BY Zenon, <1>1, <1>t, <2>2, FinishLog DEF CompleteMember, FinishLogStep
  <2>3. QED
    BY Zenon, <2>1, <2>2
<1>7. MemberStep
  <2>1. UNCHANGED <<group, prepare, durable, authoritative, sequences, resolving, records,
                       acked, snap, wset, part, wal, mode>>
    BY Zenon DEF CompleteMember, storageVars, groupVars, history
  <2>2. QED
    BY Zenon, <1>2, <1>3, <1>5, <1>6, <2>1 DEF MemberStep
<1>8. Rest' /\ LogInv' /\ LogTypeOK'
  BY Zenon, <1>7, MemberStepKeeps
<1>9. GroupTypeOK' /\ StorageTypeOK' /\ EnvTypeOK'
  BY Zenon, <1>1, <1>6, TypeFrame DEF CompleteMember
<1>10. TxnTypeOK'
  BY Zenon, <1>1, <1>2, <1>4 DEF CommitTypeOK, TxnTypeOK
<1>11. CallTypeOK' /\ \A i \in DOMAIN group : i < pos + 1 => i < pos \/ i = pos
  <2>1. Len(group) \in Nat /\ DOMAIN group = 1..Len(group)
    BY Zenon, <1>1, MembersTyped
  <2>2. pos \in 1..Len(group)
    BY Zenon, <1>2, <2>1
  <2>3. pos' \in 0..(Len(group') + 1) /\ \A i \in 1..Len(group) : i < pos + 1 => i < pos \/ i = pos
    BY <1>2, <2>1, <2>2
  <2>4. QED
    BY Zenon, <1>2, <2>1, <2>3 DEF CallTypeOK
<1>12. CallAgrees'
  <2>1. ASSUME NEW i \in DOMAIN group'
        PROVE  /\ state'[group'[i]] \in {"FinalizePending", "Committed"}
               /\ i < pos' => state'[group'[i]] = "Committed"
    <3>1. group[i] \in Txns /\ i \in DOMAIN group
      BY Zenon, <1>1, <1>2, <2>1, MembersTyped
    <3>2. CASE group[i] = t
      BY Zenon, <1>2, <1>4, <3>2
    <3>3. CASE group[i] # t
      <4>1. i # pos /\ state'[group[i]] = state[group[i]]
        BY Zenon, <1>4, <1>t, <3>1, <3>3
      <4>2. QED
        BY Zenon, <1>2, <1>3, <1>11, <3>1, <4>1
    <3>4. QED
      BY Zenon, <3>2, <3>3
  <2>2. QED
    BY Zenon, <1>2, <1>3, <2>1 DEF CallAgrees, Known
<1>13. QED
  BY Zenon, <1>8, <1>9, <1>10, <1>11, <1>12 DEF Inv, CommitTypeOK

-------------------------------------------------------------------------------
(* Steps of the group's participants in one storage.                       *)

(* The participant of u in s fits its member and the log afterwards.       *)
Fits(u, s) ==
    /\ WalAgrees(u, s)' /\ LogAgrees(u, s)'
    /\ state[u] \in Parked => part'[u][s] \in Parked
    /\ state[u] = "ParkedPrepared" => part'[u][s] = "ParkedPrepared"
    /\ state[u] \in {"FinalizePending", "Committed"} => part'[u][s] = "Committed"
    /\ state[u] = "RolledBack" => part'[u][s] = "RolledBack"
    /\ s \in durable' /\ state[u] \in Parked => part'[u][s] = "ParkedPrepared"
    /\ s \in authoritative' /\ state[u] \in Applying => wal'[u][s] = "Commit"

StorageStep(s) ==
    /\ LogStays
    /\ UNCHANGED <<group, prepare, barrier, sequences, resolving, records, acked, snap, wset,
                   state, mode>>
    /\ durable' \in {durable, durable \union {s}} /\ (durable' # {} => barrier)
    /\ authoritative' \in {authoritative, authoritative \union {s}}
    /\ authoritative' # {} => Known
    /\ \A u \in Txns : u \notin WritersOf(s) => part'[u] = part[u] /\ wal'[u] = wal[u]
    /\ \A u \in WritersOf(s) :
         /\ Fits(u, s)
         /\ \A r \in Storages : r # s => part'[u][r] = part[u][r] /\ wal'[u][r] = wal[u][r]

(* They keep everything but what is said of the running call.              *)
LEMMA StorageStepKeeps ==
    ASSUME Inv, NEW s \in Storages, StorageStep(s)
    PROVE  Rest' /\ LogInv' /\ LogTypeOK'
<1>1. LogInv' /\ LogTypeOK' /\ stable <= stable' /\ stable' \in Nat /\ seqOf' = seqOf
  <2>1. LogInv' /\ LogTypeOK' /\ stable <= stable' /\ seqOf' = seqOf
    BY Zenon DEF StorageStep, LogStays, LogOK
  <2>2. QED
    BY <2>1 DEF LogTypeOK
<1>2. /\ InGroup' = InGroup /\ \A u \in InGroup : u \in Txns /\ state[u] \in MemberStates
      /\ state' = state /\ wset' = wset /\ mode' = mode
  BY Zenon, SameMembers, MembersTyped DEF StorageStep, Inv, CommitTypeOK, Rest, GroupAgrees
<1>3. ASSUME NEW u \in Txns PROVE TxnAgrees(u)'
  <2>1. CASE u \notin WritersOf(s)
    BY Zenon, <1>1, <2>1, TxnFrame DEF Untouched, StorageStep
  <2>2. CASE u \in WritersOf(s)
    <3>0. /\ TxnAgrees(u) /\ Fits(u, s) /\ u \in InGroup /\ s \in wset[u] /\ wset[u] \subseteq Storages
          /\ \A r \in Storages : r # s => part'[u][r] = part[u][r] /\ wal'[u][r] = wal[u][r]
      BY Zenon, <2>2 DEF Inv, Rest, StorageStep, WritersOf, CommitTypeOK, TxnTypeOK
    <3>1. state[u] # "Active" /\ (Decided(u)' <=> Decided(u))
      BY Zenon, <1>1, <1>2, <3>0 DEF MemberStates, Parked, Applying, Decided
    <3>2. seqOf[u] <= stable => seqOf'[u] <= stable'
      BY <1>1 DEF Inv, CommitTypeOK, LogTypeOK
    <3>3. ASSUME NEW r \in wset'[u] PROVE WalAgrees(u, r)' /\ LogAgrees(u, r)'
      <4>1. CASE r = s
        BY Zenon, <3>0, <4>1 DEF Fits
      <4>2. CASE r # s
        <5>1. /\ part'[u][r] = part[u][r] /\ wal'[u][r] = wal[u][r]
              /\ WalAgrees(u, r) /\ LogAgrees(u, r)
          BY Zenon, <1>2, <3>0, <3>3, <4>2 DEF TxnAgrees
        <5>2. QED
          BY Zenon, <1>2, <3>1, <3>2, <5>1 DEF WalAgrees, LogAgrees
      <4>3. QED
        BY Zenon, <4>1, <4>2
    <3>4. ASSUME NEW ps, AllIn(u, ps), part'[u][s] \in ps PROVE AllIn(u, ps)'
      BY Zenon, <1>2, <3>0, <3>4 DEF AllIn
    <3>5. /\ state'[u] \in Parked => AllIn(u, Parked)'
          /\ state'[u] = "ParkedPrepared" => AllIn(u, {"ParkedPrepared"})'
          /\ state'[u] \in {"FinalizePending", "Committed"} => AllIn(u, {"Committed"})'
          /\ state'[u] = "RolledBack" => AllIn(u, {"RolledBack"})'
      BY Zenon, <1>2, <3>0, <3>4 DEF TxnAgrees, HandleAgrees, Fits
    <3>6. HandleAgrees(u)'
      BY Zenon, <1>2, <3>0, <3>1, <3>2, <3>5 DEF TxnAgrees, HandleAgrees
    <3>7. QED
      BY Zenon, <1>2, <3>0, <3>3, <3>6 DEF TxnAgrees
  <2>3. QED
    BY Zenon, <2>1, <2>2
<1>4. GroupAgrees'
  <2>0. GroupAgrees
    BY Zenon DEF Inv, Rest
  <2>1. /\ group' = group /\ prepare' = prepare /\ sequences' = sequences
        /\ resolving' = resolving /\ \A r : WritersOf(r)' = WritersOf(r)
    BY Zenon, <1>2 DEF StorageStep, WritersOf
  <2>2. ASSUME NEW r \in durable', NEW u \in WritersOf(r), state[u] \in Parked
        PROVE  part'[u][r] = "ParkedPrepared"
    <3>1. CASE r = s
      BY Zenon, <2>2, <3>1 DEF StorageStep, Fits
    <3>2. CASE r # s
      <4>1. r \in durable /\ r \in Storages /\ u \in Txns
        BY Zenon, <1>2, <2>2, <3>2
        DEF StorageStep, Inv, CommitTypeOK, GroupTypeOK, WritersOf
      <4>2. part'[u][r] = part[u][r]
        BY Zenon, <3>2, <4>1 DEF StorageStep
      <4>3. QED
        BY Zenon, <2>0, <2>2, <4>1, <4>2 DEF GroupAgrees
    <3>3. QED
      BY Zenon, <3>1, <3>2
  <2>3. ASSUME NEW r \in authoritative', NEW u \in WritersOf(r), state[u] \in Applying
        PROVE  wal'[u][r] = "Commit"
    <3>1. CASE r = s
      BY Zenon, <2>3, <3>1 DEF StorageStep, Fits
    <3>2. CASE r # s
      <4>1. r \in authoritative /\ r \in Storages /\ u \in Txns
        BY Zenon, <1>2, <2>3, <3>2
        DEF StorageStep, Inv, CommitTypeOK, GroupTypeOK, WritersOf
      <4>2. wal'[u][r] = wal[u][r]
        BY Zenon, <3>2, <4>1 DEF StorageStep
      <4>3. QED
        BY Zenon, <2>0, <2>3, <4>1, <4>2 DEF GroupAgrees
    <3>3. QED
      BY Zenon, <3>1, <3>2
  <2>4. /\ durable' # {} => barrier'
        /\ authoritative' # {} => Known'
    BY Zenon, <2>1 DEF StorageStep, Known
  <2>5. QED
    BY Zenon, <1>2, <2>0, <2>1, <2>2, <2>3, <2>4 DEF GroupAgrees
<1>5. OrderAgrees'
  BY Zenon, <1>1, OrderFrame DEF StorageStep, Inv, Rest
<1>6. HistoryAgrees'
  BY Zenon, <1>1, <1>2, HistoryFrame DEF StorageStep, Inv, Rest, history, Decided
<1>7. SnapAgrees'
  <2>1. ASSUME NEW t \in Txns, t \notin InGroup PROVE part'[t] = part[t]
    BY Zenon, <2>1 DEF StorageStep, WritersOf
  <2>2. QED
    BY Zenon, <1>1, <1>2, <2>1, SnapFrame DEF StorageStep, Inv, Rest
<1>8. QED
  BY Zenon, <1>1, <1>3, <1>4, <1>5, <1>6, <1>7 DEF Rest

(* The barrier of one storage preserves the invariant: the Prepares of all *)
(* its members are durable.                                                *)
LEMMA BarrierOkInv ==
    ASSUME Inv, NEW s \in Storages, BarrierOk(s)
    PROVE  Inv'
<1>1. CommitTypeOK /\ LogOK /\ GroupAgrees /\ CallAgrees /\ "ParkedPrepared" \in PartStates
  BY Zenon DEF Inv, CommitTypeOK, LogOK, Rest, PartStates, Parked
<1>2. /\ mode = "up" /\ mode' = mode /\ call = "prepare" /\ group' = group /\ prepare' = prepare
      /\ barrier' = barrier /\ sequences' = sequences /\ resolving' = resolving
      /\ records' = records /\ acked' = acked /\ snap' = snap /\ wset' = wset /\ state' = state
      /\ durable' = durable \union {s} /\ authoritative' = authoritative
      /\ SetParts(WritersOf(s), s, "ParkedPrepared") /\ SetWals(WritersOf(s), s, "Prepare")
  BY Zenon DEF BarrierOk, AtBarrier, Running, envVars, history, txnVars
<1>3. LogStays
  BY Zenon, <1>1, FlushLog DEF BarrierOk
<1>4. /\ barrier /\ ~Known /\ \A u \in InGroup : u \in Txns /\ state[u] \in Parked
  BY Zenon, <1>1, <1>2, MembersTyped DEF CallAgrees, CommitTypeOK
<1>5. /\ part' \in [Txns -> [Storages -> PartStates]]
      /\ \A u \in Txns : u \notin WritersOf(s) => part'[u] = part[u]
      /\ \A u \in Txns : u \in WritersOf(s) =>
           /\ part'[u][s] = "ParkedPrepared"
           /\ \A r \in Storages : r # s => part'[u][r] = part[u][r]
  BY Zenon, <1>1, <1>2 DEF SetParts, CommitTypeOK, StorageTypeOK
<1>6. /\ wal' \in [Txns -> [Storages -> {"none", "Prepare", "Commit", "Abort"}]]
      /\ \A u \in Txns : u \notin WritersOf(s) => wal'[u] = wal[u]
      /\ \A u \in Txns : u \in WritersOf(s) =>
           /\ wal'[u][s] = "Prepare"
           /\ \A r \in Storages : r # s => wal'[u][r] = wal[u][r]
  BY Zenon, <1>1, <1>2 DEF SetWals, CommitTypeOK, StorageTypeOK
<1>7. ASSUME NEW u \in WritersOf(s) PROVE Fits(u, s) /\ u \in Txns
  <2>1. u \in InGroup /\ s \in wset[u] /\ u \in Txns /\ state[u] \in Parked
    BY Zenon, <1>4, <1>7 DEF WritersOf
  <2>2. part'[u][s] = "ParkedPrepared" /\ wal'[u][s] = "Prepare"
    BY Zenon, <1>5, <1>6, <1>7, <2>1
  <2>3. WalAgrees(u, s)'
    BY Zenon, <2>2 DEF WalAgrees
  <2>4. LogAgrees(u, s)'
    BY Zenon, <2>2 DEF LogAgrees
  <2>5. QED
    BY Zenon, <2>1, <2>2, <2>3, <2>4 DEF Fits, Parked, Applying
<1>8. StorageStep(s)
  <2>1. authoritative' # {} => Known
    BY Zenon, <1>1, <1>2 DEF GroupAgrees
  <2>2. QED
    BY Zenon, <1>2, <1>3, <1>4, <1>5, <1>6, <1>7, <2>1 DEF StorageStep
<1>9. Rest' /\ LogInv' /\ LogTypeOK'
  BY Zenon, <1>8, StorageStepKeeps
<1>10. CallTypeOK' /\ TxnTypeOK' /\ EnvTypeOK'
  BY Zenon, <1>1, TypeFrame DEF BarrierOk, callVars
<1>11. StorageTypeOK'
  BY Zenon, <1>1, <1>5, <1>6 DEF BarrierOk, CommitTypeOK, StorageTypeOK
<1>12. GroupTypeOK'
  BY Zenon, <1>1, <1>2 DEF BarrierOk, CommitTypeOK, GroupTypeOK
<1>13. CallAgrees'
  <2>1. call' = "prepare" /\ InGroup' = InGroup
    BY Zenon, <1>2, SameMembers DEF BarrierOk, callVars
  <2>2. QED
    BY Zenon, <1>1, <1>2, <1>4, <2>1 DEF CallAgrees, Known
<1>14. QED
  BY Zenon, <1>9, <1>10, <1>11, <1>12, <1>13 DEF Inv, CommitTypeOK

-------------------------------------------------------------------------------
(* Committing the participants.                                            *)

(* Taking entries off the head of a deque leaves a deque.                  *)
LEMMA LeaveHeadTyped ==
    ASSUME CommitTypeOK, NEW s \in Storages, NEW k, LeaveHead(s, k)
    PROVE  chain' \in [Storages -> Seq(Txns)]
<1>1. chain \in [Storages -> Seq(Txns)] /\ chain[s] \in Seq(Txns)
  BY Zenon DEF CommitTypeOK, StorageTypeOK
<1>2. k \in 0..Len(chain[s]) => SubSeq(chain[s], k + 1, Len(chain[s])) \in Seq(Txns)
  BY <1>1
<1>e. <<>> \in Seq(Txns)
  OBVIOUS
<1>3. QED
  BY Zenon, <1>1, <1>2, <1>e DEF LeaveHead

(* A waiting participant gets no further than its WAL record.              *)
Advances(u, s) ==
    \/ part'[u][s] = part[u][s] /\ wal'[u][s] = wal[u][s]
    \/ /\ part'[u][s] = "CommitPending" /\ wal'[u][s] = wal[u][s]
       /\ part[u][s] \in {"ParkedPrepared", "CommitPending"}
    \/ part'[u][s] \in {"CommitPending", "ChangeFinalizePending", "Committed"}
         /\ wal'[u][s] = "Commit"

ApplyStep(s) ==
    /\ \A u \in Txns : u \notin Waiting(s) => part'[u] = part[u] /\ wal'[u] = wal[u]
    /\ \A u \in Waiting(s) :
         /\ Advances(u, s)
         /\ \A r \in Storages : r # s => part'[u][r] = part[u][r] /\ wal'[u][r] = wal[u][r]
    /\ \/ authoritative' = authoritative
       \/ authoritative' = authoritative \union {s} /\ \A u \in Waiting(s) : wal'[u][s] = "Commit"

(* Such steps keep everything but what is said of the running call, when   *)
(* all members that wrote the storage are being applied.                   *)
LEMMA ApplyStepKeeps ==
    ASSUME Inv, NEW s \in Storages, ApplyStep(s), call = "apply",
           \A t \in WritersOf(s) : state[t] \in {"ApplyingCommit", "Committed"},
           UNCHANGED <<logVars, group, prepare, barrier, durable, sequences, resolving, records,
                       acked, snap, wset, state, mode>>
    PROVE  Rest' /\ LogInv' /\ LogTypeOK'
<1>1. CommitTypeOK /\ LogOK /\ GroupAgrees /\ CallAgrees
  BY Zenon DEF Inv, CommitTypeOK, LogOK, Rest
<1>2. LogStays
  BY Zenon, <1>1, FlushLog
<1>3. Known
  BY Zenon, <1>1 DEF CallAgrees
<1>4. seqOf' = seqOf /\ stable' = stable /\ state' = state
  BY Zenon DEF logVars
<1>5. ASSUME NEW u \in WritersOf(s)
      PROVE  Fits(u, s) /\ \A r \in Storages : r # s => part'[u][r] = part[u][r] /\ wal'[u][r] = wal[u][r]
  <2>1. /\ u \in InGroup /\ u \in Txns /\ s \in wset[u]
        /\ state[u] \in {"ApplyingCommit", "Committed"}
    BY Zenon, <1>1, <1>5, MembersTyped DEF CommitTypeOK, WritersOf
  <2>2. TxnAgrees(u) /\ WalAgrees(u, s) /\ LogAgrees(u, s)
    BY Zenon, <2>1 DEF Inv, Rest, TxnAgrees
  <2>3. Decided(u) /\ seqOf[u] <= stable /\ Decided(u)' /\ seqOf'[u] <= stable'
    BY Zenon, <1>4, <2>1, <2>2 DEF TxnAgrees, HandleAgrees, Applying, Decided
  <2>4. Advances(u, s)
    BY Zenon, <1>5, <2>1 DEF ApplyStep, Advances, Waiting
  <2>5. LogAgrees(u, s)'
    BY Zenon, <2>2, <2>3, <2>4 DEF Advances, LogAgrees
  <2>6. WalAgrees(u, s)'
    BY Zenon, <1>4, <2>2, <2>4 DEF Advances, WalAgrees
  <2>7. state[u] = "Committed" => part'[u][s] = "Committed"
    <3>1. ASSUME state[u] = "Committed" PROVE part[u][s] = "Committed" /\ u \notin Waiting(s)
      BY Zenon, <2>1, <2>2, <3>1 DEF TxnAgrees, HandleAgrees, AllIn, Waiting
    <3>2. QED
      BY Zenon, <2>1, <3>1 DEF ApplyStep
  <2>8. s \in authoritative' => wal'[u][s] = "Commit"
    <3>1. CASE s \in authoritative
      <4>1. wal[u][s] = "Commit"
        BY Zenon, <1>1, <1>5, <2>1, <3>1 DEF GroupAgrees, Applying
      <4>2. QED
        BY Zenon, <2>4, <4>1 DEF Advances
    <3>2. CASE u \notin Waiting(s)
      <4>1. wal'[u][s] = wal[u][s] /\ part[u][s] = "Committed"
        BY Zenon, <1>5, <2>1, <3>2 DEF ApplyStep, Waiting
      <4>2. QED
        BY Zenon, <2>2, <4>1 DEF WalAgrees
    <3>3. CASE s \notin authoritative /\ u \in Waiting(s)
      BY Zenon, <3>3 DEF ApplyStep
    <3>4. QED
      BY Zenon, <3>1, <3>2, <3>3
  <2>9. state[u] \notin Parked
    BY Zenon, <2>1 DEF Parked
  <2>10. \A r \in Storages : r # s => part'[u][r] = part[u][r] /\ wal'[u][r] = wal[u][r]
    BY Zenon, <2>1 DEF ApplyStep
  <2>11. QED
    BY Zenon, <2>1, <2>5, <2>6, <2>7, <2>8, <2>9, <2>10 DEF Fits, Parked
<1>6. \A u \in Txns : u \notin WritersOf(s) => part'[u] = part[u] /\ wal'[u] = wal[u]
  BY Zenon DEF ApplyStep, Waiting
<1>7. durable' # {} => barrier
  BY Zenon, <1>1 DEF GroupAgrees
<1>8. authoritative' \in {authoritative, authoritative \union {s}}
  BY Zenon DEF ApplyStep
<1>9. StorageStep(s)
  BY Zenon, <1>2, <1>3, <1>5, <1>6, <1>7, <1>8 DEF StorageStep
<1>10. QED
  BY Zenon, <1>9, StorageStepKeeps

(* Setting the records of some waiting participants of s.                  *)
LEMMA PartsAt ==
    ASSUME CommitTypeOK, NEW s \in Storages, NEW ts, NEW p \in PartStates, SetParts(ts, s, p)
    PROVE  /\ part' \in [Txns -> [Storages -> PartStates]]
           /\ \A u \in Txns : u \notin ts => part'[u] = part[u]
           /\ \A u \in Txns : u \in ts =>
                part'[u][s] = p /\ \A r \in Storages : r # s => part'[u][r] = part[u][r]
BY Zenon DEF SetParts, CommitTypeOK, StorageTypeOK

(* The same for two states.                                                *)
LEMMA PartsSplit ==
    ASSUME CommitTypeOK, NEW s \in Storages, NEW k, NEW p \in PartStates, NEW q \in PartStates,
           Split(s, k, p, q)
    PROVE  /\ part' \in [Txns -> [Storages -> PartStates]]
           /\ \A u \in Txns : u \notin Waiting(s) => part'[u] = part[u]
           /\ \A u \in Txns : u \in Waiting(s) =>
                part'[u][s] \in {p, q} /\ \A r \in Storages : r # s => part'[u][r] = part[u][r]
<1>1. part \in [Txns -> [Storages -> PartStates]]
  BY Zenon DEF CommitTypeOK, StorageTypeOK
<1> DEFINE v(u) == IF u \in FirstWaiting(s, k) THEN p ELSE q
<1>2. \A u : v(u) \in {p, q} /\ v(u) \in PartStates
  BY Zenon
<1>3. part' = [u \in Txns |-> IF u \in Waiting(s) THEN [part[u] EXCEPT ![s] = v(u)] ELSE part[u]]
  BY Zenon DEF Split
<1> HIDE DEF v
<1>4. part' \in [Txns -> [Storages -> PartStates]]
  BY Zenon, <1>1, <1>2, <1>3
<1>5. \A u \in Txns : u \notin Waiting(s) => part'[u] = part[u]
  BY Zenon, <1>3
<1>6. ASSUME NEW u \in Txns, u \in Waiting(s)
      PROVE  part'[u][s] \in {p, q} /\ \A r \in Storages : r # s => part'[u][r] = part[u][r]
  <2>1. part'[u] = [part[u] EXCEPT ![s] = v(u)] /\ part[u] \in [Storages -> PartStates]
    BY Zenon, <1>1, <1>3, <1>6
  <2>2. QED
    BY Zenon, <1>2, <2>1
<1>7. QED
  BY Zenon, <1>4, <1>5, <1>6

(* The same for the WAL.                                                   *)
LEMMA WalsAt ==
    ASSUME CommitTypeOK, NEW s \in Storages, NEW ts, SetWals(ts, s, "Commit")
    PROVE  /\ wal' \in [Txns -> [Storages -> {"none", "Prepare", "Commit", "Abort"}]]
           /\ \A u \in Txns : u \notin ts => wal'[u] = wal[u]
           /\ \A u \in Txns : u \in ts =>
                wal'[u][s] = "Commit" /\ \A r \in Storages : r # s => wal'[u][r] = wal[u][r]
BY Zenon DEF SetWals, CommitTypeOK, StorageTypeOK
=============================================================================
