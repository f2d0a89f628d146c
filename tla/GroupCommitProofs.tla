-------------------------- MODULE GroupCommitProofs --------------------------
(***************************************************************************)
(* Proofs about GroupCommit for any set of transactions and storages, both *)
(* ways of finalizing, any number of failures and crashes, and any order   *)
(* of calls that the interface accepts, provided that nobody aborts a      *)
(* group whose decision may be in the log (LateAbort is FALSE).            *)
(***************************************************************************)
EXTENDS GroupCommitInvariant

-------------------------------------------------------------------------------
(* The steps that commit the participants.                                 *)

(* After the batch of s is committed, the WAL of s holds the Commit of     *)
(* every participant that waited.                                          *)
LEMMA BatchCommits ==
    ASSUME Inv, NEW s \in Storages, ApplyReady(s), CommitBatch(s)
    PROVE  /\ wal' \in [Txns -> [Storages -> {"none", "Prepare", "Commit", "Abort"}]]
           /\ chain' \in [Storages -> Seq(Txns)]
           /\ \A u \in Txns : u \notin Waiting(s) => wal'[u] = wal[u]
           /\ \A u \in Txns : u \in Waiting(s) =>
                wal'[u][s] = "Commit" /\ \A r \in Storages : r # s => wal'[u][r] = wal[u][r]
           /\ authoritative' \in {authoritative, authoritative \union {s}}
<1>1. CommitTypeOK /\ GroupAgrees
  BY Zenon DEF Inv, Rest
<1>2. CASE OnlyFinalize(s)
  <2>1. wal' = wal /\ chain' = chain /\ authoritative' = authoritative /\ s \in authoritative
    BY Zenon, <1>2 DEF CommitBatch, OnlyFinalize
  <2>2. ASSUME NEW u \in Waiting(s) PROVE wal[u][s] = "Commit"
    <3>1. u \in WritersOf(s) /\ state[u] \in Applying
      BY Zenon, <2>2 DEF Waiting, ApplyReady, Applying
    <3>2. QED
      BY Zenon, <1>1, <2>1, <3>1 DEF GroupAgrees
  <2>3. QED
    BY Zenon, <1>1, <2>1, <2>2 DEF CommitTypeOK, StorageTypeOK
<1>3. CASE ~OnlyFinalize(s)
  <2>1. /\ SetWals(Waiting(s), s, "Commit") /\ LeaveHead(s, Len(ToApply(s)))
        /\ authoritative' \in {authoritative, authoritative \union {s}}
    BY Zenon, <1>3 DEF CommitBatch, MarkAuthoritative
  <2>2. chain' \in [Storages -> Seq(Txns)]
    BY Zenon, <1>1, <2>1, LeaveHeadTyped
  <2>3. QED
    BY Zenon, <1>1, <2>1, <2>2, WalsAt
<1>4. QED
  BY Zenon, <1>2, <1>3

(* Types of a step that commits participants.                              *)
LEMMA ApplyTyped ==
    ASSUME Inv, NEW s \in Storages,
           part' \in [Txns -> [Storages -> PartStates]],
           wal' \in [Txns -> [Storages -> {"none", "Prepare", "Commit", "Abort"}]],
           chain' \in [Storages -> Seq(Txns)],
           poisoned' \in {poisoned, poisoned \union {s}},
           authoritative' \in {authoritative, authoritative \union {s}},
           UNCHANGED <<group, active, prepare, barrier, durable, sequences, resolving,
                       history, txnVars, snap, mode, crashes>>,
           UNCHANGED faults \/ Fault
    PROVE  GroupTypeOK' /\ TxnTypeOK' /\ StorageTypeOK' /\ EnvTypeOK'
<1>1. CommitTypeOK
  BY Zenon DEF Inv
<1>2. TxnTypeOK' /\ EnvTypeOK'
  BY Zenon, <1>1, TypeFrame
<1>3. poisoned' \subseteq Storages /\ authoritative' \subseteq Storages
  BY Zenon, <1>1 DEF CommitTypeOK, StorageTypeOK, GroupTypeOK
<1>4. GroupTypeOK'
  BY Zenon, <1>1, <1>3 DEF CommitTypeOK, GroupTypeOK
<1>5. QED
  BY Zenon, <1>2, <1>3, <1>4 DEF StorageTypeOK

(* Committing the participants of one storage preserves the invariant.     *)
LEMMA ApplyOkInv ==
    ASSUME Inv, NEW s \in Storages, ApplyOk(s)
    PROVE  Inv'
<1>1. CommitTypeOK /\ LogOK /\ GroupAgrees /\ CallAgrees /\ "Committed" \in PartStates
  BY Zenon DEF Inv, CommitTypeOK, LogOK, Rest, PartStates
<1>2. /\ mode = "up" /\ mode' = mode /\ call = "apply" /\ call' = call /\ group' = group
      /\ sequences' = sequences /\ resolving' = resolving /\ poisoned' = poisoned
      /\ ApplyReady(s) /\ SetParts(Waiting(s), s, "Committed") /\ CommitBatch(s)
  BY Zenon DEF ApplyOk, AtApply, Running, envVars, storageVars, callVars
<1>3. /\ part' \in [Txns -> [Storages -> PartStates]]
      /\ \A u \in Txns : u \notin Waiting(s) => part'[u] = part[u]
      /\ \A u \in Txns : u \in Waiting(s) =>
           part'[u][s] = "Committed" /\ \A r \in Storages : r # s => part'[u][r] = part[u][r]
  BY Zenon, <1>1, <1>2, PartsAt
<1>4. /\ wal' \in [Txns -> [Storages -> {"none", "Prepare", "Commit", "Abort"}]]
      /\ chain' \in [Storages -> Seq(Txns)]
      /\ \A u \in Txns : u \notin Waiting(s) => wal'[u] = wal[u]
      /\ \A u \in Txns : u \in Waiting(s) =>
           wal'[u][s] = "Commit" /\ \A r \in Storages : r # s => wal'[u][r] = wal[u][r]
      /\ authoritative' \in {authoritative, authoritative \union {s}}
  BY Zenon, <1>2, BatchCommits
<1>5. \A u \in Waiting(s) : u \in Txns
  BY Zenon, <1>1, MembersTyped DEF CommitTypeOK, Waiting, WritersOf
<1>6. ApplyStep(s)
  BY Zenon, <1>3, <1>4, <1>5 DEF ApplyStep, Advances
<1>7. Rest' /\ LogInv' /\ LogTypeOK'
  BY Zenon, <1>2, <1>6, ApplyStepKeeps
  DEF ApplyOk, ApplyReady, history, txnVars, envVars
<1>8. GroupTypeOK' /\ TxnTypeOK' /\ StorageTypeOK' /\ EnvTypeOK'
  BY Zenon, <1>2, <1>3, <1>4, ApplyTyped DEF ApplyOk, envVars
<1>9. CallTypeOK'
  BY Zenon, <1>1, TypeFrame DEF ApplyOk, callVars
<1>10. CallAgrees'
  BY Zenon, <1>1, <1>2 DEF CallAgrees, Known
<1>11. QED
  BY Zenon, <1>7, <1>8, <1>9, <1>10 DEF Inv, CommitTypeOK

(* A batch that failed preserves the invariant: what is committed is in    *)
(* the WAL, what is not keeps its Prepare.                                 *)
LEMMA ApplyFailsInv ==
    ASSUME Inv, NEW s \in Storages, ApplyFails(s)
    PROVE  Inv'
<1>0. CommitTypeOK
  BY Zenon DEF Inv
<1>1. LogOK /\ GroupAgrees /\ CallAgrees /\ CommitTypeOK
  BY Zenon DEF Inv, CommitTypeOK, LogOK, Rest
<1>p. "CommitPending" \in PartStates
  BY Zenon DEF PartStates, Pending
<1>f. "ChangeFinalizePending" \in PartStates
  BY Zenon DEF PartStates
<1>c. "Committed" \in PartStates
  BY Zenon DEF PartStates
<1>2. /\ mode = "up" /\ mode' = "up" /\ call = "apply" /\ call' = "none" /\ Return
      /\ UNCHANGED <<logVars, group, active, prepare, barrier, durable, sequences, resolving,
                     history, txnVars, snap, mode, crashes>>
  BY Zenon DEF ApplyFails, AtApply, Running, Return
<1>3. CallAgrees'
  BY Zenon, <1>2, CallReturns
<1>4. \A u \in Waiting(s) : u \in Txns
  BY Zenon, <1>1, MembersTyped DEF CommitTypeOK, Waiting, WritersOf
<1>5. CASE ~ApplyReady(s)
  <2>1. UNCHANGED <<faults, storageVars, authoritative>>
    BY Zenon, <1>5 DEF ApplyFails
  <2>2. UNCHANGED groupVars
    BY Zenon, <1>2, <2>1 DEF groupVars
  <2>3. Bookkeeping
    BY Zenon, <1>1, <1>2, <2>1, FlushLog DEF Bookkeeping, txnVars, storageVars, history
  <2>4. GroupTypeOK' /\ TxnTypeOK' /\ StorageTypeOK' /\ EnvTypeOK'
    BY Zenon, <1>1, <1>2, <2>1, <2>2, TypeFrame
  <2>5. CommitTypeOK'
    BY Zenon, <1>2, <2>3, <2>4, ReturnTyped, BookkeepingKeeps DEF CommitTypeOK
  <2>6. QED
    BY Zenon, <1>2, <2>3, <2>5, BookkeepingReturns
<1>6. CASE ApplyReady(s)
  <2>0. Fault
    BY Zenon, <1>6 DEF ApplyFails
  <2>1. SUFFICES ASSUME ApplyStep(s),
                        part' \in [Txns -> [Storages -> PartStates]],
                        wal' \in [Txns -> [Storages -> {"none", "Prepare", "Commit", "Abort"}]],
                        chain' \in [Storages -> Seq(Txns)],
                        poisoned' \in {poisoned, poisoned \union {s}},
                        authoritative' \in {authoritative, authoritative \union {s}}
                 PROVE  Inv'
    <3>1. CASE /\ ~OnlyFinalize(s)
               /\ \E k : SetParts(FirstWaiting(s, k), s, "CommitPending")
               /\ UNCHANGED <<wal, chain, poisoned, authoritative>>
      <4>1. PICK k : SetParts(FirstWaiting(s, k), s, "CommitPending")
        BY Zenon, <3>1
      <4>2. /\ part' \in [Txns -> [Storages -> PartStates]]
            /\ \A u \in Txns : u \notin FirstWaiting(s, k) => part'[u] = part[u]
            /\ \A u \in Txns : u \in FirstWaiting(s, k) =>
                 /\ part'[u][s] = "CommitPending"
                 /\ \A r \in Storages : r # s => part'[u][r] = part[u][r]
        BY Zenon, <1>0, <1>p, <4>1, PartsAt
      <4>3. \A u \in FirstWaiting(s, k) : u \in Waiting(s)
        BY Zenon DEF FirstWaiting
      <4>4. \A u \in Waiting(s) : part[u][s] \in {"ParkedPrepared", "CommitPending"}
        BY Zenon, <1>6, <3>1 DEF ApplyReady, BatchReady
      <4>5. ASSUME NEW u \in Waiting(s)
            PROVE  /\ Advances(u, s)
                   /\ \A r \in Storages : r # s => part'[u][r] = part[u][r] /\ wal'[u][r] = wal[u][r]
        BY Zenon, <1>4, <3>1, <4>2, <4>4, <4>5 DEF Advances
      <4>6. ApplyStep(s)
        BY Zenon, <3>1, <4>2, <4>3, <4>5 DEF ApplyStep
      <4>7. QED
        BY Zenon, <1>1, <2>1, <3>1, <4>2, <4>6 DEF CommitTypeOK, StorageTypeOK
    <3>2. CASE /\ ~OnlyFinalize(s) /\ SetWals(Waiting(s), s, "Commit") /\ StatusFails(s)
               /\ \E k :
                    Split(s, k, "ChangeFinalizePending", "CommitPending") /\ LeaveHead(s, k)
               /\ UNCHANGED authoritative
      <4>1. PICK k :
              Split(s, k, "ChangeFinalizePending", "CommitPending") /\ LeaveHead(s, k)
        BY Zenon, <3>2
      <4>3. chain' \in [Storages -> Seq(Txns)]
        BY Zenon, <1>1, <4>1, LeaveHeadTyped
      <4>4. /\ part' \in [Txns -> [Storages -> PartStates]]
            /\ \A u \in Txns : u \notin Waiting(s) => part'[u] = part[u]
            /\ \A u \in Txns : u \in Waiting(s) =>
                 /\ part'[u][s] \in {"ChangeFinalizePending", "CommitPending"}
                 /\ \A r \in Storages : r # s => part'[u][r] = part[u][r]
        BY Zenon, <1>0, <1>f, <1>p, <4>1, PartsSplit
      <4>5. /\ wal' \in [Txns -> [Storages -> {"none", "Prepare", "Commit", "Abort"}]]
            /\ \A u \in Txns : u \notin Waiting(s) => wal'[u] = wal[u]
            /\ \A u \in Txns : u \in Waiting(s) =>
                 wal'[u][s] = "Commit" /\ \A r \in Storages : r # s => wal'[u][r] = wal[u][r]
        BY Zenon, <1>1, <3>2, WalsAt
      <4>6. ApplyStep(s)
        BY Zenon, <1>4, <3>2, <4>4, <4>5 DEF ApplyStep, Advances
      <4>7. QED
        BY Zenon, <2>1, <3>2, <4>3, <4>4, <4>5, <4>6 DEF StatusFails
    <3>3. CASE /\ CommitBatch(s)
               /\ \E k : Split(s, k, "Committed", "ChangeFinalizePending")
               /\ UNCHANGED poisoned
      <4>1. PICK k : Split(s, k, "Committed", "ChangeFinalizePending")
        BY Zenon, <3>3
      <4>2. /\ part' \in [Txns -> [Storages -> PartStates]]
            /\ \A u \in Txns : u \notin Waiting(s) => part'[u] = part[u]
            /\ \A u \in Txns : u \in Waiting(s) =>
                 /\ part'[u][s] \in {"Committed", "ChangeFinalizePending"}
                 /\ \A r \in Storages : r # s => part'[u][r] = part[u][r]
        BY Zenon, <1>0, <1>c, <1>f, <4>1, PartsSplit
      <4>3. /\ wal' \in [Txns -> [Storages -> {"none", "Prepare", "Commit", "Abort"}]]
            /\ chain' \in [Storages -> Seq(Txns)]
            /\ \A u \in Txns : u \notin Waiting(s) => wal'[u] = wal[u]
            /\ \A u \in Txns : u \in Waiting(s) =>
                 wal'[u][s] = "Commit" /\ \A r \in Storages : r # s => wal'[u][r] = wal[u][r]
            /\ authoritative' \in {authoritative, authoritative \union {s}}
        BY Zenon, <1>6, <3>3, BatchCommits
      <4>4. ApplyStep(s)
        BY Zenon, <1>4, <4>2, <4>3 DEF ApplyStep, Advances
      <4>5. QED
        BY Zenon, <2>1, <3>3, <4>2, <4>3, <4>4
    <3>4. QED
      BY Zenon, <1>6, <3>1, <3>2, <3>3 DEF ApplyFails
  <2>2. Rest' /\ LogInv' /\ LogTypeOK'
    BY Zenon, <1>2, <1>6, <2>1, ApplyStepKeeps DEF ApplyReady, history, txnVars
  <2>3. GroupTypeOK' /\ TxnTypeOK' /\ StorageTypeOK' /\ EnvTypeOK'
    BY Zenon, <1>2, <2>0, <2>1, ApplyTyped
  <2>4. CallTypeOK'
    BY Zenon, <1>2, <2>3, ReturnTyped
  <2>5. QED
    BY Zenon, <1>3, <2>2, <2>3, <2>4 DEF Inv, CommitTypeOK
<1>7. QED
  BY Zenon, <1>5, <1>6

-------------------------------------------------------------------------------
(* The decision of the group.                                              *)

(* The decision record is written, and either it is durable and the        *)
(* members are applied, or the group stays as it was.                      *)
DecisionStep ==
    /\ call = "decide" /\ mode = "up" /\ Record
    /\ UNCHANGED <<group, prepare, barrier, durable, authoritative, resolving, acked, wset, part,
                   wal, snap, mode>>
    /\ \/ /\ GroupDecideOk(group)
          /\ sequences' = Len(group) /\ SetStates(InGroup, "ApplyingCommit")
       \/ /\ GroupDecideUnsynced(group)
          /\ sequences' = sequences /\ state' = state

(* What is known before: every member and all of its participants are      *)
(* prepared, and nothing is applied.                                       *)
LEMMA DecisionPoint ==
    ASSUME Inv, call = "decide"
    PROVE  /\ group # <<>> /\ ~Known /\ sequences = 0 /\ resolving = NoTxn /\ authoritative = {}
           /\ \A t \in InGroup : /\ t \in Txns /\ state[t] = "ParkedPrepared"
                                 /\ wset[t] # {} /\ AllIn(t, {"ParkedPrepared"})
<1>1. CommitTypeOK /\ GroupAgrees /\ CallAgrees
  BY Zenon DEF Inv, Rest
<1>2. /\ group # <<>> /\ ~Known /\ resolving = NoTxn
      /\ \A t \in InGroup : state[t] = "ParkedPrepared"
  BY Zenon, <1>1 DEF CallAgrees
<1>3. sequences = 0
  BY <1>1, <1>2 DEF CommitTypeOK, GroupTypeOK, Known
<1>4. \A t \in InGroup : t \in Txns
  BY Zenon, <1>1, MembersTyped DEF CommitTypeOK
<1>5. authoritative = {}
  BY Zenon, <1>1, <1>2 DEF GroupAgrees
<1>6. \A t \in InGroup : wset[t] # {} /\ AllIn(t, {"ParkedPrepared"})
  BY Zenon, <1>2, <1>4 DEF Inv, Rest, TxnAgrees, HandleAgrees
<1>7. QED
  BY Zenon, <1>2, <1>3, <1>4, <1>5, <1>6

(* What the decision does to the log: the members are numbered above       *)
(* everything else, or as they were.                                       *)
LEMMA DecisionNumbers ==
    ASSUME Inv, DecisionStep
    PROVE  /\ LogTypeOK' /\ LogInv' /\ stable <= stable'
           /\ \A t \in Txns : t \in InGroup \/ seqOf'[t] = seqOf[t]
           /\ \A t \in InGroup : Decided(t)'
           /\ \/ SameGroup(group) /\ seqOf' = seqOf
              \/ /\ \A t \in InGroup : ~Decided(t) /\ seqOf'[t] > last
                 /\ \A i \in DOMAIN group : seqOf'[group[i]] = last + i
           /\ sequences' = Len(group) => \A t \in InGroup : seqOf'[t] <= stable'
<1>1. CommitTypeOK /\ LogOK /\ GroupTypeOK /\ group \in Seq(Txns)
  BY Zenon DEF Inv, CommitTypeOK, LogOK, GroupTypeOK
<1>2. GroupDecideOk(group) \/ GroupDecideUnsynced(group)
  BY Zenon DEF DecisionStep
<1>3. /\ LogOK' /\ stable <= stable'
      /\ \A t \in Txns : t \in InGroup \/ seqOf'[t] = seqOf[t]
      /\ \A t \in InGroup : seqOf'[t] > 0
      /\ GroupDecideOk(group) => stable' = last'
      /\ GroupNumbered(group)
  BY Zenon, <1>1, <1>2, GroupDecideLog DEF InGroup
<1>4. \/ SameGroup(group) /\ seqOf' = seqOf
      \/ /\ \A t \in InGroup : ~Decided(t) /\ seqOf'[t] > last
         /\ \A i \in DOMAIN group : seqOf'[group[i]] = last + i
  BY Zenon, <1>1, <1>3 DEF GroupNumbered, InGroup, GroupTypeOK
<1>5. sequences' = Len(group) => \A t \in InGroup : seqOf'[t] <= stable'
  <2>1. ASSUME sequences' = Len(group) PROVE GroupDecideOk(group)
    <3>1. sequences = 0 /\ group # <<>>
      BY Zenon, DecisionPoint DEF DecisionStep
    <3>2. Len(group) # 0
      BY <1>1, <3>1
    <3>3. QED
      BY Zenon, <2>1, <3>1, <3>2 DEF DecisionStep
  <2>2. \A t \in InGroup : t \in Txns
    BY Zenon, <1>1, MembersTyped
  <2>3. QED
    BY Zenon, <1>3, <2>1, <2>2 DEF LogOK, LogInv
<1>6. QED
  BY Zenon, <1>3, <1>4, <1>5 DEF LogOK, Decided

(* Numbers within a group ascend.                                          *)
LEMMA DecisionOrder ==
    ASSUME Inv, DecisionStep, sequences' = Len(group), NEW i \in 1..Len(group)
    PROVE  seqOf'[group[i]] <= seqOf'[group[Len(group)]]
<1>1. CommitTypeOK /\ GroupTypeOK /\ DOMAIN group = 1..Len(group) /\ Len(group) \in Nat
  BY Zenon, MembersTyped DEF Inv, CommitTypeOK
<1>2. i \in Nat /\ i <= Len(group) /\ Len(group) \in 1..Len(group)
  BY <1>1
<1>3. CASE SameGroup(group) /\ seqOf' = seqOf
  <2>1. /\ seqOf[group[i]] = seqOf[group[1]] + i - 1
        /\ seqOf[group[Len(group)]] = seqOf[group[1]] + Len(group) - 1
    BY Zenon, <1>1, <1>2, <1>3 DEF SameGroup
  <2>2. seqOf[group[1]] \in Nat
    <3>1. 1 \in 1..Len(group)
      BY <1>1, <1>2
    <3>2. group[1] \in Txns
      BY Zenon, <1>1, <3>1, MembersTyped
    <3>3. QED
      BY Zenon, <1>1, <3>2 DEF CommitTypeOK, LogTypeOK
  <2>3. QED
    BY <1>1, <1>2, <1>3, <2>1, <2>2
<1>4. CASE \A j \in DOMAIN group : seqOf'[group[j]] = last + j
  <2>1. seqOf'[group[i]] = last + i /\ seqOf'[group[Len(group)]] = last + Len(group)
    BY Zenon, <1>1, <1>2, <1>4
  <2>2. last \in Nat
    BY Zenon, <1>1 DEF CommitTypeOK, LogTypeOK
  <2>3. QED
    BY <1>1, <1>2, <2>1, <2>2
<1>5. QED
  BY Zenon, <1>3, <1>4, DecisionNumbers

(* A decision keeps everything but what is said of the running call.       *)
LEMMA DecisionKeeps ==
    ASSUME Inv, DecisionStep
    PROVE  Rest' /\ LogInv' /\ LogTypeOK' /\ state' \in [Txns -> TxnStates]
<1>1. /\ CommitTypeOK /\ GroupTypeOK /\ GroupAgrees /\ OrderAgrees /\ HistoryAgrees /\ SnapAgrees
      /\ \A t \in Txns : TxnAgrees(t)
  BY Zenon DEF Inv, CommitTypeOK, Rest
<1>2. /\ sequences = 0 /\ ~Known /\ resolving = NoTxn /\ authoritative = {} /\ group # <<>>
      /\ \A t \in InGroup : /\ t \in Txns /\ state[t] = "ParkedPrepared"
                            /\ wset[t] # {} /\ AllIn(t, {"ParkedPrepared"})
  BY Zenon, DecisionPoint DEF DecisionStep
<1>3. /\ LogTypeOK' /\ LogInv' /\ stable <= stable' /\ stable' \in Nat
      /\ \A t \in Txns : t \in InGroup \/ seqOf'[t] = seqOf[t]
      /\ \A t \in InGroup : Decided(t)'
      /\ sequences' = Len(group) => \A t \in InGroup : seqOf'[t] <= stable'
  <2>1. LogTypeOK'
    BY Zenon, DecisionNumbers
  <2>2. stable' \in Nat
    BY <2>1 DEF LogTypeOK
  <2>3. QED
    BY Zenon, <2>1, <2>2, DecisionNumbers
<1>4. /\ InGroup' = InGroup /\ group' = group /\ prepare' = prepare /\ barrier' = barrier
      /\ durable' = durable /\ authoritative' = {} /\ resolving' = NoTxn /\ acked' = acked
      /\ wset' = wset /\ part' = part /\ wal' = wal /\ snap' = snap /\ mode' = mode /\ mode = "up"
  BY Zenon, <1>2, SameMembers DEF DecisionStep
<1>5. /\ state' \in [Txns -> TxnStates]
      /\ \A u \in Txns : u \notin InGroup => state'[u] = state[u]
      /\ \/ /\ sequences' = Len(group)
            /\ \A u \in InGroup : state'[u] = "ApplyingCommit"
         \/ sequences' = 0 /\ state' = state
  <2>1. CASE sequences' = Len(group) /\ SetStates(InGroup, "ApplyingCommit")
    <3>1. "ApplyingCommit" \in TxnStates
      BY Zenon DEF TxnStates
    <3>2. QED
      BY Zenon, <1>1, <1>2, <2>1, <3>1 DEF CommitTypeOK, TxnTypeOK, SetStates
  <2>2. CASE sequences' = sequences /\ state' = state
    BY Zenon, <1>1, <1>2, <2>2 DEF CommitTypeOK, TxnTypeOK
  <2>3. QED
    BY Zenon, <2>1, <2>2 DEF DecisionStep
<1>6. ASSUME NEW u \in Txns PROVE TxnAgrees(u)'
  <2>1. CASE u \notin InGroup
    BY Zenon, <1>3, <1>4, <1>5, <2>1, TxnFrame DEF Untouched
  <2>2. CASE u \in InGroup
    <3>1. /\ state'[u] = "ParkedPrepared" \/ (state'[u] = "ApplyingCommit" /\ seqOf'[u] <= stable')
          /\ wset'[u] # {} /\ Decided(u)' /\ AllIn(u, {"ParkedPrepared"})' /\ AllIn(u, Parked)'
      BY Zenon, <1>2, <1>3, <1>4, <1>5, <2>2 DEF AllIn, Parked
    <3>2. HandleAgrees(u)'
      BY Zenon, <1>4, <3>1 DEF HandleAgrees, Unlogged, Applying, Parked
    <3>3. ASSUME NEW s \in wset'[u] PROVE WalAgrees(u, s)' /\ LogAgrees(u, s)'
      <4>1. part'[u][s] = "ParkedPrepared" /\ wal'[u][s] = "Prepare"
        BY Zenon, <1>1, <1>2, <1>4, <2>2, <3>3 DEF TxnAgrees, WalAgrees, AllIn
      <4>2. QED
        BY Zenon, <4>1 DEF WalAgrees, LogAgrees
    <3>4. QED
      BY Zenon, <1>1, <1>4, <3>2, <3>3 DEF TxnAgrees
  <2>3. QED
    BY Zenon, <2>1, <2>2
<1>7. GroupAgrees'
  <2>1. \A s : WritersOf(s)' = WritersOf(s)
    BY Zenon, <1>4 DEF WritersOf
  <2>2. CASE sequences' = Len(group) /\ \A u \in InGroup : state'[u] = "ApplyingCommit"
    <3>1. \A u \in InGroup' : /\ state'[u] \in MemberStates /\ state'[u] # "ParkedPreparePending"
                              /\ state'[u] \notin Parked
      BY Zenon, <1>4, <2>2 DEF MemberStates, Applying, Parked
    <3>2. Len(group') \in Nat /\ \A i \in 1..sequences' : state'[group'[i]] \in Applying
      BY Zenon, <1>1, <1>4, <2>2, MembersTyped DEF Applying
    <3>3. sequences' <= Len(group')
      BY <1>4, <2>2, <3>2
    <3>4. \A s : \A t \in WritersOf(s)' : t \in InGroup'
      BY Zenon DEF WritersOf
    <3>5. QED
      BY Zenon, <1>1, <1>4, <3>1, <3>2, <3>3, <3>4 DEF GroupAgrees
  <2>3. CASE sequences' = 0 /\ state' = state
    BY Zenon, <1>1, <1>2, <1>4, <2>1, <2>3 DEF GroupAgrees
  <2>4. QED
    BY Zenon, <1>5, <2>2, <2>3
<1>8. OrderAgrees'
  <2>1. ASSUME NEW t \in InGroup', NEW u \in Txns, Decided(t)', seqOf'[u] > seqOf'[t]
        PROVE  u \in InGroup'
    <3>1. CASE SameGroup(group) /\ seqOf' = seqOf
      BY Zenon, <1>1, <1>4, <2>1, <3>1 DEF OrderAgrees, Decided
    <3>2. CASE \A v \in InGroup : seqOf'[v] > last
      <4>1. ASSUME u \notin InGroup PROVE FALSE
        <5>1. seqOf'[u] = seqOf[u] /\ seqOf'[t] > last /\ t \in Txns
          BY Zenon, <1>2, <1>3, <1>4, <2>1, <3>2, <4>1
        <5>2. seqOf[u] \in Nat /\ last \in Nat /\ seqOf[u] <= last /\ seqOf'[t] \in Nat
          BY Zenon, <1>1, <1>3, <5>1 DEF CommitTypeOK, LogTypeOK, Inv, LogInv
        <5>3. QED
          BY <2>1, <5>1, <5>2
      <4>2. QED
        BY Zenon, <1>4, <4>1
    <3>3. QED
      BY Zenon, <3>1, <3>2, DecisionNumbers
  <2>2. CASE sequences' = Len(group)
    <3>1. Len(group) \in Nat /\ DOMAIN group' = 1..Len(group)
      BY Zenon, <1>1, <1>4, MembersTyped
    <3>2. \A i \in 1..sequences' : seqOf'[group'[i]] <= seqOf'[group'[sequences']]
      BY Zenon, <1>4, <2>2, DecisionOrder
    <3>3. \A i \in DOMAIN group' : ~(i > sequences')
      BY <2>2, <3>1
    <3>4. QED
      BY Zenon, <2>1, <3>2, <3>3 DEF OrderAgrees
  <2>3. CASE sequences' = 0
    <3>1. 1..sequences' = {} /\ ~(sequences' > 0)
      BY <2>3
    <3>2. QED
      BY Zenon, <2>1, <3>1 DEF OrderAgrees, Known
  <2>4. QED
    BY Zenon, <1>5, <2>2, <2>3
<1>9. HistoryAgrees'
  <2>1. ASSUME NEW c \in records
        PROVE  /\ \A t \in c : Decided(t)' \/ state'[t] = "Dropped"
               /\ \A t, u \in c : Decided(t)' => Decided(u)'
    <3>1. ASSUME NEW t \in c
          PROVE  /\ t \in Txns /\ (Decided(t) => Decided(t)')
                 /\ ~Decided(t) => t \notin InGroup /\ state'[t] = "Dropped" /\ ~Decided(t)'
      <4>1. t \in Txns /\ (Decided(t) \/ state[t] = "Dropped")
        BY Zenon, <1>1, <2>1, <3>1 DEF CommitTypeOK, TxnTypeOK, HistoryAgrees
      <4>2. state[t] = "Dropped" => t \notin InGroup /\ state'[t] = "Dropped"
        BY Zenon, <1>2, <1>5, <4>1
      <4>3. Decided(t) => Decided(t)'
        BY Zenon, <1>3, <4>1 DEF Decided
      <4>4. t \notin InGroup => (Decided(t)' <=> Decided(t))
        BY Zenon, <1>3, <4>1 DEF Decided
      <4>5. QED
        BY Zenon, <4>1, <4>2, <4>3, <4>4
    <3>2. QED
      BY Zenon, <1>1, <2>1, <3>1 DEF HistoryAgrees
  <2>2. \A t \in InGroup : Decided(t)'
    BY Zenon, <1>3
  <2>3. records' = records \/ records' = records \union {InGroup}
    BY Zenon DEF DecisionStep, Record
  <2>4. /\ \A c \in records' : \A t \in c : Decided(t)' \/ state'[t] = "Dropped"
        /\ \A c \in records' : \A t, u \in c : Decided(t)' => Decided(u)'
    BY Zenon, <2>1, <2>2, <2>3
  <2>5. ASSUME NEW t \in acked.commit \union acked.abort PROVE state'[t] = state[t]
    <3>1. t \in Txns
      BY Zenon, <1>1, <2>5 DEF CommitTypeOK, TxnTypeOK
    <3>2. t \notin InGroup
      BY Zenon, <1>1, <1>2, <2>5 DEF HistoryAgrees
    <3>3. QED
      BY Zenon, <1>5, <3>1, <3>2
  <2>6. QED
    BY Zenon, <1>1, <1>4, <2>4, <2>5 DEF HistoryAgrees
<1>10. SnapAgrees'
  <2>0. snap.seq \in Nat /\ stable \in Nat /\ last \in Nat /\ stable <= last /\ snap.seq <= stable
    BY <1>1 DEF CommitTypeOK, EnvTypeOK, LogTypeOK, SnapAgrees
  <2>1. snap'.seq <= stable'
    BY <1>3, <1>4, <2>0
  <2>2. ASSUME NEW t \in Txns, Decided(t)', t \notin InGroup' PROVE AllIn(t, {"Committed"})'
    <3>1. Decided(t) /\ t \notin InGroup
      BY Zenon, <1>3, <1>4, <2>2 DEF Decided
    <3>2. QED
      BY Zenon, <1>1, <1>4, <2>2, <3>1 DEF SnapAgrees, AllIn
  <2>3. ASSUME NEW t \in Txns, NEW s \in wset'[t]
        PROVE  t \in snap'.vis[s] <=> (Decided(t)' /\ seqOf'[t] <= snap'.seq)
    <3>0. t \in snap.vis[s] <=> (Decided(t) /\ seqOf[t] <= snap.seq)
      BY Zenon, <1>1, <1>4, <2>3 DEF SnapAgrees, GroupVisibleWhole
    <3>1. CASE seqOf'[t] = seqOf[t]
      BY Zenon, <1>4, <3>0, <3>1 DEF Decided
    <3>2. CASE ~Decided(t) /\ seqOf'[t] > last
      <4>1. ~(seqOf'[t] <= snap.seq)
        <5>1. seqOf'[t] \in Nat
          BY Zenon, <1>3, <2>3 DEF LogTypeOK
        <5>2. QED
          BY <2>0, <3>2, <5>1
      <4>2. QED
        BY Zenon, <1>4, <3>0, <3>2, <4>1
    <3>3. QED
      BY Zenon, <1>3, <2>3, <3>1, <3>2, DecisionNumbers
  <2>4. QED
    BY Zenon, <1>1, <1>4, <2>1, <2>2, <2>3 DEF SnapAgrees, GroupVisibleWhole
<1>11. QED
  BY Zenon, <1>3, <1>5, <1>6, <1>7, <1>8, <1>9, <1>10 DEF Rest

(* A durable decision preserves the invariant.                             *)
LEMMA GroupDecisionOkInv ==
    ASSUME Inv, GroupDecisionOk
    PROVE  Inv'
<1>1. CommitTypeOK /\ LogOK /\ GroupTypeOK /\ CallAgrees
  BY Zenon DEF Inv, CommitTypeOK, LogOK
<1>2. /\ call = "decide" /\ mode = "up" /\ mode' = "up" /\ group' = group /\ Record
      /\ sequences' = Len(group) /\ resolving' = resolving
      /\ call' = "apply" /\ pos' = 1 /\ acked' = acked /\ wset' = wset
  BY Zenon DEF GroupDecisionOk, Running, Call, envVars
<1>3. DecisionStep
  BY Zenon, <1>2 DEF DecisionStep, GroupDecisionOk, storageVars, envVars
<1>4. Rest' /\ LogInv' /\ LogTypeOK' /\ state' \in [Txns -> TxnStates]
  BY Zenon, <1>3, DecisionKeeps
<1>5. StorageTypeOK' /\ EnvTypeOK'
  BY Zenon, <1>1, TypeFrame DEF GroupDecisionOk
<1>6. Len(group) \in Nat /\ \A t \in InGroup : t \in Txns
  BY Zenon, <1>1, MembersTyped
<1>7. GroupTypeOK'
  BY Zenon, <1>1, <1>2, <1>6 DEF GroupDecisionOk, GroupTypeOK
<1>8. TxnTypeOK'
  <2>1. records' \subseteq SUBSET Txns
    BY Zenon, <1>1, <1>2, <1>6 DEF Record, CommitTypeOK, TxnTypeOK
  <2>2. QED
    BY Zenon, <1>1, <1>2, <1>4, <2>1 DEF CommitTypeOK, TxnTypeOK
<1>9. CallTypeOK'
  <2>1. pos' \in 0..(Len(group') + 1)
    BY <1>2, <1>6
  <2>2. QED
    BY Zenon, <1>2, <2>1 DEF CallTypeOK
<1>10. CallAgrees'
  <2>1. resolving = NoTxn /\ group # <<>> /\ group \in Seq(Txns)
    BY Zenon, <1>1, <1>2, DecisionPoint DEF GroupTypeOK
  <2>2. Known'
    BY <1>2, <2>1 DEF Known
  <2>3. QED
    BY Zenon, <1>2, <2>1, <2>2 DEF CallAgrees
<1>11. QED
  BY Zenon, <1>4, <1>5, <1>7, <1>8, <1>9, <1>10 DEF Inv, CommitTypeOK

(* A decision that is refused, fails or may not be durable preserves the   *)
(* invariant.                                                              *)
LEMMA GroupDecisionFailsInv ==
    ASSUME Inv, GroupDecisionFails
    PROVE  Inv'
<1>1. CommitTypeOK /\ LogOK /\ GroupTypeOK /\ CallAgrees
  BY Zenon DEF Inv, CommitTypeOK, LogOK
<1>2. /\ call = "decide" /\ mode = "up" /\ mode' = "up" /\ group' = group /\ Return
      /\ call' = "none" /\ UNCHANGED <<groupVars, acked, txnVars, storageVars, snap, mode, crashes>>
  BY Zenon DEF GroupDecisionFails, Running, Return, groupVars
<1>f. UNCHANGED faults \/ Fault
  BY Zenon DEF GroupDecisionFails
<1>3. \A t \in InGroup : t \in Txns
  BY Zenon, <1>1, MembersTyped
<1>4. /\ records' \in {records, records \union {InGroup}}
      /\ (Bookkeeping /\ records' = records) \/ DecisionStep
  <2>1. CASE UNCHANGED <<logVars, records>> \/ (DecideFailed /\ UNCHANGED records)
    <3>1. LogStays /\ records' = records
      BY Zenon, <1>1, <2>1, FlushLog
    <3>2. QED
      BY Zenon, <1>2, <3>1 DEF Bookkeeping, groupVars, txnVars, storageVars
  <2>2. CASE GroupDecideUnsynced(group) /\ Record
    BY Zenon, <1>2, <2>2 DEF DecisionStep, Record, groupVars, txnVars, storageVars
  <2>3. QED
    BY Zenon, <2>1, <2>2 DEF GroupDecisionFails
<1>5. Rest' /\ LogInv' /\ LogTypeOK'
  BY Zenon, <1>4, BookkeepingKeeps, DecisionKeeps
<1>6. GroupTypeOK' /\ StorageTypeOK' /\ EnvTypeOK'
  BY Zenon, <1>1, <1>2, <1>f, TypeFrame
<1>7. TxnTypeOK'
  <2>0. InGroup \in SUBSET Txns /\ records \subseteq SUBSET Txns
    BY Zenon, <1>1, <1>3 DEF CommitTypeOK, TxnTypeOK
  <2>1. records' \subseteq SUBSET Txns
    BY Zenon, <1>4, <2>0
  <2>2. QED
    BY Zenon, <1>1, <1>2, <2>1 DEF CommitTypeOK, TxnTypeOK, txnVars
<1>8. CallTypeOK' /\ CallAgrees'
  BY Zenon, <1>2, <1>6, ReturnTyped, CallReturns
<1>9. QED
  BY Zenon, <1>5, <1>6, <1>7, <1>8 DEF Inv, CommitTypeOK

-------------------------------------------------------------------------------
(* The end of the process and recovery.                                    *)

(* What the end of the process leaves of a WAL record.                     *)
LEMMA WalAfterEnd ==
    ASSUME Inv, ProcessEnds
    PROVE  /\ wal' \in [Txns -> [Storages -> {"none", "Prepare", "Commit", "Abort"}]]
           /\ \A t \in Txns, s \in Storages :
                \/ wal'[t][s] = wal[t][s]
                \/ part[t][s] \in {"PreparePending", "ParkedPreparePending"} /\ wal'[t][s] = "Prepare"
                \/ part[t][s] = "CommitPending" /\ wal'[t][s] = "Commit"
                \/ part[t][s] = "RollbackPending" /\ wal'[t][s] = "Abort"
<1>1. PICK kept \in SUBSET {x \in Txns \X Storages : part[x[1]][x[2]] \in DOMAIN Unflushed} :
        wal' = [t \in Txns |-> [s \in Storages |->
                  IF <<t, s>> \in kept THEN Unflushed[part[t][s]] ELSE wal[t][s]]]
  BY Zenon DEF ProcessEnds
<1>2. ASSUME NEW t \in Txns, NEW s \in Storages, <<t, s>> \in kept
      PROVE  part[t][s] \in DOMAIN Unflushed
  BY Zenon, <1>2
<1>3. /\ DOMAIN Unflushed = {"PreparePending", "ParkedPreparePending", "CommitPending",
                             "RollbackPending"}
      /\ Unflushed["PreparePending"] = "Prepare" /\ Unflushed["ParkedPreparePending"] = "Prepare"
      /\ Unflushed["CommitPending"] = "Commit" /\ Unflushed["RollbackPending"] = "Abort"
  BY Zenon DEF Unflushed
<1> DEFINE w(t, s) == IF <<t, s>> \in kept THEN Unflushed[part[t][s]] ELSE wal[t][s]
<1>4. wal' = [t \in Txns |-> [s \in Storages |-> w(t, s)]]
  BY Zenon, <1>1
<1>5. ASSUME NEW t \in Txns, NEW s \in Storages
      PROVE  /\ \/ w(t, s) = wal[t][s]
                \/ part[t][s] \in {"PreparePending", "ParkedPreparePending"} /\ w(t, s) = "Prepare"
                \/ part[t][s] = "CommitPending" /\ w(t, s) = "Commit"
                \/ part[t][s] = "RollbackPending" /\ w(t, s) = "Abort"
             /\ w(t, s) \in {"none", "Prepare", "Commit", "Abort"}
  <2>1. wal[t][s] \in {"none", "Prepare", "Commit", "Abort"}
    BY Zenon DEF Inv, CommitTypeOK, StorageTypeOK
  <2>2. CASE <<t, s>> \in kept
    <3>1. w(t, s) = Unflushed[part[t][s]] /\ part[t][s] \in DOMAIN Unflushed
      BY Zenon, <1>2, <2>2
    <3>2. QED
      BY Zenon, <1>3, <3>1
  <2>3. CASE <<t, s>> \notin kept
    BY Zenon, <2>1, <2>3
  <2>4. QED
    BY Zenon, <2>2, <2>3
<1> HIDE DEF w
<1>6. wal' \in [Txns -> [Storages -> {"none", "Prepare", "Commit", "Abort"}]]
  BY Zenon, <1>4, <1>5
<1>7. \A t \in Txns, s \in Storages : wal'[t][s] = w(t, s)
  BY Zenon, <1>4
<1>8. ASSUME NEW t \in Txns, NEW s \in Storages
      PROVE  \/ wal'[t][s] = wal[t][s]
             \/ part[t][s] \in {"PreparePending", "ParkedPreparePending"} /\ wal'[t][s] = "Prepare"
             \/ part[t][s] = "CommitPending" /\ wal'[t][s] = "Commit"
             \/ part[t][s] = "RollbackPending" /\ wal'[t][s] = "Abort"
  <2>1. wal'[t][s] = w(t, s)
    BY Zenon, <1>7
  <2>2. QED
    BY Zenon, <1>5, <2>1
<1>9. QED
  BY Zenon, <1>6, <1>8

(* The end of the process keeps the agreement of every transaction: what   *)
(* is left of it is decided only if all of it is prepared or committed.    *)
LEMMA EndAgrees ==
    ASSUME Inv, ProcessEnds, NEW u \in Txns
    PROVE  TxnAgrees(u)'
<1>1. CommitTypeOK /\ LogOK /\ TxnAgrees(u)
  BY Zenon DEF Inv, CommitTypeOK, LogOK, Rest
<1>2. /\ Decided(u)' => Decided(u)
      /\ Decided(u) /\ seqOf[u] <= stable => Decided(u)' /\ seqOf'[u] <= stable'
  BY Zenon, <1>1, CrashLog DEF ProcessEnds, Decided
<1>3. /\ mode' = "down" /\ wset' = wset
      /\ state[u] \in {"none", "Committed", "RolledBack"} => state'[u] = state[u]
      /\ state[u] \notin {"none", "Committed", "RolledBack"} => state'[u] = "Dropped"
  BY Zenon DEF ProcessEnds, SetStates
<1>4. ASSUME NEW s \in Storages
      PROVE  /\ s \in wset[u] => part'[u][s] = Inspected(wal'[u][s])
             /\ s \notin wset[u] => part'[u][s] = "none"
             /\ wal'[u][s] \in {"none", "Prepare", "Commit", "Abort"}
             /\ part[u][s] \in PartStates
             /\ \/ wal'[u][s] = wal[u][s]
                \/ part[u][s] \in {"PreparePending", "ParkedPreparePending"} /\ wal'[u][s] = "Prepare"
                \/ part[u][s] = "CommitPending" /\ wal'[u][s] = "Commit"
                \/ part[u][s] = "RollbackPending" /\ wal'[u][s] = "Abort"
  <2>1. part' = [t \in Txns |-> [r \in Storages |->
                  IF r \in wset[t] THEN Inspected(wal'[t][r]) ELSE "none"]]
    BY Zenon DEF ProcessEnds
  <2>2. part'[u][s] = IF s \in wset[u] THEN Inspected(wal'[u][s]) ELSE "none"
    BY Zenon, <2>1
  <2>3. part[u][s] \in PartStates /\ wal'[u][s] \in {"none", "Prepare", "Commit", "Abort"}
    <3>1. wal' \in [Txns -> [Storages -> {"none", "Prepare", "Commit", "Abort"}]]
      BY Zenon, WalAfterEnd
    <3>2. QED
      BY Zenon, <1>1, <3>1 DEF CommitTypeOK, StorageTypeOK
  <2>4. QED
    BY Zenon, <2>2, <2>3, WalAfterEnd
<1>5. Inspected("Prepare") = "Prepared" /\ Inspected("Commit") = "Committed"
      /\ Inspected("none") = "RolledBack" /\ Inspected("Abort") = "RolledBack"
  BY Zenon DEF Inspected
<1>6. wset[u] \subseteq Storages
  BY Zenon, <1>1 DEF CommitTypeOK, TxnTypeOK
<1>7. ASSUME NEW s \in wset[u]
      PROVE  /\ s \in Storages /\ WalAgrees(u, s) /\ LogAgrees(u, s)
             /\ state[u] = "Committed" => part[u][s] = "Committed" /\ wal[u][s] = "Commit"
             /\ state[u] = "RolledBack" => part[u][s] = "RolledBack" /\ wal[u][s] = "Abort"
             /\ state[u] # "none"
             /\ wal[u][s] = "Commit" => part[u][s] \in {"CommitPending", "ChangeFinalizePending", "Committed"}
             /\ Decided(u) => wal[u][s] \in {"Prepare", "Commit"}
  <2>1. s \in Storages /\ WalAgrees(u, s) /\ LogAgrees(u, s) /\ part[u][s] \in PartStates
    BY Zenon, <1>1, <1>4, <1>6, <1>7 DEF TxnAgrees
  <2>2. state[u] = "Committed" => part[u][s] = "Committed" /\ wal[u][s] = "Commit"
    BY Zenon, <1>1, <1>7, <2>1 DEF TxnAgrees, HandleAgrees, AllIn, WalAgrees
  <2>3. state[u] = "RolledBack" => part[u][s] = "RolledBack" /\ wal[u][s] = "Abort"
    BY Zenon, <1>1, <1>7, <2>1 DEF TxnAgrees, HandleAgrees, AllIn, WalAgrees
  <2>4. wal[u][s] = "Commit" => part[u][s] \in {"CommitPending", "ChangeFinalizePending", "Committed"}
    BY Zenon, <2>1 DEF WalAgrees, PartStates, Parked, Pending
  <2>5. Decided(u) => wal[u][s] \in {"Prepare", "Commit"}
    BY Zenon, <2>1 DEF WalAgrees, LogAgrees
  <2>6. state[u] # "none"
    BY Zenon, <1>1, <1>7 DEF TxnAgrees, HandleAgrees
  <2>7. QED
    BY Zenon, <2>1, <2>2, <2>3, <2>4, <2>5, <2>6
<1>8. ASSUME NEW s \in wset[u] PROVE WalAgrees(u, s)'
  <2>1. part'[u][s] \in {"Prepared", "Committed", "RolledBack"}
        /\ (part'[u][s] = "Prepared" => wal'[u][s] = "Prepare")
        /\ (part'[u][s] = "Committed" => wal'[u][s] = "Commit")
        /\ (part'[u][s] = "RolledBack" => wal'[u][s] \in {"none", "Abort"})
    BY Zenon, <1>4, <1>5, <1>6, <1>8
  <2>2. wal'[u][s] = "none" => state'[u] = "Dropped"
    BY Zenon, <1>3, <1>4, <1>7, <1>8
  <2>3. QED
    BY Zenon, <2>1, <2>2 DEF WalAgrees
<1>9. ASSUME NEW s \in wset[u] PROVE LogAgrees(u, s)'
  <2>1. Decided(u)' => wal'[u][s] \in {"Prepare", "Commit"}
    <3>1. Decided(u) => part[u][s] # "RollbackPending"
      BY Zenon, <1>7, <1>9 DEF LogAgrees
    <3>2. QED
      BY Zenon, <1>2, <1>4, <1>7, <1>9, <3>1
  <2>2. wal'[u][s] = "Commit" => Decided(u) /\ seqOf[u] <= stable
    <3>1. wal'[u][s] = "Commit" => part[u][s] \in {"CommitPending", "ChangeFinalizePending", "Committed"}
      BY Zenon, <1>4, <1>7, <1>9
    <3>2. QED
      BY Zenon, <1>7, <1>9, <3>1 DEF LogAgrees
  <2>3. /\ part'[u][s] = Inspected(wal'[u][s])
        /\ wal'[u][s] \in {"none", "Prepare", "Commit", "Abort"}
    BY Zenon, <1>4, <1>6, <1>9
  <2>4. Decided(u)' => part'[u][s] \in {"Prepared", "Committed"}
    BY Zenon, <1>5, <2>1, <2>3
  <2>5. part'[u][s] \in {"CommitPending", "ChangeFinalizePending", "Committed"} => wal'[u][s] = "Commit"
    BY Zenon, <1>5, <2>3
  <2>6. QED
    BY Zenon, <1>2, <2>2, <2>4, <2>5 DEF LogAgrees
<1>10. HandleAgrees(u)'
  <2>1. HandleAgrees(u) /\ state[u] \in TxnStates
    BY Zenon, <1>1 DEF TxnAgrees, CommitTypeOK, TxnTypeOK
  <2>2. CASE state[u] \notin {"none", "Committed", "RolledBack"}
    <3>1. state'[u] = "Dropped" /\ wset'[u] # {}
      BY Zenon, <1>3, <2>1, <2>2 DEF HandleAgrees
    <3>2. QED
      BY Zenon, <3>1 DEF HandleAgrees, Unlogged, Applying, Parked
  <2>3. CASE state[u] = "none"
    <3>1. state'[u] = "none" /\ wset'[u] = {} /\ ~Decided(u)'
      BY Zenon, <1>2, <1>3, <2>1, <2>3 DEF HandleAgrees, Unlogged
    <3>2. QED
      BY Zenon, <3>1 DEF HandleAgrees, Applying, Parked
  <2>4. CASE state[u] = "Committed"
    <3>1. /\ state'[u] = "Committed" /\ wset'[u] # {}
          /\ Decided(u)' /\ seqOf'[u] <= stable'
      BY Zenon, <1>2, <1>3, <2>1, <2>4 DEF HandleAgrees, Applying
    <3>2. AllIn(u, {"Committed"})'
      <4>1. ASSUME NEW s \in wset[u] PROVE part'[u][s] = "Committed"
        <5>1. wal'[u][s] = "Commit"
          BY Zenon, <1>4, <1>7, <2>4, <4>1
        <5>2. QED
          BY Zenon, <1>4, <1>5, <1>6, <4>1, <5>1
      <4>2. QED
        BY Zenon, <1>3, <4>1 DEF AllIn
    <3>3. QED
      BY Zenon, <3>1, <3>2 DEF HandleAgrees, Unlogged, Parked
  <2>5. CASE state[u] = "RolledBack"
    <3>1. state'[u] = "RolledBack" /\ wset'[u] # {} /\ ~Decided(u)'
      BY Zenon, <1>2, <1>3, <2>1, <2>5 DEF HandleAgrees, Unlogged
    <3>2. AllIn(u, {"RolledBack"})'
      <4>1. ASSUME NEW s \in wset[u] PROVE part'[u][s] = "RolledBack"
        <5>1. wal'[u][s] = "Abort"
          BY Zenon, <1>4, <1>7, <2>5, <4>1
        <5>2. QED
          BY Zenon, <1>4, <1>5, <1>6, <4>1, <5>1
      <4>2. QED
        BY Zenon, <1>3, <4>1 DEF AllIn
    <3>3. QED
      BY Zenon, <3>1, <3>2 DEF HandleAgrees, Applying, Parked
  <2>6. QED
    BY Zenon, <2>2, <2>3, <2>4, <2>5
<1>11. ASSUME NEW s \in Storages \ wset'[u] PROVE part'[u][s] = "none" /\ wal'[u][s] = "none"
  BY Zenon, <1>1, <1>3, <1>4, <1>11 DEF TxnAgrees
<1>12. QED
  BY Zenon, <1>3, <1>8, <1>9, <1>10, <1>11 DEF TxnAgrees

(* The end of the process preserves the invariant.                         *)
LEMMA ProcessEndsInv ==
    ASSUME Inv, ProcessEnds, crashes' \in 0..MaxCrashes
    PROVE  Inv'
<1>1. /\ CommitTypeOK /\ LogOK /\ HistoryAgrees /\ SnapAgrees /\ \A t \in Txns : TxnAgrees(t)
  BY Zenon DEF Inv, CommitTypeOK, LogOK, Rest
<1>2. /\ mode' = "down" /\ LogCrash /\ RecordsWhole /\ NoGroup /\ Return
      /\ records' = records /\ acked' = acked /\ wset' = wset /\ snap' = snap /\ faults' = faults
      /\ chain' = [s \in Storages |-> <<>>] /\ poisoned' = {}
      /\ SetStates({t \in Txns : state[t] \notin {"none", "Committed", "RolledBack"}}, "Dropped")
  BY Zenon DEF ProcessEnds, history
<1>3. /\ LogTypeOK' /\ LogInv' /\ stable' = stable
      /\ \A t \in Txns : Decided(t)' => Decided(t)
      /\ \A t \in Txns : Decided(t) /\ seqOf[t] <= stable => seqOf'[t] = seqOf[t]
  BY Zenon, <1>1, <1>2, CrashLog DEF LogOK
<1>4. \A t \in Txns : Decided(t)' => seqOf'[t] = seqOf[t]
  <2>1. PICK k \in stable..last : seqOf' = Keep(k)
    BY Zenon, <1>2 DEF LogCrash
  <2>2. \A t \in Txns : seqOf'[t] = IF seqOf[t] <= k THEN seqOf[t] ELSE 0
    BY Zenon, <2>1 DEF Keep
  <2>3. QED
    BY <2>2 DEF Decided
<1>5. GroupTypeOK' /\ GroupAgrees' /\ OrderAgrees' /\ InGroup' = {}
  BY Zenon, <1>2, EmptyGroup
<1>6. CallTypeOK' /\ CallAgrees'
  <2>1. CallTypeOK'
    BY Zenon, <1>2, <1>5, ReturnTyped
  <2>2. QED
    BY Zenon, <1>2, <2>1 DEF CallAgrees, Return, NoGroup
<1>7. /\ state' \in [Txns -> TxnStates]
      /\ \A t \in Txns : state[t] \in {"none", "Committed", "RolledBack"} => state'[t] = state[t]
      /\ \A t \in Txns : state[t] \notin {"none", "Committed", "RolledBack"} => state'[t] = "Dropped"
  <2>1. "Dropped" \in TxnStates
    BY Zenon DEF TxnStates
  <2>2. QED
    BY Zenon, <1>1, <1>2, <2>1 DEF SetStates, CommitTypeOK, TxnTypeOK
<1>8. TxnTypeOK'
  BY Zenon, <1>1, <1>2, <1>7 DEF CommitTypeOK, TxnTypeOK
<1>9. StorageTypeOK'
  <2>1. wal' \in [Txns -> [Storages -> {"none", "Prepare", "Commit", "Abort"}]]
    BY Zenon, WalAfterEnd
  <2>2. \A w : Inspected(w) \in PartStates
    BY Zenon DEF Inspected, PartStates
  <2>3. part' \in [Txns -> [Storages -> PartStates]]
    <3>1. "none" \in PartStates
      BY Zenon DEF PartStates
    <3>2. part' = [t \in Txns |-> [s \in Storages |->
                     IF s \in wset[t] THEN Inspected(wal'[t][s]) ELSE "none"]]
      BY Zenon DEF ProcessEnds
    <3>3. QED
      BY Zenon, <2>2, <3>1, <3>2
  <2>4. chain' \in [Storages -> Seq(Txns)]
    <3>1. <<>> \in Seq(Txns)
      OBVIOUS
    <3>2. QED
      BY Zenon, <1>2, <3>1
  <2>5. QED
    BY Zenon, <1>2, <2>1, <2>3, <2>4 DEF StorageTypeOK
<1>10. EnvTypeOK'
  BY Zenon, <1>1, <1>2 DEF CommitTypeOK, EnvTypeOK
<1>11. \A t \in Txns : TxnAgrees(t)'
  BY Zenon, EndAgrees
<1>12. HistoryAgrees'
  <2>1. ASSUME NEW c \in records, NEW t \in c PROVE Decided(t)' \/ state'[t] = "Dropped"
    <3>1. t \in Txns /\ (Decided(t) \/ state[t] = "Dropped")
      BY Zenon, <1>1, <2>1 DEF CommitTypeOK, TxnTypeOK, HistoryAgrees
    <3>2. Decided(t) => state[t] \notin {"none", "RolledBack"}
      BY Zenon, <1>1, <3>1 DEF TxnAgrees, HandleAgrees, Unlogged
    <3>3. state[t] = "Committed" => Decided(t)'
      BY Zenon, <1>1, <1>3, <3>1 DEF TxnAgrees, HandleAgrees, Applying, Decided
    <3>4. QED
      BY Zenon, <1>7, <3>1, <3>2, <3>3
  <2>2. ASSUME NEW c \in records, NEW t \in c, NEW u \in c, Decided(t)' PROVE Decided(u)'
    <3>1. t \in Txns /\ u \in Txns
      BY Zenon, <1>1, <2>2 DEF CommitTypeOK, TxnTypeOK
    <3>2. Decided(u)
      BY Zenon, <1>1, <1>3, <2>2, <3>1 DEF HistoryAgrees
    <3>3. QED
      BY Zenon, <1>2, <2>2, <3>2 DEF RecordsWhole, Decided
  <2>3. \A t \in acked.commit \union acked.abort : t \in Txns
    BY Zenon, <1>1 DEF CommitTypeOK, TxnTypeOK
  <2>4. /\ \A t \in acked'.commit : state'[t] = "Committed"
        /\ \A t \in acked'.abort : state'[t] = "RolledBack"
    BY Zenon, <1>1, <1>2, <1>7, <2>3 DEF HistoryAgrees
  <2>5. QED
    BY Zenon, <1>2, <2>1, <2>2, <2>4 DEF HistoryAgrees
<1>13. SnapAgrees'
  <2>1. ASSUME NEW t \in Txns, NEW s \in wset'[t]
        PROVE  t \in snap'.vis[s] <=> (Decided(t)' /\ seqOf'[t] <= snap'.seq)
    <3>1. t \in snap.vis[s] <=> (Decided(t) /\ seqOf[t] <= snap.seq)
      BY Zenon, <1>1, <1>2, <2>1 DEF SnapAgrees, GroupVisibleWhole
    <3>2. seqOf[t] <= snap.seq => seqOf[t] <= stable
      <4>1. seqOf[t] \in Nat /\ snap.seq \in Nat /\ stable \in Nat
        BY <1>1 DEF CommitTypeOK, LogTypeOK, EnvTypeOK
      <4>2. QED
        BY <1>1, <4>1 DEF SnapAgrees
    <3>3. QED
      BY Zenon, <1>2, <1>3, <1>4, <3>1, <3>2 DEF Decided
  <2>2. mode' # "up"
    BY Zenon, <1>2
  <2>3. QED
    BY Zenon, <1>1, <1>2, <1>3, <2>1, <2>2 DEF SnapAgrees, GroupVisibleWhole
<1>14. QED
  BY Zenon, <1>3, <1>5, <1>6, <1>8, <1>9, <1>10, <1>11, <1>12, <1>13 DEF Inv, CommitTypeOK, Rest

(* Recovery finishes every transaction as the log says.                    *)
LEMMA RecoverParts ==
    ASSUME Inv, Recover, NEW t \in Txns, NEW s \in wset[t]
    PROVE  /\ s \in Storages
           /\ Decided(t) => wal'[t][s] = "Commit" /\ part'[t][s] = "Committed"
           /\ ~Decided(t) => wal'[t][s] = "Abort" /\ part'[t][s] = "RolledBack"
<1>1. /\ s \in Storages /\ wal[t][s] \in {"none", "Prepare", "Commit", "Abort"}
      /\ part[t][s] \in PartStates /\ WalAgrees(t, s) /\ LogAgrees(t, s)
  <2>1. s \in Storages
    BY Zenon DEF Inv, CommitTypeOK, TxnTypeOK
  <2>2. wal[t][s] \in {"none", "Prepare", "Commit", "Abort"} /\ part[t][s] \in PartStates
    BY Zenon, <2>1 DEF Inv, CommitTypeOK, StorageTypeOK
  <2>3. WalAgrees(t, s) /\ LogAgrees(t, s)
    BY Zenon DEF Inv, Rest, TxnAgrees
  <2>4. QED
    BY Zenon, <2>1, <2>2, <2>3
<1>2. wal'[t][s] = IF wal[t][s] \in {"none", "Prepare"}
                   THEN IF Decided(t) THEN "Commit" ELSE "Abort"
                   ELSE wal[t][s]
  <2>1. wal' = [u \in Txns |-> [r \in Storages |->
                 IF r \in wset[u] /\ wal[u][r] \in {"none", "Prepare"}
                 THEN IF Recovered(u) THEN "Commit" ELSE "Abort"
                 ELSE wal[u][r]]]
    BY Zenon DEF Recover
  <2>2. wal'[t][s] = IF s \in wset[t] /\ wal[t][s] \in {"none", "Prepare"}
                     THEN IF Recovered(t) THEN "Commit" ELSE "Abort"
                     ELSE wal[t][s]
    BY Zenon, <1>1, <2>1
  <2>3. QED
    BY Zenon, <2>2 DEF Recovered
<1>3. part'[t][s] = Inspected(wal'[t][s])
  <2>1. part' = [u \in Txns |-> [r \in Storages |->
                  IF r \in wset[u] THEN Inspected(wal'[u][r]) ELSE "none"]]
    BY Zenon DEF Recover
  <2>2. QED
    BY Zenon, <1>1, <2>1
<1>4. Decided(t) => wal[t][s] \in {"Prepare", "Commit"}
  BY Zenon, <1>1 DEF WalAgrees, LogAgrees
<1>5. ~Decided(t) => wal[t][s] # "Commit"
  BY Zenon, <1>1 DEF WalAgrees, LogAgrees, PartStates, Parked, Pending
<1>6. Inspected("Commit") = "Committed" /\ Inspected("Abort") = "RolledBack"
  BY Zenon DEF Inspected
<1>7. Decided(t) => wal'[t][s] = "Commit"
  BY Zenon, <1>2, <1>4
<1>8. ~Decided(t) => wal'[t][s] = "Abort"
  BY Zenon, <1>1, <1>2, <1>5
<1>9. QED
  BY Zenon, <1>1, <1>3, <1>6, <1>7, <1>8

(* Recovery preserves the invariant: the log is durable, every transaction *)
(* is finished as it says, and the snapshot shows all of it.               *)
LEMMA RecoverInv ==
    ASSUME Inv, Recover
    PROVE  Inv'
<1>1. /\ CommitTypeOK /\ LogTypeOK /\ LogInv /\ GroupAgrees /\ OrderAgrees /\ HistoryAgrees
      /\ SnapAgrees /\ CallAgrees /\ \A t \in Txns : TxnAgrees(t)
  BY Zenon DEF Inv, CommitTypeOK, Rest
<1>2. /\ mode = "down" /\ mode' = "up" /\ authority' = "held" /\ completed' = last
      /\ seqOf' = seqOf /\ last' = last /\ pending' = pending /\ SyncFile
      /\ UNCHANGED <<groupVars, callVars, history, txnVars, chain, poisoned, faults, crashes>>
      /\ state' = state /\ wset' = wset /\ group' = group /\ sequences' = sequences
      /\ call' = call /\ resolving' = resolving
  BY Zenon DEF Recover, groupVars, callVars, txnVars
<1>3. call = "none" /\ group = <<>> /\ resolving = NoTxn
  BY Zenon, <1>1, <1>2 DEF CallAgrees
<1>4. LogTypeOK' /\ LogInv' /\ stable' = last /\ stable' \in Nat /\ stable <= stable'
  BY <1>1, <1>2 DEF LogTypeOK, LogInv, SyncFile
<1>5. \A t \in Txns : Decided(t)' <=> Decided(t)
  BY Zenon, <1>2 DEF Decided
<1>6. \A t \in Txns : seqOf'[t] <= stable'
  BY Zenon, <1>1, <1>2, <1>4 DEF LogInv
<1>7. InGroup = {} /\ InGroup' = {}
  <2>1. InGroup = {}
    BY <1>3 DEF InGroup, Members
  <2>2. QED
    BY Zenon, <1>2, <2>1, SameMembers
<1>8. ASSUME NEW t \in Txns
      PROVE  /\ Decided(t) => AllIn(t, {"Committed"})'
             /\ ~Decided(t) => AllIn(t, {"RolledBack"})'
  BY Zenon, <1>2, RecoverParts DEF AllIn
<1>9. ASSUME NEW t \in Txns PROVE TxnAgrees(t)'
  <2>1. /\ HandleAgrees(t) /\ state[t] \in {"none", "Committed", "RolledBack", "Dropped"}
        /\ \A s \in Storages \ wset[t] : wal[t][s] = "none"
    BY Zenon, <1>1, <1>2 DEF TxnAgrees, HandleAgrees
  <2>2. HandleAgrees(t)'
    <3>1. state'[t] \in Unlogged => ~Decided(t)'
      BY Zenon, <1>2, <1>5, <2>1 DEF HandleAgrees
    <3>2. state'[t] \in Applying => Decided(t)' /\ seqOf'[t] <= stable'
      BY Zenon, <1>2, <1>5, <1>6, <2>1 DEF HandleAgrees
    <3>3. state'[t] = "Committed" => AllIn(t, {"Committed"})'
      BY Zenon, <1>2, <1>8, <2>1 DEF HandleAgrees, Applying
    <3>4. state'[t] = "RolledBack" => AllIn(t, {"RolledBack"})'
      BY Zenon, <1>2, <1>8, <2>1 DEF HandleAgrees, Unlogged
    <3>5. QED
      BY Zenon, <1>2, <2>1, <3>1, <3>2, <3>3, <3>4 DEF HandleAgrees, Parked
  <2>3. ASSUME NEW s \in wset'[t] PROVE WalAgrees(t, s)' /\ LogAgrees(t, s)'
    <3>1. /\ Decided(t) => wal'[t][s] = "Commit" /\ part'[t][s] = "Committed"
          /\ ~Decided(t) => wal'[t][s] = "Abort" /\ part'[t][s] = "RolledBack"
      BY Zenon, <1>2, <2>3, RecoverParts
    <3>2. CASE Decided(t)
      BY Zenon, <1>5, <1>6, <3>1, <3>2 DEF WalAgrees, LogAgrees
    <3>3. CASE ~Decided(t)
      BY Zenon, <1>5, <3>1, <3>3 DEF WalAgrees, LogAgrees
    <3>4. QED
      BY Zenon, <3>2, <3>3
  <2>4. ASSUME NEW s \in Storages, s \notin wset[t] PROVE part'[t][s] = "none" /\ wal'[t][s] = "none"
    <3>1. part'[t][s] = "none"
      <4>1. part' = [u \in Txns |-> [r \in Storages |->
                      IF r \in wset[u] THEN Inspected(wal'[u][r]) ELSE "none"]]
        BY Zenon DEF Recover
      <4>2. QED
        BY Zenon, <2>4, <4>1
    <3>2. wal'[t][s] = wal[t][s]
      <4>1. wal' = [u \in Txns |-> [r \in Storages |->
                     IF r \in wset[u] /\ wal[u][r] \in {"none", "Prepare"}
                     THEN IF Recovered(u) THEN "Commit" ELSE "Abort"
                     ELSE wal[u][r]]]
        BY Zenon DEF Recover
      <4>2. QED
        BY Zenon, <2>4, <4>1
    <3>3. QED
      BY Zenon, <2>1, <2>4, <3>1, <3>2
  <2>5. QED
    BY Zenon, <1>2, <2>2, <2>3, <2>4 DEF TxnAgrees
<1>10. GroupAgrees'
  <2>1. \A s : WritersOf(s)' = {}
    BY Zenon, <1>7 DEF WritersOf
  <2>2. /\ prepare' = prepare /\ durable' = durable /\ authoritative' = authoritative
        /\ barrier' = barrier
    BY Zenon, <1>2 DEF groupVars
  <2>3. QED
    BY Zenon, <1>1, <1>2, <1>3, <1>7, <2>1, <2>2 DEF GroupAgrees, Known
<1>11. OrderAgrees'
  BY Zenon, <1>1, <1>2, OrderFrame
<1>12. HistoryAgrees'
  BY Zenon, <1>1, <1>2, <1>5, HistoryFrame
<1>13. part' \in [Txns -> [Storages -> PartStates]]
  <2>1. "none" \in PartStates /\ \A w : Inspected(w) \in PartStates
    BY Zenon DEF Inspected, PartStates
  <2>2. part' = [t \in Txns |-> [s \in Storages |->
                   IF s \in wset[t] THEN Inspected(wal'[t][s]) ELSE "none"]]
    BY Zenon DEF Recover
  <2>3. QED
    BY Zenon, <2>1, <2>2
<1>14. wal' \in [Txns -> [Storages -> {"none", "Prepare", "Commit", "Abort"}]]
  <2>1. wal \in [Txns -> [Storages -> {"none", "Prepare", "Commit", "Abort"}]]
    BY Zenon, <1>1 DEF CommitTypeOK, StorageTypeOK
  <2>2. wal' = [u \in Txns |-> [r \in Storages |->
                 IF r \in wset[u] /\ wal[u][r] \in {"none", "Prepare"}
                 THEN IF Recovered(u) THEN "Commit" ELSE "Abort"
                 ELSE wal[u][r]]]
    BY Zenon DEF Recover
  <2>3. QED
    BY Zenon, <2>1, <2>2
<1>15. StorageTypeOK'
  BY Zenon, <1>1, <1>2, <1>13, <1>14 DEF CommitTypeOK, StorageTypeOK
<1>16. /\ snap'.seq = last /\ snap' \in [seq : Nat, vis : [Storages -> SUBSET Txns]]
       /\ \A s \in Storages : snap'.vis[s] = {t \in Txns : part'[t][s] = "Committed"}
  <2>1. snap' = [seq |-> last,
                 vis |-> [s \in Storages |-> {t \in Txns : part'[t][s] = "Committed"}]]
    BY Zenon DEF Recover
  <2>2. last \in Nat
    BY Zenon, <1>1 DEF LogTypeOK
  <2>3. QED
    BY Zenon, <2>1, <2>2
<1>17. GroupTypeOK' /\ CallTypeOK' /\ TxnTypeOK'
  BY Zenon, <1>1, <1>2, TypeFrame DEF callVars
<1>18. EnvTypeOK'
  BY Zenon, <1>1, <1>2, <1>16 DEF CommitTypeOK, EnvTypeOK
<1>19. SnapAgrees'
  <2>1. snap'.seq <= stable'
    BY <1>1, <1>4, <1>16 DEF LogTypeOK
  <2>2. ASSUME NEW t \in Txns, NEW s \in Storages, t \in snap'.vis[s] PROVE s \in wset'[t]
    <3>0. snap'.vis[s] = {u \in Txns : part'[u][s] = "Committed"}
      BY Zenon, <1>16
    <3>1. part'[t][s] = "Committed"
      BY Zenon, <2>2, <3>0
    <3>2. QED
      BY Zenon, <1>9, <2>2, <3>1 DEF TxnAgrees
  <2>3. ASSUME NEW t \in Txns, NEW s \in wset'[t]
        PROVE  t \in snap'.vis[s] <=> (Decided(t)' /\ seqOf'[t] <= snap'.seq)
    <3>1. s \in Storages /\ (part'[t][s] = "Committed" <=> Decided(t))
      BY Zenon, <1>2, <2>3, RecoverParts
    <3>2. seqOf'[t] <= snap'.seq
      BY Zenon, <1>4, <1>6, <1>16
    <3>3. QED
      BY Zenon, <1>5, <1>16, <3>1, <3>2
  <2>4. \A s \in Storages : \A t \in snap'.vis[s] : t \in Txns
    BY Zenon, <1>16
  <2>5. \A t \in Txns : Decided(t)' => AllIn(t, {"Committed"})'
    BY Zenon, <1>5, <1>8
  <2>6. QED
    BY Zenon, <2>1, <2>2, <2>3, <2>4, <2>5 DEF SnapAgrees, GroupVisibleWhole
<1>20. CallAgrees'
  BY Zenon, <1>2, <1>3, CallReturns
<1>21. QED
  BY Zenon, <1>4, <1>9, <1>10, <1>11, <1>12, <1>15, <1>17, <1>18, <1>19, <1>20
  DEF Inv, CommitTypeOK, Rest

(* The initial state satisfies the invariant.                              *)
LEMMA InitInv ==
    ASSUME Init
    PROVE  Inv
<1>1. LogTypeOK /\ LogInv /\ \A t \in Txns : ~Decided(t) /\ seqOf[t] = 0
  BY DEF Init, LogInit, LogTypeOK, LogInv, Decided
<1>2. <<>> \in Seq(Txns) /\ DOMAIN <<>> = {} /\ Len(<<>>) = 0
  OBVIOUS
<1>3. InGroup = {} /\ 1..sequences = {} /\ ~Known
  BY <1>2 DEF Init, InGroup, Members, Known
<1>4. GroupTypeOK
  BY Zenon, <1>2 DEF Init, GroupTypeOK
<1>5. CallTypeOK
  BY <1>2 DEF Init, CallTypeOK
<1>6. TxnTypeOK
  <2>1. acked \in [commit : SUBSET Txns, abort : SUBSET Txns]
    BY Zenon DEF Init
  <2>2. QED
    BY Zenon, <2>1 DEF Init, TxnTypeOK, TxnStates
<1>7. StorageTypeOK
  BY Zenon, <1>2 DEF Init, StorageTypeOK, PartStates
<1>8. EnvTypeOK /\ snap.seq = 0 /\ \A s \in Storages : snap.vis[s] = {}
  BY GroupAssumption DEF Init, EnvTypeOK
<1>9. ASSUME NEW t \in Txns PROVE TxnAgrees(t)
  <2>1. /\ state[t] = "none" /\ wset[t] = {} /\ mode = "up"
        /\ \A s \in Storages : part[t][s] = "none" /\ wal[t][s] = "none"
    BY Zenon DEF Init
  <2>2. HandleAgrees(t)
    BY Zenon, <1>1, <2>1 DEF HandleAgrees, Applying, Parked
  <2>3. QED
    BY Zenon, <2>1, <2>2 DEF TxnAgrees
<1>10. GroupAgrees
  <2>1. \A s : WritersOf(s) = {}
    BY Zenon, <1>3 DEF WritersOf
  <2>2. sequences <= Len(group)
    BY <1>2 DEF Init
  <2>3. QED
    BY Zenon, <1>3, <2>1, <2>2 DEF Init, GroupAgrees
<1>11. OrderAgrees
  BY Zenon, <1>3 DEF OrderAgrees
<1>12. CallAgrees
  BY Zenon DEF Init, CallAgrees
<1>13. HistoryAgrees
  BY Zenon DEF Init, HistoryAgrees
<1>14. SnapAgrees
  <2>1. snap.seq <= stable
    BY <1>8 DEF Init, LogInit
  <2>2. \A t \in Txns : wset[t] = {}
    BY Zenon DEF Init
  <2>3. QED
    BY Zenon, <1>1, <1>8, <2>1, <2>2 DEF SnapAgrees, GroupVisibleWhole
<1>15. QED
  BY Zenon, <1>1, <1>4, <1>5, <1>6, <1>7, <1>8, <1>9, <1>10, <1>11, <1>12, <1>13, <1>14
  DEF Inv, CommitTypeOK, Rest

-------------------------------------------------------------------------------
(* The theorems.                                                           *)

(* Every step preserves the invariant, unless a group is aborted although  *)
(* its decision may be in the log.                                         *)
LEMMA NextInv ==
    ASSUME Inv, ~LateAbort, [Next]_vars
    PROVE  Inv'
<1>1. CASE UNCHANGED vars
  <2>1. CommitTypeOK /\ LogOK /\ CallAgrees
    BY Zenon DEF Inv, CommitTypeOK, LogOK
  <2>2. Bookkeeping
    BY Zenon, <1>1, <2>1, FlushLog
    DEF vars, Bookkeeping, groupVars, txnVars, storageVars, history, envVars
  <2>3. Rest' /\ LogInv' /\ LogTypeOK'
    BY Zenon, <2>2, BookkeepingKeeps
  <2>4. GroupTypeOK' /\ CallTypeOK' /\ TxnTypeOK' /\ StorageTypeOK' /\ EnvTypeOK'
    BY Zenon, <1>1, <2>1, TypeFrame DEF vars, groupVars, callVars
  <2>5. CallAgrees'
    <3>1. InGroup' = InGroup
      BY Zenon, <1>1, SameMembers DEF vars, groupVars
    <3>2. /\ group' = group /\ call' = call /\ pos' = pos /\ state' = state /\ seqOf' = seqOf
          /\ sequences' = sequences /\ barrier' = barrier /\ resolving' = resolving /\ mode' = mode
      BY Zenon, <1>1 DEF vars, groupVars, callVars, txnVars, envVars, logVars
    <3>3. QED
      BY Zenon, <2>1, <3>1, <3>2 DEF CallAgrees, Known, Decided
  <2>6. QED
    BY Zenon, <2>3, <2>4, <2>5 DEF Inv, CommitTypeOK
<1>2. CASE BeginGroup \/ StartResolve \/ StartAbort \/ StartAbortTail \/ StartCommit \/ Recover
  BY Zenon, <1>2, BeginGroupInv, StartResolveInv, StartAbortInv, StartAbortTailInv,
     StartCommitInv, RecoverInv
<1>3. ASSUME NEW t \in Txns, NEW w \in (SUBSET Storages) \ {{}}, BeginMember(t, w) PROVE Inv'
  BY Zenon, <1>3, BeginMemberInv
<1>4. ASSUME NEW t \in Txns, NEW m \in PrepareMode,
             \/ ParkOk(t, m) \/ ParkReadFails(t, m)
             \/ \E s \in Storages : ParkFails(t, m, s)
      PROVE  Inv'
  BY Zenon, <1>4, ParkOkInv, ParkReadFailsInv, ParkFailsInv
<1>5. ASSUME NEW t \in Txns, RollbackUnparked(t) PROVE Inv'
  BY Zenon, <1>5, RollbackUnparkedInv
<1>6. CASE CallStep
  <2>1. CASE AbortMemberDone
    BY Zenon, <2>1, AbortMemberDoneInv, AbortTailDoneInv DEF AbortMemberDone, InAbort
  <2>2. CASE \/ ResolveDone \/ AbortMember \/ AbortRefused \/ AbortDone
    BY Zenon, <2>2, ResolveDoneInv, AbortMemberInv, AbortRefusedInv, AbortDoneInv
  <2>3. CASE \/ BarrierDone \/ GroupDecisionOk \/ GroupDecisionFails
    BY Zenon, <2>3, BarrierDoneInv, GroupDecisionOkInv, GroupDecisionFailsInv
  <2>4. CASE \/ ApplyDone \/ CompleteMember \/ CompleteFails \/ PublishGroup
    BY Zenon, <2>4, ApplyDoneInv, CompleteMemberInv, CompleteFailsInv, PublishGroupInv
  <2>5. ASSUME NEW s \in Storages, RollbackOk(s) \/ RollbackFails(s) \/ BarrierOk(s)
        PROVE  Inv'
    BY Zenon, <2>5, RollbackOkInv, RollbackFailsInv, BarrierOkInv
  <2>6. ASSUME NEW s \in Storages, BarrierFails(s) \/ ApplyOk(s) \/ ApplyFails(s)
        PROVE  Inv'
    BY Zenon, <2>6, BarrierFailsInv, ApplyOkInv, ApplyFailsInv
  <2>7. QED
    BY Zenon, <1>6, <2>1, <2>2, <2>3, <2>4, <2>5, <2>6 DEF CallStep
<1>7. ASSUME NEW s \in Storages, ReaderCommits(s) PROVE Inv'
  BY Zenon, <1>7, ReaderCommitsInv
<1>8. CASE Crash
  <2>1. crashes' \in 0..MaxCrashes
    BY <1>8, GroupAssumption DEF Inv, CommitTypeOK, EnvTypeOK, Crash
  <2>2. QED
    BY Zenon, <1>8, <2>1, ProcessEndsInv DEF Crash
<1>9. CASE Reopen
  <2>1. crashes' \in 0..MaxCrashes
    BY Zenon, <1>9 DEF Inv, CommitTypeOK, EnvTypeOK, Reopen
  <2>2. QED
    BY Zenon, <1>9, <2>1, ProcessEndsInv DEF Reopen
<1>10. CASE Maintain
  BY Zenon, <1>8, <1>10, MaintainInv DEF Maintain, CheckpointCrash
<1>11. QED
  BY Zenon, <1>1, <1>2, <1>3, <1>4, <1>5, <1>6, <1>7, <1>8, <1>9, <1>10 DEF Next, Step

(* The invariant holds in every reachable state.                           *)
THEOREM Inductive ==
    ASSUME ~LateAbort
    PROVE  Spec => []Inv
<1>1. Init => Inv
  BY Zenon, InitInv
<1>2. Inv /\ [Next]_vars => Inv'
  BY Zenon, NextInv
<1>3. QED
  BY <1>1, <1>2, PTL DEF Spec

(* A durable Commit belongs to a durable decision, and a decided           *)
(* participant keeps its Prepare or its Commit.                            *)
LEMMA Governed ==
    ASSUME Inv
    PROVE  GroupDecisionGoverns
<1>1. ASSUME NEW t \in Txns, NEW s \in wset[t]
      PROVE  /\ wal[t][s] = "Commit" => Decided(t) /\ seqOf[t] <= stable
             /\ Decided(t) => wal[t][s] \in {"Prepare", "Commit"}
  <2>1. WalAgrees(t, s) /\ LogAgrees(t, s)
    BY Zenon DEF Inv, Rest, TxnAgrees
  <2>2. s \in Storages
    BY Zenon DEF Inv, CommitTypeOK, TxnTypeOK
  <2>3. part[t][s] \in PartStates
    BY Zenon, <2>2 DEF Inv, CommitTypeOK, StorageTypeOK
  <2>4. wal[t][s] = "Commit" => part[t][s] \in {"CommitPending", "ChangeFinalizePending", "Committed"}
    BY Zenon, <2>1, <2>3 DEF WalAgrees, PartStates, Parked, Pending
  <2>5. QED
    BY Zenon, <2>1, <2>4 DEF WalAgrees, LogAgrees
<1>2. QED
  BY Zenon, <1>1 DEF GroupDecisionGoverns

(* The group record is the commit point of all members (commit_group,      *)
(* sequenced_group_commit_decision).                                       *)
THEOREM GroupCommitPoint ==
    ASSUME ~LateAbort
    PROVE  Spec => []GroupDecisionGoverns
<1>1. Inv => GroupDecisionGoverns
  BY Zenon, Governed
<1>2. QED
  BY <1>1, Inductive, PTL

(* No participant of one member is durably committed while one of another  *)
(* member of the same decision is durably aborted.                         *)
THEOREM GroupIsAtomic ==
    ASSUME ~LateAbort
    PROVE  Spec => []GroupAtomicity
<1>1. ASSUME Inv PROVE GroupAtomicity
  <2>1. ASSUME NEW c \in records, NEW t \in c, NEW u \in c, NEW r \in wset[t], NEW s \in wset[u],
               wal[t][r] = "Commit", wal[u][s] = "Abort"
        PROVE  FALSE
    <3>1. t \in Txns /\ u \in Txns
      BY Zenon, <1>1, <2>1 DEF Inv, CommitTypeOK, TxnTypeOK
    <3>2. Decided(t)
      BY Zenon, <1>1, <2>1, <3>1, Governed DEF GroupDecisionGoverns
    <3>3. Decided(u)
      BY Zenon, <1>1, <2>1, <3>2 DEF Inv, Rest, HistoryAgrees
    <3>4. wal[u][s] \in {"Prepare", "Commit"}
      BY Zenon, <1>1, <2>1, <3>1, <3>3, Governed DEF GroupDecisionGoverns
    <3>5. QED
      BY Zenon, <2>1, <3>4
  <2>2. QED
    BY Zenon, <2>1 DEF GroupAtomicity
<1>2. QED
  BY <1>1, Inductive, PTL

(* Readers see all of a group or nothing of it (publish of commit_group).  *)
THEOREM GroupShownWhole ==
    ASSUME ~LateAbort
    PROVE  Spec => []GroupVisibleWhole
<1>1. Inv => GroupVisibleWhole
  BY Zenon DEF Inv, Rest, SnapAgrees
<1>2. QED
  BY <1>1, Inductive, PTL

(* What commit_group, abort_group and abort_group_tail report is durable   *)
(* and stays so through crashes and recovery.                              *)
THEOREM ReportsAreFinal ==
    ASSUME ~LateAbort
    PROVE  Spec => []ReportedOutcome
<1>1. ASSUME Inv PROVE ReportedOutcome
  <2>0. \A t \in acked.commit \union acked.abort : t \in Txns
    BY Zenon, <1>1 DEF Inv, CommitTypeOK, TxnTypeOK
  <2>1. ASSUME NEW t \in acked.commit, NEW s \in wset[t] PROVE wal[t][s] = "Commit"
    <3>1. t \in Txns /\ state[t] = "Committed"
      BY Zenon, <1>1, <2>0, <2>1 DEF Inv, Rest, HistoryAgrees
    <3>2. QED
      BY Zenon, <1>1, <2>1, <3>1 DEF Inv, Rest, TxnAgrees, HandleAgrees, AllIn, WalAgrees
  <2>2. ASSUME NEW t \in acked.abort, NEW s \in wset[t] PROVE wal[t][s] = "Abort"
    <3>1. t \in Txns /\ state[t] = "RolledBack"
      BY Zenon, <1>1, <2>0, <2>2 DEF Inv, Rest, HistoryAgrees
    <3>2. QED
      BY Zenon, <1>1, <2>2, <3>1 DEF Inv, Rest, TxnAgrees, HandleAgrees, AllIn, WalAgrees
  <2>3. QED
    BY Zenon, <2>1, <2>2 DEF ReportedOutcome
<1>2. QED
  BY <1>1, Inductive, PTL

(* No member is rolled back once the log may hold its decision, when       *)
(* callers do not abort a group whose commit was started and failed.       *)
THEOREM NoRollbackAfterDecision ==
    ASSUME ~LateAbort
    PROVE  Spec => []NoRollbackOnceDecided
<1>1. Inv => NoRollbackOnceDecided
  BY Zenon DEF Inv, Rest, TxnAgrees, HandleAgrees, Unlogged, NoRollbackOnceDecided
<1>2. QED
  BY <1>1, Inductive, PTL

-------------------------------------------------------------------------------
(* RECYCLED WALS AND THE NEXT OPEN                                         *)

(* A durable Commit is never overwritten.                                  *)
LEMMA CommitStays ==
    ASSUME Inv, Next, NEW t \in Txns, NEW s \in wset[t], wal[t][s] = "Commit"
    PROVE  wal'[t][s] = "Commit"
<1>1. /\ CommitTypeOK /\ s \in Storages /\ Decided(t) /\ seqOf[t] <= stable
      /\ TxnAgrees(t) /\ WalAgrees(t, s)
  BY Zenon, Governed DEF Inv, Rest, TxnAgrees, CommitTypeOK, TxnTypeOK, GroupDecisionGoverns
<1>2. state[t] \notin Unlogged
  BY Zenon, <1>1 DEF TxnAgrees, HandleAgrees
<1>3. part[t][s] \notin {"Active", "PreparePending", "ParkedPreparePending", "ParkedPrepared",
                          "Prepared", "RollbackPending"}
  BY Zenon, <1>1 DEF WalAgrees
<1>4. state[t] \notin Parked
  BY Zenon, <1>1, <1>3 DEF TxnAgrees, HandleAgrees, AllIn, Parked
<1>5. wal \in [Txns -> [Storages -> {"none", "Prepare", "Commit", "Abort"}]]
  BY Zenon, <1>1 DEF CommitTypeOK, StorageTypeOK
<1>6. ASSUME NEW ts, NEW r \in Storages, NEW w, SetWals(ts, r, w), t \notin ts \/ w = "Commit"
      PROVE  wal'[t][s] = "Commit"
  BY <1>1, <1>5, <1>6 DEF SetWals
<1>7. wal' = wal => wal'[t][s] = "Commit"
  BY Zenon
<1>8. ASSUME NEW u \in Txns, NEW m \in PrepareMode,
             ParkOk(u, m) \/ \E r \in Storages : ParkFails(u, m, r)
      PROVE  wal'[t][s] = "Commit"
  <2>1. state[u] = "Active" /\ \E ss, failed, p : ParkAt(u, m, ss, failed, p)
    BY Zenon, <1>8 DEF ParkOk, ParkFails, Parkable
  <2>2. t # u
    BY Zenon, <1>2, <2>1 DEF Unlogged
  <2>3. wal'[t] = wal[t]
    BY Zenon, <1>5, <2>1, <2>2 DEF ParkAt
  <2> QED
    BY Zenon, <2>3
<1>9. ASSUME NEW u \in Txns, RollbackUnparked(u) PROVE wal'[t][s] = "Commit"
  <2>1. t # u
    BY Zenon, <1>2, <1>9 DEF RollbackUnparked, Unlogged
  <2> QED
    BY Zenon, <1>5, <1>9, <2>1 DEF RollbackUnparked
<1>10. ASSUME NEW r \in Storages, RollbackOk(r) \/ RollbackFails(r) PROVE wal'[t][s] = "Commit"
  <2>1. t \notin {Target}
    BY Zenon, <1>2, <1>10 DEF RollbackOk, RollbackFails, AtRollback, Unlogged
  <2>2. wal' = wal \/ SetWals({Target}, r, "Abort")
    BY Zenon, <1>10 DEF RollbackOk, RollbackFails, storageVars
  <2> QED
    BY Zenon, <1>6, <1>7, <2>1, <2>2
<1>11. ASSUME NEW r \in Storages, BarrierOk(r) PROVE wal'[t][s] = "Commit"
  <2>1. t \notin WritersOf(r)
    BY Zenon, <1>4, <1>11 DEF Inv, CallAgrees, BarrierOk, AtBarrier, Running, WritersOf
  <2> QED
    BY Zenon, <1>6, <1>11, <2>1 DEF BarrierOk
<1>12. ASSUME NEW r \in Storages, ApplyOk(r) \/ ApplyFails(r) PROVE wal'[t][s] = "Commit"
  <2>1. wal' = wal \/ SetWals(Waiting(r), r, "Commit")
    BY Zenon, <1>12 DEF ApplyOk, ApplyFails, CommitBatch, storageVars
  <2> QED
    BY Zenon, <1>6, <1>7, <2>1
<1>13. CASE Crash \/ Reopen
  <2>1. PICK kept \in SUBSET {x \in Txns \X Storages : part[x[1]][x[2]] \in DOMAIN Unflushed} :
          wal' = [u \in Txns |-> [r \in Storages |->
                    IF <<u, r>> \in kept THEN Unflushed[part[u][r]] ELSE wal[u][r]]]
    BY Zenon, <1>13 DEF Crash, Reopen, ProcessEnds
  <2>2. wal'[t][s] = IF <<t, s>> \in kept THEN Unflushed[part[t][s]] ELSE wal[t][s]
    BY Zenon, <1>1, <2>1
  <2>3. <<t, s>> \in kept => part[t][s] \in DOMAIN Unflushed
    BY <2>1
  <2>4. part[t][s] \in DOMAIN Unflushed => Unflushed[part[t][s]] = "Commit"
    BY <1>3 DEF Unflushed
  <2> QED
    BY Zenon, <2>2, <2>3, <2>4
<1>14. CASE Recover
  <2>1. wal'[t][s] = IF s \in wset[t] /\ wal[t][s] \in {"none", "Prepare"}
                     THEN IF Recovered(t) THEN "Commit" ELSE "Abort"
                     ELSE wal[t][s]
    BY Zenon, <1>1, <1>14 DEF Recover
  <2> QED
    BY Zenon, <2>1
<1>15. CASE \/ BeginGroup \/ StartResolve \/ StartAbort \/ StartAbortTail \/ StartCommit
            \/ \E u \in Txns, w \in (SUBSET Storages) \ {{}} : BeginMember(u, w)
            \/ \E u \in Txns, m \in PrepareMode : ParkReadFails(u, m)
            \/ \E r \in Storages : ReaderCommits(r)
  BY Zenon, <1>7, <1>15 DEF BeginGroup, StartResolve, StartAbort, StartAbortTail, StartCommit,
     BeginMember, ParkReadFails, ReaderCommits, storageVars
<1>16. CASE \/ ResolveDone \/ AbortMember \/ AbortRefused \/ AbortMemberDone \/ AbortDone
            \/ BarrierDone \/ GroupDecisionOk \/ GroupDecisionFails
            \/ ApplyDone \/ CompleteMember \/ CompleteFails \/ PublishGroup
            \/ \E r \in Storages : BarrierFails(r)
  BY Zenon, <1>7, <1>16 DEF ResolveDone, AbortMember, AbortRefused, AbortMemberDone, AbortDone,
     BarrierDone, GroupDecisionOk, GroupDecisionFails, ApplyDone, CompleteMember,
     CompleteFails, PublishGroup, BarrierFails, storageVars
<1>17. CASE CallStep
  BY Zenon, <1>10, <1>11, <1>12, <1>16, <1>17 DEF CallStep
<1>18. CASE Maintain
  BY Zenon, <1>7, <1>13, <1>18 DEF Maintain, Checkpoint, Flush, CheckpointStops,
     CheckpointCrash, FlushCompletes, storageVars
<1>19. QED
  BY Zenon, <1>8, <1>9, <1>13, <1>14, <1>15, <1>17, <1>18 DEF Next, Step

(* Only participants that committed durably have left a WAL.               *)
RecycledOK ==
    /\ recycled \in [Storages -> SUBSET Txns]
    /\ \A s \in Storages : \A t \in recycled[s] : wal[t][s] = "Commit"

(* Every step keeps the recycled participants among the committed ones.    *)
LEMMA RecycledStep ==
    ASSUME Inv, RecycledOK, [Next]_vars
    PROVE  RecycledOK'
<1>1. CASE UNCHANGED vars
  BY Zenon, <1>1 DEF RecycledOK, vars, storageVars
<1>2. CASE Next
  <2>1. recycled' = recycled \/ \E ss : recycled' = Recycled(ss)
    BY Zenon, <1>2 DEF Next, Maintain, Checkpoint, Flush, CheckpointStops, CheckpointCrash, Rotated
  <2>2. recycled' \in [Storages -> SUBSET Txns]
    BY Zenon, <2>1 DEF RecycledOK, Recycled
  <2>3. ASSUME NEW s \in Storages, NEW t \in recycled'[s] PROVE wal'[t][s] = "Commit"
    <3>1. t \in Txns
      BY Zenon, <2>2
    <3>2. wal[t][s] = "Commit"
      BY Zenon, <2>1, <2>3 DEF RecycledOK, Recycled
    <3>3. s \in wset[t]
      BY Zenon, <3>1, <3>2 DEF Inv, Rest, TxnAgrees
    <3> QED
      BY Zenon, <1>2, <3>1, <3>2, <3>3, CommitStays
  <2> QED
    BY Zenon, <2>2, <2>3 DEF RecycledOK
<1> QED
  BY Zenon, <1>1, <1>2

(* The barrier mode is chosen when a group begins, and only then.          *)
LEMMA BarrierModeStep ==
    ASSUME finalize \in BarrierMode, [Next]_vars
    PROVE  finalize' \in BarrierMode
  BY Zenon DEF Next, vars

(* Only committed participants ever leave a WAL.                           *)
THEOREM RecycledInductive ==
    ASSUME ~LateAbort
    PROVE  Spec => [](Inv /\ RecycledOK /\ finalize \in BarrierMode)
<1>1. Init => RecycledOK /\ finalize \in BarrierMode
  BY Zenon DEF Init, RecycledOK, BarrierMode
<1>2. Inv /\ RecycledOK /\ [Next]_vars => RecycledOK'
  BY Zenon, RecycledStep
<1>3. finalize \in BarrierMode /\ [Next]_vars => (finalize \in BarrierMode)'
  BY Zenon, BarrierModeStep
<1>4. QED
  BY <1>1, <1>2, <1>3, Inductive, PTL DEF Spec

(* Every variable keeps its type, and the log its own invariant.           *)
THEOREM TypeCorrect ==
    ASSUME ~LateAbort
    PROVE  Spec => [](TypeOK /\ LogInv)
<1>1. Inv /\ RecycledOK /\ finalize \in BarrierMode => TypeOK /\ LogInv
  BY Zenon DEF Inv, RecycledOK, TypeOK
<1>2. QED
  BY <1>1, RecycledInductive, PTL

(* For any number of members, storages, failures and crashes, an open      *)
(* refuses what a crash in or after a group left for one reason only:      *)
(* checkpoint() had rotated the WAL of a committed participant and the     *)
(* deferred Complete of its member was not synchronized                    *)
(* (validate_coordinator_recovery).  No participant contradicts the log.   *)
THEOREM GroupRefusals ==
    ASSUME ~LateAbort
    PROVE  Spec => []RefusalIsRecycling
<1>1. ASSUME Inv, RecycledOK PROVE RefusalIsRecycling
  <2>1. ASSUME NEW t \in Txns, NEW s \in Storages PROVE ~Contradicts(t, s)
    <3>1. SUFFICES ASSUME s \in wset[t] PROVE Contradicts(t, s) => FALSE
      BY Zenon DEF Contradicts
    <3>2. LogAgrees(t, s)
      BY Zenon, <1>1, <3>1 DEF Inv, Rest, TxnAgrees
    <3>3. QED
      BY <3>2 DEF LogAgrees, Contradicts
  <2>2. ASSUME NEW t \in Txns, NEW s \in Storages, MissingParticipant(t, s)
        PROVE  wal[t][s] = "Commit" /\ seqOf[t] > stableC
    <3>1. wal[t][s] = "Commit"
      BY Zenon, <1>1, <2>2 DEF MissingParticipant, RecycledOK
    <3>2. seqOf[t] \in Nat /\ completed \in Nat /\ stableC \in 0..completed
      BY <1>1 DEF Inv, CommitTypeOK, LogTypeOK
    <3>3. QED
      BY <2>2, <3>1, <3>2 DEF MissingParticipant
  <2>3. QED
    BY Zenon, <2>1, <2>2 DEF RefusalIsRecycling
<1>2. Inv /\ RecycledOK => RefusalIsRecycling
  BY Zenon, <1>1
<1>3. QED
  BY <1>2, RecycledInductive, PTL
=============================================================================
