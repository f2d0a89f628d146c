--------------------------- MODULE DecisionLogProofs ---------------------------
(***************************************************************************)
(* What each operation of the coordinator log keeps, for any set of        *)
(* transactions: the lemmas that the proofs about the users of the log     *)
(* rest on.                                                                *)
(***************************************************************************)
EXTENDS DecisionLog, TLAPS

LogOK == LogTypeOK /\ LogInv

(* A log operation other than a decision for t keeps every sequence number *)
(* and never makes durable state volatile again.                           *)
Forward(t) ==
    /\ stable <= stable'
    /\ \A u \in Txns : u = t \/ seqOf'[u] = seqOf[u]
    /\ Decided(t) => seqOf'[t] = seqOf[t]

-------------------------------------------------------------------------------
(* The log operations preserve the log's own invariant.                    *)

(* Repairing the missing Complete never claims one beyond last.            *)
LEMMA WithMissingRange ==
    ASSUME LogOK
    PROVE  /\ WithMissing \in completed..last
           /\ \A g \in pending : g <= WithMissing
<1>1. CASE \E g \in pending : g > completed
  <2>1. WithMissing \in pending /\ WithMissing > completed
    BY Zenon, <1>1 DEF WithMissing
  <2>2. QED
    BY <2>1 DEF LogOK, LogTypeOK, LogInv
<1>2. CASE ~\E g \in pending : g > completed
  <2>1. WithMissing = completed
    BY Zenon, <1>2 DEF WithMissing
  <2>2. QED
    BY <1>2, <2>1 DEF LogOK, LogTypeOK, LogInv
<1>3. QED
  BY Zenon, <1>1, <1>2

(* A decision, durable or not, keeps the log well formed, numbers t and    *)
(* leaves every other number alone.                                        *)
LEMMA DecideLog ==
    ASSUME LogOK, NEW t \in Txns, DecideOk(t) \/ DecideUnsynced(t)
    PROVE  /\ LogOK' /\ Forward(t)
           /\ seqOf'[t] > 0
           /\ DecideOk(t) => seqOf'[t] <= stable'
<1> USE WithMissingRange
<1>1. /\ seqOf' \in [Txns -> Nat] /\ last' \in Nat /\ last <= last'
      /\ \A u \in Txns : u # t => seqOf'[u] = seqOf[u]
      /\ seqOf'[t] > 0 /\ seqOf'[t] <= last'
      /\ Decided(t) => seqOf'[t] = seqOf[t]
      /\ completed' = WithMissing
  BY DEF LogOK, LogTypeOK, LogInv, DecideOk, DecideUnsynced, AppendDecision, Decided
<1>2. /\ stable' \in 0..last' /\ stable <= stable'
      /\ stableC' \in 0..completed' /\ stableC' <= stable'
      /\ pending' \in SUBSET (1..last')
      /\ authority' \in {"held", "lost"}
      /\ DecideOk(t) => stable' = last'
      /\ \A g \in pending' : g \in pending
  <2>1. CASE DecideOk(t)
    BY <1>1, <2>1 DEF LogOK, LogTypeOK, LogInv, DecideOk, SyncFile
  <2>2. CASE DecideUnsynced(t)
    BY <1>1, <2>2 DEF LogOK, LogTypeOK, LogInv, DecideUnsynced, DecideOk, SyncFile
  <2>3. QED
    BY Zenon, <2>1, <2>2
<1>3. QED
  BY <1>1, <1>2 DEF LogOK, LogTypeOK, LogInv, Forward

LogStays == LogOK' /\ stable <= stable' /\ seqOf' = seqOf

(* Flushing the Completes, and every failure before a decision is in the   *)
(* file, keep the log well formed and change no sequence number.           *)
LEMMA FlushLog ==
    ASSUME LogOK, UNCHANGED logVars \/ DecideFailed \/ FlushOk \/ FlushFailed \/ LogOpen
    PROVE  LogStays
<1>0. /\ WithMissing \in completed..last
      /\ \A g \in pending : g <= WithMissing
  BY Zenon, WithMissingRange
<1> USE DEF LogStays, LogOK, LogTypeOK, LogInv
<1>1. CASE UNCHANGED logVars
  BY <1>1 DEF logVars
<1>2. CASE DecideFailed \/ FlushFailed
  <2>1. completed' \in completed..last /\ authority' \in {"held", "lost"}
    BY <1>0, <1>2 DEF DecideFailed, FlushFailed
  <2>2. /\ seqOf' = seqOf /\ last' = last /\ stable' = stable /\ stableC' = stableC
        /\ pending' = pending
    BY Zenon, <1>2 DEF DecideFailed, FlushFailed
  <2>3. QED
    BY <2>1, <2>2
<1>3. CASE FlushOk
  BY <1>0, <1>3 DEF FlushOk, SyncFile
<1>4. CASE LogOpen
  BY <1>4 DEF LogOpen, SyncFile
<1>5. QED
  BY Zenon, <1>1, <1>2, <1>3, <1>4

FinishLogStep(t) ==
    \/ DeferOk(t) \/ DeferLost(t)
    \/ CompleteOk(t) \/ CompleteFailed(t) \/ CompleteRefused(t)

(* So does logging, deferring or refusing a Complete.                      *)
LEMMA FinishLog ==
    ASSUME LogOK, NEW t \in Txns, FinishLogStep(t)
    PROVE  LogStays
<1> USE DEF LogStays, LogOK, LogTypeOK, LogInv
<1>1. CASE CompleteRefused(t)
  BY <1>1 DEF CompleteRefused, logVars
<1>2. CASE CompleteOk(t)
  BY <1>2 DEF CompleteOk, Decided, SequenceGap, AlreadyComplete, SyncFile
<1>3. CASE DeferOk(t) \/ DeferLost(t) \/ CompleteFailed(t)
  <2>1. /\ completed' \in completed..last
        /\ pending' \in {pending, pending \union {seqOf[t]}}
        /\ seqOf[t] \in 1..last /\ seqOf[t] - 1 <= completed
        /\ seqOf' = seqOf /\ last' = last /\ stable' = stable /\ stableC' = stableC
    BY <1>3
    DEF DeferOk, DeferLost, CompleteFailed, Decided, SequenceGap, AlreadyComplete
  <2>2. authority' \in {"held", "lost"}
    BY Zenon, <1>3 DEF DeferOk, DeferLost, CompleteFailed
  <2>3. \A g \in pending' : g \in pending \/ g = seqOf[t]
    BY Zenon, <2>1
  <2>4. pending' \in SUBSET (1..last')
    BY Zenon, <2>1, <2>3
  <2>5. LogTypeOK'
    BY <2>1, <2>2, <2>4
  <2>6. LogInv'
    BY <2>1, <2>3
  <2>7. QED
    BY <2>1, <2>5, <2>6
<1>4. QED
  BY Zenon, <1>1, <1>2, <1>3 DEF FinishLogStep

(* A crash keeps every durable decision and withdraws the others whole.    *)
LEMMA CrashLog ==
    ASSUME LogOK, LogCrash
    PROVE  /\ LogOK'
           /\ \A t \in Txns : Decided(t)' => Decided(t)
           /\ \A t \in Txns : Decided(t) /\ seqOf[t] <= stable => seqOf'[t] = seqOf[t]
           /\ stable' = stable
<1> USE DEF LogOK, LogTypeOK, LogInv
<1>1. PICK k \in stable..last :
        /\ seqOf' = Keep(k)
        /\ last' = k
        /\ \E c \in stableC..completed : completed' = IF c <= k THEN c ELSE k
        /\ pending' = {}
        /\ authority' = "lost"
        /\ UNCHANGED <<stable, stableC>>
  BY Zenon DEF LogCrash
<1>2. completed' \in stableC..k
  BY <1>1
<1>3. \A t \in Txns : seqOf'[t] = IF seqOf[t] <= k THEN seqOf[t] ELSE 0
  BY Zenon, <1>1 DEF Keep
<1>4. LogTypeOK'
  BY <1>1, <1>2, <1>3 DEF Keep
<1>5. QED
  BY <1>1, <1>2, <1>3, <1>4 DEF Decided

-------------------------------------------------------------------------------
(* Group decisions.                                                        *)

(* The members of ms are decided: as they were, or as one new group.       *)
GroupNumbered(ms) ==
    \/ SameGroup(ms) /\ seqOf' = seqOf
    \/ /\ \A t \in Members(ms) : ~Decided(t) /\ seqOf'[t] > last
       /\ (\A i, j \in DOMAIN ms : ms[i] = ms[j] => i = j)
            => \A i \in DOMAIN ms : seqOf'[ms[i]] = last + i

(* A group decision, durable or not, keeps the log well formed, numbers    *)
(* every member and leaves every other number alone.                       *)
LEMMA GroupDecideLog ==
    ASSUME LogOK, NEW ms \in Seq(Txns), GroupDecideOk(ms) \/ GroupDecideUnsynced(ms)
    PROVE  /\ LogOK' /\ stable <= stable'
           /\ \A t \in Txns : t \in Members(ms) \/ seqOf'[t] = seqOf[t]
           /\ \A t \in Members(ms) : seqOf'[t] > 0
           /\ GroupDecideOk(ms) => stable' = last'
           /\ GroupNumbered(ms)
<1>0. WithMissing \in completed..last /\ \A g \in pending : g <= WithMissing
  BY Zenon, WithMissingRange
<1>1. AppendGroup(ms)
  BY Zenon DEF GroupDecideOk, GroupDecideUnsynced
<1>2. Len(ms) \in Nat /\ DOMAIN ms = 1..Len(ms) /\ \A i \in DOMAIN ms : ms[i] \in Txns
  OBVIOUS
<1>3. /\ seqOf' \in [Txns -> Nat] /\ last' \in Nat /\ last <= last'
      /\ \A t \in Txns : seqOf'[t] <= last'
      /\ \A t \in Txns : t \in Members(ms) \/ seqOf'[t] = seqOf[t]
      /\ \A t \in Members(ms) : seqOf'[t] > 0
      /\ GroupNumbered(ms)
  <2>1. CASE SameGroup(ms) /\ UNCHANGED <<seqOf, last>>
    <3>1. \A t \in Members(ms) : t \in Txns /\ Decided(t)
      BY Zenon, <1>2, <2>1 DEF SameGroup, Members
    <3>2. QED
      BY <2>1, <3>1 DEF LogOK, LogTypeOK, LogInv, Decided, GroupNumbered
  <2>2. CASE /\ \A t \in Members(ms) : ~Decided(t)
             /\ seqOf' = [t \in Txns |->
                             IF t \in Members(ms)
                             THEN last + (CHOOSE i \in DOMAIN ms : ms[i] = t)
                             ELSE seqOf[t]]
             /\ last' = last + Len(ms)
    <3> DEFINE Place(t) == CHOOSE i \in DOMAIN ms : ms[i] = t
    <3>1. ASSUME NEW t \in Members(ms) PROVE Place(t) \in DOMAIN ms /\ ms[Place(t)] = t
      BY Zenon DEF Members
    <3>2. \A t \in Members(ms) : t \in Txns
      BY Zenon, <1>2 DEF Members
    <3>3. \A t \in Txns : seqOf'[t] = IF t \in Members(ms) THEN last + Place(t) ELSE seqOf[t]
      BY Zenon, <2>2
    <3>5. last' = last + Len(ms) /\ seqOf' = [t \in Txns |-> seqOf'[t]]
      BY <2>2
    <3> HIDE DEF Place
    <3>6. \A t \in Members(ms) : seqOf'[t] = last + Place(t) /\ Place(t) \in 1..Len(ms)
      BY Zenon, <1>2, <3>1, <3>2, <3>3
    <3>7. \A t \in Txns : seqOf'[t] \in Nat /\ seqOf'[t] <= last'
      BY <1>2, <3>3, <3>5, <3>6 DEF LogOK, LogTypeOK, LogInv
    <3>8. \A t \in Members(ms) : seqOf'[t] > last /\ seqOf'[t] > 0
      BY <1>2, <3>6 DEF LogOK, LogTypeOK
    <3>9. ASSUME \A i, j \in DOMAIN ms : ms[i] = ms[j] => i = j, NEW i \in DOMAIN ms
          PROVE  seqOf'[ms[i]] = last + i
      <4>1. ms[i] \in Members(ms)
        BY Zenon DEF Members
      <4>2. Place(ms[i]) = i
        BY Zenon, <3>1, <3>9, <4>1
      <4>3. QED
        BY Zenon, <3>6, <4>1, <4>2
    <3>10. GroupNumbered(ms)
      BY Zenon, <2>2, <3>8, <3>9 DEF GroupNumbered
    <3>11. seqOf' \in [Txns -> Nat]
      BY Zenon, <3>5, <3>7
    <3>12. last' \in Nat /\ last <= last'
      BY <1>2, <3>5 DEF LogOK, LogTypeOK
    <3>13. QED
      BY Zenon, <3>3, <3>7, <3>8, <3>10, <3>11, <3>12
  <2>3. QED
    BY Zenon, <1>1, <2>1, <2>2 DEF AppendGroup
<1>4. completed' = WithMissing
  BY Zenon, <1>1 DEF AppendGroup
<1>5. /\ stable' \in 0..last' /\ stable <= stable'
      /\ stableC' \in 0..completed' /\ stableC' <= stable'
      /\ pending' \in SUBSET (1..last')
      /\ authority' \in {"held", "lost"}
      /\ GroupDecideOk(ms) => stable' = last'
      /\ \A g \in pending' : g \in pending
  <2>1. CASE GroupDecideOk(ms)
    BY <1>0, <1>3, <1>4, <2>1 DEF LogOK, LogTypeOK, LogInv, GroupDecideOk, SyncFile
  <2>2. CASE GroupDecideUnsynced(ms)
    BY <1>0, <1>3, <1>4, <2>2
    DEF LogOK, LogTypeOK, LogInv, GroupDecideUnsynced, GroupDecideOk, SyncFile
  <2>3. QED
    BY Zenon, <2>1, <2>2
<1>6. LogTypeOK'
  BY <1>0, <1>3, <1>4, <1>5 DEF LogOK, LogTypeOK
<1>7. LogInv'
  BY <1>0, <1>3, <1>4, <1>5 DEF LogOK, LogTypeOK, LogInv
<1>8. QED
  BY Zenon, <1>3, <1>5, <1>6, <1>7 DEF LogOK

-------------------------------------------------------------------------------
(* The log by itself.                                                      *)

(* Whatever its callers do, and whatever fails or crashes, the log stays   *)
(* well formed: no number beyond last, nothing durable that was not        *)
(* written, and at most one accepted Complete missing from the file.       *)
THEOREM LogCorrect == LogSpec => [](LogTypeOK /\ LogInv)
<1>1. LogInit => LogOK
  BY DEF LogInit, LogOK, LogTypeOK, LogInv
<1>2. ASSUME LogOK, [LogNext]_logVars PROVE LogOK'
  <2>1. CASE UNCHANGED logVars \/ DecideFailed \/ FlushOk \/ LogOpen
    BY Zenon, <1>2, <2>1, FlushLog DEF LogStays
  <2>2. ASSUME NEW t \in Txns, DecideOk(t) \/ DecideUnsynced(t) PROVE LogOK'
    BY Zenon, <1>2, <2>2, DecideLog
  <2>3. ASSUME NEW t \in Txns, DeferOk(t) \/ DeferLost(t) \/ CompleteOk(t) \/ CompleteFailed(t)
        PROVE  LogOK'
    BY Zenon, <1>2, <2>3, FinishLog DEF LogStays, FinishLogStep
  <2>4. ASSUME NEW t \in Txns, NEW u \in Txns,
               GroupDecideOk(<<t, u>>) \/ GroupDecideUnsynced(<<t, u>>)
        PROVE  LogOK'
    <3>1. <<t, u>> \in Seq(Txns)
      OBVIOUS
    <3>2. QED
      BY Zenon, <1>2, <2>4, <3>1, GroupDecideLog
  <2>5. CASE LogCrash
    BY Zenon, <1>2, <2>5, CrashLog
  <2>6. QED
    BY Zenon, <1>2, <2>1, <2>2, <2>3, <2>4, <2>5 DEF LogNext
<1>3. QED
  BY <1>1, <1>2, PTL DEF LogSpec, LogOK
================================================================================
