----------------------------- MODULE DecisionLog -----------------------------
(***************************************************************************)
(* What Core's durable coordinator log (NBCO, coordinator_log.rs) promises *)
(* to the transactions that use it in global-visibility mode.  The file is *)
(* abstracted to the commit sequence it holds:                             *)
(*                                                                         *)
(*   seqOf[t]   commit_seq of t's decision record, 0 when t has none       *)
(*   last       last_sequenced_decision                                    *)
(*   stable     every decision numbered at most stable survives a crash    *)
(*   completed  every decision numbered at most completed has a Complete   *)
(*   stableC    the Completes that survive a crash                         *)
(*   pending    pending_complete_checkpoints                               *)
(*   authority  "held" while the log keeps its file handle, "lost" after    *)
(*              it gave the handle up (file is None)                       *)
(*                                                                         *)
(* Compaction replaces the file by a checkpoint that says the same, so it  *)
(* changes none of these.  Module CoordinatorLog holds the records, the    *)
(* scan and the compaction, and is checked to implement this module.       *)
(*                                                                         *)
(* Every method is one action per way it can return: the append may fail   *)
(* and be truncated away, the truncation may fail too (the handle is then  *)
(* given up), and the sync may fail after the append.                      *)
(***************************************************************************)
EXTENDS Integers, Sequences

CONSTANTS Txns          \* database transactions

VARIABLES seqOf, last, stable, completed, stableC, pending, authority

logVars == <<seqOf, last, stable, completed, stableC, pending, authority>>

LogTypeOK ==
    /\ seqOf \in [Txns -> Nat]
    /\ last \in Nat
    /\ stable \in 0..last
    /\ completed \in 0..last
    /\ stableC \in 0..completed
    /\ stableC <= stable
    /\ pending \in SUBSET (1..last)
    /\ authority \in {"held", "lost"}

(* Sequence numbers in use are at most last, and at most one accepted      *)
(* Complete is still missing from the file.                                *)
LogInv ==
    /\ \A t \in Txns : seqOf[t] <= last
    /\ \A g \in pending : g - 1 <= completed

LogInit ==
    /\ seqOf = [t \in Txns |-> 0]
    /\ last = 0 /\ stable = 0 /\ completed = 0 /\ stableC = 0
    /\ pending = {}
    /\ authority = "held"

Decided(t) == seqOf[t] > 0

Held == authority = "held"

(* append_missing_pending_completes: the deferred Complete whose append    *)
(* failed earlier is written.  There is at most one (LogInv), because the  *)
(* next transaction's Complete is refused while one is missing.            *)
WithMissing ==
    IF \E g \in pending : g > completed
    THEN CHOOSE g \in pending : g > completed
    ELSE completed

(* sync_data: everything in the file becomes durable.                      *)
SyncFile == stable' = last' /\ stableC' = completed'

(* Faulty: a retry is given a new sequence.                                *)
AppendDecision_Resequenced(t) ==
    /\ Held
    /\ completed' = WithMissing
    /\ seqOf' = [seqOf EXCEPT ![t] = last + 1] /\ last' = last + 1

(***************************************************************************)
(* sequenced_commit_decision.  A new decision takes the next sequence; an  *)
(* existing one is only synchronized again.                                *)
(***************************************************************************)
AppendDecision(t) ==
    /\ Held
    /\ completed' = WithMissing
    /\ IF Decided(t)
         THEN UNCHANGED <<seqOf, last>>
         ELSE seqOf' = [seqOf EXCEPT ![t] = last + 1] /\ last' = last + 1

DecideOk(t) ==
    /\ AppendDecision(t)
    /\ SyncFile
    /\ pending' = {}
    /\ UNCHANGED authority

DecideUnsynced(t) ==
    /\ AppendDecision(t)
    /\ UNCHANGED <<stable, stableC, pending, authority>>

(* Neither the decision nor its durability is reached; missing Completes   *)
(* may have been appended before the failure.                              *)
DecideFailed ==
    /\ authority' \in {authority, "lost"}
    /\ completed' \in (IF Held THEN {completed, WithMissing} ELSE {completed})
    /\ UNCHANGED <<seqOf, last, stable, stableC, pending>>

(***************************************************************************)
(* sequenced_group_commit_decision: one record decides every member of ms, *)
(* with consecutive sequences.  Members that are all decided already, with *)
(* consecutive sequences, are only synchronized again; a mixture is        *)
(* refused as conflicting.                                                 *)
(***************************************************************************)
Members(ms) == {ms[i] : i \in DOMAIN ms}

SameGroup(ms) ==
    /\ \A t \in Members(ms) : Decided(t)
    /\ \A i \in DOMAIN ms : seqOf[ms[i]] = seqOf[ms[1]] + i - 1

AppendGroup(ms) ==
    /\ Held
    /\ completed' = WithMissing
    /\ \/ /\ SameGroup(ms)
          /\ UNCHANGED <<seqOf, last>>
       \/ /\ \A t \in Members(ms) : ~Decided(t)
          /\ seqOf' = [t \in Txns |->
                          IF t \in Members(ms)
                          THEN last + (CHOOSE i \in DOMAIN ms : ms[i] = t)
                          ELSE seqOf[t]]
          /\ last' = last + Len(ms)

GroupDecideOk(ms) ==
    /\ AppendGroup(ms)
    /\ SyncFile
    /\ pending' = {}
    /\ UNCHANGED authority

GroupDecideUnsynced(ms) ==
    /\ AppendGroup(ms)
    /\ UNCHANGED <<stable, stableC, pending, authority>>

(***************************************************************************)
(* validate_sequenced_complete: a Complete is refused while an earlier     *)
(* decision is incomplete.                                                 *)
(***************************************************************************)
SequenceGap(t) == completed < seqOf[t] - 1

AlreadyComplete(t) == seqOf[t] <= completed

(* defer_complete_sequenced: a failed append is tolerated while the handle *)
(* is held; the sequence stays in pending and is appended later.           *)
DeferOk(t) ==
    /\ Decided(t) /\ ~SequenceGap(t)
    /\ pending' = pending \union {seqOf[t]}
    /\ \/ /\ AlreadyComplete(t)
          /\ UNCHANGED completed
       \/ /\ ~AlreadyComplete(t) /\ Held
          /\ completed' \in {completed, seqOf[t]}
    /\ UNCHANGED <<seqOf, last, stable, stableC, authority>>

DeferLost(t) ==
    /\ Decided(t) /\ ~SequenceGap(t) /\ ~AlreadyComplete(t)
    /\ pending' = pending \union {seqOf[t]}
    /\ authority' = "lost"
    /\ UNCHANGED <<seqOf, last, stable, completed, stableC>>

(* complete_sequenced: appended unless already there, then synchronized.   *)
CompleteOk(t) ==
    /\ Decided(t) /\ ~SequenceGap(t) /\ Held
    /\ completed' = IF AlreadyComplete(t) THEN completed ELSE seqOf[t]
    /\ pending' = {}
    /\ UNCHANGED <<seqOf, last, authority>>
    /\ SyncFile

CompleteFailed(t) ==
    /\ Decided(t) /\ ~SequenceGap(t)
    /\ \/ /\ authority' \in {authority, "lost"}
          /\ UNCHANGED <<completed, pending>>
       \/ /\ Held /\ ~AlreadyComplete(t)
          /\ completed' = seqOf[t]
          /\ pending' = pending \union {seqOf[t]}
          /\ UNCHANGED authority
    /\ UNCHANGED <<seqOf, last, stable, stableC>>

CompleteRefused(t) ==
    /\ Decided(t) /\ SequenceGap(t)
    /\ UNCHANGED logVars

(* flush_complete_checkpoints, also the first step of compact.             *)
FlushOk ==
    /\ pending # {} /\ Held
    /\ completed' = WithMissing
    /\ pending' = {}
    /\ UNCHANGED <<seqOf, last, authority>>
    /\ SyncFile

FlushFailed == pending # {} /\ DecideFailed

(***************************************************************************)
(* A crash keeps the durable prefix and any part of the unsynchronized     *)
(* tail: all of it when only the process died, less when the machine did.  *)
(***************************************************************************)
Keep(k) == [t \in Txns |-> IF seqOf[t] <= k THEN seqOf[t] ELSE 0]

LogCrash ==
    \E k \in stable..last :
        /\ seqOf' = Keep(k)
        /\ last' = k
        /\ \E c \in stableC..completed : completed' = IF c <= k THEN c ELSE k
        /\ pending' = {}
        /\ authority' = "lost"
        /\ UNCHANGED <<stable, stableC>>

(* open() truncates a torn tail and synchronizes what is left before       *)
(* anything reads it.                                                      *)
LogOpen ==
    /\ authority' = "held"
    /\ UNCHANGED <<seqOf, last, completed, pending>>
    /\ SyncFile

(* The log by itself, under any caller, with groups of two.                *)
LogNext ==
    \/ \E t \in Txns :
          \/ DecideOk(t) \/ DecideUnsynced(t)
          \/ DeferOk(t) \/ DeferLost(t)
          \/ CompleteOk(t) \/ CompleteFailed(t)
    \/ \E t, u \in Txns : t # u /\ (GroupDecideOk(<<t, u>>) \/ GroupDecideUnsynced(<<t, u>>))
    \/ DecideFailed
    \/ FlushOk
    \/ LogCrash \/ LogOpen

LogSpec == LogInit /\ [][LogNext]_logVars
===============================================================================
