-------------------------- MODULE HeapMvccProofs --------------------------
(***************************************************************************)
(* Vacuum keeps the inductive invariant of HeapMvcc (HeapMvccInvariant),   *)
(* and the theorems that follow: a view shows exactly the rows of its      *)
(* snapshot, the index has an entry for every version a view shows, and a  *)
(* view never changes while it is open, whatever other transactions and    *)
(* vacuum do.                                                              *)
(***************************************************************************)
EXTENDS HeapMvccEnds, WellFoundedInduction

(* The identifier of a vacuum has marked no version.                       *)
LEMMA NextUnseen ==
    ASSUME IInv, nextTxn <= MaxTxn
    PROVE  /\ nextTxn \in Txns /\ status[nextTxn] = Unknown /\ nextTxn # writer
           /\ status[nextTxn].kind # "Committed"
<1>1. nextTxn \in Txns /\ nextTxn >= nextTxn
  BY Parts DEF IInv, Txns
<1>2. status[nextTxn] = Unknown
  BY Zenon, <1>1 DEF IInv, Counters
<1>3. nextTxn # writer
  <2>1. CASE writer = None
    BY <1>1, <2>1 DEF Txns, None
  <2>2. CASE writer # None
    BY Zenon, <1>2, <2>2, Parts, StatusFacts DEF IInv
  <2> QED
    BY Zenon, <2>1, <2>2
<1> QED
  BY Zenon, <1>1, <1>2, <1>3, StatusFacts

(* A vacuum that fails leaves an aborted transaction behind.               *)
LEMMA VacuumFailsKeeps == ASSUME IInv, VacuumFails PROVE IInv'
<1>1. /\ nextTxn <= MaxTxn /\ nextTxn' = nextTxn + 1
      /\ status' = [status EXCEPT ![nextTxn] = Aborted]
      /\ UNCHANGED <<heapVars, level, command, failed, snapVars, leaseVars, maxSeq, dbVars,
                     committed, pend, first, restamped>>
  BY Zenon DEF VacuumFails, VacuumReady
<1> USE DEF heapVars, leaseVars, dbVars, snapVars
<1> DEFINE n == nextTxn
<1>2. n \in Txns /\ status[n] = Unknown /\ n # writer /\ status[n].kind # "Committed"
  BY Zenon, <1>1, NextUnseen
<1>3. Aborted \in Statuses /\ Aborted.kind # "Committed" /\ Unknown # Active
  BY Zenon, StatusFacts
<1>4. /\ status' \in [Txns -> Statuses] /\ status'[n] = Aborted
      /\ \A u \in Txns : u # n => status'[u] = status[u]
  BY Zenon, <1>1, <1>2, <1>3 DEF IInv, TypeOK
<1>5. /\ Removed'
      /\ \A c \in Seqs : Same(c)
      /\ \A r \in live : /\ status'[header[r].xmin] = status[header[r].xmin]
                         /\ header[r].xmax # None =>
                               status'[header[r].xmax] = status[header[r].xmax]
  BY Zenon, <1>1, <1>2, <1>3, UnseenStatus
<1>6. Counters'
  <2>1. nextTxn \in Nat /\ \A u \in Txns : u >= nextTxn + 1 => u >= nextTxn /\ u # nextTxn
    BY <1>2 DEF Txns
  <2>2. \A u \in Txns : u >= nextTxn' => status'[u] = Unknown
    BY Zenon, <1>1, <1>4, <2>1 DEF IInv, Counters
  <2> QED
    BY Zenon, <1>1, <1>3, <1>4, <2>2 DEF IInv, Counters
<1>7. TypeOK'
  <2>1. nextTxn' \in 1..(MaxTxn + 1)
    BY <1>1, Parts, MvccAssumption DEF IInv
  <2>2. writer' \in {None} \union {u \in Txns : status'[u] = Active}
    BY Zenon, <1>1, <1>2, <1>4 DEF IInv, TypeOK
  <2> QED
    BY Zenon, <1>1, <1>4, <2>1, <2>2 DEF IInv, TypeOK
<1>8. Authors' /\ Removed'
  BY <1>1, <1>5 DEF IInv, Authors
<1>9. PendingMarked' /\ UndoRestores' /\ IndexComplete'
  <2>1. \A u \in Txns : status[u].kind = "Committed" => status'[u] = status[u]
    BY Zenon, <1>2, <1>4
  <2> QED
    BY Zenon, <1>1, <2>1, UndoKept DEF IInv, PendingMarked, IndexComplete
<1>10. Exact'
  BY Zenon, <1>1, <1>5, ExactKept DEF Protected
<1>11. Pinned'
  <2>1. ASSUME NEW u \in Txns, status[u] = Active PROVE status'[u] = Active
    BY Zenon, <1>2, <1>3, <1>4, <2>1
  <2>2. ASSUME NEW w \in ViewIds, views'[w].open
        PROVE  /\ <<<<"view", w>>, views'[w].csn>> \in pins'
               /\ 1 <= views'[w].csn
               /\ views'[w].own # None =>
                   /\ status'[views'[w].own] = Active
                   /\ level'[views'[w].own] = "RR" => views'[w].csn = first'[views'[w].own]
    <3>1. views[w].open
      BY Zenon, <1>1, <2>2
    <3>2. /\ <<<<"view", w>>, views[w].csn>> \in pins /\ 1 <= views[w].csn
          /\ views[w].own # None =>
                /\ views[w].own \in Txns /\ status[views[w].own] = Active
                /\ level[views[w].own] = "RR" => views[w].csn = first[views[w].own]
      BY <3>1, ViewFacts
    <3> QED
      BY Zenon, <1>1, <2>1, <3>2
  <2>3. \A u \in Txns : first'[u] # 0 => level'[u] = "RR" /\ status'[u] = Active
    BY Zenon, <1>1, <2>1 DEF IInv, Pinned
  <2>4. \A u \in Txns, c \in Seqs :
          <<<<PinName', u>>, c>> \in pins' <=> first'[u] # 0 /\ first'[u] = c
    BY Zenon, <1>1 DEF IInv, Pinned, PinName
  <2> QED
    BY Zenon, <2>2, <2>3, <2>4 DEF Pinned
<1> QED
  BY Zenon, <1>6, <1>7, <1>8, <1>9, <1>10, <1>11 DEF IInv

(* A nonempty set of numbers has a least element.                          *)
LEMMA LeastElement == ASSUME NEW S \in SUBSET Nat, S # {} PROVE \E x \in S : \A y \in S : x <= y
<1>1. PICK x \in S : \A y \in S : ~(<<y, x>> \in OpToRel(<, Nat))
  BY Zenon, NatLessThanWellFounded, WFMin
<1>2. ASSUME NEW y \in S PROVE x <= y
  <2>1. x \in Nat /\ y \in Nat
    BY Zenon, <1>2
  <2>2. <<y, x>> \in OpToRel(<, Nat) <=> y < x
    BY Zenon, <2>1 DEF OpToRel
  <2>3. ~(y < x)
    BY Zenon, <1>1, <2>2
  <2> QED
    BY <2>1, <2>3
<1> QED
  BY Zenon, <1>2

(* oldest_snapshot is a lower bound of the pinned sequences, and vacuum    *)
(* never looks beyond the newest commit.                                   *)
LEMMA HorizonFacts ==
    ASSUME IInv
    PROVE  /\ Horizon \in Nat /\ Horizon <= maxSeq
           /\ \A h \in Holders, c \in Seqs : <<h, c>> \in pins => Horizon <= c
<1>1. maxSeq \in Nat /\ pins \subseteq Holders \X Seqs /\ Seqs \subseteq Nat
  BY Parts DEF IInv, TypeOK, Seqs
<1>2. CASE pins = {}
  BY <1>1, <1>2 DEF Horizon
<1>3. CASE pins # {}
  <2> DEFINE T == {p[2] : p \in pins}
  <2>1. T \subseteq Nat /\ T # {}
    BY Zenon, <1>1, <1>3
  <2>2. PICK x \in T : \A y \in T : x <= y
    <3> HIDE DEF T
    <3> QED
      BY Zenon, <2>1, LeastElement
  <2>5. x \in {p[2] : p \in pins} /\ \A p \in pins : x <= p[2]
    BY Zenon, <2>2
  <2>6. Horizon \in {p[2] : p \in pins} /\ \A p \in pins : Horizon <= p[2]
    BY Zenon, <1>3, <2>5 DEF Horizon
  <2>7. PICK q \in pins : Horizon = q[2]
    BY Zenon, <2>6
  <2>8. Horizon \in Nat /\ Horizon <= maxSeq
    BY Zenon, <1>1, <2>7 DEF IInv, Counters
  <2>9. ASSUME NEW h \in Holders, NEW c \in Seqs, <<h, c>> \in pins PROVE Horizon <= c
    <3> DEFINE p == <<h, c>>
    <3>1. Horizon <= p[2]
      BY Zenon, <2>6, <2>9
    <3> QED
      BY Zenon, <3>1
  <2> QED
    BY Zenon, <2>8, <2>9
<1> QED
  BY Zenon, <1>2, <1>3

(* vacuum: what it removes is shown at no sequence that is read or pinned, *)
(* and overtaken where it was still shown at the published boundary;       *)
(* nothing is left of it in the index.                                     *)
LEMMA VacuumKeeps == ASSUME IInv, Vacuum PROVE IInv'
<1>1. /\ nextTxn <= MaxTxn /\ nextTxn' = nextTxn + 1
      /\ writer = None /\ maxSeq < MaxSeq
      /\ live' = live \ Dead /\ entries' = entries \ Dead
      /\ status' = [status EXCEPT ![nextTxn] = Committed(maxSeq + 1)]
      /\ maxSeq' = maxSeq + 1 /\ committed' = Extend(committed[maxSeq])
      /\ UNCHANGED <<header, level, command, failed, snapVars, leaseVars, dbVars, pend, first,
                     restamped>>
  BY Zenon DEF Vacuum, VacuumReady, Swept
<1> USE DEF leaseVars, dbVars, snapVars
<1> DEFINE n == nextTxn
<1>2. /\ n \in Txns /\ status[n] = Unknown /\ n # writer /\ status[n].kind # "Committed"
      /\ n # None /\ Unknown # Active
  BY Zenon, <1>1, NextUnseen, StatusFacts DEF Txns, None
<1>3. /\ maxSeq \in Nat /\ maxSeq \in Seqs /\ maxSeq + 1 \in Seqs /\ Seqs \subseteq Nat
      /\ Committed(maxSeq + 1) \in Statuses
      /\ Committed(maxSeq + 1).kind = "Committed" /\ Committed(maxSeq + 1).seq = maxSeq + 1
  BY <1>1, StatusFacts, Parts, MvccAssumption DEF IInv, Seqs
<1>4. /\ status' \in [Txns -> Statuses] /\ status'[n] = Committed(maxSeq + 1)
      /\ \A u \in Txns : u # n => status'[u] = status[u]
  BY Zenon, <1>1, <1>2, <1>3 DEF IInv, TypeOK
<1>5. \A r \in live : /\ header[r].xmin \in Txns /\ status[header[r].xmin].kind = "Committed"
                      /\ header[r].xmax # None =>
                            header[r].xmax \in Txns /\ status[header[r].xmax].kind = "Committed"
  <2>1. \A r \in live : header[r].xmin \in Txns /\ (header[r].xmax # None => header[r].xmax \in Txns)
    BY Parts DEF IInv, TypeOK, Authors, Txns, None
  <2>2. None \notin Txns
    BY DEF None, Txns
  <2> QED
    BY Zenon, <1>1, <2>1, <2>2 DEF IInv, Authors
<1>6. \A r \in live : /\ status'[header[r].xmin] = status[header[r].xmin]
                      /\ header[r].xmax # None => status'[header[r].xmax] = status[header[r].xmax]
  BY Zenon, <1>2, <1>4, <1>5
<1>7. \A r \in live : /\ status[header[r].xmin].seq \in Nat /\ status[header[r].xmin].seq <= maxSeq
                      /\ header[r].xmax # None => /\ status[header[r].xmax].seq \in Nat
                                                  /\ status[header[r].xmax].seq <= maxSeq
  BY Zenon, <1>3, <1>5, Parts DEF IInv, Counters
<1>8. Dead \subseteq live /\ \A r \in Dead : header[r].xmax # None /\ status[header[r].xmax].seq <= Horizon
  BY Zenon, <1>5, StatusFacts DEF Dead, IsDead, CommittedBy
<1>9. ASSUME NEW c \in Seqs, Protected(c), ~(global /\ c = published), NEW r \in Dead
      PROVE  status[header[r].xmax].seq <= c
  <2>1. /\ r \in live /\ header[r].xmax # None /\ status[header[r].xmax].seq <= Horizon
        /\ status[header[r].xmax].seq \in Nat /\ status[header[r].xmax].kind = "Committed" /\ c \in Nat
    BY Zenon, <1>3, <1>5, <1>7, <1>8
  <2>2. Horizon \in Nat /\ Horizon <= maxSeq
    BY Zenon, HorizonFacts
  <2>3. CASE c = maxSeq
    BY <1>3, <2>1, <2>2, <2>3
  <2>4. CASE \E h \in Holders : <<h, c>> \in pins
    <3>1. Horizon <= c
      BY Zenon, <2>4, HorizonFacts
    <3> QED
      BY <2>1, <2>2, <3>1
  <2> QED
    BY Zenon, <1>9, <2>3, <2>4 DEF Protected
<1>18. \A r \in Rows \ live : header[r].xmax # None =>
         /\ header[r].xmax \in Txns /\ status[header[r].xmax].kind = "Committed"
         /\ status'[header[r].xmax] = status[header[r].xmax]
  BY Zenon, <1>2, <1>4 DEF IInv, Removed
<1>10. ASSUME NEW c \in Seqs, c <= maxSeq, Protected(c) PROVE Same(c)
  <2>1. ASSUME NEW r \in live \ Dead PROVE r \in ShownAt(c)' <=> r \in ShownAt(c)
    <3>1. header'[r] = header[r] /\ status'[header[r].xmin] = status[header[r].xmin]
          /\ (header[r].xmax # None => status'[header[r].xmax] = status[header[r].xmax])
      BY Zenon, <1>1, <1>6
    <3> QED
      BY Zenon, <1>1, <3>1 DEF ShownAt, CommittedBy
  <2>2. ASSUME NEW r \in Dead, ~Overtaken(r, c)' PROVE r \notin ShownAt(c)
    <3>1. /\ r \in live /\ r \notin live' /\ header'[r] = header[r] /\ header[r].xmax # None
          /\ status'[header[r].xmax] = status[header[r].xmax]
      BY Zenon, <1>1, <1>6, <1>8
    <3>2. CommittedBy(header[r].xmax, c)
      <4>1. CASE global
        BY Zenon, <1>1, <2>2, <3>1, <4>1 DEF Overtaken, CommittedBy
      <4>2. CASE ~global
        BY Zenon, <1>5, <1>9, <1>10, <2>2, <3>1, <4>2 DEF CommittedBy
      <4> QED
        BY Zenon, <4>1, <4>2
    <3> QED
      BY Zenon, <3>1, <3>2 DEF ShownAt
  <2>3. ShownAt(c) \subseteq live /\ ShownAt(c)' \subseteq live \ Dead
    BY Zenon, <1>1 DEF ShownAt
  <2>4. ASSUME NEW r \in Rows, Overtaken(r, c) PROVE Overtaken(r, c)'
    <3>1. /\ global /\ r \notin live /\ header[r].xmax # None
          /\ ~CommittedBy(header[r].xmax, c)
      BY Zenon, <2>4 DEF Overtaken
    <3>2. r \notin live' /\ header'[r] = header[r] /\ status'[header[r].xmax] = status[header[r].xmax]
      BY Zenon, <1>1, <1>18, <3>1
    <3> QED
      BY Zenon, <1>1, <3>1, <3>2 DEF Overtaken, CommittedBy
  <2>5. ASSUME NEW r \in Rows, ~Overtaken(r, c)' PROVE r \in ShownAt(c)' <=> r \in ShownAt(c)
    BY Zenon, <2>1, <2>2, <2>3, <2>5
  <2> QED
    BY Zenon, <2>4, <2>5 DEF Same
<1>11. ASSUME NEW c \in Seqs, c = maxSeq + 1, NEW x \in Rows \ restamped
       PROVE  x \in ShownAt(c)' <=> x \in committed[maxSeq]
  <2>1. x \in committed[maxSeq] <=> x \in ShownAt(maxSeq)
    BY Zenon, <1>11, NewestExact
  <2>2. ShownAt(maxSeq) \subseteq live /\ ShownAt(c)' \subseteq live \ Dead
    BY Zenon, <1>1 DEF ShownAt
  <2>3. ASSUME NEW r \in Dead PROVE r \notin ShownAt(maxSeq)
    <3>1. r \in live /\ header[r].xmax # None /\ status[header[r].xmax].seq <= maxSeq
      BY Zenon, <1>7, <1>8
    <3> QED
      BY Zenon, <1>5, <3>1 DEF ShownAt, CommittedBy
  <2>4. ASSUME NEW r \in live \ Dead PROVE r \in ShownAt(c)' <=> r \in ShownAt(maxSeq)
    <3>1. /\ header'[r] = header[r] /\ status'[header[r].xmin] = status[header[r].xmin]
          /\ header[r].xmax # None => status'[header[r].xmax] = status[header[r].xmax]
      BY Zenon, <1>1, <1>6
    <3>2. /\ status[header[r].xmin].seq <= maxSeq /\ status[header[r].xmin].seq <= c
          /\ header[r].xmax # None => /\ status[header[r].xmax].seq <= maxSeq
                                      /\ status[header[r].xmax].seq <= c
      BY <1>3, <1>7, <1>11
    <3> QED
      BY Zenon, <1>1, <3>1, <3>2 DEF ShownAt, CommittedBy
  <2> QED
    BY Zenon, <2>1, <2>2, <2>3, <2>4
<1>12. /\ Exact' /\ maxSeq' \in Seqs /\ published' \in 0..maxSeq'
       /\ committed' \in [0..maxSeq' -> SUBSET Rows]
  <2>1. committed[maxSeq] \in SUBSET Rows
    BY <1>3 DEF IInv, TypeOK
  <2>2. pins' \subseteq pins /\ UNCHANGED <<global, published, restamped>>
    BY Zenon, <1>1
  <2> QED
    BY Zenon, <1>1, <1>10, <1>11, <2>1, <2>2, HistoryExtends
<1>13. Counters'
  <2>1. nextTxn \in Nat /\ \A u \in Txns : u >= nextTxn + 1 => u >= nextTxn /\ u # nextTxn
    BY <1>2 DEF Txns
  <2>2. \A u \in Txns : u >= nextTxn' => status'[u] = Unknown
    BY Zenon, <1>1, <1>4, <2>1 DEF IInv, Counters
  <2>3. ASSUME NEW u \in Txns, status'[u].kind = "Committed" PROVE status'[u].seq <= maxSeq'
    <3>1. CASE u = n
      BY <1>1, <1>3, <1>4, <3>1
    <3>2. CASE u # n
      <4>1. status[u].seq \in Nat /\ status[u].seq <= maxSeq /\ status'[u] = status[u]
        BY Zenon, <1>3, <1>4, <2>3, <3>2, Parts DEF IInv, Counters
      <4> QED
        BY <1>1, <1>3, <4>1
    <3> QED
      BY Zenon, <3>1, <3>2
  <2>4. ASSUME NEW p \in pins' PROVE p[2] <= maxSeq'
    <3>1. p \in pins /\ p[2] <= maxSeq /\ p \in Holders \X Seqs
      BY Zenon, <1>1 DEF IInv, Counters, TypeOK
    <3>2. p[2] \in Nat
      BY Zenon, <1>3, <3>1
    <3> QED
      BY <1>1, <1>3, <3>1, <3>2
  <2>5. 1 <= maxSeq' /\ 1 <= published'
    BY <1>1, <1>3 DEF IInv, Counters
  <2> QED
    BY Zenon, <2>2, <2>3, <2>4, <2>5 DEF Counters
<1>14. Authors' /\ Removed'
  <2>1. Authors'
    BY <1>1, <1>6 DEF IInv, Authors
  <2>2. ASSUME NEW r \in Rows \ live', header[r].xmax # None
        PROVE  header[r].xmax \in Txns /\ status'[header[r].xmax].kind = "Committed"
    <3>1. CASE r \in live
      BY Zenon, <1>5, <1>6, <2>2, <3>1
    <3>2. CASE r \notin live
      BY Zenon, <1>18, <2>2, <3>2
    <3> QED
      BY Zenon, <3>1, <3>2
  <2>3. Removed'
    BY Zenon, <1>1, <2>2 DEF Removed
  <2> QED
    BY Zenon, <2>1, <2>3
<1>15. PendingMarked' /\ UndoRestores' /\ IndexComplete'
  <2>1. entries = live
    <3>1. \A r \in live : header[r].xmin # writer
      BY <1>1, <1>5 DEF None, Txns
    <3> QED
      BY Zenon, <3>1 DEF IInv, IndexComplete
  <2> QED
    BY Zenon, <1>1, <2>1 DEF IInv, PendingMarked, UndoRestores, IndexComplete
<1>16. Pinned'
  <2>1. ASSUME NEW u \in Txns, status[u] = Active PROVE status'[u] = Active
    BY Zenon, <1>2, <1>4, <2>1
  <2>2. ASSUME NEW w \in ViewIds, views'[w].open
        PROVE  /\ <<<<"view", w>>, views'[w].csn>> \in pins'
               /\ 1 <= views'[w].csn
               /\ views'[w].own # None =>
                   /\ status'[views'[w].own] = Active
                   /\ level'[views'[w].own] = "RR" => views'[w].csn = first'[views'[w].own]
    <3>1. views[w].open
      BY Zenon, <1>1, <2>2
    <3>2. /\ <<<<"view", w>>, views[w].csn>> \in pins /\ 1 <= views[w].csn
          /\ views[w].own # None =>
                /\ views[w].own \in Txns /\ status[views[w].own] = Active
                /\ level[views[w].own] = "RR" => views[w].csn = first[views[w].own]
      BY <3>1, ViewFacts
    <3> QED
      BY Zenon, <1>1, <2>1, <3>2
  <2>3. \A u \in Txns : first'[u] # 0 => level'[u] = "RR" /\ status'[u] = Active
    BY Zenon, <1>1, <2>1 DEF IInv, Pinned
  <2>4. \A u \in Txns, c \in Seqs :
          <<<<PinName', u>>, c>> \in pins' <=> first'[u] # 0 /\ first'[u] = c
    BY Zenon, <1>1 DEF IInv, Pinned, PinName
  <2> QED
    BY Zenon, <2>2, <2>3, <2>4 DEF Pinned
<1>17. TypeOK'
  <2>1. nextTxn' \in 1..(MaxTxn + 1)
    BY <1>1, Parts, MvccAssumption DEF IInv
  <2>2. writer' \in {None} \union {u \in Txns : status'[u] = Active}
    BY Zenon, <1>1
  <2>3. live' \subseteq Rows /\ entries' \subseteq Rows
    BY Zenon, <1>1 DEF IInv, TypeOK
  <2> QED
    BY Zenon, <1>1, <1>4, <1>12, <2>1, <2>2, <2>3 DEF IInv, TypeOK
<1> QED
  BY Zenon, <1>12, <1>13, <1>14, <1>15, <1>16, <1>17 DEF IInv

(* A write of t leaves marks of the command that t is in.                  *)
LEMMA WriteCommands ==
    ASSUME IInv, Commands, NEW t \in Txns, status[t] = Active, writer \in {None, t}, writer' = t,
           command' = command, live \subseteq Rows,
           \A r \in live' : \/ r \in live /\ header'[r] = header[r]
                            \/ header'[r].xmax # t
                            \/ header'[r].cmax = CommandId(t)
    PROVE  Commands'
<1>1. t # None /\ CommandId(t)' = CommandId(t) /\ CommandId(t) <= CommandId(t)
  <2>1. command[t] \in 0..MaxCommand
    BY Zenon DEF IInv, TypeOK
  <2>2. CommandId(t) <= CommandId(t) /\ t # None
    BY <2>1, MvccAssumption DEF CommandId, Txns, None
  <2>3. CommandId(t)' = CommandId(t)
    BY Zenon DEF CommandId
  <2> QED
    BY Zenon, <2>2, <2>3
<1>2. ASSUME NEW r \in live, header[r].xmax = t PROVE header[r].cmax <= CommandId(t)
  BY Zenon, <1>1, <1>2, Unleased DEF Commands
<1> QED
  BY Zenon, <1>1, <1>2 DEF Commands

(* The marks of the lease holder never run ahead of its command.           *)
LEMMA CommandsKept == ASSUME IInv, Commands, [Next]_vars PROVE Commands'
<1> USE DEF heapVars, txnVars, snapVars, leaseVars, dbVars
<1>1. ASSUME UNCHANGED <<header, live, writer, command>> PROVE Commands'
  BY Zenon, <1>1 DEF Commands, CommandId
<1>2. ASSUME NEW t \in Txns, NEW w \in ViewIds, BeginStatement(t, w) PROVE Commands'
  <2>1. command' = [command EXCEPT ![t] = @ + 1] /\ UNCHANGED <<header, live, writer>>
    BY Zenon, <1>2 DEF BeginStatement
  <2>2. \A u \in Txns : CommandId(u) \in Nat /\ CommandId(u)' \in Nat /\ CommandId(u) <= CommandId(u)'
    BY <2>1, MvccAssumption DEF CommandId, IInv, TypeOK
  <2>3. ASSUME writer # None, NEW r \in live, header[r].xmax = writer
        PROVE  header[r].cmax <= CommandId(writer)'
    <3>1. header[r].cmax \in Nat /\ writer \in Txns /\ header[r].cmax <= CommandId(writer)
      BY <2>3, Parts DEF Commands, IInv, TypeOK
    <3> QED
      BY <2>1, <2>2, <3>1
  <2> QED
    BY <2>1, <2>3 DEF Commands, CommandId
<1>3. ASSUME NEW t \in Txns, NEW r \in Rows, NEW ok \in BOOLEAN, Insert(t, r, ok) PROVE Commands'
  <2>1. /\ status[t] = Active /\ writer \in {None, t} /\ writer' = t /\ command' = command
        /\ header' = [header EXCEPT ![r] = InsertedBy(t)] /\ live' = live \union {r}
        /\ header \in [Rows -> Headers] /\ live \subseteq Rows
    BY Zenon, <1>3 DEF Insert, Running, Acquire, IInv, TypeOK
  <2>2. header'[r].xmax = None /\ \A x \in Rows : x # r => header'[x] = header[x]
    BY Zenon, <2>1 DEF InsertedBy
  <2>3. t # None
    BY DEF Txns, None
  <2> QED
    BY Zenon, <2>1, <2>2, <2>3, WriteCommands
<1>4. ASSUME NEW t \in Txns, NEW r \in Rows, NEW new \in Rows, NEW ok \in BOOLEAN, Update(t, r, new, ok)
      PROVE  Commands'
  <2>1. /\ status[t] = Active /\ writer \in {None, t} /\ writer' = t /\ command' = command
        /\ header' = [header EXCEPT ![r] = Expire(@, t), ![new] = InsertedBy(t)]
        /\ live' = live \union {new} /\ header \in [Rows -> Headers] /\ live \subseteq Rows
    BY Zenon, <1>4 DEF Update, Running, Acquire, IInv, TypeOK
  <2>2. CommandId(t) \in 0..MaxCommand /\ t \in 0..MaxTxn /\ t # None
    BY MvccAssumption DEF CommandId, IInv, TypeOK, Txns, None
  <2>3. Expire(header[r], t).cmax = CommandId(t)
    BY Zenon, <2>1, <2>2, ExpireFacts
  <2>4. header'[new] = InsertedBy(t) /\ (r # new => header'[r] = Expire(header[r], t))
    BY Zenon, <2>1
  <2>5. \A x \in Rows : x # r /\ x # new => header'[x] = header[x]
    BY Zenon, <2>1
  <2>6. header'[new].xmax = None /\ (r # new => header'[r].cmax = CommandId(t))
    BY <2>3, <2>4 DEF InsertedBy
  <2> QED
    BY Zenon, <2>1, <2>2, <2>5, <2>6, WriteCommands
<1>5. ASSUME NEW t \in Txns, NEW r \in Rows, Delete(t, r) PROVE Commands'
  <2>1. /\ status[t] = Active /\ writer \in {None, t} /\ writer' = t /\ command' = command
        /\ header' = [header EXCEPT ![r] = Expire(@, t)]
        /\ live' = live /\ header \in [Rows -> Headers] /\ live \subseteq Rows
    BY Zenon, <1>5 DEF Delete, Running, Acquire, IInv, TypeOK
  <2>2. CommandId(t) \in 0..MaxCommand /\ t \in 0..MaxTxn /\ t # None
    BY MvccAssumption DEF CommandId, IInv, TypeOK, Txns, None
  <2>3. Expire(header[r], t).cmax = CommandId(t)
    BY Zenon, <2>1, <2>2, ExpireFacts
  <2>4. header'[r].cmax = CommandId(t) /\ \A x \in Rows : x # r => header'[x] = header[x]
    BY Zenon, <2>1, <2>3
  <2> QED
    BY Zenon, <2>1, <2>2, <2>4, WriteCommands
<1>6. ASSUME NEW t \in Txns, Commit(t) \/ Rollback(t) PROVE Commands'
  <2>1. /\ writer = t => writer' = None
        /\ writer # t => UNCHANGED <<header, live, writer>>
        /\ command' = [command EXCEPT ![t] = 0]
    BY Zenon, <1>6 DEF Commit, Rollback, Forget
  <2>2. CASE writer = t
    BY Zenon, <2>1, <2>2 DEF Commands
  <2>3. CASE writer # t
    <3>1. writer # None => CommandId(writer)' = CommandId(writer)
      BY <2>1, <2>3 DEF CommandId, IInv, TypeOK
    <3> QED
      BY Zenon, <2>1, <2>3, <3>1 DEF Commands
  <2> QED
    BY Zenon, <2>2, <2>3
<1>7. ASSUME Vacuum PROVE Commands'
  BY Zenon, <1>7 DEF Vacuum, Commands
<1>8. CASE Next
  <2>1. ASSUME NEW l \in {"RC", "RR"}, Begin(l) PROVE Commands'
    BY Zenon, <1>1, <2>1 DEF Begin
  <2>2. ASSUME NEW w \in ViewIds, ReadView(w) \/ DropView(w) PROVE Commands'
    BY Zenon, <1>1, <2>2 DEF ReadView, DropView
  <2>3. ASSUME NEW t \in Txns, NEW r \in Rows, WriteRefused(t, r) PROVE Commands'
    BY Zenon, <1>1, <2>3 DEF WriteRefused
  <2>4. ASSUME Publish \/ VacuumFails PROVE Commands'
    BY Zenon, <1>1, <2>4 DEF Publish, VacuumFails
  <2> QED
    BY Zenon, <1>2, <1>3, <1>4, <1>5, <1>6, <1>7, <1>8, <2>1, <2>2, <2>3, <2>4 DEF Next
<1> QED
  BY Zenon, <1>1, <1>8 DEF vars

-------------------------------------------------------------------------------
(* THEOREMS *)

(* Every step keeps the invariant.                                         *)
LEMMA NextKeeps == ASSUME IInv, Commands, [Next]_vars PROVE IInv'
<1>1. CASE Next
  <2>1. ASSUME NEW l \in {"RC", "RR"}, Begin(l) PROVE IInv'
    BY Zenon, <2>1, BeginKeeps
  <2>2. ASSUME NEW t \in Txns, NEW w \in ViewIds, BeginStatement(t, w) PROVE IInv'
    BY Zenon, <2>2, BeginStatementKeeps
  <2>3. ASSUME NEW w \in ViewIds, ReadView(w) PROVE IInv'
    BY Zenon, <2>3, ReadViewKeeps
  <2>4. ASSUME NEW w \in ViewIds, DropView(w) PROVE IInv'
    BY <2>4, DropViewKeeps
  <2>5. ASSUME NEW t \in Txns, NEW r \in Rows, NEW ok \in BOOLEAN, Insert(t, r, ok) PROVE IInv'
    BY Zenon, <2>5, InsertKeeps
  <2>6. ASSUME NEW t \in Txns, NEW r \in Rows, NEW new \in Rows, NEW ok \in BOOLEAN,
               Update(t, r, new, ok)
        PROVE  IInv'
    BY Zenon, <2>6, UpdateKeeps
  <2>7. ASSUME NEW t \in Txns, NEW r \in Rows, Delete(t, r) PROVE IInv'
    BY Zenon, <2>7, DeleteKeeps
  <2>8. ASSUME NEW t \in Txns, NEW r \in Rows, WriteRefused(t, r) PROVE IInv'
    BY <2>8, WriteRefusedKeeps
  <2>9. ASSUME NEW t \in Txns, Commit(t) PROVE IInv'
    BY Zenon, <2>9, CommitKeeps
  <2>10. ASSUME NEW t \in Txns, Rollback(t) PROVE IInv'
    BY <2>10, RollbackKeeps
  <2>11. ASSUME Publish PROVE IInv'
    BY Zenon, <2>11, PublishKeeps
  <2>12. ASSUME Vacuum PROVE IInv'
    BY Zenon, <2>12, VacuumKeeps
  <2>13. ASSUME VacuumFails PROVE IInv'
    BY <2>13, VacuumFailsKeeps
  <2> QED
    BY Zenon, <1>1, <2>1, <2>2, <2>3, <2>4, <2>5, <2>6, <2>7, <2>8, <2>9, <2>10, <2>11, <2>12, <2>13
    DEF Next
<1>2. CASE UNCHANGED vars
  <2>1. /\ UNCHANGED <<header, live, entries, status, level, command, failed, nextTxn, pins, views>>
        /\ UNCHANGED <<writer, undo, maxSeq, global, published, applied, committed, pend, first,
                     restamped>>
    BY Zenon, <1>2 DEF vars, heapVars, txnVars, snapVars, leaseVars, dbVars
  <2>2. TypeOK' /\ Counters' /\ Authors' /\ PendingMarked' /\ UndoRestores' /\ IndexComplete'
    BY <2>1 DEF IInv, TypeOK, Counters, Authors, PendingMarked, UndoRestores, IndexComplete
  <2>3. Removed' /\ Pinned'
    BY Zenon, <2>1 DEF IInv, Removed, Pinned, PinName
  <2>4. \A c \in Seqs : Same(c)
    BY Zenon, <2>1 DEF Same, ShownAt, Overtaken, CommittedBy
  <2>5. Exact'
    BY Zenon, <2>1, <2>4, ExactKept DEF Protected
  <2> QED
    BY Zenon, <2>2, <2>3, <2>5 DEF IInv
<1> QED
  BY Zenon, <1>1, <1>2

(* The inductive invariant of the heap: who wrote the versions that are    *)
(* there, what undo restores, and that at each sequence a reader uses the  *)
(* headers still show exactly the rows committed up to it.                 *)
THEOREM Inductive == Spec => [](IInv /\ Commands)
<1>1. Init => IInv /\ Commands
  BY Zenon, InitIInv DEF Init, Commands
<1>2. IInv /\ Commands /\ [Next]_vars => IInv' /\ Commands'
  BY Zenon, NextKeeps, CommandsKept
<1> QED
  BY <1>1, <1>2, PTL DEF Spec

(* Each variable keeps its type; the lease belongs to a running            *)
(* transaction, and the published boundary is a commit of this storage.    *)
THEOREM TypeCorrect == Spec => []TypeOK
<1>1. IInv => TypeOK
  BY Zenon DEF IInv
<1> QED
  BY <1>1, Inductive, PTL

(* Only the lease holder and committed transactions have marked a version  *)
(* that is in the heap.                                                    *)
LEMMA Marked ==
    ASSUME IInv, NEW r \in live, NEW u \in Txns, u # writer, status[u] = Active
    PROVE  header[r].xmin # u /\ header[r].xmax # u
<1>1. u # None /\ status[u].kind # "Committed"
  BY StatusFacts DEF None, Txns
<1> QED
  BY Zenon, <1>1 DEF IInv, Authors

(* is_visible decides as the history does.                                 *)
LEMMA ViewShows ==
    ASSUME IInv, NEW w \in ViewIds, views[w].open
    PROVE  \A r \in Rows \ restamped :
              ~Overtaken(r, views[w].csn) => (r \in Seen(views[w]) <=> r \in Expected(w))
<1> DEFINE v == views[w]
<1>1. /\ v.csn \in Seqs /\ v.cmd \in 0..MaxCommand /\ Protected(v.csn)
      /\ v.own # None => v.own \in Txns /\ status[v.own] = Active
  BY Zenon, ViewFacts, Parts DEF IInv
<1>2. \A r \in Rows \ restamped : ~Overtaken(r, v.csn) =>
        (r \in committed[v.csn] <=> r \in ShownAt(v.csn))
  BY Zenon, <1>1 DEF IInv, Exact
<1>3. \A r \in live : header[r].xmin \in Txns /\ header[r].xmin # None
  BY DEF IInv, Authors, None, Txns
<1> HIDE DEF v
<1>4. \A r : r \in Seen(v) <=>
        /\ r \in live
        /\ IF header[r].xmin = v.own THEN header[r].cmin <= v.cmd ELSE CommittedBy(header[r].xmin, v.csn)
        /\ ~(/\ header[r].xmax # None
             /\ IF header[r].xmax = v.own THEN header[r].cmax <= v.cmd
                ELSE CommittedBy(header[r].xmax, v.csn))
  BY Zenon DEF Seen, IsVisible, Inserted, Expired
<1>5. \A r : r \in ShownAt(v.csn) <=>
        /\ r \in live /\ CommittedBy(header[r].xmin, v.csn)
        /\ ~(header[r].xmax # None /\ CommittedBy(header[r].xmax, v.csn))
  BY Zenon DEF ShownAt
<1>6. CASE v.own = writer /\ writer # None
  <2>1. ~CommittedBy(writer, v.csn)
    BY Zenon, <1>1, <1>6, StatusFacts DEF CommittedBy
  <2>2. ASSUME NEW r \in Rows \ restamped, ~Overtaken(r, v.csn)
        PROVE  r \in Seen(v) <=> r \in Overlay(committed[v.csn], v.cmd)
    <3>1. r \in Overlay(committed[v.csn], v.cmd) <=>
              /\ r \in committed[v.csn] \/ (r \in live /\ header[r].xmin = writer /\ header[r].cmin <= v.cmd)
              /\ ~(r \in live /\ header[r].xmax = writer /\ header[r].cmax <= v.cmd)
      BY Zenon, <1>1, <1>6, OverlayRows
    <3>2. r \in live /\ header[r].xmin = writer => header[r].xmax \in {None, writer}
      BY Zenon DEF IInv, Authors
    <3> QED
      <4>1. r \in committed[v.csn] <=> r \in ShownAt(v.csn)
        BY Zenon, <1>2, <2>2
      <4> QED
        BY <1>4, <1>5, <1>6, <2>1, <3>1, <3>2, <4>1
  <2> QED
    BY Zenon, <1>6, <2>2 DEF v, Expected
<1>7. CASE ~(v.own = writer /\ writer # None)
  <2>1. ASSUME NEW r \in live PROVE header[r].xmin # v.own /\ (header[r].xmax # None => header[r].xmax # v.own)
    <3>1. CASE v.own = None
      BY Zenon, <1>3, <3>1
    <3>2. CASE v.own # None
      BY Zenon, <1>1, <1>7, <3>2, Marked
    <3> QED
      BY Zenon, <3>1, <3>2
  <2>2. ASSUME NEW r PROVE r \in Seen(v) <=> r \in ShownAt(v.csn)
    BY Zenon, <1>4, <1>5, <2>1
  <2> QED
    BY Zenon, <1>2, <1>7, <2>2 DEF v, Expected
<1> QED
  BY Zenon, <1>6, <1>7 DEF v

(* Snapshot isolation of reads (ViewExact): is_visible shows an open view  *)
(* the rows that the commits up to its sequence left, with its own         *)
(* changes, whatever commits, rolls back or is vacuumed while it is open;  *)
(* but for the versions that were restamped or overtaken.                  *)
THEOREM SnapshotReads == Spec => []ViewExact
<1>1. IInv => ViewExact
  BY Zenon, ViewShows DEF ViewExact, OpenViews
<1> QED
  BY <1>1, Inductive, PTL

(* Index lookups find what scans find (IndexCoversViews): a failed index   *)
(* insert is seen only by the transaction that must roll back, and vacuum  *)
(* leaves no entry of a version it removed.                                *)
THEOREM IndexesComplete == Spec => []IndexCoversViews
<1>1. IInv => IndexCoversViews
  <2> SUFFICES ASSUME IInv PROVE IndexCoversViews
    BY Zenon
  <2>1. ASSUME NEW w \in ViewIds, views[w].open, views[w].own \notin failed, NEW r \in Seen(views[w])
        PROVE  r \in entries
    <3>1. /\ r \in live
          /\ header[r].xmin # views[w].own => CommittedBy(header[r].xmin, views[w].csn)
      BY Zenon, <2>1 DEF Seen, IsVisible, Inserted
    <3>2. CASE r \notin entries
      <4>1. header[r].xmin = writer /\ writer \in failed /\ header[r].xmin \in Txns
        BY Zenon, <3>1, <3>2 DEF IInv, IndexComplete, Authors
      <4>2. ~CommittedBy(writer, views[w].csn)
        BY <4>1, Parts, StatusFacts DEF IInv, CommittedBy, None, Txns
      <4> QED
        BY Zenon, <2>1, <3>1, <4>1, <4>2
    <3> QED
      BY Zenon, <3>2
  <2>2. entries \subseteq live
    BY Zenon DEF IInv, IndexComplete
  <2> QED
    BY Zenon, <2>1, <2>2 DEF IndexCoversViews, OpenViews
<1> QED
  BY <1>1, Inductive, PTL

(* Repeatable Read (RepeatableSnapshot): the pin taken with the first      *)
(* statement is where every later statement of the transaction reads.      *)
THEOREM RepeatableReads == Spec => []RepeatableSnapshot
<1>1. IInv => RepeatableSnapshot
  BY Zenon, ViewFacts DEF RepeatableSnapshot, OpenViews
<1> QED
  BY <1>1, Inductive, PTL

(* vacuum removes nothing that an open view sees: the pin of the view      *)
(* holds the horizon back, and the transaction that expired the version    *)
(* had committed, so it is not the view's own.                             *)
LEMMA DeadUnseen ==
    ASSUME IInv, writer = None, NEW w \in ViewIds, views[w].open, NEW r \in Dead
    PROVE  r \notin Seen(views[w])
<1> DEFINE v == views[w]
<1>1. /\ r \in live /\ header[r].xmin \in Txns /\ status[header[r].xmin].kind = "Committed"
      /\ header[r].xmax # None /\ CommittedBy(header[r].xmax, Horizon)
  <2>1. r \in live /\ IsDead(header[r])
    BY Zenon DEF Dead
  <2>2. header[r].xmin \in Txns /\ None \notin Txns
    BY <2>1 DEF IInv, Authors, None, Txns
  <2>3. status[header[r].xmin].kind = "Committed"
    BY Zenon, <2>1, <2>2 DEF IInv, Authors
  <2> QED
    BY Zenon, <2>1, <2>2, <2>3, StatusFacts DEF IsDead
<1>2. /\ <<<<"view", w>>, v.csn>> \in pins /\ <<"view", w>> \in Holders /\ v.csn \in Seqs
      /\ v.own # None => v.own \in Txns /\ status[v.own] = Active
  BY Zenon, ViewFacts, Parts DEF IInv, Holders
<1>3. Horizon \in Nat /\ Horizon <= v.csn
  BY Zenon, <1>2, HorizonFacts
<1>4. header[r].xmax # v.own
  BY Zenon, <1>1, <1>2, StatusFacts DEF CommittedBy
<1>5. CommittedBy(header[r].xmax, v.csn)
  <2>1. /\ status[header[r].xmax].kind = "Committed" /\ status[header[r].xmax].seq <= Horizon
        /\ status[header[r].xmax].seq \in Nat /\ v.csn \in Nat
    <3>1. header[r].xmax \in Txns
      BY <1>1, Parts DEF IInv, TypeOK, Txns, None
    <3>2. status[header[r].xmax].seq \in Seqs
      BY Zenon, <3>1, Parts DEF IInv
    <3> QED
      BY <1>1, <1>2, <3>2 DEF CommittedBy, Seqs
  <2> QED
    BY <1>3, <2>1 DEF CommittedBy
<1> HIDE DEF v
<1>6. Expired(header[r], v)
  BY Zenon, <1>1, <1>4, <1>5 DEF Expired
<1> QED
  BY Zenon, <1>6 DEF Seen, IsVisible, v

(* Vacuum takes no row from a reader (SeenStays): what an open view sees   *)
(* stays in the heap, with its index entry, until the transaction that     *)
(* inserted it rolls back.                                                 *)
THEOREM ReadersKeepRows == Spec => SeenStays
<1> DEFINE Stays == \A w \in OpenViews : \A r \in Seen(views[w]) :
                        status'[header[r].xmin] # Aborted =>
                            r \in live' /\ (r \in entries => r \in entries')
<1>1. IInv /\ [Next]_vars => Stays
  <2> SUFFICES ASSUME IInv, [Next]_vars PROVE Stays
    BY Zenon
  <2> USE DEF heapVars
  <2>1. ASSUME live \subseteq live', entries \subseteq entries' PROVE Stays
    BY Zenon, <2>1 DEF Seen
  <2>2. ASSUME NEW t \in Txns, Rollback(t) PROVE Stays
    <3>1. CASE writer = t
      <4>1. /\ live' = {r \in live : header[r].xmin # t} /\ entries' = live'
        <5>1. writer # None
          BY <3>1 DEF None, Txns
        <5> QED
          BY Zenon, <2>2, <3>1, <5>1 DEF Rollback, IInv, UndoRestores
      <4>2. status'[t] = Aborted
        BY Zenon, <2>2 DEF Rollback, IInv, TypeOK
      <4> QED
        BY Zenon, <4>1, <4>2 DEF Seen
    <3>2. CASE writer # t
      BY Zenon, <2>1, <2>2, <3>2 DEF Rollback
    <3> QED
      BY Zenon, <3>1, <3>2
  <2>3. ASSUME Vacuum PROVE Stays
    <3>1. writer = None /\ live' = live \ Dead /\ entries' = entries \ Dead
      BY Zenon, <2>3 DEF Vacuum, Swept
    <3>2. ASSUME NEW w \in OpenViews, NEW r \in Seen(views[w]) PROVE r \in live /\ r \notin Dead
      BY Zenon, <3>1, DeadUnseen DEF OpenViews, Seen
    <3> QED
      BY Zenon, <3>1, <3>2
  <2>4. CASE Next
    <3>1. ASSUME NEW l \in {"RC", "RR"}, Begin(l) PROVE Stays
      BY Zenon, <2>1, <3>1 DEF Begin
    <3>2. ASSUME NEW t \in Txns, NEW w \in ViewIds, BeginStatement(t, w) PROVE Stays
      BY Zenon, <2>1, <3>2 DEF BeginStatement
    <3>3. ASSUME NEW w \in ViewIds, ReadView(w) \/ DropView(w) PROVE Stays
      BY Zenon, <2>1, <3>3 DEF ReadView, DropView
    <3>4. ASSUME NEW t \in Txns, NEW r \in Rows, NEW ok \in BOOLEAN, Insert(t, r, ok) PROVE Stays
      BY Zenon, <2>1, <3>4 DEF Insert, Indexed
    <3>5. ASSUME NEW t \in Txns, NEW r \in Rows, NEW new \in Rows, NEW ok \in BOOLEAN,
                 Update(t, r, new, ok)
          PROVE  Stays
      BY Zenon, <2>1, <3>5 DEF Update, Indexed
    <3>6. ASSUME NEW t \in Txns, NEW r \in Rows, Delete(t, r) \/ WriteRefused(t, r) PROVE Stays
      BY Zenon, <2>1, <3>6 DEF Delete, WriteRefused
    <3>7. ASSUME NEW t \in Txns, Commit(t) PROVE Stays
      BY Zenon, <2>1, <3>7 DEF Commit
    <3>8. ASSUME Publish \/ VacuumFails PROVE Stays
      BY Zenon, <2>1, <3>8 DEF Publish, VacuumFails
    <3> HIDE DEF Stays
    <3> QED
      BY Zenon, <2>2, <2>3, <2>4, <3>1, <3>2, <3>3, <3>4, <3>5, <3>6, <3>7, <3>8 DEF Next
  <2>5. CASE UNCHANGED vars
    BY Zenon, <2>1, <2>5 DEF vars
  <2> QED
    BY Zenon, <2>4, <2>5
<1>2. IInv /\ [Next]_vars => [Stays]_vars
  BY Zenon, <1>1
<1> QED
  BY <1>2, Inductive, PTL DEF Spec, SeenStays

=============================================================================
