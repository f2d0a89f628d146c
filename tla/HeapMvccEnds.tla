--------------------------- MODULE HeapMvccEnds ---------------------------
(***************************************************************************)
(* The steps of HeapMvcc that end a transaction keep its inductive         *)
(* invariant (HeapMvccInvariant): a commit, which gives the pending        *)
(* versions their sequence, and a rollback, which undoes them in the heap. *)
(***************************************************************************)
EXTENDS HeapMvccInvariant

(* The end of a transaction gives back its pins, and nobody else's.        *)
LEMMA EndPins ==
    ASSUME IInv, NEW t \in Txns, ~InStatement(t), pins' = Unregistered(t), Forget(t),
           NEW s \in Statuses, status' = [status EXCEPT ![t] = s],
           UNCHANGED <<views, global>>
    PROVE  /\ Pinned' /\ pins' \subseteq pins
           /\ level' \in [Txns -> {"RC", "RR"}] /\ command' \in [Txns -> 0..MaxCommand]
           /\ first' \in [Txns -> Seqs]
<1>1. /\ level' = [level EXCEPT ![t] = "RC"] /\ command' = [command EXCEPT ![t] = 0]
      /\ first' = [first EXCEPT ![t] = 0]
  BY Zenon DEF Forget
<1>2. /\ level' \in [Txns -> {"RC", "RR"}] /\ command' \in [Txns -> 0..MaxCommand]
      /\ first' \in [Txns -> Seqs]
  BY <1>1, MvccAssumption DEF IInv, TypeOK, Seqs
<1>3. \A p : p \in pins' <=> p \in pins /\ p[1] \notin {<<"rr", t>>, <<"db", t>>}
  BY Zenon DEF Unregistered
<1>4. \A u \in Txns : u # t => status'[u] = status[u] /\ level'[u] = level[u] /\ first'[u] = first[u]
  BY Zenon, <1>1 DEF IInv, TypeOK
<1>5. ASSUME NEW x \in ViewIds, views'[x].open
      PROVE  /\ <<<<"view", x>>, views'[x].csn>> \in pins' /\ 1 <= views'[x].csn
             /\ views'[x].own # None =>
                  /\ status'[views'[x].own] = Active
                  /\ level'[views'[x].own] = "RR" => views'[x].csn = first'[views'[x].own]
  <2>1. views[x].open /\ views'[x] = views[x] /\ views[x].own # t
    BY Zenon, <1>5 DEF InStatement, OpenViews
  <2>2. 1 <= views[x].csn
    BY Zenon, <2>1 DEF IInv, Pinned
  <2> DEFINE p == <<<<"view", x>>, views[x].csn>>
  <2>3. p \in pins /\ p[1] = <<"view", x>>
    BY Zenon, <2>1, ViewFacts
  <2>4. <<"view", x>> \notin {<<"rr", t>>, <<"db", t>>}
    BY Zenon
  <2>5. p \in pins'
    BY Zenon, <1>3, <2>3, <2>4
  <2> QED
    BY <1>4, <2>1, <2>2, <2>5, ViewFacts
<1>6. \A u \in Txns : first'[u] # 0 => level'[u] = "RR" /\ status'[u] = Active
  <2>1. first'[t] = 0
    BY Zenon, <1>1 DEF IInv, TypeOK
  <2> QED
    BY Zenon, <1>4, <2>1 DEF IInv, Pinned
<1>7. ASSUME NEW u \in Txns, NEW c \in Seqs
      PROVE  <<<<PinName', u>>, c>> \in pins' <=> first'[u] # 0 /\ first'[u] = c
  <2> DEFINE p == <<<<PinName, u>>, c>>
  <2>1. PinName' = PinName /\ PinName \in {"rr", "db"}
    BY Zenon DEF PinName
  <2>2. p[1] = <<PinName, u>>
    BY Zenon
  <2>3. p \in pins <=> first[u] # 0 /\ first[u] = c
    BY Zenon DEF IInv, Pinned
  <2>4. CASE u = t
    <3>1. first'[u] = 0
      BY Zenon, <1>1, <2>4 DEF IInv, TypeOK
    <3> QED
      BY Zenon, <1>3, <2>1, <2>2, <2>4, <3>1
  <2>5. CASE u # t
    <3>1. <<PinName, u>> \notin {<<"rr", t>>, <<"db", t>>}
      BY Zenon, <2>5
    <3>2. p \in pins' <=> p \in pins
      BY Zenon, <1>3, <2>2, <3>1
    <3> QED
      BY Zenon, <1>4, <2>1, <2>3, <2>5, <3>2
  <2> QED
    BY Zenon, <2>4, <2>5
<1> QED
  BY Zenon, <1>2, <1>3, <1>5, <1>6, <1>7 DEF Pinned

(* Fewer pins, and a longer history with the newest sequence exact.        *)
LEMMA HistoryExtends ==
    ASSUME IInv, maxSeq < MaxSeq, maxSeq' = maxSeq + 1, NEW rows \in SUBSET Rows,
           committed' = Extend(rows), UNCHANGED <<global, published, restamped>>,
           pins' \subseteq pins, \A c \in Seqs : c <= maxSeq /\ Protected(c) => Same(c),
           \A c \in Seqs : c = maxSeq + 1 =>
              \A r \in Rows \ restamped : r \in ShownAt(c)' <=> r \in rows
    PROVE  /\ Exact' /\ maxSeq' \in Seqs /\ published' \in 0..maxSeq'
           /\ committed' \in [0..maxSeq' -> SUBSET Rows]
<1>1. maxSeq \in Nat /\ maxSeq + 1 \in Seqs /\ published \in 0..maxSeq
  BY Parts, MvccAssumption DEF IInv, Seqs
<1>2. /\ \A c \in 0..maxSeq : committed'[c] = committed[c]
      /\ committed'[maxSeq + 1] = rows
      /\ committed' \in [0..(maxSeq + 1) -> SUBSET Rows]
  BY <1>1 DEF Extend, IInv, TypeOK
<1>3. ASSUME NEW c \in Seqs, Protected(c)', NEW r \in Rows \ restamped, ~Overtaken(r, c)'
      PROVE  r \in committed'[c] <=> r \in ShownAt(c)'
  <2>1. CASE c = maxSeq + 1
    BY Zenon, <1>2, <2>1
  <2>2. CASE c # maxSeq + 1
    <3>1. Protected(c)
      BY Zenon, <1>3, <2>2 DEF Protected
    <3>2. c \in 0..maxSeq
      <4>1. ASSUME NEW h \in Holders, <<h, c>> \in pins PROVE c <= maxSeq
        <5> DEFINE p == <<h, c>>
        <5>1. p[2] <= maxSeq
          BY Zenon, <4>1 DEF IInv, Counters
        <5> QED
          BY Zenon, <5>1
      <4>2. c \in Nat
        BY DEF Seqs
      <4>3. maxSeq <= maxSeq /\ published <= maxSeq
        BY <1>1
      <4>4. c <= maxSeq
        BY Zenon, <3>1, <4>1, <4>3 DEF Protected
      <4> QED
        BY <1>1, <4>2, <4>4
    <3> QED
      <4>1. committed'[c] = committed[c] /\ c <= maxSeq
        BY <1>1, <1>2, <3>2
      <4>2. ~Overtaken(r, c) /\ (r \in ShownAt(c)' <=> r \in ShownAt(c))
        BY Zenon, <1>3, <3>1, <4>1 DEF Same
      <4>3. r \in committed[c] <=> r \in ShownAt(c)
        BY Zenon, <3>1, <4>2 DEF IInv, Exact
      <4> QED
        BY Zenon, <4>1, <4>2, <4>3
  <2> QED
    BY Zenon, <2>1, <2>2
<1>4. Exact'
  BY Zenon, <1>3 DEF Exact
<1> QED
  BY <1>1, <1>2, <1>4

(* At the newest sequence nothing is overtaken.                            *)
LEMMA NewestExact ==
    ASSUME IInv, NEW r \in Rows \ restamped
    PROVE  r \in committed[maxSeq] <=> r \in ShownAt(maxSeq)
<1>1. maxSeq \in Seqs /\ Protected(maxSeq)
  BY Zenon DEF IInv, TypeOK, Protected
<1>2. ~Overtaken(r, maxSeq)
  BY Zenon DEF IInv, Overtaken, CommittedBy, Removed, Counters
<1> QED
  BY Zenon, <1>1, <1>2 DEF IInv, Exact

(* The overlay of the pending changes, in terms of the marks in the heap.  *)
LEMMA OverlayRows ==
    ASSUME IInv, writer # None, NEW S, NEW k \in 0..MaxCommand, NEW r
    PROVE  r \in Overlay(S, k) <=>
              /\ r \in S \/ (r \in live /\ header[r].xmin = writer /\ header[r].cmin <= k)
              /\ ~(r \in live /\ header[r].xmax = writer /\ header[r].cmax <= k)
<1>1. live \subseteq Rows /\ pend.ins \subseteq Rows \X (0..MaxCommand)
      /\ pend.del \subseteq Rows \X (0..MaxCommand)
  BY Zenon DEF IInv, TypeOK
<1>2. r \in {x[1] : x \in {y \in pend.ins : y[2] <= k}} <=>
        r \in live /\ header[r].xmin = writer /\ header[r].cmin <= k
  <2>1. ASSUME NEW y \in pend.ins, y[2] <= k, r = y[1]
        PROVE  r \in live /\ header[r].xmin = writer /\ header[r].cmin <= k
    <3>1. y = <<r, y[2]>> /\ r \in Rows /\ y[2] \in 0..MaxCommand
      BY <1>1, <2>1
    <3> QED
      BY <2>1, <3>1 DEF IInv, PendingMarked
  <2>2. ASSUME r \in live, header[r].xmin = writer, header[r].cmin <= k
        PROVE  r \in {x[1] : x \in {y \in pend.ins : y[2] <= k}}
    <3> DEFINE y == <<r, header[r].cmin>>
    <3>1. y \in pend.ins
      BY Zenon, <1>1, <2>2, Parts DEF IInv, PendingMarked
    <3>2. y[1] = r /\ y[2] <= k
      BY Zenon, <2>2
    <3> QED
      BY Zenon, <3>1, <3>2
  <2> QED
    BY Zenon, <2>1, <2>2
<1>3. r \in {x[1] : x \in {y \in pend.del : y[2] <= k}} <=>
        r \in live /\ header[r].xmax = writer /\ header[r].cmax <= k
  <2>1. ASSUME NEW y \in pend.del, y[2] <= k, r = y[1]
        PROVE  r \in live /\ header[r].xmax = writer /\ header[r].cmax <= k
    <3>1. y = <<r, y[2]>> /\ r \in Rows /\ y[2] \in 0..MaxCommand
      BY <1>1, <2>1
    <3> QED
      BY <2>1, <3>1 DEF IInv, PendingMarked
  <2>2. ASSUME r \in live, header[r].xmax = writer, header[r].cmax <= k
        PROVE  r \in {x[1] : x \in {y \in pend.del : y[2] <= k}}
    <3> DEFINE y == <<r, header[r].cmax>>
    <3>1. y \in pend.del
      BY Zenon, <1>1, <2>2, Parts DEF IInv, PendingMarked
    <3>2. y[1] = r /\ y[2] <= k
      BY Zenon, <2>2
    <3> QED
      BY Zenon, <3>1, <3>2
  <2> QED
    BY Zenon, <2>1, <2>2
<1> QED
  BY Zenon, <1>2, <1>3 DEF Overlay

(* The commit of the writer: its marks become committed, and nobody who    *)
(* reads at an earlier sequence notices.                                   *)
LEMMA CommitShows ==
    ASSUME IInv, NEW t \in Txns, status[t] = Active, maxSeq < MaxSeq,
           status' = [status EXCEPT ![t] = Committed(maxSeq + 1)],
           UNCHANGED <<header, live, global, restamped>>
    PROVE  /\ \A c \in Seqs : c <= maxSeq => Same(c)
           /\ \A c \in Seqs : c = maxSeq + 1 => \A r \in Rows \ restamped :
                /\ writer # t => (r \in ShownAt(c)' <=> r \in committed[maxSeq])
                /\ writer = t => (r \in ShownAt(c)' <=> r \in Overlay(committed[maxSeq], MaxCommand))
<1>1. /\ \A u \in Txns : u # t => status'[u] = status[u]
      /\ status'[t].kind = "Committed" /\ status'[t].seq = maxSeq + 1
      /\ status[t].kind # "Committed" /\ maxSeq \in Nat /\ maxSeq \in Seqs
      /\ Seqs \subseteq Nat /\ t # None /\ maxSeq + 1 \in Seqs
  BY StatusFacts, Parts, MvccAssumption DEF IInv, TypeOK, Seqs, Txns, None
<1>2. \A r \in live : header[r].xmin \in Txns /\ (header[r].xmax # None => header[r].xmax \in Txns)
  BY Parts DEF IInv, TypeOK, Authors, Txns, None
<1>3. ASSUME NEW c \in Seqs, c <= maxSeq PROVE Same(c)
  <2>1. c \in Nat /\ ~(maxSeq + 1 <= c)
    BY <1>1, <1>3
  <2>2. \A u \in Txns : CommittedBy(u, c)' <=> CommittedBy(u, c)
    BY Zenon, <1>1, <2>1 DEF CommittedBy
  <2>3. ShownAt(c)' = ShownAt(c)
    BY Zenon, <1>2, <2>2 DEF ShownAt
  <2>4. \A r \in Rows \ live : header[r].xmax # None => header[r].xmax \in Txns
    BY Zenon DEF IInv, Removed
  <2>5. \A r \in Rows : Overtaken(r, c)' <=> Overtaken(r, c)
    BY Zenon, <2>2, <2>4 DEF Overtaken
  <2> QED
    BY Zenon, <2>3, <2>5 DEF Same
<1>4. \A r \in Rows \ restamped : r \in committed[maxSeq] <=> r \in ShownAt(maxSeq)
  BY Zenon, NewestExact
<1>5. ASSUME NEW c \in Seqs, c = maxSeq + 1
      PROVE  /\ \A u \in Txns : u # t => (CommittedBy(u, c)' <=> CommittedBy(u, maxSeq))
             /\ CommittedBy(t, c)' /\ ~CommittedBy(t, maxSeq)
  <2>1. c \in Nat /\ maxSeq + 1 <= c
    BY <1>1, <1>5
  <2>2. ASSUME NEW u \in Txns, u # t PROVE CommittedBy(u, c)' <=> CommittedBy(u, maxSeq)
    <3>1. status[u].seq \in Nat
      BY Parts DEF IInv, Seqs
    <3>2. status[u].kind = "Committed" => status[u].seq <= maxSeq
      BY Zenon DEF IInv, Counters
    <3> QED
      BY <1>1, <1>5, <2>2, <3>1, <3>2 DEF CommittedBy
  <2> QED
    BY Zenon, <1>1, <2>1, <2>2 DEF CommittedBy
<1>6. ASSUME writer # t, NEW c \in Seqs, c = maxSeq + 1, NEW r \in Rows \ restamped
      PROVE  r \in ShownAt(c)' <=> r \in committed[maxSeq]
  <2>1. \A x \in live : header[x].xmin # t /\ header[x].xmax # t
    BY Zenon, <1>1, <1>6 DEF IInv, Authors
  <2>2. ShownAt(c)' = ShownAt(maxSeq)
    BY Zenon, <1>2, <1>5, <1>6, <2>1 DEF ShownAt
  <2> QED
    BY Zenon, <1>4, <1>6, <2>2
<1>7. ASSUME writer = t, NEW c \in Seqs, c = maxSeq + 1, NEW r \in Rows \ restamped
      PROVE  r \in ShownAt(c)' <=> r \in Overlay(committed[maxSeq], MaxCommand)
  <2>1. \A x \in live : /\ header[x].cmin <= MaxCommand /\ header[x].cmax <= MaxCommand
                        /\ header[x].xmin = t => header[x].xmax \in {None, t}
    BY SMTT(30), <1>7, Parts, MvccAssumption DEF IInv, TypeOK, Authors
  <2>2. r \in Overlay(committed[maxSeq], MaxCommand) <=>
          /\ r \in ShownAt(maxSeq) \/ (r \in live /\ header[r].xmin = t)
          /\ ~(r \in live /\ header[r].xmax = t)
    BY <1>1, <1>4, <1>7, <2>1, OverlayRows, MvccAssumption
  <2>3. r \in ShownAt(c)' <=>
          /\ r \in live /\ CommittedBy(header[r].xmin, c)'
          /\ ~(header[r].xmax # None /\ CommittedBy(header[r].xmax, c)')
    BY Zenon DEF ShownAt
  <2>4. r \in ShownAt(maxSeq) <=>
          /\ r \in live /\ CommittedBy(header[r].xmin, maxSeq)
          /\ ~(header[r].xmax # None /\ CommittedBy(header[r].xmax, maxSeq))
    BY Zenon DEF ShownAt
  <2> QED
    BY Zenon, <1>1, <1>2, <1>5, <1>7, <2>1, <2>2, <2>3, <2>4
<1> QED
  BY Zenon, <1>3, <1>6, <1>7

(* finish_commit                                                           *)
LEMMA CommitKeeps == ASSUME IInv, NEW t \in Txns, Commit(t) PROVE IInv'
<1>1. /\ status[t] = Active /\ t \notin failed /\ ~InStatement(t) /\ maxSeq < MaxSeq
      /\ status' = [status EXCEPT ![t] = Committed(maxSeq + 1)] /\ maxSeq' = maxSeq + 1
      /\ pins' = Unregistered(t) /\ Forget(t)
      /\ writer = t => /\ writer' = None /\ undo' = NoUndo /\ applied' = global /\ pend' = NoPend
                       /\ committed' = Extend(Overlay(committed[maxSeq], MaxCommand))
      /\ writer # t => /\ committed' = Extend(committed[maxSeq])
                       /\ UNCHANGED <<leaseVars, applied, pend>>
      /\ UNCHANGED <<heapVars, failed, nextTxn, views, global, published, restamped>>
  BY Zenon DEF Commit, Running
<1> USE DEF heapVars, leaseVars
<1>2. /\ maxSeq \in Nat /\ maxSeq + 1 \in Seqs /\ t # None /\ Committed(maxSeq + 1) \in Statuses
      /\ Committed(maxSeq + 1).kind = "Committed" /\ Committed(maxSeq + 1).seq = maxSeq + 1
      /\ status[t].kind # "Committed"
  BY <1>1, StatusFacts, Parts, MvccAssumption DEF IInv, Seqs, Txns, None
<1>3. status' \in [Txns -> Statuses] /\ \A u \in Txns : u # t => status'[u] = status[u]
  BY Zenon, <1>1, <1>2 DEF IInv, TypeOK
<1>4. status'[t] = Committed(maxSeq + 1)
  BY Zenon, <1>1 DEF IInv, TypeOK
<1>5. \A r \in live : header[r].xmin \in Txns /\ (header[r].xmax # None => header[r].xmax \in Txns)
  BY Parts DEF IInv, TypeOK, Authors, Txns, None
<1>6. /\ Pinned' /\ pins' \subseteq pins
      /\ level' \in [Txns -> {"RC", "RR"}] /\ command' \in [Txns -> 0..MaxCommand]
      /\ first' \in [Txns -> Seqs]
  BY Zenon, <1>1, <1>2, EndPins
<1>7. Counters'
  <2>1. \A u \in Txns : status'[u].kind = "Committed" => status'[u].seq <= maxSeq + 1
    <3>1. ASSUME NEW u \in Txns, u # t, status[u].kind = "Committed" PROVE status[u].seq <= maxSeq + 1
      <4>1. status[u].seq \in Nat /\ status[u].seq <= maxSeq
        BY <3>1, Parts DEF IInv, Counters, Seqs
      <4> QED
        BY <1>2, <4>1
    <3> QED
      BY <1>2, <1>3, <1>4, <3>1
  <2>2. \A u \in Txns : u >= nextTxn => status'[u] = Unknown
    <3>1. ~(t >= nextTxn)
      BY Zenon, <1>1, StatusFacts DEF IInv, Counters
    <3> QED
      BY Zenon, <1>3, <3>1 DEF IInv, Counters
  <2>3. \A p \in pins' : p[2] <= maxSeq + 1
    <3>1. ASSUME NEW p \in pins' PROVE p[2] <= maxSeq + 1
      <4>1. p \in Holders \X Seqs /\ p[2] <= maxSeq
        BY Zenon, <1>6 DEF IInv, Counters, TypeOK
      <4>2. p[2] \in Nat
        BY <4>1 DEF Seqs
      <4> QED
        BY <1>2, <4>1, <4>2
    <3> QED
      BY Zenon, <3>1
  <2> QED
    BY <1>1, <1>2, <2>1, <2>2, <2>3 DEF IInv, Counters
<1>8. Authors'
  <2>1. ASSUME NEW r \in live
        PROVE  /\ header[r].xmin = writer' \/ status'[header[r].xmin].kind = "Committed"
               /\ header[r].xmax \in {None, writer'} \/ status'[header[r].xmax].kind = "Committed"
               /\ header[r].xmin = writer' => header[r].xmax \in {None, writer'}
    <3>1. /\ header[r].xmin = writer \/ status[header[r].xmin].kind = "Committed"
          /\ header[r].xmax \in {None, writer} \/ status[header[r].xmax].kind = "Committed"
          /\ header[r].xmin = writer => header[r].xmax \in {None, writer}
          /\ header[r].xmin # None
      BY DEF IInv, Authors, Txns, None
    <3>2. CASE writer = t
      BY Zenon, <1>1, <1>2, <1>3, <1>4, <1>5, <3>1, <3>2
    <3>3. CASE writer # t
      BY Zenon, <1>1, <1>2, <1>3, <1>4, <1>5, <3>1, <3>3
    <3> QED
      BY Zenon, <3>2, <3>3
  <2> QED
    BY Zenon, <1>1, <1>5, <2>1 DEF Authors
<1>9. PendingMarked' /\ UndoRestores'
  <2>1. CASE writer = t
    BY Zenon, <1>1, <2>1 DEF PendingMarked, UndoRestores
  <2>2. CASE writer # t
    <3>1. \A u \in Txns : status[u].kind = "Committed" => status'[u] = status[u]
      BY Zenon, <1>2, <1>3
    <3>2. UndoRestores'
      BY Zenon, <1>1, <2>2, <3>1, UndoKept
    <3> QED
      BY <1>1, <2>2, <3>2 DEF IInv, PendingMarked
  <2> QED
    BY Zenon, <2>1, <2>2
<1>10. IndexComplete'
  <2>1. CASE writer = t
    BY Zenon, <1>1, <2>1, Indexes DEF IndexComplete
  <2>2. CASE writer # t
    BY Zenon, <1>1, <2>2 DEF IInv, IndexComplete
  <2> QED
    BY Zenon, <2>1, <2>2
<1>11. /\ Exact' /\ maxSeq' \in Seqs /\ published' \in 0..maxSeq'
       /\ committed' \in [0..maxSeq' -> SUBSET Rows]
  <2>1. /\ \A c \in Seqs : c <= maxSeq => Same(c)
        /\ \A c \in Seqs : c = maxSeq + 1 => \A r \in Rows \ restamped :
             /\ writer # t => (r \in ShownAt(c)' <=> r \in committed[maxSeq])
             /\ writer = t => (r \in ShownAt(c)' <=> r \in Overlay(committed[maxSeq], MaxCommand))
    BY Zenon, <1>1, CommitShows
  <2>2. committed[maxSeq] \in SUBSET Rows
    BY <1>2 DEF IInv, TypeOK
  <2>3. CASE writer = t
    <3> DEFINE rows == Overlay(committed[maxSeq], MaxCommand)
    <3>1. rows \in SUBSET Rows
      <4>1. live \subseteq Rows /\ writer # None /\ MaxCommand \in 0..MaxCommand
        BY <1>1, <2>3, MvccAssumption DEF IInv, TypeOK, None, Txns
      <4>2. SUFFICES ASSUME NEW r, r \in rows PROVE r \in Rows
        BY Zenon
      <4>3. r \in committed[maxSeq] \/ r \in live
        BY Zenon, <1>1, <4>1, <4>2, OverlayRows
      <4> QED BY Zenon, <2>2, <4>1, <4>3
    <3>2. /\ committed' = Extend(rows)
          /\ \A c \in Seqs : c = maxSeq + 1 =>
               \A r \in Rows \ restamped : r \in ShownAt(c)' <=> r \in rows
      BY Zenon, <1>1, <2>1, <2>3
    <3> HIDE DEF rows
    <3> QED
      BY Zenon, <1>1, <1>6, <2>1, <3>1, <3>2, HistoryExtends
  <2>4. CASE writer # t
    BY Zenon, <1>1, <1>6, <2>1, <2>2, <2>4, HistoryExtends
  <2> QED
    BY Zenon, <2>3, <2>4
<1>12. Removed'
  BY Zenon, <1>1, <1>2, <1>3 DEF IInv, Removed
<1>13. TypeOK'
  <2>1. /\ undo' \in [header : [Rows -> Headers], live : SUBSET Rows, entries : SUBSET Rows]
        /\ pend' \in [ins : SUBSET (Rows \X (0..MaxCommand)), del : SUBSET (Rows \X (0..MaxCommand))]
        /\ applied' \in BOOLEAN
    <3>1. /\ NoUndo \in [header : [Rows -> Headers], live : SUBSET Rows, entries : SUBSET Rows]
          /\ NoPend \in [ins : SUBSET (Rows \X (0..MaxCommand)), del : SUBSET (Rows \X (0..MaxCommand))]
      BY Zenon, HeaderFacts DEF NoUndo, NoPend
    <3> QED
      BY Zenon, <1>1, <3>1 DEF IInv, TypeOK
  <2>2. writer' \in {None} \union {u \in Txns : status'[u] = Active}
    BY Zenon, <1>1, <1>3 DEF IInv, TypeOK
  <2>3. pins' \subseteq Holders \X Seqs
    BY Zenon, <1>6 DEF IInv, TypeOK
  <2> QED
    BY Zenon, <1>1, <1>3, <1>6, <1>11, <2>1, <2>2, <2>3 DEF IInv, TypeOK
<1> QED
  BY Zenon, <1>6, <1>7, <1>8, <1>9, <1>10, <1>11, <1>12, <1>13 DEF IInv

(* rollback_internal: undo puts back the heap without the writer's marks.  *)
LEMMA RollbackKeeps == ASSUME IInv, NEW t \in Txns, Rollback(t) PROVE IInv'
<1>1. /\ status[t] = Active /\ ~InStatement(t) /\ status' = [status EXCEPT ![t] = Aborted]
      /\ failed' = failed \ {t} /\ pins' = Unregistered(t) /\ Forget(t)
      /\ writer = t => /\ writer' = None /\ undo' = NoUndo /\ pend' = NoPend
                       /\ header' = undo.header /\ live' = undo.live /\ entries' = undo.entries
      /\ writer # t => UNCHANGED <<leaseVars, pend, heapVars>>
      /\ UNCHANGED <<nextTxn, views, maxSeq, dbVars, committed, restamped>>
  BY Zenon DEF Rollback
<1> USE DEF heapVars, leaseVars, dbVars
<1>2. /\ t # None /\ Aborted \in Statuses /\ Aborted.kind # "Committed" /\ Aborted # Active
      /\ status[t].kind # "Committed" /\ ~(t >= nextTxn)
  BY <1>1, StatusFacts DEF IInv, Counters, Txns, None
<1>3. /\ status' \in [Txns -> Statuses] /\ status'[t] = Aborted
      /\ \A u \in Txns : u # t => status'[u] = status[u]
  BY Zenon, <1>1, <1>2 DEF IInv, TypeOK
<1>4. /\ Pinned' /\ pins' \subseteq pins
      /\ level' \in [Txns -> {"RC", "RR"}] /\ command' \in [Txns -> 0..MaxCommand]
      /\ first' \in [Txns -> Seqs]
  BY Zenon, <1>1, <1>2, EndPins
<1>5. Counters'
  BY Zenon, <1>1, <1>2, <1>3, <1>4 DEF IInv, Counters
<1>6. \A r \in live : header[r].xmin \in Txns /\ (header[r].xmax # None => header[r].xmax \in Txns)
  BY Parts DEF IInv, TypeOK, Authors, Txns, None
<1>7. ASSUME writer = t
      PROVE  /\ live' = {r \in live : header[r].xmin # t} /\ entries' = live'
             /\ \A r \in live' : /\ header'[r].xmin = header[r].xmin
                                 /\ status[header[r].xmin].kind = "Committed"
                                 /\ header'[r].xmax = None \/ status[header'[r].xmax].kind = "Committed"
             /\ \A r \in live' \ restamped :
                  header'[r].xmax = IF header[r].xmax = t THEN None ELSE header[r].xmax
             /\ \A r \in Rows \ live' : header'[r].xmax = IF r \in live THEN None ELSE header[r].xmax
  <2>1. /\ live' = {r \in live : header[r].xmin # t} /\ entries' = live'
        /\ \A r \in live' : /\ header'[r].xmin = header[r].xmin
                            /\ header[r].xmax # t => header'[r].xmax = header[r].xmax
                            /\ header[r].xmax = t /\ header'[r].xmax # None =>
                                  r \in restamped /\ status[header'[r].xmax].kind = "Committed"
        /\ \A r \in Rows \ live' : header'[r].xmax = IF r \in live THEN None ELSE header[r].xmax
    BY Zenon, <1>1, <1>2, <1>7 DEF IInv, UndoRestores
  <2>2. \A r \in live' : /\ status[header[r].xmin].kind = "Committed"
                         /\ header[r].xmax \in {None, t} \/ status[header[r].xmax].kind = "Committed"
    BY Zenon, <1>7, <2>1 DEF IInv, Authors
  <2>3. ASSUME NEW r \in live'
        PROVE  /\ header'[r].xmax = None \/ status[header'[r].xmax].kind = "Committed"
               /\ r \notin restamped =>
                    header'[r].xmax = IF header[r].xmax = t THEN None ELSE header[r].xmax
    <3>1. CASE header[r].xmax = t
      BY Zenon, <2>1, <3>1
    <3>2. CASE header[r].xmax # t
      BY Zenon, <2>1, <2>2, <3>2
    <3> QED
      BY Zenon, <3>1, <3>2
  <2> QED
    BY Zenon, <2>1, <2>2, <2>3
<1>8. ASSUME writer # t
      PROVE  /\ \A r \in live : header[r].xmin # t /\ header[r].xmax # t
             /\ \A c \in Seqs : Same(c)
             /\ Removed'
             /\ \A r \in live : /\ status'[header[r].xmin] = status[header[r].xmin]
                                /\ header[r].xmax # None =>
                                      status'[header[r].xmax] = status[header[r].xmax]
  BY Zenon, <1>1, <1>2, <1>8, UnseenStatus
<1>9. Authors' /\ PendingMarked' /\ UndoRestores' /\ IndexComplete'
  <2>1. CASE writer = t
    <3>1. Authors'
      <4>1. ASSUME NEW r \in live'
            PROVE  /\ header'[r].xmin \in Txns /\ header'[r].xmin # writer'
                   /\ status'[header'[r].xmin].kind = "Committed"
                   /\ header'[r].xmax = None \/ status'[header'[r].xmax].kind = "Committed"
        <5>1. /\ r \in live /\ header[r].xmin # t /\ header'[r].xmin = header[r].xmin
              /\ status[header[r].xmin].kind = "Committed"
              /\ header'[r].xmax = None \/ status[header'[r].xmax].kind = "Committed"
          BY Zenon, <1>7, <2>1, <4>1
        <5>2. header[r].xmin \in Txns /\ (header'[r].xmax # None => header'[r].xmax \in Txns)
          <6>1. r \in Rows /\ header'[r] \in Headers
            BY Zenon, <1>1, <2>1, <5>1 DEF IInv, TypeOK
          <6> QED
            BY <1>6, <5>1, <6>1, MvccAssumption DEF Headers, Txns, None
        <5>3. writer' = None /\ None \notin Txns
          BY <1>1, <2>1 DEF None, Txns
        <5>4. \A u \in Txns : status[u].kind = "Committed" => status'[u] = status[u]
          BY Zenon, <1>2, <1>3
        <5> QED
          BY Zenon, <5>1, <5>2, <5>3, <5>4
      <4> QED
        BY Zenon, <4>1 DEF Authors
    <3> QED
      BY Zenon, <1>1, <1>7, <2>1, <3>1 DEF PendingMarked, UndoRestores, IndexComplete
  <2>2. CASE writer # t
    <3>1. Authors'
      BY <1>1, <1>8, <2>2 DEF IInv, Authors
    <3>2. IndexComplete'
      <4>1. \A r \in live \ entries : header[r].xmin = writer /\ writer \in failed
        BY Zenon DEF IInv, IndexComplete
      <4> QED
        BY Zenon, <1>1, <2>2, <4>1 DEF IInv, IndexComplete
    <3>3. \A u \in Txns : status[u].kind = "Committed" => status'[u] = status[u]
      BY Zenon, <1>2, <1>3
    <3>4. UndoRestores'
      BY Zenon, <1>1, <2>2, <3>3, UndoKept
    <3> QED
      BY <1>1, <2>2, <3>1, <3>2, <3>4 DEF IInv, PendingMarked
  <2> QED
    BY Zenon, <2>1, <2>2
<1>10. \A c \in Seqs : Same(c)
  <2>1. CASE writer = t
    <3>1. ASSUME NEW c \in Seqs, NEW r \in Rows \ restamped PROVE r \in ShownAt(c)' <=> r \in ShownAt(c)
      <4>1. \A u \in Txns : status'[u].kind = "Committed" <=> u # t /\ status[u].kind = "Committed"
        BY Zenon, <1>2, <1>3
      <4>2. r \in ShownAt(c) <=>
              /\ r \in live
              /\ status[header[r].xmin].kind = "Committed" /\ status[header[r].xmin].seq <= c
              /\ ~(/\ header[r].xmax # None
                   /\ status[header[r].xmax].kind = "Committed" /\ status[header[r].xmax].seq <= c)
        BY Zenon DEF ShownAt, CommittedBy
      <4>3. r \in ShownAt(c)' <=>
              /\ r \in live'
              /\ status'[header'[r].xmin].kind = "Committed" /\ status'[header'[r].xmin].seq <= c
              /\ ~(/\ header'[r].xmax # None
                   /\ status'[header'[r].xmax].kind = "Committed" /\ status'[header'[r].xmax].seq <= c)
        BY Zenon DEF ShownAt, CommittedBy
      <4>4. CASE r \notin live
        BY Zenon, <1>7, <2>1, <4>2, <4>3, <4>4
      <4>5. CASE r \in live /\ header[r].xmin = t
        BY Zenon, <1>2, <1>7, <2>1, <4>2, <4>3, <4>5
      <4>6. CASE r \in live /\ header[r].xmin # t
        <5>1. /\ r \in live' /\ header'[r].xmin = header[r].xmin
              /\ header'[r].xmax = IF header[r].xmax = t THEN None ELSE header[r].xmax
              /\ header[r].xmin \in Txns /\ (header[r].xmax # None => header[r].xmax \in Txns)
          BY Zenon, <1>6, <1>7, <2>1, <4>6
        <5>2. status'[header'[r].xmin] = status[header[r].xmin]
          BY Zenon, <1>3, <4>6, <5>1
        <5>3. CASE header[r].xmax = t
          BY Zenon, <1>2, <4>2, <4>3, <4>6, <5>1, <5>2, <5>3
        <5>4. CASE header[r].xmax # t
          <6>1. header[r].xmax # None => status'[header'[r].xmax] = status[header[r].xmax]
            BY Zenon, <1>3, <5>1, <5>4
          <6> QED
            BY Zenon, <4>2, <4>3, <4>6, <5>1, <5>2, <5>4, <6>1
        <5> QED
          BY Zenon, <5>3, <5>4
      <4> QED
        BY Zenon, <4>4, <4>5, <4>6
    <3>2. ASSUME NEW c \in Seqs, NEW r \in Rows \ restamped, Overtaken(r, c) PROVE Overtaken(r, c)'
      <4>1. /\ global /\ r \notin live /\ header[r].xmax # None
            /\ ~CommittedBy(header[r].xmax, c)
        BY Zenon, <3>2 DEF Overtaken
      <4>2. r \notin live' /\ header'[r].xmax = header[r].xmax
        BY Zenon, <1>7, <2>1, <4>1
      <4>3. header[r].xmax \in Txns /\ status[header[r].xmax].kind = "Committed"
        BY Zenon, <4>1 DEF IInv, Removed
      <4>4. status'[header[r].xmax] = status[header[r].xmax]
        BY Zenon, <1>2, <1>3, <4>3
      <4> QED
        BY Zenon, <1>1, <4>1, <4>2, <4>4 DEF Overtaken, CommittedBy
    <3> QED
      BY Zenon, <1>1, <3>1, <3>2 DEF Same
  <2>2. CASE writer # t
    BY Zenon, <1>8, <2>2
  <2> QED
    BY Zenon, <2>1, <2>2
<1>11. Exact'
  BY Zenon, <1>1, <1>4, <1>10, ExactKept DEF Protected
<1>12. Removed'
  <2>1. CASE writer = t
    <3>1. ASSUME NEW r \in Rows \ live', header'[r].xmax # None
          PROVE  header'[r].xmax \in Txns /\ status'[header'[r].xmax].kind = "Committed"
      <4>1. r \notin live /\ header'[r].xmax = header[r].xmax
        BY Zenon, <1>7, <2>1, <3>1
      <4>2. header[r].xmax \in Txns /\ status[header[r].xmax].kind = "Committed"
        BY Zenon, <3>1, <4>1 DEF IInv, Removed
      <4> QED
        BY Zenon, <1>2, <1>3, <4>1, <4>2
    <3> QED
      BY Zenon, <3>1 DEF Removed
  <2>2. CASE writer # t
    BY Zenon, <1>8, <2>2
  <2> QED
    BY Zenon, <2>1, <2>2
<1>13. TypeOK'
  <2>1. /\ NoUndo \in [header : [Rows -> Headers], live : SUBSET Rows, entries : SUBSET Rows]
        /\ NoPend \in [ins : SUBSET (Rows \X (0..MaxCommand)), del : SUBSET (Rows \X (0..MaxCommand))]
    BY ZenonT(30), HeaderFacts DEF NoUndo, NoPend
  <2>2. /\ undo' \in [header : [Rows -> Headers], live : SUBSET Rows, entries : SUBSET Rows]
        /\ pend' \in [ins : SUBSET (Rows \X (0..MaxCommand)), del : SUBSET (Rows \X (0..MaxCommand))]
    BY Zenon, <1>1, <2>1 DEF IInv, TypeOK
  <2>3. header' \in [Rows -> Headers] /\ live' \subseteq Rows /\ entries' \subseteq Rows
    BY Zenon, <1>1 DEF IInv, TypeOK
  <2>4. writer' \in {None} \union {u \in Txns : status'[u] = Active}
    BY Zenon, <1>1, <1>3 DEF IInv, TypeOK
  <2>5. pins' \subseteq Holders \X Seqs /\ failed' \subseteq Txns
    BY Zenon, <1>1, <1>4 DEF IInv, TypeOK
  <2> QED
    BY ZenonT(30), <1>1, <1>3, <1>4, <2>2, <2>3, <2>4, <2>5 DEF IInv, TypeOK
<1> QED
  BY Zenon, <1>4, <1>5, <1>9, <1>11, <1>12, <1>13 DEF IInv

=============================================================================
