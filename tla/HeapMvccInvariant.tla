------------------------- MODULE HeapMvccInvariant -------------------------
(***************************************************************************)
(* The inductive invariant of HeapMvcc, and the steps that add to the heap *)
(* or open a view: what snapshot visibility, command identifiers, the      *)
(* single-writer gate, physical undo and the horizon of vacuum rely on     *)
(* between one operation and the next, for any number of rows, views and   *)
(* transactions.  Commits and rollbacks are in HeapMvccEnds, vacuum and    *)
(* the theorems in HeapMvccProofs.                                         *)
(***************************************************************************)
EXTENDS HeapMvcc, TLAPS

(* The rows that the heap shows at a commit sequence.                      *)
ShownAt(c) == {r \in live : /\ CommittedBy(header[r].xmin, c)
                            /\ ~(header[r].xmax # None /\ CommittedBy(header[r].xmax, c))}

(* The sequences at which a reader reads, or may begin to read.            *)
Protected(c) ==
    \/ c = maxSeq
    \/ \E h \in Holders : <<h, c>> \in pins
    \/ global /\ c = published

(* Identifiers and sequences are given out in order.                       *)
Counters ==
    /\ 1 <= maxSeq /\ 1 <= published
    /\ \A t \in Txns : t >= nextTxn => status[t] = Unknown
    /\ \A t \in Txns : status[t].kind = "Committed" => status[t].seq <= maxSeq
    /\ \A p \in pins : p[2] <= maxSeq

(* The versions in the heap are the work of committed transactions and of  *)
(* the holder of the lease, which alone may expire what it inserted.       *)
Authors ==
    \A r \in live :
        /\ header[r].xmin \in Txns
        /\ header[r].xmin = writer \/ status[header[r].xmin].kind = "Committed"
        /\ header[r].xmax \in {None, writer} \/ status[header[r].xmax].kind = "Committed"
        /\ header[r].xmin = writer => header[r].xmax \in {None, writer}

(* The pending changes are the versions that carry the writer's mark.      *)
PendingMarked ==
    IF writer = None THEN pend = NoPend
    ELSE /\ \A r \in Rows, k \in 0..MaxCommand :
            /\ <<r, k>> \in pend.ins <=> r \in live /\ header[r].xmin = writer /\ header[r].cmin = k
            /\ <<r, k>> \in pend.del <=> r \in live /\ header[r].xmax = writer /\ header[r].cmax = k

(* Physical undo restores the heap without the writer's marks; under the   *)
(* mark of the writer a restamped version has the xmax it had before.      *)
UndoRestores ==
    writer # None =>
        /\ undo.live = {r \in live : header[r].xmin # writer}
        /\ undo.entries = undo.live
        /\ \A r \in undo.live :
            /\ undo.header[r].xmin = header[r].xmin
            /\ header[r].xmax # writer => undo.header[r].xmax = header[r].xmax
            /\ header[r].xmax = writer /\ undo.header[r].xmax # None =>
                  r \in restamped /\ status[undo.header[r].xmax].kind = "Committed"
        /\ \A r \in Rows \ undo.live :
              undo.header[r].xmax = IF r \in live THEN None ELSE header[r].xmax

(* Only the insert that failed in an index has no entry.                   *)
IndexComplete ==
    /\ entries \subseteq live
    /\ \A r \in live \ entries : header[r].xmin = writer /\ writer \in failed

(* Wherever a reader reads, the heap still shows what was committed: of    *)
(* the versions that are neither restamped nor overtaken.                  *)
Exact ==
    \A c \in Seqs : Protected(c) =>
        \A r \in Rows \ restamped : ~Overtaken(r, c) => (r \in committed[c] <=> r \in ShownAt(c))

(* A version that vacuum removed keeps the transaction that expired it.    *)
Removed ==
    \A r \in Rows \ live : header[r].xmax # None =>
        header[r].xmax \in Txns /\ status[header[r].xmax].kind = "Committed"

(* Open views hold their pin and belong to running transactions; the pin   *)
(* of a Repeatable Read transaction is where it read first.                *)
Pinned ==
    /\ \A w \in ViewIds : views[w].open =>
        /\ <<<<"view", w>>, views[w].csn>> \in pins
        /\ 1 <= views[w].csn
        /\ views[w].own # None =>
            /\ status[views[w].own] = Active
            /\ level[views[w].own] = "RR" => views[w].csn = first[views[w].own]
    /\ \A t \in Txns : first[t] # 0 => level[t] = "RR" /\ status[t] = Active
    /\ \A t \in Txns, c \in Seqs : <<<<PinName, t>>, c>> \in pins <=> first[t] # 0 /\ first[t] = c

IInv ==
    /\ TypeOK /\ Counters /\ Authors /\ PendingMarked /\ UndoRestores /\ IndexComplete
    /\ Exact /\ Removed /\ Pinned

(* The marks of the lease holder carry commands it has begun.              *)
Commands ==
    writer # None => \A r \in live : header[r].xmax = writer => header[r].cmax <= CommandId(writer)

(* A step changes nothing that is shown at c.                              *)
Same(c) ==
    \A r \in Rows \ restamped' :
        ~Overtaken(r, c)' => ~Overtaken(r, c) /\ (r \in ShownAt(c)' <=> r \in ShownAt(c))

-------------------------------------------------------------------------------
(* LEMMAS *)

(* The four statuses are distinct, and only one of them is Committed.      *)
LEMMA StatusFacts ==
    /\ Active \in Statuses /\ Aborted \in Statuses /\ Unknown \in Statuses
    /\ \A c \in Seqs : Committed(c) \in Statuses
    /\ Active.kind # "Committed" /\ Aborted.kind # "Committed" /\ Unknown.kind # "Committed"
    /\ \A c : Committed(c).kind = "Committed" /\ Committed(c).seq = c
    /\ Active # Unknown /\ Active # Aborted /\ Aborted # Unknown
    /\ \A c : Committed(c) # Active /\ Committed(c) # Unknown /\ Committed(c) # Aborted
BY MvccAssumption DEF Active, Aborted, Unknown, Committed, Statuses, Seqs

(* What TypeOK says of the parts of a header, a status and a view.         *)
LEMMA Parts ==
    ASSUME TypeOK
    PROVE  /\ \A r \in Rows : /\ header[r].xmin \in 0..MaxTxn /\ header[r].xmax \in 0..MaxTxn
                              /\ header[r].cmin \in 0..MaxCommand /\ header[r].cmax \in 0..MaxCommand
           /\ \A t \in Txns : status[t].seq \in Seqs /\ status[t] \in Statuses
           /\ \A w \in ViewIds : /\ views[w].own \in 0..MaxTxn /\ views[w].csn \in Seqs
                                 /\ views[w].cmd \in 0..MaxCommand
           /\ writer # None => writer \in Txns /\ status[writer] = Active
           /\ maxSeq \in 0..MaxSeq /\ published \in 0..maxSeq /\ nextTxn \in 1..(MaxTxn + 1)
BY Zenon, MvccAssumption DEF TypeOK, Headers, Statuses, Views, Seqs, None, Txns

(* Headers stay headers when a mark is set.                                *)
LEMMA HeaderFacts ==
    /\ Blank \in Headers /\ [Blank EXCEPT !.xmin = 1, !.cmin = 1] \in Headers
    /\ \A h \in Headers, x \in 0..MaxTxn, k \in 0..MaxCommand :
        /\ [h EXCEPT !.xmin = x, !.cmin = k] \in Headers
        /\ [h EXCEPT !.xmax = x, !.cmax = k] \in Headers
<1>1. Blank \in Headers
  BY MvccAssumption DEF Blank, Headers, None
<1>2. \A h \in Headers, x \in 0..MaxTxn, k \in 0..MaxCommand :
        /\ [h EXCEPT !.xmin = x, !.cmin = k] \in Headers
        /\ [h EXCEPT !.xmax = x, !.cmax = k] \in Headers
  BY Zenon DEF Headers
<1> DEFINE b == Blank
<1>3. b \in Headers /\ 1 \in 0..MaxTxn /\ 1 \in 0..MaxCommand
  BY <1>1, MvccAssumption
<1> HIDE DEF b
<1>4. [b EXCEPT !.xmin = 1, !.cmin = 1] \in Headers
  BY Zenon, <1>2, <1>3
<1> QED
  BY Zenon, <1>1, <1>2, <1>4 DEF b

(* What the invariant says of an open view.                                *)
LEMMA ViewFacts ==
    ASSUME IInv, NEW w \in ViewIds, views[w].open
    PROVE  /\ <<<<"view", w>>, views[w].csn>> \in pins
           /\ views[w].csn \in 1..maxSeq /\ Protected(views[w].csn)
           /\ views[w].own # None =>
                /\ views[w].own \in Txns /\ status[views[w].own] = Active
                /\ level[views[w].own] = "RR" => views[w].csn = first[views[w].own]
<1>1. /\ <<<<"view", w>>, views[w].csn>> \in pins /\ 1 <= views[w].csn
      /\ views[w].own # None =>
            /\ status[views[w].own] = Active
            /\ level[views[w].own] = "RR" => views[w].csn = first[views[w].own]
  BY Zenon DEF IInv, Pinned
<1>2. views[w].own # None => views[w].own \in Txns
  BY Parts DEF IInv, Txns, None
<1>3. views[w].csn <= maxSeq /\ views[w].csn \in Nat
  <2> DEFINE p == <<<<"view", w>>, views[w].csn>>
  <2>1. p[2] <= maxSeq
    BY Zenon, <1>1 DEF IInv, Counters
  <2> QED
    BY <2>1, Parts DEF IInv, Seqs
<1>4. Protected(views[w].csn)
  BY Zenon, <1>1 DEF Protected, Holders
<1>5. maxSeq \in Nat
  BY Parts DEF IInv
<1> QED
  BY <1>1, <1>2, <1>3, <1>4, <1>5

(* The initial heap, loaded and published, satisfies the invariant.        *)
LEMMA InitIInv == Init => IInv
<1> SUFFICES ASSUME Init PROVE IInv
  BY Zenon
<1> USE MvccAssumption
<1>1. TypeOK
  <2>1. header \in [Rows -> Headers] /\ live \subseteq Rows /\ entries \subseteq Rows
    <3>1. Blank \in Headers /\ [Blank EXCEPT !.xmin = 1, !.cmin = 1] \in Headers
      BY Zenon, HeaderFacts
    <3> QED
      BY Zenon, <3>1 DEF Init
  <2>2. status \in [Txns -> Statuses] /\ writer = None
    BY StatusFacts DEF Init, Seqs
  <2>3. undo \in [header : [Rows -> Headers], live : SUBSET Rows, entries : SUBSET Rows]
    BY DEF Init, NoUndo, Headers, Blank, None
  <2>4. views \in [ViewIds -> Views] /\ pins \subseteq Holders \X Seqs
    BY DEF Init, Views, Closed, None, Seqs
  <2>5. pend \in [ins : SUBSET (Rows \X (0..MaxCommand)), del : SUBSET (Rows \X (0..MaxCommand))]
    BY Zenon DEF Init, NoPend
  <2>6. committed \in [0..maxSeq -> SUBSET Rows] /\ global \in BOOLEAN /\ applied \in BOOLEAN
    BY Zenon DEF Init
  <2>7. /\ level \in [Txns -> {"RC", "RR"}] /\ command \in [Txns -> 0..MaxCommand]
        /\ failed \subseteq Txns /\ first \in [Txns -> Seqs] /\ maxSeq \in Seqs /\ restamped \subseteq Rows
        /\ nextTxn \in 1..(MaxTxn + 1) /\ published \in 0..maxSeq
    BY DEF Init, Seqs
  <2> QED
    BY Zenon, <2>1, <2>2, <2>3, <2>4, <2>5, <2>6, <2>7 DEF TypeOK
<1>2. Counters
  BY DEF Init, Counters, Txns, Unknown, Committed
<1>3. Authors
  BY DEF Init, Authors, Txns, Blank, None, Committed
<1>4. PendingMarked /\ UndoRestores
  BY Zenon DEF Init, PendingMarked, UndoRestores
<1>5. IndexComplete
  BY Zenon DEF Init, IndexComplete
<1>6. Exact
  <2> SUFFICES ASSUME NEW c \in Seqs, Protected(c), NEW r \in Rows
               PROVE  r \in committed[c] <=> r \in ShownAt(c)
    BY Zenon DEF Exact
  <2>1. c = 1
    BY Zenon DEF Init, Protected
  <2>2. committed[1] = Loaded
    BY DEF Init
  <2>3. ShownAt(1) = Loaded
    BY DEF Init, ShownAt, CommittedBy, Committed, Blank, None, Txns
  <2> QED
    BY Zenon, <2>1, <2>2, <2>3
<1>7. Removed
  BY DEF Init, Removed, Blank, None
<1>8. Pinned
  BY Zenon DEF Init, Pinned, Closed
<1> QED
  BY Zenon, <1>1, <1>2, <1>3, <1>4, <1>5, <1>6, <1>7, <1>8 DEF IInv

(* A change of status that no version in the heap notices: the transaction *)
(* that ends or begins has written nothing that is still there.            *)
LEMMA UnseenStatus ==
    ASSUME IInv, NEW t \in Txns, NEW s \in Statuses, status' = [status EXCEPT ![t] = s],
           t # writer, status[t].kind # "Committed", UNCHANGED <<header, live, global>>
    PROVE  /\ \A r \in live : header[r].xmin # t /\ header[r].xmax # t
           /\ \A c \in Seqs : Same(c)
           /\ \A r \in live : /\ status'[header[r].xmin] = status[header[r].xmin]
                              /\ header[r].xmax # None =>
                                    status'[header[r].xmax] = status[header[r].xmax]
           /\ Removed'
<1>1. \A r \in live : header[r].xmin # t /\ header[r].xmax # t
  BY DEF IInv, Authors, None, Txns
<1>2. \A r \in live : /\ header[r].xmin \in Txns
                      /\ header[r].xmax # None => header[r].xmax \in Txns
  BY Parts DEF IInv, Authors, TypeOK, None, Txns
<1>3. \A u \in Txns : u # t => status'[u] = status[u]
  BY Zenon DEF IInv, TypeOK
<1>4. \A r \in Rows \ live : header[r].xmax # None =>
        /\ header[r].xmax \in Txns /\ status[header[r].xmax].kind = "Committed"
        /\ status'[header[r].xmax] = status[header[r].xmax]
  BY Zenon, <1>3 DEF IInv, Removed
<1>5. \A c \in Seqs : ShownAt(c)' = ShownAt(c)
  BY <1>1, <1>2, <1>3 DEF ShownAt, CommittedBy
<1>6. \A c \in Seqs, r \in Rows : Overtaken(r, c)' <=> Overtaken(r, c)
  BY Zenon, <1>4 DEF Overtaken, CommittedBy
<1>7. \A c \in Seqs : Same(c)
  BY Zenon, <1>5, <1>6 DEF Same
<1>8. Removed'
  BY Zenon, <1>4 DEF Removed
<1> QED
  BY Zenon, <1>1, <1>2, <1>3, <1>7, <1>8

(* What is shown stays right where a step changes none of it.              *)
LEMMA ExactKept ==
    ASSUME IInv, committed' = committed, restamped \subseteq restamped',
           \A c \in Seqs : Same(c), \A c \in Seqs : Protected(c)' => Protected(c)
    PROVE  Exact'
BY Zenon DEF IInv, Exact, Same

(* What undo restores does not depend on the transactions that come and go *)
(* without the lease.                                                      *)
LEMMA UndoKept ==
    ASSUME IInv, UNCHANGED <<header, live, writer, undo, restamped>>,
           \A u \in Txns : status[u].kind = "Committed" => status'[u] = status[u]
    PROVE  UndoRestores'
<1>1. ASSUME writer # None, NEW r \in undo.live, header[r].xmax = writer, undo.header[r].xmax # None
      PROVE  r \in restamped /\ status'[undo.header[r].xmax].kind = "Committed"
  <2>1. r \in restamped /\ status[undo.header[r].xmax].kind = "Committed"
    BY Zenon, <1>1 DEF IInv, UndoRestores
  <2>2. undo.header[r] \in Headers
    BY Zenon DEF IInv, TypeOK
  <2>3. undo.header[r].xmax \in Txns
    BY <1>1, <2>2, MvccAssumption DEF Headers, Txns, None
  <2> QED
    BY Zenon, <2>1, <2>3
<1> QED
  BY Zenon, <1>1 DEF IInv, UndoRestores

(* Starting a transaction.                                                 *)
LEMMA BeginKeeps == ASSUME IInv, NEW l \in {"RC", "RR"}, Begin(l) PROVE IInv'
<1> USE MvccAssumption DEF Begin, heapVars, snapVars, leaseVars, dbVars
<1>1. nextTxn \in Txns /\ status[nextTxn] = Unknown /\ nextTxn # writer /\ nextTxn # None
  <2>1. nextTxn \in Txns /\ nextTxn # None
    BY DEF IInv, TypeOK, Txns, None
  <2>2. status[nextTxn] = Unknown
    BY <2>1, Parts DEF IInv, Counters, Txns
  <2> QED
    BY Zenon, <2>1, <2>2, StatusFacts, Parts DEF IInv
<1>2. TypeOK'
  <2>1. status' \in [Txns -> Statuses] /\ level' \in [Txns -> {"RC", "RR"}]
    BY Zenon, <1>1, StatusFacts DEF IInv, TypeOK
  <2>2. writer' \in {None} \union {t \in Txns : status'[t] = Active}
    BY Zenon, <1>1, StatusFacts DEF IInv, TypeOK
  <2>3. nextTxn' \in 1..(MaxTxn + 1)
    BY DEF IInv, TypeOK
  <2> QED
    BY Zenon, <2>1, <2>2, <2>3 DEF IInv, TypeOK
<1>3. Counters'
  BY <1>1, StatusFacts DEF IInv, Counters, TypeOK, Txns
<1>4. /\ Removed'
      /\ \A c \in Seqs : Same(c)
      /\ \A r \in live : /\ status'[header[r].xmin] = status[header[r].xmin]
                         /\ header[r].xmax # None => status'[header[r].xmax] = status[header[r].xmax]
  BY Zenon, <1>1, StatusFacts, UnseenStatus
<1>6. Authors'
  BY <1>4 DEF IInv, Authors
<1>7. PendingMarked' /\ UndoRestores' /\ IndexComplete'
  <2>1. \A u \in Txns : status[u].kind = "Committed" => status'[u] = status[u]
    BY Zenon, <1>1, StatusFacts DEF IInv, TypeOK
  <2> QED
    BY Zenon, <2>1, UndoKept DEF IInv, PendingMarked, IndexComplete
<1>8. Exact'
  BY Zenon, <1>4, ExactKept DEF Protected
<1>9. Removed'
  BY Zenon, <1>4
<1>10. Pinned'
  <2>1. \A t \in Txns : t # nextTxn => status'[t] = status[t] /\ level'[t] = level[t]
    BY Zenon DEF IInv, TypeOK
  <2>2. first[nextTxn] = 0 /\ \A w \in ViewIds : views[w].open => views[w].own # nextTxn
    <3>1. first[nextTxn] = 0
      BY Zenon, <1>1, StatusFacts DEF IInv, Pinned
    <3>2. ASSUME NEW w \in ViewIds, views[w].open PROVE views[w].own # nextTxn
      BY Zenon, <1>1, <3>2, ViewFacts, StatusFacts
    <3> QED
      BY Zenon, <3>1, <3>2
  <2>3. ASSUME NEW w \in ViewIds, views[w].open
        PROVE  /\ <<<<"view", w>>, views[w].csn>> \in pins
               /\ 1 <= views[w].csn
               /\ views[w].own # None =>
                    /\ status'[views[w].own] = Active
                    /\ level'[views[w].own] = "RR" => views[w].csn = first[views[w].own]
    BY <2>1, <2>2, <2>3, ViewFacts
  <2>4. \A t \in Txns : first[t] # 0 => level'[t] = "RR" /\ status'[t] = Active
    BY Zenon, <2>1, <2>2 DEF IInv, Pinned
  <2> QED
    BY <2>3, <2>4 DEF IInv, Pinned, PinName
<1> QED
  BY Zenon, <1>2, <1>3, <1>6, <1>7, <1>8, <1>9, <1>10 DEF IInv

(* Pins may only be taken at protected sequences.                          *)
LEMMA PinsGrow ==
    ASSUME IInv, UNCHANGED <<status, nextTxn, maxSeq, dbVars, committed>>,
           \A c \in Seqs : Same(c), restamped \subseteq restamped',
           \A p \in pins' \ pins : \E h \in Holders, c \in Seqs : p = <<h, c>> /\ Protected(c)
    PROVE  Counters' /\ Exact'
<1> USE DEF dbVars
<1>1. Counters'
  <2>1. ASSUME NEW p \in pins' PROVE p[2] <= maxSeq
    <3>1. CASE p \in pins
      BY Zenon, <3>1 DEF IInv, Counters
    <3>2. CASE p \notin pins
      <4>1. PICK h \in Holders, c \in Seqs : p = <<h, c>> /\ Protected(c)
        BY Zenon, <2>1, <3>2
      <4>2. c <= maxSeq
        <5>1. ASSUME NEW g \in Holders, <<g, c>> \in pins PROVE c <= maxSeq
          <6>1. <<g, c>>[2] <= maxSeq
            BY Zenon, <5>1 DEF IInv, Counters
          <6> QED
            BY Zenon, <6>1
        <5>2. maxSeq <= maxSeq /\ published <= maxSeq
          BY Parts DEF IInv
        <5> QED
          BY Zenon, <4>1, <5>1, <5>2 DEF Protected
      <4> QED
        BY Zenon, <4>1, <4>2
    <3> QED
      BY Zenon, <3>1, <3>2
  <2> QED
    BY Zenon, <2>1 DEF IInv, Counters
<1>2. Exact'
  <2>2. ASSUME NEW c \in Seqs, Protected(c)' PROVE Protected(c)
    <3>1. ASSUME NEW h \in Holders, <<h, c>> \in pins', <<h, c>> \notin pins PROVE Protected(c)
      <4>1. PICK g \in Holders, d \in Seqs : <<h, c>> = <<g, d>> /\ Protected(d)
        BY Zenon, <3>1
      <4> QED
        BY Zenon, <4>1
    <3> QED
      BY Zenon, <2>2, <3>1 DEF Protected
  <2> QED
    BY Zenon, <2>2, ExactKept
<1> QED
  BY Zenon, <1>1, <1>2

(* Moving pins and views leaves the heap and its history alone.            *)
LEMMA PinsMove ==
    ASSUME IInv, UNCHANGED <<heapVars, status, level, failed, nextTxn, leaseVars, maxSeq, dbVars,
                             committed, pend, restamped>>,
           \A p \in pins' \ pins : \E h \in Holders, c \in Seqs : p = <<h, c>> /\ Protected(c)
    PROVE  /\ Counters' /\ Authors' /\ PendingMarked' /\ UndoRestores' /\ IndexComplete'
           /\ Exact' /\ Removed'
<1> USE DEF heapVars, leaseVars
<1>1. \A c \in Seqs : Same(c)
  BY Zenon DEF Same, ShownAt, Overtaken, CommittedBy, dbVars
<1>2. Counters' /\ Exact'
  BY Zenon, <1>1, PinsGrow
<1>3. Authors' /\ PendingMarked' /\ UndoRestores' /\ IndexComplete' /\ Removed'
  BY Zenon DEF IInv, Authors, PendingMarked, UndoRestores, IndexComplete, Removed, dbVars
<1> QED
  BY Zenon, <1>2, <1>3

(* Dropping a view: its pin goes, and protects no other open view.         *)
LEMMA DropViewKeeps == ASSUME IInv, NEW w \in ViewIds, DropView(w) PROVE IInv'
<1> USE DEF DropView, Unpin, heapVars, txnVars, leaseVars, dbVars
<1>1. Counters' /\ Authors' /\ PendingMarked' /\ UndoRestores' /\ IndexComplete' /\ Exact'
      /\ Removed'
  BY Zenon, PinsMove
<1>2. TypeOK'
  <2>1. views' \in [ViewIds -> Views]
    BY MvccAssumption DEF IInv, TypeOK, Views, Closed, None, Seqs
  <2> QED
    BY Zenon, <2>1 DEF IInv, TypeOK
<1>3. Pinned'
  <2>1. ASSUME NEW x \in ViewIds, views'[x].open
        PROVE  x # w /\ views'[x] = views[x] /\ views[x].open
    BY Zenon, <2>1 DEF IInv, TypeOK, Closed
  <2>2. \A x \in ViewIds, c \in Seqs : x # w /\ <<<<"view", x>>, c>> \in pins
                                        => <<<<"view", x>>, c>> \in pins'
    BY Zenon
  <2>3. \A t \in Txns, c \in Seqs : <<<<PinName, t>>, c>> \in pins' <=> <<<<PinName, t>>, c>> \in pins
    BY Zenon DEF PinName
  <2>4. ASSUME NEW x \in ViewIds, views'[x].open
        PROVE  /\ <<<<"view", x>>, views'[x].csn>> \in pins' /\ 1 <= views'[x].csn
               /\ views'[x].own # None =>
                    /\ status'[views'[x].own] = Active
                    /\ level'[views'[x].own] = "RR" => views'[x].csn = first'[views'[x].own]
    <3>1. x # w /\ views'[x] = views[x] /\ views[x].open
      BY Zenon, <2>1, <2>4
    <3>2. views[x].csn \in Seqs
      BY Zenon, Parts DEF IInv
    <3> QED
      BY <2>2, <3>1, <3>2, ViewFacts
  <2>5. \A t \in Txns : first'[t] # 0 => level'[t] = "RR" /\ status'[t] = Active
    BY Zenon DEF IInv, Pinned
  <2>6. \A t \in Txns, c \in Seqs : <<<<PinName', t>>, c>> \in pins' <=> first'[t] # 0 /\ first'[t] = c
    BY Zenon, <2>3 DEF IInv, Pinned, PinName
  <2> QED
    BY Zenon, <2>4, <2>5, <2>6 DEF Pinned
<1> QED
  BY Zenon, <1>1, <1>2, <1>3 DEF IInv

(* New readers begin at a protected sequence.                              *)
LEMMA NewestFacts == ASSUME IInv PROVE Newest \in 1..maxSeq /\ Newest \in Seqs /\ Protected(Newest)
<1>1. maxSeq \in Seqs /\ maxSeq \in 1..maxSeq /\ published \in 1..maxSeq /\ published \in Seqs
  BY Parts, MvccAssumption DEF IInv, Counters, Seqs
<1>2. Protected(Newest)
  BY Zenon DEF Newest, Protected
<1> QED
  BY Zenon, <1>1, <1>2 DEF Newest

(* Every pinned sequence is protected.                                     *)
LEMMA PinnedFacts ==
    ASSUME IInv, NEW h \in Holders, PinnedAt(h) # {}
    PROVE  LET c == CHOOSE c \in PinnedAt(h) : TRUE IN
           c \in Seqs /\ Protected(c) /\ <<h, c>> \in pins
<1> DEFINE c == CHOOSE c \in PinnedAt(h) : TRUE
<1>1. c \in PinnedAt(h)
  BY Zenon
<1> HIDE DEF c
<1>2. PICK q \in pins : q[1] = h /\ q[2] = c
  BY Zenon, <1>1 DEF PinnedAt
<1>3. q = <<h, c>> /\ c \in Seqs
  BY <1>2 DEF IInv, TypeOK
<1>4. c \in Seqs /\ Protected(c) /\ <<h, c>> \in pins
  BY Zenon, <1>2, <1>3 DEF Protected
<1> QED
  BY Zenon, <1>4 DEF c

(* A Repeatable Read transaction that has read finds its pin, and only it. *)
LEMMA FirstPinned ==
    ASSUME IInv, NEW t \in Txns
    PROVE  PinnedAt(<<PinName, t>>) = IF first[t] = 0 THEN {} ELSE {first[t]}
<1>1. first[t] \in Seqs
  BY Zenon DEF IInv, TypeOK
<1>2. ASSUME NEW q \in pins, q[1] = <<PinName, t>>
      PROVE  first[t] # 0 /\ q[2] = first[t]
  <2>1. q = <<<<PinName, t>>, q[2]>> /\ q[2] \in Seqs
    <3>1. q \in Holders \X Seqs
      BY Zenon DEF IInv, TypeOK
    <3> QED
      BY <1>2, <3>1
  <2>2. <<<<PinName, t>>, q[2]>> \in pins
    BY Zenon, <2>1
  <2>3. \A c \in Seqs : <<<<PinName, t>>, c>> \in pins <=> first[t] # 0 /\ first[t] = c
    BY Zenon DEF IInv, Pinned
  <2> QED
    BY Zenon, <2>1, <2>2, <2>3
<1>3. ASSUME first[t] # 0 PROVE first[t] \in PinnedAt(<<PinName, t>>)
  <2> DEFINE q == <<<<PinName, t>>, first[t]>>
  <2>1. q \in pins
    BY Zenon, <1>1, <1>3 DEF IInv, Pinned
  <2>2. q[1] = <<PinName, t>> /\ q[2] = first[t]
    BY Zenon
  <2> QED
    BY Zenon, <2>1, <2>2 DEF PinnedAt
<1> QED
  BY Zenon, <1>2, <1>3 DEF PinnedAt

(* Where a statement reads.                                                *)
LEMMA StatementFacts ==
    ASSUME IInv, NEW t \in Txns
    PROVE  /\ StatementSeq(t) \in Seqs /\ 1 <= StatementSeq(t) /\ Protected(StatementSeq(t))
           /\ level[t] = "RR" /\ first[t] # 0 => StatementSeq(t) = first[t]
<1>1. CASE level[t] = "RR" /\ first[t] # 0
  <2>1. PinnedAt(<<PinName, t>>) = {first[t]}
    BY Zenon, <1>1, FirstPinned
  <2>2. StatementSeq(t) = first[t]
    BY Zenon, <1>1, <2>1 DEF StatementSeq
  <2>3. first[t] \in Seqs /\ 1 <= first[t]
    BY <1>1, MvccAssumption DEF IInv, TypeOK, Seqs
  <2>4. <<<<PinName, t>>, first[t]>> \in pins
    BY Zenon, <1>1, <2>3 DEF IInv, Pinned
  <2>5. Protected(first[t])
    BY Zenon, <2>4 DEF Protected, Holders, PinName
  <2> QED
    BY Zenon, <2>2, <2>3, <2>5
<1>2. CASE ~(level[t] = "RR" /\ first[t] # 0)
  <2>1. StatementSeq(t) = Newest
    BY Zenon, <1>2, FirstPinned DEF StatementSeq
  <2>2. 1 <= Newest
    BY NewestFacts, Parts DEF IInv
  <2> QED
    BY Zenon, <1>2, <2>1, <2>2, NewestFacts
<1> QED
  BY Zenon, <1>1, <1>2

(* Where a write is checked.                                               *)
LEMMA WriteFacts ==
    ASSUME IInv, NEW t \in Txns
    PROVE  /\ WriteSeq(t) \in Seqs /\ Protected(WriteSeq(t))
           /\ ~global /\ level[t] = "RR" /\ first[t] # 0 => WriteSeq(t) = first[t]
<1>1. maxSeq \in Seqs /\ Protected(maxSeq)
  BY Zenon DEF IInv, TypeOK, Protected
<1>2. <<"rr", t>> \in Holders
  BY Zenon DEF Holders
<1>3. WriteSeq(t) \in Seqs /\ Protected(WriteSeq(t))
  BY Zenon, <1>1, <1>2, PinnedFacts DEF WriteSeq
<1>4. ASSUME ~global, level[t] = "RR", first[t] # 0 PROVE WriteSeq(t) = first[t]
  <2>1. PinnedAt(<<"rr", t>>) = {first[t]}
    BY Zenon, <1>4, FirstPinned DEF PinName
  <2> QED
    BY Zenon, <1>4, <2>1 DEF WriteSeq
<1> QED
  BY Zenon, <1>3, <1>4

(* A read outside a transaction.                                           *)
LEMMA ReadViewKeeps == ASSUME IInv, NEW w \in ViewIds, ReadView(w) PROVE IInv'
<1> DEFINE v == [own |-> None, csn |-> Newest, cmd |-> 1, open |-> TRUE]
<1>1. /\ views' = [views EXCEPT ![w] = v] /\ pins' = pins \union {<<<<"view", w>>, Newest>>}
      /\ UNCHANGED <<heapVars, txnVars, leaseVars, maxSeq, dbVars, committed, pend, first,
                     restamped>>
  BY Zenon DEF ReadView, OpenView, Pin
<1>2. /\ Newest \in 1..maxSeq /\ Newest \in Seqs /\ Protected(Newest)
      /\ <<"view", w>> \in Holders /\ v \in Views
  BY NewestFacts, MvccAssumption DEF Holders, Views, None
<1>3. /\ Counters' /\ Authors' /\ PendingMarked' /\ UndoRestores' /\ IndexComplete' /\ Exact'
      /\ Removed'
  BY Zenon, <1>1, <1>2, PinsMove DEF txnVars
<1>4. TypeOK'
  <2>1. pins' \subseteq Holders \X Seqs
    <3>1. <<<<"view", w>>, Newest>> \in Holders \X Seqs
      BY Zenon, <1>2
    <3>2. pins \subseteq Holders \X Seqs
      BY Zenon DEF IInv, TypeOK
    <3> QED
      BY Zenon, <1>1, <3>1, <3>2
  <2>2. views' \in [ViewIds -> Views]
    <3> HIDE DEF v
    <3> QED
      BY Zenon, <1>1, <1>2 DEF IInv, TypeOK
  <2> QED
    BY Zenon, <1>1, <2>1, <2>2 DEF IInv, TypeOK, heapVars, txnVars, leaseVars, dbVars
<1>5. Pinned'
  <2>1. ASSUME NEW x \in ViewIds, views'[x].open
        PROVE  /\ <<<<"view", x>>, views'[x].csn>> \in pins' /\ 1 <= views'[x].csn
               /\ views'[x].own # None =>
                    /\ status'[views'[x].own] = Active
                    /\ level'[views'[x].own] = "RR" => views'[x].csn = first'[views'[x].own]
    <3>1. CASE x = w
      <4>1. views'[x] = v
        BY Zenon, <1>1, <3>1 DEF IInv, TypeOK
      <4>2. 1 <= Newest
        BY <1>2, Parts DEF IInv
      <4> QED
        BY <1>1, <3>1, <4>1, <4>2
    <3>2. CASE x # w
      <4>1. views'[x] = views[x]
        BY Zenon, <1>1, <3>2 DEF IInv, TypeOK
      <4>2. 1 <= views[x].csn
        BY Zenon, <2>1, <4>1 DEF IInv, Pinned
      <4> QED
        BY <1>1, <2>1, <4>1, <4>2, ViewFacts DEF txnVars
    <3> QED
      BY Zenon, <3>1, <3>2
  <2>2. \A t \in Txns : first'[t] # 0 => level'[t] = "RR" /\ status'[t] = Active
    BY Zenon, <1>1 DEF IInv, Pinned, txnVars
  <2>3. \A t \in Txns, c \in Seqs : <<<<PinName', t>>, c>> \in pins' <=> first'[t] # 0 /\ first'[t] = c
    BY Zenon, <1>1 DEF IInv, Pinned, PinName, dbVars
  <2> QED
    BY Zenon, <2>1, <2>2, <2>3 DEF Pinned
<1> QED
  BY Zenon, <1>3, <1>4, <1>5 DEF IInv

(* A statement of a transaction.                                           *)
LEMMA BeginStatementKeeps ==
    ASSUME IInv, NEW t \in Txns, NEW w \in ViewIds, BeginStatement(t, w) PROVE IInv'
<1> DEFINE c == StatementSeq(t)
           v == [own |-> t, csn |-> c, cmd |-> command[t] + 1, open |-> TRUE]
           new == {<<<<"view", w>>, c>>}
                    \union (IF level[t] = "RR" THEN {<<<<PinName, t>>, c>>} ELSE {})
<1>1. /\ status[t] = Active /\ ~views[w].open /\ command[t] < MaxCommand
      /\ command' = [command EXCEPT ![t] = @ + 1]
      /\ views' = [views EXCEPT ![w] = v] /\ pins' = pins \union new
      /\ first' = [first EXCEPT ![t] = IF @ = 0 /\ level[t] = "RR" THEN c ELSE @]
      /\ UNCHANGED <<heapVars, status, level, failed, nextTxn, leaseVars, maxSeq, dbVars,
                     committed, pend, restamped>>
  BY Zenon DEF BeginStatement, OpenView, Pin, StatementPins, Running
<1>2. /\ c \in Seqs /\ 1 <= c /\ Protected(c)
      /\ level[t] = "RR" /\ first[t] # 0 => c = first[t]
  BY Zenon, StatementFacts
<1>3. <<"view", w>> \in Holders /\ <<PinName, t>> \in Holders
  BY Zenon DEF Holders, PinName
<1> HIDE DEF c
<1>4. /\ Counters' /\ Authors' /\ PendingMarked' /\ UndoRestores' /\ IndexComplete' /\ Exact'
      /\ Removed'
  BY Zenon, <1>1, <1>2, <1>3, PinsMove
<1>5. TypeOK'
  <2>1. command[t] + 1 \in 0..MaxCommand /\ v \in Views
    BY <1>1, <1>2, MvccAssumption DEF IInv, TypeOK, Views, Txns
  <2>2. pins' \subseteq Holders \X Seqs
    <3>1. <<<<"view", w>>, c>> \in Holders \X Seqs /\ <<<<PinName, t>>, c>> \in Holders \X Seqs
      BY Zenon, <1>2, <1>3
    <3>2. pins \subseteq Holders \X Seqs
      BY Zenon DEF IInv, TypeOK
    <3> QED
      BY Zenon, <1>1, <3>1, <3>2
  <2>3. views' \in [ViewIds -> Views]
    <3> HIDE DEF v
    <3> QED
      BY Zenon, <1>1, <2>1 DEF IInv, TypeOK
  <2>4. command' \in [Txns -> 0..MaxCommand] /\ first' \in [Txns -> Seqs]
    BY Zenon, <1>1, <1>2, <2>1 DEF IInv, TypeOK
  <2> QED
    BY Zenon, <1>1, <2>2, <2>3, <2>4 DEF IInv, TypeOK, heapVars, leaseVars, dbVars
<1>6. Pinned'
  <2>1. \A u \in Txns : first'[u] = IF u = t /\ first[t] = 0 /\ level[t] = "RR" THEN c ELSE first[u]
    BY Zenon, <1>1 DEF IInv, TypeOK
  <2>2. ASSUME NEW x \in ViewIds, views'[x].open
        PROVE  /\ <<<<"view", x>>, views'[x].csn>> \in pins' /\ 1 <= views'[x].csn
               /\ views'[x].own # None =>
                    /\ status'[views'[x].own] = Active
                    /\ level'[views'[x].own] = "RR" => views'[x].csn = first'[views'[x].own]
    <3>1. CASE x = w
      <4>1. views'[x] = v
        BY Zenon, <1>1, <3>1 DEF IInv, TypeOK
      <4> QED
        BY <1>1, <1>2, <2>1, <3>1, <4>1
    <3>2. CASE x # w
      <4>1. views'[x] = views[x]
        BY Zenon, <1>1, <3>2 DEF IInv, TypeOK
      <4>2. 1 <= views[x].csn
        BY Zenon, <2>2, <4>1 DEF IInv, Pinned
      <4> QED
        BY <1>1, <2>1, <2>2, <4>1, <4>2, ViewFacts
    <3> QED
      BY Zenon, <3>1, <3>2
  <2>3. \A u \in Txns : first'[u] # 0 => level'[u] = "RR" /\ status'[u] = Active
    BY <1>1, <2>1 DEF IInv, Pinned
  <2>4. ASSUME NEW u \in Txns, NEW d \in Seqs
        PROVE  <<<<PinName, u>>, d>> \in pins' <=> first'[u] # 0 /\ first'[u] = d
    <3>1. <<<<PinName, u>>, d>> \in pins <=> first[u] # 0 /\ first[u] = d
      BY Zenon DEF IInv, Pinned
    <3>2. <<<<PinName, u>>, d>> \in new <=> u = t /\ level[t] = "RR" /\ d = c
      BY Zenon DEF PinName
    <3> QED
      BY <1>1, <1>2, <2>1, <3>1, <3>2
  <2> QED
    BY Zenon, <1>1, <2>2, <2>3, <2>4 DEF Pinned, PinName, dbVars
<1> QED
  BY Zenon, <1>4, <1>5, <1>6 DEF IInv

(* The pin that a write takes keeps Repeatable Read where it is.           *)
LEMMA WritePinsFacts ==
    ASSUME IInv, NEW t \in Txns, NEW r, Found(t, r)
    PROVE  /\ pins \subseteq WritePins(t) /\ WritePins(t) \subseteq Holders \X Seqs
           /\ \A p \in WritePins(t) \ pins : \E h \in Holders, c \in Seqs : p = <<h, c>> /\ Protected(c)
           /\ \A u \in Txns, c \in Seqs : <<<<PinName, u>>, c>> \in WritePins(t)
                                            <=> <<<<PinName, u>>, c>> \in pins
<1> DEFINE c == WriteSeq(t)
<1>1. c \in Seqs /\ Protected(c) /\ (~global /\ level[t] = "RR" /\ first[t] # 0 => c = first[t])
  BY Zenon, WriteFacts
<1> HIDE DEF c
<1>2. <<"rr", t>> \in Holders /\ <<<<"rr", t>>, c>> \in Holders \X Seqs
  BY Zenon, <1>1 DEF Holders
<1>3. WritePins(t) = pins \union (IF level[t] = "RR" THEN {<<<<"rr", t>>, c>>} ELSE {})
  BY Zenon DEF WritePins, c
<1>4. pins \subseteq Holders \X Seqs
  BY Zenon DEF IInv, TypeOK
<1>5. ~global /\ level[t] = "RR" => <<<<"rr", t>>, c>> \in pins
  <2> SUFFICES ASSUME ~global, level[t] = "RR" PROVE <<<<"rr", t>>, c>> \in pins
    BY Zenon
  <2>1. PICK w \in ViewIds : views[w].open /\ views[w].own = t
    BY Zenon DEF Found, OpenViews
  <2>2. t # None
    BY DEF Txns, None
  <2>3. views[w].csn \in 1..maxSeq /\ views[w].csn = first[t]
    BY Zenon, <2>1, <2>2, ViewFacts
  <2>4. first[t] # 0
    BY <2>3, Parts DEF IInv
  <2> QED
    BY Zenon, <1>1, <2>4 DEF IInv, Pinned, PinName
<1>6. ASSUME NEW u \in Txns, NEW d \in Seqs
      PROVE  <<<<PinName, u>>, d>> \in WritePins(t) <=> <<<<PinName, u>>, d>> \in pins
  <2>1. CASE global
    BY Zenon, <1>3, <2>1 DEF PinName
  <2>2. CASE ~global
    BY Zenon, <1>3, <1>5, <2>2
  <2> QED
    BY Zenon, <2>1, <2>2
<1> QED
  BY Zenon, <1>1, <1>2, <1>3, <1>4, <1>6

(* Pinned survives pins that no statement takes.                           *)
LEMMA PinnedGrows ==
    ASSUME IInv, UNCHANGED <<views, status, level, first, global>>, pins \subseteq pins',
           \A u \in Txns, c \in Seqs : <<<<PinName, u>>, c>> \in pins' <=> <<<<PinName, u>>, c>> \in pins
    PROVE  Pinned'
<1>1. ASSUME NEW x \in ViewIds, views[x].open
      PROVE  <<<<"view", x>>, views[x].csn>> \in pins'
  BY Zenon, <1>1, ViewFacts
<1>2. \A u \in Txns, c \in Seqs : <<<<PinName', u>>, c>> \in pins' <=> first[u] # 0 /\ first[u] = c
  BY Zenon DEF IInv, Pinned, PinName
<1> QED
  BY Zenon, <1>1, <1>2 DEF IInv, Pinned

(* A write that is refused.                                                *)
LEMMA WriteRefusedKeeps ==
    ASSUME IInv, NEW t \in Txns, NEW r \in Rows, WriteRefused(t, r) PROVE IInv'
<1>1. /\ Found(t, r) /\ pins' = WritePins(t)
      /\ UNCHANGED <<heapVars, txnVars, views, leaseVars, maxSeq, dbVars, committed, pend, first,
                     restamped>>
  BY Zenon DEF WriteRefused
<1>2. /\ Counters' /\ Authors' /\ PendingMarked' /\ UndoRestores' /\ IndexComplete' /\ Exact'
      /\ Removed'
  BY Zenon, <1>1, WritePinsFacts, PinsMove DEF txnVars
<1>3. Pinned'
  BY Zenon, <1>1, WritePinsFacts, PinnedGrows DEF txnVars, dbVars
<1>4. TypeOK'
  BY Zenon, <1>1, WritePinsFacts DEF IInv, TypeOK, heapVars, txnVars, leaseVars, dbVars
<1> QED
  BY Zenon, <1>2, <1>3, <1>4 DEF IInv

(* Publication moves the boundary to a sequence that is protected.         *)
LEMMA PublishKeeps == ASSUME IInv, Publish PROVE IInv'
<1> USE DEF Publish, heapVars, txnVars, snapVars, leaseVars
<1>1. TypeOK'
  <2>1. maxSeq \in 0..maxSeq
    BY Parts, MvccAssumption DEF IInv
  <2>2. published' \in 0..maxSeq'
    BY Zenon, <2>1
  <2>3. applied' \in BOOLEAN
    BY Zenon
  <2> QED
    BY Zenon, <2>2, <2>3 DEF IInv, TypeOK
<1>2. Counters' /\ Authors' /\ PendingMarked' /\ UndoRestores' /\ IndexComplete'
  BY Zenon DEF IInv, Counters, Authors, PendingMarked, UndoRestores, IndexComplete
<1>3. Exact'
  <2>1. \A c \in Seqs : Same(c)
    BY Zenon DEF Same, ShownAt, Overtaken, CommittedBy
  <2> QED
    BY Zenon, <2>1, ExactKept DEF Protected
<1>4. Removed'
  BY Zenon DEF IInv, Removed
<1>5. Pinned'
  BY Zenon, PinnedGrows
<1> QED
  BY Zenon, <1>1, <1>2, <1>3, <1>4, <1>5 DEF IInv

(* Before the lease is taken the heap holds committed work only, and every *)
(* version has its entry.                                                  *)
LEMMA Unleased ==
    ASSUME IInv, NEW t \in Txns, status[t] = Active, writer = None
    PROVE  /\ \A r \in live : header[r].xmin # t /\ header[r].xmax # t
           /\ entries = live
<1>1. t # None /\ status[t].kind # "Committed"
  BY StatusFacts DEF Txns, None
<1>2. \A r \in live : header[r].xmin # t /\ header[r].xmax # t /\ header[r].xmin # None
  BY <1>1 DEF IInv, Authors, None, Txns
<1> QED
  BY Zenon, <1>2 DEF IInv, IndexComplete

(* The effect of a write of t on the heap: versions in Ins appear and      *)
(* versions in Del are expired; the ones that were expired before are      *)
(* restamped.                                                              *)
Marks(t, Ins, Del) ==
    /\ live' = live \union Ins
    /\ \A r \in Rows :
        /\ r \in Ins => /\ header'[r].xmin = t /\ header'[r].cmin = CommandId(t)
                        /\ header'[r].xmax = None
        /\ r \in Del => /\ header'[r].xmin = header[r].xmin /\ header'[r].cmin = header[r].cmin
                        /\ header'[r].xmax = t /\ header'[r].cmax = CommandId(t)
        /\ r \notin Ins \union Del => header'[r] = header[r]
    /\ Logged(Ins, Del, t)
    /\ restamped' = restamped \union {r \in Del : header[r].xmax # None}

Writes(t, Ins, Del) ==
    /\ Ins \in SUBSET (Rows \ live) /\ Del \in SUBSET live
    /\ \A r \in Del : header[r].xmax # t
    /\ \A r \in Ins : header[r].xmax = None
    /\ Marks(t, Ins, Del)

(* A write keeps what readers see, what is pending and what undo restores. *)
LEMMA WriteKeeps ==
    ASSUME IInv, NEW t \in Txns, status[t] = Active, Acquire(t),
           NEW Ins, NEW Del, Writes(t, Ins, Del), header' \in [Rows -> Headers],
           UNCHANGED <<status, maxSeq, dbVars, committed>>
    PROVE  /\ Authors' /\ PendingMarked' /\ UndoRestores' /\ Removed'
           /\ \A c \in Seqs : Same(c)
           /\ \A r \in live' : header'[r].xmin # t => r \in entries
<1> USE DEF dbVars
<1>12. /\ Ins \in SUBSET (Rows \ live) /\ Del \in SUBSET live
       /\ \A r \in Del : header[r].xmax # t
       /\ \A r \in Ins : header[r].xmax = None
       /\ Marks(t, Ins, Del)
  BY Zenon DEF Writes
<1> USE <1>12
<1>1. t # None /\ status[t].kind # "Committed" /\ writer' = t /\ writer \in {None, t}
  BY StatusFacts DEF Txns, None, Acquire
<1>2. /\ live \subseteq Rows /\ live' = live \union Ins
      /\ \A r \in Ins : /\ header'[r].xmin = t /\ header'[r].cmin = CommandId(t)
                        /\ header'[r].xmax = None
      /\ \A r \in Del : /\ header'[r].xmin = header[r].xmin /\ header'[r].cmin = header[r].cmin
                        /\ header'[r].xmax = t /\ header'[r].cmax = CommandId(t)
      /\ \A r \in live \ Del : header'[r] = header[r]
  BY Zenon DEF Marks, IInv, TypeOK
<1>3. \A r \in live :
        /\ header[r].xmin \in Txns /\ (header[r].xmax # None => header[r].xmax \in Txns)
        /\ header[r].xmin = t \/ status[header[r].xmin].kind = "Committed"
        /\ header[r].xmax \in {None, t} \/ status[header[r].xmax].kind = "Committed"
        /\ header[r].xmin = t => header[r].xmax \in {None, t}
  <2>1. ASSUME NEW r \in live PROVE header[r].xmax # None => header[r].xmax \in Txns
    BY <1>2, Parts DEF IInv, Txns, None
  <2>2. CASE writer = t
    BY Zenon, <2>1, <2>2, <1>1 DEF IInv, Authors
  <2>3. CASE writer = None
    BY <2>1, <2>3, <1>1, Unleased DEF IInv, Authors, None, Txns
  <2> QED
    BY Zenon, <1>1, <2>2, <2>3
<1>4. Authors'
  BY <1>1, <1>2, <1>3 DEF Authors
<1>11. /\ restamped' = restamped \union {r \in Del : header[r].xmax # None}
       /\ \A r \in Rows \ live' : r \notin live /\ header'[r] = header[r]
  BY Zenon, <1>2 DEF Marks
<1>5. \A c \in Seqs : Same(c)
  <2> SUFFICES ASSUME NEW c \in Seqs, NEW r \in Rows \ restamped'
               PROVE  /\ r \in ShownAt(c)' <=> r \in ShownAt(c)
                      /\ Overtaken(r, c) => Overtaken(r, c)'
    BY Zenon DEF Same
  <2>1. ~CommittedBy(t, c) /\ \A u : CommittedBy(u, c)' <=> CommittedBy(u, c)
    BY Zenon, <1>1 DEF CommittedBy
  <2>2. r \in Del => header[r].xmax = None
    BY Zenon, <1>11
  <2>3. r \in ShownAt(c)' <=> r \in ShownAt(c)
    BY Zenon, <1>1, <1>2, <2>1, <2>2 DEF ShownAt
  <2>4. Overtaken(r, c) => r \notin live'
    BY Zenon, <1>2 DEF Overtaken
  <2>5. Overtaken(r, c) => Overtaken(r, c)'
    BY Zenon, <1>11, <2>1, <2>4 DEF Overtaken
  <2> QED
    BY Zenon, <2>3, <2>5
<1>6. Removed'
  BY Zenon, <1>11 DEF IInv, Removed
<1>7. CommandId(t) \in 0..MaxCommand
  BY MvccAssumption DEF CommandId, IInv, TypeOK
<1>8. PendingMarked'
  <2>1. ASSUME NEW r \in Rows, NEW k \in 0..MaxCommand
        PROVE  /\ <<r, k>> \in pend'.ins <=>
                    <<r, k>> \in pend.ins \/ (r \in Ins /\ k = CommandId(t))
               /\ <<r, k>> \in pend'.del <=>
                    <<r, k>> \in pend.del \/ (r \in Del /\ k = CommandId(t))
    BY Zenon DEF Marks, Logged
  <2>2. ASSUME NEW r \in Rows, NEW k \in 0..MaxCommand
        PROVE  /\ <<r, k>> \in pend.ins <=> r \in live /\ header[r].xmin = t /\ header[r].cmin = k
               /\ <<r, k>> \in pend.del <=> r \in live /\ header[r].xmax = t /\ header[r].cmax = k
    <3>1. CASE writer = t
      BY Zenon, <1>1, <3>1 DEF IInv, PendingMarked
    <3>2. CASE writer = None
      BY <3>2, Unleased DEF IInv, PendingMarked, NoPend
    <3> QED
      BY Zenon, <1>1, <3>1, <3>2
  <2>3. ASSUME NEW r \in Rows, NEW k \in 0..MaxCommand
        PROVE  /\ <<r, k>> \in pend'.ins <=> r \in live' /\ header'[r].xmin = t /\ header'[r].cmin = k
               /\ <<r, k>> \in pend'.del <=> r \in live' /\ header'[r].xmax = t /\ header'[r].cmax = k
    BY <1>1, <1>2, <2>1, <2>2
  <2> QED
    BY Zenon, <1>1, <2>3 DEF PendingMarked
<1>9. UndoRestores'
  <2>1. CASE writer = t
    <3>1. undo' = undo
      BY Zenon, <2>1 DEF Acquire
    <3>2. /\ undo.live = {r \in live : header[r].xmin # t} /\ undo.entries = undo.live
          /\ \A r \in undo.live :
                /\ undo.header[r].xmin = header[r].xmin
                /\ header[r].xmax # t => undo.header[r].xmax = header[r].xmax
                /\ header[r].xmax = t /\ undo.header[r].xmax # None =>
                      r \in restamped /\ status[undo.header[r].xmax].kind = "Committed"
          /\ \A r \in Rows \ undo.live :
                undo.header[r].xmax = IF r \in live THEN None ELSE header[r].xmax
      BY Zenon, <1>1, <2>1 DEF IInv, UndoRestores
    <3>3. undo.live = {r \in live' : header'[r].xmin # t}
      BY <1>2, <3>2
    <3>4. ASSUME NEW r \in undo.live
          PROVE  /\ undo.header[r].xmin = header'[r].xmin
                 /\ header'[r].xmax # t => undo.header[r].xmax = header'[r].xmax
                 /\ header'[r].xmax = t /\ undo.header[r].xmax # None =>
                       r \in restamped' /\ status[undo.header[r].xmax].kind = "Committed"
      <4>1. CASE r \in Del
        <5>1. /\ r \in live /\ header[r].xmax # t /\ undo.header[r].xmax = header[r].xmax
              /\ undo.header[r].xmin = header[r].xmin
          BY Zenon, <3>2, <4>1
        <5>2. undo.header[r].xmax # None => status[undo.header[r].xmax].kind = "Committed"
          BY Zenon, <1>3, <5>1
        <5> QED
          BY Zenon, <1>2, <1>11, <4>1, <5>1, <5>2
      <4>2. CASE r \notin Del
        BY Zenon, <1>2, <1>11, <3>2, <4>2
      <4> QED
        BY Zenon, <4>1, <4>2
    <3>5. ASSUME NEW r \in Rows \ undo.live
          PROVE  undo.header[r].xmax = IF r \in live' THEN None ELSE header'[r].xmax
      <4>1. CASE r \in Ins
        BY Zenon, <1>2, <3>2, <3>5, <4>1
      <4>2. CASE r \notin Ins
        BY Zenon, <1>2, <1>11, <3>2, <3>5, <4>2
      <4> QED
        BY Zenon, <4>1, <4>2
    <3> QED
      BY Zenon, <1>1, <3>1, <3>2, <3>3, <3>4, <3>5 DEF UndoRestores
  <2>2. CASE writer = None
    <3>1. undo'.header = header /\ undo'.live = live /\ undo'.entries = live
      BY Zenon, <1>1, <2>2, Unleased DEF Acquire
    <3>2. \A r \in live : header[r].xmin # t /\ header[r].xmax # t
      BY Zenon, <2>2, Unleased
    <3>3. live = {r \in live' : header'[r].xmin # t}
      BY <1>2, <3>2
    <3>4. ASSUME NEW r \in live
          PROVE  /\ header[r].xmin = header'[r].xmin
                 /\ header'[r].xmax # t => header[r].xmax = header'[r].xmax
                 /\ header'[r].xmax = t /\ header[r].xmax # None =>
                       r \in restamped' /\ status[header[r].xmax].kind = "Committed"
      <4>1. header[r].xmax # None => status[header[r].xmax].kind = "Committed"
        BY Zenon, <1>3, <3>2
      <4> QED
        BY Zenon, <1>1, <1>2, <1>11, <3>2, <4>1
    <3>5. ASSUME NEW r \in Rows \ live
          PROVE  header[r].xmax = IF r \in live' THEN None ELSE header'[r].xmax
      <4>1. CASE r \in Ins
        BY Zenon, <1>2, <4>1
      <4>2. CASE r \notin Ins
        BY Zenon, <1>2, <1>11, <3>5, <4>2
      <4> QED
        BY Zenon, <4>1, <4>2
    <3> QED
      BY Zenon, <1>1, <3>1, <3>3, <3>4, <3>5 DEF UndoRestores
  <2> QED
    BY Zenon, <1>1, <2>1, <2>2
<1>10. \A r \in live' : header'[r].xmin # t => r \in entries
  BY <1>1, <1>2, Unleased DEF IInv, IndexComplete
<1> QED
  BY Zenon, <1>4, <1>5, <1>6, <1>8, <1>9, <1>10

(* Until an index insert fails, every version has its entry.              *)
LEMMA Indexes ==
    ASSUME IInv, NEW t \in Txns, t \notin failed, writer \in {None, t}
    PROVE  entries = live
<1>1. entries \subseteq live /\ \A r \in live \ entries : header[r].xmin = writer /\ writer \in failed
  BY Zenon DEF IInv, IndexComplete
<1>2. \A r \in live : header[r].xmin \in Txns
  BY Zenon DEF IInv, Authors
<1>3. None \notin Txns
  BY DEF None, Txns
<1> QED BY Zenon, <1>1, <1>2, <1>3

(* The index part of a write.                                              *)
LEMMA IndexedKeeps ==
    ASSUME IInv, NEW t \in Txns, t \notin failed, NEW r, NEW ok \in BOOLEAN,
           Indexed(t, r, ok), writer' = t, writer \in {None, t},
           live' = live \union {r}, header'[r].xmin = t,
           \A x \in live : header'[x].xmin = header[x].xmin
    PROVE  IndexComplete'
BY Zenon, Indexes DEF Indexed, IndexComplete

(* insert_in                                                               *)
LEMMA InsertKeeps ==
    ASSUME IInv, NEW t \in Txns, NEW r \in Rows, NEW ok \in BOOLEAN, Insert(t, r, ok) PROVE IInv'
<1>1. /\ status[t] = Active /\ t \notin failed /\ header[r] = Blank /\ Acquire(t)
      /\ header' = [header EXCEPT ![r] = InsertedBy(t)]
      /\ live' = live \union {r} /\ Indexed(t, r, ok) /\ Logged({r}, {}, t)
      /\ UNCHANGED <<status, level, command, nextTxn, snapVars, maxSeq, dbVars, committed, first,
                     restamped>>
  BY Zenon DEF Insert, Running, Fresh
<1>2. r \notin live
  BY <1>1 DEF IInv, Authors, Blank, None, Txns
<1>3. CommandId(t) \in 0..MaxCommand /\ t \in 0..MaxTxn /\ InsertedBy(t) \in Headers
  <2>1. CommandId(t) \in 0..MaxCommand /\ t \in 0..MaxTxn
    BY MvccAssumption DEF CommandId, IInv, TypeOK, Txns
  <2> QED
    BY <2>1, MvccAssumption DEF InsertedBy, Headers, None
<1>4. Marks(t, {r}, {}) /\ header' \in [Rows -> Headers]
  <2>1. header \in [Rows -> Headers]
    BY Zenon DEF IInv, TypeOK
  <2>2. header' \in [Rows -> Headers]
    BY Zenon, <1>1, <1>3, <2>1
  <2>3. header'[r] = InsertedBy(t) /\ \A x \in Rows : x # r => header'[x] = header[x]
    BY Zenon, <1>1, <2>1
  <2>4. InsertedBy(t).xmin = t /\ InsertedBy(t).cmin = CommandId(t) /\ InsertedBy(t).xmax = None
    BY Zenon DEF InsertedBy
  <2>5. restamped' = restamped \union {x \in {} : header[x].xmax # None}
    BY Zenon, <1>1
  <2> QED
    BY Zenon, <1>1, <2>2, <2>3, <2>4, <2>5 DEF Marks
<1>5. /\ Authors' /\ PendingMarked' /\ UndoRestores' /\ Removed'
      /\ \A c \in Seqs : Same(c)
  <2>1. {r} \in SUBSET (Rows \ live) /\ {} \in SUBSET live /\ \A x \in {} : header[x].xmax # t
    BY Zenon, <1>2
  <2>3. \A x \in {r} : header[x].xmax = None
    BY <1>1 DEF Blank
  <2>2. UNCHANGED <<status, maxSeq, dbVars, committed>>
    BY Zenon, <1>1
  <2> QED
    <3>1. Writes(t, {r}, {})
      BY Zenon, <1>4, <2>1, <2>3 DEF Writes
    <3> QED
      BY Zenon, <1>1, <1>4, <2>2, <3>1, WriteKeeps
<1>6. TypeOK'
  <2>1. live' \subseteq Rows /\ entries' \subseteq Rows /\ failed' \subseteq Txns
    BY Zenon, <1>1 DEF IInv, TypeOK, Indexed
  <2>2. writer' \in {None} \union {u \in Txns : status'[u] = Active}
    BY Zenon, <1>1 DEF Acquire
  <2>3. undo' \in [header : [Rows -> Headers], live : SUBSET Rows, entries : SUBSET Rows]
    BY Zenon, <1>1 DEF Acquire, IInv, TypeOK
  <2>4. pend' \in [ins : SUBSET (Rows \X (0..MaxCommand)), del : SUBSET (Rows \X (0..MaxCommand))]
    BY Zenon, <1>1, <1>3 DEF Logged, IInv, TypeOK
  <2> QED
    BY Zenon, <1>1, <1>4, <2>1, <2>2, <2>3, <2>4 DEF IInv, TypeOK, snapVars, dbVars
<1>7. Counters'
  BY Zenon, <1>1 DEF IInv, Counters, snapVars, dbVars
<1>8. IndexComplete'
  <2>1. header'[r].xmin = t /\ \A x \in live : header'[x].xmin = header[x].xmin
    BY Zenon, <1>1, <1>2, <1>4 DEF Marks, IInv, TypeOK
  <2> QED
    BY Zenon, <1>1, <2>1, IndexedKeeps DEF Acquire
<1>9. Exact'
  BY Zenon, <1>1, <1>5, ExactKept DEF Protected, snapVars, dbVars
<1>10. Pinned'
  BY Zenon, <1>1, PinnedGrows DEF snapVars, dbVars
<1> QED
  BY Zenon, <1>5, <1>6, <1>7, <1>8, <1>9, <1>10 DEF IInv

(* A row that a statement may change is in the heap, and its own           *)
(* transaction has not expired it.                                         *)
LEMMA TargetFacts ==
    ASSUME IInv, Commands, NEW t \in Txns, status[t] = Active, NEW r, Target(t, r)
    PROVE  Found(t, r) /\ r \in live /\ header[r].xmax # t
<1>1. Found(t, r) /\ r \in live /\ IsVisible(header[r], WriteView(t))
  BY Zenon DEF Target, Found, Seen
<1>2. ~Expired(header[r], WriteView(t)) /\ WriteView(t).own = t /\ WriteView(t).cmd = CommandId(t)
  BY Zenon, <1>1 DEF IsVisible, WriteView
<1>3. header[r].xmax = t => ~(header[r].cmax <= CommandId(t))
  BY <1>2 DEF Expired, Txns, None
<1>4. header[r].xmax = t => header[r].cmax <= CommandId(t)
  <2>1. t # None /\ status[t].kind # "Committed"
    BY StatusFacts DEF Txns, None
  <2>2. header[r].xmax = t => writer = t
    BY Zenon, <1>1, <2>1 DEF IInv, Authors
  <2> QED
    BY Zenon, <1>1, <2>1, <2>2 DEF Commands
<1> QED
  BY Zenon, <1>1, <1>3, <1>4

(* Expiring a version keeps who inserted it.                               *)
LEMMA ExpireFacts ==
    ASSUME NEW h \in Headers, NEW t \in 0..MaxTxn, CommandId(t) \in 0..MaxCommand
    PROVE  /\ Expire(h, t) \in Headers
           /\ Expire(h, t).xmin = h.xmin /\ Expire(h, t).cmin = h.cmin
           /\ Expire(h, t).xmax = t /\ Expire(h, t).cmax = CommandId(t)
BY Zenon DEF Expire, Headers

(* update_in                                                               *)
LEMMA UpdateKeeps ==
    ASSUME IInv, Commands, NEW t \in Txns, NEW r \in Rows, NEW new \in Rows,
           NEW ok \in BOOLEAN, Update(t, r, new, ok)
    PROVE  IInv'
<1>1. /\ status[t] = Active /\ t \notin failed /\ header[new] = Blank /\ Acquire(t)
      /\ Target(t, r) /\ header' = [header EXCEPT ![r] = Expire(@, t), ![new] = InsertedBy(t)]
      /\ live' = live \union {new} /\ Indexed(t, new, ok) /\ Logged({new}, {r}, t)
      /\ pins' = WritePins(t) /\ Restamped(r)
      /\ UNCHANGED <<status, level, command, nextTxn, views, maxSeq, dbVars, committed, first>>
  BY Zenon DEF Update, Running, Fresh
<1>2. new \notin live /\ Found(t, r) /\ r \in live /\ header[r].xmax # t /\ r # new
  <2>1. new \notin live
    BY <1>1 DEF IInv, Authors, Blank, None, Txns
  <2> QED
    BY Zenon, <1>1, <2>1, TargetFacts
<1>10. restamped' = restamped \union {x \in {r} : header[x].xmax # None}
  <2>1. restamped' = IF header[r].xmax = None THEN restamped ELSE restamped \union {r}
    BY Zenon, <1>1 DEF Restamped
  <2> QED
    BY Zenon, <2>1
<1>3. CommandId(t) \in 0..MaxCommand /\ t \in 0..MaxTxn /\ InsertedBy(t) \in Headers
  <2>1. CommandId(t) \in 0..MaxCommand /\ t \in 0..MaxTxn
    BY MvccAssumption DEF CommandId, IInv, TypeOK, Txns
  <2> QED
    BY <2>1, MvccAssumption DEF InsertedBy, Headers, None
<1>4. Marks(t, {new}, {r}) /\ header' \in [Rows -> Headers]
  <2>1. header \in [Rows -> Headers]
    BY Zenon DEF IInv, TypeOK
  <2>2. Expire(header[r], t) \in Headers
    BY Zenon, <1>3, <2>1, ExpireFacts
  <2>3. header' \in [Rows -> Headers]
    BY Zenon, <1>1, <1>2, <1>3, <2>1, <2>2
  <2>4. /\ header'[new] = InsertedBy(t) /\ header'[r] = Expire(header[r], t)
        /\ \A x \in Rows : x # r /\ x # new => header'[x] = header[x]
    BY Zenon, <1>1, <1>2, <2>1
  <2>5. InsertedBy(t).xmin = t /\ InsertedBy(t).cmin = CommandId(t) /\ InsertedBy(t).xmax = None
    BY Zenon DEF InsertedBy
  <2>6. /\ Expire(header[r], t).xmin = header[r].xmin /\ Expire(header[r], t).cmin = header[r].cmin
        /\ Expire(header[r], t).xmax = t /\ Expire(header[r], t).cmax = CommandId(t)
    BY Zenon, <1>3, <2>1, ExpireFacts
  <2> QED
    BY Zenon, <1>1, <1>2, <1>10, <2>3, <2>4, <2>5, <2>6 DEF Marks
<1>5. /\ Authors' /\ PendingMarked' /\ UndoRestores' /\ Removed'
      /\ \A c \in Seqs : Same(c)
  <2>1. /\ {new} \in SUBSET (Rows \ live) /\ {r} \in SUBSET live
        /\ \A x \in {r} : header[x].xmax # t
    BY Zenon, <1>2
  <2>3. \A x \in {new} : header[x].xmax = None
    BY <1>1 DEF Blank
  <2>2. UNCHANGED <<status, maxSeq, dbVars, committed>>
    BY Zenon, <1>1
  <2> QED
    <3>1. Writes(t, {new}, {r})
      BY Zenon, <1>4, <2>1, <2>3 DEF Writes
    <3> QED
      BY Zenon, <1>1, <1>4, <2>2, <3>1, WriteKeeps
<1>6. TypeOK'
  <2>1. live' \subseteq Rows /\ entries' \subseteq Rows /\ failed' \subseteq Txns
    BY Zenon, <1>1 DEF IInv, TypeOK, Indexed
  <2>2. writer' \in {None} \union {u \in Txns : status'[u] = Active}
    BY Zenon, <1>1 DEF Acquire
  <2>3. undo' \in [header : [Rows -> Headers], live : SUBSET Rows, entries : SUBSET Rows]
    BY Zenon, <1>1 DEF Acquire, IInv, TypeOK
  <2>4. pend' \in [ins : SUBSET (Rows \X (0..MaxCommand)), del : SUBSET (Rows \X (0..MaxCommand))]
    BY Zenon, <1>1, <1>3 DEF Logged, IInv, TypeOK
  <2>5. pins' \subseteq Holders \X Seqs
    BY Zenon, <1>1, <1>2, WritePinsFacts
  <2> QED
    BY Zenon, <1>1, <1>4, <1>10, <2>1, <2>2, <2>3, <2>4, <2>5 DEF IInv, TypeOK, dbVars
<1>7. Counters' /\ Exact'
  BY Zenon, <1>1, <1>2, <1>5, <1>10, WritePinsFacts, PinsGrow DEF dbVars
<1>8. IndexComplete'
  <2>1. header'[new].xmin = t /\ \A x \in live : header'[x].xmin = header[x].xmin
    BY Zenon, <1>1, <1>2, <1>4 DEF Marks, IInv, TypeOK
  <2> QED
    BY Zenon, <1>1, <2>1, IndexedKeeps DEF Acquire
<1>9. Pinned'
  BY Zenon, <1>1, <1>2, WritePinsFacts, PinnedGrows DEF dbVars
<1> QED
  BY Zenon, <1>5, <1>6, <1>7, <1>8, <1>9 DEF IInv

(* delete_in                                                               *)
LEMMA DeleteKeeps ==
    ASSUME IInv, Commands, NEW t \in Txns, NEW r \in Rows, Delete(t, r)
    PROVE  IInv'
<1>1. /\ status[t] = Active /\ t \notin failed /\ Acquire(t)
      /\ Target(t, r) /\ header' = [header EXCEPT ![r] = Expire(@, t)]
      /\ UNCHANGED <<live, entries>> /\ Logged({}, {r}, t) /\ pins' = WritePins(t)
      /\ Restamped(r)
      /\ UNCHANGED <<txnVars, views, maxSeq, dbVars, committed, first>>
  BY Zenon DEF Delete, Running
<1>2. Found(t, r) /\ r \in live /\ header[r].xmax # t
  BY Zenon, <1>1, TargetFacts
<1>10. restamped' = restamped \union {x \in {r} : header[x].xmax # None}
  <2>1. restamped' = IF header[r].xmax = None THEN restamped ELSE restamped \union {r}
    BY Zenon, <1>1 DEF Restamped
  <2> QED
    BY Zenon, <2>1
<1>3. CommandId(t) \in 0..MaxCommand /\ t \in 0..MaxTxn
  BY MvccAssumption DEF CommandId, IInv, TypeOK, Txns
<1>4. Marks(t, {}, {r}) /\ header' \in [Rows -> Headers]
  <2>1. header \in [Rows -> Headers]
    BY Zenon DEF IInv, TypeOK
  <2>2. Expire(header[r], t) \in Headers
    BY Zenon, <1>3, <2>1, ExpireFacts
  <2>3. header' \in [Rows -> Headers]
    BY Zenon, <1>1, <2>1, <2>2
  <2>4. /\ header'[r] = Expire(header[r], t)
        /\ \A x \in Rows : x # r => header'[x] = header[x]
    BY Zenon, <1>1, <2>1
  <2>5. /\ Expire(header[r], t).xmin = header[r].xmin /\ Expire(header[r], t).cmin = header[r].cmin
        /\ Expire(header[r], t).xmax = t /\ Expire(header[r], t).cmax = CommandId(t)
    BY Zenon, <1>3, <2>1, ExpireFacts
  <2> QED
    BY Zenon, <1>1, <1>10, <2>3, <2>4, <2>5 DEF Marks
<1>5. /\ Authors' /\ PendingMarked' /\ UndoRestores' /\ Removed'
      /\ \A c \in Seqs : Same(c)
      /\ \A x \in live' : header'[x].xmin # t => x \in entries
  <2>1. /\ {} \in SUBSET (Rows \ live) /\ {r} \in SUBSET live
        /\ \A x \in {r} : header[x].xmax # t
    BY Zenon, <1>2
  <2>3. \A x \in {} : header[x].xmax = None
    BY Zenon
  <2>2. UNCHANGED <<status, maxSeq, dbVars, committed>>
    BY Zenon, <1>1 DEF txnVars
  <2> QED
    <3>1. Writes(t, {}, {r})
      BY Zenon, <1>4, <2>1, <2>3 DEF Writes
    <3> QED
      BY Zenon, <1>1, <1>4, <2>2, <3>1, WriteKeeps
<1>6. TypeOK'
  <2>2. writer' \in {None} \union {u \in Txns : status'[u] = Active}
    BY Zenon, <1>1 DEF Acquire, txnVars
  <2>3. undo' \in [header : [Rows -> Headers], live : SUBSET Rows, entries : SUBSET Rows]
    BY Zenon, <1>1 DEF Acquire, IInv, TypeOK
  <2>4. pend' \in [ins : SUBSET (Rows \X (0..MaxCommand)), del : SUBSET (Rows \X (0..MaxCommand))]
    BY Zenon, <1>1, <1>3 DEF Logged, IInv, TypeOK
  <2>5. pins' \subseteq Holders \X Seqs
    BY Zenon, <1>1, <1>2, WritePinsFacts
  <2> QED
    BY Zenon, <1>1, <1>4, <1>10, <2>2, <2>3, <2>4, <2>5 DEF IInv, TypeOK, dbVars, txnVars
<1>7. Counters' /\ Exact'
  BY Zenon, <1>1, <1>2, <1>5, <1>10, WritePinsFacts, PinsGrow DEF dbVars, txnVars
<1>8. IndexComplete'
  <2>1. writer \in {None, t}
    BY Zenon, <1>1 DEF Acquire
  <2>2. entries = live
    BY Zenon, <1>1, <2>1, Indexes
  <2> QED
    BY Zenon, <1>1, <2>2 DEF IndexComplete
<1>9. Pinned'
  BY Zenon, <1>1, <1>2, WritePinsFacts, PinnedGrows DEF dbVars, txnVars
<1> QED
  BY Zenon, <1>5, <1>6, <1>7, <1>8, <1>9 DEF IInv

=============================================================================
