-------------------------- MODULE ServerRuntimeProofs --------------------------
(***************************************************************************)
(* Proofs about ServerRuntime, for any number of sessions and connections, *)
(* of requests and of faults.                                              *)
(***************************************************************************)
EXTENDS ServerRuntime, TLAPS

(* The commands in the queue.                                              *)
Pending == {cmds[i] : i \in DOMAIN cmds}

(* Who may have a command in the queue, and which: a caller that waits for *)
(* the reply.                                                              *)
Awaited(m) ==
    \/ /\ m.from \in Ids /\ m.id = m.from
       /\ \/ conn[m.from] = "opening" /\ m.op = "open"
          \/ conn[m.from] = "waiting" /\ m.op = "request"
          \/ conn[m.from] = "closing" /\ m.op = "close"
    \/ m.from = Tick /\ m.op = "tick" /\ tick = "pending"
    \/ m.from = Control /\ m.op = "control" /\ opc = "waiting" /\ ~control
    \/ m.from = Stop /\ m.op = "shutdown" /\ lpc = "stopping"
    \/ m.from = Cleanup /\ m.op = "close" /\ lpc = "cleanup" /\ m.id = reaped

(* Each command is one its caller waits for, and has not been answered;    *)
(* Shutdown is answered by success or by a fatal error.                    *)
StopReplies == {NoReply, "ok", "fatal", "dropped"}
Queue ==
    /\ \A m \in Pending : Awaited(m) /\ reply[m.from] = NoReply
    /\ QueueBounded
    /\ wpc = "gone" => cmds = <<>>
    /\ reply[Stop] \in StopReplies

(* The listener's books: the connections that have a thread, the next      *)
(* session, and the panicked connection that is being cleaned up after.    *)
Books ==
    /\ \A c \in Ids : c \in conns <=> conn[c] \notin {"unused", "joined"}
    /\ \A c \in Ids : c >= next => conn[c] = "unused"
    /\ reaped # 0 <=> lpc = "cleanup"
    /\ reaped # 0 => conn[reaped] = "joined"
    /\ control => opc = "waiting"
    /\ control \/ opc # "waiting" => reply[Control] = NoReply

(* While the worker serves, a session is registered only from the reply to *)
(* OpenSession until the reply to CloseSession, which its connection sends *)
(* or, after a panic, the listener.                                        *)
Owned ==
    wpc = "serving" =>
        \A c \in sessions :
            /\ conn[c] \notin {"unused", "handshake", "finished"}
            /\ conn[c] = "opening" => reply[c] = "ok"
            /\ conn[c] = "closing" => reply[c] = NoReply
            /\ conn[c] = "joined" => c = reaped /\ reply[Cleanup] = NoReply

(* How the worker and the accept loop end.                                 *)
Ends ==
    /\ wpc = "serving" <=> wend = "running"
    /\ wend = "ok" => closed /\ sessions = {}
    /\ lpc \in {"poll", "reap", "accept"} => lend = "running"
    /\ lpc \in {"join", "stop", "stopping", "joinWorker", "done"} => lend # "running"
    /\ lpc = "done" => wpc = "gone"
    /\ result # "running" => lpc = "done"
    /\ ResultTruthful

IInv == TypeOK /\ Queue /\ Books /\ Owned /\ Ends

-------------------------------------------------------------------------------
(* LEMMAS *)

Replies == {NoReply, "ok", "denied", "missing", "fatal", "dropped"}

(* The callers that are no connections.                                    *)
LEMMA CallerFacts ==
    /\ Tick \notin Ids /\ Control \notin Ids /\ Stop \notin Ids /\ Cleanup \notin Ids
    /\ Tick # Control /\ Tick # Stop /\ Tick # Cleanup /\ Control # Stop /\ Control # Cleanup
    /\ Stop # Cleanup /\ Ids \subseteq Callers /\ {Tick, Control, Stop, Cleanup} \subseteq Callers
    /\ 0 \notin Ids
BY DEF Tick, Control, Stop, Cleanup, Ids, Callers

(* The queue after a command is put at its end.                            *)
LEMMA Appended ==
    ASSUME TypeOK, QueueBounded, NEW m \in Commands, \A n \in Pending : n.from # m.from,
           cmds' = Append(cmds, m)
    PROVE  cmds' \in Seq(Commands) /\ Pending' = Pending \union {m} /\ QueueBounded'
<1>1. cmds \in Seq(Commands)
  BY Zenon DEF TypeOK
<1>2. /\ cmds' \in Seq(Commands) /\ Len(cmds') = Len(cmds) + 1 /\ Len(cmds) \in Nat
      /\ DOMAIN cmds = 1..Len(cmds) /\ DOMAIN cmds' = 1..(Len(cmds) + 1)
      /\ \A i \in 1..Len(cmds) : cmds'[i] = cmds[i]
      /\ cmds'[Len(cmds) + 1] = m
  BY <1>1
<1>3. \A i \in DOMAIN cmds : cmds[i].from # m.from
  BY Zenon DEF Pending
<1>4. QueueBounded'
  <2>1. ASSUME NEW i \in DOMAIN cmds', NEW j \in DOMAIN cmds', cmds'[i].from = cmds'[j].from
        PROVE  i = j
    <3>1. CASE i \in 1..Len(cmds) /\ j \in 1..Len(cmds)
      BY Zenon, <1>2, <2>1, <3>1 DEF QueueBounded
    <3>2. CASE i = Len(cmds) + 1 \/ j = Len(cmds) + 1
      BY <1>2, <1>3, <2>1, <3>2
    <3> QED
      BY <1>2, <3>1, <3>2
  <2> QED
    BY Zenon, <2>1 DEF QueueBounded
<1>5. Pending' = Pending \union {m}
  BY <1>2 DEF Pending
<1> QED
  BY Zenon, <1>2, <1>4, <1>5

(* The queue after the worker has taken its head.                          *)
LEMMA Taken ==
    ASSUME TypeOK, QueueBounded, cmds # <<>>, cmds' = Tail(cmds)
    PROVE  /\ cmds' \in Seq(Commands) /\ QueueBounded'
           /\ Head1 \in Pending /\ Head1 \in Commands
           /\ Pending' \subseteq Pending /\ \A m \in Pending' : m.from # Head1.from
<1>1. cmds \in Seq(Commands)
  BY Zenon DEF TypeOK
<1>2. /\ cmds' \in Seq(Commands) /\ Len(cmds) \in Nat /\ 1 \in 1..Len(cmds)
      /\ DOMAIN cmds = 1..Len(cmds) /\ DOMAIN cmds' = 1..(Len(cmds) - 1)
      /\ \A i \in 1..(Len(cmds) - 1) : cmds'[i] = cmds[i + 1] /\ i + 1 \in 1..Len(cmds) /\ i + 1 # 1
      /\ Head1 = cmds[1]
  BY <1>1 DEF Head1
<1>3. QueueBounded'
  <2>1. ASSUME NEW i \in DOMAIN cmds', NEW j \in DOMAIN cmds', cmds'[i].from = cmds'[j].from
        PROVE  i = j
    <3>1. i + 1 = j + 1
      BY <1>2, <2>1 DEF QueueBounded
    <3> QED
      BY <1>2, <3>1
  <2> QED
    BY Zenon, <2>1 DEF QueueBounded
<1>4. Head1 \in Pending /\ Head1 \in Commands
  BY <1>1, <1>2 DEF Pending
<1>5. ASSUME NEW m \in Pending' PROVE m \in Pending /\ m.from # Head1.from
  <2>1. PICK i \in DOMAIN cmds' : m = cmds'[i]
    BY Zenon DEF Pending
  <2>2. m = cmds[i + 1] /\ i + 1 \in DOMAIN cmds /\ i + 1 # 1 /\ 1 \in DOMAIN cmds
    BY Zenon, <1>2, <2>1
  <2>3. m.from # Head1.from
    BY Zenon, <1>2, <2>2 DEF QueueBounded
  <2> QED
    BY Zenon, <2>2, <2>3 DEF Pending
<1> QED
  BY Zenon, <1>2, <1>3, <1>4, <1>5

(* Every queued command has a caller.                                      *)
LEMMA PendingFacts == ASSUME TypeOK, NEW m \in Pending PROVE m \in Commands /\ m.from \in Callers
<1>1. PICK i \in DOMAIN cmds : m = cmds[i]
  BY Zenon DEF Pending
<1>2. cmds \in Seq(Commands)
  BY Zenon DEF TypeOK
<1>3. m \in Commands
  BY <1>1, <1>2
<1> QED
  BY Zenon, <1>3 DEF Commands

(* What a reply channel holds after it is set.                             *)
LEMMA Replied ==
    ASSUME TypeOK, NEW x \in Callers, NEW r \in Replies, reply' = [reply EXCEPT ![x] = r]
    PROVE  /\ reply' \in [Callers -> Replies] /\ reply'[x] = r
           /\ \A y \in Callers : y # x => reply'[y] = reply[y]
BY Zenon DEF TypeOK, Replies

(* A caller that waits for nothing sends a command.                        *)
LEMMA SendStep ==
    ASSUME TypeOK, Queue, NEW op, NEW from \in Callers, NEW id, Cmd(op, from, id) \in Commands,
           Send(op, from, id), \A m \in Pending : m.from # from,
           Awaited(Cmd(op, from, id))', \A m \in Pending : Awaited(m)', wpc' = wpc
    PROVE  /\ Queue' /\ cmds' \in Seq(Commands) /\ reply' \in [Callers -> Replies]
           /\ reply'[from] = NoReply /\ \A y \in Callers : y # from => reply'[y] = reply[y]
<1> DEFINE m == Cmd(op, from, id)
<1>1. m.from = from /\ wpc # "gone" /\ cmds' = Append(cmds, m)
  BY Zenon DEF Send, Cmd, Receiving
<1> HIDE DEF m
<1>2. m \in Commands /\ Awaited(m)'
  BY Zenon DEF m
<1>3. cmds' \in Seq(Commands) /\ Pending' = Pending \union {m} /\ QueueBounded'
  BY Zenon, <1>1, <1>2, Appended DEF Queue
<1>4. /\ reply' \in [Callers -> Replies] /\ reply'[from] = NoReply
      /\ \A y \in Callers : y # from => reply'[y] = reply[y]
  BY Zenon, Replied DEF Send, Replies
<1>5. ASSUME NEW n \in Pending' PROVE Awaited(n)' /\ reply'[n.from] = NoReply
  <2>1. CASE n = m
    BY Zenon, <1>1, <1>2, <1>4, <2>1
  <2>2. CASE n \in Pending
    <3>1. n.from \in Callers
      BY Zenon, <2>2, PendingFacts
    <3> QED
      BY Zenon, <1>4, <2>2, <3>1 DEF Queue
  <2> QED
    BY Zenon, <1>3, <2>1, <2>2
<1>6. reply'[Stop] \in StopReplies
  BY Zenon, <1>4, CallerFacts DEF Queue, StopReplies
<1> QED
  BY Zenon, <1>1, <1>3, <1>4, <1>5, <1>6 DEF Queue

(* A reply channel nobody's command is queued for is emptied or closed.    *)
LEMMA ReceiveStep ==
    ASSUME TypeOK, Queue, NEW x \in Callers, NEW r \in {NoReply, "dropped"}, UNCHANGED cmds,
           reply' = [reply EXCEPT ![x] = r], \A m \in Pending : m.from # x,
           \A m \in Pending : Awaited(m)', wpc' = wpc
    PROVE  /\ Queue' /\ cmds' \in Seq(Commands) /\ reply' \in [Callers -> Replies]
           /\ reply'[x] = r /\ \A y \in Callers : y # x => reply'[y] = reply[y]
<1>1. /\ reply' \in [Callers -> Replies] /\ reply'[x] = r
      /\ \A y \in Callers : y # x => reply'[y] = reply[y]
  BY Zenon, Replied DEF Replies
<1>2. Pending' = Pending /\ QueueBounded' /\ cmds' \in Seq(Commands)
  BY Zenon DEF Pending, Queue, QueueBounded, TypeOK
<1>3. \A m \in Pending : m.from \in Callers
  BY Zenon, PendingFacts
<1>4. reply'[Stop] \in StopReplies
  BY Zenon, <1>1, CallerFacts DEF Queue, StopReplies
<1> QED
  BY Zenon, <1>1, <1>2, <1>3, <1>4 DEF Queue

(* Nothing is sent or received.                                            *)
LEMMA QuietStep ==
    ASSUME TypeOK, Queue, UNCHANGED <<cmds, reply>>, \A m \in Pending : Awaited(m)',
           wpc' = "gone" => wpc = "gone"
    PROVE  Queue' /\ cmds' \in Seq(Commands) /\ reply' \in [Callers -> Replies]
BY Zenon DEF Pending, Queue, QueueBounded, TypeOK, Replies

(* The worker takes a command and answers it.                              *)
LEMMA TakeStep ==
    ASSUME TypeOK, Queue, wpc = "serving", cmds # <<>>, cmds' = Tail(cmds), NEW r \in Replies,
           Answer(r), UNCHANGED <<conn, tick, opc, control, lpc, reaped>>, wpc' # "gone",
           Head1.op = "shutdown" => r \in StopReplies
    PROVE  /\ Queue' /\ cmds' \in Seq(Commands) /\ reply' \in [Callers -> Replies]
           /\ Head1 \in Commands /\ Awaited(Head1) /\ reply[Head1.from] = NoReply
           /\ reply'[Head1.from] = r
           /\ \A y \in Callers : y # Head1.from => reply'[y] = reply[y]
<1>1. /\ cmds' \in Seq(Commands) /\ QueueBounded'
      /\ Head1 \in Pending /\ Head1 \in Commands
      /\ Pending' \subseteq Pending /\ \A m \in Pending' : m.from # Head1.from
  BY Zenon, Taken DEF Queue
<1>2. Head1.from \in Callers
  BY Zenon, <1>1 DEF Commands
<1> DEFINE x == Head1.from
<1>3. /\ reply' \in [Callers -> Replies] /\ reply'[x] = r
      /\ \A y \in Callers : y # x => reply'[y] = reply[y]
  <2>1. x \in Callers /\ reply' = [reply EXCEPT ![x] = r]
    BY Zenon, <1>2 DEF Answer
  <2> HIDE DEF x
  <2> QED
    BY Zenon, <2>1, Replied
<1>4. \A m \in Pending : m.from \in Callers /\ (Awaited(m) => Awaited(m)')
  BY Zenon, PendingFacts DEF Awaited
<1>5. reply'[Stop] \in StopReplies
  <2>1. Head1.from = Stop => Head1.op = "shutdown"
    BY Zenon, <1>1, CallerFacts DEF Queue, Awaited
  <2> QED
    BY Zenon, <1>3, <2>1, CallerFacts DEF Queue
<1> QED
  BY Zenon, <1>1, <1>3, <1>4, <1>5 DEF Queue

-------------------------------------------------------------------------------
(* THE WORKER *)

USE DEF workerVars, listVars, opVars, mainVars, chanVars

(* A command is answered, whatever it does to the sessions.                *)
LEMMA AnswerStep ==
    ASSUME IInv, wpc = "serving", cmds # <<>>, cmds' = Tail(cmds), NEW r \in Replies, Answer(r),
           UNCHANGED <<conn, listVars, opVars, mainVars>>, wpc' # "gone",
           Head1.op = "shutdown" => r \in StopReplies
    PROVE  /\ Queue' /\ Books' /\ cmds' \in Seq(Commands) /\ reply' \in [Callers -> Replies]
           /\ Head1 \in Commands /\ Awaited(Head1) /\ reply[Head1.from] = NoReply
           /\ reply'[Head1.from] = r /\ \A y \in Callers : y # Head1.from => reply'[y] = reply[y]
<1>1. /\ Queue' /\ cmds' \in Seq(Commands) /\ reply' \in [Callers -> Replies]
      /\ Head1 \in Commands /\ Awaited(Head1) /\ reply[Head1.from] = NoReply
      /\ reply'[Head1.from] = r
      /\ \A y \in Callers : y # Head1.from => reply'[y] = reply[y]
  BY Zenon, TakeStep DEF IInv
<1>2. control \/ opc # "waiting" => reply'[Control] = reply[Control]
  <2>1. control \/ opc # "waiting" => Head1.from # Control
    BY Zenon, <1>1, CallerFacts DEF Awaited
  <2> QED
    BY Zenon, <1>1, <2>1, CallerFacts
<1>3. Books'
  BY Zenon, <1>2 DEF IInv, Books
<1> QED
  BY Zenon, <1>1, <1>3

LEMMA OpenSessionKeeps == ASSUME IInv, OpenSession PROVE IInv'
<1>1. PICK r \in {"ok", "denied"} :
        /\ wpc = "serving" /\ cmds # <<>> /\ Head1.op = "open" /\ cmds' = Tail(cmds) /\ Answer(r)
        /\ sessions' = (IF r = "ok" THEN sessions \union {Head1.id} ELSE sessions)
        /\ UNCHANGED <<wpc, wend, event, txn, closed, conn, listVars, opVars, mainVars, faults, work>>
  BY Zenon DEF OpenSession, Takes, NoFault
<1>2. /\ Queue' /\ Books' /\ cmds' \in Seq(Commands) /\ reply' \in [Callers -> Replies]
      /\ Head1 \in Commands /\ Awaited(Head1) /\ reply[Head1.from] = NoReply
      /\ reply'[Head1.from] = r /\ \A y \in Callers : y # Head1.from => reply'[y] = reply[y]
  BY Zenon, <1>1, AnswerStep DEF Replies
<1>3. Head1.from \in Ids /\ Head1.id = Head1.from /\ conn[Head1.from] = "opening"
  BY Zenon, <1>1, <1>2 DEF Awaited
<1>4. TypeOK'
  BY <1>1, <1>2, <1>3 DEF IInv, TypeOK, Replies
<1>5. Owned'
  <2>1. ASSUME NEW c \in sessions'
        PROVE  /\ conn[c] \notin {"unused", "handshake", "finished"}
               /\ conn[c] = "opening" => reply'[c] = "ok"
               /\ conn[c] = "closing" => reply'[c] = NoReply
               /\ conn[c] = "joined" => c = reaped /\ reply'[Cleanup] = NoReply
    <3>1. CASE c = Head1.from
      <4>1. CASE c \in sessions
        BY Zenon, <1>1, <1>2, <1>3, <3>1, <4>1 DEF IInv, Owned, NoReply
      <4>2. CASE c \notin sessions
        BY Zenon, <1>1, <1>2, <1>3, <3>1, <4>2
      <4> QED
        BY Zenon, <4>1, <4>2
    <3>2. CASE c # Head1.from
      <4>1. c \in sessions /\ c \in Callers /\ Cleanup # Head1.from /\ Cleanup \in Callers
        BY Zenon, <1>1, <1>3, <3>2, CallerFacts DEF IInv, TypeOK
      <4> QED
        BY Zenon, <1>1, <1>2, <3>2, <4>1 DEF IInv, Owned
    <3> QED
      BY Zenon, <3>1, <3>2
  <2> QED
    BY Zenon, <1>1, <2>1 DEF Owned
<1>6. Ends'
  BY Zenon, <1>1 DEF IInv, Ends, ResultTruthful
<1> QED
  BY Zenon, <1>2, <1>4, <1>5, <1>6 DEF IInv

LEMMA RequestKeeps == ASSUME IInv, Request PROVE IInv'
<1>1. /\ wpc = "serving" /\ cmds # <<>> /\ Head1.op = "request" /\ cmds' = Tail(cmds)
      /\ UNCHANGED <<wpc, wend, event, sessions, closed, conn, listVars, opVars, mainVars, faults, work>>
  BY Zenon DEF Request, Takes, NoFault
<1>2. PICK r \in {"ok", "missing"} : Answer(r)
  BY Zenon DEF Request
<1>3. /\ Queue' /\ Books' /\ cmds' \in Seq(Commands) /\ reply' \in [Callers -> Replies]
      /\ Head1 \in Commands /\ Awaited(Head1) /\ reply[Head1.from] = NoReply
      /\ reply'[Head1.from] = r /\ \A y \in Callers : y # Head1.from => reply'[y] = reply[y]
  BY Zenon, <1>1, <1>2, AnswerStep DEF Replies, StopReplies
<1>4. Head1.from \in Ids /\ Head1.id = Head1.from /\ conn[Head1.from] = "waiting"
  BY Zenon, <1>1, <1>3 DEF Awaited
<1>5. TypeOK'
  <2>1. txn' \in [Ids -> {"None", "Open", "Decided"}]
    BY Zenon, <1>4 DEF Request, Outcomes, IInv, TypeOK
  <2> QED
    BY <1>1, <1>3, <2>1 DEF IInv, TypeOK, Replies
<1>6. Owned'
  <2>1. ASSUME NEW c \in sessions
        PROVE  /\ conn[c] = "opening" \/ conn[c] = "closing" => reply'[c] = reply[c]
               /\ reply'[Cleanup] = reply[Cleanup]
    BY Zenon, <1>3, <1>4, CallerFacts DEF IInv, TypeOK
  <2> QED
    BY Zenon, <1>1, <2>1 DEF IInv, Owned
<1>7. Ends'
  BY Zenon, <1>1 DEF IInv, Ends, ResultTruthful
<1> QED
  BY Zenon, <1>3, <1>5, <1>6, <1>7 DEF IInv

LEMMA CloseSessionKeeps == ASSUME IInv, CloseSession PROVE IInv'
<1>1. /\ wpc = "serving" /\ cmds # <<>> /\ Head1.op = "close" /\ cmds' = Tail(cmds)
      /\ sessions' = sessions \ {Head1.id}
      /\ UNCHANGED <<wpc, wend, event, closed, conn, listVars, opVars, mainVars, faults, work>>
  BY Zenon DEF CloseSession, Takes
<1>2. PICK r \in {"ok", "missing"} : Answer(r)
  BY Zenon DEF CloseSession
<1>3. /\ Queue' /\ Books' /\ cmds' \in Seq(Commands) /\ reply' \in [Callers -> Replies]
      /\ Head1 \in Commands /\ Awaited(Head1) /\ reply[Head1.from] = NoReply
      /\ reply'[Head1.from] = r /\ \A y \in Callers : y # Head1.from => reply'[y] = reply[y]
  BY Zenon, <1>1, <1>2, AnswerStep DEF Replies, StopReplies
<1>4. \/ Head1.from \in Ids /\ Head1.id = Head1.from /\ conn[Head1.from] = "closing"
      \/ Head1.from = Cleanup /\ Head1.id = reaped
  BY Zenon, <1>1, <1>3 DEF Awaited
<1>5. TypeOK'
  <2>1. txn' \in [Ids -> {"None", "Open", "Decided"}]
    BY Zenon DEF CloseSession, IInv, TypeOK
  <2> QED
    BY <1>1, <1>3, <2>1 DEF IInv, TypeOK, Replies
<1>6. Owned'
  <2>1. ASSUME NEW c \in sessions'
        PROVE  /\ c \in sessions
               /\ conn[c] = "opening" \/ conn[c] = "closing" => reply'[c] = reply[c]
               /\ conn[c] = "joined" => reply'[Cleanup] = reply[Cleanup]
    <3>1. c \in sessions /\ c # Head1.id /\ c \in Ids
      BY Zenon, <1>1 DEF IInv, TypeOK
    <3>2. conn[c] = "joined" => c = reaped
      BY Zenon, <1>1, <3>1 DEF IInv, Owned
    <3> QED
      BY Zenon, <1>3, <1>4, <3>1, <3>2, CallerFacts
  <2> QED
    BY Zenon, <1>1, <2>1 DEF IInv, Owned
<1>7. Ends'
  BY Zenon, <1>1 DEF IInv, Ends, ResultTruthful
<1> QED
  BY <1>3, <1>5, <1>6, <1>7 DEF IInv

(* After these the worker serves no more.                                  *)
LEMMA FailureKeeps ==
    ASSUME IInv, CloseFails \/ Shutdown \/ ShutdownFails PROVE IInv'
<1>1. /\ wpc = "serving" /\ cmds # <<>> /\ cmds' = Tail(cmds)
      /\ UNCHANGED <<conn, listVars, opVars, mainVars>>
      /\ wpc' \in {"failing", "returning"} /\ wend' \in {"ok", "fatal"}
      /\ wend' = "ok" => closed' /\ sessions' = {}
      /\ event' = event /\ closed' \in BOOLEAN
  BY Zenon DEF CloseFails, Shutdown, ShutdownFails, Takes, IInv, TypeOK
<1>2. PICK r \in {"ok", "fatal"} : Answer(r)
  BY Zenon DEF CloseFails, Shutdown, ShutdownFails
<1>3. /\ Queue' /\ Books' /\ cmds' \in Seq(Commands) /\ reply' \in [Callers -> Replies]
  BY Zenon, <1>1, <1>2, AnswerStep DEF Replies, StopReplies
<1>4. /\ sessions' \subseteq Ids /\ txn' \in [Ids -> {"None", "Open", "Decided"}]
      /\ faults' \in 0..MaxFaults /\ work' \in 0..MaxWork
  <2>1. CASE CloseFails
    BY <2>1, ServerAssumption DEF CloseFails, Fault, NoFault, IInv, TypeOK
  <2>2. CASE Shutdown
    BY Zenon, <2>2 DEF Shutdown, IInv, TypeOK
  <2>3. CASE ShutdownFails
    <3>1. faults' \in 0..MaxFaults /\ work' \in 0..MaxWork
      BY <2>3, ServerAssumption DEF ShutdownFails, Fault, NoFault, IInv, TypeOK
    <3>2. sessions' \subseteq Ids /\ txn' \in [Ids -> {"None", "Open", "Decided"}]
      BY Zenon, <2>3 DEF ShutdownFails, IInv, TypeOK
    <3> QED
      BY Zenon, <3>1, <3>2
  <2> QED
    BY Zenon, <2>1, <2>2, <2>3
<1>5. TypeOK'
  BY <1>1, <1>3, <1>4 DEF IInv, TypeOK, Replies
<1>6. Owned' /\ Ends'
  BY Zenon, <1>1 DEF IInv, Owned, Ends, ResultTruthful
<1> QED
  BY Zenon, <1>3, <1>5, <1>6 DEF IInv

LEMMA ServeKeeps == ASSUME IInv, Serve PROVE IInv'
<1>1. /\ wpc = "serving" /\ cmds # <<>> /\ Head1.op \in {"tick", "control"} /\ cmds' = Tail(cmds)
      /\ Answer("ok")
      /\ UNCHANGED <<workerVars, conn, listVars, opVars, mainVars, faults, work>>
  BY Zenon DEF Serve, Takes
<1>2. /\ Queue' /\ Books' /\ cmds' \in Seq(Commands) /\ reply' \in [Callers -> Replies]
      /\ Head1 \in Commands /\ Awaited(Head1)
      /\ \A y \in Callers : y # Head1.from => reply'[y] = reply[y]
  BY Zenon, <1>1, AnswerStep DEF Replies
<1>3. Head1.from \in {Tick, Control}
  BY Zenon, <1>1, <1>2 DEF Awaited
<1>4. TypeOK' /\ Ends'
  <2>1. TypeOK'
    BY <1>1, <1>2 DEF IInv, TypeOK, Replies
  <2>2. Ends'
    BY Zenon, <1>1 DEF IInv, Ends, ResultTruthful
  <2> QED
    BY Zenon, <2>1, <2>2
<1>5. Owned'
  <2>1. reply'[Cleanup] = reply[Cleanup] /\ \A c \in Ids : reply'[c] = reply[c]
    BY Zenon, <1>2, <1>3, CallerFacts
  <2>2. sessions \subseteq Ids
    BY Zenon DEF IInv, TypeOK
  <2> QED
    BY Zenon, <1>1, <2>1, <2>2 DEF IInv, Owned
<1> QED
  BY Zenon, <1>2, <1>4, <1>5 DEF IInv

(* The worker's receiver is dropped.                                       *)
LEMMA ReturnsKeeps ==
    ASSUME IInv, WorkerReturns, wend' # "running", wend' \in {"ok", "fatal", "panic"},
           wend' = "ok" => closed /\ sessions = {}, lpc = "done" => wend' = wend,
           UNCHANGED <<event, sessions, txn, closed, conn, listVars, opVars, mainVars>>,
           faults' \in 0..MaxFaults, work' \in 0..MaxWork
    PROVE  IInv'
<1>1. /\ wpc' = "gone" /\ cmds' = <<>>
      /\ reply' = [x \in Callers |-> IF x \in Dropped THEN "dropped" ELSE reply[x]]
  BY Zenon DEF WorkerReturns
<1>2. reply' \in [Callers -> Replies]
  BY Zenon, <1>1 DEF IInv, TypeOK, Replies
<1>3. Queue'
  <2>1. reply'[Stop] \in StopReplies
    BY Zenon, <1>1, CallerFacts DEF IInv, Queue, StopReplies
  <2> QED
    BY <1>1, <2>1 DEF Queue, Pending, QueueBounded
<1>4. control \/ opc # "waiting" => reply'[Control] = reply[Control]
  <2>1. ASSUME control \/ opc # "waiting" PROVE Control \notin Dropped
    <3>1. \A m \in Pending : m.from # Control
      BY Zenon, <2>1, CallerFacts DEF IInv, Queue, Awaited
    <3> QED
      BY Zenon, <3>1 DEF Dropped, Pending
  <2> QED
    BY Zenon, <1>1, <2>1, CallerFacts
<1>5. Books' /\ Owned'
  BY Zenon, <1>1, <1>4 DEF IInv, Books, Owned
<1>6. TypeOK'
  BY <1>1, <1>2 DEF IInv, TypeOK, Replies
<1>7. Ends'
  BY Zenon, <1>1 DEF IInv, Ends, ResultTruthful
<1> QED
  BY Zenon, <1>3, <1>5, <1>6, <1>7 DEF IInv

LEMMA WorkerKeeps == ASSUME IInv, Worker \/ WorkerPanics PROVE IInv'
<1>1. CASE SendEvent
  <2>1. /\ wpc = "failing" /\ event' = TRUE /\ wpc' = "returning"
        /\ UNCHANGED <<chanVars, wend, sessions, txn, closed, conn, listVars, opVars, mainVars,
                       faults, work>>
    BY Zenon, <1>1 DEF SendEvent
  <2>2. Queue' /\ TypeOK'
    BY <2>1 DEF IInv, TypeOK, Queue, QueueBounded, Pending, Awaited
  <2>3. Books' /\ Owned' /\ Ends'
    BY Zenon, <2>1 DEF IInv, Books, Owned, Ends, ResultTruthful
  <2> QED
    BY Zenon, <2>2, <2>3 DEF IInv
<1>2. CASE Return
  <2>1. /\ wpc = "returning" /\ wend # "running" /\ wend \in {"ok", "fatal", "panic"}
        /\ wend = "ok" => closed /\ sessions = {}
    BY Zenon, <1>2 DEF Return, IInv, Ends, TypeOK
  <2> QED
    BY Zenon, <1>2, <2>1, ReturnsKeeps DEF Return, IInv, TypeOK
<1>3. CASE WorkerPanics
  <2>1. faults' \in 0..MaxFaults /\ work' \in 0..MaxWork /\ lpc # "done"
    BY <1>3, ServerAssumption DEF WorkerPanics, Fault, IInv, TypeOK, Ends
  <2> QED
    BY Zenon, <1>3, <2>1, ReturnsKeeps DEF WorkerPanics
<1> QED
  BY Zenon, <1>1, <1>2, <1>3, OpenSessionKeeps, RequestKeeps, CloseSessionKeeps, FailureKeeps, ServeKeeps
  DEF Worker

-------------------------------------------------------------------------------
(* THE CONNECTIONS *)

(* A connection that computes, or whose reply has come, has nothing queued.*)
LEMMA NothingQueued ==
    ASSUME IInv, NEW c \in Ids,
           conn[c] \notin {"opening", "waiting", "closing"} \/ reply[c] # NoReply
    PROVE  \A m \in Pending : m.from # c
BY Zenon, CallerFacts DEF IInv, Queue, Awaited

(* The other callers go on waiting for what they wait for.                 *)
LEMMA OthersWait ==
    ASSUME IInv, NEW c \in Ids, NEW to, conn' = [conn EXCEPT ![c] = to], ConnFrame,
           \A m \in Pending : m.from # c
    PROVE  \A m \in Pending : Awaited(m)'
<1>1. ASSUME NEW m \in Pending PROVE Awaited(m)'
  <2>1. Awaited(m) /\ m.from # c /\ UNCHANGED <<tick, opc, control, lpc, reaped>>
    BY Zenon DEF IInv, Queue, ConnFrame
  <2>2. m.from \in Ids => conn'[m.from] = conn[m.from]
    BY Zenon, <2>1 DEF IInv, TypeOK
  <2> QED
    BY Zenon, <2>1, <2>2 DEF Awaited
<1> QED
  BY Zenon, <1>1

(* A connection thread moves on; what it has to show for it depends on     *)
(* where it goes.                                                          *)
LEMMA ConnStep ==
    ASSUME IInv, NEW c \in Ids,
           NEW to \in {"opening", "reading", "waiting", "writing", "closing", "finished", "panicked"},
           conn[c] \notin {"unused", "joined"}, conn' = [conn EXCEPT ![c] = to], ConnFrame,
           Queue', cmds' \in Seq(Commands), reply' \in [Callers -> Replies],
           \A y \in Callers : y # c => reply'[y] = reply[y],
           to \in {"opening", "finished"} => wpc # "serving" \/ c \notin sessions,
           to = "closing" => reply'[c] = NoReply,
           faults' \in 0..MaxFaults, work' \in 0..MaxWork
    PROVE  IInv'
<1>1. UNCHANGED <<workerVars, listVars, opVars, mainVars>>
  BY Zenon DEF ConnFrame
<1>2. /\ conn \in [Ids -> {"unused", "handshake", "opening", "reading", "waiting", "writing",
                           "closing", "finished", "panicked", "joined"}]
      /\ conn'[c] = to /\ \A d \in Ids : d # c => conn'[d] = conn[d]
  BY Zenon DEF IInv, TypeOK
<1>3. TypeOK'
  <2>1. conn' \in [Ids -> {"unused", "handshake", "opening", "reading", "waiting", "writing",
                           "closing", "finished", "panicked", "joined"}]
    BY Zenon, <1>2
  <2> QED
    BY <1>1, <2>1 DEF IInv, TypeOK, Replies
<1>4. Books'
  <2>1. reply'[Control] = reply[Control]
    BY Zenon, CallerFacts
  <2>2. reaped # 0 => reaped \in Ids /\ reaped # c
    BY DEF IInv, TypeOK, Books, Ids
  <2> QED
    BY Zenon, <1>1, <1>2, <2>1, <2>2 DEF IInv, Books
<1>5. Owned'
  <2>1. ASSUME wpc = "serving", NEW d \in sessions
        PROVE  /\ conn'[d] \notin {"unused", "handshake", "finished"}
               /\ conn'[d] = "opening" => reply'[d] = "ok"
               /\ conn'[d] = "closing" => reply'[d] = NoReply
               /\ conn'[d] = "joined" => d = reaped /\ reply'[Cleanup] = NoReply
    <3>1. d \in Ids /\ d \in Callers /\ Cleanup \in Callers /\ Cleanup # c
      BY Zenon, CallerFacts DEF IInv, TypeOK
    <3>2. CASE d = c
      BY Zenon, <1>2, <2>1, <3>2
    <3>3. CASE d # c
      BY Zenon, <1>2, <2>1, <3>1, <3>3 DEF IInv, Owned
    <3> QED
      BY Zenon, <3>2, <3>3
  <2> QED
    BY Zenon, <1>1, <2>1 DEF Owned
<1>6. Ends'
  BY Zenon, <1>1 DEF IInv, Ends, ResultTruthful
<1> QED
  BY Zenon, <1>3, <1>4, <1>5, <1>6 DEF IInv

(* A connection thread sends a command and waits.                          *)
LEMMA ConnSends ==
    ASSUME IInv, NEW c \in Ids, NEW to, NEW op,
           \/ to = "opening" /\ op = "open"
           \/ to = "waiting" /\ op = "request"
           \/ to = "closing" /\ op = "close",
           conn[c] \notin {"unused", "joined"}, conn' = [conn EXCEPT ![c] = to], ConnFrame,
           \A m \in Pending : m.from # c, Send(op, c, c), NoFault,
           to = "opening" => wpc # "serving" \/ c \notin sessions
    PROVE  IInv'
<1>1. UNCHANGED <<workerVars, listVars, opVars, mainVars, faults, work>>
  BY Zenon DEF ConnFrame, NoFault
<1>2. c \in Callers /\ Cmd(op, c, c) \in Commands
  BY CallerFacts DEF Cmd, Commands, Ids
<1>3. Awaited(Cmd(op, c, c))'
  <2>1. conn'[c] = to
    BY Zenon DEF IInv, TypeOK
  <2> QED
    BY Zenon, <2>1 DEF Awaited, Cmd
<1>4. \A m \in Pending : Awaited(m)'
  BY Zenon, OthersWait
<1>5. /\ Queue' /\ cmds' \in Seq(Commands) /\ reply' \in [Callers -> Replies]
      /\ reply'[c] = NoReply /\ \A y \in Callers : y # c => reply'[y] = reply[y]
  BY Zenon, <1>1, <1>2, <1>3, <1>4, SendStep DEF IInv
<1>6. faults' \in 0..MaxFaults /\ work' \in 0..MaxWork
  BY Zenon, <1>1 DEF IInv, TypeOK
<1> QED
  BY Zenon, <1>5, <1>6, ConnStep

(* A connection thread takes its reply.                                    *)
LEMMA ConnReceives ==
    ASSUME IInv, NEW c \in Ids, NEW to \in {"reading", "writing", "finished"},
           conn[c] \notin {"unused", "joined"}, conn' = [conn EXCEPT ![c] = to], ConnFrame,
           Received(c), NoFault, to = "finished" => wpc # "serving" \/ c \notin sessions
    PROVE  IInv'
<1>1. /\ UNCHANGED <<workerVars, listVars, opVars, mainVars, faults, work, cmds>>
      /\ reply[c] # NoReply /\ reply' = [reply EXCEPT ![c] = NoReply]
  BY Zenon DEF ConnFrame, NoFault, Received
<1>2. \A m \in Pending : m.from # c
  BY Zenon, <1>1, NothingQueued
<1>3. \A m \in Pending : Awaited(m)'
  BY Zenon, <1>2, OthersWait
<1>4. /\ Queue' /\ cmds' \in Seq(Commands) /\ reply' \in [Callers -> Replies]
      /\ reply'[c] = NoReply /\ \A y \in Callers : y # c => reply'[y] = reply[y]
  BY Zenon, <1>1, <1>2, <1>3, ReceiveStep, CallerFacts DEF IInv, Replies
<1>5. faults' \in 0..MaxFaults /\ work' \in 0..MaxWork
  BY Zenon, <1>1 DEF IInv, TypeOK
<1> QED
  BY Zenon, <1>4, <1>5, ConnStep

(* A connection thread moves on without the worker.                        *)
LEMMA ConnMoves ==
    ASSUME IInv, NEW c \in Ids, NEW to \in {"reading", "finished", "panicked"},
           conn[c] \in {"handshake", "reading", "writing"},
           conn' = [conn EXCEPT ![c] = to], ConnFrame, UNCHANGED chanVars,
           to = "finished" => wpc # "serving" \/ c \notin sessions,
           faults' \in 0..MaxFaults, work' \in 0..MaxWork
    PROVE  IInv'
<1>1. UNCHANGED <<workerVars, listVars, opVars, mainVars, cmds, reply>>
  BY Zenon DEF ConnFrame
<1>2. \A m \in Pending : m.from # c
  BY Zenon, NothingQueued
<1>3. \A m \in Pending : Awaited(m)'
  BY Zenon, <1>2, OthersWait
<1>4. Queue' /\ cmds' \in Seq(Commands) /\ reply' \in [Callers -> Replies]
  BY Zenon, <1>1, <1>3, QuietStep DEF IInv
<1> QED
  BY Zenon, <1>1, <1>4, ConnStep

LEMMA ConnectionKeeps ==
    ASSUME IInv, NEW c \in Ids, Connection(c) \/ ConnectionPanics(c) PROVE IInv'
<1>1. CASE Establish(c)
  <2>1. wpc # "serving" \/ c \notin sessions
    BY Zenon, <1>1 DEF Establish, IInv, Owned
  <2>2. CASE Goes(c, "handshake", "opening") /\ Send("open", c, c)
    BY Zenon, <1>1, <2>1, <2>2, ConnSends, NothingQueued DEF Establish, Goes
  <2>3. CASE Goes(c, "handshake", "finished") /\ UNCHANGED chanVars
    BY Zenon, <1>1, <2>1, <2>3, ConnMoves DEF Establish, Goes, NoFault, IInv, TypeOK
  <2> QED
    BY Zenon, <1>1, <2>2, <2>3 DEF Establish
<1>2. CASE Opened(c)
  <2>1. reply[c] # "ok" => wpc # "serving" \/ c \notin sessions
    BY Zenon, <1>2 DEF Opened, Goes, IInv, Owned
  <2> QED
    BY Zenon, <1>2, <2>1, ConnReceives DEF Opened, Goes
<1>3. CASE ReadRequest(c)
  BY Zenon, <1>3, ConnSends, NothingQueued DEF ReadRequest, Goes
<1>4. CASE EndRequests(c)
  <2>1. conn[c] \notin {"unused", "joined"} /\ \A m \in Pending : m.from # c
    BY Zenon, <1>4, NothingQueued DEF EndRequests
  <2> QED
    BY Zenon, <1>4, <2>1, ConnSends DEF EndRequests
<1>5. CASE SendFails(c)
  <2>1. wpc # "serving"
    BY Zenon, <1>5 DEF SendFails, Receiving
  <2>2. CASE conn[c] \in {"handshake", "reading", "writing"} /\ UNCHANGED chanVars
    BY Zenon, <1>5, <2>1, <2>2, ConnMoves DEF SendFails, NoFault, IInv, TypeOK
  <2>3. CASE conn[c] = "waiting" /\ Received(c)
    BY Zenon, <1>5, <2>1, <2>3, ConnReceives DEF SendFails
  <2> QED
    BY Zenon, <1>5, <2>2, <2>3 DEF SendFails
<1>6. CASE Answered(c)
  BY Zenon, <1>6, ConnReceives DEF Answered, Goes
<1>7. CASE WriteResponse(c)
  BY Zenon, <1>7, ConnMoves DEF WriteResponse, Goes, IInv, TypeOK
<1>8. CASE SessionClosed(c)
  <2>1. wpc # "serving" \/ c \notin sessions
    BY Zenon, <1>8 DEF SessionClosed, Goes, Received, IInv, Owned
  <2> QED
    BY Zenon, <1>8, <2>1, ConnReceives DEF SessionClosed, Goes
<1>9. CASE ConnectionPanics(c)
  <2>1. faults' \in 0..MaxFaults /\ work' \in 0..MaxWork
    BY <1>9, ServerAssumption DEF ConnectionPanics, Fault, IInv, TypeOK
  <2> QED
    BY Zenon, <1>9, <2>1, ConnMoves DEF ConnectionPanics
<1> QED
  BY Zenon, <1>1, <1>2, <1>3, <1>4, <1>5, <1>6, <1>7, <1>8, <1>9 DEF Connection

-------------------------------------------------------------------------------
(* THE LISTENER *)

(* The listener's place, and the operator's control, change while it waits *)
(* for no reply.                                                           *)
LEMMA ListenerMoves ==
    ASSUME IInv, lpc \notin {"stopping", "cleanup"}, UNCHANGED <<conn, tick, opc>>,
           control' => control
    PROVE  \A m \in Pending : Awaited(m)'
BY DEF IInv, Queue, Awaited

(* PollEnds, PollWorker, AllJoined: the loop goes on or ends.              *)
LEMMA PollKeeps == ASSUME IInv, PollEnds \/ PollWorker \/ AllJoined PROVE IInv'
<1>1. /\ lpc \in {"poll", "join"}
      /\ UNCHANGED <<chanVars, control, conn, conns, next, reaped, told, result, tick, faults, work>>
      /\ UNCHANGED <<wpc, wend, sessions, txn, closed, opc, oend, opFailed, mainVars>>
  BY Zenon DEF PollEnds, PollWorker, AllJoined, NoFault, ListFrame
<1>2. /\ lpc' \in {"reap", "join", "stop", "joinWorker"}
      /\ lend' \in {"running", "asked", "fatal", "stopped", "accept"} /\ event' \in BOOLEAN
      /\ lpc' = "reap" => lend' = "running"
      /\ lpc' # "reap" => lend' # "running"
  BY Zenon DEF PollEnds, PollWorker, AllJoined, IInv, TypeOK, Ends
<1>3. \A m \in Pending : Awaited(m)'
  BY Zenon, <1>1, ListenerMoves
<1>4. Queue' /\ cmds' \in Seq(Commands) /\ reply' \in [Callers -> Replies]
  BY Zenon, <1>1, <1>3, QuietStep DEF IInv
<1>5. TypeOK'
  BY <1>1, <1>2, <1>4 DEF IInv, TypeOK, Replies
<1>6. Books' /\ Owned'
  BY Zenon, <1>1, <1>2 DEF IInv, Books, Owned
<1>7. Ends'
  BY Zenon, <1>1, <1>2 DEF IInv, Ends, ResultTruthful
<1> QED
  BY Zenon, <1>4, <1>5, <1>6, <1>7 DEF IInv

LEMMA JoinConnectionKeeps == ASSUME IInv, NEW c \in Ids, JoinConnection(c) PROVE IInv'
<1>1. /\ lpc \in {"reap", "join"} /\ c \in conns /\ conns' = conns \ {c}
      /\ conn' = [conn EXCEPT ![c] = "joined"] /\ conn[c] \in {"finished", "panicked"}
      /\ UNCHANGED <<control, event, next, lend, told, result, tick, faults, work>>
      /\ UNCHANGED <<wpc, wend, sessions, txn, closed, opc, oend, opFailed, mainVars>>
  BY Zenon DEF JoinConnection, ListFrame
<1>2. /\ conn \in [Ids -> {"unused", "handshake", "opening", "reading", "waiting", "writing",
                           "closing", "finished", "panicked", "joined"}]
      /\ conn'[c] = "joined" /\ \A d \in Ids : d # c => conn'[d] = conn[d]
  BY Zenon, <1>1 DEF IInv, TypeOK
<1>3. conn' \in [Ids -> {"unused", "handshake", "opening", "reading", "waiting", "writing",
                         "closing", "finished", "panicked", "joined"}]
  BY Zenon, <1>1, <1>2
<1>4. \A m \in Pending : m.from # c /\ Awaited(m)'
  <2>1. \A m \in Pending : m.from # c
    BY Zenon, <1>1, NothingQueued
  <2>2. ASSUME NEW m \in Pending PROVE Awaited(m)'
    BY Zenon, <1>1, <1>2, <2>1 DEF IInv, Queue, Awaited
  <2> QED
    BY Zenon, <2>1, <2>2
<1>5. reaped = 0 /\ c # 0
  BY Zenon, <1>1, CallerFacts DEF IInv, Books
<1>6. ASSUME NEW d \in sessions, wpc = "serving", d # c
      PROVE  /\ d \in Ids /\ conn[d] \notin {"unused", "handshake", "finished", "joined"}
             /\ conn[d] = "opening" => reply[d] = "ok"
             /\ conn[d] = "closing" => reply[d] = NoReply
  BY Zenon, <1>5, <1>6, CallerFacts DEF IInv, Owned, TypeOK
<1>7. CASE UNCHANGED <<chanVars, lpc, reaped>> /\ (conn[c] = "finished" \/ wpc = "gone")
  <2>1. Queue' /\ cmds' \in Seq(Commands) /\ reply' \in [Callers -> Replies]
    BY Zenon, <1>1, <1>4, <1>7, QuietStep DEF IInv
  <2>2. TypeOK'
    BY <1>1, <1>3, <1>7, <2>1 DEF IInv, TypeOK, Replies
  <2>3. Books'
    BY Zenon, <1>1, <1>2, <1>5, <1>7 DEF IInv, Books
  <2>4. wpc = "serving" => c \notin sessions
    BY Zenon, <1>1, <1>7 DEF IInv, Owned
  <2>5. Owned'
    BY Zenon, <1>1, <1>2, <1>6, <1>7, <2>4 DEF Owned
  <2>6. Ends'
    BY Zenon, <1>1, <1>7 DEF IInv, Ends, ResultTruthful
  <2> QED
    BY Zenon, <2>1, <2>2, <2>3, <2>5, <2>6 DEF IInv
<1>8. CASE Send("close", Cleanup, c) /\ lpc' = "cleanup" /\ reaped' = c
  <2>1. Cmd("close", Cleanup, c) \in Commands /\ Cleanup \in Callers
    BY CallerFacts DEF Cmd, Commands, Ids
  <2>2. Awaited(Cmd("close", Cleanup, c))'
    BY Zenon, <1>8 DEF Awaited, Cmd
  <2>3. \A m \in Pending : m.from # Cleanup
    BY Zenon, <1>1, CallerFacts DEF IInv, Queue, Awaited
  <2>4. /\ Queue' /\ cmds' \in Seq(Commands) /\ reply' \in [Callers -> Replies]
        /\ reply'[Cleanup] = NoReply /\ \A y \in Callers : y # Cleanup => reply'[y] = reply[y]
    BY Zenon, <1>1, <1>4, <1>8, <2>1, <2>2, <2>3, SendStep DEF IInv
  <2>5. TypeOK'
    BY <1>1, <1>3, <1>8, <2>4 DEF IInv, TypeOK, Replies, Ids
  <2>6. Books'
    BY Zenon, <1>1, <1>2, <1>5, <1>8, <2>4, CallerFacts DEF IInv, Books
  <2>7. \A d \in Ids : reply'[d] = reply[d]
    BY Zenon, <2>4, CallerFacts
  <2>8. Owned'
    BY <1>1, <1>2, <1>6, <1>8, <2>4, <2>7 DEF Owned
  <2>9. Ends'
    BY Zenon, <1>1, <1>8 DEF IInv, Ends, ResultTruthful
  <2> QED
    BY Zenon, <2>4, <2>5, <2>6, <2>8, <2>9 DEF IInv
<1> QED
  BY Zenon, <1>7, <1>8 DEF JoinConnection, Receiving

LEMMA CleanedUpKeeps == ASSUME IInv, CleanedUp PROVE IInv'
<1>1. /\ reply[Cleanup] # NoReply /\ reply' = [reply EXCEPT ![Cleanup] = NoReply] /\ lpc = "cleanup"
      /\ lpc' = (IF lend = "running" THEN "reap" ELSE "join") /\ reaped' = 0
      /\ UNCHANGED <<cmds, control, event, conn, conns, next, lend, told, result, tick, faults, work>>
      /\ UNCHANGED <<wpc, wend, sessions, txn, closed, opc, oend, opFailed, mainVars>>
  BY Zenon DEF CleanedUp, Received, At, ListFrame
<1>2. \A m \in Pending : m.from # Cleanup /\ Awaited(m)'
  <2>1. \A m \in Pending : m.from # Cleanup
    BY Zenon, <1>1 DEF IInv, Queue
  <2> QED
    BY <1>1, <2>1 DEF IInv, Queue, Awaited
<1>3. /\ Queue' /\ cmds' \in Seq(Commands) /\ reply' \in [Callers -> Replies]
      /\ \A y \in Callers : y # Cleanup => reply'[y] = reply[y]
  BY Zenon, <1>1, <1>2, ReceiveStep, CallerFacts DEF IInv, Replies
<1>4. TypeOK'
  <2>1. lpc' \in {"reap", "join"} /\ reaped' \in 0..MaxSessions
    BY <1>1, ServerAssumption
  <2> QED
    BY <1>1, <1>3, <2>1 DEF IInv, TypeOK, Replies
<1>5. reply'[Control] = reply[Control] /\ \A c \in Ids : reply'[c] = reply[c]
  BY Zenon, <1>3, CallerFacts
<1>6. Books'
  BY Zenon, <1>1, <1>5 DEF IInv, Books
<1>7. Owned'
  <2>1. sessions \subseteq Ids
    BY DEF IInv, TypeOK
  <2> QED
    BY Zenon, <1>1, <1>5, <2>1 DEF IInv, Owned
<1>8. Ends'
  BY Zenon, <1>1 DEF IInv, Ends, ResultTruthful
<1> QED
  BY Zenon, <1>3, <1>4, <1>6, <1>7, <1>8 DEF IInv

(* The channels after a poll of the host driver.                           *)
LEMMA TickSteps ==
    ASSUME IInv, OfferTick, UNCHANGED <<conn, opc, control, reaped, wpc>>,
           lpc = "reap", lpc' = "accept"
    PROVE  /\ Queue' /\ cmds' \in Seq(Commands) /\ reply' \in [Callers -> Replies]
           /\ \A y \in Callers : y # Tick => reply'[y] = reply[y]
           /\ tick' \in {"idle", "pending"} /\ work' \in 0..MaxWork
<1>1. TickOver => \A m \in Pending : m.from # Tick
  BY Zenon, CallerFacts DEF TickOver, IInv, Queue, Awaited
<1>2. \A m \in Pending : tick' = tick \/ m.from # Tick => Awaited(m)'
  BY DEF IInv, Queue, Awaited
<1>3. CASE TickOver /\ Send("tick", Tick, 0) /\ tick' = "pending" /\ Works
  <2>1. Cmd("tick", Tick, 0) \in Commands /\ Tick \in Callers
    BY CallerFacts, ServerAssumption DEF Cmd, Commands
  <2>2. Awaited(Cmd("tick", Tick, 0))'
    BY Zenon, <1>3 DEF Awaited, Cmd
  <2>3. /\ Queue' /\ cmds' \in Seq(Commands) /\ reply' \in [Callers -> Replies]
        /\ \A y \in Callers : y # Tick => reply'[y] = reply[y]
    BY Zenon, <1>1, <1>2, <1>3, <2>1, <2>2, SendStep DEF IInv
  <2> QED
    BY <1>3, <2>3, ServerAssumption DEF Works, IInv, TypeOK
<1>4. CASE /\ TickOver /\ tick' = "idle" /\ reply' = [reply EXCEPT ![Tick] = NoReply]
           /\ UNCHANGED <<cmds, work>>
  <2>1. /\ Queue' /\ cmds' \in Seq(Commands) /\ reply' \in [Callers -> Replies]
        /\ \A y \in Callers : y # Tick => reply'[y] = reply[y]
    BY Zenon, <1>1, <1>2, <1>4, ReceiveStep, CallerFacts DEF IInv, Replies
  <2> QED
    BY Zenon, <1>4, <2>1 DEF IInv, TypeOK
<1>5. CASE UNCHANGED <<chanVars, tick, work>>
  <2>1. Queue' /\ cmds' \in Seq(Commands) /\ reply' \in [Callers -> Replies]
    BY Zenon, <1>2, <1>5, QuietStep DEF IInv
  <2> QED
    BY Zenon, <1>5, <2>1 DEF IInv, TypeOK
<1> QED
  BY Zenon, <1>3, <1>4, <1>5 DEF OfferTick

LEMMA HostPollKeeps == ASSUME IInv, HostPoll PROVE IInv'
<1>1. /\ lpc = "reap" /\ lpc' = "accept" /\ OfferTick
      /\ UNCHANGED <<control, event, conn, conns, next, lend, reaped, told, result, faults>>
      /\ UNCHANGED <<wpc, wend, sessions, txn, closed, opc, oend, opFailed, mainVars>>
  BY Zenon DEF HostPoll, At, ListFrame
<1>2. /\ Queue' /\ cmds' \in Seq(Commands) /\ reply' \in [Callers -> Replies]
      /\ \A y \in Callers : y # Tick => reply'[y] = reply[y]
      /\ tick' \in {"idle", "pending"} /\ work' \in 0..MaxWork
  BY Zenon, <1>1, TickSteps
<1>3. TypeOK'
  BY <1>1, <1>2 DEF IInv, TypeOK, Replies
<1>4. /\ reply'[Control] = reply[Control] /\ reply'[Cleanup] = reply[Cleanup]
      /\ \A c \in Ids : reply'[c] = reply[c]
  BY Zenon, <1>2, CallerFacts
<1>5. Books' /\ Owned'
  <2>1. sessions \subseteq Ids
    BY DEF IInv, TypeOK
  <2> QED
    BY Zenon, <1>1, <1>4, <2>1 DEF IInv, Books, Owned
<1>6. Ends'
  BY Zenon, <1>1 DEF IInv, Ends, ResultTruthful
<1> QED
  BY Zenon, <1>2, <1>3, <1>5, <1>6 DEF IInv

(* The channels after a round has forwarded the operator's control; a new  *)
(* connection may have got its thread.                                     *)
LEMMA ControlSteps ==
    ASSUME IInv, ForwardControl, lpc \notin {"stopping", "cleanup"},
           UNCHANGED <<tick, opc, reaped, wpc>>,
           \A c \in Ids : conn'[c] = conn[c] \/ conn[c] = "unused"
    PROVE  /\ Queue' /\ cmds' \in Seq(Commands) /\ reply' \in [Callers -> Replies]
           /\ \A y \in Callers : y # Control => reply'[y] = reply[y]
           /\ control' \in BOOLEAN /\ (control' => opc = "waiting")
           /\ control' \/ opc # "waiting" => reply'[Control] = NoReply
<1>1. ASSUME NEW m \in Pending, control' = control \/ m.from # Control PROVE Awaited(m)'
  <2>1. Awaited(m) /\ (m.from \in Ids => conn[m.from] # "unused")
    BY Zenon, CallerFacts DEF IInv, Queue, Awaited
  <2> QED
    BY Zenon, <1>1, <2>1 DEF Awaited
<1>2. /\ control \in BOOLEAN /\ (control => opc = "waiting")
      /\ control \/ opc # "waiting" => reply[Control] = NoReply
  BY Zenon DEF IInv, Books, TypeOK
<1>3. control => \A m \in Pending : m.from # Control
  BY Zenon, CallerFacts DEF IInv, Queue, Awaited
<1>4. CASE ~control /\ UNCHANGED <<chanVars, control>>
  <2>1. Queue' /\ cmds' \in Seq(Commands) /\ reply' \in [Callers -> Replies]
    BY Zenon, <1>1, <1>4, QuietStep DEF IInv
  <2> QED
    BY Zenon, <1>2, <1>4, <2>1
<1>5. CASE control /\ control' = FALSE /\ Send("control", Control, 0)
  <2>1. Cmd("control", Control, 0) \in Commands /\ Control \in Callers
    BY CallerFacts, ServerAssumption DEF Cmd, Commands
  <2>2. Awaited(Cmd("control", Control, 0))'
    BY Zenon, <1>2, <1>5 DEF Awaited, Cmd
  <2>3. /\ Queue' /\ cmds' \in Seq(Commands) /\ reply' \in [Callers -> Replies]
        /\ \A y \in Callers : y # Control => reply'[y] = reply[y]
    BY Zenon, <1>1, <1>3, <1>5, <2>1, <2>2, SendStep DEF IInv
  <2> QED
    BY Zenon, <1>2, <1>5, <2>3
<1>6. CASE /\ control /\ control' = FALSE /\ ~Receiving
           /\ reply' = [reply EXCEPT ![Control] = "dropped"] /\ UNCHANGED cmds
  <2>1. /\ Queue' /\ cmds' \in Seq(Commands) /\ reply' \in [Callers -> Replies]
        /\ \A y \in Callers : y # Control => reply'[y] = reply[y]
    BY Zenon, <1>1, <1>3, <1>6, ReceiveStep, CallerFacts DEF IInv, Replies
  <2> QED
    BY Zenon, <1>2, <1>6, <2>1
<1> QED
  BY Zenon, <1>4, <1>5, <1>6 DEF ForwardControl

(* Accept and AcceptFails, with what they make of the connections.         *)
LEMMA RoundKeeps ==
    ASSUME IInv, ForwardControl, lpc = "accept", lpc' \in {"poll", "join"},
           lend' \in {"running", "accept"}, lpc' = "poll" <=> lend' = "running",
           conns' \subseteq Ids, next' \in 1..(MaxSessions + 1), next' >= next,
           conn' \in [Ids -> {"unused", "handshake", "opening", "reading", "waiting", "writing",
                              "closing", "finished", "panicked", "joined"}],
           \A c \in Ids : \/ conn'[c] = conn[c] /\ (c \in conns' <=> c \in conns)
                          \/ c < next' /\ conn[c] = "unused" /\ conn'[c] = "handshake" /\ c \in conns',
           UNCHANGED <<event, reaped, told, result, tick>>, ListFrame,
           faults' \in 0..MaxFaults, work' \in 0..MaxWork
    PROVE  IInv'
<1>1. UNCHANGED <<wpc, wend, sessions, txn, closed, opc, oend, opFailed, mainVars>>
  BY Zenon DEF ListFrame
<1>2. /\ Queue' /\ cmds' \in Seq(Commands) /\ reply' \in [Callers -> Replies]
      /\ \A y \in Callers : y # Control => reply'[y] = reply[y]
      /\ control' \in BOOLEAN /\ (control' => opc = "waiting")
      /\ control' \/ opc # "waiting" => reply'[Control] = NoReply
  BY Zenon, <1>1, ControlSteps
<1>3. TypeOK'
  BY <1>1, <1>2 DEF IInv, TypeOK, Replies
<1>4. reaped = 0
  BY Zenon DEF IInv, Books
<1>5. Books'
  <2>1. \A c \in Ids : c \in conns' <=> conn'[c] \notin {"unused", "joined"}
    BY Zenon DEF IInv, Books
  <2>2. ASSUME NEW c \in Ids, c >= next' PROVE conn'[c] = "unused"
    <3>1. c \in Int /\ next \in Int /\ next' \in Int
      BY ServerAssumption DEF IInv, TypeOK, Ids
    <3>2. c >= next
      BY <2>2, <3>1
    <3> QED
      BY <2>2, <3>1, <3>2 DEF IInv, Books
  <2> QED
    BY Zenon, <1>1, <1>2, <1>4, <2>1, <2>2 DEF IInv, Books
<1>6. Owned'
  <2>1. ASSUME wpc = "serving", NEW c \in sessions
        PROVE  /\ conn'[c] \notin {"unused", "handshake", "finished"}
               /\ conn'[c] = "opening" => reply'[c] = "ok"
               /\ conn'[c] = "closing" => reply'[c] = NoReply
               /\ conn'[c] = "joined" => c = reaped /\ reply'[Cleanup] = NoReply
    <3>1. c \in Ids /\ conn'[c] = conn[c]
      BY Zenon, <2>1 DEF IInv, TypeOK, Owned
    <3>2. reply'[c] = reply[c] /\ reply'[Cleanup] = reply[Cleanup]
      BY Zenon, <1>2, <3>1, CallerFacts
    <3> QED
      BY Zenon, <2>1, <3>1, <3>2 DEF IInv, Owned
  <2> QED
    BY Zenon, <1>1, <2>1 DEF Owned
<1>7. Ends'
  BY Zenon, <1>1 DEF IInv, Ends, ResultTruthful
<1> QED
  BY Zenon, <1>2, <1>3, <1>5, <1>6, <1>7 DEF IInv

LEMMA AcceptKeeps == ASSUME IInv, Accept \/ AcceptFails PROVE IInv'
<1> DEFINE Places == {"unused", "handshake", "opening", "reading", "waiting", "writing",
                      "closing", "finished", "panicked", "joined"}
<1>1. /\ conn \in [Ids -> Places] /\ conns \subseteq Ids /\ next \in 1..(MaxSessions + 1)
      /\ MaxSessions \in Nat /\ MaxFaults \in Nat /\ MaxWork \in Nat
      /\ faults \in 0..MaxFaults /\ work \in 0..MaxWork
      /\ lpc = "accept" => lend = "running"
  BY Zenon, ServerAssumption DEF IInv, TypeOK, Ends
<1>2. CASE AcceptFails
  BY <1>1, <1>2, RoundKeeps DEF AcceptFails, At, Fault
<1>3. CASE Accept
  <2>1. /\ lpc = "accept" /\ lpc' = "poll" /\ ForwardControl /\ lend' = "running"
        /\ UNCHANGED <<event, lend, reaped, told, result, tick, faults>> /\ ListFrame
    BY Zenon, <1>1, <1>3 DEF Accept, At
  <2>2. CASE UNCHANGED <<conns, conn, next, work>>
    BY <1>1, <2>1, <2>2, RoundKeeps
  <2>3. CASE next \in Ids /\ next' = next + 1 /\ Works /\ UNCHANGED <<conns, conn>>
    <3>1. next' \in 1..(MaxSessions + 1) /\ next' >= next /\ work' \in 0..MaxWork
      BY <1>1, <2>3 DEF Ids, Works
    <3> QED
      BY Zenon, <1>1, <2>1, <2>3, <3>1, RoundKeeps
  <2>4. CASE /\ next \in Ids /\ next' = next + 1 /\ Works
             /\ conns' = conns \union {next} /\ conn' = [conn EXCEPT ![next] = "handshake"]
    <3>1. next' \in 1..(MaxSessions + 1) /\ next' >= next /\ next < next' /\ work' \in 0..MaxWork
      BY <1>1, <2>4 DEF Ids, Works
    <3>2. next >= next
      BY <1>1
    <3>3. conn[next] = "unused"
      BY Zenon, <2>4, <3>2 DEF IInv, Books
    <3>4. conns' \subseteq Ids /\ conn' \in [Ids -> Places] /\ conn'[next] = "handshake"
      BY Zenon, <1>1, <2>4
    <3>5. \A c \in Ids : \/ conn'[c] = conn[c] /\ (c \in conns' <=> c \in conns)
                         \/ c < next' /\ conn[c] = "unused" /\ conn'[c] = "handshake" /\ c \in conns'
      BY Zenon, <1>1, <2>4, <3>1, <3>3, <3>4
    <3> QED
      BY Zenon, <1>1, <2>1, <2>4, <3>1, <3>4, <3>5, RoundKeeps
  <2> QED
    BY Zenon, <1>3, <2>2, <2>3, <2>4 DEF Accept
<1> QED
  BY Zenon, <1>2, <1>3

(* StopWorker and WorkerTold: Shutdown is sent, once, and answered.        *)
LEMMA StopKeeps == ASSUME IInv, StopWorker \/ WorkerTold PROVE IInv'
<1>1. /\ UNCHANGED <<control, event, conn, conns, next, lend, reaped, result, tick, faults, work>>
      /\ UNCHANGED <<wpc, wend, sessions, txn, closed, opc, oend, opFailed, mainVars>>
      /\ lpc \in {"stop", "stopping"} /\ lpc' \in {"stopping", "joinWorker"}
      /\ told' \in {told, "unsent", reply[Stop]}
  BY Zenon DEF StopWorker, WorkerTold, At, ListFrame
<1>2. /\ Queue' /\ cmds' \in Seq(Commands) /\ reply' \in [Callers -> Replies]
      /\ \A y \in Callers : y # Stop => reply'[y] = reply[y]
  <2>1. \A m \in Pending : m.from # Stop => Awaited(m)'
    BY <1>1 DEF IInv, Queue, Awaited
  <2>2. CASE lpc = "stop" /\ lpc' = "stopping" /\ Send("shutdown", Stop, 0)
    <3>1. Cmd("shutdown", Stop, 0) \in Commands /\ Stop \in Callers
      BY CallerFacts, ServerAssumption DEF Cmd, Commands
    <3>2. Awaited(Cmd("shutdown", Stop, 0))'
      BY Zenon, <2>2 DEF Awaited, Cmd
    <3>3. \A m \in Pending : m.from # Stop
      BY Zenon, <2>2, CallerFacts DEF IInv, Queue, Awaited
    <3> QED
      BY Zenon, <1>1, <2>1, <2>2, <3>1, <3>2, <3>3, SendStep DEF IInv
  <2>3. CASE lpc = "stop" /\ UNCHANGED chanVars
    <3>1. \A m \in Pending : m.from # Stop
      BY Zenon, <2>3, CallerFacts DEF IInv, Queue, Awaited
    <3> QED
      BY Zenon, <1>1, <2>1, <2>3, <3>1, QuietStep DEF IInv
  <2>4. CASE Received(Stop)
    <3>1. \A m \in Pending : m.from # Stop
      BY Zenon, <2>4 DEF IInv, Queue, Received
    <3> QED
      BY Zenon, <1>1, <2>1, <2>4, <3>1, ReceiveStep, CallerFacts DEF IInv, Received, Replies
  <2> QED
    BY Zenon, <2>2, <2>3, <2>4 DEF StopWorker, WorkerTold, At
<1>3. told' \in {NoReply, "ok", "fatal", "dropped", "unsent"}
  BY Zenon, <1>1 DEF IInv, TypeOK, Queue, StopReplies
<1>4. TypeOK'
  BY <1>1, <1>2, <1>3 DEF IInv, TypeOK, Replies
<1>5. /\ reply'[Control] = reply[Control] /\ reply'[Cleanup] = reply[Cleanup]
      /\ \A c \in Ids : reply'[c] = reply[c]
  BY Zenon, <1>2, CallerFacts
<1>6. Books' /\ Owned'
  <2>1. sessions \subseteq Ids
    BY Zenon DEF IInv, TypeOK
  <2> QED
    BY <1>1, <1>5, <2>1 DEF IInv, Books, Owned
<1>7. Ends'
  BY Zenon, <1>1 DEF IInv, Ends, ResultTruthful
<1> QED
  BY Zenon, <1>2, <1>4, <1>6, <1>7 DEF IInv

(* JoinWorker: the listener returns the worker's end.                      *)
LEMMA JoinWorkerKeeps == ASSUME IInv, JoinWorker PROVE IInv'
<1>1. /\ wpc = "gone" /\ lpc = "joinWorker" /\ lpc' = "done" /\ control' = FALSE /\ UNCHANGED cmds
      /\ UNCHANGED <<event, conn, conns, next, lend, reaped, told, tick, faults, work>>
      /\ UNCHANGED <<wpc, wend, sessions, txn, closed, opc, oend, opFailed, mainVars>>
  BY Zenon DEF JoinWorker, At, NoFault, ListFrame
<1>2. /\ Pending = {}
      /\ reply' = IF control THEN [reply EXCEPT ![Control] = "dropped"] ELSE reply
  BY <1>1 DEF IInv, Queue, Pending, JoinWorker
<1>3. /\ Queue' /\ cmds' \in Seq(Commands) /\ reply' \in [Callers -> Replies]
      /\ \A y \in Callers : y # Control => reply'[y] = reply[y]
  <2>1. CASE control
    <3>1. reply' = [reply EXCEPT ![Control] = "dropped"] /\ Control \in Callers
      BY Zenon, <1>2, <2>1, CallerFacts
    <3> QED
      BY Zenon, <1>1, <1>2, <3>1, ReceiveStep DEF IInv
  <2>2. CASE ~control
    BY Zenon, <1>1, <1>2, <2>2, QuietStep DEF IInv
  <2> QED
    BY Zenon, <2>1, <2>2
<1>4. /\ lend \in {"asked", "fatal", "stopped", "accept"} /\ wend \in {"ok", "fatal", "panic"}
      /\ wend = "ok" => closed /\ sessions = {}
  BY Zenon, <1>1 DEF IInv, TypeOK, Ends
<1>5. result' = CASE lend = "fatal" -> Joined(TRUE)
                  [] lend = "asked" -> Cleaned
                  [] lend = "stopped" -> IF Cleaned = "ok" THEN "stopped" ELSE Cleaned
                  [] lend = "accept" -> IF Cleaned = "ok" THEN "accept" ELSE "cleanup"
  BY Zenon DEF JoinWorker
<1>6. /\ wend = "ok" => Joined(TRUE) = "fatal" /\ Cleaned \in {"ok", "stopped", "fatal"}
      /\ wend = "fatal" => Joined(TRUE) = "fatal" /\ Cleaned = "fatal"
      /\ wend = "panic" => Joined(TRUE) = "panicked" /\ Cleaned = "panicked"
  BY Zenon DEF Joined, Cleaned
<1>7. /\ result' \in {"ok", "fatal", "panicked", "stopped", "accept", "cleanup"}
      /\ result' \in {"ok", "stopped"} => wend = "ok"
      /\ wend = "fatal" => result' \in {"fatal", "cleanup"}
      /\ wend = "panic" => result' \in {"panicked", "cleanup"}
  <2>1. CASE lend = "fatal"
    BY Zenon, <1>4, <1>5, <1>6, <2>1
  <2>2. CASE lend = "asked"
    BY Zenon, <1>4, <1>5, <1>6, <2>2
  <2>3. CASE lend = "stopped"
    BY Zenon, <1>4, <1>5, <1>6, <2>3
  <2>4. CASE lend = "accept"
    BY Zenon, <1>4, <1>5, <1>6, <2>4
  <2> QED
    BY Zenon, <1>4, <2>1, <2>2, <2>3, <2>4
<1>8. TypeOK'
  <2>1. result' \in {"running", "ok", "fatal", "panicked", "stopped", "accept", "cleanup"}
    BY Zenon, <1>7
  <2>2. /\ lpc' = "done" /\ control' \in BOOLEAN
        /\ UNCHANGED <<event, conn, conns, next, lend, reaped, told, tick, faults, work>>
        /\ UNCHANGED <<wpc, wend, sessions, txn, closed, opc, oend, opFailed, mainVars>>
    BY Zenon, <1>1
  <2> QED
    BY <1>3, <2>1, <2>2 DEF IInv, TypeOK, Replies
<1>9. reply'[Control] = NoReply \/ opc = "waiting"
  BY Zenon, <1>2 DEF IInv, Books
<1>10. Books'
  BY Zenon, <1>1, <1>9 DEF IInv, Books
<1>11. Owned'
  BY Zenon, <1>1 DEF Owned
<1>12. Ends'
  BY Zenon, <1>1, <1>4, <1>7 DEF IInv, Ends, ResultTruthful
<1> QED
  BY <1>3, <1>8, <1>10, <1>11, <1>12 DEF IInv

-------------------------------------------------------------------------------
(* THE OPERATOR AND THE OWNER *)

(* The operator's steps.                                                   *)
LEMMA OperatorKeeps ==
    ASSUME IInv, OperatorRequest \/ OperatorAnswer \/ OperatorStops \/ OperatorFails
    PROVE  IInv'
<1>1. UNCHANGED <<workerVars, conn, listVars, mainVars>>
  BY Zenon DEF OperatorRequest, OperatorAnswer, OperatorStops, OperatorFails, OpFrame
<1>2. /\ opc \in {"accept", "waiting"} /\ opc' \in {"accept", "waiting", "done"}
      /\ oend' \in {"running", "ok", "failed"} /\ opFailed' \in BOOLEAN /\ control' \in BOOLEAN
      /\ faults' \in 0..MaxFaults /\ work' \in 0..MaxWork
  <2>1. /\ faults \in 0..MaxFaults /\ work \in 0..MaxWork /\ MaxFaults \in Nat /\ MaxWork \in Nat
        /\ oend \in {"running", "ok", "failed"} /\ {opFailed, control} \subseteq BOOLEAN
    BY Zenon, ServerAssumption DEF IInv, TypeOK
  <2>2. CASE OperatorRequest
    BY <2>1, <2>2 DEF OperatorRequest, Works
  <2>3. CASE OperatorAnswer
    BY Zenon, <2>1, <2>3 DEF OperatorAnswer
  <2>4. CASE OperatorStops
    BY Zenon, <2>1, <2>4 DEF OperatorStops
  <2>5. CASE OperatorFails
    BY <2>1, <2>5 DEF OperatorFails, Fault
  <2> QED
    BY Zenon, <2>2, <2>3, <2>4, <2>5
<1>3. \A m \in Pending : m.from # Control => Awaited(m)'
  BY <1>1 DEF IInv, Queue, Awaited
<1>4. /\ Queue' /\ cmds' \in Seq(Commands) /\ reply' \in [Callers -> Replies]
      /\ \A y \in Callers : y # Control => reply'[y] = reply[y]
      /\ control' => opc' = "waiting"
      /\ control' \/ opc' # "waiting" => reply'[Control] = NoReply
  <2>1. CASE OperatorAnswer
    <3>1. /\ opc = "waiting" /\ opc' = "accept" /\ control' = control /\ reply[Control] # NoReply
          /\ reply' = [reply EXCEPT ![Control] = NoReply] /\ UNCHANGED cmds
      BY Zenon, <2>1 DEF OperatorAnswer, Received
    <3>2. ~control /\ \A m \in Pending : m.from # Control
      BY Zenon, <3>1 DEF IInv, Books, Queue
    <3>3. /\ Queue' /\ cmds' \in Seq(Commands) /\ reply' \in [Callers -> Replies]
          /\ reply'[Control] = NoReply /\ \A y \in Callers : y # Control => reply'[y] = reply[y]
      BY Zenon, <1>1, <1>3, <3>1, <3>2, ReceiveStep, CallerFacts DEF IInv
    <3> QED
      BY Zenon, <3>1, <3>2, <3>3
  <2>2. CASE OperatorRequest \/ OperatorStops \/ OperatorFails
    <3>1. /\ opc = "accept" /\ UNCHANGED chanVars
          /\ control' = control \/ (control' /\ opc' = "waiting")
      BY Zenon, <2>2 DEF OperatorRequest, OperatorStops, OperatorFails
    <3>2. ~control /\ reply[Control] = NoReply
      BY Zenon, <3>1 DEF IInv, Books
    <3>3. \A m \in Pending : m.from # Control
      BY Zenon, <3>1, CallerFacts DEF IInv, Queue, Awaited
    <3>4. Queue' /\ cmds' \in Seq(Commands) /\ reply' \in [Callers -> Replies]
      BY Zenon, <1>1, <1>3, <3>1, <3>3, QuietStep DEF IInv
    <3> QED
      BY <3>1, <3>2, <3>4
  <2> QED
    BY Zenon, <2>1, <2>2
<1>5. TypeOK'
  BY <1>1, <1>2, <1>4 DEF IInv, TypeOK, Replies
<1>6. Books'
  BY Zenon, <1>1, <1>4 DEF IInv, Books
<1>7. Owned'
  <2>1. reply'[Cleanup] = reply[Cleanup] /\ \A c \in Ids : reply'[c] = reply[c]
    BY Zenon, <1>4, CallerFacts
  <2>2. sessions \subseteq Ids
    BY Zenon DEF IInv, TypeOK
  <2> QED
    BY Zenon, <1>1, <2>1, <2>2 DEF IInv, Owned
<1>8. Ends'
  BY Zenon, <1>1 DEF IInv, Ends, ResultTruthful
<1> QED
  BY Zenon, <1>4, <1>5, <1>6, <1>7, <1>8 DEF IInv

(* What the invariant leaves open: the owner and the shutdown channels.    *)
LEMMA OwnerKeeps ==
    ASSUME IInv, MainFrame, stop' \in BOOLEAN, opStop' \in BOOLEAN,
           mpc' \in {"owner", "stopOperator", "stopServer", "waitOperator", "returned", "dropped"}
    PROVE  IInv'
<1>1. UNCHANGED <<chanVars, workerVars, conn, listVars, opVars, faults, work>>
  BY Zenon DEF MainFrame
<1>2. \A m \in Pending : Awaited(m)'
  BY <1>1 DEF IInv, Queue, Awaited
<1>3. Queue' /\ cmds' \in Seq(Commands) /\ reply' \in [Callers -> Replies]
  BY Zenon, <1>1, <1>2, QuietStep DEF IInv
<1>4. TypeOK'
  BY <1>1, <1>3 DEF IInv, TypeOK, Replies
<1>5. Books' /\ Owned'
  BY Zenon, <1>1 DEF IInv, Books, Owned
<1>6. Ends'
  BY Zenon, <1>1 DEF IInv, Ends, ResultTruthful
<1> QED
  BY Zenon, <1>3, <1>4, <1>5, <1>6 DEF IInv

(* The owner's steps, and those in which nothing changes.                  *)
LEMMA MainKeeps ==
    ASSUME IInv, CallShutdown \/ DropHandle \/ Main \/ Finished \/ UNCHANGED vars
    PROVE  IInv'
<1>1. /\ stop \in BOOLEAN /\ opStop \in BOOLEAN
      /\ mpc \in {"owner", "stopOperator", "stopServer", "waitOperator", "returned", "dropped"}
  BY Zenon DEF IInv, TypeOK
<1>2. CASE CallShutdown \/ DropHandle
  BY Zenon, <1>1, <1>2, OwnerKeeps DEF CallShutdown, DropHandle
<1>3. CASE Main
  BY Zenon, <1>1, <1>3, OwnerKeeps DEF Main, OperatorJoined, ServerJoined
<1>4. CASE Finished \/ UNCHANGED vars
  <2>1. MainFrame /\ UNCHANGED mainVars
    BY Zenon, <1>4 DEF Finished, vars, MainFrame
  <2> QED
    BY Zenon, <1>1, <2>1, OwnerKeeps
<1> QED
  BY Zenon, <1>2, <1>3, <1>4

-------------------------------------------------------------------------------
(* THE THEOREMS *)

(* The server starts with no connection and an empty queue.                *)
LEMMA InitIInv == ASSUME Init PROVE IInv
<1>1. TypeOK
  <2>1. cmds \in Seq(Commands) /\ reply \in [Callers -> Replies]
    BY DEF Init, Replies
  <2>2. /\ MaxSessions \in Nat /\ MaxFaults \in Nat /\ MaxWork \in Nat
    BY Zenon, ServerAssumption
  <2>3. txn \in [Ids -> {"None", "Open", "Decided"}]
    BY Zenon DEF Init
  <2>4. conn \in [Ids -> {"unused", "handshake", "opening", "reading", "waiting", "writing",
                          "closing", "finished", "panicked", "joined"}]
    BY Zenon DEF Init
  <2>5. 1 \in 1..(MaxSessions + 1) /\ 0 \in 0..MaxSessions /\ 0 \in 0..MaxFaults /\ 0 \in 0..MaxWork
    BY <2>2
  <2> QED
    BY Zenon, <2>1, <2>3, <2>4, <2>5 DEF Init, TypeOK, Replies
<1>2. Queue
  <2>1. DOMAIN cmds = {}
    BY DEF Init
  <2>2. reply[Stop] = NoReply
    BY Zenon, CallerFacts DEF Init
  <2> QED
    BY Zenon, <2>1, <2>2 DEF Init, Queue, Pending, QueueBounded, StopReplies
<1>3. Books
  BY Zenon, CallerFacts DEF Init, Books
<1>4. Owned /\ Ends
  BY Zenon DEF Init, Owned, Ends, ResultTruthful
<1> QED
  BY Zenon, <1>1, <1>2, <1>3, <1>4 DEF IInv

(* Every step keeps the invariant.                                         *)
LEMMA NextKeeps == ASSUME IInv, [Next]_vars PROVE IInv'
<1>1. CASE Worker \/ WorkerPanics
  BY Zenon, <1>1, WorkerKeeps
<1>2. CASE Listener \/ AcceptFails
  BY Zenon, <1>2, PollKeeps, JoinConnectionKeeps, CleanedUpKeeps, HostPollKeeps, AcceptKeeps, StopKeeps,
     JoinWorkerKeeps DEF Listener
<1>3. CASE \E c \in Ids : Connection(c) \/ ConnectionPanics(c)
  BY Zenon, <1>3, ConnectionKeeps
<1>4. CASE OperatorRequest \/ OperatorAnswer \/ OperatorStops \/ OperatorFails
  BY Zenon, <1>4, OperatorKeeps
<1>5. CASE CallShutdown \/ DropHandle \/ Main \/ Finished \/ UNCHANGED vars
  BY Zenon, <1>5, MainKeeps
<1> QED
  BY Zenon, <1>1, <1>2, <1>3, <1>4, <1>5 DEF Next

(* The queue, the listener's books, the life of a session and the worker's *)
(* end are what the invariant says, at every point of every run.           *)
THEOREM Inductive == Spec => []IInv
<1>1. Init => IInv
  BY Zenon, InitIInv
<1>2. IInv /\ [Next]_vars => IInv'
  BY Zenon, NextKeeps
<1> QED
  BY <1>1, <1>2, PTL DEF Spec

(* Every variable keeps its type.                                          *)
THEOREM TypeCorrect == Spec => []TypeOK
<1>1. IInv => TypeOK
  BY Zenon DEF IInv
<1> QED
  BY <1>1, Inductive, PTL

(* While the worker serves, every registered session belongs to a          *)
(* connection the listener tracks, or is cleaning up after, however        *)
(* requests, disconnects, panics and shutdown interleave.                  *)
THEOREM NoOrphanSession == Spec => []SessionsOwned
<1>1. ASSUME IInv PROVE SessionsOwned
  <2>1. ASSUME wpc = "serving", NEW c \in sessions PROVE c \in conns \union {reaped}
    <3>1. c \in Ids /\ conn[c] # "unused" /\ (conn[c] = "joined" => c = reaped)
      BY Zenon, <1>1, <2>1 DEF IInv, TypeOK, Owned
    <3>2. conn[c] # "joined" => c \in conns
      BY Zenon, <1>1, <3>1 DEF IInv, Books
    <3> QED
      BY Zenon, <3>1, <3>2
  <2> QED
    BY Zenon, <2>1 DEF SessionsOwned
<1> QED
  BY <1>1, Inductive, PTL

(* Nobody has two commands in the worker's unbounded channel.              *)
THEOREM OneCommandEach == Spec => []QueueBounded
<1>1. IInv => QueueBounded
  BY Zenon DEF IInv, Queue
<1> QED
  BY <1>1, Inductive, PTL

(* What the server thread returns is what happened to the worker.          *)
THEOREM TruthfulResult == Spec => []ResultTruthful
<1>1. IInv => ResultTruthful
  BY Zenon DEF IInv, Ends
<1> QED
  BY <1>1, Inductive, PTL

===============================================================================
