----------------------------- MODULE ServerRuntime -----------------------------
(***************************************************************************)
(* The threads of netbadb-server (runtime.rs, with the session close of    *)
(* lib.rs, the operator listener of operator.rs and the host driver of     *)
(* adaptive_driver.rs): one listener, one thread per connection, one       *)
(* database worker that owns the Database and all sessions, the operator   *)
(* listener, and the owner of the ServerHandle.                            *)
(*                                                                         *)
(* Everybody else sends the worker commands through one queue and waits    *)
(* for the reply.  When the worker returns, for whatever reason, its       *)
(* receiver is dropped: queued commands are dropped with their reply       *)
(* senders, which wakes the waiting threads, and later sends fail.         *)
(*                                                                         *)
(*   cmds       the command queue                                          *)
(*   reply[x]   what the reply channel of x's last command holds           *)
(*   wpc, wend  the worker: serving, failing (replied, event not sent),    *)
(*              returning, gone; and how it ended                          *)
(*   event      a WorkerFatalError in the events channel                   *)
(*   sessions, txn   DatabaseWorkerState.sessions and their transactions:  *)
(*              None, Open (can be rolled back), Decided (cannot)          *)
(*   closed     database.close() succeeded                                 *)
(*   conn[c]    the thread of session c                                    *)
(*   conns, next  the listener's connections and next_session_id           *)
(*   lpc, lend, reaped  the listener, why its loop ended, and the          *)
(*              connection whose panicked thread it is cleaning up after   *)
(*   told       the worker's reply to Shutdown                             *)
(*   result     what the listener thread returned                          *)
(*   tick       ServerAdaptiveHostDriver: idle, or a tick is pending       *)
(*   control    a control request of the operator is in the channel to the *)
(*              listener                                                   *)
(*   opc, oend  the operator listener and how it ended                     *)
(*   mpc        the owner of the ServerHandle                              *)
(*   stop, opStop, opFailed   the shutdown channels and the operator's     *)
(*              failure notification                                       *)
(***************************************************************************)
EXTENDS Integers, Sequences, FiniteSets

CONSTANTS
    MaxSessions,      \* sessions the server lives to see
    MaxConnections,   \* limits.max_connections
    MaxFaults,        \* failing database calls, panics, failing accepts
    MaxWork           \* connections, operator requests and ticks, together

ASSUME ServerAssumption ==
    {MaxSessions, MaxConnections, MaxFaults, MaxWork} \subseteq Nat /\ MaxConnections > 0

VARIABLES cmds, reply, wpc, wend, event, sessions, txn, closed, conn, conns, next,
          lpc, lend, reaped, told, result, tick, control, opc, oend, mpc, stop, opStop,
          opFailed, faults, work

workerVars == <<wpc, wend, event, sessions, txn, closed>>
listVars == <<conns, next, lpc, lend, reaped, told, result, tick>>
opVars == <<control, opc, oend, opFailed>>
mainVars == <<mpc, stop, opStop>>
chanVars == <<cmds, reply>>
vars == <<chanVars, workerVars, conn, listVars, opVars, mainVars, faults, work>>

Ids == 1..MaxSessions
Tick == -1             \* the reply channels that belong to no connection:
Control == -2          \* an adaptive tick, an operator control,
Stop == -3             \* Shutdown, and the close of a panicked connection
Cleanup == -4
Callers == Ids \union {Tick, Control, Stop, Cleanup}
NoReply == "none"
Commands == [op : {"open", "request", "close", "tick", "control", "shutdown"},
             from : Callers, id : 0..MaxSessions]

Cmd(op, from, id) == [op |-> op, from |-> from, id |-> id]

TypeOK ==
    /\ cmds \in Seq(Commands)
    /\ reply \in [Callers -> {NoReply, "ok", "denied", "missing", "fatal", "dropped"}]
    /\ wpc \in {"serving", "failing", "returning", "gone"}
    /\ wend \in {"running", "ok", "fatal", "panic"}
    /\ {event, closed, control, stop, opStop, opFailed} \subseteq BOOLEAN
    /\ sessions \subseteq Ids /\ txn \in [Ids -> {"None", "Open", "Decided"}]
    /\ conn \in [Ids -> {"unused", "handshake", "opening", "reading", "waiting", "writing",
                         "closing", "finished", "panicked", "joined"}]
    /\ conns \subseteq Ids /\ next \in 1..(MaxSessions + 1)
    /\ lpc \in {"poll", "reap", "accept", "cleanup", "join", "stop", "stopping",
                "joinWorker", "done"}
    /\ lend \in {"running", "asked", "fatal", "stopped", "accept"}
    /\ reaped \in 0..MaxSessions /\ told \in {NoReply, "ok", "fatal", "dropped", "unsent"}
    /\ result \in {"running", "ok", "fatal", "panicked", "stopped", "accept", "cleanup"}
    /\ tick \in {"idle", "pending"}
    /\ opc \in {"accept", "waiting", "done"} /\ oend \in {"running", "ok", "failed"}
    /\ mpc \in {"owner", "stopOperator", "stopServer", "waitOperator", "returned",
                "dropped"}
    /\ faults \in 0..MaxFaults /\ work \in 0..MaxWork

Init ==
    /\ cmds = <<>> /\ reply = [x \in Callers |-> NoReply]
    /\ wpc = "serving" /\ wend = "running" /\ event = FALSE
    /\ sessions = {} /\ txn = [c \in Ids |-> "None"] /\ closed = FALSE
    /\ conn = [c \in Ids |-> "unused"]
    /\ conns = {} /\ next = 1 /\ lpc = "poll" /\ lend = "running" /\ reaped = 0
    /\ told = NoReply /\ result = "running" /\ tick = "idle"
    /\ control = FALSE /\ opc = "accept" /\ oend = "running" /\ opFailed = FALSE
    /\ mpc = "owner" /\ stop = FALSE /\ opStop = FALSE
    /\ faults = 0 /\ work = 0

Works == work < MaxWork /\ work' = work + 1
Fault == faults < MaxFaults /\ faults' = faults + 1 /\ UNCHANGED work
NoFault == UNCHANGED <<faults, work>>

(* commands.send: it fails once the worker's receiver is gone.             *)
Receiving == wpc # "gone"
Send(op, from, id) ==
    /\ Receiving
    /\ cmds' = Append(cmds, Cmd(op, from, id))
    /\ reply' = [reply EXCEPT ![from] = NoReply]

(* The worker thread returns: what is still queued is dropped, with the    *)
(* reply senders in it.                                                    *)
Dropped == {cmds[i].from : i \in DOMAIN cmds}
WorkerReturns ==
    /\ wpc' = "gone" /\ cmds' = <<>>
    /\ reply' = [x \in Callers |-> IF x \in Dropped THEN "dropped" ELSE reply[x]]

-------------------------------------------------------------------------------
(* The database worker.                                                    *)

Head1 == Head(cmds)
Takes(op) == wpc = "serving" /\ cmds # <<>> /\ Head1.op = op /\ cmds' = Tail(cmds)
Answer(r) == reply' = [reply EXCEPT ![Head1.from] = r]

(* OpenSession: the session is registered, or the identity is not admitted.*)
OpenSession ==
    /\ Takes("open")
    /\ \/ sessions' = sessions \union {Head1.id} /\ Answer("ok")
       \/ sessions' = sessions /\ Answer("denied")
    /\ UNCHANGED <<wpc, wend, event, txn, closed, conn, listVars, opVars, mainVars>> /\ NoFault

(* What a request can make of the session's transaction.  A commit, or the *)
(* implicit commit of a DDL statement, that fails after its decision       *)
(* leaves a transaction that can only be committed.                        *)
Outcomes(t) == IF t = "Decided" THEN {"None", "Decided"} ELSE {"None", "Open", "Decided"}
Request ==
    /\ Takes("request")
    /\ IF Head1.id \in sessions
       THEN /\ Answer("ok")
            /\ \E t \in Outcomes(txn[Head1.id]) : txn' = [txn EXCEPT ![Head1.id] = t]
       ELSE Answer("missing") /\ UNCHANGED txn
    /\ UNCHANGED <<wpc, wend, event, sessions, closed, conn, listVars, opVars, mainVars>>
    /\ NoFault

(* DatabaseSession.close can fail: always when the transaction is decided. *)
CanClose(c) == txn[c] # "Decided"

CloseSession ==
    /\ Takes("close")
    /\ IF Head1.id \in sessions
       THEN /\ CanClose(Head1.id)
            /\ sessions' = sessions \ {Head1.id} /\ txn' = [txn EXCEPT ![Head1.id] = "None"]
            /\ Answer("ok")
       ELSE UNCHANGED <<sessions, txn>> /\ Answer("missing")
    /\ UNCHANGED <<wpc, wend, event, closed, conn, listVars, opVars, mainVars, faults, work>>

(* A rollback that fails on close stops the worker.                        *)
CloseFails ==
    /\ Takes("close") /\ Head1.id \in sessions
    /\ IF CanClose(Head1.id) THEN txn[Head1.id] = "Open" /\ Fault ELSE NoFault
    /\ Answer("fatal") /\ wpc' = "failing" /\ wend' = "fatal"
    /\ UNCHANGED <<event, sessions, txn, closed, conn, listVars, opVars, mainVars>>

(* Adaptive and physical-design commands.                                  *)
Serve ==
    /\ Takes("tick") \/ Takes("control")
    /\ Answer("ok")
    /\ UNCHANGED <<workerVars, conn, listVars, opVars, mainVars, faults, work>>

(* Shutdown closes the sessions one by one and then the database; the      *)
(* first failure ends it.                                                  *)
Shutdown ==
    /\ Takes("shutdown")
    /\ \A c \in sessions : CanClose(c)
    /\ sessions' = {} /\ txn' = [c \in Ids |-> "None"] /\ closed' = TRUE
    /\ Answer("ok") /\ wpc' = "returning" /\ wend' = "ok"
    /\ UNCHANGED <<event, conn, listVars, opVars, mainVars, faults, work>>

ShutdownFails ==
    /\ Takes("shutdown")
    /\ IF \A c \in sessions : CanClose(c) THEN Fault ELSE NoFault
    /\ \E done \in SUBSET {c \in sessions : CanClose(c)} :
          /\ sessions = done \/ \E c \in sessions \ done : txn[c] # "None"
          /\ sessions' = sessions \ done
          /\ txn' = [c \in Ids |-> IF c \in done THEN "None" ELSE txn[c]]
    /\ Answer("fatal") /\ wpc' = "failing" /\ wend' = "fatal"
    /\ UNCHANGED <<event, closed, conn, listVars, opVars, mainVars>>

(* events.send comes after the reply, and the return after both.           *)
SendEvent ==
    /\ wpc = "failing"
    /\ event' = TRUE /\ wpc' = "returning"
    /\ UNCHANGED <<chanVars, wend, sessions, txn, closed, conn, listVars, opVars, mainVars,
                   faults, work>>

Return ==
    /\ wpc = "returning" /\ WorkerReturns
    /\ UNCHANGED <<wend, event, sessions, txn, closed, conn, listVars, opVars, mainVars,
                   faults, work>>

(* The worker panics in a command, whose reply sender is dropped too.      *)
WorkerPanics ==
    /\ wpc = "serving" /\ cmds # <<>> /\ Fault
    /\ WorkerReturns /\ wend' = "panic"
    /\ UNCHANGED <<event, sessions, txn, closed, conn, listVars, opVars, mainVars>>

Worker == \/ OpenSession \/ Request \/ CloseSession \/ CloseFails \/ Serve \/ Shutdown
          \/ ShutdownFails \/ SendEvent \/ Return

-------------------------------------------------------------------------------
(* A connection thread: establish, open_session, requests, close_session.  *)

Received(x) == reply[x] # NoReply /\ reply' = [reply EXCEPT ![x] = NoReply] /\ UNCHANGED cmds
Goes(c, from, to) == conn[c] = from /\ conn' = [conn EXCEPT ![c] = to]
ConnFrame == UNCHANGED <<workerVars, listVars, opVars, mainVars>>

SocketsOpen_Always == TRUE

(* The listener shuts the sockets down when it leaves its loop: a request  *)
(* that has arrived can still be read, no response can be written.  A      *)
(* client may go away at any time, which its thread notices in EndRequests.*)
SocketsOpen == lend = "running"

(* The transport handshake fails, times out, or is over and the session is *)
(* opened.                                                                 *)
Establish(c) ==
    /\ conn[c] = "handshake"
    /\ \/ Goes(c, "handshake", "opening") /\ Send("open", c, c)
       \/ Goes(c, "handshake", "finished") /\ UNCHANGED chanVars
    /\ NoFault /\ ConnFrame

Opened(c) ==
    /\ Goes(c, "opening", IF reply[c] = "ok" THEN "reading" ELSE "finished")
    /\ Received(c) /\ NoFault /\ ConnFrame

ReadRequest(c) ==
    /\ Goes(c, "reading", "waiting") /\ Send("request", c, c)
    /\ NoFault /\ ConnFrame

EndRequests_ReturnsEarly(c) ==
    /\ \/ Goes(c, "reading", "closing") /\ Send("close", c, c)
       \/ Goes(c, "writing", "finished") /\ UNCHANGED chanVars
       \/ Goes(c, "waiting", "finished") /\ reply[c] \notin {NoReply, "ok"} /\ Received(c)
    /\ NoFault /\ ConnFrame

(* End of file, an idle timeout or an unreadable frame ends the requests,  *)
(* as does a response that cannot be written or a worker that has stopped; *)
(* then the session is closed, and an error of the requests is returned    *)
(* only after that.                                                        *)
EndRequests(c) ==
    /\ \/ conn[c] \in {"reading", "writing"}
       \/ conn[c] = "waiting" /\ reply[c] \notin {NoReply, "ok"}
    /\ conn' = [conn EXCEPT ![c] = "closing"] /\ Send("close", c, c)
    /\ NoFault /\ ConnFrame

(* A send that fails: the worker is gone.                                  *)
SendFails(c) ==
    /\ ~Receiving
    /\ \/ conn[c] \in {"handshake", "reading", "writing"} /\ UNCHANGED chanVars
       \/ conn[c] = "waiting" /\ Received(c)
    /\ conn' = [conn EXCEPT ![c] = "finished"]
    /\ NoFault /\ ConnFrame

Answered(c) ==
    /\ reply[c] = "ok" /\ Goes(c, "waiting", "writing")
    /\ Received(c) /\ NoFault /\ ConnFrame

WriteResponse(c) ==
    /\ SocketsOpen /\ Goes(c, "writing", "reading")
    /\ UNCHANGED <<chanVars, faults, work>> /\ ConnFrame

SessionClosed(c) ==
    /\ Goes(c, "closing", "finished") /\ Received(c)
    /\ NoFault /\ ConnFrame

Connection(c) ==
    \/ Establish(c) \/ Opened(c) \/ ReadRequest(c) \/ EndRequests(c) \/ SendFails(c)
    \/ Answered(c) \/ WriteResponse(c) \/ SessionClosed(c)

(* The thread panics while it runs; no session is closed by it.            *)
ConnectionPanics(c) ==
    /\ conn[c] \in {"handshake", "reading", "writing"} /\ Fault
    /\ conn' = [conn EXCEPT ![c] = "panicked"]
    /\ UNCHANGED chanVars /\ ConnFrame

-------------------------------------------------------------------------------
(* The listener thread.                                                    *)

At(from, to) == lpc = from /\ lpc' = to
ListFrame == UNCHANGED <<wpc, wend, sessions, txn, closed, opc, oend, opFailed, mainVars>>

(* The head of the loop: shutdown, the operator's failure, then the worker.*)
PollEnds ==
    /\ lpc = "poll" /\ (stop \/ opFailed)
    /\ lpc' = "join" /\ lend' = "asked"
    /\ UNCHANGED <<chanVars, control, event, conn, conns, next, reaped, told, result, tick>>
    /\ NoFault /\ ListFrame

(* poll_fatal: the event, else nothing, else the worker is known stopped.  *)
PollWorker ==
    /\ lpc = "poll" /\ ~stop /\ ~opFailed
    /\ IF event THEN lpc' = "join" /\ lend' = "fatal" /\ event' = FALSE
       ELSE IF wpc = "gone" THEN lpc' = "join" /\ lend' = "stopped" /\ UNCHANGED event
       ELSE lpc' = "reap" /\ UNCHANGED <<lend, event>>
    /\ UNCHANGED <<chanVars, control, conn, conns, next, reaped, told, result, tick>>
    /\ NoFault /\ ListFrame

JoinConnection_NoClose(c) ==
    /\ lpc \in {"reap", "join"} /\ c \in conns /\ conns' = conns \ {c}
    /\ conn[c] \in {"finished", "panicked"} /\ conn' = [conn EXCEPT ![c] = "joined"]
    /\ UNCHANGED <<chanVars, control, event, next, lpc, lend, reaped, told, result, tick,
                   faults, work>>
    /\ ListFrame

(* join_connection of a finished thread; after a panic the listener closes *)
(* the session itself.                                                     *)
JoinConnection(c) ==
    /\ lpc \in {"reap", "join"} /\ c \in conns /\ conns' = conns \ {c}
    /\ conn' = [conn EXCEPT ![c] = "joined"]
    /\ \/ conn[c] = "finished" /\ UNCHANGED <<chanVars, lpc, reaped>>
       \/ conn[c] = "panicked" /\ ~Receiving /\ UNCHANGED <<chanVars, lpc, reaped>>
       \/ conn[c] = "panicked" /\ Send("close", Cleanup, c) /\ lpc' = "cleanup" /\ reaped' = c
    /\ UNCHANGED <<control, event, next, lend, told, result, tick, faults, work>> /\ ListFrame

(* Whatever the reply is, it is ignored.                                   *)
CleanedUp ==
    /\ Received(Cleanup)
    /\ At("cleanup", IF lend = "running" THEN "reap" ELSE "join") /\ reaped' = 0
    /\ UNCHANGED <<control, event, conn, conns, next, lend, told, result, tick, faults, work>>
    /\ ListFrame

(* The rest of a round, once the finished threads are joined.              *)
(* ServerAdaptiveHostDriver.poll: a pending tick is over when its reply    *)
(* has come or its sender is gone; then the next one may be due.           *)
TickOver == tick = "idle" \/ reply[Tick] # NoReply
OfferTick_Overlapping ==
    \/ Send("tick", Tick, 0) /\ tick' = "pending" /\ Works
    \/ UNCHANGED <<chanVars, tick, work>>

OfferTick ==
    \/ TickOver /\ Send("tick", Tick, 0) /\ tick' = "pending" /\ Works
    \/ TickOver /\ tick' = "idle" /\ reply' = [reply EXCEPT ![Tick] = NoReply]
       /\ UNCHANGED <<cmds, work>>
    \/ ~TickOver /\ UNCHANGED <<chanVars, tick, work>>
HostPoll ==
    /\ At("reap", "accept") /\ \A c \in conns : conn[c] \notin {"finished", "panicked"}
    /\ OfferTick
    /\ UNCHANGED <<control, event, conn, conns, next, lend, reaped, told, result, faults>>
    /\ ListFrame

(* One control request a round; without a worker it is answered here.      *)
ForwardControl ==
    \/ ~control /\ UNCHANGED <<chanVars, control>>
    \/ control /\ control' = FALSE /\ Send("control", Control, 0)
    \/ control /\ control' = FALSE /\ ~Receiving
       /\ reply' = [reply EXCEPT ![Control] = "dropped"] /\ UNCHANGED cmds

(* Then a connection is registered, cannot be set up, or is one too many;  *)
(* mostly there is none.                                                   *)
Accept ==
    /\ At("accept", "poll") /\ ForwardControl
    /\ \/ /\ Cardinality(conns) < MaxConnections /\ next \in Ids /\ next' = next + 1 /\ Works
          /\ \/ conns' = conns \union {next} /\ conn' = [conn EXCEPT ![next] = "handshake"]
             \/ UNCHANGED <<conns, conn>>
       \/ UNCHANGED <<conns, conn, next, work>>
    /\ UNCHANGED <<event, lend, reaped, told, result, tick, faults>> /\ ListFrame

AcceptFails ==
    /\ At("accept", "join") /\ ForwardControl /\ Fault /\ lend' = "accept"
    /\ UNCHANGED <<event, conn, conns, next, reaped, told, result, tick>>
    /\ ListFrame

(* After the loop: the sockets have been shut down; once all threads are   *)
(* joined the events are polled again.  finish_accept_loop does not poll.  *)
AllJoined ==
    /\ lpc = "join" /\ conns = {}
    /\ IF lend \in {"stopped", "accept"} THEN lpc' = "stop" /\ UNCHANGED <<lend, event>>
       ELSE /\ lpc' = IF event \/ lend = "fatal" THEN "joinWorker" ELSE "stop"
            /\ lend' = IF event THEN "fatal" ELSE lend
            /\ event' = FALSE
    /\ UNCHANGED <<chanVars, control, conn, conns, next, reaped, told, result, tick>>
    /\ NoFault /\ ListFrame

(* DatabaseWorker.shutdown                                                 *)
StopWorker ==
    /\ \/ At("stop", "stopping") /\ Send("shutdown", Stop, 0) /\ UNCHANGED told
       \/ At("stop", "joinWorker") /\ ~Receiving /\ told' = "unsent" /\ UNCHANGED chanVars
    /\ UNCHANGED <<control, event, conn, conns, next, lend, reaped, result, tick, faults, work>>
    /\ ListFrame

WorkerTold ==
    /\ Received(Stop) /\ At("stopping", "joinWorker") /\ told' = reply[Stop]
    /\ UNCHANGED <<control, event, conn, conns, next, lend, reaped, result, tick,
                   faults, work>>
    /\ ListFrame

Joined_IgnoresReturn(known) == IF wend = "panic" THEN "panicked"
                               ELSE IF known THEN "fatal" ELSE "ok"

(* join_worker, with and without an error that is already known.           *)
Joined(known) == IF wend = "panic" THEN "panicked"
                 ELSE IF wend = "fatal" \/ known THEN "fatal" ELSE "ok"
Cleaned == IF told = "dropped" /\ Joined(FALSE) = "ok" THEN "stopped"
           ELSE Joined(told = "fatal")

(* run_accept_loop and finish_accept_loop return; with the listener thread *)
(* the control channel ends.                                               *)
JoinWorker ==
    /\ wpc = "gone" /\ At("joinWorker", "done")
    /\ result' = CASE lend = "fatal" -> Joined(TRUE)
                   [] lend = "asked" -> Cleaned
                   [] lend = "stopped" -> IF Cleaned = "ok" THEN "stopped" ELSE Cleaned
                   [] lend = "accept" -> IF Cleaned = "ok" THEN "accept" ELSE "cleanup"
    /\ control' = FALSE /\ UNCHANGED cmds
    /\ reply' = IF control THEN [reply EXCEPT ![Control] = "dropped"] ELSE reply
    /\ UNCHANGED <<event, conn, conns, next, lend, reaped, told, tick>>
    /\ NoFault /\ ListFrame

Listener ==
    \/ PollEnds \/ PollWorker \/ (\E c \in Ids : JoinConnection(c)) \/ CleanedUp
    \/ HostPoll \/ Accept \/ AllJoined \/ StopWorker \/ WorkerTold \/ JoinWorker

-------------------------------------------------------------------------------
(* The operator listener: one control at a time, until it is stopped or    *)
(* fails, which its failure notification tells the server.                 *)

OpFrame == UNCHANGED <<workerVars, conn, listVars, mainVars>>

OperatorRequest ==
    /\ opc = "accept" /\ ~opStop /\ lpc # "done"
    /\ opc' = "waiting" /\ control' = TRUE
    /\ UNCHANGED <<chanVars, oend, opFailed, faults>> /\ Works /\ OpFrame

OperatorAnswer ==
    /\ opc = "waiting" /\ Received(Control) /\ opc' = "accept"
    /\ UNCHANGED <<control, oend, opFailed, faults, work>> /\ OpFrame

OperatorStops ==
    /\ opc = "accept" /\ opStop /\ opc' = "done" /\ oend' = "ok"
    /\ UNCHANGED <<chanVars, control, opFailed, faults, work>> /\ OpFrame

OperatorFails ==
    /\ opc = "accept" /\ Fault /\ opc' = "done" /\ oend' = "failed" /\ opFailed' = TRUE
    /\ UNCHANGED <<chanVars, control>> /\ OpFrame

-------------------------------------------------------------------------------
(* The owner of the handle sits in wait(), which stops the operator once   *)
(* the server has ended, or calls shutdown(), which stops the operator     *)
(* first; a handle that is dropped closes both channels.                   *)

MainFrame == UNCHANGED <<chanVars, workerVars, conn, listVars, opVars, faults, work>>

CallShutdown ==
    /\ mpc = "owner" /\ mpc' = "stopOperator" /\ opStop' = TRUE
    /\ UNCHANGED stop /\ MainFrame

DropHandle ==
    /\ mpc = "owner" /\ mpc' = "dropped" /\ stop' = TRUE /\ opStop' = TRUE /\ MainFrame

OperatorJoined ==
    /\ opc = "done"
    /\ \/ mpc = "stopOperator" /\ mpc' = "stopServer" /\ stop' = TRUE
       \/ mpc = "waitOperator" /\ mpc' = "returned" /\ UNCHANGED stop
    /\ UNCHANGED opStop /\ MainFrame

ServerJoined ==
    /\ lpc = "done"
    /\ \/ mpc = "stopServer" /\ mpc' = "returned" /\ UNCHANGED opStop
       \/ mpc = "owner" /\ mpc' = "waitOperator" /\ opStop' = TRUE
    /\ UNCHANGED stop /\ MainFrame

Main == OperatorJoined \/ ServerJoined

Finished ==
    /\ mpc \in {"returned", "dropped"} /\ lpc = "done" /\ opc = "done"
    /\ UNCHANGED vars

Next ==
    \/ Worker \/ WorkerPanics \/ Listener \/ AcceptFails
    \/ \E c \in Ids : Connection(c) \/ ConnectionPanics(c)
    \/ OperatorRequest \/ OperatorAnswer \/ OperatorStops \/ OperatorFails
    \/ CallShutdown \/ DropHandle \/ Main
    \/ Finished

Spec == Init /\ [][Next]_vars

(* Every thread that can run runs on: blocking reads and writes have their *)
(* timeouts, statements end.  Nobody has to call shutdown, to connect, to  *)
(* send a request or to leave.                                             *)
Fairness ==
    /\ WF_vars(Worker) /\ WF_vars(Listener) /\ WF_vars(Main)
    /\ WF_vars(OperatorAnswer) /\ WF_vars(OperatorStops)
    /\ \A c \in Ids : WF_vars(Connection(c))
FairSpec == Spec /\ Fairness

-------------------------------------------------------------------------------
(* A session never outlives its connection: while the worker serves, every *)
(* registered session belongs to a connection the listener still tracks or *)
(* is cleaning up after, panicked threads included, so abandoned sessions  *)
(* cannot pile up with their transactions and writer leases.               *)
SessionsOwned ==
    wpc = "serving" => sessions \subseteq conns \union {reaped}

(* The command channel is unbounded, the queue is not: every connection,   *)
(* the tick, the operator and the listener have at most one command in it. *)
QueueBounded == \A i, j \in DOMAIN cmds : cmds[i].from = cmds[j].from => i = j

(* What the server thread returns is what happened to the worker: success  *)
(* only if the database was closed with every session resolved, and a      *)
(* failed close or a panic is never replaced by success or by a mere       *)
(* "worker stopped", whichever side saw it first.                          *)
ResultTruthful ==
    /\ result = "ok" => closed /\ sessions = {} /\ wend = "ok"
    /\ result = "stopped" => wend = "ok"
    /\ lpc = "done" /\ wend = "fatal" => result \in {"fatal", "cleanup"}
    /\ lpc = "done" /\ wend = "panic" => result \in {"panicked", "cleanup"}

(* The server always stops: after shutdown() or a dropped handle, the      *)
(* failure of the operator listener, or the end of the worker, the         *)
(* listener joins everybody and returns, whoever waits for whom; and so    *)
(* does shutdown().                                                        *)
ServerStops ==
    /\ (stop \/ opFailed \/ wpc = "gone") ~> (lpc = "done")
    /\ (mpc = "stopOperator") ~> (mpc = "returned")

(* Disconnecting is enough: once a connection thread has ended its         *)
(* requests, or panicked, the session is closed and its transaction        *)
(* resolved, unless the worker itself has stopped.                         *)
DisconnectResolves ==
    \A c \in Ids : (conn[c] \in {"closing", "finished", "panicked", "joined"})
                     ~> (c \notin sessions \/ wpc = "gone")
===============================================================================
