----------------------------- MODULE WebSocket ------------------------------
(***************************************************************************)
(* The connection the Supervisor sends messages to Home Assistant on       *)
(* (homeassistant/websocket.py).  Events are fire-and-forget messages and  *)
(* wait in a queue while the Supervisor starts; commands wait for their    *)
(* answer.  Every message is sent by a task of its own, a queued one by    *)
(* the task that the event RUNNING starts.  What ends in an answer of the  *)
(* network takes longer than the tasks that are ready to run (Settled).    *)
(***************************************************************************)
EXTENDS Integers, Sequences, FiniteSets, SequencesExt

CONSTANTS
  Events,    \* messages of _async_send_command
  Commands,  \* messages of async_send_command
  Flushes,   \* tasks of _process_queue, one per RUNNING event
  MaxConns,  \* bound of the connections made
  NoConn,
  NoTask

ASSUME WebSocketAssumption ==
  /\ MaxConns \in Nat \ {0}
  /\ NoConn \notin 1 .. MaxConns
  /\ NoTask \notin Events \cup Commands \cup Flushes
  /\ Flushes \cap (Events \cup Commands) = {}

Messages == Events \cup Commands
Tasks == Messages \cup Flushes
Conns == 1 .. MaxConns

VARIABLES
  coreState,  \* starting, running, freeze, closing
  queue,      \* HomeAssistantWebSocket._queue
  client,     \* HomeAssistantWebSocket.client
  lock,       \* the task inside _get_ws_client
  conn,       \* none, open, dropped (not seen yet) or closed
  pc,         \* where each task is
  on,         \* connection a task waits for
  pos,        \* place of each flush in the queue
  carry,      \* message each flush is sending
  sent,       \* how often Home Assistant was given a message
  owed,       \* queued events that no flush has sent or given up
  marks       \* "blurred": a flush raised or began before another had ended;
              \* "overtaken": a caller that closed a client forgot a newer one

vars == <<coreState, queue, client, lock, conn, pc, on, pos, carry, sent, owed, marks>>
net == <<coreState, queue, owed, marks, pos, carry>>

Init ==
  /\ coreState = "starting"
  /\ queue = <<>>
  /\ client = NoConn
  /\ lock = NoTask
  /\ conn = [c \in Conns |-> "none"]
  /\ pc = [p \in Tasks |-> "idle"]
  /\ on = [p \in Tasks |-> NoConn]
  /\ pos = [f \in Flushes |-> 0]
  /\ carry = [f \in Flushes |-> NoTask]
  /\ sent = [m \in Messages |-> 0]
  /\ owed = {}
  /\ marks = {}

StartingStates == {"starting"}

\* The message a task is sending.
Message(p) == IF p \in Flushes THEN carry[p] ELSE p
Connected == client # NoConn /\ conn[client] \in {"open", "dropped"}
Flushing(f) == pc[f] \notin {"idle", "done"}
Settled == \A p \in Tasks : pc[p] \notin {"failed", "next"}

\* Where a task goes when it is done with its message; a refusal ends a flush.
After(p) == IF p \in Flushes THEN "next" ELSE "done"
AfterError(p) == "done"
Marked(mark, yes) == IF yes THEN marks \cup {mark} ELSE marks
Settle(p, m) == IF p \in Flushes THEN owed \ {m} ELSE owed

\* Mutant of Fail: the client is closed without a word to those who wait.
FailNobody(c) == pc

\* WSClient.close: everyone who waits for an answer gets an error.
Fail(c) == [p \in Tasks |-> IF pc[p] = "reply" /\ on[p] = c THEN "failed" ELSE pc[p]]

\* WSClient.async_send_command, up to the wait for the answer.
Send(p, m, c) ==
  \/ /\ conn[c] = "open"
     /\ sent' = [sent EXCEPT ![m] = @ + 1]
     /\ pc' = [pc EXCEPT ![p] = "reply"]
     /\ on' = [on EXCEPT ![p] = c]
     /\ client' = c
  \/ /\ conn[c] = "dropped"
     /\ \E w \in {"reply", "failed"} : pc' = [pc EXCEPT ![p] = w]
     /\ on' = [on EXCEPT ![p] = c]
     /\ client' = c
     /\ UNCHANGED sent

\* _ensure_connected up to its first await.
EnsureConnected(p, m) ==
  \/ /\ coreState = "closing"
     /\ pc' = [pc EXCEPT ![p] = After(p)]
     /\ owed' = Settle(p, m)
     /\ UNCHANGED <<client, on, sent>>
  \/ /\ coreState # "closing"
     /\ Connected
     /\ Send(p, m, client)
     /\ UNCHANGED owed
  \/ /\ coreState # "closing"
     /\ ~Connected
     /\ pc' = [pc EXCEPT ![p] = "check"]
     /\ UNCHANGED <<client, on, sent, owed>>

-----------------------------------------------------------------------------
(* Tasks                                                                   *)

\* _async_send_command of a new event: queued while the Supervisor starts.
SendEvent(m) ==
  /\ m \in Events
  /\ pc[m] = "idle"
  /\ \/ /\ coreState \in StartingStates
        /\ queue' = Append(queue, m)
        /\ owed' = owed \cup {m}
        /\ pc' = [pc EXCEPT ![m] = "done"]
        /\ UNCHANGED <<client, on, sent>>
     \/ /\ coreState \notin StartingStates
        /\ EnsureConnected(m, m)
        /\ UNCHANGED queue
  /\ UNCHANGED <<coreState, lock, conn, pos, carry, marks>>

\* async_send_command does not look at the queue.
SendCommand(m) ==
  /\ m \in Commands
  /\ pc[m] = "idle"
  /\ EnsureConnected(m, m)
  /\ UNCHANGED <<coreState, queue, lock, conn, pos, carry, marks>>

\* Mutant of FlushEnds: the queue is not cleared.
FlushEndsKeeping(f) ==
  /\ pc[f] = "next"
  /\ pos[f] >= Len(queue)
  /\ pc' = [pc EXCEPT ![f] = "done"]
  /\ UNCHANGED <<coreState, queue, client, lock, conn, on, pos, carry, sent, owed, marks>>

FlushEnds(f) ==
  /\ pc[f] = "next"
  /\ pos[f] >= Len(queue)
  /\ queue' = <<>>
  /\ pc' = [pc EXCEPT ![f] = "done"]
  /\ pos' = [pos EXCEPT ![f] = 0]
  /\ carry' = [carry EXCEPT ![f] = NoTask]
  /\ UNCHANGED <<coreState, client, lock, conn, on, sent, owed, marks>>

\* _process_queue goes to its next message and does not wait before sending it.
FlushNext(f) ==
  /\ pc[f] = "next"
  /\ pos[f] < Len(queue)
  /\ pos' = [pos EXCEPT ![f] = @ + 1]
  /\ carry' = [carry EXCEPT ![f] = queue[pos[f] + 1]]
  /\ EnsureConnected(f, queue[pos[f] + 1])
  /\ UNCHANGED <<coreState, queue, lock, conn, marks>>

\* check_api_state says no: _ensure_connected raises.
ApiDown(p) ==
  /\ pc[p] = "check"
  /\ Settled
  /\ pc' = [pc EXCEPT ![p] = After(p)]
  /\ owed' = Settle(p, Message(p))
  /\ UNCHANGED <<coreState, queue, client, lock, conn, on, pos, carry, sent, marks>>

\* It says yes: another task may have connected, or is about to.
ApiUp(p) ==
  /\ pc[p] = "check"
  /\ Settled
  /\ \/ Connected /\ Send(p, Message(p), client)
     \/ ~Connected /\ pc' = [pc EXCEPT ![p] = "lock"] /\ UNCHANGED <<client, on, sent>>
  /\ UNCHANGED <<lock, conn, net>>

\* Mutant of GetClient: a task that waited for the lock connects once more.
GetClientAnew(p) ==
  /\ pc[p] = "lock"
  /\ lock = NoTask
  /\ lock' = p
  /\ pc' = [pc EXCEPT ![p] = "connect"]
  /\ UNCHANGED <<client, conn, on, sent, net>>

\* _get_ws_client behind the lock.
GetClient(p) ==
  /\ pc[p] = "lock"
  /\ lock = NoTask
  /\ \/ Connected /\ Send(p, Message(p), client) /\ UNCHANGED lock
     \/ /\ ~Connected
        /\ lock' = p
        /\ pc' = [pc EXCEPT ![p] = "connect"]
        /\ UNCHANGED <<client, on, sent>>
  /\ UNCHANGED <<conn, net>>

\* connect_websocket: the listener starts with the connection.
Connect(p, c) ==
  /\ pc[p] = "connect"
  /\ Settled
  /\ conn[c] = "none"
  /\ conn' = [conn EXCEPT ![c] = "open"]
  /\ lock' = NoTask
  /\ sent' = [sent EXCEPT ![Message(p)] = @ + 1]
  /\ pc' = [pc EXCEPT ![p] = "reply"]
  /\ on' = [on EXCEPT ![p] = c]
  /\ client' = c
  /\ UNCHANGED net

\* Mutant of ConnectFails: the lock is not given back.
ConnectFailsLocked(p) ==
  /\ pc[p] = "connect"
  /\ Settled
  /\ pc' = [pc EXCEPT ![p] = After(p)]
  /\ owed' = Settle(p, Message(p))
  /\ UNCHANGED <<coreState, queue, client, lock, conn, on, pos, carry, sent, marks>>

\* A connection error is dealt with, a failed authentication is not.
ConnectFails(p) ==
  /\ pc[p] = "connect"
  /\ Settled
  /\ lock' = NoTask
  /\ \/ /\ pc' = [pc EXCEPT ![p] = After(p)]
        /\ owed' = Settle(p, Message(p))
        /\ UNCHANGED marks
     \/ /\ pc' = [pc EXCEPT ![p] = AfterError(p)]
        /\ marks' = Marked("blurred", p \in Flushes)
        /\ UNCHANGED owed
  /\ UNCHANGED <<coreState, queue, client, conn, on, pos, carry, sent>>

\* Home Assistant answers; an unsuccessful answer is an error of the caller.
Reply(p) ==
  /\ pc[p] = "reply"
  /\ conn[on[p]] = "open"
  /\ Settled
  /\ \/ /\ pc' = [pc EXCEPT ![p] = After(p)]
        /\ owed' = Settle(p, Message(p))
        /\ UNCHANGED marks
     \/ /\ pc' = [pc EXCEPT ![p] = AfterError(p)]
        /\ marks' = Marked("blurred", p \in Flushes)
        /\ UNCHANGED owed
  /\ on' = [on EXCEPT ![p] = NoConn]
  /\ UNCHANGED <<coreState, queue, client, lock, conn, pos, carry, sent>>

\* HomeAssistantWSConnectionError: the current client is closed and dropped.
CloseClosed(p) ==
  /\ pc[p] = "failed"
  /\ ~Connected
  /\ client' = NoConn
  /\ pc' = [pc EXCEPT ![p] = After(p)]
  /\ on' = [on EXCEPT ![p] = NoConn]
  /\ owed' = Settle(p, Message(p))
  /\ UNCHANGED <<coreState, queue, lock, conn, pos, carry, sent, marks>>

CloseConnected(p) ==
  /\ pc[p] = "failed"
  /\ Connected
  /\ conn' = [conn EXCEPT ![client] = "dropped"]
  /\ pc' = [Fail(client) EXCEPT ![p] = "closing"]
  /\ on' = [on EXCEPT ![p] = client]
  /\ UNCHANGED <<client, lock, sent, net>>

\* close() of the client returns; whatever is the client now is forgotten.
CloseReturns(p) ==
  /\ pc[p] = "closing"
  /\ conn[on[p]] = "closed"
  /\ client' = NoConn
  /\ marks' = Marked("overtaken", Connected)
  /\ pc' = [pc EXCEPT ![p] = After(p)]
  /\ on' = [on EXCEPT ![p] = NoConn]
  /\ owed' = Settle(p, Message(p))
  /\ UNCHANGED <<coreState, queue, lock, conn, pos, carry, sent>>

-----------------------------------------------------------------------------
(* The other side, and the Supervisor                                      *)

\* The transport is lost; neither side of the code has noticed yet.
Drop(c) ==
  /\ conn[c] = "open"
  /\ Settled
  /\ conn' = [conn EXCEPT ![c] = "dropped"]
  /\ UNCHANGED <<client, lock, pc, on, sent, net>>

\* start_listener ends: a lost transport, a close frame, a bad message.
ListenerEnds(c) ==
  /\ conn[c] \in {"open", "dropped"}
  /\ Settled
  /\ conn' = [conn EXCEPT ![c] = "closed"]
  /\ pc' = Fail(c)
  /\ UNCHANGED <<client, lock, on, sent, net>>

\* The event RUNNING starts _process_queue.
SetRunning(f) ==
  /\ coreState \in {"starting", "freeze"}
  /\ pc[f] = "idle"
  /\ coreState' = "running"
  /\ pc' = [pc EXCEPT ![f] = "next"]
  /\ marks' = Marked("blurred", \E g \in Flushes : Flushing(g))
  /\ UNCHANGED <<queue, client, lock, conn, on, pos, carry, sent, owed>>

SetFreeze ==
  /\ coreState = "running"
  /\ coreState' = "freeze"
  /\ UNCHANGED <<queue, client, lock, conn, pc, on, pos, carry, sent, owed, marks>>

SetClosing ==
  /\ coreState # "closing"
  /\ coreState' = "closing"
  /\ UNCHANGED <<queue, client, lock, conn, pc, on, pos, carry, sent, owed, marks>>

Step(p) ==
  \/ SendCommand(p)
  \/ SendEvent(p)
  \/ ApiDown(p)
  \/ ApiUp(p)
  \/ GetClient(p)
  \/ \E c \in Conns : Connect(p, c)
  \/ ConnectFails(p)
  \/ Reply(p)
  \/ CloseClosed(p)
  \/ CloseConnected(p)
  \/ CloseReturns(p)

Flush(f) == FlushNext(f) \/ FlushEnds(f)

Next ==
  \/ \E p \in Tasks : Step(p)
  \/ \E f \in Flushes : Flush(f) \/ SetRunning(f)
  \/ \E c \in Conns : Drop(c) \/ ListenerEnds(c)
  \/ SetFreeze
  \/ SetClosing

\* A request ends: Home Assistant answers or the connection does not last.
Fairness ==
  /\ \A p \in Tasks : WF_vars(Step(p) /\ pc[p] # "idle")
  /\ \A f \in Flushes : WF_vars(Flush(f))
  /\ \A c \in Conns : WF_vars(conn[c] = "dropped" /\ ListenerEnds(c))

Spec == Init /\ [][Next]_vars
LiveSpec == Spec /\ Fairness

-----------------------------------------------------------------------------
(* Properties                                                              *)

(* Types, and one connection attempt at a time: the lock is held exactly   *)
(* by the task that connects.                                              *)
WSTypeOK ==
  /\ coreState \in {"starting", "running", "freeze", "closing"}
  /\ queue \in Seq(Events)
  /\ client \in Conns \cup {NoConn}
  /\ conn \in [Conns -> {"none", "open", "dropped", "closed"}]
  /\ pc \in [Tasks -> {"idle", "check", "lock", "connect", "reply", "failed",
                       "closing", "next", "done"}]
  /\ on \in [Tasks -> Conns \cup {NoConn}]
  /\ sent \in [Messages -> Nat]
  /\ \A p \in Tasks : pc[p] = "connect" <=> lock = p

(* Nobody waits for an answer on a connection whose listener has ended:    *)
(* close() fails the futures of all callers and no later caller finds the  *)
(* connection usable (WSClient.close, connected).                          *)
NoOrphanCaller ==
  \A p \in Tasks : pc[p] = "reply" => conn[on[p]] # "closed"

(* The lock and the second look at the client keep the Supervisor at one   *)
(* connection: one that is open is the client.  One is abandoned only when *)
(* a caller that closes a client is overtaken by others that connect anew  *)
(* (async_send_command sets the client to None after the await).           *)
OpenIsClient ==
  \A c \in Conns : conn[c] = "open" => client = c \/ "overtaken" \in marks

(* A message is sent to Home Assistant once, unless RUNNING comes again    *)
(* during a flush or a flush raises; and a queued event stays in the queue *)
(* until it is sent or given up for want of a connection: clearing the     *)
(* queue at the end of _process_queue, by any flush, loses none.           *)
QueueSentOnce ==
  /\ \A m \in Messages : sent[m] > 1 => "blurred" \in marks
  /\ owed \subseteq ToSet(queue)

(* Every message comes to an end: no caller hangs at the lock, in the      *)
(* queue or on a connection that is gone.                                  *)
MessagesEnd ==
  <>[](\A p \in Tasks : pc[p] \in {"idle", "done"})

=============================================================================
