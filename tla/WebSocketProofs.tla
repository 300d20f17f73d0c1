--------------------------- MODULE WebSocketProofs ---------------------------
(***************************************************************************)
(* Proofs about WebSocket: types and the lock, no caller on a connection   *)
(* that is gone, one open connection, and a queue that sends its messages  *)
(* once and loses none, for any number of messages, flushes and            *)
(* connections.                                                            *)
(***************************************************************************)
EXTENDS WebSocket, TLAPS

-----------------------------------------------------------------------------
(* The inductive invariant                                                 *)

Places == {"idle", "check", "lock", "connect", "reply", "failed", "closing", "next", "done"}
ConnStates == {"none", "open", "dropped", "closed"}

\* A message that is not sent yet is in the hand of its task.
InHand == {"check", "lock", "connect"}

DataTypes ==
  /\ coreState \in {"starting", "running", "freeze", "closing"}
  /\ queue \in Seq(Events)
  /\ client \in Conns \cup {NoConn}
  /\ lock \in Tasks \cup {NoTask}
  /\ conn \in [Conns -> ConnStates]
  /\ pc \in [Tasks -> Places]
  /\ on \in [Tasks -> Conns \cup {NoConn}]
  /\ pos \in [Flushes -> Nat]
  /\ carry \in [Flushes -> Events \cup {NoTask}]
  /\ sent \in [Messages -> Nat]

\* Who connects holds the lock, and no client is connected meanwhile.
OneConnects ==
  /\ \A p \in Tasks : pc[p] = "connect" <=> lock = p
  /\ lock # NoTask => ~Connected

\* Who waits for an answer does so on a connection that can still fail.
Answerable ==
  \A p \in Tasks :
    /\ pc[p] \in {"reply", "closing"} => on[p] \in Conns
    /\ pc[p] = "reply" => conn[on[p]] \in {"open", "dropped"}

\* A message in the queue has left its task, and is there once.
Queued ==
  /\ \A i \in DOMAIN queue : pc[queue[i]] = "done"
  /\ \A i, j \in DOMAIN queue : queue[i] = queue[j] => i = j

\* Only a flush goes from message to message, and none begins before RUNNING.
FlushPlaces ==
  /\ \A m \in Messages : pc[m] # "next"
  /\ \A f \in Flushes : pc[f] = "idle" => pos[f] = 0
  /\ \A f \in Flushes : coreState = "starting" => pc[f] = "idle"

\* What a flush carries is the message at its place, if the queue is still there.
Carried ==
  \A f \in Flushes : pc[f] \notin {"idle", "done", "next"} =>
    /\ carry[f] \in Events
    /\ pos[f] \in Nat \ {0}
    /\ pos[f] \in DOMAIN queue => carry[f] = queue[pos[f]]

\* What a flush has passed is sent or given up, but for what it carries.
Passed ==
  /\ owed \subseteq ToSet(queue)
  /\ \A f \in Flushes, i \in DOMAIN queue :
       Flushing(f) /\ i <= pos[f] /\ queue[i] \in owed => i = pos[f] /\ pc[f] # "next"

\* One flush at a time, and what it has not passed is not sent.
Unsent ==
  /\ \A f, g \in Flushes : Flushing(f) /\ Flushing(g) => f = g
  /\ \A f \in Flushes : Flushing(f) => pos[f] <= Len(queue)
  /\ \A m \in Messages : sent[m] <= 1
  /\ \A m \in Messages : pc[m] \in {"idle"} \cup InHand => sent[m] = 0
  /\ \A f \in Flushes : pc[f] \in InHand => sent[carry[f]] = 0
  /\ \A i \in DOMAIN queue :
       (\A f \in Flushes : Flushing(f) => pos[f] < i) => sent[queue[i]] = 0

Clear == "blurred" \notin marks

IInv ==
  /\ DataTypes
  /\ OneConnects
  /\ Answerable
  /\ OpenIsClient
  /\ Queued
  /\ FlushPlaces
  /\ Carried
  /\ Passed
  /\ Clear => Unsent

-----------------------------------------------------------------------------
(* What the common parts of the actions do                                 *)

\* Task p has given message m to the client, or found that it cannot.
Sent(p, m) ==
  /\ client \in Conns /\ client' = client
  /\ conn[client] \in {"open", "dropped"}
  /\ on' = [on EXCEPT ![p] = client]
  /\ pc' = [pc EXCEPT ![p] = "reply"] \/ pc' = [pc EXCEPT ![p] = "failed"]
  /\ sent' \in [Messages -> Nat]
  /\ sent'[m] <= sent[m] + 1
  /\ \A n \in Messages \ {m} : sent'[n] = sent[n]

(* A connected client takes the message of its caller and no other.        *)
LEMMA SendSends ==
  ASSUME WebSocketAssumption, DataTypes, Connected,
         NEW p \in Tasks, NEW m \in Messages, Send(p, m, client)
  PROVE  Sent(p, m)
<1>1. client \in Conns
  BY DEF DataTypes, Connected
<1>2. CASE conn[client] = "open"
  <2>1. sent' = [sent EXCEPT ![m] = @ + 1]
    BY <1>2 DEF Send
  <2>2. /\ sent' \in [Messages -> Nat]
        /\ sent'[m] <= sent[m] + 1
        /\ \A n \in Messages \ {m} : sent'[n] = sent[n]
    BY <2>1 DEF DataTypes
  <2> QED
    BY <1>1, <1>2, <2>2 DEF Send, Sent
<1>3. CASE conn[client] = "dropped"
  BY <1>1, <1>3 DEF Send, Sent, DataTypes
<1> QED
  BY <1>2, <1>3 DEF Send

(* What a task sends is a message, also when it is a flush that sends.     *)
LEMMA MessageSent ==
  ASSUME WebSocketAssumption, Carried,
         NEW p \in Tasks, pc[p] \notin {"idle", "done", "next"}
  PROVE  Message(p) \in Messages
BY DEF WebSocketAssumption, Carried, Message, Messages, Tasks

(* _ensure_connected gives up, sends or goes on to ask for the API.        *)
LEMMA Ensures ==
  ASSUME WebSocketAssumption, DataTypes,
         NEW p \in Tasks, NEW m \in Messages, EnsureConnected(p, m)
  PROVE  \/ /\ pc' = [pc EXCEPT ![p] = After(p)]
            /\ owed' = Settle(p, m)
            /\ UNCHANGED <<client, on, sent>>
         \/ coreState # "closing" /\ Sent(p, m) /\ owed' = owed
         \/ /\ ~Connected
            /\ pc' = [pc EXCEPT ![p] = "check"]
            /\ UNCHANGED <<client, on, sent, owed>>
BY SendSends DEF EnsureConnected

TaskTypes ==
  /\ client \in Conns \cup {NoConn}
  /\ pc \in [Tasks -> Places]
  /\ on \in [Tasks -> Conns \cup {NoConn}]
  /\ sent \in [Messages -> Nat]

(* Neither changes the types of what it changes.                           *)
LEMMA SentTypes ==
  ASSUME TaskTypes, NEW p \in Tasks, NEW m, Sent(p, m)
  PROVE  TaskTypes'
BY DEF TaskTypes, Sent, Places

LEMMA EnsuresTypes ==
  ASSUME WebSocketAssumption, DataTypes,
         NEW p \in Tasks, NEW m \in Messages, EnsureConnected(p, m)
  PROVE  TaskTypes'
<1>1. TaskTypes
  BY DEF TaskTypes, DataTypes
<1>2. CASE pc' = [pc EXCEPT ![p] = After(p)] /\ UNCHANGED <<client, on, sent>>
  BY <1>1, <1>2 DEF TaskTypes, After, Places
<1>3. CASE Sent(p, m)
  BY <1>1, <1>3, SentTypes
<1>4. CASE pc' = [pc EXCEPT ![p] = "check"] /\ UNCHANGED <<client, on, sent>>
  BY <1>1, <1>4 DEF TaskTypes, Places
<1> QED
  BY <1>2, <1>3, <1>4, Ensures

\* No message becomes owed, and no flush leaves one behind that is.
SettlesFirst ==
  /\ UNCHANGED <<queue, pos>>
  /\ owed' \subseteq owed
  /\ \A f \in Flushes : Flushing(f)' =>
       /\ Flushing(f)
       /\ pc'[f] = "next" /\ pc[f] # "next" =>
            \A i \in DOMAIN queue : i = pos[f] => queue[i] \notin owed'

LEMMA SettledPassed ==
  ASSUME DataTypes, Passed, SettlesFirst
  PROVE  Passed'
<1>1. owed' \subseteq ToSet(queue)'
  BY DEF SettlesFirst, Passed, ToSet
<1>2. ASSUME NEW f \in Flushes, NEW i \in DOMAIN queue,
             Flushing(f)', i <= pos[f], queue[i] \in owed'
      PROVE  i = pos[f] /\ pc'[f] # "next"
  <2>1. Flushing(f) /\ queue[i] \in owed
    BY <1>2 DEF SettlesFirst
  <2>2. i = pos[f] /\ pc[f] # "next"
    BY <1>2, <2>1 DEF Passed
  <2> QED
    BY <1>2, <2>2 DEF SettlesFirst
<1> QED
  BY <1>1, <1>2 DEF Passed, SettlesFirst

(* A flush whose message is dealt with goes on to the next.                *)
LEMMA SettleSettles ==
  ASSUME WebSocketAssumption, DataTypes, Carried, UNCHANGED <<queue, pos>>,
         NEW p \in Tasks, pc[p] \notin {"idle", "done", "next"},
         \/ pc' = [pc EXCEPT ![p] = After(p)] /\ owed' = Settle(p, Message(p))
         \/ pc' = [pc EXCEPT ![p] = "done"] /\ owed' = owed
  PROVE  SettlesFirst
<1>1. owed' \subseteq owed
  BY DEF Settle
<1>2. ASSUME NEW f \in Flushes, Flushing(f)'
      PROVE  Flushing(f)
  <2>1. CASE f = p
    BY <2>1 DEF Flushing
  <2>2. CASE f # p
    BY <1>2, <2>2 DEF Flushing, DataTypes, Tasks
  <2> QED
    BY <2>1, <2>2
<1>3. ASSUME NEW f \in Flushes, pc'[f] = "next", pc[f] # "next",
             NEW i \in DOMAIN queue, i = pos[f]
      PROVE  queue[i] \notin owed'
  <2>1. f = p /\ pc' = [pc EXCEPT ![p] = After(p)] /\ owed' = Settle(p, Message(p))
    BY <1>3 DEF DataTypes, Tasks, Places
  <2> QED
    BY <1>3, <2>1 DEF Settle, Message, Carried
<1> QED
  BY <1>1, <1>2, <1>3 DEF SettlesFirst

\* Nothing is sent, nothing new is to be sent and no flush begins or ends.
Quiet ==
  /\ UNCHANGED <<queue, pos, carry, sent>>
  /\ \A m \in Messages : pc'[m] \in {"idle"} \cup InHand => pc[m] \in {"idle"} \cup InHand
  /\ \A f \in Flushes : pc'[f] \in InHand => pc[f] \in InHand
  /\ \A f \in Flushes : Flushing(f)' <=> Flushing(f)

LEMMA QuietUnsent ==
  ASSUME DataTypes, Unsent, Quiet
  PROVE  Unsent'
<1> USE DEF Quiet
<1>1. /\ \A f, g \in Flushes : Flushing(f)' /\ Flushing(g)' => f = g
      /\ \A f \in Flushes : Flushing(f)' => pos'[f] <= Len(queue')
  BY DEF Unsent
<1>2. /\ \A m \in Messages : sent'[m] <= 1
      /\ \A m \in Messages : pc'[m] \in {"idle"} \cup InHand => sent'[m] = 0
      /\ \A f \in Flushes : pc'[f] \in InHand => sent'[carry'[f]] = 0
  BY DEF Unsent
<1>3. \A i \in DOMAIN queue' :
        (\A f \in Flushes : Flushing(f)' => pos'[f] < i) => sent'[queue'[i]] = 0
  BY DEF Unsent
<1> QED
  BY <1>1, <1>2, <1>3 DEF Unsent

(* A task sends the message in its hand, which nobody else has.            *)
LEMMA SentUnsent ==
  ASSUME WebSocketAssumption, DataTypes, Queued, FlushPlaces, Carried, Unsent,
         NEW p \in Tasks, pc[p] \in {"idle"} \cup InHand, p \in Flushes => pc[p] # "idle",
         NEW w \in {"reply", "failed"}, pc' = [pc EXCEPT ![p] = w],
         UNCHANGED <<queue, pos, carry>>,
         sent' \in [Messages -> Nat],
         sent'[Message(p)] <= sent[Message(p)] + 1,
         \A m \in Messages \ {Message(p)} : sent'[m] = sent[m]
  PROVE  Unsent'
<1> DEFINE n == Message(p)
<1>1. n \in Messages /\ sent[n] = 0 /\ sent'[n] <= 1
  <2>1. CASE p \in Flushes
    BY SMTT(30), <2>1 DEF Message, Carried, Messages, Unsent, InHand, DataTypes
  <2>2. CASE p \notin Flushes
    BY <2>2 DEF Message, Tasks, Unsent
  <2> QED
    BY <2>1, <2>2
<1>2. \A f \in Flushes : Flushing(f)' <=> Flushing(f)
  BY DEF Flushing, DataTypes, Tasks, InHand
<1>3. /\ \A f, g \in Flushes : Flushing(f)' /\ Flushing(g)' => f = g
      /\ \A f \in Flushes : Flushing(f)' => pos'[f] <= Len(queue')
  BY <1>2 DEF Unsent
<1>4. \A m \in Messages : sent'[m] <= 1
  BY <1>1 DEF Unsent
<1>5. p \in Flushes =>
        Flushing(p) /\ pos[p] \in DOMAIN queue /\ n = queue[pos[p]] /\ pc[n] = "done"
  BY DEF Flushing, InHand, Unsent, Carried, Message, DataTypes, Queued
<1>6. ASSUME NEW m \in Messages, pc'[m] \in {"idle"} \cup InHand
      PROVE  sent'[m] = 0
  <2>1. m # p /\ pc[m] = pc'[m]
    BY <1>6 DEF DataTypes, Tasks, InHand
  <2>2. m # n
    BY <1>5, <1>6, <2>1 DEF Message, InHand
  <2> QED
    BY <1>6, <2>1, <2>2 DEF Unsent
<1>7. ASSUME NEW f \in Flushes, pc'[f] \in InHand
      PROVE  sent'[carry'[f]] = 0
  <2>1. f # p /\ pc[f] = pc'[f]
    BY <1>7 DEF DataTypes, Tasks, InHand
  <2>2. Flushing(f) /\ pos[f] \in DOMAIN queue /\ carry[f] = queue[pos[f]] /\ pc[carry[f]] = "done"
    BY <1>7, <2>1 DEF Flushing, InHand, Unsent, Carried, DataTypes, Queued
  <2>3. p \notin Flushes
    BY <1>5, <2>1, <2>2 DEF Unsent
  <2>4. carry[f] # n /\ carry[f] \in Messages
    BY <2>2, <2>3, <1>7, <2>1 DEF Message, InHand, Carried, Messages
  <2> QED
    BY <1>7, <2>1, <2>4 DEF Unsent
<1>8. ASSUME NEW i \in DOMAIN queue, \A f \in Flushes : Flushing(f)' => pos'[f] < i
      PROVE  sent'[queue[i]] = 0
  <2>1. sent[queue[i]] = 0 /\ queue[i] \in Messages
    BY <1>2, <1>8 DEF Unsent, DataTypes, Messages
  <2>2. queue[i] # n
    <3>1. CASE p \in Flushes
      BY <1>2, <1>5, <1>8, <3>1 DEF Queued, DataTypes
    <3>2. CASE p \notin Flushes
      BY <3>2 DEF Message, Queued, InHand
    <3> QED
      BY <3>1, <3>2
  <2> QED
    BY <2>1, <2>2
<1> QED
  BY <1>3, <1>4, <1>6, <1>7, <1>8 DEF Unsent

-----------------------------------------------------------------------------
(* What every step keeps                                                   *)

(* Types.                                                                  *)
LEMMA DataTypesKept ==
  ASSUME WebSocketAssumption, IInv, Next
  PROVE  DataTypes'
<1> USE DEF WebSocketAssumption, IInv, DataTypes, Tasks, Messages, Conns, Connected,
    Places, ConnStates, InHand
<1>1. ASSUME NEW p \in Tasks, SendCommand(p)
      PROVE  DataTypes'
  <2>1. TaskTypes'
    BY <1>1, EnsuresTypes DEF SendCommand
  <2> QED
    BY <1>1, <2>1 DEF SendCommand, TaskTypes
<1>2. ASSUME NEW p \in Tasks, SendEvent(p)
      PROVE  DataTypes'
  <2>1. CASE coreState \in StartingStates
    <3>1. queue' = Append(queue, p) /\ p \in Events
      BY <1>2, <2>1 DEF SendEvent
    <3>2. pc' = [pc EXCEPT ![p] = "done"] /\ UNCHANGED <<client, on, sent>>
      BY <1>2, <2>1 DEF SendEvent
    <3>3. queue' \in Seq(Events) /\ pc' \in [Tasks -> Places]
      BY <3>1, <3>2
    <3> QED
      BY <1>2, <3>2, <3>3 DEF SendEvent
  <2>2. CASE coreState \notin StartingStates
    <3>1. TaskTypes'
      BY <1>2, <2>2, EnsuresTypes DEF SendEvent
    <3> QED
      BY <1>2, <2>2, <3>1 DEF SendEvent, TaskTypes
  <2> QED
    BY <2>1, <2>2
<1>3. ASSUME NEW p \in Tasks, ApiDown(p)
      PROVE  DataTypes'
  BY <1>3 DEF ApiDown, After, Settle
<1>4. ASSUME NEW p \in Tasks, ApiUp(p)
      PROVE  DataTypes'
  <2>1. CASE Connected /\ Send(p, Message(p), client)
    <3>1. Message(p) \in Messages
      BY <1>4, MessageSent DEF ApiUp
    <3>2. TaskTypes'
      BY <2>1, <3>1, SendSends, SentTypes DEF TaskTypes
    <3> QED
      BY <1>4, <2>1, <3>2 DEF ApiUp, TaskTypes, net
  <2>2. CASE ~Connected
    BY <1>4, <2>2 DEF ApiUp, net
  <2> QED
    BY <1>4, <2>1, <2>2 DEF ApiUp
<1>5. ASSUME NEW p \in Tasks, GetClient(p)
      PROVE  DataTypes'
  <2>1. CASE Connected /\ Send(p, Message(p), client)
    <3>1. Message(p) \in Messages
      BY <1>5, MessageSent DEF GetClient
    <3>2. TaskTypes'
      BY <2>1, <3>1, SendSends, SentTypes DEF TaskTypes
    <3> QED
      BY <1>5, <2>1, <3>2 DEF GetClient, TaskTypes, net
  <2>2. CASE ~Connected
    BY <1>5, <2>2 DEF GetClient, net
  <2> QED
    BY <1>5, <2>1, <2>2 DEF GetClient
<1>6. ASSUME NEW p \in Tasks, NEW c \in Conns, Connect(p, c)
      PROVE  DataTypes'
  <2>1. Message(p) \in Messages
    BY <1>6, MessageSent DEF Connect
  <2> QED
    BY <1>6, <2>1 DEF Connect, net
<1>7. ASSUME NEW p \in Tasks, ConnectFails(p)
      PROVE  DataTypes'
  BY <1>7 DEF ConnectFails, After, AfterError, Settle, Marked
<1>8. ASSUME NEW p \in Tasks, Reply(p)
      PROVE  DataTypes'
  BY <1>8 DEF Reply, After, AfterError, Settle, Marked
<1>9. ASSUME NEW p \in Tasks, CloseClosed(p)
      PROVE  DataTypes'
  BY <1>9 DEF CloseClosed, After, Settle
<1>10. ASSUME NEW p \in Tasks, CloseConnected(p)
      PROVE  DataTypes'
  BY <1>10 DEF CloseConnected, Fail, net
<1>11. ASSUME NEW p \in Tasks, CloseReturns(p)
      PROVE  DataTypes'
  BY <1>11 DEF CloseReturns, After, Settle, Marked
<1>12. ASSUME NEW f \in Flushes, FlushNext(f)
      PROVE  DataTypes'
  <2>1. pos[f] + 1 \in DOMAIN queue /\ queue[pos[f] + 1] \in Events
    BY <1>12 DEF FlushNext
  <2>2. TaskTypes'
    BY <1>12, <2>1, EnsuresTypes DEF FlushNext
  <2>3. pos' \in [Flushes -> Nat] /\ carry' \in [Flushes -> Events \cup {NoTask}]
    BY <1>12, <2>1 DEF FlushNext
  <2> QED
    BY <1>12, <2>2, <2>3 DEF FlushNext, TaskTypes
<1>13. ASSUME NEW f \in Flushes, FlushEnds(f)
      PROVE  DataTypes'
  BY <1>13 DEF FlushEnds
<1>14. ASSUME NEW f \in Flushes, SetRunning(f)
      PROVE  DataTypes'
  BY <1>14 DEF SetRunning, Marked
<1>15. ASSUME NEW c \in Conns, Drop(c)
      PROVE  DataTypes'
  BY <1>15 DEF Drop, net
<1>16. ASSUME NEW c \in Conns, ListenerEnds(c)
      PROVE  DataTypes'
  BY <1>16 DEF ListenerEnds, Fail, net
<1>17. CASE SetFreeze
  BY <1>17 DEF SetFreeze
<1>18. CASE SetClosing
  BY <1>18 DEF SetClosing
<1> QED
  BY <1>1, <1>2, <1>3, <1>4, <1>5, <1>6, <1>7, <1>8, <1>9, <1>10, <1>11, <1>12, <1>13,
      <1>14, <1>15, <1>16, <1>17, <1>18 DEF Next, Step, Flush

(* The lock is given to one task, and nobody connects but its holder.      *)
LEMMA OneConnectsKept ==
  ASSUME WebSocketAssumption, IInv, Next
  PROVE  OneConnects'
<1> USE DEF WebSocketAssumption, IInv, DataTypes, Tasks, Messages, Conns, Connected,
    Places, ConnStates, InHand
<1>1. ASSUME NEW p \in Tasks, SendCommand(p)
      PROVE  OneConnects'
  BY <1>1 DEF SendCommand, EnsureConnected, Send, After, Settle, OneConnects
<1>2. ASSUME NEW p \in Tasks, SendEvent(p)
      PROVE  OneConnects'
  BY <1>2 DEF SendEvent, EnsureConnected, Send, After, Settle, OneConnects
<1>3. ASSUME NEW p \in Tasks, ApiDown(p)
      PROVE  OneConnects'
  BY <1>3 DEF ApiDown, After, Settle, OneConnects
<1>4. ASSUME NEW p \in Tasks, ApiUp(p)
      PROVE  OneConnects'
  BY <1>4 DEF ApiUp, Send, net, OneConnects
<1>5. ASSUME NEW p \in Tasks, GetClient(p)
      PROVE  OneConnects'
  BY <1>5 DEF GetClient, Send, net, OneConnects
<1>6. ASSUME NEW p \in Tasks, NEW c \in Conns, Connect(p, c)
      PROVE  OneConnects'
  BY <1>6 DEF Connect, net, OneConnects
<1>7. ASSUME NEW p \in Tasks, ConnectFails(p)
      PROVE  OneConnects'
  BY <1>7 DEF ConnectFails, After, AfterError, Settle, Marked, OneConnects
<1>8. ASSUME NEW p \in Tasks, Reply(p)
      PROVE  OneConnects'
  BY <1>8 DEF Reply, After, AfterError, Settle, Marked, OneConnects
<1>9. ASSUME NEW p \in Tasks, CloseClosed(p)
      PROVE  OneConnects'
  BY <1>9 DEF CloseClosed, After, Settle, OneConnects
<1>10. ASSUME NEW p \in Tasks, CloseConnected(p)
      PROVE  OneConnects'
  BY <1>10 DEF CloseConnected, Fail, net, OneConnects
<1>11. ASSUME NEW p \in Tasks, CloseReturns(p)
      PROVE  OneConnects'
  BY <1>11 DEF CloseReturns, After, Settle, Marked, OneConnects
<1>12. ASSUME NEW f \in Flushes, FlushNext(f)
      PROVE  OneConnects'
  BY <1>12 DEF FlushNext, EnsureConnected, Send, After, Settle, OneConnects
<1>13. ASSUME NEW f \in Flushes, FlushEnds(f)
      PROVE  OneConnects'
  BY <1>13 DEF FlushEnds, OneConnects
<1>14. ASSUME NEW f \in Flushes, SetRunning(f)
      PROVE  OneConnects'
  BY <1>14 DEF SetRunning, Marked, OneConnects
<1>15. ASSUME NEW c \in Conns, Drop(c)
      PROVE  OneConnects'
  BY <1>15 DEF Drop, net, OneConnects
<1>16. ASSUME NEW c \in Conns, ListenerEnds(c)
      PROVE  OneConnects'
  BY <1>16 DEF ListenerEnds, Fail, net, OneConnects
<1>17. CASE SetFreeze
  BY <1>17 DEF SetFreeze, OneConnects
<1>18. CASE SetClosing
  BY <1>18 DEF SetClosing, OneConnects
<1> QED
  BY <1>1, <1>2, <1>3, <1>4, <1>5, <1>6, <1>7, <1>8, <1>9, <1>10, <1>11, <1>12, <1>13,
      <1>14, <1>15, <1>16, <1>17, <1>18 DEF Next, Step, Flush

(* A connection that ends takes all who wait on it along.                  *)
LEMMA AnswerableKept ==
  ASSUME WebSocketAssumption, IInv, Next
  PROVE  Answerable'
<1> USE DEF WebSocketAssumption, IInv, DataTypes, Tasks, Messages, Conns, Connected,
    Places, ConnStates, InHand
<1>1. ASSUME NEW p \in Tasks, SendCommand(p)
      PROVE  Answerable'
  BY <1>1 DEF SendCommand, EnsureConnected, Send, After, Settle, Answerable
<1>2. ASSUME NEW p \in Tasks, SendEvent(p)
      PROVE  Answerable'
  BY <1>2 DEF SendEvent, EnsureConnected, Send, After, Settle, Answerable
<1>3. ASSUME NEW p \in Tasks, ApiDown(p)
      PROVE  Answerable'
  BY <1>3 DEF ApiDown, After, Settle, Answerable
<1>4. ASSUME NEW p \in Tasks, ApiUp(p)
      PROVE  Answerable'
  BY ZenonT(30), <1>4 DEF ApiUp, Send, net, Answerable
<1>5. ASSUME NEW p \in Tasks, GetClient(p)
      PROVE  Answerable'
  BY ZenonT(30), <1>5 DEF GetClient, Send, net, Answerable
<1>6. ASSUME NEW p \in Tasks, NEW c \in Conns, Connect(p, c)
      PROVE  Answerable'
  BY <1>6 DEF Connect, net, Answerable
<1>7. ASSUME NEW p \in Tasks, ConnectFails(p)
      PROVE  Answerable'
  BY <1>7 DEF ConnectFails, After, AfterError, Settle, Marked, Answerable
<1>8. ASSUME NEW p \in Tasks, Reply(p)
      PROVE  Answerable'
  BY <1>8 DEF Reply, After, AfterError, Settle, Marked, Answerable
<1>9. ASSUME NEW p \in Tasks, CloseClosed(p)
      PROVE  Answerable'
  BY <1>9 DEF CloseClosed, After, Settle, Answerable
<1>10. ASSUME NEW p \in Tasks, CloseConnected(p)
      PROVE  Answerable'
  BY <1>10 DEF CloseConnected, Fail, net, Answerable
<1>11. ASSUME NEW p \in Tasks, CloseReturns(p)
      PROVE  Answerable'
  BY <1>11 DEF CloseReturns, After, Settle, Marked, Answerable
<1>12. ASSUME NEW f \in Flushes, FlushNext(f)
      PROVE  Answerable'
  BY ZenonT(30), <1>12 DEF FlushNext, EnsureConnected, Send, After, Settle, Answerable
<1>13. ASSUME NEW f \in Flushes, FlushEnds(f)
      PROVE  Answerable'
  BY <1>13 DEF FlushEnds, Answerable
<1>14. ASSUME NEW f \in Flushes, SetRunning(f)
      PROVE  Answerable'
  BY <1>14 DEF SetRunning, Marked, Answerable
<1>15. ASSUME NEW c \in Conns, Drop(c)
      PROVE  Answerable'
  BY <1>15 DEF Drop, net, Answerable
<1>16. ASSUME NEW c \in Conns, ListenerEnds(c)
      PROVE  Answerable'
  BY <1>16 DEF ListenerEnds, Fail, net, Answerable
<1>17. CASE SetFreeze
  BY <1>17 DEF SetFreeze, Answerable
<1>18. CASE SetClosing
  BY <1>18 DEF SetClosing, Answerable
<1> QED
  BY <1>1, <1>2, <1>3, <1>4, <1>5, <1>6, <1>7, <1>8, <1>9, <1>10, <1>11, <1>12, <1>13,
      <1>14, <1>15, <1>16, <1>17, <1>18 DEF Next, Step, Flush

(* Connecting finds no client, and no client is forgotten unnoticed.       *)
LEMMA OpenIsClientKept ==
  ASSUME WebSocketAssumption, IInv, Next
  PROVE  OpenIsClient'
<1> USE DEF WebSocketAssumption, IInv, DataTypes, Tasks, Messages, Conns, Connected,
    Places, ConnStates, InHand
<1>1. ASSUME NEW p \in Tasks, SendCommand(p)
      PROVE  OpenIsClient'
  BY <1>1 DEF SendCommand, EnsureConnected, Send, After, Settle, OpenIsClient
<1>2. ASSUME NEW p \in Tasks, SendEvent(p)
      PROVE  OpenIsClient'
  BY <1>2 DEF SendEvent, EnsureConnected, Send, After, Settle, OpenIsClient
<1>3. ASSUME NEW p \in Tasks, ApiDown(p)
      PROVE  OpenIsClient'
  BY <1>3 DEF ApiDown, After, Settle, OpenIsClient
<1>4. ASSUME NEW p \in Tasks, ApiUp(p)
      PROVE  OpenIsClient'
  BY <1>4 DEF ApiUp, Send, net, OpenIsClient
<1>5. ASSUME NEW p \in Tasks, GetClient(p)
      PROVE  OpenIsClient'
  BY <1>5 DEF GetClient, Send, net, OpenIsClient
<1>6. ASSUME NEW p \in Tasks, NEW c \in Conns, Connect(p, c)
      PROVE  OpenIsClient'
  <2>1. ~Connected
    BY <1>6 DEF Connect, OneConnects
  <2>2. ASSUME NEW d \in Conns, d # c, conn[d] = "open"
        PROVE  "overtaken" \in marks
    BY <2>1, <2>2 DEF OpenIsClient
  <2> QED
    BY <1>6, <2>2 DEF Connect, net, OpenIsClient
<1>7. ASSUME NEW p \in Tasks, ConnectFails(p)
      PROVE  OpenIsClient'
  BY <1>7 DEF ConnectFails, After, AfterError, Settle, Marked, OpenIsClient
<1>8. ASSUME NEW p \in Tasks, Reply(p)
      PROVE  OpenIsClient'
  BY <1>8 DEF Reply, After, AfterError, Settle, Marked, OpenIsClient
<1>9. ASSUME NEW p \in Tasks, CloseClosed(p)
      PROVE  OpenIsClient'
  BY <1>9 DEF CloseClosed, After, Settle, OpenIsClient
<1>10. ASSUME NEW p \in Tasks, CloseConnected(p)
      PROVE  OpenIsClient'
  BY <1>10 DEF CloseConnected, Fail, net, OpenIsClient
<1>11. ASSUME NEW p \in Tasks, CloseReturns(p)
      PROVE  OpenIsClient'
  BY <1>11 DEF CloseReturns, After, Settle, Marked, OpenIsClient
<1>12. ASSUME NEW f \in Flushes, FlushNext(f)
      PROVE  OpenIsClient'
  BY <1>12 DEF FlushNext, EnsureConnected, Send, After, Settle, OpenIsClient
<1>13. ASSUME NEW f \in Flushes, FlushEnds(f)
      PROVE  OpenIsClient'
  BY <1>13 DEF FlushEnds, OpenIsClient
<1>14. ASSUME NEW f \in Flushes, SetRunning(f)
      PROVE  OpenIsClient'
  BY <1>14 DEF SetRunning, Marked, OpenIsClient
<1>15. ASSUME NEW c \in Conns, Drop(c)
      PROVE  OpenIsClient'
  BY <1>15 DEF Drop, net, OpenIsClient
<1>16. ASSUME NEW c \in Conns, ListenerEnds(c)
      PROVE  OpenIsClient'
  BY <1>16 DEF ListenerEnds, Fail, net, OpenIsClient
<1>17. CASE SetFreeze
  BY <1>17 DEF SetFreeze, OpenIsClient
<1>18. CASE SetClosing
  BY <1>18 DEF SetClosing, OpenIsClient
<1> QED
  BY <1>1, <1>2, <1>3, <1>4, <1>5, <1>6, <1>7, <1>8, <1>9, <1>10, <1>11, <1>12, <1>13,
      <1>14, <1>15, <1>16, <1>17, <1>18 DEF Next, Step, Flush

(* Only a message that its task hands over joins the queue.                *)
LEMMA QueuedKept ==
  ASSUME WebSocketAssumption, IInv, Next
  PROVE  Queued'
<1> USE DEF WebSocketAssumption, IInv, DataTypes, Tasks, Messages, Conns, Connected,
    Places, ConnStates, InHand
<1>1. ASSUME NEW p \in Tasks, SendCommand(p)
      PROVE  Queued'
  BY <1>1 DEF SendCommand, EnsureConnected, Send, After, Settle, Queued
<1>2. ASSUME NEW p \in Tasks, SendEvent(p)
      PROVE  Queued'
  <2>1. CASE coreState \in StartingStates
    <3>1. /\ queue' = Append(queue, p) /\ p \in Events
          /\ pc[p] = "idle" /\ pc' = [pc EXCEPT ![p] = "done"]
      BY <1>2, <2>1 DEF SendEvent
    <3>2. \A i \in DOMAIN queue : queue[i] # p
      BY <3>1 DEF Queued
    <3>3. /\ DOMAIN queue' = DOMAIN queue \cup {Len(queue) + 1}
          /\ \A i \in DOMAIN queue : queue'[i] = queue[i]
          /\ queue'[Len(queue) + 1] = p
          /\ Len(queue) + 1 \notin DOMAIN queue
      BY <3>1
    <3> QED
      BY <3>1, <3>2, <3>3 DEF Queued
  <2>2. CASE coreState \notin StartingStates
    BY <1>2, <2>2 DEF SendEvent, EnsureConnected, Send, After, Settle, Queued
  <2> QED
    BY <2>1, <2>2
<1>3. ASSUME NEW p \in Tasks, ApiDown(p)
      PROVE  Queued'
  BY <1>3 DEF ApiDown, After, Settle, Queued
<1>4. ASSUME NEW p \in Tasks, ApiUp(p)
      PROVE  Queued'
  BY <1>4 DEF ApiUp, Send, net, Queued
<1>5. ASSUME NEW p \in Tasks, GetClient(p)
      PROVE  Queued'
  BY <1>5 DEF GetClient, Send, net, Queued
<1>6. ASSUME NEW p \in Tasks, NEW c \in Conns, Connect(p, c)
      PROVE  Queued'
  BY <1>6 DEF Connect, net, Queued
<1>7. ASSUME NEW p \in Tasks, ConnectFails(p)
      PROVE  Queued'
  BY <1>7 DEF ConnectFails, After, AfterError, Settle, Marked, Queued
<1>8. ASSUME NEW p \in Tasks, Reply(p)
      PROVE  Queued'
  BY <1>8 DEF Reply, After, AfterError, Settle, Marked, Queued
<1>9. ASSUME NEW p \in Tasks, CloseClosed(p)
      PROVE  Queued'
  BY <1>9 DEF CloseClosed, After, Settle, Queued
<1>10. ASSUME NEW p \in Tasks, CloseConnected(p)
      PROVE  Queued'
  BY <1>10 DEF CloseConnected, Fail, net, Queued
<1>11. ASSUME NEW p \in Tasks, CloseReturns(p)
      PROVE  Queued'
  BY <1>11 DEF CloseReturns, After, Settle, Marked, Queued
<1>12. ASSUME NEW f \in Flushes, FlushNext(f)
      PROVE  Queued'
  BY <1>12 DEF FlushNext, EnsureConnected, Send, After, Settle, Queued
<1>13. ASSUME NEW f \in Flushes, FlushEnds(f)
      PROVE  Queued'
  BY <1>13 DEF FlushEnds, Queued
<1>14. ASSUME NEW f \in Flushes, SetRunning(f)
      PROVE  Queued'
  BY <1>14 DEF SetRunning, Marked, Queued
<1>15. ASSUME NEW c \in Conns, Drop(c)
      PROVE  Queued'
  BY <1>15 DEF Drop, net, Queued
<1>16. ASSUME NEW c \in Conns, ListenerEnds(c)
      PROVE  Queued'
  BY <1>16 DEF ListenerEnds, Fail, net, Queued
<1>17. CASE SetFreeze
  BY <1>17 DEF SetFreeze, Queued
<1>18. CASE SetClosing
  BY <1>18 DEF SetClosing, Queued
<1> QED
  BY <1>1, <1>2, <1>3, <1>4, <1>5, <1>6, <1>7, <1>8, <1>9, <1>10, <1>11, <1>12, <1>13,
      <1>14, <1>15, <1>16, <1>17, <1>18 DEF Next, Step, Flush

(* The Supervisor does not start a second time.                            *)
LEMMA FlushPlacesKept ==
  ASSUME WebSocketAssumption, IInv, Next
  PROVE  FlushPlaces'
<1> USE DEF WebSocketAssumption, IInv, DataTypes, Tasks, Messages, Conns, Connected,
    Places, ConnStates, InHand
<1>1. ASSUME NEW p \in Tasks, SendCommand(p)
      PROVE  FlushPlaces'
  BY <1>1 DEF SendCommand, EnsureConnected, Send, After, Settle, FlushPlaces
<1>2. ASSUME NEW p \in Tasks, SendEvent(p)
      PROVE  FlushPlaces'
  BY <1>2 DEF SendEvent, EnsureConnected, Send, After, Settle, FlushPlaces
<1>3. ASSUME NEW p \in Tasks, ApiDown(p)
      PROVE  FlushPlaces'
  BY <1>3 DEF ApiDown, After, Settle, FlushPlaces
<1>4. ASSUME NEW p \in Tasks, ApiUp(p)
      PROVE  FlushPlaces'
  BY <1>4 DEF ApiUp, Send, net, FlushPlaces
<1>5. ASSUME NEW p \in Tasks, GetClient(p)
      PROVE  FlushPlaces'
  BY <1>5 DEF GetClient, Send, net, FlushPlaces
<1>6. ASSUME NEW p \in Tasks, NEW c \in Conns, Connect(p, c)
      PROVE  FlushPlaces'
  BY <1>6 DEF Connect, net, FlushPlaces
<1>7. ASSUME NEW p \in Tasks, ConnectFails(p)
      PROVE  FlushPlaces'
  BY <1>7 DEF ConnectFails, After, AfterError, Settle, Marked, FlushPlaces
<1>8. ASSUME NEW p \in Tasks, Reply(p)
      PROVE  FlushPlaces'
  BY <1>8 DEF Reply, After, AfterError, Settle, Marked, FlushPlaces
<1>9. ASSUME NEW p \in Tasks, CloseClosed(p)
      PROVE  FlushPlaces'
  BY <1>9 DEF CloseClosed, After, Settle, FlushPlaces
<1>10. ASSUME NEW p \in Tasks, CloseConnected(p)
      PROVE  FlushPlaces'
  BY <1>10 DEF CloseConnected, Fail, net, FlushPlaces
<1>11. ASSUME NEW p \in Tasks, CloseReturns(p)
      PROVE  FlushPlaces'
  BY <1>11 DEF CloseReturns, After, Settle, Marked, FlushPlaces
<1>12. ASSUME NEW f \in Flushes, FlushNext(f)
      PROVE  FlushPlaces'
  BY <1>12 DEF FlushNext, EnsureConnected, Send, After, Settle, FlushPlaces
<1>13. ASSUME NEW f \in Flushes, FlushEnds(f)
      PROVE  FlushPlaces'
  BY <1>13 DEF FlushEnds, FlushPlaces
<1>14. ASSUME NEW f \in Flushes, SetRunning(f)
      PROVE  FlushPlaces'
  BY <1>14 DEF SetRunning, Marked, FlushPlaces
<1>15. ASSUME NEW c \in Conns, Drop(c)
      PROVE  FlushPlaces'
  BY <1>15 DEF Drop, net, FlushPlaces
<1>16. ASSUME NEW c \in Conns, ListenerEnds(c)
      PROVE  FlushPlaces'
  BY <1>16 DEF ListenerEnds, Fail, net, FlushPlaces
<1>17. CASE SetFreeze
  BY <1>17 DEF SetFreeze, FlushPlaces
<1>18. CASE SetClosing
  BY <1>18 DEF SetClosing, FlushPlaces
<1> QED
  BY <1>1, <1>2, <1>3, <1>4, <1>5, <1>6, <1>7, <1>8, <1>9, <1>10, <1>11, <1>12, <1>13,
      <1>14, <1>15, <1>16, <1>17, <1>18 DEF Next, Step, Flush

(* A flush takes what is at its place, and the queue changes behind it only *)
(* by being cleared.                                                       *)
LEMMA CarriedKept ==
  ASSUME WebSocketAssumption, IInv, Next
  PROVE  Carried'
<1> USE DEF WebSocketAssumption, IInv, DataTypes, Tasks, Messages, Conns, Connected,
    Places, ConnStates, InHand
<1>1. ASSUME NEW p \in Tasks, SendCommand(p)
      PROVE  Carried'
  BY ZenonT(30), <1>1 DEF SendCommand, EnsureConnected, Send, After, Settle, Carried
<1>2. ASSUME NEW p \in Tasks, SendEvent(p)
      PROVE  Carried'
  <2>1. CASE coreState \in StartingStates
    BY <1>2, <2>1 DEF SendEvent, StartingStates, Carried, FlushPlaces
  <2>2. CASE coreState \notin StartingStates
    BY <1>2, <2>2 DEF SendEvent, EnsureConnected, Send, After, Settle, Carried
  <2> QED
    BY <2>1, <2>2
<1>3. ASSUME NEW p \in Tasks, ApiDown(p)
      PROVE  Carried'
  BY <1>3 DEF ApiDown, After, Settle, Carried
<1>4. ASSUME NEW p \in Tasks, ApiUp(p)
      PROVE  Carried'
  BY <1>4 DEF ApiUp, Send, net, Carried
<1>5. ASSUME NEW p \in Tasks, GetClient(p)
      PROVE  Carried'
  BY <1>5 DEF GetClient, Send, net, Carried
<1>6. ASSUME NEW p \in Tasks, NEW c \in Conns, Connect(p, c)
      PROVE  Carried'
  BY <1>6 DEF Connect, net, Carried
<1>7. ASSUME NEW p \in Tasks, ConnectFails(p)
      PROVE  Carried'
  BY <1>7 DEF ConnectFails, After, AfterError, Settle, Marked, Carried
<1>8. ASSUME NEW p \in Tasks, Reply(p)
      PROVE  Carried'
  BY <1>8 DEF Reply, After, AfterError, Settle, Marked, Carried
<1>9. ASSUME NEW p \in Tasks, CloseClosed(p)
      PROVE  Carried'
  BY <1>9 DEF CloseClosed, After, Settle, Carried
<1>10. ASSUME NEW p \in Tasks, CloseConnected(p)
      PROVE  Carried'
  BY <1>10 DEF CloseConnected, Fail, net, Carried
<1>11. ASSUME NEW p \in Tasks, CloseReturns(p)
      PROVE  Carried'
  BY <1>11 DEF CloseReturns, After, Settle, Marked, Carried
<1>12. ASSUME NEW f \in Flushes, FlushNext(f)
      PROVE  Carried'
  BY <1>12 DEF FlushNext, EnsureConnected, Send, After, Settle, Carried
<1>13. ASSUME NEW f \in Flushes, FlushEnds(f)
      PROVE  Carried'
  BY <1>13 DEF FlushEnds, Carried
<1>14. ASSUME NEW f \in Flushes, SetRunning(f)
      PROVE  Carried'
  BY <1>14 DEF SetRunning, Marked, Carried
<1>15. ASSUME NEW c \in Conns, Drop(c)
      PROVE  Carried'
  BY <1>15 DEF Drop, net, Carried
<1>16. ASSUME NEW c \in Conns, ListenerEnds(c)
      PROVE  Carried'
  BY <1>16 DEF ListenerEnds, Fail, net, Carried
<1>17. CASE SetFreeze
  BY <1>17 DEF SetFreeze, Carried
<1>18. CASE SetClosing
  BY <1>18 DEF SetClosing, Carried
<1> QED
  BY <1>1, <1>2, <1>3, <1>4, <1>5, <1>6, <1>7, <1>8, <1>9, <1>10, <1>11, <1>12, <1>13,
      <1>14, <1>15, <1>16, <1>17, <1>18 DEF Next, Step, Flush

(* A flush ends, and clears the queue, when it has passed every message.   *)
LEMMA PassedKept ==
  ASSUME WebSocketAssumption, IInv, Next
  PROVE  Passed'
<1> USE DEF WebSocketAssumption, IInv, DataTypes, Tasks, Messages, Conns, Connected,
    Places, ConnStates, InHand, ToSet, Flushing, FlushPlaces, Carried, Message
<1>1. ASSUME NEW p \in Tasks, SendCommand(p)
      PROVE  Passed'
  <2>1. SettlesFirst
    <3>1. p \notin Flushes /\ owed' = owed /\ UNCHANGED <<queue, pos>>
      BY <1>1, Ensures DEF SendCommand, Settle
    <3>2. \E w \in Places : pc' = [pc EXCEPT ![p] = w]
      BY <1>1, Ensures DEF SendCommand, Sent, After
    <3>3. \A f \in Flushes : pc'[f] = pc[f]
      BY <3>1, <3>2
    <3> QED
      BY <3>1, <3>3 DEF SettlesFirst
  <2> QED
    BY <2>1, SettledPassed
<1>2. ASSUME NEW p \in Tasks, SendEvent(p)
      PROVE  Passed'
  <2>1. p \in Events /\ p \notin Flushes /\ UNCHANGED pos
    BY <1>2 DEF SendEvent
  <2>2. CASE coreState \in StartingStates
    <3>1. queue' = Append(queue, p) /\ owed' = owed \cup {p}
      BY <1>2, <2>2 DEF SendEvent
    <3>2. /\ DOMAIN queue' = DOMAIN queue \cup {Len(queue) + 1}
          /\ \A i \in DOMAIN queue : queue'[i] = queue[i]
          /\ queue'[Len(queue) + 1] = p
      BY <3>1
    <3>3. owed' \subseteq ToSet(queue')
      BY <3>1, <3>2 DEF Passed
    <3>4. ASSUME NEW f \in Flushes
          PROVE  pc'[f] = "idle"
      BY <1>2, <2>1, <2>2 DEF SendEvent, StartingStates
    <3> QED
      BY <3>3, <3>4 DEF Passed
  <2>3. CASE coreState \notin StartingStates
    <3>1. owed' = owed /\ UNCHANGED <<queue, pos>>
      BY <1>2, <2>1, <2>3, Ensures DEF SendEvent, Settle
    <3>2. \E w \in Places : pc' = [pc EXCEPT ![p] = w]
      BY <1>2, <2>1, <2>3, Ensures DEF SendEvent, Sent, After
    <3>3. \A f \in Flushes : pc'[f] = pc[f]
      BY <2>1, <3>2
    <3> QED
      BY <3>1, <3>3, SettledPassed DEF SettlesFirst
  <2> QED
    BY <2>2, <2>3
<1>3. ASSUME NEW p \in Tasks, ApiDown(p)
      PROVE  Passed'
  BY <1>3, SettleSettles, SettledPassed DEF ApiDown
<1>4. ASSUME NEW p \in Tasks, ApiUp(p)
      PROVE  Passed'
  <2>1. SettlesFirst
    <3>1. UNCHANGED <<queue, pos, owed>> /\ pc[p] \notin {"idle", "done"}
      BY <1>4 DEF ApiUp, net
    <3>2. \E w \in Places \ {"next"} : pc' = [pc EXCEPT ![p] = w]
      BY <1>4 DEF ApiUp, Send
    <3> QED
      BY <3>1, <3>2 DEF SettlesFirst
  <2> QED
    BY <2>1, SettledPassed
<1>5. ASSUME NEW p \in Tasks, GetClient(p)
      PROVE  Passed'
  <2>1. SettlesFirst
    <3>1. UNCHANGED <<queue, pos, owed>> /\ pc[p] \notin {"idle", "done"}
      BY <1>5 DEF GetClient, net
    <3>2. \E w \in Places \ {"next"} : pc' = [pc EXCEPT ![p] = w]
      BY <1>5 DEF GetClient, Send
    <3> QED
      BY <3>1, <3>2 DEF SettlesFirst
  <2> QED
    BY <2>1, SettledPassed
<1>6. ASSUME NEW p \in Tasks, NEW c \in Conns, Connect(p, c)
      PROVE  Passed'
  BY <1>6 DEF Connect, net, Passed
<1>7. ASSUME NEW p \in Tasks, ConnectFails(p)
      PROVE  Passed'
  BY <1>7, SettleSettles, SettledPassed DEF ConnectFails, AfterError
<1>8. ASSUME NEW p \in Tasks, Reply(p)
      PROVE  Passed'
  BY <1>8, SettleSettles, SettledPassed DEF Reply, AfterError
<1>9. ASSUME NEW p \in Tasks, CloseClosed(p)
      PROVE  Passed'
  BY <1>9, SettleSettles, SettledPassed DEF CloseClosed
<1>10. ASSUME NEW p \in Tasks, CloseConnected(p)
      PROVE  Passed'
  <2>1. SettlesFirst
    <3>1. UNCHANGED <<queue, pos, owed>> /\ pc[p] = "failed"
      BY <1>10 DEF CloseConnected, net
    <3>2. \A q \in Tasks : \/ pc'[q] = "closing" /\ q = p
                           \/ pc'[q] \in {pc[q], "failed"} /\ q # p
      BY <1>10 DEF CloseConnected, Fail
    <3>3. \A q \in Tasks : pc'[q] = "failed" => pc[q] \in {"reply", "failed"}
      BY <1>10 DEF CloseConnected, Fail
    <3> QED
      BY <3>1, <3>2, <3>3 DEF SettlesFirst
  <2> QED
    BY <2>1, SettledPassed
<1>11. ASSUME NEW p \in Tasks, CloseReturns(p)
      PROVE  Passed'
  BY <1>11, SettleSettles, SettledPassed DEF CloseReturns
<1>12. ASSUME NEW f \in Flushes, FlushNext(f)
      PROVE  Passed'
  <2> DEFINE m == queue[pos[f] + 1]
  <2>1. /\ pos' = [pos EXCEPT ![f] = @ + 1] /\ queue' = queue
        /\ pc[f] = "next" /\ f \in Tasks /\ m \in Messages
        /\ EnsureConnected(f, m)
    BY <1>12 DEF FlushNext
  <2>2. \/ pc' = [pc EXCEPT ![f] = "next"] /\ owed' = owed \ {m}
        \/ /\ \E w \in Places \ {"next"} : pc' = [pc EXCEPT ![f] = w]
           /\ owed' = owed
    BY <2>1, Ensures DEF After, Settle, Sent
  <2>3. owed' \subseteq ToSet(queue)'
    BY <2>1, <2>2 DEF Passed
  <2>4. ASSUME NEW g \in Flushes, NEW i \in DOMAIN queue,
               Flushing(g)', i <= pos'[g], queue[i] \in owed'
        PROVE  i = pos'[g] /\ pc'[g] # "next"
    <3>1. CASE g # f
      BY <2>1, <2>2, <2>4, <3>1 DEF Passed
    <3>2. CASE g = f
      <4>1. ~(i <= pos[f])
        BY <2>1, <2>2, <2>4, <3>2 DEF Passed
      <4>2. i = pos[f] + 1
        BY <2>1, <2>4, <3>2, <4>1
      <4> QED
        BY <2>1, <2>2, <2>4, <3>2, <4>2
    <3> QED
      BY <3>1, <3>2
  <2> QED
    BY <2>1, <2>3, <2>4 DEF Passed
<1>13. ASSUME NEW f \in Flushes, FlushEnds(f)
      PROVE  Passed'
  BY <1>13 DEF FlushEnds, Passed
<1>14. ASSUME NEW f \in Flushes, SetRunning(f)
      PROVE  Passed'
  BY <1>14 DEF SetRunning, Marked, Passed
<1>15. ASSUME NEW c \in Conns, Drop(c)
      PROVE  Passed'
  BY <1>15 DEF Drop, net, Passed
<1>16. ASSUME NEW c \in Conns, ListenerEnds(c)
      PROVE  Passed'
  BY <1>16 DEF ListenerEnds, Fail, net, Passed
<1>17. CASE SetFreeze
  BY <1>17 DEF SetFreeze, Passed
<1>18. CASE SetClosing
  BY <1>18 DEF SetClosing, Passed
<1> QED
  BY <1>1, <1>2, <1>3, <1>4, <1>5, <1>6, <1>7, <1>8, <1>9, <1>10, <1>11, <1>12, <1>13,
      <1>14, <1>15, <1>16, <1>17, <1>18 DEF Next, Step, Flush

(* What is sent was sent never before, as long as the flushes do not blur. *)
LEMMA UnsentKept ==
  ASSUME WebSocketAssumption, IInv, Next, Clear'
  PROVE  Unsent'
<1> USE DEF WebSocketAssumption, IInv, DataTypes, Tasks, Messages, Conns, Connected,
    Places, ConnStates, InHand, Clear, Queued, Flushing, FlushPlaces, Carried, Message
<1>0. Unsent
  <2>1. marks \subseteq marks'
    BY DEF Next, Step, Flush, SendCommand, SendEvent, ApiDown, ApiUp, GetClient, Connect,
      ConnectFails, Reply, CloseClosed, CloseConnected, CloseReturns, FlushNext, FlushEnds,
      SetRunning, Drop, ListenerEnds, SetFreeze, SetClosing, Marked, net
  <2> QED
    BY <2>1
<1>1. ASSUME NEW p \in Tasks, SendCommand(p)
      PROVE  Unsent'
  <2>1. CASE /\ UNCHANGED <<client, on, sent>>
             /\ pc' = [pc EXCEPT ![p] = "done"] \/ pc' = [pc EXCEPT ![p] = "check"]
    <3>1. Quiet
      BY <1>1, <2>1 DEF SendCommand, Quiet
    <3> QED
      BY <1>0, <3>1, QuietUnsent
  <2>2. CASE Sent(p, p)
    <3>1. Message(p) = p
      BY <1>1 DEF SendCommand, Message
    <3> QED
      BY <1>0, <1>1, <2>2, <3>1, SentUnsent DEF SendCommand, Sent
  <2> QED
    BY <1>1, <2>1, <2>2, Ensures DEF SendCommand, After
<1>2. ASSUME NEW p \in Tasks, SendEvent(p)
      PROVE  Unsent'
  <2>1. CASE coreState \in StartingStates
    <3>1. /\ queue' = Append(queue, p) /\ p \in Events /\ pc[p] = "idle"
          /\ pc' = [pc EXCEPT ![p] = "done"] /\ UNCHANGED <<pos, carry, sent>>
      BY <1>2, <2>1 DEF SendEvent
    <3>2. sent[p] = 0 /\ \A f \in Flushes : pc[f] = "idle" /\ pc'[f] = "idle"
      BY <1>0, <2>1, <3>1 DEF Unsent, StartingStates
    <3>3. \A i \in DOMAIN queue : sent[queue[i]] = 0
      BY <1>0, <3>2 DEF Unsent
    <3>4. \A i \in DOMAIN queue' : sent'[queue'[i]] = 0
      BY <3>1, <3>2, <3>3
    <3> QED
      BY <1>0, <3>1, <3>2, <3>4 DEF Unsent
  <2>2. CASE coreState \notin StartingStates
    <3>1. CASE /\ UNCHANGED <<client, on, sent>>
               /\ pc' = [pc EXCEPT ![p] = "done"] \/ pc' = [pc EXCEPT ![p] = "check"]
      <4>1. Quiet
        BY <1>2, <2>2, <3>1 DEF SendEvent, Quiet
      <4> QED
        BY <1>0, <4>1, QuietUnsent
    <3>2. CASE Sent(p, p)
      <4>1. Message(p) = p
        BY <1>2, <2>2 DEF SendEvent, Message
      <4> QED
        BY <1>0, <1>2, <2>2, <3>2, <4>1, SentUnsent DEF SendEvent, Sent
    <3> QED
      BY <1>2, <2>2, <3>1, <3>2, Ensures DEF SendEvent, After
  <2> QED
    BY <2>1, <2>2
<1>3. ASSUME NEW p \in Tasks, ApiDown(p)
      PROVE  Unsent'
  BY <1>3 DEF ApiDown, After, Settle, Unsent
<1>4. ASSUME NEW p \in Tasks, ApiUp(p)
      PROVE  Unsent'
  <2>1. Message(p) \in Messages
    BY <1>4, MessageSent DEF ApiUp
  <2>2. CASE Connected /\ Send(p, Message(p), client)
    <3>1. Sent(p, Message(p))
      BY <2>1, <2>2, SendSends
    <3> QED
      BY <1>0, <1>4, <3>1, SentUnsent DEF ApiUp, Sent, net
  <2>3. CASE ~Connected
    <3>1. Quiet
      BY <1>4, <2>3 DEF ApiUp, Quiet, net
    <3> QED
      BY <1>0, <3>1, QuietUnsent
  <2> QED
    BY <1>4, <2>2, <2>3 DEF ApiUp
<1>5. ASSUME NEW p \in Tasks, GetClient(p)
      PROVE  Unsent'
  <2>1. Message(p) \in Messages
    BY <1>5, MessageSent DEF GetClient
  <2>2. CASE Connected /\ Send(p, Message(p), client)
    <3>1. Sent(p, Message(p))
      BY <2>1, <2>2, SendSends
    <3> QED
      BY <1>0, <1>5, <3>1, SentUnsent DEF GetClient, Sent, net
  <2>3. CASE ~Connected
    <3>1. Quiet
      BY <1>5, <2>3 DEF GetClient, Quiet, net
    <3> QED
      BY <1>0, <3>1, QuietUnsent
  <2> QED
    BY <1>5, <2>2, <2>3 DEF GetClient
<1>6. ASSUME NEW p \in Tasks, NEW c \in Conns, Connect(p, c)
      PROVE  Unsent'
  <2>1. Message(p) \in Messages
    BY <1>6, MessageSent DEF Connect
  <2>2. /\ sent' \in [Messages -> Nat]
        /\ sent'[Message(p)] <= sent[Message(p)] + 1
        /\ \A m \in Messages \ {Message(p)} : sent'[m] = sent[m]
    BY <1>6, <2>1 DEF Connect
  <2> QED
    BY <1>0, <1>6, <2>2, SentUnsent DEF Connect, net
<1>7. ASSUME NEW p \in Tasks, ConnectFails(p)
      PROVE  Unsent'
  <2>1. /\ UNCHANGED <<queue, pos, carry, sent>> /\ pc[p] \notin {"idle", "done"}
        /\ \/ pc' = [pc EXCEPT ![p] = After(p)]
           \/ pc' = [pc EXCEPT ![p] = "done"] /\ p \notin Flushes
    BY <1>7 DEF ConnectFails, AfterError, Marked, Clear
  <2>2. Quiet
    BY <2>1 DEF Quiet, After
  <2> QED
    BY <1>0, <2>2, QuietUnsent
<1>8. ASSUME NEW p \in Tasks, Reply(p)
      PROVE  Unsent'
  <2>1. /\ UNCHANGED <<queue, pos, carry, sent>> /\ pc[p] \notin {"idle", "done"}
        /\ \/ pc' = [pc EXCEPT ![p] = After(p)]
           \/ pc' = [pc EXCEPT ![p] = "done"] /\ p \notin Flushes
    BY <1>8 DEF Reply, AfterError, Marked, Clear
  <2>2. Quiet
    BY <2>1 DEF Quiet, After
  <2> QED
    BY <1>0, <2>2, QuietUnsent
<1>9. ASSUME NEW p \in Tasks, CloseClosed(p)
      PROVE  Unsent'
  BY <1>9 DEF CloseClosed, After, Settle, Unsent
<1>10. ASSUME NEW p \in Tasks, CloseConnected(p)
      PROVE  Unsent'
  BY <1>10 DEF CloseConnected, Fail, net, Unsent
<1>11. ASSUME NEW p \in Tasks, CloseReturns(p)
      PROVE  Unsent'
  BY <1>11 DEF CloseReturns, After, Settle, Marked, Unsent
<1>12. ASSUME NEW f \in Flushes, FlushNext(f)
      PROVE  Unsent'
  <2> DEFINE m == queue[pos[f] + 1]
  <2>1. /\ pos' = [pos EXCEPT ![f] = @ + 1] /\ pos[f] + 1 \in DOMAIN queue
        /\ carry' = [carry EXCEPT ![f] = m] /\ queue' = queue
        /\ pc[f] = "next" /\ f \in Tasks /\ m \in Messages
        /\ EnsureConnected(f, m)
    BY <1>12 DEF FlushNext
  <2>2. \A g \in Flushes : Flushing(g) => g = f
    BY <1>0, <2>1 DEF Unsent
  <2>3. sent[m] = 0 /\ pc[m] = "done"
    BY <1>0, <2>1, <2>2 DEF Unsent, Queued
  <2>4. \/ sent' = sent
        \/ /\ sent' \in [Messages -> Nat] /\ sent'[m] <= 1
           /\ \A n \in Messages \ {m} : sent'[n] = sent[n]
           /\ pc'[f] \in {"reply", "failed"}
    <3>1. CASE Sent(f, m)
      BY <2>1, <2>3, <3>1 DEF Sent
    <3> QED
      BY <2>1, <3>1, Ensures
  <2>5. \E w \in {"next", "check", "reply", "failed"} : pc' = [pc EXCEPT ![f] = w]
    BY <2>1, Ensures DEF After, Sent
  <2>6. /\ \A g, h \in Flushes : Flushing(g)' /\ Flushing(h)' => g = h
        /\ \A g \in Flushes : Flushing(g)' => pos'[g] <= Len(queue')
    BY <2>1, <2>2, <2>5
  <2>7. /\ \A n \in Messages : sent'[n] <= 1
        /\ \A n \in Messages : pc'[n] \in {"idle"} \cup InHand => sent'[n] = 0
    <3>1. \A n \in Messages : pc'[n] = pc[n]
      BY <2>1, <2>5
    <3> QED
      BY ZenonT(30), <1>0, <2>3, <2>4, <3>1 DEF Unsent
  <2>8. \A g \in Flushes : pc'[g] \in InHand => sent'[carry'[g]] = 0
    BY <2>1, <2>2, <2>3, <2>4, <2>5
  <2>9. ASSUME NEW i \in DOMAIN queue, \A g \in Flushes : Flushing(g)' => pos'[g] < i
        PROVE  sent'[queue[i]] = 0
    <3>1. i > pos[f] + 1
      BY <2>1, <2>5, <2>9
    <3>2. queue[i] # m /\ sent[queue[i]] = 0
      BY <1>0, <2>1, <2>2, <3>1 DEF Unsent, Queued
    <3> QED
      BY <2>4, <3>2
  <2> QED
    BY <2>1, <2>6, <2>7, <2>8, <2>9 DEF Unsent
<1>13. ASSUME NEW f \in Flushes, FlushEnds(f)
      PROVE  Unsent'
  BY <1>13 DEF FlushEnds, Unsent
<1>14. ASSUME NEW f \in Flushes, SetRunning(f)
      PROVE  Unsent'
  BY <1>14 DEF SetRunning, Marked, Unsent
<1>15. ASSUME NEW c \in Conns, Drop(c)
      PROVE  Unsent'
  BY <1>15 DEF Drop, net, Unsent
<1>16. ASSUME NEW c \in Conns, ListenerEnds(c)
      PROVE  Unsent'
  BY <1>16 DEF ListenerEnds, Fail, net, Unsent
<1>17. CASE SetFreeze
  BY <1>17 DEF SetFreeze, Unsent
<1>18. CASE SetClosing
  BY <1>18 DEF SetClosing, Unsent
<1> QED
  BY <1>1, <1>2, <1>3, <1>4, <1>5, <1>6, <1>7, <1>8, <1>9, <1>10, <1>11, <1>12, <1>13,
      <1>14, <1>15, <1>16, <1>17, <1>18 DEF Next, Step, Flush

-----------------------------------------------------------------------------
(* Theorems                                                                *)

LEMMA InitOK == ASSUME WebSocketAssumption, Init PROVE IInv
<1> USE DEF WebSocketAssumption, Init
<1>1. DataTypes
  BY DEF DataTypes, Tasks, Messages, Conns, Places, ConnStates
<1>2. OneConnects /\ Answerable /\ OpenIsClient
  BY DEF OneConnects, Answerable, OpenIsClient, Connected, Conns, Tasks, Messages
<1>3. Queued /\ FlushPlaces /\ Carried
  BY DEF Queued, FlushPlaces, Carried, Tasks, Messages
<1>4. Passed
  BY DEF Passed, ToSet
<1>5. Unsent
  BY DEF Unsent, InHand, Flushing, Tasks, Messages
<1> QED
  BY <1>1, <1>2, <1>3, <1>4, <1>5 DEF IInv

LEMMA StutterOK == ASSUME IInv, UNCHANGED vars PROVE IInv'
<1> USE DEF vars, IInv
<1>1. DataTypes' /\ OneConnects' /\ Answerable' /\ OpenIsClient'
  BY DEF DataTypes, OneConnects, Answerable, OpenIsClient, Connected
<1>2. Queued' /\ FlushPlaces' /\ Carried' /\ Passed'
  BY DEF Queued, FlushPlaces, Carried, Passed, Flushing, ToSet
<1>3. Clear' => Unsent'
  BY DEF Clear, Unsent, Flushing
<1> QED
  BY <1>1, <1>2, <1>3

(* The inductive invariant holds of every behaviour.                       *)
THEOREM Invariance == Spec => []IInv
<1>1. Init => IInv
  BY WebSocketAssumption, InitOK
<1>2. IInv /\ [Next]_vars => IInv'
  <2> SUFFICES ASSUME IInv, [Next]_vars
               PROVE  IInv'
    OBVIOUS
  <2>1. CASE Next
    BY <2>1, WebSocketAssumption, DataTypesKept, OneConnectsKept, AnswerableKept,
       OpenIsClientKept, QueuedKept, FlushPlacesKept, CarriedKept, PassedKept, UnsentKept
       DEF IInv
  <2>2. CASE UNCHANGED vars
    BY <2>2, StutterOK
  <2> QED
    BY <2>1, <2>2
<1> QED
  BY <1>1, <1>2, PTL DEF Spec

(* Types, and one connection attempt at a time (_get_ws_client).           *)
THEOREM TypeCorrect == Spec => []WSTypeOK
<1>1. IInv => WSTypeOK
  BY DEF IInv, DataTypes, OneConnects, WSTypeOK, Places, ConnStates
<1> QED
  BY <1>1, Invariance, PTL

(* Nobody waits for an answer on a connection whose listener has ended     *)
(* (WSClient.close, connected).                                            *)
THEOREM NobodyOrphaned == Spec => []NoOrphanCaller
<1>1. IInv => NoOrphanCaller
  BY DEF IInv, Answerable, NoOrphanCaller
<1> QED
  BY <1>1, Invariance, PTL

(* An open connection is the client's, unless a caller that closed a       *)
(* client was overtaken (_get_ws_client, async_send_command).              *)
THEOREM OneConnection == Spec => []OpenIsClient
<1>1. IInv => OpenIsClient
  BY DEF IInv
<1> QED
  BY <1>1, Invariance, PTL

(* A message is sent once, unless flushes overlap or raise, and clearing   *)
(* the queue loses none (_process_queue).                                  *)
THEOREM SentOnce == Spec => []QueueSentOnce
<1>1. IInv => QueueSentOnce
  <2> SUFFICES ASSUME IInv
               PROVE  QueueSentOnce
    OBVIOUS
  <2>1. ASSUME NEW m \in Messages, sent[m] > 1
        PROVE  "blurred" \in marks
    BY <2>1 DEF IInv, DataTypes, Clear, Unsent
  <2> QED
    BY <2>1 DEF IInv, Passed, QueueSentOnce
<1> QED
  BY <1>1, Invariance, PTL

=============================================================================
